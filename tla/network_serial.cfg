SPECIFICATION Spec
CONSTANTS
    Network = {n1, n2}
    Issuer = {i1, i2, i3}
    Badge = {b1}
    Owner <- MCOwner
    Invitation = {k1, k2, k3}
    Worker = {w1}
    MaxMembers = 2
    None = None
SYMMETRY Symmetry
INVARIANT QuotaKept
INVARIANT OnePending
INVARIANT MemberInvited
INVARIANT OneShare
PROPERTY RevokedIsFinal
PROPERTY ImplementsPartnership
