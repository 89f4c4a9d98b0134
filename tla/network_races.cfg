SPECIFICATION Spec
CONSTANTS
    Network = {n1}
    Issuer = {i1, i2, i3}
    Badge = {b1}
    Owner <- MCOwner
    Invitation = {k1, k2, k3, k4}
    Worker = {w1, w2}
    MaxMembers = 1
    None = None
SYMMETRY Symmetry
INVARIANT NetworksTypeOK
INVARIANT PendingBounded
INVARIANT OvershootBounded
