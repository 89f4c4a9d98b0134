SPECIFICATION RequestsSpec
CONSTANTS
    User = {u1, u2}
    Worker = {w1}
    Client = {c1, c2}
    Requests = {"add", "remove", "leave"}
    MaxRequests = 2
    MaxAsked = 3
    Outside = Outside
    None = None
SYMMETRY Symmetry
INVARIANT RequestsTypeOK
INVARIANT RevokedAgrees
INVARIANT PendingBounded
CHECK_DEADLOCK FALSE
