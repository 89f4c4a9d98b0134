SPECIFICATION Spec
CONSTANTS
    User = {u1, u2, u3}
    Worker = {w1, w2}
    Requests = {"add","modify","remove","leave"}
    MaxRequests = 4
    Outside = Outside
    None = None
SYMMETRY Symmetry
INVARIANT TypeOK
INVARIANT RolesAsGranted
CHECK_DEADLOCK FALSE
