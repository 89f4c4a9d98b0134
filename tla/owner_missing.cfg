SPECIFICATION Spec
CONSTANTS
    User = {u1, u2, u3}
    Worker = {w1}
    Requests = {"add","modify","remove","put","leave"}
    MaxRequests = 6
    Outside = Outside
    None = None
SYMMETRY Symmetry
PROPERTY OwnerEnsured
CHECK_DEADLOCK FALSE
