SPECIFICATION FairSpec
CONSTANTS
    x = x
    y = y
    p = p
    q = q
    one = one
    two = two
    Badge = {x, y, p, q}
    LP = {one, two}
    Part <- MCPart
    Contents <- MCContents
    Awardable = {p}
    Worker = {w1, w2}
    MaxRequests = 2
INVARIANT PathLifeTypeOK
INVARIANT TwoLeft
PROPERTY CompletedKept
PROPERTY RequestsEnd
CHECK_DEADLOCK FALSE
