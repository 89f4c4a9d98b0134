SPECIFICATION Spec
CONSTANTS
  a = a
  b = b
  p = p
  q = q
  basic = basic
  master = master
  Badge = {a, b, p, q}
  LP = {basic, master}
  Recipient = {r1}
  Verified = {r1}
  Worker = {w1, w2}
  Part <- MCPart
  InitPath <- MCPath
  InitMembers <- MCMembers
  Awardable = {a, b}
  Forms <- MCReplace
  Requests = {"award", "edit", "archive", "revoke"}
  MaxRequests = 4
  None = None
INVARIANTS TypeOK DuplicatesBounded DegreesEarned
PROPERTY ImplementsLedger
SYMMETRY Workers
