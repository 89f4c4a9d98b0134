SPECIFICATION FairSpec
CONSTANTS
  a = a
  b = b
  p = p
  q = q
  basic = basic
  master = master
  Badge = {a, b, p, q}
  LP = {basic, master}
  Recipient = {r1}
  Verified = {r1}
  Worker = {w1, w2}
  Part <- MCPart
  InitPath <- MCDormant
  InitMembers <- MCMembers
  Awardable = {a, b}
  Forms <- MCActivate
  Requests = {"award", "edit", "archive", "revoke"}
  MaxRequests = 3
  None = None
INVARIANT NoMissedDegree
PROPERTY EventuallyAwarded
