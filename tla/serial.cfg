SPECIFICATION Spec
CONSTANTS
  a = a
  b = b
  p = p
  q = q
  basic = basic
  master = master
  Badge = {a, b, p, q}
  LP = {basic, master}
  Recipient = {r1}
  Verified = {r1}
  Worker = {w1}
  Part <- MCPart
  InitPath <- MCPath
  InitMembers <- MCMembers
  Awardable = {a, b, p}
  Forms <- MCToggle
  Requests = {"award", "edit", "archive", "revoke"}
  MaxRequests = 4
  None = None
INVARIANTS AwardedOnce CacheFresh
PROPERTIES ArchivedDegreesKept ArchiveIsFinal
