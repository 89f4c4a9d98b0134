SPECIFICATION FairSpec
CONSTANTS
    User = {u1, u2}
    Address = {x1}
    Assertion = {a1}
    Recipient <- MCRecipient
    Client = {c1}
    Awarder = {i1}
    Worker = {w1}
    MaxChanges = 5
    Nobody = Nobody
    Unissued = Unissued
INVARIANT RecipientsTypeOK
INVARIANT OwnersProven
 
 
CHECK_DEADLOCK FALSE
