---------------------------- MODULE DegreeLedger ----------------------------
(***************************************************************************)
(* What the awarding of badges promises, without its workers: a ledger of  *)
(* assertions that issuers and learning paths write to.  A learning path   *)
(* writes only the degrees that the recipient has earned, and an entry is  *)
(* never removed or altered except that it may be revoked, once.           *)
(*                                                                         *)
(* A degree is earned when the recipient has been awarded enough of the    *)
(* badges of the path.  The terms of a path can change while a degree is   *)
(* being issued, so the ledger keeps every badge and every required count  *)
(* that the path has had; a degree has to satisfy one of the counts.       *)
(***************************************************************************)
EXTENDS Integers, Sequences, FiniteSets

CONSTANTS Badge, LP, Recipient, Part, Awardable, InitPath, InitMembers, None

VARIABLES assertion,     \* the ledger
          everMembers,   \* every badge that has been a member of a path
          everRequired   \* every required_badges_count a path has had

vars == <<assertion, everMembers, everRequired>>

\* The badges, of those that have ever been in path l, that recipient r has
\* ever been awarded.
Collected(l, r) ==
    {b \in everMembers[l] :
        \E i \in DOMAIN assertion : /\ assertion[i].badge = b
                                    /\ assertion[i].rcpt = r}

\* r has collected enough for some required_badges_count that l has had.
Earned(l, r) == \E n \in everRequired[l] : Cardinality(Collected(l, r)) >= n

Init == /\ assertion = <<>>
        /\ everMembers = InitMembers
        /\ everRequired = [l \in LP |-> {InitPath[l].required}]

Write(b, r, via) ==
    assertion' = Append(assertion, [badge |-> b, rcpt |-> r, via |-> via,
                                    revoked |-> FALSE])

\* An issuer awards a badge.
Award(b, r) ==
    /\ Write(b, r, None)
    /\ UNCHANGED <<everMembers, everRequired>>

\* A learning path awards its micro degree.
Grant(l, r) ==
    /\ Earned(l, r)
    /\ Write(Part[l], r, l)
    /\ UNCHANGED <<everMembers, everRequired>>

Revoke(i) ==
    /\ ~assertion[i].revoked
    /\ assertion' = [assertion EXCEPT ![i].revoked = TRUE]
    /\ UNCHANGED <<everMembers, everRequired>>

\* A badge is added to a path.
Include(l, b) ==
    /\ everMembers' = [everMembers EXCEPT ![l] = @ \cup {b}]
    /\ UNCHANGED <<assertion, everRequired>>

\* A path is saved with a required_badges_count of n.
Require(l) ==
    /\ \E n \in everRequired'[l] \cap Nat :
         everRequired' = [everRequired EXCEPT ![l] = @ \cup {n}]
    /\ UNCHANGED <<assertion, everMembers>>

Next == \/ \E b \in Awardable, r \in Recipient : Award(b, r)
        \/ \E l \in LP, r \in Recipient : Grant(l, r)
        \/ \E i \in DOMAIN assertion : Revoke(i)
        \/ \E l \in LP, b \in Badge : Include(l, b)
        \/ \E l \in LP : Require(l)

Spec == Init /\ [][Next]_vars
=============================================================================
