---------------------------- MODULE Partnership ----------------------------
(***************************************************************************)
(* What networks promise, without invitations as rows, requests and their   *)
(* statements: an issuer is nothing to a network, invited by it, or its     *)
(* partner.  An issuer becomes a partner by accepting an invitation that    *)
(* stands, or by founding the network; a network never has more partners    *)
(* and invited issuers than its quota; a partner shares each of its badge   *)
(* classes with one network, for good.                                      *)
(***************************************************************************)
EXTENDS Integers, FiniteSets

CONSTANTS Network, Issuer, Badge, Owner, MaxMembers

VARIABLES founded,    \* the networks that exist
          relation,   \* what issuer i is to network n
          shared      \* the networks that a badge class is shared with

vars == <<founded, relation, shared>>

Related(n) == {i \in Issuer : relation[n][i] # "none"}

Becomes(n, i, r) == relation' = [relation EXCEPT ![n][i] = r]

Init == /\ founded = {}
        /\ relation = [n \in Network |-> [i \in Issuer |-> "none"]]
        /\ shared = [b \in Badge |-> {}]

\* A network opens without partners.
Open(n) == /\ n \notin founded
           /\ founded' = founded \cup {n}
           /\ UNCHANGED <<relation, shared>>

\* A network is founded by an issuer, its first partner; the quota is not
\* asked.
Found(n, i) == /\ n \notin founded /\ Related(n) = {}
               /\ founded' = founded \cup {n}
               /\ Becomes(n, i, "partner")
               /\ UNCHANGED shared

Invite(n, S) == /\ n \in founded
                /\ \A i \in S : relation[n][i] # "partner"
                /\ Cardinality(Related(n) \cup S) <= MaxMembers
                /\ relation' = [relation EXCEPT ![n] =
                      [i \in Issuer |-> IF i \in S THEN "invited" ELSE @[i]]]
                /\ UNCHANGED <<founded, shared>>

Accept(n, i) == /\ relation[n][i] = "invited"
                /\ Becomes(n, i, "partner")
                /\ UNCHANGED <<founded, shared>>

\* The network withdraws its invitation.
Withdraw(n, i) == /\ relation[n][i] = "invited"
                  /\ Becomes(n, i, "none")
                  /\ UNCHANGED <<founded, shared>>

\* The network parts with a partner.
Part(n, i) == /\ relation[n][i] = "partner"
              /\ Becomes(n, i, "none")
              /\ UNCHANGED <<founded, shared>>

Share(b, n) == /\ relation[n][Owner[b]] = "partner"
               /\ shared[b] = {}
               /\ shared' = [shared EXCEPT ![b] = {n}]
               /\ UNCHANGED <<founded, relation>>

Next == \E n \in Network :
    \/ Open(n)
    \/ \E i \in Issuer :
          Found(n, i) \/ Accept(n, i) \/ Withdraw(n, i) \/ Part(n, i)
    \/ \E S \in SUBSET Issuer : Invite(n, S)
    \/ \E b \in Badge : Share(b, n)

Spec == Init /\ [][Next]_vars
=============================================================================
