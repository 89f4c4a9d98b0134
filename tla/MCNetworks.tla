----------------------------- MODULE MCNetworks -----------------------------
(* The instances of Networks that TLC checks. *)
EXTENDS Networks, TLC

\* All badge classes belong to one issuer.
MCOwner == [b \in Badge |-> CHOOSE i \in Issuer : TRUE]

Symmetry == Permutations(Invitation) \cup Permutations(Worker)
    \cup Permutations(Issuer \ {MCOwner[b] : b \in Badge})

=============================================================================
