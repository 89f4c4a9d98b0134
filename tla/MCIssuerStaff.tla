--------------------------- MODULE MCIssuerStaff ---------------------------
(* The instances of IssuerStaff that TLC checks. *)
EXTENDS IssuerStaff, TLC

\* Users differ only in what requests make of them, and workers are alike.
Symmetry == Permutations(User) \cup Permutations(Worker)

=============================================================================
