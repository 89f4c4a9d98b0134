-------------------------- MODULE MCStaffRequests --------------------------
(* The instances of StaffRequests that TLC checks. *)
EXTENDS StaffRequests, TLC

Symmetry == Permutations(User) \cup Permutations(Client)

=============================================================================
