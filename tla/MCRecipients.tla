---------------------------- MODULE MCRecipients ----------------------------
(* The instances of Recipients that TLC checks. *)
EXTENDS Recipients, TLC

\* All assertions are awarded to one address.
MCRecipient == [a \in Assertion |-> CHOOSE x \in Address : TRUE]

=============================================================================
