-------------------------- MODULE MCLearningPaths --------------------------
(* Instances of LearningPaths for TLC. *)
EXTENDS LearningPaths, TLC

CONSTANTS a, b, p, q,   \* badges: two ordinary ones, two participation badges
          basic,        \* the learning path a, b |-> p
          master        \* the learning path p |-> q, nested on basic

MCPart == basic :> p @@ master :> q

MCMembers == basic :> {a, b} @@ master :> {p}

\* basic is active from the start, master is not.
MCPath == basic :> [activated |-> TRUE, archived |-> FALSE, required |-> 2]
       @@ master :> [activated |-> FALSE, archived |-> FALSE, required |-> 1]

\* basic is not active either.
MCDormant == [MCPath EXCEPT ![basic].activated = FALSE]

Toggle(n) == [activated : BOOLEAN, required : {n}, replace : {FALSE},
              badges : {{}}]

\* Activate or deactivate a path that needs one badge, keep its badges.
MCToggle == Toggle(1)

\* Activate, with one or two badges required.
MCActivate == {f \in Toggle(1) \cup Toggle(2) : f.activated}

\* Replace the badges by one or two, all of which are required, and activate.
MCReplace == {f \in [activated : {TRUE}, required : {1, 2}, replace : {TRUE},
                     badges : {{b}, {a, b}}] : f.required = Cardinality(f.badges)}

Workers == Permutations(Worker)
=============================================================================
