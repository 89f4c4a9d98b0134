----------------------------- MODULE MCPathLife -----------------------------
(* An instance of PathLife for TLC. *)
EXTENDS PathLife, TLC

CONSTANTS x, y,         \* ordinary badge classes
          p, q,         \* participation badges
          one, two      \* the learning paths that award them

MCPart == one :> p @@ two :> q

\* Paths contain ordinary badges and each other's participation badges, or
\* their own.
MCContents == {{x, y}, {x, q}, {p, y}, {p, q, x}, {x, y, q}}

=============================================================================
