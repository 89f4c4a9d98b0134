--------------------------- MODULE StaffRequests ---------------------------
(***************************************************************************)
(* Requests of users to become staff of an issuer, beside the staff list    *)
(* itself (IssuerStaff).  A user asks and may withdraw the request; editors *)
(* of the issuer confirm or reject it.  The handlers of a request run in    *)
(* threads of their own, Clients; each loads the row, looks at its status   *)
(* and saves the whole row.                                                 *)
(***************************************************************************)
EXTENDS IssuerStaff

CONSTANTS
    Client,         \* request threads that handle staff requests
    MaxAsked        \* bound: how many staff requests are created

ASSUME RequestsConstants == MaxAsked \in Nat /\ IsFiniteSet(Client)

VARIABLES
    rows,           \* IssuerStaffRequest rows by primary key; None without a row
    asked,          \* number of rows that have been created
    doing,          \* the next statement of a client
    held            \* the row that a client is working on

requestVars == <<rows, asked, doing, held>>
allVars == <<vars, requestVars>>

Key == 1..MaxAsked
Status == {"Pending", "Approved", "Rejected", "Revoked"}
Row == [user : User, status : Status, revoked : BOOLEAN]
Held == [key : Key \cup {0}, row : Row]

Exists(k) == rows[k] # None
HasStatus(k, s) == Exists(k) /\ rows[k].status = s

Then(c, step) == doing' = [doing EXCEPT ![c] = step]

----------------------------------------------------------------------------
(* BadgeUserStaffRequestList.post: no pending request of the user, not on   *)
(* the staff, then the new row.                                             *)

\* Mutant: nobody looks for a pending request.
AskAgain(c) == \E u \in users :
    /\ doing[c] = "idle"
    /\ held' = [held EXCEPT ![c] =
          [key |-> 0, row |-> [user |-> u, status |-> "Pending", revoked |-> FALSE]]]
    /\ Then(c, "member")
    /\ UNCHANGED <<rows, asked>>

Ask(c) == \E u \in users :
    /\ doing[c] = "idle"
    /\ ~ \E k \in Key : HasStatus(k, "Pending") /\ rows[k].user = u
    /\ held' = [held EXCEPT ![c] =
          [key |-> 0, row |-> [user |-> u, status |-> "Pending", revoked |-> FALSE]]]
    /\ Then(c, "member")
    /\ UNCHANGED <<rows, asked>>

CheckMember(c) ==
    /\ doing[c] = "member"
    /\ Then(c, IF role[held[c].row.user] = None THEN "create" ELSE "idle")
    /\ UNCHANGED <<rows, asked, held>>

\* The account may be gone (foreign key).
Create(c) ==
    /\ doing[c] = "create"
    /\ IF held[c].row.user \in users
       THEN /\ asked < MaxAsked
            /\ asked' = asked + 1
            /\ rows' = [rows EXCEPT ![asked'] = held[c].row]
       ELSE UNCHANGED <<rows, asked>>
    /\ Then(c, "idle")
    /\ UNCHANGED held

----------------------------------------------------------------------------
(* Answers. *)

\* The row is loaded and passes the check of the handler; `row' is what the
\* handler makes of it.
Change(c, k, row) ==
    /\ doing[c] = "idle"
    /\ held' = [held EXCEPT ![c] = [key |-> k, row |-> row]]
    /\ Then(c, "save")
    /\ UNCHANGED <<rows, asked>>

\* IssuerStaffRequestConfirm.put.  The staff list is not touched.
Confirm(c) == \E k \in Key :
    HasStatus(k, "Pending") /\ Change(c, k, [rows[k] EXCEPT !.status = "Approved"])

\* IssuerStaffRequestDetail.delete.
Reject(c) == \E k \in Key :
    HasStatus(k, "Pending") /\ Change(c, k, [rows[k] EXCEPT !.status = "Rejected"])

\* BadgeUserStaffRequestDetail.delete and IssuerStaffRequest.revoke, which
\* looks at `revoked' only.
Withdraw(c) == \E k \in Key :
    /\ Exists(k) /\ ~rows[k].revoked
    /\ Change(c, k, [rows[k] EXCEPT !.status = "Revoked", !.revoked = TRUE])

\* Mutant: answers are saved with update_fields=("status",).
SaveStatus(c) ==
    /\ doing[c] = "save"
    /\ IF held[c].row.user \in users /\ Exists(held[c].key)
       THEN rows' = IF held[c].row.revoked
                    THEN [rows EXCEPT ![held[c].key] = held[c].row]
                    ELSE [rows EXCEPT ![held[c].key].status = held[c].row.status]
       ELSE UNCHANGED rows
    /\ Then(c, "idle")
    /\ UNCHANGED <<asked, held>>

\* save() writes the whole row, and inserts it again if it is gone, unless
\* the account that it names is gone, too.
SaveRequest(c) ==
    /\ doing[c] = "save"
    /\ IF held[c].row.user \in users
       THEN rows' = [rows EXCEPT ![held[c].key] = held[c].row]
       ELSE UNCHANGED rows
    /\ Then(c, "idle")
    /\ UNCHANGED <<asked, held>>

----------------------------------------------------------------------------

RequestsInit ==
    /\ Init
    /\ rows = [k \in Key |-> None]
    /\ asked = 0
    /\ doing = [c \in Client |-> "idle"]
    /\ held \in [Client -> {[key |-> 0, row |-> [user |-> u, status |-> "Pending",
                             revoked |-> FALSE]] : u \in creators}]

Handle(c) == Ask(c) \/ CheckMember(c) \/ Create(c) \/ Confirm(c) \/ Reject(c)
                 \/ Withdraw(c) \/ SaveRequest(c)

\* Mutant: the rows stay.
NotCascaded == rows' = rows

\* The rows of a user go with the account (on_delete CASCADE).
Cascaded == rows' = [k \in Key |-> IF Exists(k) /\ rows[k].user \in users \ users'
                                   THEN None ELSE rows[k]]

RequestsNext ==
    \/ \E c \in Client : Handle(c) /\ UNCHANGED vars
    \/ Next /\ Cascaded /\ UNCHANGED <<asked, doing, held>>

RequestsSpec == RequestsInit /\ [][RequestsNext]_allVars

----------------------------------------------------------------------------
(* Properties. *)

RequestsTypeOK ==
    /\ TypeOK
    /\ rows \in [Key -> Row \cup {None}]
    /\ asked \in 0..MaxAsked
    /\ doing \in [Client -> {"idle", "member", "create", "save"}]
    /\ held \in [Client -> Held]
    /\ \A k \in Key : Exists(k) => rows[k].user \in users

\* A request has the status Revoked just if its `revoked' flag is set, even if
\* an answer and a withdrawal overwrite each other: the lists that users and
\* editors see filter by either of the two.
RevokedAgrees == \A k \in Key :
    Exists(k) => (rows[k].revoked <=> rows[k].status = "Revoked")

Pending(u) == {k \in Key : HasStatus(k, "Pending") /\ rows[k].user = u}

\* "There is still an open request of yours for this institution": a user has
\* at most one pending request.
OnePending == \A u \in User : Cardinality(Pending(u)) <= 1

\* What the unlocked check of BadgeUserStaffRequestList.post achieves: a user
\* never has more pending requests than clients can overlap, so just one when
\* requests come one after the other; and no late save reopens an answered
\* request.
PendingBounded == \A u \in User : Cardinality(Pending(u)) <= Cardinality(Client)

----------------------------------------------------------------------------
(* The inductive invariant behind PendingBounded. *)

\* The clients that have found no pending request of u and are about to create
\* one.
Asking(u) == {c \in Client :
    doing[c] \in {"member", "create"} /\ held[c].row.user = u}

\* A client that finds no pending request of u joins Asking(u), and leaves it
\* by creating at most one; what the others save is an answer.
PendingInv ==
    /\ \A u \in User :
        Cardinality(Pending(u)) + Cardinality(Asking(u)) <= Cardinality(Client)
    /\ \A c \in Client : doing[c] = "save" => held[c].row.status # "Pending"

============================================================================
