----------------------------- MODULE Recipients -----------------------------
(***************************************************************************)
(* Email addresses of users and the assertions that were awarded to them.   *)
(* A user registers an address and verifies it; the assertions awarded to   *)
(* it then get that user.  The views only change the rows of addresses and  *)
(* leave the assertions to tasks, which Celery workers take from a queue:   *)
(* a row is saved before its task is queued, and deleted after.  An award   *)
(* looks up the user itself, some time before it is stored.                 *)
(***************************************************************************)
EXTENDS Integers, Sequences, FiniteSets

CONSTANTS
    User,           \* bound: the accounts that can be made
    Address,        \* the addresses that are followed; accounts may have others
    Assertion,      \* the awards that can be made
    Recipient,      \* the address that an assertion is awarded to
    Client,         \* request threads of users
    Awarder,        \* threads that issue assertions
    Worker,         \* Celery workers
    MaxChanges,     \* bound: requests of users
    Nobody, Unissued

ASSUME RecipientsConstants ==
    /\ Recipient \in [Assertion -> Address]
    /\ MaxChanges \in Nat
    /\ Nobody \notin User /\ Unissued \notin User /\ Nobody # Unissued

VARIABLES
    users,      \* accounts
    made,       \* the primary keys of accounts that have been given out
    row,        \* CachedEmailAddress rows by address and user
    owner,      \* the user of an assertion
    queue,      \* tasks in the broker
    todo,       \* the statements that the request of a client has still to execute
    doing,      \* the next statement of the other threads, and what it has read
    changes,    \* requests of users so far
    proven,     \* history: <<u, x>> if u has ever had x verified
    missed,     \* history: assertions stored too late, see Insert
    troubled    \* history: addresses of two accounts at a time, or of a request
                \* that died half way through a row and its task

vars == <<users, made, row, owner, queue, todo, doing, changes, proven, missed,
          troubled>>

Task == [kind : {"attach", "detach"}, address : Address]
Attach(x) == [kind |-> "attach", address |-> x]
Detach(x) == [kind |-> "detach", address |-> x]

Statement ==
         [do : {"insert"}, user : User, address : Address,
          as : {"unverified", "verified"}]
    \cup [do : {"save"}, user : User, address : Address, as : {"verified"}]
    \cup [do : {"tell"}, task : Task, address : Address]
    \cup [do : {"delete", "erase"}, user : User, address : Address]
    \cup [do : {"hand", "move"}, user : User, address : Address, old : User]
    \cup [do : {"leave", "admit"}, user : User, rest : SUBSET Address]
    \cup [do : {"prune", "join"}, user : User]
    \cup [do : {"claim", "fetch"}, address : Address]

Idle == [at |-> "idle"]

Step == {Idle}
    \cup [at : {"insert"}, user : User \cup {Nobody}, assertion : Assertion]
    \cup [at : {"run"}, task : Task]
    \cup [at : {"update"}, user : User, address : Address]

Registered(x) == {u \in User : row[x][u] # "none"}
Verifiers(x) == {u \in User : row[x][u] = "verified"}

\* get_user_or_none: some user that has x verified.
Found(u, x) == u \in Verifiers(x) \/ (Verifiers(x) = {} /\ u = Nobody)

Begin(t, step) == doing[t] = Idle /\ doing' = [doing EXCEPT ![t] = step]
At(t, label) == doing[t].at = label
Then(t, step) == doing' = [doing EXCEPT ![t] = step]
Done(t) == Then(t, Idle)

\* The statement that client c executes next is s, of the given kind.
Does(c, kind) == todo[c] # <<>> /\ Head(todo[c]).do = kind

Goes(c, statements) ==
    todo' = [todo EXCEPT ![c] = statements \o Tail(todo[c])]

\* The statement raises an exception; the request ends.
Raises(c) == todo' = [todo EXCEPT ![c] = <<>>]

Enqueue(task) == queue' = Append(queue, task)

Init ==
    /\ users \in SUBSET User
    /\ made = users
    /\ row = [x \in Address |-> [u \in User |-> "none"]]
    /\ owner = [a \in Assertion |-> Unissued]
    /\ queue = <<>>
    /\ todo = [c \in Client |-> <<>>]
    /\ doing = [t \in Awarder \cup Worker |-> Idle]
    /\ changes = 0
    /\ proven = {}
    /\ missed = {}
    /\ troubled = {}

----------------------------------------------------------------------------
(* CachedEmailAddress.save, which inserts a new row or writes a loaded one,  *)
(* and CachedEmailAddress.delete.                                            *)

InsertOf(u, x, s) == [do |-> "insert", user |-> u, address |-> x, as |-> s]
SaveOf(u, x) == [do |-> "save", user |-> u, address |-> x, as |-> "verified"]
DeleteOf(u, x) == [do |-> "delete", user |-> u, address |-> x]
EraseOf(u, x) == [do |-> "erase", user |-> u, address |-> x]
TellOf(x, s) == [do |-> "tell", address |-> x,
                 task |-> IF s = "verified" THEN Attach(x) ELSE Detach(x)]

\* The row of user u for address x becomes s.
SetRow(u, x, s) ==
    /\ row' = [row EXCEPT ![x][u] = s]
    /\ proven' = IF s = "verified" THEN proven \cup {<<u, x>>} ELSE proven
    /\ troubled' = IF Registered(x) \subseteq {u} THEN troubled
                   ELSE troubled \cup {x}

\* Mutant: no task is queued for a row that is saved as verified.
WriteSilently(c) ==
    /\ Does(c, "save")
    /\ LET s == Head(todo[c])
       IN IF s.user \in users
          THEN SetRow(s.user, s.address, s.as) /\ Goes(c, <<>>)
          ELSE Raises(c) /\ UNCHANGED <<row, proven, troubled>>
    /\ UNCHANGED <<users, made, owner, queue, doing, changes, missed>>

\* A loaded row is written, which inserts a deleted one again.
Write(c) ==
    /\ Does(c, "save")
    /\ LET s == Head(todo[c])
       IN IF s.user \in users
          THEN SetRow(s.user, s.address, s.as) /\ Goes(c, <<TellOf(s.address, s.as)>>)
          ELSE Raises(c) /\ UNCHANGED <<row, proven, troubled>>
    /\ UNCHANGED <<users, made, owner, queue, doing, changes, missed>>

\* A row is inserted unless the account is gone or has one already.
CreateRow(c) ==
    /\ Does(c, "insert")
    /\ LET s == Head(todo[c])
       IN IF s.user \in users /\ row[s.address][s.user] = "none"
          THEN SetRow(s.user, s.address, s.as) /\ Goes(c, <<TellOf(s.address, s.as)>>)
          ELSE Raises(c) /\ UNCHANGED <<row, proven, troubled>>
    /\ UNCHANGED <<users, made, owner, queue, doing, changes, missed>>

\* The task of a row that has been saved is queued.
Tell(c) ==
    /\ Does(c, "tell")
    /\ Enqueue(Head(todo[c]).task)
    /\ Goes(c, <<>>)
    /\ UNCHANGED <<users, made, row, owner, doing, changes, proven, missed, troubled>>

\* Mutant: the deletion is not announced.
DeleteSilently(c) ==
    /\ Does(c, "delete")
    /\ Goes(c, <<EraseOf(Head(todo[c]).user, Head(todo[c]).address)>>)
    /\ UNCHANGED <<users, made, row, owner, queue, doing, changes, proven, missed,
                   troubled>>

\* The task of a row that is going to be deleted is queued ...
Delete(c) ==
    /\ Does(c, "delete")
    /\ Enqueue(Detach(Head(todo[c]).address))
    /\ Goes(c, <<EraseOf(Head(todo[c]).user, Head(todo[c]).address)>>)
    /\ UNCHANGED <<users, made, row, owner, doing, changes, proven, missed, troubled>>

\* ... and then the row is deleted.
Erase(c) ==
    /\ Does(c, "erase")
    /\ row' = [row EXCEPT ![Head(todo[c]).address][Head(todo[c]).user] = "none"]
    /\ Goes(c, <<>>)
    /\ UNCHANGED <<users, made, owner, queue, doing, changes, proven, missed, troubled>>

----------------------------------------------------------------------------
(* Requests of users. *)

Request(c, statements) ==
    /\ changes < MaxChanges
    /\ changes' = changes + 1
    /\ todo[c] = <<>>
    /\ todo' = [todo EXCEPT ![c] = statements]
    /\ UNCHANGED <<users, row, owner, queue, doing, proven, missed, troubled>>

\* EmailSerializerV1.create: an address that nobody has verified goes to the
\* user that asks last.
Register(c) == \E u \in users, x \in Address :
    /\ \/ /\ Registered(x) = {}
          /\ Request(c, <<InsertOf(u, x, "unverified")>>)
       \/ \E v \in User :
            /\ Registered(x) = {v} /\ row[x][v] = "unverified"
            /\ Request(c, <<DeleteOf(v, x), InsertOf(u, x, "unverified")>>)
    /\ UNCHANGED made

\* BadgeUser.set_email_items loads the unverified row of another user ...
TakeOver(c) == \E u \in users, x \in Address : \E v \in User \ {u} :
    /\ Registered(x) = {v} /\ row[x][v] = "unverified"
    /\ Request(c, <<[do |-> "hand", user |-> u, address |-> x, old |-> v]>>)
    /\ UNCHANGED made

\* ... and saves it with the new user in a transaction: its task is queued ...
HandOver(c) ==
    /\ Does(c, "hand")
    /\ LET s == Head(todo[c])
       IN IF s.user \in users /\ row[s.address][s.user] = "none"
          THEN /\ Enqueue(Detach(s.address))
               /\ Goes(c, <<[s EXCEPT !.do = "move"]>>)
          ELSE Raises(c) /\ UNCHANGED queue
    /\ UNCHANGED <<users, made, row, owner, doing, changes, proven, missed, troubled>>

\* ... and the transaction commits.
Move(c) ==
    /\ Does(c, "move")
    /\ LET s == Head(todo[c])
           x == s.address
       IN IF s.user \in users /\ row[x][s.user] = "none"
          THEN /\ row' = [row EXCEPT ![x] = [@ EXCEPT
                             ![s.old] = "none", ![s.user] = "unverified"]]
               /\ troubled' = IF Registered(x) \subseteq {s.old} THEN troubled
                              ELSE troubled \cup {x}
          ELSE UNCHANGED <<row, troubled>>
    /\ Goes(c, <<>>)
    /\ UNCHANGED <<users, made, owner, queue, doing, changes, proven, missed>>

\* BadgeUserEmailConfirm.get loads the unverified row and saves it as verified.
Confirm(c) == \E u \in users, x \in Address :
    /\ row[x][u] = "unverified"
    /\ Request(c, <<SaveOf(u, x)>>)
    /\ UNCHANGED made

\* BadgeUserEmailDetail.delete
Forget(c) == \E u \in users, x \in Address :
    /\ row[x][u] # "none"
    /\ Request(c, <<DeleteOf(u, x)>>)
    /\ UNCHANGED made

\* BadgeUser.delete: the addresses that the account has, one by one.
Leave(c) == \E u \in users :
    /\ Request(c, <<[do |-> "leave", user |-> u,
                     rest |-> {x \in Address : row[x][u] # "none"}]>>)
    /\ UNCHANGED made

LeaveAddress(c) ==
    /\ Does(c, "leave")
    /\ LET s == Head(todo[c])
       IN \E x \in s.rest :
            /\ Enqueue(Detach(x))
            /\ Goes(c, <<EraseOf(s.user, x), [s EXCEPT !.rest = @ \ {x}]>>)
    /\ UNCHANGED <<users, made, row, owner, doing, changes, proven, missed, troubled>>

\* Mutant: the assertions of the account keep their user.
DropKeeping(c) ==
    /\ Does(c, "leave") /\ Head(todo[c]).rest = {}
    /\ LET u == Head(todo[c]).user
       IN /\ users' = users \ {u}
          /\ row' = [x \in Address |-> [row[x] EXCEPT ![u] = "none"]]
    /\ Goes(c, <<>>)
    /\ UNCHANGED <<made, owner, queue, doing, changes, proven, missed, troubled>>

\* Then the account.  The database deletes the addresses that it has got since
\* (CASCADE) and empties the user of its assertions (SET_NULL).
DropAccount(c) ==
    /\ Does(c, "leave") /\ Head(todo[c]).rest = {}
    /\ LET u == Head(todo[c]).user
       IN /\ users' = users \ {u}
          /\ row' = [x \in Address |-> [row[x] EXCEPT ![u] = "none"]]
          /\ owner' = [a \in Assertion |->
                          IF owner[a] = u THEN Nobody ELSE owner[a]]
    /\ Goes(c, <<>>)
    /\ UNCHANGED <<made, queue, doing, changes, proven, missed, troubled>>

----------------------------------------------------------------------------
(* Accounts that are made: BadgeUserManager.create and saml2_new_account.    *)

\* The statements that make account u with address x.
AccountOf(u, x) == <<[do |-> "claim", address |-> x], [do |-> "join", user |-> u],
                     InsertOf(u, x, "unverified")>>

\* What a request starts with that makes account u.
Make(c, u, statements) ==
    /\ u \notin made
    /\ made' = made \cup {u}
    /\ Request(c, statements)

\* Somebody signs up.
SignUp(c) == \E u \in User, x \in Address : Make(c, u, AccountOf(u, x))

\* Verified rows for all the addresses of S.
Admit(u, S) == IF S = {} THEN <<>>
               ELSE <<[do |-> "admit", user |-> u, rest |-> S]>>

\* A SAML login with addresses S that nobody has verified makes an account with
\* the first of them, inserts the others as verified, and verifies the first,
\* which may be an address that is not followed here.
Login(c) == \E u \in User, S \in (SUBSET Address) \ {{}} :
    /\ \A x \in S : Verifiers(x) = {}
    /\ \/ \E x \in S : Make(c, u, AccountOf(u, x) \o Admit(u, S \ {x})
                                 \o <<[do |-> "fetch", address |-> x]>>)
       \/ Make(c, u, <<[do |-> "join", user |-> u]>> \o Admit(u, S))

\* A SAML login with a known account or an access token, whose addresses are
\* nobody's yet: they are verified from the start.
Provision(c) == \E u \in users, S \in (SUBSET Address) \ {{}} :
    /\ \A x \in S : Registered(x) = {}
    /\ Request(c, Admit(u, S))
    /\ UNCHANGED made

\* The address must be nobody's, or be taken from a user who has not verified it
\* and who is deleted if it was the only one.
Claim(c) ==
    /\ Does(c, "claim")
    /\ LET x == Head(todo[c]).address
       IN IF Registered(x) = {} THEN Goes(c, <<>>)
          ELSE IF Verifiers(x) # {} \/ Cardinality(Registered(x)) # 1 THEN Raises(c)
          ELSE \E v \in Registered(x) :
                  Goes(c, <<DeleteOf(v, x), [do |-> "prune", user |-> v]>>)
    /\ UNCHANGED <<users, made, row, owner, queue, doing, changes, proven, missed,
                   troubled>>

\* An account that has no addresses left, nor others than these, is deleted.
Prune(c) ==
    /\ Does(c, "prune")
    /\ LET v == Head(todo[c]).user
       IN \/ Goes(c, <<>>)
          \/ /\ \A x \in Address : row[x][v] = "none"
             /\ Goes(c, <<[do |-> "leave", user |-> v, rest |-> {}]>>)
    /\ UNCHANGED <<users, made, row, owner, queue, doing, changes, proven, missed,
                   troubled>>

Join(c) ==
    /\ Does(c, "join")
    /\ users' = users \cup {Head(todo[c]).user}
    /\ Goes(c, <<>>)
    /\ UNCHANGED <<made, row, owner, queue, doing, changes, proven, missed, troubled>>

AdmitAddress(c) ==
    /\ Does(c, "admit")
    /\ LET s == Head(todo[c])
       IN \E x \in s.rest :
            Goes(c, <<InsertOf(s.user, x, "verified")>> \o Admit(s.user, s.rest \ {x}))
    /\ UNCHANGED <<users, made, row, owner, queue, doing, changes, proven, missed,
                   troubled>>

\* The row of the first address is looked up by the address alone.
Fetch(c) ==
    /\ Does(c, "fetch")
    /\ LET x == Head(todo[c]).address
       IN IF Cardinality(Registered(x)) = 1
          THEN \E v \in Registered(x) : Goes(c, <<SaveOf(v, x)>>)
          ELSE Raises(c)
    /\ UNCHANGED <<users, made, row, owner, queue, doing, changes, proven, missed,
                   troubled>>

----------------------------------------------------------------------------
(* Failures. *)

\* A request is half way through a change of the row for address x: the row is
\* saved and its task not queued, or the task is queued and the row not changed.
HalfWay(c, x) == \/ Does(c, "tell") /\ Head(todo[c]).address = x
                 \/ Does(c, "erase") /\ Head(todo[c]).address = x
                 \/ Does(c, "move") /\ Head(todo[c]).address = x

\* A request dies between two statements: its process is killed, or the broker
\* does not answer.
Crash(c) ==
    /\ todo[c] # <<>>
    /\ Raises(c)
    /\ troubled' = troubled \cup {x \in Address : HalfWay(c, x)}
    /\ UNCHANGED <<users, made, row, owner, queue, doing, changes, proven, missed>>

----------------------------------------------------------------------------
(* BadgeClass.issue *)

\* The user is looked up for the arguments of the insertion.
Issue(i) == \E a \in Assertion, u \in User \cup {Nobody} :
    /\ owner[a] = Unissued
    /\ Found(u, Recipient[a])
    /\ Begin(i, [at |-> "insert", user |-> u, assertion |-> a])
    /\ UNCHANGED <<users, made, row, owner, queue, todo, changes, proven, missed,
                   troubled>>

\* A task about address x has still to run.
Due(x) == \/ \E k \in 1..Len(queue) : queue[k].address = x
          \/ \E w \in Worker : \/ At(w, "run") /\ doing[w].task.address = x
                               \/ At(w, "update") /\ doing[w].address = x

\* The users whose row for x is about to be deleted, its task being queued.
Erased(x) == {u \in User : \E c \in Client :
                 todo[c] # <<>> /\ Head(todo[c]) = EraseOf(u, x)}

\* User u is the right one for an assertion to x, now and after the deletions
\* that have been announced.
Stays(u, x) == \/ u \in Verifiers(x) \ Erased(x)
               \/ u = Nobody /\ Verifiers(x) \subseteq Erased(x)

\* The image is baked, then the assertion is stored, unless its user is gone.
\* The history records the assertions that are stored with a user who is not, or
\* not for long, the right one, after the last task about the address has run.
Insert(i) ==
    /\ At(i, "insert")
    /\ LET a == doing[i].assertion
           u == doing[i].user
       IN IF owner[a] = Unissued /\ u \in users \cup {Nobody}
          THEN /\ owner' = [owner EXCEPT ![a] = u]
               /\ missed' = IF Stays(u, Recipient[a]) \/ Due(Recipient[a])
                            THEN missed ELSE missed \cup {a}
          ELSE UNCHANGED <<owner, missed>>
    /\ Done(i)
    /\ UNCHANGED <<users, made, row, queue, todo, changes, proven, troubled>>

----------------------------------------------------------------------------
(* process_post_recipient_id_verification_change and ..._deletion *)

Take(w) ==
    /\ queue # <<>>
    /\ Begin(w, [at |-> "run", task |-> Head(queue)])
    /\ queue' = Tail(queue)
    /\ UNCHANGED <<users, made, row, owner, todo, changes, proven, missed, troubled>>

\* The update of the user of all assertions to an address.
SetOwner(x, u) == owner' = [a \in Assertion |->
    IF Recipient[a] = x /\ owner[a] # Unissued THEN u ELSE owner[a]]

RunDetach(w) ==
    /\ At(w, "run") /\ doing[w].task.kind = "detach"
    /\ SetOwner(doing[w].task.address, Nobody)
    /\ Done(w)
    /\ UNCHANGED <<users, made, row, queue, todo, changes, proven, missed, troubled>>

\* Mutant: the address need not be verified.
RunAttachUnverified(w) ==
    /\ At(w, "run") /\ doing[w].task.kind = "attach"
    /\ LET x == doing[w].task.address
       IN \/ \E u \in Registered(x) :
                Then(w, [at |-> "update", user |-> u, address |-> x])
          \/ Registered(x) = {} /\ Done(w)
    /\ UNCHANGED <<users, made, row, owner, queue, todo, changes, proven, missed,
                   troubled>>

\* The task looks up who has verified the address; nobody: nothing to do.
RunAttach(w) ==
    /\ At(w, "run") /\ doing[w].task.kind = "attach"
    /\ LET x == doing[w].task.address
       IN \/ \E u \in Verifiers(x) :
                Then(w, [at |-> "update", user |-> u, address |-> x])
          \/ Verifiers(x) = {} /\ Done(w)
    /\ UNCHANGED <<users, made, row, owner, queue, todo, changes, proven, missed,
                   troubled>>

Update(w) ==
    /\ At(w, "update")
    /\ IF doing[w].user \in users
       THEN SetOwner(doing[w].address, doing[w].user)
       ELSE UNCHANGED owner
    /\ Done(w)
    /\ UNCHANGED <<users, made, row, queue, todo, changes, proven, missed, troubled>>

----------------------------------------------------------------------------

Start(c) == Register(c) \/ TakeOver(c) \/ Confirm(c) \/ Forget(c) \/ Leave(c)
              \/ SignUp(c) \/ Login(c) \/ Provision(c)

\* The next statement of a request.
Serve(c) == Write(c) \/ CreateRow(c) \/ Tell(c) \/ Delete(c) \/ Erase(c)
              \/ HandOver(c) \/ Move(c) \/ LeaveAddress(c) \/ DropAccount(c)
              \/ Claim(c) \/ Prune(c) \/ Join(c) \/ AdmitAddress(c) \/ Fetch(c)

RunTasks(w) == Take(w) \/ RunDetach(w) \/ RunAttach(w) \/ Update(w)

Next == \/ \E c \in Client : Start(c) \/ Serve(c) \/ Crash(c)
        \/ \E i \in Awarder : Issue(i) \/ Insert(i)
        \/ \E w \in Worker : RunTasks(w)

Spec == Init /\ [][Next]_vars

\* A request that has begun goes on, unless it dies, and the workers keep running
\* tasks; new requests and awards may stop.
FairSpec == /\ Spec
            /\ \A c \in Client : WF_vars(Serve(c))
            /\ \A w \in Worker : WF_vars(RunTasks(w))

----------------------------------------------------------------------------
(* Properties. *)

RecipientsTypeOK ==
    /\ users \subseteq User /\ made \subseteq User
    /\ row \in [Address -> [User -> {"none", "unverified", "verified"}]]
    /\ \A x \in Address : Registered(x) \subseteq users
    /\ owner \in [Assertion -> users \cup {Nobody, Unissued}]
    /\ queue \in Seq(Task)
    /\ todo \in [Client -> Seq(Statement)]
    /\ doing \in [Awarder \cup Worker -> Step]
    /\ changes \in 0..MaxChanges
    /\ proven \subseteq User \X Address
    /\ missed \subseteq Assertion
    /\ troubled \subseteq Address

\* Whatever the order in which tasks run and rows change, an assertion never
\* gets a user who has never had its address verified.
OwnersProven == \A a \in Assertion :
    owner[a] \in User => <<owner[a], Recipient[a]>> \in proven

----------------------------------------------------------------------------
(* Properties of requests that come one after the other and one worker.     *)

\* No request is in the middle of a change of address x, and no task is left.
Settled(x) == ~Due(x) /\ \A c \in Client : ~HalfWay(c, x)

\* When an address has settled, its assertions belong to a user who has verified
\* it.  They belong to nobody only if there is no such user, or if a request died
\* half way or two accounts had the address at a time.  Excused are assertions
\* that were stored too late, while the address was deleted or after it.
SettledAgree == \A a \in Assertion \ missed :
    owner[a] # Unissued /\ Settled(Recipient[a]) =>
        \/ Found(owner[a], Recipient[a])
        \/ owner[a] = Nobody /\ Recipient[a] \in troubled

\* A user who verifies an address, and keeps it, gets the assertions that were
\* awarded to it, unless a request about it dies half way or two accounts have it.
EventuallyAttached == \A u \in User, a \in Assertion :
    owner[a] # Unissued /\ a \notin missed /\ u \in Verifiers(Recipient[a])
        ~> \/ owner[a] = u \/ u \notin Verifiers(Recipient[a])
           \/ Recipient[a] \in troubled

=============================================================================
