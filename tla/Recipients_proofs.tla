-------------------------- MODULE Recipients_proofs --------------------------
(***************************************************************************)
(* Proofs about Recipients.  For any number of requests, awards and workers  *)
(* at a time: the foreign keys hold, and an assertion never gets a user who  *)
(* has never had its address verified.  For requests that come one after     *)
(* the other and one worker: the tasks bring the assertions into agreement   *)
(* with the addresses, because the task that runs last is always right.      *)
(***************************************************************************)
EXTENDS Recipients, TLAPS

States == {"none", "unverified", "verified"}

\* The threads that are not clients.
Thread == Awarder \cup Worker

\* The tables, without the threads and the assertions.
RowsOK ==
    /\ row \in [Address -> [User -> States]]
    /\ \A x \in Address : Registered(x) \subseteq users
    /\ proven \subseteq User \X Address
    /\ \A x \in Address : \A u \in Verifiers(x) : <<u, x>> \in proven

\* What a thread has read of a user and an address was once true.
Reads(t) ==
    /\ At(t, "insert") /\ doing[t].user \in User =>
          <<doing[t].user, Recipient[doing[t].assertion]>> \in proven
    /\ At(t, "update") => <<doing[t].user, doing[t].address>> \in proven

IInv == /\ RecipientsTypeOK
        /\ RowsOK
        /\ OwnersProven
        /\ \A t \in Thread : Reads(t)

----------------------------------------------------------------------------
(* What a thread holds, by the label it is at, and what a statement names.   *)

LEMMA Held ==
    ASSUME NEW t, doing[t] \in Step
    PROVE  /\ At(t, "insert") =>
                 /\ doing[t].user \in User \cup {Nobody}
                 /\ doing[t].assertion \in Assertion
           /\ At(t, "run") => doing[t].task \in Task
           /\ At(t, "update") =>
                 doing[t].user \in User /\ doing[t].address \in Address
<1> DEFINE d == doing[t]
<1>1. CASE d = Idle
  BY <1>1 DEF Idle, At
<1>2. CASE d \in [at : {"insert"}, user : User \cup {Nobody}, assertion : Assertion]
  BY <1>2 DEF At
<1>3. CASE d \in [at : {"run"}, task : Task]
  BY <1>3 DEF At
<1>4. CASE d \in [at : {"update"}, user : User, address : Address]
  BY <1>4 DEF At
<1> QED BY <1>1, <1>2, <1>3, <1>4 DEF Step

LEMMA Names ==
    ASSUME NEW s \in Statement
    PROVE  /\ s.do \in {"insert", "save"} =>
                 /\ s.user \in User /\ s.address \in Address
                 /\ s.as \in {"unverified", "verified"}
                 /\ s.do = "save" => s.as = "verified"
           /\ s.do = "tell" => s.task \in Task /\ s.address \in Address
           /\ s.do \in {"delete", "erase"} => s.user \in User /\ s.address \in Address
           /\ s.do \in {"hand", "move"} =>
                 s.user \in User /\ s.address \in Address /\ s.old \in User
           /\ s.do \in {"leave", "admit"} => s.user \in User /\ s.rest \in SUBSET Address
           /\ s.do \in {"prune", "join"} => s.user \in User
           /\ s.do \in {"claim", "fetch"} => s.address \in Address
<1>1. CASE s \in      [do : {"insert"}, user : User, address : Address,
                        as : {"unverified", "verified"}]
                  \cup [do : {"save"}, user : User, address : Address,
                        as : {"verified"}]
  BY <1>1
<1>2. CASE s \in [do : {"tell"}, task : Task, address : Address]
  BY <1>2
<1>3. CASE s \in [do : {"delete", "erase"}, user : User, address : Address]
  BY <1>3
<1>4. CASE s \in [do : {"hand", "move"}, user : User, address : Address, old : User]
  BY <1>4
<1>5. CASE s \in [do : {"leave", "admit"}, user : User, rest : SUBSET Address]
  BY <1>5
<1>6. CASE s \in [do : {"prune", "join"}, user : User]
  BY <1>6
<1>7. CASE s \in [do : {"claim", "fetch"}, address : Address]
  BY <1>7
<1> QED BY <1>1, <1>2, <1>3, <1>4, <1>5, <1>6, <1>7 DEF Statement

LEMMA Changed ==
    ASSUME NEW s \in Statement, NEW x
    PROVE  /\ s.do = "hand" => [s EXCEPT !.do = "move"] \in Statement
           /\ s.do = "leave" => [s EXCEPT !.rest = @ \ {x}] \in Statement
<1>1. CASE s.do = "hand"
  <2>1. s \in [do : {"hand", "move"}, user : User, address : Address, old : User]
    BY <1>1 DEF Statement
  <2> QED BY <1>1, <2>1 DEF Statement
<1>2. CASE s.do = "leave"
  <2>1. s \in [do : {"leave", "admit"}, user : User, rest : SUBSET Address]
    BY <1>2 DEF Statement
  <2> QED BY <1>2, <2>1 DEF Statement
<1> QED BY <1>1, <1>2

LEMMA Made ==
    ASSUME NEW u \in User, NEW x \in Address
    PROVE  /\ \A s \in {"unverified", "verified"} : InsertOf(u, x, s) \in Statement
           /\ \A s : TellOf(x, s) \in Statement
           /\ SaveOf(u, x) \in Statement
           /\ DeleteOf(u, x) \in Statement
           /\ EraseOf(u, x) \in Statement
           /\ [do |-> "prune", user |-> u] \in Statement
           /\ [do |-> "join", user |-> u] \in Statement
           /\ [do |-> "claim", address |-> x] \in Statement
           /\ [do |-> "fetch", address |-> x] \in Statement
           /\ \A v \in User :
                 [do |-> "hand", user |-> u, address |-> x, old |-> v] \in Statement
<1>1. \A s : TellOf(x, s) \in Statement
  BY DEF TellOf, Statement, Attach, Detach, Task
<1>2. /\ \A s \in {"unverified", "verified"} : InsertOf(u, x, s) \in Statement
      /\ SaveOf(u, x) \in Statement
  BY DEF InsertOf, SaveOf, Statement
<1>3. DeleteOf(u, x) \in Statement /\ EraseOf(u, x) \in Statement
  BY DEF DeleteOf, EraseOf, Statement
<1>4. /\ [do |-> "prune", user |-> u] \in Statement
      /\ [do |-> "join", user |-> u] \in Statement
  BY DEF Statement
<1>5. /\ [do |-> "claim", address |-> x] \in Statement
      /\ [do |-> "fetch", address |-> x] \in Statement
  BY DEF Statement
<1>6. \A v \in User :
         [do |-> "hand", user |-> u, address |-> x, old |-> v] \in Statement
  BY DEF Statement
<1> QED BY <1>1, <1>2, <1>3, <1>4, <1>5, <1>6

LEMMA MadeFor ==
    ASSUME NEW u \in User, NEW S \in SUBSET Address
    PROVE  /\ [do |-> "leave", user |-> u, rest |-> S] \in Statement
           /\ Admit(u, S) \in Seq(Statement)
<1>1. /\ [do |-> "leave", user |-> u, rest |-> S] \in Statement
      /\ [do |-> "admit", user |-> u, rest |-> S] \in Statement
  BY DEF Statement
<1> QED BY <1>1 DEF Admit

----------------------------------------------------------------------------
(* What may happen to the tables. *)

LEMMA RowSet ==
    ASSUME RowsOK, users \subseteq User, troubled \subseteq Address,
           NEW x \in Address, NEW u \in users, NEW s \in States, users' = users,
           SetRow(u, x, s)
    PROVE  RowsOK' /\ proven \subseteq proven' /\ troubled' \subseteq Address
<1>1. row' \in [Address -> [User -> States]]
  BY DEF SetRow, RowsOK
<1>2. proven \subseteq proven' /\ proven' \subseteq User \X Address
  BY DEF SetRow, RowsOK
<1>3. ASSUME NEW y \in Address, NEW v \in User
      PROVE  row'[y][v] = IF y = x /\ v = u THEN s ELSE row[y][v]
  BY DEF SetRow, RowsOK
<1>4. \A y \in Address : Registered(y)' \subseteq users'
  BY <1>3 DEF Registered, RowsOK
<1>5. \A y \in Address : \A v \in Verifiers(y)' : <<v, y>> \in proven'
  BY <1>2, <1>3 DEF Verifiers, RowsOK, SetRow
<1>6. troubled' \subseteq Address
  BY DEF SetRow
<1> QED BY <1>1, <1>2, <1>4, <1>5, <1>6 DEF RowsOK

LEMMA RowsKept ==
    ASSUME RowsOK, UNCHANGED <<row, proven>>, users \subseteq users'
    PROVE  RowsOK' /\ proven \subseteq proven'
  BY DEF RowsOK, Registered, Verifiers

\* Rows only go.
LEMMA RowsGo ==
    ASSUME RowsOK, UNCHANGED <<users, proven>>,
           row' \in [Address -> [User -> States]],
           \A y \in Address : \A v \in User :
              \/ row'[y][v] = row[y][v] \/ row'[y][v] = "none"
              \/ row'[y][v] = "unverified" /\ v \in users
    PROVE  RowsOK' /\ proven \subseteq proven'
<1>1. \A y \in Address : Registered(y)' \subseteq users'
  BY DEF Registered, RowsOK
<1>2. \A y \in Address : \A v \in Verifiers(y)' : <<v, y>> \in proven'
  BY DEF Verifiers, RowsOK
<1> QED BY <1>1, <1>2 DEF RowsOK

\* A step of a client that keeps the assertions.
LEMMA Served ==
    ASSUME IInv, RowsOK', proven \subseteq proven',
           users \subseteq users', users' \subseteq User, made' \subseteq User,
           UNCHANGED <<owner, doing, missed>>, queue' \in Seq(Task),
           todo' \in [Client -> Seq(Statement)],
           changes' \in 0..MaxChanges, troubled' \subseteq Address
    PROVE  IInv'
<1>1. RecipientsTypeOK'
  BY DEF IInv, RecipientsTypeOK, RowsOK, States
<1>2. OwnersProven'
  BY DEF IInv, OwnersProven
<1>3. \A t \in Thread : Reads(t)'
  BY DEF IInv, Reads, At
<1> QED BY <1>1, <1>2, <1>3 DEF IInv

\* The list of a client that goes on.
LEMMA GoesOn ==
    ASSUME IInv, NEW c \in Client, todo[c] # <<>>, NEW ss \in Seq(Statement),
           Goes(c, ss)
    PROVE  /\ todo' \in [Client -> Seq(Statement)]
           /\ todo'[c] = ss \o Tail(todo[c])
<1>1. todo[c] \in Seq(Statement) /\ todo \in [Client -> Seq(Statement)]
  BY DEF IInv, RecipientsTypeOK
<1>2. Tail(todo[c]) \in Seq(Statement)
  BY <1>1
<1>3. ss \o Tail(todo[c]) \in Seq(Statement)
  BY <1>2
<1> QED BY <1>1, <1>3 DEF Goes

LEMMA Proceeds ==
    ASSUME IInv, NEW c \in Client, todo[c] # <<>>, Goes(c, <<>>)
    PROVE  todo' \in [Client -> Seq(Statement)]
<1>1. <<>> \in Seq(Statement)
  OBVIOUS
<1> QED BY <1>1, GoesOn

LEMMA Ends ==
    ASSUME IInv, NEW c \in Client, Raises(c)
    PROVE  todo' \in [Client -> Seq(Statement)] /\ todo'[c] = <<>>
  BY DEF IInv, RecipientsTypeOK, Raises

\* A request that begins reads, and makes a list of statements.
LEMMA Begun ==
    ASSUME IInv, NEW c \in Client, NEW ss \in Seq(Statement), Request(c, ss),
           made' \subseteq User
    PROVE  IInv'
<1>1. changes' \in 0..MaxChanges
  BY RecipientsConstants DEF Request, IInv, RecipientsTypeOK
<1>2. RowsOK' /\ proven \subseteq proven'
  BY RowsKept DEF IInv, Request
<1>3. todo' \in [Client -> Seq(Statement)]
  BY DEF IInv, RecipientsTypeOK, Request
<1> QED BY <1>1, <1>2, <1>3, Served DEF Request, IInv, RecipientsTypeOK

LEMMA StartSound ==
    ASSUME IInv, NEW c \in Client, Start(c)
    PROVE  IInv'
<1>0. users \subseteq User /\ made \subseteq User
  BY DEF IInv, RecipientsTypeOK
<1>1. CASE Register(c)
  <2>1. PICK u \in users, x \in Address :
          \/ Request(c, <<InsertOf(u, x, "unverified")>>)
          \/ \E v \in User :
                Request(c, <<DeleteOf(v, x), InsertOf(u, x, "unverified")>>)
    BY <1>1 DEF Register
  <2>2. InsertOf(u, x, "unverified") \in Statement
    BY <1>0, Made
  <2>3. \A v \in User : DeleteOf(v, x) \in Statement
    BY Made
  <2>4. /\ <<InsertOf(u, x, "unverified")>> \in Seq(Statement)
        /\ \A v \in User :
              <<DeleteOf(v, x), InsertOf(u, x, "unverified")>> \in Seq(Statement)
    BY <2>2, <2>3
  <2> QED BY <1>0, <1>1, <2>1, <2>4, Begun DEF Register
<1>2. CASE TakeOver(c)
  <2>1. PICK u \in users, x \in Address, v \in User :
          Request(c, <<[do |-> "hand", user |-> u, address |-> x, old |-> v]>>)
    BY <1>2 DEF TakeOver
  <2>2. [do |-> "hand", user |-> u, address |-> x, old |-> v] \in Statement
    BY <1>0, Made
  <2>3. <<[do |-> "hand", user |-> u, address |-> x, old |-> v]>> \in Seq(Statement)
    BY <2>2
  <2> QED BY <1>0, <1>2, <2>1, <2>3, Begun DEF TakeOver
<1>3. CASE Confirm(c)
  <2>1. PICK u \in users, x \in Address : Request(c, <<SaveOf(u, x)>>)
    BY <1>3 DEF Confirm
  <2>2. SaveOf(u, x) \in Statement
    BY <1>0, Made
  <2>3. <<SaveOf(u, x)>> \in Seq(Statement)
    BY <2>2
  <2> QED BY <1>0, <1>3, <2>1, <2>3, Begun DEF Confirm
<1>4. CASE Forget(c)
  <2>1. PICK u \in users, x \in Address : Request(c, <<DeleteOf(u, x)>>)
    BY <1>4 DEF Forget
  <2>2. DeleteOf(u, x) \in Statement
    BY <1>0, Made
  <2>3. <<DeleteOf(u, x)>> \in Seq(Statement)
    BY <2>2
  <2> QED BY <1>0, <1>4, <2>1, <2>3, Begun DEF Forget
<1>5. CASE Leave(c)
  <2>1. PICK u \in users, S \in SUBSET Address :
          Request(c, <<[do |-> "leave", user |-> u, rest |-> S]>>)
    BY <1>5 DEF Leave
  <2>2. [do |-> "leave", user |-> u, rest |-> S] \in Statement
    BY <1>0, MadeFor
  <2>3. <<[do |-> "leave", user |-> u, rest |-> S]>> \in Seq(Statement)
    BY <2>2
  <2> QED BY <1>0, <1>5, <2>1, <2>3, Begun DEF Leave
<1>6. ASSUME NEW u \in User, NEW ss \in Seq(Statement), Make(c, u, ss)
      PROVE  IInv'
  BY <1>0, <1>6, Begun DEF Make
<1>7. ASSUME NEW u \in User, NEW x \in Address
      PROVE  AccountOf(u, x) \in Seq(Statement)
  <2>1. /\ [do |-> "claim", address |-> x] \in Statement
        /\ [do |-> "join", user |-> u] \in Statement
        /\ InsertOf(u, x, "unverified") \in Statement
    BY Made
  <2> QED BY <2>1 DEF AccountOf
<1>8. CASE SignUp(c)
  BY <1>6, <1>7, <1>8 DEF SignUp
<1>9. CASE Login(c)
  <2>1. PICK u \in User, S \in SUBSET Address :
          \/ \E x \in S : Make(c, u, AccountOf(u, x) \o Admit(u, S \ {x})
                                 \o <<[do |-> "fetch", address |-> x]>>)
          \/ Make(c, u, <<[do |-> "join", user |-> u]>> \o Admit(u, S))
    BY <1>9 DEF Login
  <2>2. ASSUME NEW x \in S,
               Make(c, u, AccountOf(u, x) \o Admit(u, S \ {x})
                                 \o <<[do |-> "fetch", address |-> x]>>)
        PROVE  IInv'
    <3>1. AccountOf(u, x) \in Seq(Statement) /\ Admit(u, S \ {x}) \in Seq(Statement)
      BY <1>7, MadeFor
    <3>2. [do |-> "fetch", address |-> x] \in Statement
      BY Made
    <3>3. <<[do |-> "fetch", address |-> x]>> \in Seq(Statement)
      BY <3>2
    <3>4. AccountOf(u, x) \o Admit(u, S \ {x})
             \o <<[do |-> "fetch", address |-> x]>> \in Seq(Statement)
      BY <3>1, <3>3
    <3> QED BY <1>6, <2>2, <3>4
  <2>3. CASE Make(c, u, <<[do |-> "join", user |-> u]>> \o Admit(u, S))
    <3>1. [do |-> "join", user |-> u] \in Statement
      BY DEF Statement
    <3>2. Admit(u, S) \in Seq(Statement)
      BY MadeFor
    <3>3. <<[do |-> "join", user |-> u]>> \o Admit(u, S) \in Seq(Statement)
      BY <3>1, <3>2
    <3> QED BY <1>6, <2>3, <3>3
  <2> QED BY <2>1, <2>2, <2>3
<1>10. CASE Provision(c)
  <2>1. PICK u \in users, S \in SUBSET Address : Request(c, Admit(u, S))
    BY <1>10 DEF Provision
  <2>2. Admit(u, S) \in Seq(Statement)
    BY <1>0, MadeFor
  <2> QED BY <1>0, <1>10, <2>1, <2>2, Begun DEF Provision
<1> QED
  BY <1>1, <1>2, <1>3, <1>4, <1>5, <1>8, <1>9, <1>10 DEF Start

----------------------------------------------------------------------------
(* The statements of requests. *)

\* The statement that a client executes next.
LEMMA Statements ==
    ASSUME IInv, NEW c \in Client, todo[c] # <<>>
    PROVE  Head(todo[c]) \in Statement
<1>1. todo[c] \in Seq(Statement)
  BY DEF IInv, RecipientsTypeOK
<1> QED BY <1>1

\* A step that only reads.
LEMMA OnlyReads ==
    ASSUME IInv, todo' \in [Client -> Seq(Statement)],
           UNCHANGED <<users, made, row, owner, queue, doing, changes, proven,
                       missed, troubled>>
    PROVE  IInv'
<1>1. RowsOK' /\ proven \subseteq proven'
  BY RowsKept DEF IInv
<1> QED BY <1>1, Served DEF IInv, RecipientsTypeOK

\* A step that queues a task.
LEMMA OnlyQueues ==
    ASSUME IInv, todo' \in [Client -> Seq(Statement)], NEW task \in Task,
           Enqueue(task),
           UNCHANGED <<users, made, row, owner, doing, changes, proven,
                       missed, troubled>>
    PROVE  IInv'
<1>1. RowsOK' /\ proven \subseteq proven'
  BY RowsKept DEF IInv
<1>2. queue' \in Seq(Task)
  BY DEF Enqueue, IInv, RecipientsTypeOK
<1> QED BY <1>1, <1>2, Served DEF IInv, RecipientsTypeOK

LEMMA SaveSound ==
    ASSUME IInv, NEW c \in Client, Write(c) \/ CreateRow(c)
    PROVE  IInv'
<1> DEFINE s == Head(todo[c])
<1>1. /\ todo[c] # <<>> /\ s.do \in {"insert", "save"}
      /\ UNCHANGED <<users, made, owner, queue, doing, changes, missed>>
      /\ \/ Raises(c) /\ UNCHANGED <<row, proven, troubled>>
         \/ /\ s.user \in users /\ SetRow(s.user, s.address, s.as)
            /\ Goes(c, <<TellOf(s.address, s.as)>>)
  BY DEF Write, CreateRow, Does
<1>2. s \in Statement
  BY <1>1, Statements
<1>3. s.user \in User /\ s.address \in Address /\ s.as \in States
  BY <1>1, <1>2, Names DEF States
<1>4. CASE Raises(c) /\ UNCHANGED <<row, proven, troubled>>
  <2>1. todo' \in [Client -> Seq(Statement)]
    BY <1>4, Ends
  <2> QED BY <1>1, <1>4, <2>1, OnlyReads
<1>5. CASE /\ s.user \in users /\ SetRow(s.user, s.address, s.as)
           /\ Goes(c, <<TellOf(s.address, s.as)>>)
  <2>1. TellOf(s.address, s.as) \in Statement
    BY <1>3, Made
  <2>2. <<TellOf(s.address, s.as)>> \in Seq(Statement)
    BY <2>1
  <2>3. todo' \in [Client -> Seq(Statement)]
    BY <1>1, <1>5, <2>2, GoesOn
  <2>4. users \subseteq User /\ troubled \subseteq Address /\ users' = users
    BY <1>1 DEF IInv, RecipientsTypeOK
  <2>5. RowsOK' /\ proven \subseteq proven' /\ troubled' \subseteq Address
    BY <1>3, <1>5, <2>4, RowSet DEF IInv
  <2> QED BY <1>1, <2>3, <2>4, <2>5, Served DEF IInv, RecipientsTypeOK
<1> QED BY <1>1, <1>4, <1>5

LEMMA QueueSound ==
    ASSUME IInv, NEW c \in Client,
           Tell(c) \/ Delete(c) \/ HandOver(c) \/ LeaveAddress(c)
    PROVE  IInv'
<1> DEFINE s == Head(todo[c])
<1>1. /\ todo[c] # <<>>
      /\ UNCHANGED <<users, made, row, owner, doing, changes, proven, missed, troubled>>
  BY DEF Tell, Delete, HandOver, LeaveAddress, Does
<1>2. s \in Statement
  BY <1>1, Statements
<1>3. ASSUME NEW x \in Address PROVE Detach(x) \in Task
  BY DEF Detach, Task
<1>4. CASE Tell(c)
  <2>1. s.task \in Task
    BY <1>2, <1>4, Names DEF Tell, Does
  <2>2. todo' \in [Client -> Seq(Statement)]
    BY <1>1, <1>4, Proceeds DEF Tell
  <2> QED BY <1>1, <1>4, <2>1, <2>2, OnlyQueues DEF Tell
<1>5. CASE Delete(c)
  <2>1. s.user \in User /\ s.address \in Address
    BY <1>2, <1>5, Names DEF Delete, Does
  <2>2. EraseOf(s.user, s.address) \in Statement
    BY <2>1, Made
  <2>3. <<EraseOf(s.user, s.address)>> \in Seq(Statement)
    BY <2>2
  <2>4. todo' \in [Client -> Seq(Statement)]
    BY <1>1, <1>5, <2>3, GoesOn DEF Delete
  <2> QED BY <1>1, <1>3, <1>5, <2>1, <2>4, OnlyQueues DEF Delete
<1>6. CASE HandOver(c)
  <2>1. s.do = "hand" /\ s.address \in Address
    BY <1>2, <1>6, Names DEF HandOver, Does
  <2>2. [s EXCEPT !.do = "move"] \in Statement
    BY <1>2, <2>1, Changed
  <2>3. <<[s EXCEPT !.do = "move"]>> \in Seq(Statement)
    BY <2>2
  <2>4. CASE Raises(c) /\ UNCHANGED queue
    <3>1. todo' \in [Client -> Seq(Statement)]
      BY <2>4, Ends
    <3> QED BY <1>1, <2>4, <3>1, OnlyReads
  <2>5. CASE Enqueue(Detach(s.address)) /\ Goes(c, <<[s EXCEPT !.do = "move"]>>)
    <3>1. todo' \in [Client -> Seq(Statement)]
      BY <1>1, <2>3, <2>5, GoesOn
    <3> QED BY <1>1, <1>3, <2>1, <2>5, <3>1, OnlyQueues
  <2> QED BY <1>6, <2>4, <2>5 DEF HandOver
<1>7. CASE LeaveAddress(c)
  <2>1. s.do = "leave" /\ s.user \in User /\ s.rest \in SUBSET Address
    BY <1>2, <1>7, Names DEF LeaveAddress, Does
  <2>2. PICK x \in s.rest :
          /\ Enqueue(Detach(x))
          /\ Goes(c, <<EraseOf(s.user, x), [s EXCEPT !.rest = @ \ {x}]>>)
    BY <1>7 DEF LeaveAddress
  <2>3. EraseOf(s.user, x) \in Statement
    BY <2>1, Made
  <2>4. [s EXCEPT !.rest = @ \ {x}] \in Statement
    BY <1>2, <2>1, Changed
  <2>5. <<EraseOf(s.user, x), [s EXCEPT !.rest = @ \ {x}]>> \in Seq(Statement)
    BY <2>3, <2>4
  <2>6. todo' \in [Client -> Seq(Statement)]
    BY <1>1, <2>2, <2>5, GoesOn
  <2> QED BY <1>1, <1>3, <2>1, <2>2, <2>6, OnlyQueues
<1> QED BY <1>4, <1>5, <1>6, <1>7

LEMMA RowSound ==
    ASSUME IInv, NEW c \in Client, Erase(c) \/ Move(c)
    PROVE  IInv'
<1> DEFINE s == Head(todo[c])
<1>1. /\ todo[c] # <<>> /\ s.do \in {"erase", "move"} /\ Goes(c, <<>>)
      /\ UNCHANGED <<users, made, owner, queue, doing, changes, proven, missed>>
  BY DEF Erase, Move, Does
<1>2. s \in Statement /\ RowsOK
  BY <1>1, Statements DEF IInv
<1>3. s.user \in User /\ s.address \in Address
  BY <1>1, <1>2, Names
<1>4. todo' \in [Client -> Seq(Statement)]
  BY <1>1, Proceeds
<1>5. /\ row' \in [Address -> [User -> States]]
      /\ \A y \in Address : \A v \in User :
            \/ row'[y][v] = row[y][v] \/ row'[y][v] = "none"
            \/ row'[y][v] = "unverified" /\ v \in users
  <2>1. CASE Erase(c)
    BY <1>2, <1>3, <2>1 DEF Erase, RowsOK, States
  <2>2. CASE Move(c)
    <3>1. s.old \in User
      BY <1>2, <2>2, Names DEF Move, Does
    <3> QED BY <1>2, <1>3, <2>2, <3>1 DEF Move, RowsOK, States
  <2> QED BY <2>1, <2>2
<1>6. RowsOK' /\ proven \subseteq proven'
  BY <1>1, <1>2, <1>5, RowsGo
<1>7. troubled' \subseteq Address
  BY <1>3 DEF Erase, Move, IInv, RecipientsTypeOK
<1> QED BY <1>1, <1>4, <1>6, <1>7, Served DEF IInv, RecipientsTypeOK

LEMMA DropSound ==
    ASSUME IInv, NEW c \in Client, DropAccount(c)
    PROVE  IInv'
<1> DEFINE u == Head(todo[c]).user
<1>1. /\ todo[c] # <<>> /\ Head(todo[c]).do = "leave" /\ users' = users \ {u}
      /\ row' = [x \in Address |-> [row[x] EXCEPT ![u] = "none"]]
      /\ owner' = [a \in Assertion |-> IF owner[a] = u THEN Nobody ELSE owner[a]]
      /\ Goes(c, <<>>)
      /\ UNCHANGED <<made, queue, doing, changes, proven, missed, troubled>>
  BY DEF DropAccount, Does
<1>2. u \in User /\ RowsOK
  BY <1>1, Statements, Names DEF IInv
<1>3. todo' \in [Client -> Seq(Statement)]
  BY <1>1, Proceeds
<1>4. \A y \in Address : \A v \in User :
         row'[y][v] = IF v = u THEN "none" ELSE row[y][v]
  BY <1>1, <1>2 DEF RowsOK
<1>5. RowsOK'
  <2>1. row' \in [Address -> [User -> States]]
    BY <1>1, <1>2 DEF RowsOK, States
  <2>2. \A y \in Address : Registered(y)' \subseteq users'
    BY <1>1, <1>2, <1>4 DEF Registered, RowsOK
  <2>3. \A y \in Address : \A v \in Verifiers(y)' : <<v, y>> \in proven'
    BY <1>1, <1>2, <1>4 DEF Verifiers, RowsOK
  <2> QED BY <1>1, <1>2, <2>1, <2>2, <2>3 DEF RowsOK
<1>6. owner' \in [Assertion -> users' \cup {Nobody, Unissued}]
  BY <1>1, <1>2, RecipientsConstants DEF IInv, RecipientsTypeOK
<1>7. RecipientsTypeOK'
  BY <1>1, <1>3, <1>5, <1>6 DEF IInv, RecipientsTypeOK, RowsOK, States
<1>8. OwnersProven'
  BY <1>1, RecipientsConstants DEF IInv, OwnersProven
<1>9. \A t \in Thread : Reads(t)'
  BY <1>1 DEF IInv, Reads, At
<1> QED BY <1>5, <1>7, <1>8, <1>9 DEF IInv

LEMMA MakeSound ==
    ASSUME IInv, NEW c \in Client,
           Claim(c) \/ Prune(c) \/ Join(c) \/ AdmitAddress(c) \/ Fetch(c)
    PROVE  IInv'
<1> DEFINE s == Head(todo[c])
<1>1. /\ todo[c] # <<>>
      /\ UNCHANGED <<made, row, owner, queue, doing, changes, proven, missed, troubled>>
  BY DEF Claim, Prune, Join, AdmitAddress, Fetch, Does
<1>2. s \in Statement /\ users \subseteq User
  BY <1>1, Statements DEF IInv, RecipientsTypeOK
<1>3. Raises(c) => todo' \in [Client -> Seq(Statement)]
  BY Ends
<1>4. Goes(c, <<>>) => todo' \in [Client -> Seq(Statement)]
  BY <1>1, Proceeds
<1>5. CASE Claim(c)
  <2>1. s.address \in Address
    BY <1>2, <1>5, Names DEF Claim, Does
  <2>2. ASSUME NEW v \in User,
               Goes(c, <<DeleteOf(v, s.address), [do |-> "prune", user |-> v]>>)
        PROVE  todo' \in [Client -> Seq(Statement)]
    <3>1. DeleteOf(v, s.address) \in Statement /\ [do |-> "prune", user |-> v] \in Statement
      BY <2>1, Made
    <3>2. <<DeleteOf(v, s.address), [do |-> "prune", user |-> v]>> \in Seq(Statement)
      BY <3>1
    <3> QED BY <1>1, <2>2, <3>2, GoesOn
  <2>3. todo' \in [Client -> Seq(Statement)]
    BY <1>3, <1>4, <1>5, <2>2 DEF Claim, Registered
  <2> QED BY <1>1, <1>5, <2>3, OnlyReads DEF Claim
<1>6. CASE Prune(c)
  <2>1. s.user \in User
    BY <1>2, <1>6, Names DEF Prune, Does
  <2>2. [do |-> "leave", user |-> s.user, rest |-> {}] \in Statement
    BY <2>1, MadeFor
  <2>3. <<[do |-> "leave", user |-> s.user, rest |-> {}]>> \in Seq(Statement)
    BY <2>2
  <2>4. todo' \in [Client -> Seq(Statement)]
    BY <1>1, <1>4, <1>6, <2>3, GoesOn DEF Prune
  <2> QED BY <1>1, <1>6, <2>4, OnlyReads DEF Prune
<1>7. CASE Join(c)
  <2>1. s.user \in User
    BY <1>2, <1>7, Names DEF Join, Does
  <2>2. users' = users \cup {s.user} /\ todo' \in [Client -> Seq(Statement)]
    BY <1>4, <1>7 DEF Join
  <2>3. RowsOK' /\ proven \subseteq proven'
    BY <1>1, <2>2, RowsKept DEF IInv
  <2> QED BY <1>1, <1>2, <2>1, <2>2, <2>3, Served DEF IInv, RecipientsTypeOK
<1>8. CASE AdmitAddress(c)
  <2>1. s.user \in User /\ s.rest \in SUBSET Address
    BY <1>2, <1>8, Names DEF AdmitAddress, Does
  <2>2. PICK x \in s.rest :
          Goes(c, <<InsertOf(s.user, x, "verified")>> \o Admit(s.user, s.rest \ {x}))
    BY <1>8 DEF AdmitAddress
  <2>3. InsertOf(s.user, x, "verified") \in Statement
    BY <2>1, Made
  <2>4. Admit(s.user, s.rest \ {x}) \in Seq(Statement)
    BY <2>1, MadeFor
  <2>5. <<InsertOf(s.user, x, "verified")>> \in Seq(Statement)
    BY <2>3
  <2>6. <<InsertOf(s.user, x, "verified")>> \o Admit(s.user, s.rest \ {x})
           \in Seq(Statement)
    BY <2>4, <2>5
  <2>7. todo' \in [Client -> Seq(Statement)]
    BY <1>1, <2>2, <2>6, GoesOn
  <2> QED BY <1>1, <1>8, <2>7, OnlyReads DEF AdmitAddress
<1>9. CASE Fetch(c)
  <2>1. s.address \in Address
    BY <1>2, <1>9, Names DEF Fetch, Does
  <2>2. ASSUME NEW v \in User, Goes(c, <<SaveOf(v, s.address)>>)
        PROVE  todo' \in [Client -> Seq(Statement)]
    <3>1. SaveOf(v, s.address) \in Statement
      BY <2>1, Made
    <3>2. <<SaveOf(v, s.address)>> \in Seq(Statement)
      BY <3>1
    <3> QED BY <1>1, <2>2, <3>2, GoesOn
  <2>3. todo' \in [Client -> Seq(Statement)]
    BY <1>3, <1>9, <2>2 DEF Fetch, Registered
  <2> QED BY <1>1, <1>9, <2>3, OnlyReads DEF Fetch
<1> QED BY <1>5, <1>6, <1>7, <1>8, <1>9

LEMMA CrashSound ==
    ASSUME IInv, NEW c \in Client, Crash(c)
    PROVE  IInv'
<1>1. todo' \in [Client -> Seq(Statement)]
  BY Ends DEF Crash
<1>2. RowsOK' /\ proven \subseteq proven'
  BY RowsKept DEF IInv, Crash
<1>3. troubled' \subseteq Address
  BY DEF Crash, IInv, RecipientsTypeOK
<1> QED BY <1>1, <1>2, <1>3, Served DEF Crash, IInv, RecipientsTypeOK

LEMMA ClientStep ==
    ASSUME IInv, NEW c \in Client, Start(c) \/ Serve(c) \/ Crash(c)
    PROVE  IInv'
  BY StartSound, SaveSound, QueueSound, RowSound, DropSound, MakeSound, CrashSound
  DEF Serve

----------------------------------------------------------------------------
(* Awards and tasks. *)

LEMMA IdleStep == Idle \in Step /\ Idle.at = "idle"
  BY DEF Idle, Step

\* A step of a thread that keeps the assertions.
LEMMA Moved ==
    ASSUME IInv, NEW t \in Thread, NEW step \in Step,
           doing' = [doing EXCEPT ![t] = step],
           step.at = "insert" /\ step.user \in User =>
               <<step.user, Recipient[step.assertion]>> \in proven,
           step.at = "update" => <<step.user, step.address>> \in proven,
           queue' \in Seq(Task),
           UNCHANGED <<users, made, row, owner, todo, changes, proven, missed, troubled>>
    PROVE  IInv'
<1>1. doing \in [Thread -> Step] /\ doing' \in [Thread -> Step]
  BY DEF IInv, RecipientsTypeOK, Thread
<1>2. RecipientsTypeOK'
  BY <1>1 DEF IInv, RecipientsTypeOK, Registered, Thread
<1>3. RowsOK'
  BY RowsKept DEF IInv
<1>4. OwnersProven'
  BY DEF IInv, OwnersProven
<1>5. ASSUME NEW r \in Thread PROVE Reads(r)'
  <2>1. CASE r = t
    <3>1. doing'[t] = step
      BY <1>1
    <3> QED BY <2>1, <3>1 DEF Reads, At
  <2>2. CASE r # t
    <3>1. doing'[r] = doing[r]
      BY <1>1, <2>2
    <3>2. Reads(r)
      BY DEF IInv
    <3> QED BY <3>1, <3>2 DEF Reads, At
  <2> QED BY <2>1, <2>2
<1> QED BY <1>2, <1>3, <1>4, <1>5 DEF IInv

\* A step of a thread that changes assertions and ends.
LEMMA Owned ==
    ASSUME IInv, NEW t \in Thread, Done(t),
           owner' \in [Assertion -> users \cup {Nobody, Unissued}], OwnersProven',
           missed' \subseteq Assertion,
           UNCHANGED <<users, made, row, queue, todo, changes, proven, troubled>>
    PROVE  IInv'
<1>1. doing \in [Thread -> Step] /\ doing' \in [Thread -> Step]
  BY IdleStep DEF IInv, RecipientsTypeOK, Thread, Done, Then
<1>2. RecipientsTypeOK'
  BY <1>1 DEF IInv, RecipientsTypeOK, Registered, Thread
<1>3. RowsOK'
  BY RowsKept DEF IInv
<1>4. ASSUME NEW r \in Thread PROVE Reads(r)'
  <2>1. doing'[r] = doing[r] \/ doing'[r] = Idle
    BY <1>1 DEF Done, Then
  <2>2. Reads(r)
    BY DEF IInv
  <2> QED BY <2>1, <2>2, IdleStep DEF Reads, At
<1> QED BY <1>2, <1>3, <1>4 DEF IInv

\* What a step of a thread may rely on.
LEMMA Known ==
    ASSUME IInv, NEW t \in Thread
    PROVE  /\ doing[t] \in Step /\ Reads(t)
           /\ users \subseteq User /\ RowsOK /\ missed \subseteq Assertion
           /\ owner \in [Assertion -> users \cup {Nobody, Unissued}]
           /\ queue \in Seq(Task)
  BY DEF Thread, IInv, RecipientsTypeOK

LEMMA AwarderStep ==
    ASSUME IInv, NEW i \in Awarder, Issue(i) \/ Insert(i)
    PROVE  IInv'
<1>0. /\ i \in Thread /\ doing[i] \in Step /\ Reads(i)
      /\ users \subseteq User /\ RowsOK /\ missed \subseteq Assertion
      /\ owner \in [Assertion -> users \cup {Nobody, Unissued}]
      /\ queue \in Seq(Task)
  BY Known DEF Thread
<1>1. CASE Issue(i)
  <2>1. PICK a \in Assertion, u \in User \cup {Nobody} :
          /\ Found(u, Recipient[a])
          /\ doing' = [doing EXCEPT ![i] =
                          [at |-> "insert", user |-> u, assertion |-> a]]
    BY <1>1 DEF Issue, Begin
  <2> DEFINE step == [at |-> "insert", user |-> u, assertion |-> a]
  <2>2. step \in Step
    BY DEF Step
  <2>3. u \in User => <<u, Recipient[a]>> \in proven
    BY <1>0, <2>1, RecipientsConstants DEF Found, RowsOK
  <2> QED BY <1>0, <1>1, <2>1, <2>2, <2>3, Moved DEF Issue
<1>2. CASE Insert(i)
  <2> DEFINE a == doing[i].assertion
             u == doing[i].user
  <2>1. u \in User \cup {Nobody} /\ a \in Assertion
    BY <1>0, <1>2, Held DEF Insert
  <2>2. u \in User => <<u, Recipient[a]>> \in proven
    BY <1>0, <1>2 DEF Insert, Reads
  <2>3. \/ owner' = [owner EXCEPT ![a] = u] /\ u \in users \cup {Nobody}
        \/ owner' = owner
    BY <1>2 DEF Insert
  <2>4. owner' \in [Assertion -> users \cup {Nobody, Unissued}]
    BY <1>0, <2>1, <2>3
  <2>5. proven' = proven /\ missed' \subseteq Assertion
    BY <1>0, <1>2, <2>1 DEF Insert
  <2>6. OwnersProven'
    BY <1>0, <2>1, <2>2, <2>3, <2>5 DEF IInv, OwnersProven
  <2> QED BY <1>0, <1>2, <2>4, <2>5, <2>6, Owned DEF Insert
<1> QED BY <1>1, <1>2

LEMMA WorkerStep ==
    ASSUME IInv, NEW w \in Worker, RunTasks(w)
    PROVE  IInv'
<1>0. /\ w \in Thread /\ doing[w] \in Step /\ Reads(w)
      /\ users \subseteq User /\ RowsOK /\ missed \subseteq Assertion
      /\ owner \in [Assertion -> users \cup {Nobody, Unissued}]
      /\ queue \in Seq(Task)
  BY Known DEF Thread
<1>1. CASE Take(w)
  <2> DEFINE step == [at |-> "run", task |-> Head(queue)]
  <2>1. Head(queue) \in Task /\ queue' \in Seq(Task)
    BY <1>0, <1>1 DEF Take
  <2>2. step \in Step
    BY <2>1 DEF Step
  <2> QED BY <1>0, <1>1, <2>1, <2>2, Moved DEF Take, Begin
<1>2. CASE RunDetach(w)
  <2>1. owner' \in [Assertion -> users \cup {Nobody, Unissued}]
    BY <1>0, <1>2 DEF RunDetach, SetOwner
  <2>2. OwnersProven'
    BY <1>0, <1>2, RecipientsConstants DEF RunDetach, SetOwner, IInv, OwnersProven
  <2> QED BY <1>0, <1>2, <2>1, <2>2, Owned DEF RunDetach
<1>3. CASE RunAttach(w)
  <2> DEFINE x == doing[w].task.address
  <2>1. x \in Address
    <3>1. doing[w].task \in Task
      BY <1>0, <1>3, Held DEF RunAttach
    <3> QED BY <3>1 DEF Task
  <2>2. CASE Done(w)
    BY <1>0, <1>3, <2>2, IdleStep, Moved DEF RunAttach, Done, Then
  <2>3. CASE \E u \in Verifiers(x) :
                Then(w, [at |-> "update", user |-> u, address |-> x])
    <3>1. PICK u \in Verifiers(x) :
                Then(w, [at |-> "update", user |-> u, address |-> x])
      BY <2>3
    <3> DEFINE step == [at |-> "update", user |-> u, address |-> x]
    <3>2. u \in User /\ <<u, x>> \in proven
      BY <1>0, <2>1, <3>1 DEF RowsOK, Verifiers
    <3>3. step \in Step
      BY <2>1, <3>2 DEF Step
    <3> QED BY <1>0, <1>3, <3>1, <3>2, <3>3, Moved DEF RunAttach, Then
  <2> QED BY <1>3, <2>2, <2>3 DEF RunAttach
<1>4. CASE Update(w)
  <2>1. <<doing[w].user, doing[w].address>> \in proven
    BY <1>0, <1>4 DEF Reads, Update
  <2>2. owner' \in [Assertion -> users \cup {Nobody, Unissued}]
    BY <1>0, <1>4 DEF Update, SetOwner
  <2>3. OwnersProven'
    BY <1>0, <1>4, <2>1 DEF Update, SetOwner, IInv, OwnersProven
  <2> QED BY <1>0, <1>4, <2>2, <2>3, Owned DEF Update
<1> QED BY <1>1, <1>2, <1>3, <1>4 DEF RunTasks

----------------------------------------------------------------------------

LEMMA InitSound == Init => IInv
<1> SUFFICES ASSUME Init PROVE IInv
  OBVIOUS
<1>1. RecipientsTypeOK
  BY RecipientsConstants, IdleStep DEF Init, RecipientsTypeOK, Registered
<1>2. RowsOK
  BY <1>1 DEF Init, RowsOK, RecipientsTypeOK, Verifiers, States
<1>3. OwnersProven
  BY RecipientsConstants DEF Init, OwnersProven
<1>4. \A t \in Thread : Reads(t)
  BY IdleStep DEF Init, Reads, At, Thread
<1> QED BY <1>1, <1>2, <1>3, <1>4 DEF IInv

LEMMA NextSound == IInv /\ [Next]_vars => IInv'
<1> SUFFICES ASSUME IInv, [Next]_vars PROVE IInv'
  OBVIOUS
<1>1. CASE UNCHANGED vars
  BY <1>1 DEF vars, IInv, RecipientsTypeOK, RowsOK, OwnersProven, Reads, At,
              Registered, Verifiers
<1> QED BY <1>1, ClientStep, AwarderStep, WorkerStep DEF Next

LEMMA Invariance == Spec => []IInv
  BY InitSound, NextSound, PTL DEF Spec

\* Type correctness with the foreign keys: the users of address rows and of
\* assertions are accounts that exist, whatever a thread has read of an account
\* that is deleted meanwhile.
THEOREM RecipientsTypeCorrect == Spec => []RecipientsTypeOK
<1>1. IInv => RecipientsTypeOK
  BY DEF IInv
<1> QED BY <1>1, Invariance, PTL

\* An assertion never gets a user who has never had its address verified, in
\* any order of tasks, awards and changes of addresses.
THEOREM OwnersAlwaysProven == Spec => []OwnersProven
<1>1. IInv => OwnersProven
  BY DEF IInv
<1> QED BY <1>1, Invariance, PTL

----------------------------------------------------------------------------
(* Requests of users that come one after the other: client c is the only one. *)

\* Statements that may be executed in any state.
Free(s) == s.do \in {"insert", "save", "prune", "join", "claim", "admit", "fetch"}
Loose(list) == \A k \in 1..Len(list) : Free(list[k])

\* User u has rows for the addresses of S.
Has(u, S) == \A x \in Address : u \in Registered(x) <=> x \in S

\* What the request has read of the rows when it comes to statement s holds.
Sound(s) ==
    /\ s.do \in {"delete", "erase"} => s.user \in Registered(s.address)
    /\ s.do \in {"hand", "move"} => Verifiers(s.address) = {}
    /\ s.do = "leave" => Has(s.user, s.rest)
    /\ s.do = "tell" =>
          /\ s.task.address = s.address
          /\ s.task.kind = "attach" => Verifiers(s.address) # {}
          /\ s.task.kind = "detach" => Verifiers(s.address) = {} \/ s.address \in troubled

\* The rest of an account that is left, after the deletion e of one of its rows.
Leaving(e, s) ==
    /\ e.do = "erase" /\ s.do = "leave" /\ s.user = e.user
    /\ e.address \notin s.rest /\ Has(e.user, s.rest \cup {e.address})

Plan(list) == list = <<>> \/
    /\ Sound(Head(list))
    /\ LET rest == Tail(list)
       IN \/ Loose(rest)
          \/ rest # <<>> /\ Leaving(Head(list), Head(rest)) /\ Loose(Tail(rest))

\* An address of two accounts is troubled.
OneRegistered == \A x \in Address \ troubled : \A u, v \in Registered(x) : u = v

SerialInv(c) == IInv /\ OneRegistered /\ Plan(todo[c])

----------------------------------------------------------------------------
(* Moreover, w is the only worker: the tasks run in the order of the rows.   *)

Unqueued(x) == \A k \in 1..Len(queue) : queue[k].address # x

\* The users who have verified x and are not about to be deleted.
Keep(x) == Verifiers(x) \ Erased(x)

\* The assertions to x may belong to nobody: the task of a saved row is not
\* queued yet, there is trouble, or nobody has verified x.
Telling(x) == \E c \in Client : Does(c, "tell") /\ Head(todo[c]).address = x
Excuse(x) == Telling(x) \/ x \in troubled \/ Keep(x) = {}

\* A task is right about its address if it may be the last one.
Right(task) ==
    /\ task.kind = "attach" => Verifiers(task.address) # {} /\ Erased(task.address) = {}
    /\ task.kind = "detach" => Excuse(task.address)

\* The last task about an address is right, wherever it is.
QueueRight(x) == \A k \in 1..Len(queue) :
    queue[k].address = x /\ (\A j \in k+1..Len(queue) : queue[j].address # x)
        => Right(queue[k])
WorkRight(w, x) == Unqueued(x) =>
    /\ At(w, "run") /\ doing[w].task.address = x => Right(doing[w].task)
    /\ At(w, "update") /\ doing[w].address = x => doing[w].user \in Keep(x)

\* User o is the one of an assertion to x, or will be.
Belongs(o, x) == o \in Keep(x) \/ (o = Nobody /\ Excuse(x))

OwnersRight == \A a \in Assertion \ missed :
    owner[a] # Unissued /\ ~Due(Recipient[a]) => Belongs(owner[a], Recipient[a])

TasksInv(w) ==
    /\ \A x \in Address : QueueRight(x) /\ WorkRight(w, x)
    /\ OwnersRight
----------------------------------------------------------------------------
(* Lists of statements. *)

LEMMA FreeIsSound ==
    ASSUME NEW s, Free(s)
    PROVE  /\ Sound(s) /\ Sound(s)'
           /\ s.do \notin {"tell", "delete", "erase", "hand", "move", "leave"}
  BY DEF Free, Sound

LEMMA LooseTail ==
    ASSUME NEW list \in Seq(Statement), list # <<>>, Loose(list)
    PROVE  Free(Head(list)) /\ Loose(Tail(list))
<1>1. /\ Len(list) \in Nat /\ Len(list) > 0 /\ Head(list) = list[1]
      /\ Len(Tail(list)) = Len(list) - 1
      /\ \A k \in 1..Len(Tail(list)) : Tail(list)[k] = list[k + 1]
  OBVIOUS
<1>2. Free(Head(list))
  BY <1>1 DEF Loose
<1>3. ASSUME NEW k \in 1..Len(Tail(list)) PROVE Free(Tail(list)[k])
  <2>1. k + 1 \in 1..Len(list)
    BY <1>1
  <2> QED BY <1>1, <2>1 DEF Loose
<1> QED BY <1>2, <1>3 DEF Loose

LEMMA LooseCat ==
    ASSUME NEW p \in Seq(Statement), NEW q \in Seq(Statement), Loose(p), Loose(q)
    PROVE  p \o q \in Seq(Statement) /\ Loose(p \o q)
<1>1. ASSUME NEW k \in 1..Len(p \o q) PROVE Free((p \o q)[k])
  <2>1. Len(p \o q) = Len(p) + Len(q) /\ Len(p) \in Nat /\ Len(q) \in Nat
    OBVIOUS
  <2>2. CASE k \in 1..Len(p)
    <3>1. (p \o q)[k] = p[k]
      BY <2>2
    <3> QED BY <2>2, <3>1 DEF Loose
  <2>3. CASE k \notin 1..Len(p)
    <3>1. k - Len(p) \in 1..Len(q) /\ (p \o q)[k] = q[k - Len(p)]
      BY <2>1, <2>3
    <3> QED BY <3>1 DEF Loose
  <2> QED BY <2>2, <2>3
<1>2. p \o q \in Seq(Statement)
  OBVIOUS
<1> QED BY <1>1, <1>2 DEF Loose

\* A list without conditions is a plan in every state.
LEMMA LoosePlan ==
    ASSUME NEW list \in Seq(Statement), Loose(list)
    PROVE  /\ Plan(list) /\ Plan(list)'
           /\ list # <<>> =>
                 Head(list).do \notin {"tell", "delete", "erase", "hand", "move", "leave"}
<1>1. CASE list = <<>>
  BY <1>1 DEF Plan
<1>2. CASE list # <<>>
  <2>1. Free(Head(list)) /\ Loose(Tail(list))
    BY <1>2, LooseTail
  <2>2. Sound(Head(list)) /\ Sound(Head(list))'
    BY <2>1, FreeIsSound
  <2>3. Head(list).do \notin {"tell", "delete", "erase", "hand", "move", "leave"}
    BY <2>1, FreeIsSound
  <2>4. Plan(list)
    BY <2>1, <2>2 DEF Plan
  <2>5. Loose(Tail(list))'
    BY <2>1 DEF Loose, Free
  <2>6. Plan(list)'
    BY <2>2, <2>5 DEF Plan
  <2> QED BY <2>3, <2>4, <2>6
<1> QED BY <1>1, <1>2

LEMMA Two ==
    ASSUME NEW p \in Statement, NEW q \in Statement
    PROVE  <<p, q>> = <<p>> \o <<q>>
<1>1. /\ <<p>> \in Seq(Statement) /\ Len(<<p>>) = 1 /\ <<p>>[1] = p
      /\ <<q>> \in Seq(Statement) /\ Len(<<q>>) = 1 /\ <<q>>[1] = q
      /\ <<p, q>> \in Seq(Statement) /\ Len(<<p, q>>) = 2
      /\ <<p, q>>[1] = p /\ <<p, q>>[2] = q
  OBVIOUS
<1>2. /\ <<p>> \o <<q>> \in Seq(Statement) /\ Len(<<p>> \o <<q>>) = 2
      /\ (<<p>> \o <<q>>)[1] = p /\ (<<p>> \o <<q>>)[2] = q
  BY <1>1
<1> DEFINE l == <<p, q>>
           m == <<p>> \o <<q>>
<1>3. /\ l \in Seq(Statement) /\ m \in Seq(Statement) /\ Len(l) = 2 /\ Len(m) = 2
      /\ l[1] = m[1] /\ l[2] = m[2]
  BY <1>1, <1>2
<1> HIDE DEF l, m
<1>4. l = m
  BY <1>3
<1> QED BY <1>4 DEF l, m

LEMMA Cons ==
    ASSUME NEW p \in Statement, NEW rest \in Seq(Statement)
    PROVE  /\ <<p>> \o rest \in Seq(Statement) /\ <<p>> \o rest # <<>>
           /\ Head(<<p>> \o rest) = p /\ Tail(<<p>> \o rest) = rest
<1>1. <<p>> \in Seq(Statement) /\ Len(<<p>>) = 1 /\ <<p>>[1] = p
  OBVIOUS
<1> QED BY <1>1

LEMMA ConsTwo ==
    ASSUME NEW p \in Statement, NEW q \in Statement, NEW rest \in Seq(Statement)
    PROVE  <<p, q>> \o rest = <<p>> \o (<<q>> \o rest)
<1> DEFINE a == <<p>>
           b == <<q>>
<1>1. a \in Seq(Statement) /\ b \in Seq(Statement)
  OBVIOUS
<1>2. <<p, q>> = a \o b
  BY Two
<1> HIDE DEF a, b
<1>3. (a \o b) \o rest = a \o (b \o rest)
  BY <1>1
<1> QED BY <1>2, <1>3 DEF a, b

\* One statement, and then others without conditions.
LEMMA ThenLoose ==
    ASSUME NEW s \in Statement, NEW rest \in Seq(Statement), Loose(rest)
    PROVE  /\ <<s>> \o rest \in Seq(Statement) /\ <<s>> \o rest # <<>>
           /\ Head(<<s>> \o rest) = s
           /\ Sound(s) => Plan(<<s>> \o rest)
           /\ Sound(s)' => Plan(<<s>> \o rest)'
           /\ Free(s) => Loose(<<s>> \o rest)
<1> DEFINE list == <<s>> \o rest
<1>1. <<s>> \in Seq(Statement) /\ Len(<<s>>) = 1 /\ <<s>>[1] = s
  OBVIOUS
<1>2. /\ list \in Seq(Statement) /\ list # <<>>
      /\ Head(list) = s /\ Tail(list) = rest
  BY <1>1
<1>3. Free(s) => Loose(list)
  <2>1. Free(s) => Loose(<<s>>)
    BY <1>1 DEF Loose
  <2> QED BY <1>1, <2>1, LooseCat
<1>4. Loose(rest)'
  BY DEF Loose, Free
<1> HIDE DEF list
<1>5. Sound(s) => Plan(list)
  BY <1>2 DEF Plan
<1>6. Sound(s)' => Plan(list)'
  BY <1>2, <1>4 DEF Plan
<1> QED BY <1>2, <1>3, <1>5, <1>6 DEF list

LEMMA LooseLists ==
    ASSUME NEW u \in User, NEW x \in Address
    PROVE  /\ Loose(<<>>) /\ <<>> \in Seq(Statement)
           /\ \A s \in {"unverified", "verified"} :
                 <<InsertOf(u, x, s)>> \in Seq(Statement) /\ Loose(<<InsertOf(u, x, s)>>)
           /\ <<SaveOf(u, x)>> \in Seq(Statement) /\ Loose(<<SaveOf(u, x)>>)
           /\ LET prune == <<[do |-> "prune", user |-> u]>>
              IN prune \in Seq(Statement) /\ Loose(prune)
           /\ LET fetch == <<[do |-> "fetch", address |-> x]>>
              IN fetch \in Seq(Statement) /\ Loose(fetch)
           /\ AccountOf(u, x) \in Seq(Statement) /\ Loose(AccountOf(u, x))
<1>1. Loose(<<>>) /\ <<>> \in Seq(Statement)
  BY DEF Loose
<1>2. ASSUME NEW s \in Statement, Free(s)
      PROVE  <<s>> \in Seq(Statement) /\ Loose(<<s>>)
  BY <1>2 DEF Loose
<1>3. /\ \A s \in {"unverified", "verified"} :
            InsertOf(u, x, s) \in Statement /\ Free(InsertOf(u, x, s))
      /\ SaveOf(u, x) \in Statement /\ Free(SaveOf(u, x))
      /\ [do |-> "prune", user |-> u] \in Statement /\ Free([do |-> "prune", user |-> u])
      /\ [do |-> "join", user |-> u] \in Statement /\ Free([do |-> "join", user |-> u])
      /\ [do |-> "claim", address |-> x] \in Statement
      /\ Free([do |-> "claim", address |-> x])
      /\ [do |-> "fetch", address |-> x] \in Statement
      /\ Free([do |-> "fetch", address |-> x])
  BY Made DEF Free, InsertOf, SaveOf
<1>4. AccountOf(u, x) \in Seq(Statement) /\ Loose(AccountOf(u, x))
  <2> DEFINE claim == [do |-> "claim", address |-> x]
             join == [do |-> "join", user |-> u]
             insert == InsertOf(u, x, "unverified")
  <2>1. /\ claim \in Statement /\ join \in Statement /\ insert \in Statement
        /\ Free(claim) /\ Free(join) /\ Free(insert)
    BY <1>3
  <2>2. AccountOf(u, x) = <<claim, join, insert>>
    BY DEF AccountOf
  <2> HIDE DEF claim, join, insert
  <2>3. <<claim, join, insert>> \in Seq(Statement)
    BY <2>1
  <2>4. Loose(<<claim, join, insert>>)
    BY <2>1 DEF Loose
  <2> QED BY <2>2, <2>3, <2>4
<1> QED BY <1>1, <1>2, <1>3, <1>4

LEMMA LooseAdmit ==
    ASSUME NEW u \in User, NEW S \in SUBSET Address
    PROVE  Admit(u, S) \in Seq(Statement) /\ Loose(Admit(u, S))
<1>1. Admit(u, S) \in Seq(Statement)
  BY MadeFor
<1>2. Loose(Admit(u, S))
  BY DEF Admit, Loose, Free
<1> QED BY <1>1, <1>2

\* The statements of the client, with the parts of its plan.
LEMMA PlanParts ==
    ASSUME NEW c \in Client, SerialInv(c), todo[c] # <<>>
    PROVE  /\ todo[c] \in Seq(Statement) /\ Head(todo[c]) \in Statement
           /\ Tail(todo[c]) \in Seq(Statement)
           /\ Sound(Head(todo[c]))
           /\ Head(todo[c]).do # "erase" => Loose(Tail(todo[c]))
<1>1. todo[c] \in Seq(Statement)
  BY DEF SerialInv, IInv, RecipientsTypeOK
<1>2. Head(todo[c]) \in Statement /\ Tail(todo[c]) \in Seq(Statement)
  BY <1>1
<1>3. Plan(todo[c])
  BY DEF SerialInv
<1> QED BY <1>1, <1>2, <1>3 DEF Plan, Leaving

LEMMA PlanIs ==
    ASSUME NEW c, NEW list, todo'[c] = list, Plan(list)'
    PROVE  Plan(todo[c])'
  BY DEF Plan, Sound, Leaving, Loose, Has

LEMMA ListIs ==
    ASSUME IInv, NEW c \in Client, NEW list
    PROVE  /\ todo' = [todo EXCEPT ![c] = list] => todo'[c] = list
           /\ Goes(c, list) => todo'[c] = list \o Tail(todo[c])
           /\ Raises(c) => todo'[c] = <<>>
  BY DEF Goes, Raises, IInv, RecipientsTypeOK

\* What is told and erased by the only client.
LEMMA OnlyClient ==
    ASSUME NEW c, Client = {c}
    PROVE  /\ \A x : Telling(x) <=>
                 todo[c] # <<>> /\ Head(todo[c]).do = "tell" /\ Head(todo[c]).address = x
           /\ \A x : Telling(x)' <=>
                 todo'[c] # <<>> /\ Head(todo'[c]).do = "tell" /\ Head(todo'[c]).address = x
           /\ \A x : Erased(x) =
                 {u \in User : todo[c] # <<>> /\ Head(todo[c]) = EraseOf(u, x)}
           /\ \A x : Erased(x)' =
                 {u \in User : todo'[c] # <<>> /\ Head(todo'[c]) = EraseOf(u, x)}
  BY DEF Telling, Does, Erased

\* The client is not half way through a change.
Quiet(list) == list # <<>> => Head(list).do \notin {"tell", "erase"}

LEMMA QuietMeans ==
    ASSUME NEW c, Client = {c}
    PROVE  /\ Quiet(todo[c]) => \A x : ~Telling(x) /\ Erased(x) = {}
           /\ Quiet(todo'[c]) => \A x : ~Telling(x)' /\ Erased(x)' = {}
<1>1. \A u, x : EraseOf(u, x).do = "erase"
  BY DEF EraseOf
<1>2. ASSUME Quiet(todo[c]), NEW x PROVE ~Telling(x) /\ Erased(x) = {}
  BY <1>1, <1>2, OnlyClient DEF Quiet
<1>3. ASSUME Quiet(todo'[c]), NEW x PROVE ~Telling(x)' /\ Erased(x)' = {}
  BY <1>1, <1>3, OnlyClient DEF Quiet
<1> QED BY <1>2, <1>3

----------------------------------------------------------------------------
(* What a step of the client does to the tasks of an address.               *)

\* What is right about address x remains right.
Calm(x) ==
    /\ Keep(x) \subseteq Keep(x)'
    /\ Excuse(x) => Excuse(x)'
    /\ Verifiers(x) # {} /\ Erased(x) = {} => Verifiers(x)' # {} /\ Erased(x)' = {}

\* All addresses remain calm, or a right task is queued about the one that is not.
Announced ==
    \/ queue' = queue /\ \A x \in Address : Calm(x)
    \/ \E task \in Task :
       /\ Enqueue(task) /\ Right(task)'
       /\ \A x \in Address \ {task.address} : Calm(x)

Orderly(c) == OneRegistered' /\ Plan(todo[c])' /\ Announced

LEMMA RowsSame ==
    ASSUME UNCHANGED row
    PROVE  \A x : Registered(x)' = Registered(x) /\ Verifiers(x)' = Verifiers(x)
  BY DEF Registered, Verifiers

LEMMA SameRegistered ==
    ASSUME OneRegistered, UNCHANGED row, troubled \subseteq troubled'
    PROVE  OneRegistered'
  BY RowsSame DEF OneRegistered

\* A step that only reads.
LEMMA ReadsOrderly ==
    ASSUME NEW c, Client = {c}, SerialInv(c), UNCHANGED <<row, queue, troubled>>,
           Quiet(todo[c]), NEW list \in Seq(Statement), todo'[c] = list,
           Plan(list)', Quiet(list)
    PROVE  Orderly(c)
<1>1. \A x : Registered(x)' = Registered(x) /\ Verifiers(x)' = Verifiers(x)
  BY RowsSame
<1>2. \A x : /\ ~Telling(x) /\ Erased(x) = {}
             /\ ~Telling(x)' /\ Erased(x)' = {}
  BY QuietMeans
<1>3. \A x : Calm(x)
  BY <1>1, <1>2 DEF Calm, Keep, Excuse
<1>4. OneRegistered' /\ Plan(todo[c])'
  BY SameRegistered, PlanIs DEF SerialInv
<1> QED BY <1>3, <1>4 DEF Orderly, Announced

\* The same for a list without conditions, and for one that starts with a statement
\* whose conditions hold.
LEMMA LooseOrderly ==
    ASSUME NEW c, Client = {c}, SerialInv(c), UNCHANGED <<row, queue, troubled>>,
           Quiet(todo[c]), NEW list \in Seq(Statement), todo'[c] = list, Loose(list)
    PROVE  Orderly(c)
  BY LoosePlan, ReadsOrderly DEF Quiet

LEMMA SoundOrderly ==
    ASSUME NEW c, Client = {c}, SerialInv(c), UNCHANGED <<row, queue, troubled>>,
           Quiet(todo[c]), NEW s \in Statement, NEW rest \in Seq(Statement), Loose(rest),
           todo'[c] = <<s>> \o rest, Sound(s)', s.do \notin {"tell", "erase"}
    PROVE  Orderly(c)
<1> DEFINE list == <<s>> \o rest
<1>1. list \in Seq(Statement) /\ Head(list) = s /\ Plan(list)'
  BY ThenLoose
<1> HIDE DEF list
<1>2. todo'[c] = list /\ Quiet(list)
  BY <1>1 DEF Quiet, list
<1> QED BY <1>1, <1>2, ReadsOrderly

LEMMA StartOrderly ==
    ASSUME NEW c, Client = {c}, SerialInv(c), Start(c)
    PROVE  Orderly(c)
<1>0. c \in Client /\ IInv /\ users \subseteq User /\ RowsOK
  BY DEF SerialInv, IInv, RecipientsTypeOK
<1>1. ASSUME NEW list, Request(c, list)
      PROVE  /\ UNCHANGED <<row, queue, troubled>> /\ Quiet(todo[c]) /\ todo'[c] = list
             /\ \A x : Registered(x)' = Registered(x) /\ Verifiers(x)' = Verifiers(x)
  BY <1>0, <1>1, ListIs, RowsSame DEF Request, Quiet
<1>2. ASSUME NEW list \in Seq(Statement), Request(c, list), Loose(list)
      PROVE  Orderly(c)
  BY <1>1, <1>2, LooseOrderly
<1>3. ASSUME NEW s \in Statement, NEW rest \in Seq(Statement), Loose(rest),
             Request(c, <<s>> \o rest), Sound(s)', s.do \notin {"tell", "erase"}
      PROVE  Orderly(c)
  BY <1>1, <1>3, SoundOrderly
<1>4. ASSUME NEW s \in Statement, Request(c, <<s>>), Sound(s)',
             s.do \notin {"tell", "erase"}
      PROVE  Orderly(c)
  <2>1. <<s>> = <<s>> \o <<>> /\ <<>> \in Seq(Statement)
    OBVIOUS
  <2>2. Loose(<<>>)
    BY DEF Loose
  <2> QED BY <1>3, <1>4, <2>1, <2>2
<1>5. ASSUME NEW v \in User, NEW x \in Address, v \in Registered(x)'
      PROVE  /\ DeleteOf(v, x) \in Statement /\ Sound(DeleteOf(v, x))'
             /\ DeleteOf(v, x).do = "delete"
  BY <1>5, Made DEF DeleteOf, Sound
<1>6. CASE Register(c)
  <2>1. PICK u \in users, x \in Address :
          \/ Request(c, <<InsertOf(u, x, "unverified")>>)
          \/ \E v \in Registered(x) :
                Request(c, <<DeleteOf(v, x), InsertOf(u, x, "unverified")>>)
    BY <1>6 DEF Register
  <2>2. /\ <<InsertOf(u, x, "unverified")>> \in Seq(Statement)
        /\ Loose(<<InsertOf(u, x, "unverified")>>)
    BY <1>0, LooseLists
  <2>3. ASSUME NEW v \in Registered(x),
               Request(c, <<DeleteOf(v, x), InsertOf(u, x, "unverified")>>)
        PROVE  Orderly(c)
    <3> DEFINE d == DeleteOf(v, x)
               i == InsertOf(u, x, "unverified")
    <3>1. v \in User /\ v \in Registered(x)'
      BY <1>1, <2>3 DEF Registered
    <3>2. d \in Statement /\ Sound(d)' /\ d.do = "delete"
      BY <1>5, <3>1
    <3>3. /\ <<i>> \in Seq(Statement) /\ Loose(<<i>>) /\ Request(c, <<d, i>>)
          /\ i \in Statement
      BY <1>0, <2>2, <2>3, Made
    <3> HIDE DEF d, i
    <3>4. <<d, i>> = <<d>> \o <<i>>
      BY <3>2, <3>3, Two
    <3> QED BY <1>3, <3>2, <3>3, <3>4
  <2> QED BY <1>2, <2>1, <2>2, <2>3
<1>7. CASE TakeOver(c)
  <2>1. PICK u \in users, x \in Address, v \in User :
          /\ Registered(x) = {v} /\ row[x][v] = "unverified"
          /\ Request(c, <<[do |-> "hand", user |-> u, address |-> x, old |-> v]>>)
    BY <1>7 DEF TakeOver
  <2> DEFINE s == [do |-> "hand", user |-> u, address |-> x, old |-> v]
  <2>2. s \in Statement
    BY <1>0, Made
  <2>3. Verifiers(x)' = {}
    <3>1. Verifiers(x) = {}
      BY <2>1 DEF Registered, Verifiers
    <3> QED BY <1>1, <2>1, <3>1
  <2>4. s.do = "hand" /\ Sound(s)'
    BY <2>3 DEF Sound
  <2>5. Request(c, <<s>>)
    BY <2>1
  <2> HIDE DEF s
  <2> QED BY <1>4, <2>2, <2>4, <2>5
<1>8. CASE Confirm(c)
  BY <1>0, <1>2, <1>8, LooseLists DEF Confirm
<1>9. CASE Forget(c)
  <2>1. PICK u \in users, x \in Address :
          u \in Registered(x) /\ Request(c, <<DeleteOf(u, x)>>)
    BY <1>0, <1>9 DEF Forget, Registered
  <2>2. u \in User /\ u \in Registered(x)'
    BY <1>0, <1>1, <2>1
  <2> QED BY <1>4, <1>5, <2>1, <2>2
<1>10. CASE Leave(c)
  <2>1. PICK u \in users :
          Request(c, <<[do |-> "leave", user |-> u,
                        rest |-> {x \in Address : row[x][u] # "none"}]>>)
    BY <1>10 DEF Leave
  <2>2. PICK S \in SUBSET Address : S = {x \in Address : row[x][u] # "none"}
    OBVIOUS
  <2> DEFINE s == [do |-> "leave", user |-> u, rest |-> S]
  <2>3. s \in Statement /\ Request(c, <<s>>)
    BY <1>0, <2>1, <2>2, MadeFor
  <2>4. \A x \in Address : u \in Registered(x)' <=> x \in S
    BY <1>0, <1>1, <2>1, <2>2 DEF Registered
  <2>5. s.do = "leave" /\ Sound(s)'
    BY <2>4 DEF Sound, Has
  <2> HIDE DEF s
  <2> QED BY <1>4, <2>3, <2>5
<1>11. CASE SignUp(c)
  BY <1>2, <1>11, LooseLists DEF SignUp, Make
<1>12. CASE Login(c)
  <2>1. PICK u \in User, S \in SUBSET Address :
          \/ \E x \in S : Request(c, AccountOf(u, x) \o Admit(u, S \ {x})
                                 \o <<[do |-> "fetch", address |-> x]>>)
          \/ Request(c, <<[do |-> "join", user |-> u]>> \o Admit(u, S))
    BY <1>12 DEF Login, Make
  <2>2. ASSUME NEW x \in S,
               Request(c, AccountOf(u, x) \o Admit(u, S \ {x})
                                 \o <<[do |-> "fetch", address |-> x]>>)
        PROVE  Orderly(c)
    <3> DEFINE p == AccountOf(u, x)
               q == Admit(u, S \ {x})
               r == <<[do |-> "fetch", address |-> x]>>
    <3>1. /\ p \in Seq(Statement) /\ q \in Seq(Statement) /\ r \in Seq(Statement)
          /\ Loose(p) /\ Loose(q) /\ Loose(r) /\ Request(c, p \o q \o r)
      BY <2>2, LooseLists, LooseAdmit
    <3> HIDE DEF p, q, r
    <3>2. p \o q \in Seq(Statement) /\ Loose(p \o q)
      BY <3>1, LooseCat
    <3>3. p \o q \o r \in Seq(Statement) /\ Loose(p \o q \o r)
      BY <3>1, <3>2, LooseCat
    <3> QED BY <1>2, <3>1, <3>3
  <2>3. CASE Request(c, <<[do |-> "join", user |-> u]>> \o Admit(u, S))
    <3> DEFINE j == [do |-> "join", user |-> u]
               q == Admit(u, S)
    <3>1. j \in Statement /\ Free(j)
      BY DEF Statement, Free
    <3>2. q \in Seq(Statement) /\ Loose(q) /\ Request(c, <<j>> \o q)
      BY <2>3, LooseAdmit
    <3> HIDE DEF j, q
    <3> QED BY <1>2, <3>1, <3>2, ThenLoose
  <2> QED BY <2>1, <2>2, <2>3
<1>13. CASE Provision(c)
  BY <1>0, <1>2, <1>13, LooseAdmit DEF Provision
<1> QED
  BY <1>6, <1>7, <1>8, <1>9, <1>10, <1>11, <1>12, <1>13 DEF Start

LEMMA MakeOrderly ==
    ASSUME NEW c, Client = {c}, SerialInv(c),
           Claim(c) \/ Prune(c) \/ Join(c) \/ AdmitAddress(c) \/ Fetch(c)
    PROVE  Orderly(c)
<1>a. PICK s, rest : s = Head(todo[c]) /\ rest = Tail(todo[c])
  OBVIOUS
<1>0. /\ c \in Client /\ IInv /\ todo[c] # <<>>
      /\ s.do \in {"claim", "prune", "join", "admit", "fetch"}
      /\ UNCHANGED <<row, queue, troubled>>
  BY <1>a DEF SerialInv, Claim, Prune, Join, AdmitAddress, Fetch, Does
<1>1. s \in Statement /\ rest \in Seq(Statement) /\ Loose(rest) /\ Quiet(todo[c])
  BY <1>a, <1>0, PlanParts DEF Quiet
<1>2. \A x : Registered(x)' = Registered(x) /\ Verifiers(x)' = Verifiers(x)
  BY <1>0, RowsSame
<1>3. CASE Raises(c)
  <2>1. todo'[c] = <<>> /\ <<>> \in Seq(Statement)
    BY <1>0, <1>3, ListIs
  <2>2. Loose(<<>>)
    BY DEF Loose
  <2> QED BY <1>0, <1>1, <2>1, <2>2, LooseOrderly
<1>4. ASSUME NEW list \in Seq(Statement), Loose(list), Goes(c, list)
      PROVE  Orderly(c)
  <2>1. todo'[c] = list \o rest
    BY <1>a, <1>0, <1>4, ListIs
  <2>2. list \o rest \in Seq(Statement) /\ Loose(list \o rest)
    BY <1>1, <1>4, LooseCat
  <2> QED BY <1>0, <1>1, <2>1, <2>2, LooseOrderly
<1>5. CASE Goes(c, <<>>)
  <2>1. <<>> \in Seq(Statement) /\ Loose(<<>>)
    BY DEF Loose
  <2> QED BY <1>4, <1>5, <2>1
<1>6. ASSUME NEW t \in Statement, NEW list \in Seq(Statement), Loose(list),
             Goes(c, <<t>> \o list), Sound(t)', t.do \notin {"tell", "erase"}
      PROVE  Orderly(c)
  <2>1. todo'[c] = <<t>> \o list \o rest
    BY <1>a, <1>0, <1>6, ListIs
  <2>2. list \o rest \in Seq(Statement) /\ Loose(list \o rest)
    BY <1>1, <1>6, LooseCat
  <2>3. <<t>> \o list \o rest = <<t>> \o (list \o rest)
    BY <1>1, <1>6
  <2> QED BY <1>0, <1>1, <1>6, <2>1, <2>2, <2>3, SoundOrderly
<1>7. CASE Claim(c)
  <2>1. s.address \in Address
    BY <1>a, <1>1, <1>7, Names DEF Claim, Does
  <2>2. ASSUME NEW v \in Registered(s.address),
               Goes(c, <<DeleteOf(v, s.address), [do |-> "prune", user |-> v]>>)
        PROVE  Orderly(c)
    <3> DEFINE d == DeleteOf(v, s.address)
               p == [do |-> "prune", user |-> v]
    <3>1. v \in User /\ v \in Registered(s.address)'
      BY <1>2, <2>2 DEF Registered
    <3>2. d \in Statement /\ Sound(d)' /\ d.do = "delete"
      BY <2>1, <3>1, Made DEF DeleteOf, Sound
    <3>3. /\ <<p>> \in Seq(Statement) /\ Loose(<<p>>) /\ Goes(c, <<d, p>>)
          /\ p \in Statement
      BY <2>1, <2>2, <3>1, LooseLists, Made
    <3> HIDE DEF d, p
    <3>4. <<d, p>> = <<d>> \o <<p>>
      BY <3>2, <3>3, Two
    <3> QED BY <1>6, <3>2, <3>3, <3>4
  <2> QED BY <1>a, <1>3, <1>5, <1>7, <2>2 DEF Claim
<1>8. CASE Prune(c)
  <2>1. s.user \in User
    BY <1>a, <1>1, <1>8, Names DEF Prune, Does
  <2>2. CASE /\ \A x \in Address : row[x][s.user] = "none"
             /\ Goes(c, <<[do |-> "leave", user |-> s.user, rest |-> {}]>>)
    <3> DEFINE t == [do |-> "leave", user |-> s.user, rest |-> {}]
    <3>1. t \in Statement
      BY <2>1, MadeFor
    <3>2. \A x \in Address : ~(s.user \in Registered(x)')
      BY <1>2, <2>2 DEF Registered
    <3>3. Sound(t)' /\ t.do = "leave" /\ Goes(c, <<t>>)
      BY <2>2, <3>2 DEF Sound, Has
    <3> HIDE DEF t
    <3>4. <<t>> = <<t>> \o <<>> /\ <<>> \in Seq(Statement)
      OBVIOUS
    <3>5. Loose(<<>>)
      BY DEF Loose
    <3> QED BY <1>6, <3>1, <3>3, <3>4, <3>5
  <2> QED BY <1>a, <1>5, <1>8, <2>2 DEF Prune
<1>9. CASE Join(c)
  BY <1>5, <1>9 DEF Join
<1>10. CASE AdmitAddress(c)
  <2>1. s.user \in User /\ s.rest \in SUBSET Address
    BY <1>a, <1>1, <1>10, Names DEF AdmitAddress, Does
  <2>2. PICK x \in s.rest :
          Goes(c, <<InsertOf(s.user, x, "verified")>> \o Admit(s.user, s.rest \ {x}))
    BY <1>a, <1>10 DEF AdmitAddress
  <2> DEFINE p == <<InsertOf(s.user, x, "verified")>>
             q == Admit(s.user, s.rest \ {x})
  <2>3. /\ p \in Seq(Statement) /\ Loose(p) /\ q \in Seq(Statement) /\ Loose(q)
        /\ Goes(c, p \o q)
    BY <2>1, <2>2, LooseLists, LooseAdmit
  <2> HIDE DEF p, q
  <2> QED BY <1>4, <2>3, LooseCat
<1>11. CASE Fetch(c)
  <2>1. s.address \in Address
    BY <1>a, <1>1, <1>11, Names DEF Fetch, Does
  <2>2. \A v \in Registered(s.address) :
           <<SaveOf(v, s.address)>> \in Seq(Statement) /\ Loose(<<SaveOf(v, s.address)>>)
    BY <2>1, LooseLists DEF Registered
  <2> QED BY <1>a, <1>3, <1>4, <1>11, <2>2 DEF Fetch
<1> QED BY <1>7, <1>8, <1>9, <1>10, <1>11

LEMMA VerifiersRegistered == \A x : Verifiers(x) \subseteq Registered(x)
  BY DEF Verifiers, Registered

LEMMA TaskOf ==
    ASSUME NEW x \in Address
    PROVE  /\ Attach(x) \in Task /\ Attach(x).kind = "attach" /\ Attach(x).address = x
           /\ Detach(x) \in Task /\ Detach(x).kind = "detach" /\ Detach(x).address = x
  BY DEF Attach, Detach, Task

\* A row is saved: its task is to be queued next.
LEMMA SaveOrderly ==
    ASSUME NEW c, Client = {c}, SerialInv(c), Write(c) \/ CreateRow(c)
    PROVE  Orderly(c)
<1>a. PICK s, rest : s = Head(todo[c]) /\ rest = Tail(todo[c])
  OBVIOUS
<1>0. /\ c \in Client /\ IInv /\ RowsOK /\ todo[c] # <<>> /\ s.do \in {"insert", "save"}
      /\ queue' = queue /\ troubled \subseteq Address /\ users \subseteq User
      /\ \/ Raises(c) /\ UNCHANGED <<row, troubled>>
         \/ /\ SetRow(s.user, s.address, s.as) /\ Goes(c, <<TellOf(s.address, s.as)>>)
            /\ s.do = "insert" => row[s.address][s.user] = "none"
  BY <1>a DEF SerialInv, IInv, RecipientsTypeOK, Write, CreateRow, Does
<1>1. s \in Statement /\ rest \in Seq(Statement) /\ Loose(rest) /\ Quiet(todo[c])
  BY <1>a, <1>0, PlanParts DEF Quiet
<1>2. PICK u \in User, x \in Address, as \in {"unverified", "verified"} :
         u = s.user /\ x = s.address /\ as = s.as /\ (s.do = "save" => as = "verified")
  BY <1>0, <1>1, Names
<1>3. CASE Raises(c) /\ UNCHANGED <<row, troubled>>
  <2>1. todo'[c] = <<>> /\ <<>> \in Seq(Statement)
    BY <1>0, <1>3, ListIs
  <2>2. Loose(<<>>)
    BY DEF Loose
  <2> QED BY <1>0, <1>1, <1>3, <2>1, <2>2, LooseOrderly
<1>4. CASE SetRow(u, x, as) /\ Goes(c, <<TellOf(x, as)>>)
           /\ (as = "unverified" => row[x][u] = "none")
  <2>1. \A y \in Address, v \in User : row'[y][v] = IF y = x /\ v = u THEN as ELSE row[y][v]
    BY <1>0, <1>4 DEF SetRow, RowsOK
  <2>2. troubled \subseteq troubled' /\ (x \notin troubled' => Registered(x) \subseteq {u})
    BY <1>4 DEF SetRow
  <2>3. /\ \A y \in Address \ {x} : /\ Registered(y)' = Registered(y)
                                    /\ Verifiers(y)' = Verifiers(y)
        /\ Registered(x)' = Registered(x) \cup {u}
        /\ Verifiers(x) \subseteq Verifiers(x)'
        /\ as = "verified" => u \in Verifiers(x)'
        /\ as = "unverified" => Verifiers(x)' = Verifiers(x) /\ u \notin Verifiers(x)
    BY <1>4, <2>1 DEF Registered, Verifiers
  <2>4. OneRegistered'
    <3> SUFFICES ASSUME NEW y \in Address \ troubled', NEW v \in Registered(y)',
                        NEW w \in Registered(y)'
                 PROVE  v = w
      BY DEF OneRegistered
    <3>1. CASE y = x
      BY <2>2, <2>3, <3>1
    <3>2. CASE y # x
      BY <2>2, <2>3, <3>2 DEF SerialInv, OneRegistered
    <3> QED BY <3>1, <3>2
  <2> DEFINE t == TellOf(x, as)
  <2>5. t \in Statement /\ t.do = "tell" /\ t.address = x
    BY Made DEF TellOf
  <2>6. /\ t.task.address = x
        /\ t.task.kind = "attach" => as = "verified"
        /\ t.task.kind = "detach" => as = "unverified"
    BY TaskOf DEF TellOf
  <2>7. as = "unverified" => Verifiers(x)' = {} \/ x \in troubled'
    BY <2>2, <2>3, VerifiersRegistered
  <2>8. Sound(t)'
    BY <2>3, <2>5, <2>6, <2>7 DEF Sound
  <2>9. todo'[c] = <<t>> \o rest
    BY <1>a, <1>0, <1>4, ListIs
  <2> HIDE DEF t
  <2>10. Plan(todo[c])' /\ todo'[c] # <<>> /\ Head(todo'[c]) = t
    BY <1>1, <2>5, <2>8, <2>9, ThenLoose, PlanIs
  <2>11. /\ \A y : Erased(y) = {} /\ ~Telling(y)
         /\ Telling(x)'
    BY <1>1, <2>5, <2>10, QuietMeans, OnlyClient
  <2>12. \A y : Erased(y)' = {}
    <3>1. \A v, y : t # EraseOf(v, y)
      BY <2>5 DEF EraseOf
    <3> QED BY <2>10, <3>1, OnlyClient
  <2>13. \A y \in Address : Calm(y)
    <3> TAKE y \in Address
    <3>1. Verifiers(y) \subseteq Verifiers(y)'
      BY <2>3
    <3>2. Excuse(y) => Excuse(y)'
      BY <2>2, <2>3, <2>11, <2>12 DEF Excuse, Keep
    <3> QED BY <2>11, <2>12, <3>1, <3>2 DEF Calm, Keep
  <2> QED BY <1>0, <2>4, <2>10, <2>13 DEF Orderly, Announced
<1> QED BY <1>0, <1>2, <1>3, <1>4

\* The task of a saved row is queued.
LEMMA TellOrderly ==
    ASSUME NEW c, Client = {c}, SerialInv(c), Tell(c)
    PROVE  Orderly(c)
<1>a. PICK s, rest : s = Head(todo[c]) /\ rest = Tail(todo[c])
  OBVIOUS
<1>0. /\ c \in Client /\ IInv /\ todo[c] # <<>> /\ s.do = "tell"
      /\ Enqueue(s.task) /\ Goes(c, <<>>) /\ UNCHANGED <<row, troubled>>
  BY <1>a DEF SerialInv, Tell, Does
<1>1. s \in Statement /\ rest \in Seq(Statement) /\ Loose(rest) /\ Sound(s)
  BY <1>a, <1>0, PlanParts
<1>2. PICK task \in Task, x \in Address : task = s.task /\ x = s.address
  BY <1>0, <1>1, Names
<1>3. /\ task.address = x
      /\ task.kind = "attach" => Verifiers(x) # {}
      /\ task.kind = "detach" => Verifiers(x) = {} \/ x \in troubled
  BY <1>0, <1>1, <1>2 DEF Sound
<1>4. \A y : Registered(y)' = Registered(y) /\ Verifiers(y)' = Verifiers(y)
  BY <1>0, RowsSame
<1>5. todo'[c] = rest
  <2>1. todo'[c] = <<>> \o rest
    BY <1>a, <1>0, ListIs
  <2> QED BY <1>1, <2>1
<1>6. Plan(todo[c])' /\ Quiet(todo'[c])
  BY <1>1, <1>5, LoosePlan, PlanIs DEF Quiet
<1>7. /\ \A y : Erased(y)' = {}
      /\ \A y \in Address \ {x} : ~Telling(y)
  BY <1>a, <1>0, <1>2, <1>6, QuietMeans, OnlyClient
<1>8. \A y : Erased(y) = {}
  <2>1. \A v, y : s # EraseOf(v, y)
    BY <1>0 DEF EraseOf
  <2> QED BY <1>a, <2>1, OnlyClient
<1>9. Right(task)'
  BY <1>0, <1>3, <1>4, <1>7 DEF Right, Excuse, Keep
<1>10. \A y \in Address \ {task.address} : Calm(y)
  BY <1>0, <1>3, <1>4, <1>7, <1>8 DEF Calm, Keep, Excuse
<1>11. OneRegistered'
  BY <1>0, SameRegistered DEF SerialInv
<1> QED BY <1>0, <1>2, <1>6, <1>9, <1>10, <1>11 DEF Orderly, Announced

\* The task of a row that is going to be deleted is queued.
LEMMA DetachOrderly ==
    ASSUME NEW c, Client = {c}, SerialInv(c), UNCHANGED <<row, troubled>>,
           Quiet(todo[c]), NEW x \in Address, NEW u \in User, u \in Registered(x),
           Enqueue(Detach(x)), todo'[c] # <<>>, Head(todo'[c]) = EraseOf(u, x),
           Plan(todo[c])'
    PROVE  Orderly(c)
<1>1. \A y : Registered(y)' = Registered(y) /\ Verifiers(y)' = Verifiers(y)
  BY RowsSame
<1>2. \A y : ~Telling(y) /\ Erased(y) = {}
  BY QuietMeans
<1>3. Erased(x)' = {u} /\ \A y \in Address \ {x} : Erased(y)' = {}
  <2>1. \A v, y : EraseOf(u, x) = EraseOf(v, y) => v = u /\ y = x
    BY DEF EraseOf
  <2> QED BY <2>1, OnlyClient
<1>4. Detach(x) \in Task /\ Detach(x).kind = "detach" /\ Detach(x).address = x
  BY TaskOf
<1>5. x \in troubled' \/ Keep(x)' = {}
  <2>1. x \in troubled \/ Registered(x) \subseteq {u}
    BY DEF SerialInv, OneRegistered
  <2> QED BY <1>1, <1>3, <2>1, VerifiersRegistered DEF Keep
<1>6. Right(Detach(x))'
  BY <1>4, <1>5 DEF Right, Excuse
<1>7. \A y \in Address \ {x} : Calm(y)
  BY <1>1, <1>2, <1>3 DEF Calm, Keep, Excuse
<1>8. OneRegistered'
  BY SameRegistered DEF SerialInv
<1> QED BY <1>4, <1>6, <1>7, <1>8 DEF Orderly, Announced

LEMMA DeleteOrderly ==
    ASSUME NEW c, Client = {c}, SerialInv(c), Delete(c)
    PROVE  Orderly(c)
<1>a. PICK s, rest : s = Head(todo[c]) /\ rest = Tail(todo[c])
  OBVIOUS
<1>0. /\ c \in Client /\ IInv /\ todo[c] # <<>> /\ s.do = "delete"
      /\ Enqueue(Detach(s.address)) /\ Goes(c, <<EraseOf(s.user, s.address)>>)
      /\ UNCHANGED <<row, troubled>>
  BY <1>a DEF SerialInv, Delete, Does
<1>1. /\ s \in Statement /\ rest \in Seq(Statement) /\ Loose(rest) /\ Sound(s)
      /\ Quiet(todo[c])
  BY <1>a, <1>0, PlanParts DEF Quiet
<1>2. PICK u \in User, x \in Address : u = s.user /\ x = s.address
  BY <1>0, <1>1, Names
<1>3. u \in Registered(x) /\ Registered(x)' = Registered(x)
  BY <1>0, <1>1, <1>2, RowsSame DEF Sound
<1> DEFINE e == EraseOf(u, x)
<1>4. e \in Statement /\ Sound(e)'
  BY <1>3, Made DEF Sound, EraseOf
<1>5. todo'[c] = <<e>> \o rest
  BY <1>a, <1>0, <1>2, ListIs
<1>6. Plan(todo[c])' /\ todo'[c] # <<>> /\ Head(todo'[c]) = e
  <2> HIDE DEF e
  <2> QED BY <1>1, <1>4, <1>5, ThenLoose, PlanIs
<1> QED BY <1>0, <1>1, <1>2, <1>3, <1>6, DetachOrderly

LEMMA LeaveAddressOrderly ==
    ASSUME NEW c, Client = {c}, SerialInv(c), LeaveAddress(c)
    PROVE  Orderly(c)
<1>a. PICK s, rest : s = Head(todo[c]) /\ rest = Tail(todo[c])
  OBVIOUS
<1>0. /\ c \in Client /\ IInv /\ todo[c] # <<>> /\ s.do = "leave"
      /\ UNCHANGED <<row, troubled>>
  BY <1>a DEF SerialInv, LeaveAddress, Does
<1>1. /\ s \in Statement /\ rest \in Seq(Statement) /\ Loose(rest) /\ Sound(s)
      /\ Quiet(todo[c])
  BY <1>a, <1>0, PlanParts DEF Quiet
<1>2. PICK u \in User, S \in SUBSET Address : u = s.user /\ S = s.rest
  BY <1>0, <1>1, Names
<1>3. PICK x \in S :
        /\ Enqueue(Detach(x))
        /\ Goes(c, <<EraseOf(u, x), [s EXCEPT !.rest = @ \ {x}]>>)
  BY <1>a, <1>2 DEF LeaveAddress
<1>4. PICK t : t = [s EXCEPT !.rest = @ \ {x}]
  OBVIOUS
<1>5. t \in Statement /\ t.do = "leave" /\ t.user = u /\ t.rest = S \ {x}
  <2>1. s \in [do : {"leave", "admit"}, user : User, rest : SUBSET Address]
    BY <1>0, <1>1 DEF Statement
  <2>2. t \in Statement
    BY <1>0, <1>1, <1>4, Changed
  <2> QED BY <1>0, <1>2, <1>4, <2>1, <2>2
<1> DEFINE e == EraseOf(u, x)
<1>6. \A y \in Address : /\ u \in Registered(y) <=> y \in S
                         /\ Registered(y)' = Registered(y)
  BY <1>0, <1>1, <1>2, RowsSame DEF Sound, Has
<1>7. e \in Statement /\ e.do = "erase" /\ e.user = u /\ e.address = x /\ Sound(e)'
  BY <1>6, Made DEF Sound, EraseOf
<1>8. Leaving(e, t)'
  <2>1. (S \ {x}) \cup {x} = S
    OBVIOUS
  <2> HIDE DEF e
  <2> QED BY <1>5, <1>6, <1>7, <2>1 DEF Leaving, Has
<1> HIDE DEF e
<1>9. todo'[c] = <<e, t>> \o rest
  BY <1>a, <1>0, <1>3, <1>4, ListIs DEF e
<1>10. PICK more \in Seq(Statement) : more = <<t>> \o rest
  BY <1>1, <1>5, Cons
<1>11. PICK list \in Seq(Statement) : list = <<e>> \o more
  BY <1>7, Cons
<1>12. /\ list = <<e, t>> \o rest
       /\ list # <<>> /\ Head(list) = e /\ Tail(list) = more
  <2>1. <<e, t>> \o rest = <<e>> \o (<<t>> \o rest)
    BY <1>1, <1>5, <1>7, ConsTwo
  <2>2. list # <<>> /\ Head(list) = e /\ Tail(list) = more
    BY <1>7, <1>11, Cons
  <2>3. list = <<e, t>> \o rest
    BY ONLY <1>10, <1>11, <2>1
  <2> QED BY <2>2, <2>3
<1>13. /\ Tail(list) # <<>> /\ Head(Tail(list)) = t /\ Tail(Tail(list)) = rest
  <2>1. more # <<>> /\ Head(more) = t /\ Tail(more) = rest
    BY <1>1, <1>5, <1>10, Cons
  <2> QED BY <1>12, <2>1
<1>14. Plan(list)'
  <2>1. Loose(rest)'
    BY <1>1 DEF Loose, Free
  <2> QED BY <1>7, <1>8, <1>12, <1>13, <2>1 DEF Plan
<1>15. Plan(todo[c])' /\ todo'[c] # <<>> /\ Head(todo'[c]) = EraseOf(u, x)
  BY <1>9, <1>12, <1>14, PlanIs DEF e
<1> QED BY <1>0, <1>1, <1>2, <1>3, <1>6, <1>15, DetachOrderly

\* A row is deleted whose task has been queued before.
LEMMA EraseOrderly ==
    ASSUME NEW c, Client = {c}, SerialInv(c), Erase(c)
    PROVE  Orderly(c)
<1>a. PICK s, rest : s = Head(todo[c]) /\ rest = Tail(todo[c])
  OBVIOUS
<1>0. /\ c \in Client /\ IInv /\ RowsOK /\ todo[c] # <<>> /\ s.do = "erase"
      /\ row' = [row EXCEPT ![s.address][s.user] = "none"]
      /\ Goes(c, <<>>) /\ UNCHANGED <<queue, troubled>>
  BY <1>a DEF SerialInv, IInv, Erase, Does
<1>1. s \in Statement /\ rest \in Seq(Statement)
  BY <1>a, <1>0, PlanParts
<1>2. PICK u \in User, x \in Address : u = s.user /\ x = s.address
  BY <1>0, <1>1, Names
<1>3. \A y \in Address, v \in User :
         row'[y][v] = IF y = x /\ v = u THEN "none" ELSE row[y][v]
  BY <1>0, <1>2 DEF RowsOK
<1>4. /\ \A y \in Address \ {x} : /\ Registered(y)' = Registered(y)
                                  /\ Verifiers(y)' = Verifiers(y)
      /\ Registered(x)' = Registered(x) \ {u}
      /\ Verifiers(x)' = Verifiers(x) \ {u}
  BY <1>3 DEF Registered, Verifiers
<1>5. s = EraseOf(u, x)
  <2>1. s \in [do : {"delete", "erase"}, user : User, address : Address]
    BY <1>0, <1>1 DEF Statement
  <2> QED BY <1>0, <1>2, <2>1 DEF EraseOf
<1>6. /\ \A y : ~Telling(y)
      /\ Erased(x) = {u} /\ \A y \in Address \ {x} : Erased(y) = {}
  <2>1. \A v, y : s = EraseOf(v, y) => v = u /\ y = x
    BY <1>5 DEF EraseOf
  <2> QED BY <1>a, <1>0, <1>5, <2>1, OnlyClient
<1>7. todo'[c] = rest
  <2>1. todo'[c] = <<>> \o rest
    BY <1>a, <1>0, ListIs
  <2> QED BY <1>1, <2>1
<1>8. Plan(rest)' /\ Quiet(rest)
  <2>1. CASE Loose(rest)
    BY <1>1, <2>1, LoosePlan DEF Quiet
  <2>2. CASE ~Loose(rest)
    <3>1. rest # <<>> /\ Leaving(s, Head(rest)) /\ Loose(Tail(rest))
      BY <1>a, <1>0, <2>2 DEF SerialInv, Plan
    <3>2. PICK t : t = Head(rest)
      OBVIOUS
    <3>3. t.do = "leave" /\ t.user = u /\ x \notin t.rest /\ Has(u, t.rest \cup {x})
      BY <1>2, <3>1, <3>2 DEF Leaving
    <3>4. Has(u, t.rest)'
      BY <1>4, <3>3 DEF Has
    <3>5. Sound(t)'
      BY <3>3, <3>4 DEF Sound
    <3>6. Loose(Tail(rest))'
      BY <3>1 DEF Loose, Free
    <3> QED BY <3>1, <3>2, <3>3, <3>5, <3>6 DEF Plan, Quiet
  <2> QED BY <2>1, <2>2
<1>9. Plan(todo[c])' /\ \A y : ~Telling(y)' /\ Erased(y)' = {}
  BY <1>7, <1>8, PlanIs, QuietMeans
<1>10. \A y \in Address : Keep(y)' = Keep(y)
  BY <1>4, <1>6, <1>9 DEF Keep
<1>11. \A y \in Address : Calm(y)
  BY <1>0, <1>4, <1>6, <1>9, <1>10 DEF Calm, Excuse
<1>12. OneRegistered'
  BY <1>0, <1>4 DEF SerialInv, OneRegistered
<1> QED BY <1>0, <1>9, <1>11, <1>12 DEF Orderly, Announced

\* An unverified row is handed over: nobody has verified the address meanwhile.
LEMMA HandOrderly ==
    ASSUME NEW c, Client = {c}, SerialInv(c), HandOver(c) \/ Move(c)
    PROVE  Orderly(c)
<1>a. PICK s, rest : s = Head(todo[c]) /\ rest = Tail(todo[c])
  OBVIOUS
<1>0. /\ c \in Client /\ IInv /\ RowsOK /\ todo[c] # <<>> /\ s.do \in {"hand", "move"}
  BY <1>a DEF SerialInv, IInv, HandOver, Move, Does
<1>1. /\ s \in Statement /\ rest \in Seq(Statement) /\ Loose(rest) /\ Sound(s)
      /\ Quiet(todo[c])
  BY <1>a, <1>0, PlanParts DEF Quiet
<1>2. PICK u \in User, x \in Address, v \in User :
         u = s.user /\ x = s.address /\ v = s.old
  BY <1>0, <1>1, Names
<1>3. Verifiers(x) = {} /\ \A y : ~Telling(y) /\ Erased(y) = {}
  BY <1>0, <1>1, <1>2, QuietMeans DEF Sound
<1>4. CASE HandOver(c)
  <2>1. CASE Raises(c) /\ UNCHANGED queue
    <3>1. todo'[c] = <<>> /\ <<>> \in Seq(Statement)
      BY <1>0, <2>1, ListIs
    <3>2. Loose(<<>>)
      BY DEF Loose
    <3>3. UNCHANGED <<row, troubled>>
      BY <1>4 DEF HandOver
    <3> QED BY <1>1, <2>1, <3>1, <3>2, <3>3, LooseOrderly
  <2>2. CASE Enqueue(Detach(x)) /\ Goes(c, <<[s EXCEPT !.do = "move"]>>)
    <3>1. PICK t : t = [s EXCEPT !.do = "move"]
      OBVIOUS
    <3>2. t \in Statement /\ t.do = "move" /\ t.address = x
      <4>1. s \in [do : {"hand", "move"}, user : User, address : Address, old : User]
        BY <1>0, <1>1 DEF Statement
      <4>2. s.do = "hand"
        BY <1>a, <1>4 DEF HandOver, Does
      <4> QED BY <1>1, <1>2, <3>1, <4>1, <4>2, Changed
    <3>3. UNCHANGED <<row, troubled>>
      BY <1>4 DEF HandOver
    <3>4. \A y : Registered(y)' = Registered(y) /\ Verifiers(y)' = Verifiers(y)
      BY <3>3, RowsSame
    <3>5. Sound(t)'
      BY <1>3, <3>2, <3>4 DEF Sound
    <3>6. todo'[c] = <<t>> \o rest
      BY <1>a, <1>0, <2>2, <3>1, ListIs
    <3>7. Plan(todo[c])' /\ Quiet(todo'[c])
      BY <1>1, <3>2, <3>5, <3>6, ThenLoose, PlanIs DEF Quiet
    <3>8. \A y : ~Telling(y)' /\ Erased(y)' = {}
      BY <3>7, QuietMeans
    <3>9. Right(Detach(x))'
      BY <1>3, <3>4, TaskOf DEF Right, Excuse, Keep
    <3>10. \A y : Calm(y)
      BY <1>3, <3>3, <3>4, <3>8 DEF Calm, Keep, Excuse
    <3>11. OneRegistered'
      BY <3>3, SameRegistered DEF SerialInv
    <3> QED BY <2>2, <3>7, <3>9, <3>10, <3>11, TaskOf DEF Orderly, Announced
  <2> QED BY <1>a, <1>2, <1>4, <2>1, <2>2 DEF HandOver
<1>5. CASE Move(c)
  <2>1. todo'[c] = rest
    <3>1. todo'[c] = <<>> \o rest
      BY <1>a, <1>0, <1>5, ListIs DEF Move
    <3> QED BY <1>1, <3>1
  <2>2. Plan(todo[c])' /\ Quiet(todo'[c])
    BY <1>1, <2>1, LoosePlan, PlanIs DEF Quiet
  <2>3. \A y : ~Telling(y)' /\ Erased(y)' = {}
    BY <2>2, QuietMeans
  <2>4. queue' = queue /\ troubled \subseteq troubled'
    BY <1>5 DEF Move
  <2>5. /\ \A y \in Address \ {x} : /\ Registered(y)' = Registered(y)
                                    /\ Verifiers(y)' = Verifiers(y)
        /\ Verifiers(x)' = {}
        /\ \/ Registered(x)' = Registered(x)
           \/ x \notin troubled' => Registered(x)' \subseteq {u}
    <3>1. CASE UNCHANGED <<row, troubled>>
      BY <1>3, <3>1, RowsSame
    <3>2. CASE /\ row' = [row EXCEPT ![x] = [@ EXCEPT ![v] = "none", ![u] = "unverified"]]
               /\ troubled' = IF Registered(x) \subseteq {v} THEN troubled
                              ELSE troubled \cup {x}
      <4>1. \A y \in Address, w \in User :
               row'[y][w] = IF y = x /\ w = u THEN "unverified"
                            ELSE IF y = x /\ w = v THEN "none" ELSE row[y][w]
        BY <1>0, <3>2 DEF RowsOK
      <4>2. \A y \in Address \ {x} : /\ Registered(y)' = Registered(y)
                                     /\ Verifiers(y)' = Verifiers(y)
        BY <4>1 DEF Registered, Verifiers
      <4>3. Verifiers(x)' = {}
        BY <1>3, <4>1 DEF Verifiers
      <4>4. x \notin troubled' => Registered(x)' \subseteq {u}
        BY <3>2, <4>1 DEF Registered
      <4> QED BY <4>2, <4>3, <4>4
    <3> QED BY <1>a, <1>2, <1>5, <3>1, <3>2 DEF Move
  <2>6. OneRegistered'
    <3> SUFFICES ASSUME NEW y \in Address \ troubled', NEW p \in Registered(y)',
                        NEW q \in Registered(y)'
                 PROVE  p = q
      BY DEF OneRegistered
    <3>1. CASE Registered(y)' = Registered(y)
      BY <2>4, <3>1 DEF SerialInv, OneRegistered
    <3>2. CASE Registered(y)' # Registered(y)
      BY <2>5, <3>2
    <3> QED BY <3>1, <3>2
  <2>7. \A y \in Address : Verifiers(y)' = Verifiers(y)
    BY <1>3, <2>5
  <2>8. \A y \in Address : Calm(y)
    BY <1>3, <2>3, <2>4, <2>7 DEF Calm, Keep, Excuse
  <2> QED BY <2>2, <2>4, <2>6, <2>8 DEF Orderly, Announced
<1> QED BY <1>4, <1>5

\* An account is deleted that has no rows left.
LEMMA DropOrderly ==
    ASSUME NEW c, Client = {c}, SerialInv(c), DropAccount(c)
    PROVE  /\ Orderly(c)
           /\ \A x \in Address : Head(todo[c]).user \notin Verifiers(x)
<1>a. PICK s, rest : s = Head(todo[c]) /\ rest = Tail(todo[c])
  OBVIOUS
<1>0. /\ c \in Client /\ IInv /\ RowsOK /\ todo[c] # <<>> /\ s.do = "leave" /\ s.rest = {}
      /\ row' = [x \in Address |-> [row[x] EXCEPT ![s.user] = "none"]]
      /\ Goes(c, <<>>) /\ UNCHANGED <<queue, troubled>>
  BY <1>a DEF SerialInv, IInv, DropAccount, Does
<1>1. /\ s \in Statement /\ rest \in Seq(Statement) /\ Loose(rest) /\ Sound(s)
      /\ Quiet(todo[c])
  BY <1>a, <1>0, PlanParts DEF Quiet
<1>2. \A x \in Address : s.user \notin Registered(x)
  BY <1>0, <1>1 DEF Sound, Has
<1>3. s.user \in User
  BY <1>0, <1>1, Names
<1>4. row' = row
  <2>1. \A x \in Address : row[x][s.user] = "none"
    BY <1>2, <1>3 DEF Registered
  <2>2. \A x \in Address : [row[x] EXCEPT ![s.user] = "none"] = row[x]
    BY <1>0, <1>3, <2>1 DEF RowsOK
  <2> QED BY <1>0, <2>2 DEF RowsOK
<1>5. todo'[c] = rest
  <2>1. todo'[c] = <<>> \o rest
    BY <1>a, <1>0, ListIs
  <2> QED BY <1>1, <2>1
<1>6. Orderly(c)
  BY <1>0, <1>1, <1>4, <1>5, LooseOrderly
<1> QED BY <1>a, <1>2, <1>6, VerifiersRegistered

\* A request dies: the address that it was about is troubled.
LEMMA CrashOrderly ==
    ASSUME NEW c, Client = {c}, SerialInv(c), Crash(c)
    PROVE  Orderly(c)
<1>0. /\ c \in Client /\ IInv /\ todo[c] # <<>> /\ Raises(c)
      /\ troubled' = troubled \cup {x \in Address : HalfWay(c, x)}
      /\ UNCHANGED <<row, queue>>
  BY DEF SerialInv, Crash
<1>1. \A y : Registered(y)' = Registered(y) /\ Verifiers(y)' = Verifiers(y)
  BY <1>0, RowsSame
<1>2. todo'[c] = <<>> /\ <<>> \in Seq(Statement)
  BY <1>0, ListIs
<1>3. Plan(todo[c])' /\ Quiet(todo'[c])
  <2>1. Loose(<<>>)
    BY DEF Loose
  <2> QED BY <1>2, <2>1, LoosePlan, PlanIs DEF Quiet
<1>4. \A y : ~Telling(y)' /\ Erased(y)' = {}
  BY <1>3, QuietMeans
<1>5. ASSUME NEW y \in Address, Telling(y) \/ Erased(y) # {} PROVE y \in troubled'
  <2>1. CASE Telling(y)
    BY <1>0, <2>1 DEF Telling, HalfWay
  <2>2. CASE Erased(y) # {}
    <3>1. PICK u : Head(todo[c]) = EraseOf(u, y)
      BY <2>2, OnlyClient
    <3>2. Head(todo[c]).do = "erase" /\ Head(todo[c]).address = y
      BY <3>1 DEF EraseOf
    <3> QED BY <1>0, <3>2 DEF HalfWay, Does
  <2> QED BY <1>5, <2>1, <2>2
<1>6. \A y \in Address : Calm(y)
  <2> TAKE y \in Address
  <2>1. Excuse(y) => Excuse(y)'
    BY <1>0, <1>1, <1>4, <1>5 DEF Excuse, Keep
  <2> QED BY <1>1, <1>4, <2>1 DEF Calm, Keep
<1>7. OneRegistered'
  BY <1>0, SameRegistered DEF SerialInv
<1> QED BY <1>0, <1>3, <1>6, <1>7 DEF Orderly, Announced

LEMMA ClientOrderly ==
    ASSUME NEW c, Client = {c}, SerialInv(c), Start(c) \/ Serve(c) \/ Crash(c)
    PROVE  Orderly(c)
<1>1. CASE Start(c) \/ Crash(c)
  BY <1>1, StartOrderly, CrashOrderly
<1>2. CASE Serve(c)
  BY <1>2, SaveOrderly, TellOrderly, DeleteOrderly, EraseOrderly, HandOrderly,
     LeaveAddressOrderly, DropOrderly, MakeOrderly DEF Serve
<1> QED BY <1>1, <1>2

----------------------------------------------------------------------------

\* What the other threads do does not concern the requests.
LEMMA SerialKept ==
    ASSUME NEW c, Client = {c}, SerialInv(c), UNCHANGED <<row, todo, troubled>>
    PROVE  OneRegistered' /\ Plan(todo[c])'
<1>1. \A x : Registered(x)' = Registered(x) /\ Verifiers(x)' = Verifiers(x)
  BY RowsSame
<1>2. OneRegistered'
  BY SameRegistered DEF SerialInv
<1>3. Plan(todo[c])'
  BY <1>1 DEF SerialInv, Plan, Sound, Leaving, Loose, Has, Free
<1> QED BY <1>2, <1>3

\* A step that keeps the rows and the request.
LEMMA OthersOrderly ==
    ASSUME UNCHANGED <<row, queue, todo, troubled>>
    PROVE  /\ Announced
           /\ \A x \in Address : /\ Keep(x)' = Keep(x) /\ Verifiers(x)' = Verifiers(x)
                                 /\ Erased(x)' = Erased(x) /\ (Excuse(x)' <=> Excuse(x))
<1>1. \A x : Registered(x)' = Registered(x) /\ Verifiers(x)' = Verifiers(x)
  BY RowsSame
<1>2. \A x : Erased(x)' = Erased(x) /\ (Telling(x)' <=> Telling(x))
  BY DEF Erased, Telling, Does
<1>3. \A x : Keep(x)' = Keep(x) /\ (Excuse(x)' <=> Excuse(x))
  BY <1>1, <1>2 DEF Keep, Excuse
<1>4. \A x \in Address : Calm(x)
  BY <1>1, <1>2, <1>3 DEF Calm
<1> QED BY <1>1, <1>2, <1>3, <1>4 DEF Announced

LEMMA SerialInit ==
    ASSUME NEW c \in Client, Init PROVE SerialInv(c)
<1>1. OneRegistered
  BY DEF Init, OneRegistered, Registered
<1>2. Plan(todo[c])
  BY DEF Init, Plan
<1> QED BY <1>1, <1>2, InitSound DEF SerialInv

LEMMA SerialNext ==
    ASSUME NEW c, Client = {c}, SerialInv(c), [Next]_vars
    PROVE  SerialInv(c)'
<1>0. IInv' /\ c \in Client
  BY NextSound DEF SerialInv
<1>1. CASE Start(c) \/ Serve(c) \/ Crash(c)
  BY <1>0, <1>1, ClientOrderly DEF SerialInv, Orderly
<1>2. CASE UNCHANGED <<row, todo, troubled>>
  BY <1>0, <1>2, SerialKept DEF SerialInv
<1>3. ASSUME NEW i \in Awarder, Issue(i) \/ Insert(i)
      PROVE  UNCHANGED <<row, todo, troubled>>
  BY <1>3 DEF Issue, Insert
<1>4. ASSUME NEW w \in Worker, RunTasks(w)
      PROVE  UNCHANGED <<row, todo, troubled>>
  BY <1>4 DEF RunTasks, Take, RunDetach, RunAttach, Update
<1> QED BY <1>1, <1>2, <1>3, <1>4 DEF Next, vars

----------------------------------------------------------------------------
(* One worker. *)

LEMMA DueFor ==
    ASSUME NEW w, Worker = {w}, NEW x
    PROVE  /\ Due(x) <=> \/ ~Unqueued(x)
                         \/ At(w, "run") /\ doing[w].task.address = x
                         \/ At(w, "update") /\ doing[w].address = x
           /\ Due(x)' <=> \/ ~Unqueued(x)'
                          \/ At(w, "run")' /\ doing'[w].task.address = x
                          \/ At(w, "update")' /\ doing'[w].address = x
  BY DEF Due, Unqueued

LEMMA RightStays ==
    ASSUME NEW task, Calm(task.address), Right(task) PROVE Right(task)'
  BY DEF Calm, Right

\* What is queued is right about its address; the tasks about other addresses
\* remain what they were.
LEMMA TasksAnnounced ==
    ASSUME NEW w, Worker = {w}, IInv, TasksInv(w), Announced,
           \/ doing'[w] = doing[w]
           \/ doing[w].at \notin {"run", "update"} /\ doing'[w].at \notin {"run", "update"}
    PROVE  \A x \in Address :
           /\ QueueRight(x)' /\ WorkRight(w, x)'
           /\ ~Due(x)' => ~Due(x) /\ Calm(x)
<1> TAKE x \in Address
<1>0. QueueRight(x) /\ WorkRight(w, x)
  BY DEF TasksInv
<1>1. PICK d : \/ d = doing[w] /\ d = doing'[w]
               \/ /\ d = Idle
                  /\ doing[w].at \notin {"run", "update"}
                  /\ doing'[w].at \notin {"run", "update"}
  OBVIOUS
<1>2. /\ At(w, "run") <=> d.at = "run"
      /\ At(w, "run")' <=> d.at = "run"
      /\ At(w, "update") <=> d.at = "update"
      /\ At(w, "update")' <=> d.at = "update"
      /\ d.at \in {"run", "update"} => d = doing[w] /\ d = doing'[w]
  BY <1>1, IdleStep DEF At
<1>3. /\ WorkRight(w, x) <=> (Unqueued(x) =>
            /\ d.at = "run" /\ d.task.address = x => Right(d.task)
            /\ d.at = "update" /\ d.address = x => d.user \in Keep(x))
      /\ WorkRight(w, x)' <=> (Unqueued(x)' =>
            /\ d.at = "run" /\ d.task.address = x => Right(d.task)'
            /\ d.at = "update" /\ d.address = x => d.user \in Keep(x)')
  BY <1>1, <1>2 DEF WorkRight, Right
<1>4. CASE queue' = queue /\ Calm(x)
  <2>1. QueueRight(x)'
    <3> SUFFICES ASSUME NEW k \in 1..Len(queue), queue[k].address = x,
                        \A j \in k+1..Len(queue) : queue[j].address # x
                 PROVE  Right(queue[k])'
      BY <1>4 DEF QueueRight, Right
    <3>1. PICK task : task = queue[k] /\ Right(task)
      BY <1>0 DEF QueueRight
    <3>2. Right(task)'
      BY <1>4, <3>1, RightStays
    <3> QED BY <1>4, <3>1, <3>2 DEF Right
  <2>2. Unqueued(x)' <=> Unqueued(x)
    BY <1>4 DEF Unqueued
  <2>3. WorkRight(w, x)'
    BY <1>0, <1>3, <1>4, <2>2, RightStays DEF Calm
  <2> QED BY <1>1, <1>2, <1>4, <2>1, <2>2, <2>3, DueFor
<1>5. ASSUME NEW task \in Task, queue' = Append(queue, task), Right(task)',
             task.address # x => Calm(x)
      PROVE  /\ QueueRight(x)' /\ WorkRight(w, x)'
             /\ ~Due(x)' => ~Due(x) /\ Calm(x)
  <2>1. /\ queue \in Seq(Task) /\ Len(queue) \in Nat /\ Len(queue') = Len(queue) + 1
        /\ \A k \in 1..Len(queue) : queue'[k] = queue[k]
        /\ queue'[Len(queue) + 1] = task
    BY <1>5 DEF IInv, RecipientsTypeOK
  <2>2. Unqueued(x)' <=> Unqueued(x) /\ task.address # x
    BY <2>1 DEF Unqueued
  <2>3. QueueRight(x)'
    <3> SUFFICES ASSUME NEW k \in 1..Len(queue'), queue'[k].address = x,
                        \A j \in k+1..Len(queue') : queue'[j].address # x
                 PROVE  Right(queue[k])'
      BY DEF QueueRight
    <3>1. CASE k = Len(queue) + 1
      BY <1>5, <2>1, <3>1 DEF Right
    <3>2. CASE k # Len(queue) + 1
      <4>1. k \in 1..Len(queue) /\ queue[k].address = x /\ queue'[k] = queue[k]
        BY <2>1, <3>2
      <4>2. \A j \in k+1..Len(queue) : queue[j].address # x
        BY <2>1, <4>1
      <4>3. task.address # x
        BY <2>1, <4>1
      <4>4. PICK other : other = queue[k] /\ Right(other)
        BY <1>0, <4>1, <4>2 DEF QueueRight
      <4>5. Right(other)'
        BY <1>5, <4>1, <4>3, <4>4, RightStays
      <4> QED BY <4>1, <4>4, <4>5 DEF Right
    <3> QED BY <3>1, <3>2
  <2>4. WorkRight(w, x)'
    BY <1>0, <1>3, <1>5, <2>2, RightStays DEF Calm
  <2> QED BY <1>1, <1>2, <1>5, <2>2, <2>3, <2>4, DueFor
<1>6. \/ queue' = queue /\ Calm(x)
      \/ \E task \in Task :
         /\ queue' = Append(queue, task) /\ Right(task)'
         /\ task.address # x => Calm(x)
  BY DEF Announced, Enqueue
<1> QED BY <1>4, <1>5, <1>6

LEMMA BelongsStays ==
    ASSUME NEW o, NEW x, Calm(x), Belongs(o, x) PROVE Belongs(o, x)'
  BY DEF Calm, Belongs

LEMMA ClientTasks ==
    ASSUME NEW c, Client = {c}, SerialInv(c), NEW w, Worker = {w}, TasksInv(w),
           Start(c) \/ Serve(c) \/ Crash(c)
    PROVE  TasksInv(w)'
<1>0. IInv /\ c \in Client /\ Recipient \in [Assertion -> Address] /\ Announced
  BY RecipientsConstants, ClientOrderly DEF SerialInv, Orderly
<1>1. UNCHANGED <<doing, missed>>
  BY DEF Start, Register, TakeOver, Confirm, Forget, Leave, SignUp, Login, Make, Provision,
         Request, Serve, Write, CreateRow, Tell, Delete, Erase, HandOver, Move,
         LeaveAddress, DropAccount, Claim, Prune, Join, AdmitAddress, Fetch, Crash
<1>2. \A x \in Address : /\ QueueRight(x)' /\ WorkRight(w, x)'
                         /\ ~Due(x)' => ~Due(x) /\ Calm(x)
  BY <1>0, <1>1, TasksAnnounced
<1>3. ASSUME NEW a \in Assertion \ missed', owner'[a] # Unissued, ~Due(Recipient[a])'
      PROVE  Belongs(owner[a], Recipient[a])'
  <2>1. PICK x \in Address : x = Recipient[a] /\ ~Due(x) /\ Calm(x)
    BY <1>0, <1>2, <1>3
  <2>2. owner[a] # Unissued => Belongs(owner[a], x)
    BY <1>1, <2>1 DEF TasksInv, OwnersRight
  <2>3. CASE owner' = owner
    <3>1. PICK o : o = owner[a]
      OBVIOUS
    <3>2. Belongs(o, x)'
      BY <1>3, <2>1, <2>2, <2>3, <3>1, BelongsStays
    <3> QED BY <2>1, <2>3, <3>1, <3>2 DEF Belongs
  <2>4. CASE DropAccount(c)
    <3>1. PICK u : u = Head(todo[c]).user
      OBVIOUS
    <3>2. u \notin Verifiers(x)
      BY <3>1, <2>4, DropOrderly
    <3>3. owner'[a] = IF owner[a] = u THEN Nobody ELSE owner[a]
      BY <2>4, <3>1 DEF DropAccount
    <3>4. owner'[a] = owner[a]
      <4>1. CASE owner[a] = u
        <5>1. u = Unissued \/ Belongs(u, x)
          BY <2>2, <4>1
        <5>2. u \in User
          BY <1>0, <2>4, <3>1, Statements, Names DEF DropAccount, Does
        <5>3. u = Nobody
          BY <3>2, <5>1, <5>2, RecipientsConstants DEF Belongs, Keep
        <5> QED BY <3>3, <4>1, <5>3
      <4> QED BY <3>3, <4>1
    <3>5. PICK o : o = owner[a]
      OBVIOUS
    <3>6. Belongs(o, x)'
      BY <1>3, <2>1, <2>2, <3>4, <3>5, BelongsStays
    <3> QED BY <2>1, <3>4, <3>5, <3>6 DEF Belongs
  <2>5. DropAccount(c) \/ owner' = owner
    BY DEF Start, Register, TakeOver, Confirm, Forget, Leave, SignUp, Login, Make, Provision,
         Request, Serve, Write, CreateRow, Tell, Delete, Erase, HandOver, Move,
         LeaveAddress, Claim, Prune, Join, AdmitAddress, Fetch, Crash
  <2> QED BY <2>3, <2>4, <2>5
<1>4. OwnersRight'
  BY <1>3 DEF OwnersRight
<1> QED BY <1>2, <1>4 DEF TasksInv

LEMMA StaysMeans ==
    ASSUME NEW u, NEW x, Stays(u, x) PROVE Belongs(u, x)
  BY DEF Stays, Belongs, Excuse, Keep

LEMMA AwarderTasks ==
    ASSUME NEW c, Client = {c}, SerialInv(c), NEW w, Worker = {w}, TasksInv(w),
           NEW i \in Awarder, Issue(i) \/ Insert(i)
    PROVE  TasksInv(w)'
<1>0. /\ i \in Thread /\ w \in Thread /\ doing[i] \in Step /\ IInv
      /\ doing \in [Thread -> Step] /\ Recipient \in [Assertion -> Address]
      /\ owner \in [Assertion -> users \cup {Nobody, Unissued}]
  BY RecipientsConstants DEF Thread, SerialInv, IInv, RecipientsTypeOK
<1>1. UNCHANGED <<row, queue, todo, troubled>>
  BY DEF Issue, Insert
<1>2. /\ Announced
      /\ \A x \in Address : /\ Keep(x)' = Keep(x) /\ Verifiers(x)' = Verifiers(x)
                            /\ Erased(x)' = Erased(x) /\ (Excuse(x)' <=> Excuse(x))
  BY <1>1, OthersOrderly
<1>3. /\ doing[i].at \in {"idle", "insert"} /\ doing'[i].at \in {"idle", "insert"}
      /\ \A t \in Thread \ {i} : doing'[t] = doing[t]
  <2>1. CASE Issue(i)
    <3>1. PICK a, u : /\ doing[i] = Idle
                      /\ doing' = [doing EXCEPT ![i] =
                                     [at |-> "insert", user |-> u, assertion |-> a]]
      BY <2>1 DEF Issue, Begin
    <3> DEFINE step == [at |-> "insert", user |-> u, assertion |-> a]
    <3>2. doing'[i] = step /\ step.at = "insert"
      BY <1>0, <3>1
    <3> HIDE DEF step
    <3> QED BY <1>0, <3>1, <3>2, IdleStep
  <2>2. CASE Insert(i)
    BY <1>0, <2>2, IdleStep DEF Insert, Done, Then, At
  <2> QED BY <2>1, <2>2
<1>4. \/ doing'[w] = doing[w]
      \/ doing[w].at \notin {"run", "update"} /\ doing'[w].at \notin {"run", "update"}
  BY <1>0, <1>3
<1>5. \A x \in Address : /\ QueueRight(x)' /\ WorkRight(w, x)'
                         /\ ~Due(x)' => ~Due(x) /\ Calm(x)
  BY <1>0, <1>2, <1>4, TasksAnnounced
<1>6. ASSUME NEW a \in Assertion \ missed', owner'[a] # Unissued, ~Due(Recipient[a])'
      PROVE  Belongs(owner[a], Recipient[a])'
  <2>1. PICK x \in Address : x = Recipient[a] /\ ~Due(x)
    BY <1>0, <1>5, <1>6
  <2>2. owner[a] # Unissued /\ a \notin missed => Belongs(owner[a], x)
    BY <2>1 DEF TasksInv, OwnersRight
  <2>3. PICK o : o = owner'[a]
    OBVIOUS
  <2>4. Belongs(o, x)
    <3>1. CASE Issue(i)
      BY <1>6, <2>2, <2>3, <3>1 DEF Issue
    <3>2. CASE Insert(i)
      <4> DEFINE b == doing[i].assertion
                 u == doing[i].user
      <4>1. b \in Assertion
        BY <1>0, <3>2, Held DEF Insert
      <4>2. \/ /\ owner' = [owner EXCEPT ![b] = u]
               /\ missed' = IF Stays(u, Recipient[b]) \/ Due(Recipient[b])
                            THEN missed ELSE missed \cup {b}
            \/ owner' = owner /\ missed' = missed
        BY <3>2 DEF Insert
      <4>3. CASE owner'[a] = owner[a]
        BY <1>6, <2>2, <2>3, <4>2, <4>3
      <4>4. CASE owner'[a] # owner[a]
        <5>1. a = b /\ o = u
          BY <1>0, <2>3, <4>1, <4>2, <4>4
        <5>2. Stays(u, x)
          BY <1>6, <2>1, <4>2, <4>4, <5>1
        <5> QED BY <5>1, <5>2, StaysMeans
      <4> QED BY <4>3, <4>4
    <3> QED BY <3>1, <3>2
  <2>5. Belongs(o, x)'
    BY <1>2, <2>4 DEF Belongs
  <2> QED BY <2>1, <2>3, <2>5 DEF Belongs
<1>7. OwnersRight'
  BY <1>6 DEF OwnersRight
<1> QED BY <1>5, <1>7 DEF TasksInv

\* A step of the worker: the rows and the requests stay.
LEMMA WorkerKeeps ==
    ASSUME NEW w \in Worker, RunTasks(w)
    PROVE  /\ UNCHANGED <<row, todo, troubled>>
           /\ \A x : /\ Keep(x)' = Keep(x) /\ Verifiers(x)' = Verifiers(x)
                     /\ Erased(x)' = Erased(x) /\ (Excuse(x)' <=> Excuse(x))
<1>1. UNCHANGED <<row, todo, troubled>>
  BY DEF RunTasks, Take, RunDetach, RunAttach, Update
<1>2. \A x : Verifiers(x)' = Verifiers(x)
  BY <1>1, RowsSame
<1>3. \A x : Erased(x)' = Erased(x) /\ (Telling(x)' <=> Telling(x))
  BY <1>1 DEF Erased, Telling, Does
<1> QED BY <1>1, <1>2, <1>3 DEF Keep, Excuse

LEMMA RightKept ==
    ASSUME NEW w \in Worker, RunTasks(w), NEW task
    PROVE  Right(task)' <=> Right(task)
  BY WorkerKeeps DEF Right

LEMMA BelongsKept ==
    ASSUME NEW w \in Worker, RunTasks(w), NEW o, NEW x
    PROVE  Belongs(o, x)' <=> Belongs(o, x)
  BY WorkerKeeps DEF Belongs

\* The tasks are in the same order when the worker has taken the first.
LEMMA TakeTasks ==
    ASSUME IInv, NEW w, Worker = {w}, TasksInv(w), Take(w)
    PROVE  TasksInv(w)'
<1>0. /\ w \in Thread /\ w \in Worker /\ queue \in Seq(Task) /\ queue # <<>> /\ RunTasks(w)
      /\ doing \in [Thread -> Step]
  BY DEF Thread, IInv, RecipientsTypeOK, Take, RunTasks
<1>1. PICK n \in Nat : n = Len(queue)
  BY <1>0
<1>2. /\ n > 0 /\ Len(queue') = n - 1
      /\ \A k \in 1..n-1 : queue'[k] = queue[k + 1]
  BY <1>0, <1>1 DEF Take
<1>3. PICK first : first = queue[1]
  OBVIOUS
<1>4. doing'[w].at = "run" /\ doing'[w].task = first /\ doing[w] = Idle
  <2>1. /\ doing[w] = Idle
        /\ doing'[w] = [at |-> "run", task |-> Head(queue)]
    BY <1>0 DEF Take, Begin
  <2> QED BY <1>0, <1>3, <2>1
<1>5. \A task : Right(task)' <=> Right(task)
  BY <1>0, RightKept
<1>6. ASSUME NEW x \in Address PROVE QueueRight(x)'
  <2> SUFFICES ASSUME NEW k \in 1..Len(queue'), queue'[k].address = x,
                      \A j \in k+1..Len(queue') : queue'[j].address # x
               PROVE  Right(queue[k])'
    BY DEF QueueRight
  <2>1. k \in 1..n-1 /\ k + 1 \in 1..n /\ queue'[k] = queue[k + 1]
    BY <1>1, <1>2
  <2>2. ASSUME NEW j \in k+2..n PROVE queue[j].address # x
    <3>1. j - 1 \in k+1..n-1 /\ j - 1 \in 1..n-1 /\ j - 1 + 1 = j
      BY <1>1, <1>2, <2>1
    <3>2. queue'[j - 1] = queue[j]
      BY <1>2, <3>1
    <3> QED BY <1>2, <3>1, <3>2
  <2>3. PICK task : task = queue[k + 1]
    OBVIOUS
  <2>4. Right(task)
    <3>1. k + 1 + 1 = k + 2
      BY <2>1
    <3>2. QueueRight(x)
      BY DEF TasksInv
    <3>3. Right(queue[k + 1])
      BY <1>1, <2>1, <2>2, <3>1, <3>2 DEF QueueRight
    <3> QED BY <2>3, <3>3
  <2>5. Right(task)'
    BY <1>5, <2>4
  <2> QED BY <2>1, <2>3, <2>5 DEF Right
<1>7. ASSUME NEW x \in Address
      PROVE  Unqueued(x) <=> Unqueued(x)' /\ first.address # x
  <2>1. ASSUME Unqueued(x) PROVE Unqueued(x)' /\ first.address # x
    BY <1>1, <1>2, <1>3, <2>1 DEF Unqueued
  <2>2. ASSUME Unqueued(x)', first.address # x PROVE Unqueued(x)
    <3> SUFFICES ASSUME NEW k \in 1..n PROVE queue[k].address # x
      BY <1>1 DEF Unqueued
    <3>1. CASE k = 1
      BY <1>3, <2>2, <3>1
    <3>2. CASE k # 1
      <4>1. k - 1 \in 1..n-1 /\ k - 1 + 1 = k
        BY <1>2, <3>2
      <4>2. queue'[k - 1] = queue[k]
        BY <1>2, <4>1
      <4> QED BY <1>2, <2>2, <4>1, <4>2 DEF Unqueued
    <3> QED BY <3>1, <3>2
  <2> QED BY <2>1, <2>2
<1>8. ASSUME NEW x \in Address PROVE WorkRight(w, x)'
  <2>1. ASSUME Unqueued(x)', first.address = x PROVE Right(first)'
    <3>1. ASSUME NEW j \in 1+1..n PROVE queue[j].address # x
      <4>1. j - 1 \in 1..n-1 /\ j - 1 + 1 = j
        BY <1>2
      <4>2. queue'[j - 1] = queue[j]
        BY <1>2, <4>1
      <4> QED BY <1>2, <2>1, <4>1, <4>2 DEF Unqueued
    <3>2. 1 \in 1..n
      BY <1>2
    <3>3. QueueRight(x)
      BY DEF TasksInv
    <3>4. Right(queue[1])
      BY <1>1, <1>3, <2>1, <3>1, <3>2, <3>3 DEF QueueRight
    <3> QED BY <1>3, <1>5, <3>4
  <2> QED BY <1>4, <2>1 DEF WorkRight, At, Right
<1>9. \A x \in Address : Due(x)' <=> Due(x)
  BY <1>4, <1>7, IdleStep, DueFor DEF At
<1>10. OwnersRight'
  <2>1. \A a \in Assertion : Recipient[a] \in Address
    BY RecipientsConstants
  <2>2. UNCHANGED <<owner, missed>>
    BY DEF Take
  <2>3. \A a \in Assertion \ missed : owner[a] # Unissued /\ ~Due(Recipient[a]) =>
           Belongs(owner[a], Recipient[a])
    BY DEF TasksInv, OwnersRight
  <2>4. \A o, x : Belongs(o, x)' <=> Belongs(o, x)
    BY <1>0, BelongsKept
  <2> SUFFICES ASSUME NEW a \in Assertion \ missed, owner[a] # Unissued,
                      ~Due(Recipient[a])'
               PROVE  Belongs(owner[a], Recipient[a])'
    BY <2>2 DEF OwnersRight
  <2>5. PICK o, x : o = owner[a] /\ x = Recipient[a]
    OBVIOUS
  <2>6. Belongs(o, x)
    BY <1>9, <2>1, <2>3, <2>5
  <2>7. Belongs(o, x)'
    BY <2>4, <2>6
  <2> QED BY <2>2, <2>5, <2>7 DEF Belongs
<1> QED BY <1>6, <1>8, <1>10 DEF TasksInv

\* A statement of the worker that sets users: what is right for the address
\* that it is about, and the rest stays.
LEMMA RunTasksRight ==
    ASSUME IInv, NEW w, Worker = {w}, TasksInv(w), RunTasks(w),
           NEW x \in Address, NEW u,
           \/ At(w, "run") /\ doing[w].task.address = x
           \/ At(w, "update") /\ doing[w].address = x,
           Done(w), UNCHANGED <<queue, missed>>,
           SetOwner(x, u) \/ UNCHANGED owner,
           Unqueued(x) => SetOwner(x, u) /\ Belongs(u, x)
    PROVE  TasksInv(w)'
<1>0. /\ w \in Thread /\ w \in Worker /\ doing \in [Thread -> Step]
      /\ Recipient \in [Assertion -> Address]
  BY RecipientsConstants DEF Thread, IInv, RecipientsTypeOK
<1>1. doing'[w] = Idle
  BY <1>0 DEF Done, Then
<1>2. \A y : Unqueued(y)' <=> Unqueued(y)
  BY DEF Unqueued
<1>3. \A task : Right(task)' <=> Right(task)
  BY <1>0, RightKept
<1>4. ASSUME NEW y \in Address PROVE QueueRight(y)'
  <2> SUFFICES ASSUME NEW k \in 1..Len(queue), queue[k].address = y,
                      \A j \in k+1..Len(queue) : queue[j].address # y
               PROVE  Right(queue[k])'
    BY DEF QueueRight, Right
  <2>1. PICK task : task = queue[k]
    OBVIOUS
  <2>2. Right(task)
    BY <2>1 DEF TasksInv, QueueRight
  <2>3. Right(task)'
    BY <1>3, <2>2
  <2> QED BY <2>1, <2>3 DEF Right
<1>5. \A y \in Address : WorkRight(w, y)'
  BY <1>1, IdleStep DEF WorkRight, At
<1>6. ASSUME NEW a \in Assertion \ missed, owner'[a] # Unissued, ~Due(Recipient[a])'
      PROVE  Belongs(owner[a], Recipient[a])'
  <2>1. Unqueued(Recipient[a])
    BY <1>2, <1>6, DueFor
  <2>2. PICK o, y : o = owner'[a] /\ y = Recipient[a]
    OBVIOUS
  <2>3. Belongs(o, y)
    <3>1. CASE y = x
      <4>1. owner'[a] = u /\ Belongs(u, x)
        BY <1>6, <2>1, <2>2, <3>1 DEF SetOwner
      <4> QED BY <2>2, <3>1, <4>1
    <3>2. CASE y # x
      <4>1. owner'[a] = owner[a]
        BY <1>6, <2>2, <3>2 DEF SetOwner
      <4>2. ~Due(y)
        BY <2>1, <2>2, <3>2, DueFor DEF At
      <4> QED BY <1>6, <2>2, <4>1, <4>2 DEF TasksInv, OwnersRight
    <3> QED BY <3>1, <3>2
  <2>4. Belongs(o, y)'
    BY <1>0, <2>3, BelongsKept
  <2> QED BY <2>2, <2>4 DEF Belongs
<1>7. OwnersRight'
  BY <1>6 DEF OwnersRight
<1> QED BY <1>4, <1>5, <1>7 DEF TasksInv

LEMMA WorkerTasks ==
    ASSUME IInv, NEW w, Worker = {w}, TasksInv(w), RunTasks(w)
    PROVE  TasksInv(w)'
<1>0. /\ w \in Thread /\ w \in Worker /\ doing[w] \in Step /\ RowsOK
      /\ doing \in [Thread -> Step]
  BY DEF Thread, IInv, RecipientsTypeOK
<1>1. CASE RunDetach(w)
  <2>1. PICK x, u : x = doing[w].task.address /\ u = Nobody
    OBVIOUS
  <2>2. doing[w].task \in Task /\ x \in Address
    BY <1>0, <1>1, <2>1, Held DEF RunDetach, Task
  <2>3. /\ At(w, "run") /\ doing[w].task.kind = "detach" /\ SetOwner(x, u)
        /\ Done(w) /\ UNCHANGED <<queue, missed>>
    BY <1>1, <2>1 DEF RunDetach
  <2>4. Unqueued(x) => SetOwner(x, u) /\ Belongs(u, x)
    <3>1. WorkRight(w, x)
      BY <2>2 DEF TasksInv
    <3> QED BY <2>1, <2>3, <3>1 DEF WorkRight, Right, Belongs
  <2> QED BY <2>1, <2>2, <2>3, <2>4, RunTasksRight
<1>2. CASE Update(w)
  <2>1. PICK x, u : x = doing[w].address /\ u = doing[w].user
    OBVIOUS
  <2>2. x \in Address
    BY <1>0, <1>2, <2>1, Held DEF Update
  <2>3. /\ At(w, "update") /\ Done(w) /\ UNCHANGED <<queue, missed>>
        /\ IF u \in users THEN SetOwner(x, u) ELSE UNCHANGED owner
    BY <1>2, <2>1 DEF Update
  <2>4. ASSUME Unqueued(x) PROVE u \in Keep(x) /\ u \in users
    <3>1. WorkRight(w, x)
      BY <2>2 DEF TasksInv
    <3>2. u \in Keep(x)
      BY <2>1, <2>3, <2>4, <3>1 DEF WorkRight
    <3>3. u \in Registered(x)
      BY <3>2, VerifiersRegistered DEF Keep
    <3> QED BY <1>0, <2>2, <3>2, <3>3 DEF RowsOK
  <2>5. Unqueued(x) => SetOwner(x, u) /\ Belongs(u, x)
    BY <2>3, <2>4 DEF Belongs
  <2>6. SetOwner(x, u) \/ UNCHANGED owner
    BY <2>3
  <2> QED BY <2>1, <2>2, <2>3, <2>5, <2>6, RunTasksRight
<1>3. CASE RunAttach(w)
  <2>1. PICK x, u : x = doing[w].task.address /\ u = Nobody
    OBVIOUS
  <2>2. doing[w].task \in Task /\ x \in Address
    BY <1>0, <1>3, <2>1, Held DEF RunAttach, Task
  <2>3. /\ At(w, "run") /\ doing[w].task.kind = "attach"
        /\ UNCHANGED <<owner, queue, missed>>
        /\ \/ \E v \in Verifiers(x) :
                 Then(w, [at |-> "update", user |-> v, address |-> x])
           \/ Verifiers(x) = {} /\ Done(w)
    BY <1>3, <2>1 DEF RunAttach
  <2>4. Unqueued(x) => Verifiers(x) # {} /\ Erased(x) = {}
    <3>1. WorkRight(w, x)
      BY <2>2 DEF TasksInv
    <3> QED BY <2>1, <2>3, <3>1 DEF WorkRight, Right
  <2>5. CASE Verifiers(x) = {} /\ Done(w)
    <3>1. ~Unqueued(x)
      BY <2>4, <2>5
    <3>2. /\ Unqueued(x) => SetOwner(x, u) /\ Belongs(u, x)
          /\ SetOwner(x, u) \/ UNCHANGED owner
      BY <2>3, <3>1
    <3> QED BY <2>1, <2>2, <2>3, <2>5, <3>2, RunTasksRight
  <2>6. ASSUME NEW v \in Verifiers(x),
               Then(w, [at |-> "update", user |-> v, address |-> x])
        PROVE  TasksInv(w)'
    <3>1. doing'[w] = [at |-> "update", user |-> v, address |-> x]
      BY <1>0, <2>6 DEF Then
    <3>2. doing'[w].at = "update" /\ doing'[w].user = v /\ doing'[w].address = x
      BY <3>1
    <3>3. \A y : Unqueued(y)' <=> Unqueued(y)
      BY <2>3 DEF Unqueued
    <3>4. \A y : Keep(y)' = Keep(y)
      BY <1>0, WorkerKeeps
    <3>5. ASSUME NEW y \in Address PROVE QueueRight(y)'
      <4> SUFFICES ASSUME NEW k \in 1..Len(queue), queue[k].address = y,
                          \A j \in k+1..Len(queue) : queue[j].address # y
                   PROVE  Right(queue[k])'
        BY <2>3 DEF QueueRight, Right
      <4>1. PICK task : task = queue[k]
        OBVIOUS
      <4>2. Right(task)
        BY <4>1 DEF TasksInv, QueueRight
      <4>3. Right(task)'
        BY <1>0, <4>2, RightKept
      <4> QED BY <2>3, <4>1, <4>3 DEF Right
    <3>6. \A y \in Address : WorkRight(w, y)'
      BY <2>4, <2>6, <3>2, <3>3, <3>4 DEF WorkRight, At, Keep
    <3>7. \A y \in Address : Due(y)' <=> Due(y)
      BY <2>1, <2>3, <3>2, <3>3, DueFor DEF At
    <3>8. OwnersRight'
      <4>1. \A a \in Assertion : Recipient[a] \in Address
        BY RecipientsConstants
      <4> SUFFICES ASSUME NEW a \in Assertion \ missed, owner[a] # Unissued,
                          ~Due(Recipient[a])'
                   PROVE  Belongs(owner[a], Recipient[a])'
        BY <2>3 DEF OwnersRight
      <4>2. PICK o, y : o = owner[a] /\ y = Recipient[a]
        OBVIOUS
      <4>3. Belongs(o, y)
        BY <3>7, <4>1, <4>2 DEF TasksInv, OwnersRight
      <4>4. Belongs(o, y)'
        BY <1>0, <4>3, BelongsKept
      <4> QED BY <2>3, <4>2, <4>4 DEF Belongs
    <3> QED BY <3>5, <3>6, <3>8 DEF TasksInv
  <2> QED BY <2>3, <2>5, <2>6
<1> QED BY <1>1, <1>2, <1>3, TakeTasks DEF RunTasks

LEMMA TasksInit ==
    ASSUME NEW w, Worker = {w}, Init PROVE TasksInv(w)
<1>1. queue = <<>> /\ doing[w] = Idle /\ \A a \in Assertion : owner[a] = Unissued
  BY DEF Init
<1>2. \A x : QueueRight(x) /\ WorkRight(w, x)
  BY <1>1, IdleStep DEF QueueRight, WorkRight, At
<1> QED BY <1>1, <1>2 DEF TasksInv, OwnersRight

LEMMA TasksNext ==
    ASSUME NEW c, Client = {c}, NEW w, Worker = {w}, SerialInv(c), TasksInv(w), [Next]_vars
    PROVE  TasksInv(w)'
<1>0. c \in Client /\ IInv
  BY DEF SerialInv
<1>1. CASE Next
  BY <1>0, <1>1, ClientTasks, AwarderTasks, WorkerTasks DEF Next
<1>2. CASE UNCHANGED vars
  BY <1>2 DEF vars, TasksInv, OwnersRight, QueueRight, WorkRight, Unqueued, Due, At,
              Right, Excuse, Keep, Verifiers, Erased, Telling, Does, Belongs
<1> QED BY <1>1, <1>2

LEMMA TasksSettled ==
    ASSUME NEW w, TasksInv(w) PROVE SettledAgree
<1> SUFFICES ASSUME NEW a \in Assertion \ missed, owner[a] # Unissued,
                    Settled(Recipient[a])
             PROVE  \/ Found(owner[a], Recipient[a])
                    \/ owner[a] = Nobody /\ Recipient[a] \in troubled
  BY DEF SettledAgree
<1>1. PICK o, x : o = owner[a] /\ x = Recipient[a]
  OBVIOUS
<1>2. Belongs(o, x)
  BY <1>1 DEF TasksInv, OwnersRight, Settled
<1>3. ~Telling(x) /\ Erased(x) = {}
  <2>1. \A u : EraseOf(u, x).do = "erase" /\ EraseOf(u, x).address = x
    BY DEF EraseOf
  <2> QED BY <1>1, <2>1 DEF Settled, HalfWay, Telling, Erased, Does
<1>4. o \in Verifiers(x) \/ (o = Nobody /\ (x \in troubled \/ Verifiers(x) = {}))
  BY <1>2, <1>3 DEF Belongs, Excuse, Keep
<1> QED BY <1>1, <1>4 DEF Found

\* When the requests of users come one after the other and one worker runs the
\* tasks, a task about an address is the last one only if it does what the rows
\* say, now and after the deletion that it has announced.  Once none is left and
\* no request is half way, every assertion that was not stored too late has the
\* user who has verified its address, or nobody if there is none, or if a request
\* about the address died half way or two accounts had it.
THEOREM AlwaysSettled ==
    ASSUME NEW CONSTANT c, Client = {c}, NEW CONSTANT w, Worker = {w}
    PROVE  Spec => []SettledAgree
<1>1. Init => SerialInv(c) /\ TasksInv(w)
  BY SerialInit, TasksInit
<1>2. SerialInv(c) /\ TasksInv(w) /\ [Next]_vars => SerialInv(c)' /\ TasksInv(w)'
  BY SerialNext, TasksNext
<1>3. TasksInv(w) => SettledAgree
  BY TasksSettled
<1> QED BY <1>1, <1>2, <1>3, PTL DEF Spec

=============================================================================
