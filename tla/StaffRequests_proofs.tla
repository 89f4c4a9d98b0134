----------------------- MODULE StaffRequests_proofs -----------------------
(***************************************************************************)
(* Proofs about StaffRequests, for any users, threads and numbers: the      *)
(* composition is an IssuerStaff system, the two marks of a withdrawn       *)
(* request always agree, and pending requests are bounded.                  *)
(***************************************************************************)
EXTENDS StaffRequests, IssuerStaff_proofs, FiniteSetTheorems

\* What a client is about to save carries both marks or neither.
HeldAgrees == \A c \in Client :
    held[c].row.revoked <=> held[c].row.status = "Revoked"

RIInv == IInv /\ RequestsTypeOK /\ RevokedAgrees /\ HeldAgrees

----------------------------------------------------------------------------
(* The staff list is unaware of the requests. *)

\* Every behaviour of the composition is one of the staff list by itself: no
\* step of a request changes the staff list, and the staff list waits for no
\* request.  So what IssuerStaff_proofs proves of the staff holds here too.
THEOREM StaffUnaffected == RequestsSpec => Spec
<1>1. RequestsInit => Init
  BY DEF RequestsInit
<1>2. [RequestsNext]_allVars => [Next]_vars
  BY DEF RequestsNext, allVars
<1> QED
  BY <1>1, <1>2, PTL DEF RequestsSpec, Spec

----------------------------------------------------------------------------

LEMMA RequestsInitIInv == RequestsInit => RIInv
<1> SUFFICES ASSUME RequestsInit PROVE RIInv
  OBVIOUS
<1>1. IInv
  BY InitIInv DEF RequestsInit
<1>2. creators \subseteq User /\ TypeOK
  BY <1>1 DEF IInv, TypeOK
<1> DEFINE First(u) == [key |-> 0, row |-> [user |-> u, status |-> "Pending",
                                            revoked |-> FALSE]]
<1>3. held \in [Client -> {First(u) : u \in creators}]
  BY DEF RequestsInit
<1>4. \A u \in creators : First(u) \in Held
  BY <1>2 DEF Held, Row, Status
<1>5. held \in [Client -> Held] /\ HeldAgrees
  BY <1>3, <1>4 DEF HeldAgrees
<1>6. asked \in 0..MaxAsked /\ doing \in [Client -> {"idle", "member", "create", "save"}]
  BY RequestsConstants DEF RequestsInit
<1>7. /\ rows \in [Key -> Row \cup {None}]
      /\ \A k \in Key : ~Exists(k)
  BY DEF RequestsInit, Exists
<1>8. RequestsTypeOK
  BY <1>2, <1>5, <1>6, <1>7 DEF RequestsTypeOK
<1>9. RevokedAgrees
  BY <1>7 DEF RevokedAgrees
<1> QED
  BY <1>1, <1>5, <1>8, <1>9 DEF RIInv

\* A client's step leaves IInv alone.
LEMMA StaffAlone == IInv /\ UNCHANGED vars => IInv'
BY NextIInv

\* Steps that load or compare: the rows stay as they are.
LEMMA RowsAlone ==
    ASSUME RIInv, NEW c \in Client, UNCHANGED <<vars, rows, asked>>,
           NEW h \in Held, h.row.revoked <=> h.row.status = "Revoked",
           held' = [held EXCEPT ![c] = h],
           doing' \in [Client -> {"idle", "member", "create", "save"}]
    PROVE  RIInv'
<1>1. IInv' /\ TypeOK'
  BY StaffAlone DEF RIInv, IInv
<1>2. held' \in [Client -> Held] /\ HeldAgrees'
  BY DEF RIInv, RequestsTypeOK, HeldAgrees
<1>3. RequestsTypeOK'
  BY <1>1, <1>2 DEF RIInv, RequestsTypeOK, Exists, vars
<1>4. RevokedAgrees'
  BY DEF RIInv, RevokedAgrees, Exists
<1> QED
  BY <1>1, <1>2, <1>3, <1>4 DEF RIInv

\* Steps that write the row in a client's hands.
LEMMA RowWritten ==
    ASSUME RIInv, NEW c \in Client, NEW k,
           rows' = [rows EXCEPT ![k] = held[c].row],
           held[c].row.user \in users,
           asked' \in 0..MaxAsked,
           doing' \in [Client -> {"idle", "member", "create", "save"}],
           UNCHANGED <<vars, held>>
    PROVE  RIInv'
<1>1. IInv' /\ TypeOK'
  BY StaffAlone DEF RIInv, IInv
<1>2. held[c].row \in Row /\ (held[c].row.revoked <=> held[c].row.status = "Revoked")
  BY DEF RIInv, RequestsTypeOK, HeldAgrees, Held
<1>3. /\ rows' \in [Key -> Row \cup {None}]
      /\ \A j \in Key : rows'[j] = IF j = k THEN held[c].row ELSE rows[j]
  BY <1>2 DEF RIInv, RequestsTypeOK
<1>4. \A j \in Key : Exists(j)' => rows'[j].user \in users'
  BY <1>3 DEF RIInv, RequestsTypeOK, Exists, vars
<1>5. RequestsTypeOK'
  BY <1>1, <1>3, <1>4 DEF RIInv, RequestsTypeOK
<1>6. RevokedAgrees'
  BY <1>2, <1>3 DEF RIInv, RevokedAgrees, Exists
<1>7. HeldAgrees'
  BY DEF RIInv, HeldAgrees
<1> QED
  BY <1>1, <1>5, <1>6, <1>7 DEF RIInv

LEMMA NothingWritten ==
    ASSUME RIInv, UNCHANGED <<vars, rows, asked, held>>,
           doing' \in [Client -> {"idle", "member", "create", "save"}]
    PROVE  RIInv'
<1>1. IInv' /\ TypeOK'
  BY StaffAlone DEF RIInv, IInv
<1>2. RequestsTypeOK'
  BY <1>1 DEF RIInv, RequestsTypeOK, Exists, vars
<1>3. RevokedAgrees' /\ HeldAgrees'
  BY DEF RIInv, RevokedAgrees, HeldAgrees, Exists
<1> QED
  BY <1>1, <1>2, <1>3 DEF RIInv

LEMMA AskIInv ==
    ASSUME RIInv, NEW c \in Client, Ask(c), UNCHANGED vars
    PROVE  RIInv'
<1>1. PICK u \in users : held' = [held EXCEPT ![c] =
          [key |-> 0, row |-> [user |-> u, status |-> "Pending", revoked |-> FALSE]]]
  BY DEF Ask
<1>2. u \in User
  BY DEF RIInv, IInv, TypeOK
<1>3. [key |-> 0, row |-> [user |-> u, status |-> "Pending", revoked |-> FALSE]] \in Held
  BY <1>2 DEF Held, Row, Status
<1>4. doing' \in [Client -> {"idle", "member", "create", "save"}]
  BY DEF Ask, Then, RIInv, RequestsTypeOK
<1> QED
  BY <1>1, <1>3, <1>4, RowsAlone DEF Ask

LEMMA ChangeIInv ==
    ASSUME RIInv, NEW c \in Client, NEW k \in Key, NEW row \in Row,
           row.revoked <=> row.status = "Revoked",
           Change(c, k, row), UNCHANGED vars
    PROVE  RIInv'
<1> DEFINE h == [key |-> k, row |-> row]
<1>1. h \in Held /\ h.row = row
  BY DEF Held
<1>2. doing' \in [Client -> {"idle", "member", "create", "save"}]
  BY DEF Change, Then, RIInv, RequestsTypeOK
<1>3. held' = [held EXCEPT ![c] = h] /\ UNCHANGED <<rows, asked>>
  BY DEF Change
<1> HIDE DEF h
<1> QED
  BY <1>1, <1>2, <1>3, RowsAlone

LEMMA AnswerIInv ==
    ASSUME RIInv, NEW c \in Client, Confirm(c) \/ Reject(c), UNCHANGED vars
    PROVE  RIInv'
<1>1. PICK k \in Key, s \in {"Approved", "Rejected"} :
        HasStatus(k, "Pending") /\ Change(c, k, [rows[k] EXCEPT !.status = s])
  BY DEF Confirm, Reject
<1>2. rows[k] \in Row /\ ~rows[k].revoked
  BY <1>1 DEF RIInv, RequestsTypeOK, RevokedAgrees, HasStatus, Exists
<1> DEFINE row == [rows[k] EXCEPT !.status = s]
<1>3. row \in Row /\ row.status # "Revoked" /\ ~row.revoked
  BY <1>1, <1>2 DEF Row, Status
<1> HIDE DEF row
<1> QED
  BY <1>1, <1>3, ChangeIInv DEF row

LEMMA WithdrawIInv ==
    ASSUME RIInv, NEW c \in Client, Withdraw(c), UNCHANGED vars
    PROVE  RIInv'
<1>1. PICK k \in Key : /\ Exists(k)
                       /\ Change(c, k, [rows[k] EXCEPT !.status = "Revoked", !.revoked = TRUE])
  BY DEF Withdraw
<1>2. rows[k] \in Row
  BY <1>1 DEF RIInv, RequestsTypeOK, Exists
<1> DEFINE row == [rows[k] EXCEPT !.status = "Revoked", !.revoked = TRUE]
<1>3. row \in Row /\ row.status = "Revoked" /\ row.revoked
  BY <1>2 DEF Row, Status
<1> HIDE DEF row
<1> QED
  BY <1>1, <1>3, ChangeIInv DEF row

LEMMA CheckMemberIInv ==
    ASSUME RIInv, NEW c \in Client, CheckMember(c), UNCHANGED vars
    PROVE  RIInv'
<1>1. doing' \in [Client -> {"idle", "member", "create", "save"}]
  BY DEF CheckMember, Then, RIInv, RequestsTypeOK
<1> QED
  BY <1>1, NothingWritten DEF CheckMember

LEMMA CreateIInv ==
    ASSUME RIInv, NEW c \in Client, Create(c), UNCHANGED vars
    PROVE  RIInv'
<1>1. doing' \in [Client -> {"idle", "member", "create", "save"}]
  BY DEF Create, Then, RIInv, RequestsTypeOK
<1>2. CASE held[c].row.user \in users
  <2>1. asked' \in 0..MaxAsked
    BY <1>2, RequestsConstants DEF Create, RIInv, RequestsTypeOK
  <2> QED
    BY <1>1, <1>2, <2>1, RowWritten DEF Create
<1>3. CASE held[c].row.user \notin users
  BY <1>1, <1>3, NothingWritten DEF Create
<1> QED
  BY <1>2, <1>3

LEMMA SaveRequestIInv ==
    ASSUME RIInv, NEW c \in Client, SaveRequest(c), UNCHANGED vars
    PROVE  RIInv'
<1>1. doing' \in [Client -> {"idle", "member", "create", "save"}]
  BY DEF SaveRequest, Then, RIInv, RequestsTypeOK
<1>2. asked' \in 0..MaxAsked
  BY DEF SaveRequest, RIInv, RequestsTypeOK
<1>3. CASE held[c].row.user \in users
  BY <1>1, <1>2, <1>3, RowWritten DEF SaveRequest
<1>4. CASE held[c].row.user \notin users
  BY <1>1, <1>4, NothingWritten DEF SaveRequest
<1> QED
  BY <1>3, <1>4

\* The rows of a deleted account go with it, all others stay.
LEMMA CascadedIInv ==
    ASSUME RIInv, Next, Cascaded, UNCHANGED <<asked, doing, held>>
    PROVE  RIInv'
<1>1. IInv' /\ TypeOK'
  BY NextIInv DEF RIInv, IInv
<1>2. \A k \in Key : rows'[k] = IF Exists(k) /\ rows[k].user \in users \ users'
                                THEN None ELSE rows[k]
  BY DEF Cascaded
<1>3. rows' \in [Key -> Row \cup {None}]
  BY DEF Cascaded, RIInv, RequestsTypeOK
<1>4. \A k \in Key : Exists(k)' => rows'[k] = rows[k] /\ Exists(k) /\ rows[k].user \in users'
  BY <1>2 DEF RIInv, RequestsTypeOK, Exists
<1>5. RequestsTypeOK'
  BY <1>1, <1>3, <1>4 DEF RIInv, RequestsTypeOK
<1>6. RevokedAgrees' /\ HeldAgrees'
  BY <1>4 DEF RIInv, RevokedAgrees, HeldAgrees
<1> QED
  BY <1>1, <1>5, <1>6 DEF RIInv

LEMMA RequestsNextIInv == RIInv /\ [RequestsNext]_allVars => RIInv'
<1> SUFFICES ASSUME RIInv, [RequestsNext]_allVars PROVE RIInv'
  OBVIOUS
<1>1. CASE UNCHANGED allVars
  <2>1. doing' \in [Client -> {"idle", "member", "create", "save"}]
    BY <1>1 DEF allVars, requestVars, RIInv, RequestsTypeOK
  <2> QED
    BY <1>1, <2>1, NothingWritten DEF allVars, requestVars
<1>2. ASSUME NEW c \in Client, Handle(c), UNCHANGED vars
      PROVE  RIInv'
  BY <1>2, AskIInv, CheckMemberIInv, CreateIInv, AnswerIInv, WithdrawIInv,
     SaveRequestIInv DEF Handle
<1>3. CASE Next /\ Cascaded /\ UNCHANGED <<asked, doing, held>>
  BY <1>3, CascadedIInv
<1> QED
  BY <1>1, <1>2, <1>3 DEF RequestsNext

LEMMA RequestsInvariance == RequestsSpec => []RIInv
BY RequestsInitIInv, RequestsNextIInv, PTL DEF RequestsSpec

\* Type correctness; a request's user exists, although the account may be
\* deleted while an answer is on its way.
THEOREM RequestsTypeCorrect == RequestsSpec => []RequestsTypeOK
<1>1. RIInv => RequestsTypeOK
  BY DEF RIInv
<1> QED
  BY RequestsInvariance, <1>1, PTL

\* However answers and withdrawals overwrite each other: a request has the
\* status Revoked just if its flag is set.
THEOREM RevokedConsistent == RequestsSpec => []RevokedAgrees
<1>1. RIInv => RevokedAgrees
  BY DEF RIInv
<1> QED
  BY RequestsInvariance, <1>1, PTL

----------------------------------------------------------------------------
(* Pending requests of one user. *)

LEMMA PendingFinite ==
    ASSUME NEW u
    PROVE  /\ IsFiniteSet(Pending(u)) /\ Cardinality(Pending(u)) \in Nat
           /\ IsFiniteSet(Asking(u)) /\ Cardinality(Asking(u)) \in Nat
           /\ Cardinality(Client) \in Nat
<1>1. IsFiniteSet(Key)
  BY RequestsConstants, FS_Interval DEF Key
<1>2. Pending(u) \subseteq Key /\ Asking(u) \subseteq Client
  BY DEF Pending, Asking
<1> QED
  BY <1>1, <1>2, RequestsConstants, FS_Subset, FS_CardinalityType

\* The inequality of PendingInv for one user.
Fits(u) == Cardinality(Pending(u)) + Cardinality(Asking(u)) <= Cardinality(Client)

\* Nobody joins.
LEMMA PendingFalls ==
    ASSUME NEW u, Fits(u), Pending(u)' \subseteq Pending(u),
           Asking(u)' \subseteq Asking(u)
    PROVE  Fits(u)'
<1>1. /\ IsFiniteSet(Pending(u)') /\ Cardinality(Pending(u)') <= Cardinality(Pending(u))
      /\ IsFiniteSet(Asking(u)') /\ Cardinality(Asking(u)') <= Cardinality(Asking(u))
  BY PendingFinite, FS_Subset
<1>2. Cardinality(Pending(u)') \in Nat /\ Cardinality(Asking(u)') \in Nat
  BY <1>1, FS_CardinalityType
<1> QED
  BY <1>1, <1>2, PendingFinite DEF Fits

\* A client that found nothing pending may join: all of Asking(u) are clients.
LEMMA AskFits ==
    ASSUME NEW u, Pending(u) = {}, Pending(u)' = Pending(u)
    PROVE  Fits(u)'
<1>1. Asking(u)' \subseteq Client
  BY DEF Asking
<1>2. IsFiniteSet(Asking(u)') /\ Cardinality(Asking(u)') <= Cardinality(Client)
  BY <1>1, RequestsConstants, FS_Subset
<1>3. Cardinality(Asking(u)') \in Nat
  BY <1>2, FS_CardinalityType
<1>4. Cardinality(Pending(u)') = 0
  BY FS_EmptySet
<1> QED
  BY <1>2, <1>3, <1>4 DEF Fits

\* A client that creates a row leaves Asking(u).
LEMMA CreateFits ==
    ASSUME NEW u, Fits(u), NEW c, c \in Asking(u), NEW k,
           Pending(u)' \subseteq Pending(u) \cup {k},
           Asking(u)' \subseteq Asking(u) \ {c}
    PROVE  Fits(u)'
<1>1. /\ IsFiniteSet(Pending(u) \cup {k})
      /\ Cardinality(Pending(u) \cup {k}) <= Cardinality(Pending(u)) + 1
  <2>1. IsFiniteSet(Pending(u)) /\ Cardinality(Pending(u)) \in Nat
    BY PendingFinite
  <2>2. /\ IsFiniteSet(Pending(u) \cup {k})
        /\ \/ Cardinality(Pending(u) \cup {k}) = Cardinality(Pending(u))
           \/ Cardinality(Pending(u) \cup {k}) = Cardinality(Pending(u)) + 1
    BY <2>1, FS_AddElement
  <2> QED
    BY <2>1, <2>2
<1>2. /\ IsFiniteSet(Asking(u) \ {c})
      /\ Cardinality(Asking(u) \ {c}) = Cardinality(Asking(u)) - 1
  BY PendingFinite, FS_RemoveElement
<1>3. /\ IsFiniteSet(Pending(u)') /\ Cardinality(Pending(u)') <= Cardinality(Pending(u) \cup {k})
      /\ IsFiniteSet(Asking(u)') /\ Cardinality(Asking(u)') <= Cardinality(Asking(u) \ {c})
  BY <1>1, <1>2, FS_Subset
<1>4. /\ Cardinality(Pending(u)') \in Nat /\ Cardinality(Asking(u)') \in Nat
      /\ Cardinality(Pending(u) \cup {k}) \in Nat
      /\ Cardinality(Asking(u) \ {c}) \in Nat
  BY <1>1, <1>2, <1>3, FS_CardinalityType
<1>5. Cardinality(Pending(u)) \in Nat /\ Cardinality(Asking(u)) \in Nat /\ Cardinality(Client) \in Nat
  BY PendingFinite
<1> QED
  BY <1>1, <1>2, <1>3, <1>4, <1>5 DEF Fits

\* What clients save is an answer, never a pending request.
AnswersOnly == \A c \in Client : doing[c] = "save" => held[c].row.status # "Pending"

LEMMA PendingInit == RequestsInit => PendingInv
<1> SUFFICES ASSUME RequestsInit PROVE PendingInv
  OBVIOUS
<1>1. \A c \in Client : doing[c] = "idle"
  BY DEF RequestsInit
<1>2. \A u \in User : Pending(u) = {} /\ Asking(u) = {}
  BY <1>1 DEF RequestsInit, Pending, Asking, HasStatus, Exists
<1>3. Cardinality(Client) \in Nat
  BY PendingFinite
<1>4. ASSUME NEW u \in User
      PROVE  Cardinality(Pending(u)) = 0 /\ Cardinality(Asking(u)) = 0
  BY <1>2, FS_EmptySet
<1>5. \A u \in User :
        Cardinality(Pending(u)) + Cardinality(Asking(u)) <= Cardinality(Client)
  BY <1>3, <1>4
<1> QED
  BY <1>1, <1>5 DEF PendingInv

LEMMA PendingHandle ==
    ASSUME RIInv, PendingInv, NEW c \in Client, Handle(c), NEW u \in User
    PROVE  Fits(u)' /\ AnswersOnly'
<1> USE DEF Then
<1>1. /\ doing \in [Client -> {"idle", "member", "create", "save"}]
      /\ held \in [Client -> Held]
  BY DEF RIInv, RequestsTypeOK
<1>2. Fits(u) /\ AnswersOnly
  BY DEF PendingInv, Fits, AnswersOnly
<1>3. ASSUME NEW v \in users,
             doing[c] = "idle", ~ \E k \in Key : HasStatus(k, "Pending") /\ rows[k].user = v,
             held' = [held EXCEPT ![c] = [key |-> 0, row |->
                        [user |-> v, status |-> "Pending", revoked |-> FALSE]]],
             doing' = [doing EXCEPT ![c] = "member"], UNCHANGED <<rows, asked>>
      PROVE  Fits(u)' /\ AnswersOnly'
  <2>1. AnswersOnly'
    BY <1>1, <1>2, <1>3 DEF AnswersOnly
  <2>2. Pending(u)' = Pending(u)
    BY <1>3 DEF Pending, HasStatus, Exists
  <2>3. CASE u = v
    <3>1. Pending(u) = {}
      BY <1>3, <2>3 DEF Pending
    <3> QED
      BY <2>1, <2>2, <3>1, AskFits
  <2>4. CASE u # v
    <3>1. Asking(u)' \subseteq Asking(u)
      BY <1>1, <1>3, <2>4 DEF Asking
    <3> QED
      BY <1>2, <2>1, <2>2, <3>1, PendingFalls
  <2> QED
    BY <2>3, <2>4
<1>4. CASE Ask(c)
  BY <1>3, <1>4 DEF Ask
<1>5. CASE CheckMember(c)
  <2>1. AnswersOnly'
    BY <1>1, <1>2, <1>5 DEF AnswersOnly, CheckMember
  <2>2. Pending(u)' = Pending(u)
    BY <1>5 DEF CheckMember, Pending, HasStatus, Exists
  <2>3. Asking(u)' \subseteq Asking(u)
    BY <1>1, <1>5 DEF CheckMember, Asking
  <2> QED
    BY <1>2, <2>1, <2>2, <2>3, PendingFalls
<1>6. CASE Create(c)
  <2>1. AnswersOnly'
    BY <1>1, <1>2, <1>6 DEF AnswersOnly, Create
  <2>2. /\ Asking(u)' \subseteq Asking(u) \ {c}
        /\ held[c].row.user = u => c \in Asking(u)
    BY <1>1, <1>6 DEF Create, Asking
  <2>3. CASE held[c].row.user = u
    <3>1. Pending(u)' \subseteq Pending(u) \cup {asked'}
      BY <1>6 DEF Create, Pending, HasStatus, Exists, RIInv, RequestsTypeOK
    <3> QED
      BY <1>2, <2>1, <2>2, <2>3, <3>1, CreateFits
  <2>4. CASE held[c].row.user # u
    <3>1. Pending(u)' \subseteq Pending(u)
      BY <1>6, <2>4 DEF Create, Pending, HasStatus, Exists, RIInv, RequestsTypeOK
    <3> QED
      BY <1>2, <2>1, <2>2, <3>1, PendingFalls
  <2> QED
    BY <2>3, <2>4
<1>7. ASSUME NEW k \in Key, NEW row, row.status # "Pending", Change(c, k, row)
      PROVE  Fits(u)' /\ AnswersOnly'
  <2>1. AnswersOnly'
    BY <1>1, <1>2, <1>7 DEF AnswersOnly, Change
  <2>2. Pending(u)' = Pending(u)
    BY <1>7 DEF Change, Pending, HasStatus, Exists
  <2>3. Asking(u)' \subseteq Asking(u)
    BY <1>1, <1>7 DEF Change, Asking
  <2> QED
    BY <1>2, <2>1, <2>2, <2>3, PendingFalls
<1>8. CASE Confirm(c) \/ Reject(c) \/ Withdraw(c)
  <2>1. \A k \in Key : Exists(k) => rows[k] \in Row
    BY DEF RIInv, RequestsTypeOK, Exists
  <2>2. \E k \in Key : \E row : row.status # "Pending" /\ Change(c, k, row)
    <3>1. CASE Confirm(c)
      <4>1. PICK k \in Key : Exists(k) /\ Change(c, k, [rows[k] EXCEPT !.status = "Approved"])
        BY <3>1 DEF Confirm, HasStatus
      <4>2. [rows[k] EXCEPT !.status = "Approved"].status # "Pending"
        BY <2>1, <4>1 DEF Row
      <4> QED
        BY <4>1, <4>2
    <3>2. CASE Reject(c)
      <4>1. PICK k \in Key : Exists(k) /\ Change(c, k, [rows[k] EXCEPT !.status = "Rejected"])
        BY <3>2 DEF Reject, HasStatus
      <4>2. [rows[k] EXCEPT !.status = "Rejected"].status # "Pending"
        BY <2>1, <4>1 DEF Row
      <4> QED
        BY <4>1, <4>2
    <3>3. CASE Withdraw(c)
      <4>1. PICK k \in Key : Exists(k) /\ Change(c, k,
                        [rows[k] EXCEPT !.status = "Revoked", !.revoked = TRUE])
        BY <3>3 DEF Withdraw
      <4>2. [rows[k] EXCEPT !.status = "Revoked", !.revoked = TRUE].status # "Pending"
        BY <2>1, <4>1 DEF Row
      <4> QED
        BY <4>1, <4>2
    <3> QED
      BY <1>8, <3>1, <3>2, <3>3
  <2> QED
    BY <1>7, <2>2
<1>9. CASE SaveRequest(c)
  <2>1. AnswersOnly' /\ held[c].row.status # "Pending"
    BY <1>1, <1>2, <1>9 DEF AnswersOnly, SaveRequest
  <2>2. Pending(u)' \subseteq Pending(u)
    BY <1>9, <2>1 DEF SaveRequest, Pending, HasStatus, Exists, RIInv, RequestsTypeOK
  <2>3. Asking(u)' \subseteq Asking(u)
    BY <1>1, <1>9 DEF SaveRequest, Asking
  <2> QED
    BY <1>2, <2>1, <2>2, <2>3, PendingFalls
<1> QED
  BY <1>4, <1>5, <1>6, <1>8, <1>9 DEF Handle

LEMMA PendingNext == RIInv /\ PendingInv /\ [RequestsNext]_allVars => PendingInv'
<1> SUFFICES ASSUME RIInv, PendingInv, [RequestsNext]_allVars
             PROVE  PendingInv'
  OBVIOUS
<1>1. ASSUME UNCHANGED <<doing, held>>,
             \A k \in Key : rows'[k] = rows[k] \/ rows'[k] = None
      PROVE  PendingInv'
  <2>1. ASSUME NEW u \in User PROVE Fits(u)'
    <3>1. Fits(u) /\ Asking(u)' \subseteq Asking(u)
      BY <1>1 DEF PendingInv, Fits, Asking
    <3>2. Pending(u)' \subseteq Pending(u)
      BY <1>1 DEF Pending, HasStatus, Exists
    <3> QED
      BY <3>1, <3>2, PendingFalls
  <2> QED
    BY <1>1, <2>1 DEF PendingInv, Fits
<1>2. CASE UNCHANGED allVars
  BY <1>1, <1>2 DEF allVars, requestVars
<1>3. CASE Next /\ Cascaded /\ UNCHANGED <<asked, doing, held>>
  BY <1>1, <1>3 DEF Cascaded
<1>4. ASSUME NEW c \in Client, Handle(c) PROVE PendingInv'
  <2>1. \A u \in User : Fits(u)' /\ AnswersOnly'
    BY <1>4, PendingHandle
  <2>2. User # {}
    BY DEF RIInv, RequestsTypeOK, Held, Row
  <2> QED
    BY <2>1, <2>2 DEF PendingInv, Fits, AnswersOnly
<1> QED
  BY <1>2, <1>3, <1>4 DEF RequestsNext

LEMMA PendingInvariance == RequestsSpec => []PendingInv
<1>1. RIInv /\ PendingInv /\ [RequestsNext]_allVars => (RIInv /\ PendingInv)'
  BY RequestsNextIInv, PendingNext
<1> QED
  BY RequestsInitIInv, PendingInit, <1>1, PTL DEF RequestsSpec

LEMMA PendingCounts ==
    ASSUME PendingInv, NEW u \in User
    PROVE  Cardinality(Pending(u)) <= Cardinality(Client)
<1>1. Cardinality(Pending(u)) + Cardinality(Asking(u)) <= Cardinality(Client)
  BY DEF PendingInv
<1> QED
  BY <1>1, PendingFinite

\* However posts, answers and deleted accounts interleave: a user never has
\* more pending requests than there are clients.
THEOREM PendingLimited == RequestsSpec => []PendingBounded
<1>1. PendingInv => PendingBounded
  BY PendingCounts DEF PendingBounded
<1> QED
  BY PendingInvariance, <1>1, PTL

\* With one client, the check of BadgeUserStaffRequestList.post does what its
\* message says: a user has at most one pending request.
THEOREM SerialOnePending ==
    ASSUME Cardinality(Client) = 1
    PROVE  RequestsSpec => []OnePending
<1>1. PendingInv => OnePending
  BY PendingCounts DEF OnePending
<1> QED
  BY PendingInvariance, <1>1, PTL

============================================================================
