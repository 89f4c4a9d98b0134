------------------------- MODULE DegreesOwed_proofs -------------------------
(***************************************************************************)
(* Proofs about LearningPaths: no micro degree is missed, and the cache is *)
(* fresh when requests come one after the other.                           *)
(***************************************************************************)
EXTENDS LearningPaths_proofs

-----------------------------------------------------------------------------
(* No micro degree is missed.                                              *)

\* Recipient r has earned the degree of the active path l and lacks it.
Owed(l, r) ==
    /\ IsActive(l)
    /\ HasCompleted(members[l], path[l].required, r)
    /\ <<l, r>> \notin excused
    /\ Live(Part[l], r) = {}

\* An activation task for path l is in the broker, or is about to be.
Announced(l) ==
    \/ tasks[l] > 0
    \/ \E w \in Worker : /\ pc[w] \in {"publish", "enqueue"}
                         /\ edit[w].lp = l
                         /\ Announces(edit[w].obj)

\* Path l as a loop that loads it now would hold it.
Entry(l) == <<l, path[l].required>>

\* Worker w will check whether r has completed path l, or has done so: in its
\* task or in one of its loops, or because it has just added a badge of l.
WillVisit(w, l, r) ==
    \/ r \in issue[w].audience /\ Entry(l) \in issue[w].task
    \/ /\ issue[w].rcpt = r
       /\ \/ /\ pc[w] # "users"
             /\ \E k \in DOMAIN issue[w].calls : Entry(l) \in issue[w].calls[k]
          \/ pc[w] \in {"notify", "list"} /\ issue[w].badge \in members[l]
          \/ /\ pc[w] = "held" /\ issue[w].via = l
             /\ issue[w].need = path[l].required /\ issue[w].seen = members[l]
          \/ pc[w] \in {"degree", "insert"} /\ issue[w].via = l

\* Somebody will see to what is owed.
Answered(l, r) == Announced(l) \/ \E w \in Worker : WillVisit(w, l, r)

OwedInv == \A l \in LP, r \in Verified : Owed(l, r) => Answered(l, r)

Acts(w) == Work(w) \/ TakeTask(w) \/ Request(w) \/ Abort(w)

LEMMA LiveMonotone ==
  ASSUME NEW S \in SUBSET Badge, NEW n \in Nat, NEW r,
         \A b \in S : Live(b, r)' # {} => Live(b, r) # {},
         Cardinality({b \in S : Live(b, r)' # {}}) >= n
  PROVE  HasCompleted(S, n, r)
  <1> DEFINE C == {b \in S : Live(b, r) # {}}
             D == {b \in S : Live(b, r)' # {}}
  <1>1. D \subseteq C
    OBVIOUS
  <1>2. IsFiniteSet(C) /\ IsFiniteSet(D)
    BY ConstantsOK, FS_Subset
  <1>3. /\ Cardinality(D) <= Cardinality(C)
        /\ Cardinality(C) \in Nat /\ Cardinality(D) \in Nat
    BY <1>1, <1>2, FS_Subset, FS_CardinalityType
  <1> QED
    BY <1>3 DEF HasCompleted

\* A step that neither adds an assertion nor writes a path makes nothing owed.
LEMMA OwedBefore ==
  ASSUME TypeInv, NEW w \in Worker, Acts(w), ~Insert(w), ~SavePath(w),
         NEW l \in LP, NEW r \in Verified, Owed(l, r)'
  PROVE  Owed(l, r) /\ members'[l] = members[l] /\ path'[l] = path[l]
  <1>a. /\ members \in [LP -> SUBSET Badge] /\ edit[w] \in Edit
        /\ path[l].required \in Nat /\ r \in Recipient
        /\ assertion \in Seq(Assertion) /\ WorkerOK(w)
    BY ConstantsOK DEF TypeInv, TypeOK, Path
  <1>1. CASE UNCHANGED <<path, members, assertion>> /\ excused \subseteq excused'
    BY <1>1 DEF Owed, IsActive, HasCompleted, Live
  <1>2. CASE ClearBadges(w)
    <2>1. /\ members' = [members EXCEPT ![edit[w].lp] = {}]
          /\ excused' = excused \cup ({edit[w].lp} \X Recipient)
          /\ UNCHANGED <<path, assertion>>
      BY <1>2 DEF ClearBadges
    <2>2. edit[w].lp # l
      BY <1>a, <2>1 DEF Owed
    <2> QED
      BY <1>a, <2>1, <2>2 DEF Owed, IsActive, HasCompleted, Live
  <1>3. CASE AddBadge(w)
    <2>1. PICK b \in edit[w].todo :
            members' = [members EXCEPT ![edit[w].lp] = @ \cup {b}]
      BY <1>3 DEF AddBadge
    <2>2. /\ excused' = excused \cup ({edit[w].lp} \X Recipient)
          /\ UNCHANGED <<path, assertion>>
      BY <1>3 DEF AddBadge
    <2>3. edit[w].lp # l
      BY <1>a, <2>2 DEF Owed
    <2> QED
      BY <1>a, <2>1, <2>2, <2>3 DEF Owed, IsActive, HasCompleted, Live
  <1>4. CASE SaveRevoked(w)
    <2> DEFINE i == target[w]
    <2>1. /\ assertion' = [assertion EXCEPT ![i].revoked = TRUE]
          /\ excused' = excused \cup {<<m, assertion[i].rcpt>> :
                           m \in {m \in LP : Part[m] = assertion[i].badge}}
          /\ UNCHANGED <<path, members>>
          /\ i \in DOMAIN assertion
      BY <1>4, <1>a DEF SaveRevoked, WorkerOK
    <2>2. \A j \in DOMAIN assertion : assertion[j] \in Assertion
      BY <1>a
    <2>3. \A j \in DOMAIN assertion :
             /\ assertion'[j].badge = assertion[j].badge
             /\ assertion'[j].rcpt = assertion[j].rcpt
             /\ j # i => assertion'[j] = assertion[j]
             /\ assertion[j].revoked => assertion'[j].revoked
      BY <2>1, <2>2 DEF Assertion
    <2>4. DOMAIN assertion' = DOMAIN assertion
      BY <2>1
    <2>5. \A b : Live(b, r)' \subseteq Live(b, r)
      BY <2>3, <2>4 DEF Live
    <2>6. HasCompleted(members[l], path[l].required, r)
      <3>1. Cardinality({b \in members[l] : Live(b, r)' # {}}) >= path[l].required
        BY <2>1 DEF Owed, HasCompleted
      <3> QED
        BY <1>a, <2>5, <3>1, LiveMonotone
    <2>7. ASSUME NEW j \in Live(Part[l], r) PROVE FALSE
      <3>1. /\ j \in DOMAIN assertion /\ assertion[j].badge = Part[l]
            /\ assertion[j].rcpt = r /\ ~assertion[j].revoked
        BY <2>7 DEF Live
      <3>2. j = i
        BY <2>3, <2>4, <3>1 DEF Owed, Live
      <3> QED
        BY <2>1, <3>1, <3>2 DEF Owed
    <2> QED
      BY <2>1, <2>6, <2>7 DEF Owed, IsActive
  <1>5. CASE TakeTask(w) \/ Request(w) \/ Abort(w)
    BY <1>5, <1>1 DEF TakeTask, StartTask, Request, StartAward, StartEdit,
                      StartArchive, StartRevoke, Abort
  <1>6. CASE \/ Notify(w) \/ ListPaths(w) \/ VisitPath(w) \/ CheckHeld(w)
             \/ OweDegree(w) \/ HasDegree(w) \/ Return(w) \/ Finish(w)
             \/ VisitUser(w) \/ EndTask(w) \/ BadgesSet(w) \/ Publish(w)
             \/ Enqueue(w)
    BY <1>6, <1>1 DEF Notify, ListPaths, VisitPath, CheckHeld, OweDegree,
                      HasDegree, Return, Finish, VisitUser, EndTask, BadgesSet,
                      Publish, Enqueue
  <1> QED
    BY <1>2, <1>3, <1>4, <1>5, <1>6 DEF Acts, Work

\* A new assertion makes degrees owed only to its recipient, and only those of
\* paths that have its badge.
LEMMA OwedInsert ==
  ASSUME TypeInv, NEW w \in Worker, Insert(w),
         NEW l \in LP, NEW r \in Verified, Owed(l, r)'
  PROVE  \/ Owed(l, r)
         \/ issue[w].rcpt = r /\ issue[w].badge \in members[l]
  <1> DEFINE new == [badge |-> issue[w].badge, rcpt |-> issue[w].rcpt,
                     via |-> issue[w].via, revoked |-> FALSE]
  <1>a. /\ assertion \in Seq(Assertion)
        /\ members[l] \in SUBSET Badge /\ path[l].required \in Nat
    BY DEF TypeInv, TypeOK, Path
  <1>1. /\ assertion' = Append(assertion, new)
        /\ UNCHANGED <<path, members, excused>>
    BY DEF Insert
  <1> HIDE DEF new
  <1>2. /\ DOMAIN assertion' = DOMAIN assertion \cup {Len(assertion) + 1}
        /\ \A j \in DOMAIN assertion : assertion'[j] = assertion[j]
        /\ assertion'[Len(assertion) + 1] = new
    BY <1>a, <1>1
  <1>3. \A b : Live(b, r) \subseteq Live(b, r)'
    BY <1>2 DEF Live
  <1>4. \A b : Live(b, r)' # {} => \/ Live(b, r) # {}
                                   \/ b = issue[w].badge /\ r = issue[w].rcpt
    BY <1>2 DEF Live, new
  <1>5. ASSUME issue[w].rcpt # r \/ issue[w].badge \notin members[l]
        PROVE  Owed(l, r)
    <2>1. Cardinality({b \in members[l] : Live(b, r)' # {}}) >= path[l].required
      BY <1>1 DEF Owed, HasCompleted
    <2>2. HasCompleted(members[l], path[l].required, r)
      BY <1>a, <1>4, <1>5, <2>1, LiveMonotone
    <2> QED
      BY <1>1, <1>3, <2>2 DEF Owed, IsActive
  <1> QED
    BY <1>5

\* Writing a path makes degrees owed only if an activation task follows.
LEMMA OwedSave ==
  ASSUME TypeInv, NEW w \in Worker, SavePath(w),
         NEW l \in LP, NEW r \in Verified, Owed(l, r)'
  PROVE  \/ Owed(l, r) /\ path'[l].required = path[l].required
         \/ edit[w].lp = l /\ Announces(edit[w].obj)
  <1> DEFINE m == edit[w].lp
             row == edit[w].obj.row
             reopened == row.activated /\ ~row.archived /\ ~IsActive(m)
  <1>a. /\ path \in [LP -> Path] /\ r \in Recipient
    BY ConstantsOK DEF TypeInv, TypeOK
  <1>1. /\ path' = [path EXCEPT ![m] = row]
        /\ excused' = IF \/ row.required # path[m].required
                         \/ reopened /\ ~Announces(edit[w].obj)
                      THEN excused \cup ({m} \X Recipient)
                      ELSE excused
        /\ UNCHANGED <<members, assertion>>
    BY DEF SavePath
  <1>2. CASE l # m
    BY <1>a, <1>1, <1>2 DEF Owed, IsActive, HasCompleted, Live
  <1>3. CASE l = m /\ ~Announces(edit[w].obj)
    <2>1. path'[l] = row
      BY <1>a, <1>1, <1>3
    <2>2. row.required = path[l].required /\ ~reopened
      BY <1>a, <1>1, <1>3 DEF Owed
    <2>3. IsActive(l)
      BY <2>1, <2>2, <1>3 DEF Owed, IsActive
    <2>4. excused' = excused
      BY <1>1, <1>3, <2>2
    <2> QED
      BY <1>1, <2>1, <2>2, <2>3, <2>4 DEF Owed, HasCompleted, Live
  <1> QED
    BY <1>2, <1>3

\* Another worker's step takes nothing off a worker's agenda.
LEMMA OtherVisits ==
  ASSUME TypeInv, NEW w \in Worker, Acts(w), NEW v \in Worker, v # w,
         NEW l \in LP, NEW r, WillVisit(v, l, r),
         members'[l] = members[l], path'[l].required = path[l].required
  PROVE  WillVisit(v, l, r)'
  <1>1. issue'[v] = issue[v] /\ pc'[v] = pc[v]
    BY OthersKept DEF Acts
  <1> QED
    BY <1>1 DEF WillVisit, Entry

\* Whoever does not issue badges has nothing on the agenda.
LEMMA NoAgenda ==
  ASSUME NEW w \in Worker, issue[w] = NoIssue, NEW l, NEW r \in Verified
  PROVE  ~WillVisit(w, l, r)
  <1>1. issue[w].rcpt # r
    BY ConstantsOK DEF NoIssue
  <1>2. issue[w].audience = {}
    BY DEF NoIssue
  <1> QED
    BY <1>1, <1>2 DEF WillVisit

\* A worker does what is on its agenda, or need not any more.
LEMMA ActorVisits ==
  ASSUME TypeInv, NEW w \in Worker, Acts(w),
         NEW l \in LP, NEW r \in Verified,
         WillVisit(w, l, r), Owed(l, r), Owed(l, r)',
         members'[l] = members[l], path'[l].required = path[l].required
  PROVE  WillVisit(w, l, r)'
  <1>a. /\ issue \in [Worker -> Issue] /\ issue[w] \in Issue
        /\ issue[w].calls \in Seq(Frame) /\ issue[w].task \in Frame
        /\ pc \in [Worker -> Label] /\ WorkerOK(w) /\ r \in Recipient
        /\ assertion \in Seq(Assertion)
    BY ConstantsOK DEF TypeInv, TypeOK, Issue
  <1>b. issue[w] # NoIssue
    BY NoAgenda
  <1>c. Entry(l)' = Entry(l)
    BY DEF Entry
  <1>1. CASE Insert(w)
    <2> DEFINE new == [badge |-> issue[w].badge, rcpt |-> issue[w].rcpt,
                       via |-> issue[w].via, revoked |-> FALSE]
    <2>1. /\ assertion' = Append(assertion, new)
          /\ pc[w] = "insert" /\ pc' = [pc EXCEPT ![w] = "notify"]
          /\ UNCHANGED issue
      BY <1>1 DEF Insert, Goto
    <2>2. ~(issue[w].rcpt = r /\ issue[w].via = l)
      <3> SUFFICES ASSUME issue[w].rcpt = r, issue[w].via = l PROVE FALSE
        OBVIOUS
      <3>1. issue[w].badge = Part[l]
        BY <1>a, <2>1, ConstantsOK DEF WorkerOK
      <3>2. /\ Len(assertion) + 1 \in DOMAIN assertion'
            /\ assertion'[Len(assertion) + 1] = new
        BY <1>a, <2>1
      <3>3. Len(assertion) + 1 \in Live(Part[l], r)'
        BY <3>1, <3>2 DEF Live
      <3> QED
        BY <3>3 DEF Owed
    <2> QED
      BY <1>a, <1>c, <2>1, <2>2 DEF WillVisit
  <1>2. CASE Notify(w)
    BY <1>2, <1>a, <1>c DEF Notify, Goto, WillVisit
  <1>3. CASE Abort(w)
    <2>1. excused' = excused \cup (LP \X ({issue[w].rcpt} \cup issue[w].audience))
      BY <1>3 DEF Abort
    <2>2. r \in {issue[w].rcpt} \cup issue[w].audience
      BY DEF WillVisit
    <2> QED
      BY <2>1, <2>2 DEF Owed
  <1>4. CASE ListPaths(w)
    <2> DEFINE found == {m \in LP : IsActive(m) /\ issue[w].badge \in members[m]}
               frame == {<<m, path[m].required>> : m \in found}
    <2>1. /\ pc[w] = "list" /\ pc' = [pc EXCEPT ![w] = "next"]
          /\ issue' = [issue EXCEPT ![w].calls = <<frame>> \o @]
      BY <1>4 DEF ListPaths, Goto
    <2>2. issue[w].badge \in members[l] => Entry(l) \in frame
      BY DEF Entry, Owed
    <2> HIDE DEF frame
    <2>3. issue'[w] = [issue[w] EXCEPT !.calls = <<frame>> \o issue[w].calls]
      BY <1>a, <2>1
    <2>4. /\ issue'[w].rcpt = issue[w].rcpt /\ issue'[w].task = issue[w].task
          /\ issue'[w].audience = issue[w].audience
          /\ issue'[w].calls = <<frame>> \o issue[w].calls
      BY <1>a, <2>3 DEF Issue
    <2>5. /\ 1 \in DOMAIN issue'[w].calls /\ issue'[w].calls[1] = frame
          /\ \A k \in DOMAIN issue[w].calls :
               /\ k + 1 \in DOMAIN issue'[w].calls
               /\ issue'[w].calls[k + 1] = issue[w].calls[k]
      BY <1>a, <2>4
    <2>6. pc'[w] = "next"
      BY <1>a, <2>1
    <2> QED
      BY <1>c, <2>1, <2>2, <2>4, <2>5, <2>6 DEF WillVisit
  <1>5. CASE VisitPath(w)
    <2>1. PICK f \in Head(issue[w].calls) :
            issue' = [issue EXCEPT
                        ![w].calls = <<Head(@) \ {f}>> \o Tail(@),
                        ![w].via = f[1],
                        ![w].need = f[2],
                        ![w].seen = members[f[1]]]
      BY <1>5 DEF VisitPath
    <2>2. /\ pc[w] = "next" /\ pc'[w] = "held" /\ issue[w].calls # <<>>
      BY <1>5, <1>a DEF VisitPath, Goto
    <2> DEFINE rest == <<Head(issue[w].calls) \ {f}>> \o Tail(issue[w].calls)
    <2>3. /\ issue'[w].rcpt = issue[w].rcpt /\ issue'[w].task = issue[w].task
          /\ issue'[w].audience = issue[w].audience
          /\ issue'[w].calls = rest /\ issue'[w].via = f[1]
          /\ issue'[w].need = f[2] /\ issue'[w].seen = members[f[1]]
      BY <1>a, <2>1 DEF Issue
    <2>4. /\ DOMAIN rest = DOMAIN issue[w].calls
          /\ rest[1] = issue[w].calls[1] \ {f}
          /\ \A k \in DOMAIN issue[w].calls : k # 1 => rest[k] = issue[w].calls[k]
      BY <1>a, <2>2
    <2>5. \A k \in DOMAIN issue[w].calls :
             Entry(l) \in issue[w].calls[k] => Entry(l) \in rest[k] \/ f = Entry(l)
      BY <2>4
    <2> HIDE DEF rest
    <2> QED
      BY <1>c, <2>2, <2>3, <2>4, <2>5 DEF WillVisit, Entry
  <1>6. CASE CheckHeld(w)
    <2>1. /\ pc[w] = "held" /\ UNCHANGED issue
          /\ pc'[w] = IF HasCompleted(issue[w].seen, issue[w].need, issue[w].rcpt)
                      THEN "degree" ELSE "next"
      BY <1>6, <1>a DEF CheckHeld, Goto
    <2> QED
      BY <1>c, <2>1 DEF WillVisit, Owed
  <1>7. CASE OweDegree(w)
    <2>1. /\ pc[w] = "degree" /\ pc'[w] = "insert"
          /\ issue' = [issue EXCEPT ![w].badge = Part[issue[w].via]]
      BY <1>7, <1>a DEF OweDegree, Goto
    <2>2. /\ issue'[w].rcpt = issue[w].rcpt /\ issue'[w].task = issue[w].task
          /\ issue'[w].audience = issue[w].audience
          /\ issue'[w].calls = issue[w].calls /\ issue'[w].via = issue[w].via
      BY <1>a, <2>1 DEF Issue
    <2> QED
      BY <1>c, <2>1, <2>2 DEF WillVisit
  <1>8. CASE HasDegree(w)
    <2>1. /\ pc[w] = "degree" /\ pc'[w] = "next" /\ UNCHANGED issue
          /\ Live(Part[issue[w].via], issue[w].rcpt) # {}
      BY <1>8, <1>a DEF HasDegree, Goto, LacksDegree
    <2> QED
      BY <1>c, <2>1 DEF WillVisit, Owed
  <1>9. CASE Return(w)
    <2>1. /\ pc[w] = "next" /\ pc' = pc /\ Len(issue[w].calls) > 1
          /\ Head(issue[w].calls) = {}
          /\ issue' = [issue EXCEPT ![w].calls = Tail(@)]
      BY <1>9 DEF Return
    <2>2. /\ issue'[w].rcpt = issue[w].rcpt /\ issue'[w].task = issue[w].task
          /\ issue'[w].audience = issue[w].audience
          /\ issue'[w].calls = Tail(issue[w].calls)
      BY <1>a, <2>1 DEF Issue
    <2>3. \A k \in DOMAIN issue[w].calls : Entry(l) \in issue[w].calls[k] =>
             /\ k - 1 \in DOMAIN Tail(issue[w].calls)
             /\ Tail(issue[w].calls)[k - 1] = issue[w].calls[k]
      BY <1>a, <2>1
    <2> QED
      BY <1>c, <2>1, <2>2, <2>3 DEF WillVisit
  <1>10. CASE Finish(w)
    <2>1. pc[w] = "next" /\ issue[w].calls = <<{}>>
      BY <1>10 DEF Finish
    <2>2. \A k \in DOMAIN issue[w].calls : issue[w].calls[k] = {}
      BY <2>1
    <2>3. r \in issue[w].audience /\ Entry(l) \in issue[w].task
      BY <2>1, <2>2 DEF WillVisit
    <2>4. issue' = [issue EXCEPT ![w] = [NoIssue EXCEPT
                       !.task = issue[w].task, !.audience = issue[w].audience]]
      BY <1>10, <2>3 DEF Finish
    <2>5. issue'[w].task = issue[w].task /\ issue'[w].audience = issue[w].audience
      BY <1>a, <2>4 DEF NoIssue
    <2> QED
      BY <1>c, <2>3, <2>5 DEF WillVisit
  <1>11. CASE VisitUser(w)
    <2>1. PICK q \in issue[w].audience :
            issue' = [issue EXCEPT ![w].rcpt = q,
                                   ![w].audience = @ \ {q},
                                   ![w].calls = <<issue[w].task>>]
      BY <1>11 DEF VisitUser
    <2>2. pc[w] = "users" /\ pc'[w] = "next"
      BY <1>11, <1>a DEF VisitUser, Goto
    <2>3. /\ issue'[w].rcpt = q /\ issue'[w].task = issue[w].task
          /\ issue'[w].audience = issue[w].audience \ {q}
          /\ issue'[w].calls = <<issue[w].task>>
      BY <1>a, <2>1 DEF Issue
    <2>4. 1 \in DOMAIN issue'[w].calls /\ issue'[w].calls[1] = issue[w].task
      BY <2>3
    <2> QED
      BY <1>c, <2>2, <2>3, <2>4 DEF WillVisit
  <1>12. CASE EndTask(w)
    BY <1>12 DEF EndTask, WillVisit
  <1>13. CASE TakeTask(w) \/ Request(w)
    BY <1>13, <1>a, <1>b DEF TakeTask, StartTask, Request, StartAward,
       StartEdit, StartArchive, StartRevoke, Arrive, WorkerOK
  <1>14. CASE \/ ClearBadges(w) \/ AddBadge(w) \/ BadgesSet(w) \/ SavePath(w)
              \/ Publish(w) \/ Enqueue(w) \/ SaveRevoked(w)
    BY <1>14, <1>a, <1>b DEF ClearBadges, AddBadge, BadgesSet, SavePath,
       Publish, Enqueue, SaveRevoked, WorkerOK
  <1> QED
    BY <1>1, <1>2, <1>3, <1>4, <1>5, <1>6, <1>7, <1>8, <1>9, <1>10, <1>11,
       <1>12, <1>13, <1>14 DEF Acts, Work

\* An announcement becomes a message, and the message a task for everybody.
LEMMA AnnouncementKept ==
  ASSUME TypeInv, NEW w \in Worker, Acts(w), NEW l \in LP, NEW r \in Verified,
         path'[l].required = path[l].required, Announced(l)
  PROVE  Answered(l, r)'
  <1>a. /\ tasks \in [LP -> Nat] /\ edit \in [Worker -> Edit]
        /\ pc \in [Worker -> Label] /\ issue \in [Worker -> Issue]
        /\ issue[w] \in Issue /\ path \in [LP -> Path] /\ WorkerOK(w)
    BY DEF TypeInv, TypeOK
  <1>1. CASE tasks[l] > 0
    <2>1. CASE UNCHANGED tasks
      BY <1>1, <2>1 DEF Answered, Announced
    <2>2. CASE Enqueue(w)
      BY <1>1, <1>a, <2>2 DEF Enqueue, WorkerOK, Answered, Announced
    <2>3. CASE TakeTask(w)
      <3>1. PICK m \in LP : StartTask(w, m)
        BY <2>3 DEF TakeTask
      <3>2. CASE m = l
        <4>1. /\ issue'[w].task = {<<l, path[l].required>>}
              /\ issue'[w].audience = Verified
          BY <1>a, <3>1, <3>2 DEF StartTask, Issue
        <4> QED
          BY <4>1 DEF Answered, WillVisit, Entry
      <3>3. CASE m # l
        <4>1. tasks'[l] = tasks[l]
          BY <1>a, <3>1, <3>3 DEF StartTask
        <4> QED
          BY <1>1, <4>1 DEF Answered, Announced
      <3> QED
        BY <3>2, <3>3
    <2>4. CASE Request(w) \/ Abort(w)
      BY <2>4, <2>1 DEF Request, StartAward, StartEdit, StartArchive, StartRevoke,
                        Abort
    <2>5. CASE \/ Insert(w) \/ Notify(w) \/ ListPaths(w) \/ VisitPath(w)
               \/ CheckHeld(w) \/ OweDegree(w) \/ HasDegree(w) \/ Return(w)
               \/ Finish(w) \/ VisitUser(w) \/ EndTask(w)
      BY <2>5, <2>1 DEF Insert, Notify, ListPaths, VisitPath, CheckHeld,
                        OweDegree, HasDegree, Return, Finish, VisitUser, EndTask
    <2>6. CASE \/ ClearBadges(w) \/ AddBadge(w) \/ BadgesSet(w) \/ SavePath(w)
               \/ Publish(w) \/ SaveRevoked(w)
      BY <2>6, <2>1 DEF ClearBadges, AddBadge, BadgesSet, SavePath, Publish,
                        SaveRevoked
    <2> QED
      BY <2>2, <2>3, <2>4, <2>5, <2>6 DEF Acts, Work
  <1>2. ASSUME NEW v \in Worker, pc[v] \in {"publish", "enqueue"},
               edit[v].lp = l, Announces(edit[v].obj)
        PROVE  Announced(l)'
    <2>1. CASE pc'[v] = pc[v] /\ edit'[v] = edit[v]
      BY <1>2, <2>1 DEF Announced, Announces
    <2>2. CASE v # w
      <3>1. pc'[v] = pc[v]
        BY <2>2, OthersKept DEF Acts
      <3>2. edit'[v] = edit[v]
        <4>1. CASE TakeTask(w) \/ Request(w) \/ Abort(w)
          BY <4>1, <1>a, <2>2 DEF TakeTask, StartTask, Request, StartAward,
             StartEdit, StartArchive, StartRevoke, Abort
        <4>2. CASE \/ Insert(w) \/ Notify(w) \/ ListPaths(w) \/ VisitPath(w)
                   \/ CheckHeld(w) \/ OweDegree(w) \/ HasDegree(w) \/ Return(w)
                   \/ Finish(w) \/ VisitUser(w) \/ EndTask(w)
          BY <4>2 DEF Insert, Notify, ListPaths, VisitPath, CheckHeld,
                      OweDegree, HasDegree, Return, Finish, VisitUser, EndTask
        <4>3. CASE \/ ClearBadges(w) \/ AddBadge(w) \/ BadgesSet(w) \/ SavePath(w)
                   \/ Publish(w) \/ Enqueue(w) \/ SaveRevoked(w)
          BY <4>3, <1>a, <2>2 DEF ClearBadges, AddBadge, BadgesSet, SavePath,
             Publish, Enqueue, SaveRevoked
        <4> QED
          BY <4>1, <4>2, <4>3 DEF Acts, Work
      <3> QED
        BY <2>1, <3>1, <3>2
    <2>3. CASE v = w /\ Publish(w)
      <3>1. pc'[w] = "enqueue" /\ edit' = edit
        BY <1>2, <1>a, <2>3 DEF Publish, Goto
      <3> QED
        BY <1>2, <2>3, <3>1 DEF Announced, Announces
    <2>4. CASE v = w /\ Enqueue(w)
      <3>1. tasks'[l] = tasks[l] + 1
        BY <1>2, <1>a, <2>4 DEF Enqueue
      <3> QED
        BY <1>a, <3>1 DEF Announced
    <2>5. CASE v = w /\ ~Publish(w) /\ ~Enqueue(w)
      <3>1. ~TakeTask(w) /\ ~Request(w) /\ ~Abort(w)
        BY <1>2, <2>5 DEF TakeTask, StartTask, Request, StartAward, StartEdit,
                          StartArchive, StartRevoke, Arrive, Abort
      <3> QED
        BY <1>2, <2>5, <3>1
        DEF Acts, Work, Insert, Notify, ListPaths, VisitPath, CheckHeld,
            OweDegree, HasDegree, Return, Finish, VisitUser, EndTask,
            ClearBadges, AddBadge, BadgesSet, SavePath, SaveRevoked
    <2> QED
      BY <2>2, <2>3, <2>4, <2>5
  <1> QED
    BY <1>1, <1>2 DEF Announced, Answered

LEMMA NextOwedInv ==
  ASSUME TypeInv, OwedInv, [Next]_vars
  PROVE  OwedInv'
  <1>1. CASE UNCHANGED vars
    BY <1>1 DEF vars, OwedInv, Owed, Answered, Announced, Announces, WillVisit,
                Entry, IsActive, HasCompleted, Live
  <1>2. ASSUME NEW w \in Worker, Acts(w) PROVE OwedInv'
    <2> SUFFICES ASSUME NEW l \in LP, NEW r \in Verified, Owed(l, r)'
                 PROVE  Answered(l, r)'
      BY DEF OwedInv
    <2>1. ASSUME Owed(l, r), members'[l] = members[l],
                 path'[l].required = path[l].required
          PROVE  Answered(l, r)'
      <3>1. Answered(l, r)
        BY <2>1 DEF OwedInv
      <3>2. CASE Announced(l)
        BY <1>2, <2>1, <3>2, AnnouncementKept
      <3>3. ASSUME NEW v \in Worker, WillVisit(v, l, r)
            PROVE  WillVisit(v, l, r)'
        BY <1>2, <2>1, <3>3, OtherVisits, ActorVisits
      <3> QED
        BY <3>1, <3>2, <3>3 DEF Answered
    <2>2. CASE Insert(w)
      <3>1. /\ pc'[w] = "notify"
            /\ UNCHANGED <<members, path, issue>>
        BY <2>2 DEF Insert, Goto, TypeInv, TypeOK
      <3>2. CASE issue[w].rcpt = r /\ issue[w].badge \in members[l]
        BY <3>1, <3>2 DEF Answered, WillVisit
      <3> QED
        BY <2>1, <2>2, <3>1, <3>2, OwedInsert
    <2>3. CASE SavePath(w)
      <3>1. UNCHANGED <<members, edit>> /\ pc'[w] = "publish"
        BY <2>3 DEF SavePath, Goto, TypeInv, TypeOK
      <3>2. CASE edit[w].lp = l /\ Announces(edit[w].obj)
        BY <3>1, <3>2 DEF Answered, Announced, Announces
      <3> QED
        BY <2>1, <2>3, <3>1, <3>2, OwedSave
    <2>4. CASE ~Insert(w) /\ ~SavePath(w)
      BY <1>2, <2>1, <2>4, OwedBefore
    <2> QED
      BY <2>2, <2>3, <2>4
  <1> QED
    BY <1>1, <1>2 DEF Next, Rest, Acts

\* Nobody has a badge, so no path that asks for one owes a degree.
LEMMA InitOwedInv ==
  ASSUME Init, \A l \in LP : IsActive(l) => InitPath[l].required > 0
  PROVE  OwedInv
  <1> SUFFICES ASSUME NEW l \in LP, NEW r \in Verified, Owed(l, r)
               PROVE  FALSE
    BY DEF OwedInv
  <1>1. \A b : Live(b, r) = {}
    BY DEF Init, Live
  <1>2. {b \in members[l] : Live(b, r) # {}} = {}
    BY <1>1
  <1>3. Cardinality({b \in members[l] : Live(b, r) # {}}) = 0
    BY <1>2, FS_EmptySet
  <1>4. path[l].required > 0 /\ path[l].required \in Nat
    BY ConstantsOK DEF Init, Owed, Path
  <1> QED
    BY <1>3, <1>4 DEF Owed, HasCompleted

\* When all handlers and tasks have finished, whoever has a verified identifier
\* and has completed an active learning path holds its participation badge,
\* however awards, edits, revocations and activation tasks have interleaved.
\* The paths that are active from the beginning must ask for a badge.
THEOREM NoDegreeMissed ==
  ASSUME \A l \in LP : InitPath[l].activated /\ ~InitPath[l].archived
                         => InitPath[l].required > 0
  PROVE  Spec => []NoMissedDegree
  <1>1. Init => TypeInv /\ OwedInv
    <2>1. Init => \A l \in LP : IsActive(l) => InitPath[l].required > 0
      BY DEF Init, IsActive
    <2> QED
      BY <2>1, InitTypeInv, InitOwedInv
  <1>2. TypeInv /\ OwedInv /\ [Next]_vars => (TypeInv /\ OwedInv)'
    BY NextTypeInv, NextOwedInv
  <1>3. TypeInv /\ OwedInv => NoMissedDegree
    <2> SUFFICES ASSUME TypeInv, OwedInv, Quiescent,
                        NEW l \in LP, NEW r \in Verified, Owed(l, r)
                 PROVE  FALSE
      BY DEF NoMissedDegree, Owed
    <2>1. \A w \in Worker : pc[w] = "idle" /\ issue[w] = NoIssue
      BY DEF Quiescent, TypeInv, WorkerOK
    <2>2. ~Announced(l)
      BY <2>1 DEF Announced, Quiescent
    <2>3. \A w \in Worker : ~WillVisit(w, l, r)
      BY <2>1, NoAgenda
    <2> QED
      BY <2>2, <2>3 DEF OwedInv, Answered
  <1> QED
    BY <1>1, <1>2, <1>3, PTL DEF Spec

-----------------------------------------------------------------------------
(* Requests that come one after the other.                                 *)

\* The cache differs from the database only for the path that is being saved.
CacheFollows ==
    /\ \A l \in LP : \/ cache[l].row = path[l]
                     \/ \E w \in Worker : pc[w] = "publish" /\ edit[w].lp = l
    /\ \A w \in Worker : pc[w] = "publish" => path[edit[w].lp] = edit[w].obj.row

\* An object that is going to be saved does not take its path out of the
\* archive, and an assertion that is going to be revoked is not protected.
SavesLawful ==
    \A w \in Worker :
        /\ pc[w] \in {"clear", "fill", "save"} /\ path[edit[w].lp].archived
             => edit[w].obj.row.archived
        /\ pc[w] = "revoke" => ~Protected(assertion[target[w]].badge)

SerialInv == TypeInv /\ CacheFollows /\ SavesLawful

LEMMA InitSerialInv == Init => SerialInv
  <1> SUFFICES ASSUME Init PROVE SerialInv
    OBVIOUS
  <1>1. \A l \in LP : cache[l].row = path[l]
    BY DEF Init, Constructed
  <1>2. \A w \in Worker : pc[w] = "idle"
    BY DEF Init
  <1> QED
    BY <1>1, <1>2, InitTypeInv DEF SerialInv, CacheFollows, SavesLawful

LEMMA SerialStep ==
  ASSUME SerialInv, NEW w \in Worker, Worker = {w}, Acts(w), TypeInv'
  PROVE  /\ CacheFollows' /\ SavesLawful'
         /\ \A l \in LP : path[l].archived => path'[l].archived
         /\ \A i \in DOMAIN assertion :
              ~assertion[i].revoked /\ assertion'[i].revoked =>
                \A l \in LP : Part[l] = assertion[i].badge => ~path[l].archived
  <1> DEFINE Kept == \A l \in LP : path[l].archived => path'[l].archived
             Safe == \A i \in DOMAIN assertion :
              ~assertion[i].revoked /\ assertion'[i].revoked =>
                \A l \in LP : Part[l] = assertion[i].badge => ~path[l].archived
             Goal == CacheFollows' /\ SavesLawful' /\ Kept /\ Safe
  <1>a. /\ path \in [LP -> Path] /\ cache \in [LP -> Object]
        /\ edit \in [Worker -> Edit] /\ edit[w] \in Edit
        /\ pc \in [Worker -> Label] /\ target \in [Worker -> Nat]
        /\ assertion \in Seq(Assertion) /\ WorkerOK(w)
    BY DEF SerialInv, TypeInv, TypeOK
  <1>b. CacheFollows /\ SavesLawful
    BY DEF SerialInv
  <1>1. CASE /\ UNCHANGED <<path, cache, edit, target, assertion>>
             /\ pc[w] # "publish" /\ pc'[w] \notin {"clear", "publish", "revoke"}
             /\ pc'[w] \in {"fill", "save"} => pc[w] \in {"clear", "fill", "save"}
    BY <1>1, <1>b DEF CacheFollows, SavesLawful, Protected
  <1>2. CASE Insert(w)
    <2>1. UNCHANGED <<path, cache, edit, target>> /\ pc[w] = "insert" /\ pc'[w] = "notify"
      BY <1>2, <1>a DEF Insert, Goto
    <2>2. \A i \in DOMAIN assertion : assertion'[i] = assertion[i]
      BY <1>2, <1>a DEF Insert
    <2> QED
      BY <1>b, <2>1, <2>2 DEF CacheFollows, SavesLawful
  <1>3. CASE \/ Notify(w) \/ ListPaths(w) \/ VisitPath(w) \/ CheckHeld(w)
             \/ OweDegree(w) \/ HasDegree(w) \/ Return(w) \/ Finish(w)
             \/ VisitUser(w) \/ EndTask(w) \/ Abort(w) \/ TakeTask(w)
    BY <1>3, <1>1, <1>a DEF Notify, ListPaths, VisitPath, CheckHeld, OweDegree,
       HasDegree, Return, Finish, VisitUser, EndTask, Abort, TakeTask, StartTask, Goto
  <1>4. CASE ClearBadges(w) \/ BadgesSet(w)
    BY <1>4, <1>1, <1>a DEF ClearBadges, BadgesSet, Goto
  <1>5. CASE AddBadge(w)
    <2>1. PICK b \in edit[w].todo : edit' = [edit EXCEPT ![w].todo = @ \ {b}]
      BY <1>5 DEF AddBadge
    <2>2. edit'[w].lp = edit[w].lp /\ edit'[w].obj = edit[w].obj
      BY <1>a, <2>1 DEF Edit
    <2>3. UNCHANGED <<path, cache, target, assertion, pc>> /\ pc[w] = "fill"
      BY <1>5 DEF AddBadge
    <2> QED
      BY <1>b, <2>2, <2>3 DEF CacheFollows, SavesLawful
  <1>6. CASE SavePath(w)
    <2>1. /\ pc[w] = "save" /\ pc'[w] = "publish" /\ edit[w].lp \in LP
          /\ path' = [path EXCEPT ![edit[w].lp] = edit[w].obj.row]
          /\ UNCHANGED <<cache, edit, assertion>>
      BY <1>6, <1>a DEF SavePath, Goto, WorkerOK
    <2> QED
      BY <1>a, <1>b, <2>1 DEF CacheFollows, SavesLawful
  <1>7. CASE Publish(w)
    <2>1. /\ pc[w] = "publish" /\ pc'[w] \in {"enqueue", "idle"} /\ edit[w].lp \in LP
          /\ cache' = [cache EXCEPT ![edit[w].lp] = edit[w].obj]
          /\ UNCHANGED <<path, assertion>>
      BY <1>7, <1>a DEF Publish, Goto, WorkerOK
    <2> QED
      BY <1>a, <1>b, <2>1 DEF CacheFollows, SavesLawful
  <1>8. CASE Enqueue(w)
    <2>1. /\ pc[w] = "enqueue" /\ pc'[w] = "idle"
          /\ UNCHANGED <<path, cache, assertion>>
      BY <1>8, <1>a DEF Enqueue, Goto
    <2> QED
      BY <1>b, <2>1 DEF CacheFollows, SavesLawful
  <1>9. CASE SaveRevoked(w)
    <2> DEFINE t == target[w]
    <2>1. /\ pc[w] = "revoke" /\ pc'[w] = "idle" /\ t \in DOMAIN assertion
          /\ assertion' = [assertion EXCEPT ![t].revoked = TRUE]
          /\ UNCHANGED <<path, cache, edit>>
      BY <1>9, <1>a DEF SaveRevoked, Goto, WorkerOK
    <2>2. ~Protected(assertion[t].badge)
      BY <1>b, <2>1 DEF SavesLawful
    <2>3. \A i \in DOMAIN assertion : i # t => assertion'[i] = assertion[i]
      BY <1>a, <2>1
    <2>4. Safe
      BY <2>2, <2>3 DEF Protected
    <2> HIDE DEF t
    <2> QED
      BY <1>b, <2>1, <2>4 DEF CacheFollows, SavesLawful
  <1>10. ASSUME NEW l \in LP, NEW obj \in Loaded(l), NEW o, pc[w] = "idle",
                cache' = [cache EXCEPT ![l] = obj],
                edit' = [edit EXCEPT ![w] = o],
                o.lp = l, obj.row.archived => o.obj.row.archived,
                pc'[w] \in {"clear", "save"},
                UNCHANGED <<path, assertion>>
         PROVE  Goal
    <2>1. obj.row = path[l]
      BY <1>10, <1>b DEF CacheFollows, Loaded, Constructed
    <2>2. edit'[w] = o
      BY <1>10, <1>a
    <2>3. CacheFollows'
      BY <1>10, <1>a, <1>b, <2>1 DEF CacheFollows
    <2>4. SavesLawful'
      BY <1>10, <2>1, <2>2 DEF SavesLawful
    <2> QED
      BY <1>10, <2>3, <2>4
  <1>11. CASE \E l \in LP, f \in Forms : StartEdit(w, l, f)
    <2>1. PICK l \in LP, f \in Forms : StartEdit(w, l, f)
      BY <1>11
    <2>2. PICK obj \in Loaded(l) :
            /\ cache' = [cache EXCEPT ![l] = obj]
            /\ edit' = [edit EXCEPT ![w] = [lp |-> l, obj |-> Updated(obj, f),
                                           todo |-> f.badges]]
      BY <2>1 DEF StartEdit
    <2>3. /\ pc[w] = "idle" /\ pc'[w] \in {"clear", "save"}
          /\ UNCHANGED <<path, assertion>>
      BY <2>1, <1>a DEF StartEdit, Arrive, Goto
    <2>4. obj \in Object
      BY <1>a DEF Loaded, Constructed, Object, Path
    <2> DEFINE o == [lp |-> l, obj |-> Updated(obj, f), todo |-> f.badges]
    <2>5. o.lp = l /\ (obj.row.archived => o.obj.row.archived)
      BY <2>4 DEF Updated, Object, Path
    <2>6. edit' = [edit EXCEPT ![w] = o]
      BY <2>2
    <2> HIDE DEF o
    <2> QED
      BY <1>10, <2>2, <2>3, <2>5, <2>6
  <1>12. CASE \E l \in LP : StartArchive(w, l)
    <2>1. PICK l \in LP : StartArchive(w, l)
      BY <1>12
    <2>2. PICK obj \in Loaded(l) :
            /\ cache' = [cache EXCEPT ![l] = obj]
            /\ edit' = [edit EXCEPT ![w] =
                 [lp |-> l, obj |-> [obj EXCEPT !.row.archived = TRUE], todo |-> {}]]
      BY <2>1 DEF StartArchive
    <2>3. /\ pc[w] = "idle" /\ pc'[w] = "save"
          /\ UNCHANGED <<path, assertion>>
      BY <2>1, <1>a DEF StartArchive, Arrive, Goto
    <2>4. obj \in Object
      BY <1>a DEF Loaded, Constructed, Object, Path
    <2> DEFINE o == [lp |-> l, obj |-> [obj EXCEPT !.row.archived = TRUE],
                     todo |-> {}]
    <2>5. o.lp = l /\ o.obj.row.archived
      BY <2>4 DEF Object, Path
    <2>6. edit' = [edit EXCEPT ![w] = o]
      BY <2>2
    <2> HIDE DEF o
    <2> QED
      BY <1>10, <2>2, <2>3, <2>5, <2>6
  <1>13. CASE \E b \in Awardable, q \in Recipient : StartAward(w, b, q)
    BY <1>13, <1>1, <1>a DEF StartAward, Arrive, Goto
  <1>14. CASE \E i \in DOMAIN assertion : StartRevoke(w, i)
    <2>1. PICK i \in DOMAIN assertion : StartRevoke(w, i)
      BY <1>14
    <2>2. /\ pc[w] = "idle" /\ pc'[w] = "revoke" /\ target'[w] = i
          /\ ~Protected(assertion[i].badge)
          /\ UNCHANGED <<path, cache, edit, assertion>>
      BY <2>1, <1>a DEF StartRevoke, Arrive, Goto
    <2> QED
      BY <1>b, <2>2 DEF CacheFollows, SavesLawful, Protected
  <1> QED
    BY <1>2, <1>3, <1>4, <1>5, <1>6, <1>7, <1>8, <1>9, <1>11, <1>12, <1>13,
       <1>14 DEF Acts, Work, Request

LEMMA SerialNext ==
  ASSUME Cardinality(Worker) = 1, SerialInv, [Next]_vars
  PROVE  /\ SerialInv'
         /\ \A l \in LP : path[l].archived => path'[l].archived
         /\ \A i \in DOMAIN assertion :
              ~assertion[i].revoked /\ assertion'[i].revoked =>
                \A l \in LP : Part[l] = assertion[i].badge => ~path[l].archived
  <1>1. TypeInv'
    BY NextTypeInv DEF SerialInv
  <1>2. CASE UNCHANGED vars
    BY <1>1, <1>2 DEF vars, SerialInv, CacheFollows, SavesLawful, Protected
  <1>3. ASSUME NEW w \in Worker, Acts(w) PROVE Worker = {w}
    BY ConstantsOK, FS_Singleton
  <1> QED
    BY <1>1, <1>2, <1>3, SerialStep DEF SerialInv, Next, Rest, Acts

\* Once the requests are served, memcached shows the learning paths as the
\* database has them, if requests come one after the other.
THEOREM CacheStaysFresh ==
  ASSUME Cardinality(Worker) = 1
  PROVE  Spec => []CacheFresh
  <1>1. SerialInv => CacheFresh
    BY DEF SerialInv, CacheFollows, CacheFresh, Quiescent
  <1> QED
    BY <1>1, InitSerialInv, SerialNext, PTL DEF Spec

\* Nothing takes a learning path out of the archive again, if requests come
\* one after the other: each saves the object that the one before has saved.
THEOREM ArchiveStaysFinal ==
  ASSUME Cardinality(Worker) = 1
  PROVE  Spec => ArchiveIsFinal
  <1>1. SerialInv /\ [Next]_vars => SerialInv'
    BY SerialNext
  <1>2. SerialInv /\ [Next]_vars
          => [\A l \in LP : path[l].archived => path'[l].archived]_vars
    BY SerialNext
  <1> QED
    BY <1>1, <1>2, InitSerialInv, PTL DEF Spec, ArchiveIsFinal

\* "Cannot revoke micro degree from archived learning path", if requests come
\* one after the other.
THEOREM ArchivedDegreesStay ==
  ASSUME Cardinality(Worker) = 1
  PROVE  Spec => ArchivedDegreesKept
  <1>1. SerialInv /\ [Next]_vars => SerialInv'
    BY SerialNext
  <1>2. SerialInv /\ [Next]_vars
          => [\A i \in DOMAIN assertion :
                ~assertion[i].revoked /\ assertion'[i].revoked =>
                  \A l \in LP : Part[l] = assertion[i].badge => ~path[l].archived]_vars
    BY SerialNext
  <1> QED
    BY <1>1, <1>2, InitSerialInv, PTL DEF Spec, ArchivedDegreesKept
=============================================================================
