----------------------- MODULE LearningPaths_proofs ------------------------
(* Proofs about LearningPaths, for all values of its constants. *)
EXTENDS LearningPaths, FiniteSetTheorems, TLAPS

TypeInv == TypeOK /\ \A w \in Worker : WorkerOK(w)

-----------------------------------------------------------------------------
(* Type correctness.                                                       *)

LEMMA InitTypeInv == Init => TypeInv
  <1> SUFFICES ASSUME Init PROVE TypeInv
    OBVIOUS
  <1> USE ConstantsOK DEF Init
  <1>1. NoIssue \in Issue /\ NoEdit \in Edit
    BY DEF NoIssue, NoEdit, Issue, Edit, Constructed, Object, Path, Frame
  <1>2. cache \in [LP -> Object]
    BY DEF Constructed, Object, Path
  <1>4. TypeOK
    BY <1>1, <1>2 DEF TypeOK, Path, Label
  <1>3. \A w \in Worker : WorkerOK(w)
    BY DEF WorkerOK
  <1> QED
    BY <1>3, <1>4 DEF TypeInv

LEMMA IssuingTypeInv ==
  ASSUME TypeInv, NEW w \in Worker,
         \/ Insert(w) \/ Notify(w) \/ Abort(w) \/ ListPaths(w) \/ VisitPath(w)
         \/ CheckHeld(w) \/ OweDegree(w) \/ HasDegree(w)
         \/ Return(w) \/ Finish(w) \/ VisitUser(w) \/ EndTask(w)
  PROVE  TypeInv'
  <1>a. NoIssue \in Issue
    BY ConstantsOK DEF NoIssue, Issue, Frame
  <1>b. /\ issue \in [Worker -> Issue] /\ issue[w] \in Issue
        /\ issue[w].calls \in Seq(Frame)
    BY DEF TypeInv, TypeOK, Issue
  <1>1. CASE Insert(w)
    <2>1. assertion' \in Seq(Assertion)
      BY <1>b, <1>1 DEF Insert, WorkerOK, Issue, Assertion, TypeInv, TypeOK
    <2>2. DOMAIN assertion \subseteq DOMAIN assertion'
      BY <1>1 DEF Insert, TypeInv, TypeOK
    <2> QED
      BY <1>1, <2>1, <2>2 DEF Insert, WorkerOK, TypeInv, TypeOK, Label, Goto
  <1>2. CASE Notify(w)
    BY <1>2 DEF Notify, WorkerOK, TypeInv, TypeOK, Label, Goto
  <1>3. CASE Abort(w)
    BY <1>3, <1>a DEF Abort, WorkerOK, Issue, TypeInv, TypeOK, Label, Goto
  <1>4. CASE ListPaths(w)
    <2> DEFINE found == {l \in LP : IsActive(l) /\ issue[w].badge \in members[l]}
               frame == {<<l, path[l].required>> : l \in found}
    <2>1. frame \in Frame
      BY DEF TypeInv, TypeOK, Frame, Path
    <2> HIDE DEF frame
    <2>2. <<frame>> \o issue[w].calls \in Seq(Frame)
      BY <1>b, <2>1
    <2>3. issue' = [issue EXCEPT ![w].calls = <<frame>> \o issue[w].calls]
      BY <1>4 DEF ListPaths, frame
    <2>4. issue' \in [Worker -> Issue]
      BY <1>b, <2>2, <2>3 DEF Issue
    <2>5. \A v \in Worker : /\ issue'[v].rcpt = issue[v].rcpt
                            /\ v # w => issue'[v] = issue[v]
      BY <1>b, <2>3 DEF Issue
    <2>6. pc' = [pc EXCEPT ![w] = "next"]
      BY <1>4 DEF ListPaths, Goto
    <2> QED
      BY <1>4, <2>4, <2>5, <2>6 DEF ListPaths, WorkerOK, TypeInv, TypeOK, Label
  <1>5. CASE VisitPath(w)
    <2>1. PICK f \in Head(issue[w].calls) :
            issue' = [issue EXCEPT
                        ![w].calls = <<Head(@) \ {f}>> \o Tail(@),
                        ![w].via = f[1],
                        ![w].need = f[2],
                        ![w].seen = members[f[1]]]
      BY <1>5 DEF VisitPath
    <2>2. /\ Head(issue[w].calls) \in Frame
          /\ Tail(issue[w].calls) \in Seq(Frame)
      <3>1. issue[w].calls # <<>>
        BY <1>5 DEF VisitPath
      <3> QED
        BY <1>b, <3>1
    <2>3. f[1] \in LP /\ f[2] \in Nat /\ Head(issue[w].calls) \ {f} \in Frame
      BY <2>2 DEF Frame
    <2>4. members[f[1]] \in SUBSET Badge
      BY <2>3 DEF TypeInv, TypeOK
    <2> DEFINE rest == <<Head(issue[w].calls) \ {f}>> \o Tail(issue[w].calls)
    <2>5. rest \in Seq(Frame)
      BY <2>2, <2>3
    <2>6. issue' = [issue EXCEPT ![w] =
                      [issue[w] EXCEPT !.calls = rest, !.via = f[1],
                                       !.need = f[2], !.seen = members[f[1]]]]
      BY <1>b, <2>1
    <2> HIDE DEF rest
    <2>7. [issue[w] EXCEPT !.calls = rest, !.via = f[1], !.need = f[2],
                           !.seen = members[f[1]]] \in Issue
      BY <1>b, <2>3, <2>4, <2>5 DEF Issue
    <2>8. issue' \in [Worker -> Issue]
      BY <1>b, <2>6, <2>7
    <2>9. /\ issue'[w].rcpt = issue[w].rcpt /\ issue'[w].via \in LP
          /\ \A v \in Worker : v # w => issue'[v] = issue[v]
      BY <1>b, <2>3, <2>6 DEF Issue
    <2>10. pc' = [pc EXCEPT ![w] = "held"]
      BY <1>5 DEF VisitPath, Goto
    <2>11. pc[w] = "next" /\ UNCHANGED <<edit, target, assertion>>
      BY <1>5 DEF VisitPath
    <2>12. \A v \in Worker : WorkerOK(v)'
      BY <2>9, <2>10, <2>11 DEF WorkerOK, TypeInv, TypeOK
    <2> QED
      BY <1>5, <2>8, <2>10, <2>12 DEF VisitPath, TypeInv, TypeOK, Label
  <1>6. CASE CheckHeld(w)
    BY <1>6 DEF CheckHeld, WorkerOK, TypeInv, TypeOK, Label, Goto
  <1>7. CASE OweDegree(w)
    <2>1. issue' = [issue EXCEPT ![w].badge = Part[issue[w].via]]
      BY <1>7 DEF OweDegree
    <2>2. Part[issue[w].via] \in Badge
      BY <1>7, ConstantsOK DEF OweDegree, WorkerOK, TypeInv
    <2>3. issue' \in [Worker -> Issue]
      BY <1>b, <2>1, <2>2 DEF Issue
    <2>4. /\ issue'[w].badge \in Badge /\ issue'[w].rcpt = issue[w].rcpt
          /\ issue'[w].via = issue[w].via /\ issue[w].via \in LP
          /\ issue'[w].badge = Part[issue[w].via]
          /\ \A v \in Worker : v # w => issue'[v] = issue[v]
      BY <1>b, <1>7, <2>1, <2>2 DEF OweDegree, WorkerOK, TypeInv, Issue
    <2>5. pc' = [pc EXCEPT ![w] = "insert"]
      BY <1>7 DEF OweDegree, Goto
    <2> QED
      BY <1>7, <2>3, <2>4, <2>5, ConstantsOK
      DEF OweDegree, WorkerOK, TypeInv, TypeOK, Label
  <1>8. CASE HasDegree(w)
    BY <1>8 DEF HasDegree, WorkerOK, TypeInv, TypeOK, Label, Goto
  <1>9. CASE Return(w)
    <2>1. Tail(issue[w].calls) \in Seq(Frame)
      BY <1>b, <1>9 DEF Return
    <2>2. issue' = [issue EXCEPT ![w].calls = Tail(issue[w].calls)]
      BY <1>9 DEF Return
    <2>3. issue' \in [Worker -> Issue]
      BY <1>b, <2>1, <2>2 DEF Issue
    <2>4. /\ issue'[w].rcpt = issue[w].rcpt
          /\ \A v \in Worker : v # w => issue'[v] = issue[v]
      BY <1>b, <2>2 DEF Issue
    <2> QED
      BY <1>9, <2>3, <2>4 DEF Return, WorkerOK, TypeInv, TypeOK, Label
  <1>10. CASE Finish(w)
    <2>1. CASE issue[w].task = {}
      <3>1. /\ issue' = [issue EXCEPT ![w] = NoIssue]
            /\ pc' = [pc EXCEPT ![w] = "idle"]
            /\ UNCHANGED <<edit, target, assertion>>
        BY <1>10, <2>1 DEF Finish, Goto
      <3>2. \A v \in Worker : WorkerOK(v)'
        BY <3>1 DEF WorkerOK, TypeInv, TypeOK
      <3> QED
        BY <1>10, <1>a, <3>1, <3>2 DEF Finish, TypeInv, TypeOK, Label
    <2>2. CASE issue[w].task # {}
      <3> DEFINE job == [NoIssue EXCEPT !.task = issue[w].task,
                                        !.audience = issue[w].audience]
      <3>1. issue[w].task \in Frame /\ issue[w].audience \in SUBSET Recipient
        BY <1>b DEF Issue
      <3>2. job \in Issue
        BY <1>a, <3>1 DEF Issue
      <3>3. issue' = [issue EXCEPT ![w] = job] /\ pc' = [pc EXCEPT ![w] = "users"]
        BY <1>10, <2>2 DEF Finish, Goto
      <3> HIDE DEF job
      <3>4. issue' \in [Worker -> Issue]
        BY <1>b, <3>2, <3>3
      <3> QED
        BY <1>10, <3>3, <3>4 DEF Finish, WorkerOK, TypeInv, TypeOK, Label
    <2> QED
      BY <2>1, <2>2
  <1>11. CASE VisitUser(w)
    <2>1. PICK r \in issue[w].audience :
            issue' = [issue EXCEPT ![w].rcpt = r,
                                   ![w].audience = @ \ {r},
                                   ![w].calls = <<issue[w].task>>]
      BY <1>11 DEF VisitUser
    <2>2. /\ issue[w].audience \in SUBSET Recipient
          /\ issue[w].task \in Frame
      BY <1>b DEF Issue
    <2>3. r \in Recipient /\ <<issue[w].task>> \in Seq(Frame)
      BY <2>2
    <2>4. [issue[w] EXCEPT !.rcpt = r, !.audience = @ \ {r},
                           !.calls = <<issue[w].task>>] \in Issue
      BY <1>b, <2>2, <2>3 DEF Issue
    <2>5. issue' = [issue EXCEPT ![w] =
                      [issue[w] EXCEPT !.rcpt = r, !.audience = @ \ {r},
                                       !.calls = <<issue[w].task>>]]
      BY <1>b, <2>1
    <2>6. issue' \in [Worker -> Issue]
      BY <1>b, <2>4, <2>5
    <2>7. /\ issue'[w].rcpt = r
          /\ \A v \in Worker : v # w => issue'[v] = issue[v]
      BY <1>b, <2>5 DEF Issue
    <2>8. pc' = [pc EXCEPT ![w] = "next"]
      BY <1>11 DEF VisitUser, Goto
    <2> QED
      BY <1>11, <2>3, <2>6, <2>7, <2>8
      DEF VisitUser, WorkerOK, TypeInv, TypeOK, Label
  <1>12. CASE EndTask(w)
    BY <1>12, <1>a DEF EndTask, WorkerOK, TypeInv, TypeOK, Label, Goto
  <1> QED
    BY <1>1, <1>2, <1>3, <1>4, <1>5, <1>6, <1>7, <1>8, <1>9, <1>10, <1>11, <1>12

LEMMA RequestTypeInv ==
  ASSUME TypeInv, NEW w \in Worker, TakeTask(w) \/ Request(w)
  PROVE  TypeInv'
  <1>a. /\ issue \in [Worker -> Issue] /\ edit \in [Worker -> Edit]
        /\ path \in [LP -> Path] /\ cache \in [LP -> Object]
    BY DEF TypeInv, TypeOK
  <1>b. \A l \in LP : \A obj \in Loaded(l) : obj \in Object
    BY <1>a DEF Loaded, Constructed, Object, Path
  <1>1. CASE TakeTask(w)
    <2>1. PICK l \in LP : StartTask(w, l)
      BY <1>1 DEF TakeTask
    <2> DEFINE frame == {<<l, path[l].required>>}
    <2>2. frame \in Frame /\ Verified \in SUBSET Recipient
      BY <1>a, ConstantsOK DEF Frame, Path
    <2>3. issue' = [issue EXCEPT ![w].task = frame, ![w].audience = Verified]
      BY <2>1 DEF StartTask
    <2> HIDE DEF frame
    <2>4. issue' \in [Worker -> Issue] /\ \A v \in Worker : v # w => issue'[v] = issue[v]
      BY <1>a, <2>2, <2>3 DEF Issue
    <2>5. tasks' \in [LP -> Nat]
      BY <2>1 DEF StartTask, TypeInv, TypeOK
    <2>6. pc' = [pc EXCEPT ![w] = "users"]
      BY <2>1 DEF StartTask, Goto
    <2> QED
      BY <2>1, <2>4, <2>5, <2>6 DEF StartTask, WorkerOK, TypeInv, TypeOK, Label
  <1>2. ASSUME NEW b \in Awardable, NEW r \in Recipient, StartAward(w, b, r)
        PROVE  TypeInv'
    <2>1. b \in Badge
      BY ConstantsOK
    <2>2. issue' = [issue EXCEPT ![w].badge = b, ![w].rcpt = r]
      BY <1>2 DEF StartAward
    <2>3. /\ issue' \in [Worker -> Issue]
          /\ issue'[w].badge = b /\ issue'[w].rcpt = r
          /\ issue'[w].via = issue[w].via
          /\ \A v \in Worker : v # w => issue'[v] = issue[v]
      BY <1>a, <2>1, <2>2 DEF Issue
    <2>5. issue[w].via = None
      BY <1>2 DEF StartAward, Arrive, WorkerOK, TypeInv, NoIssue
    <2>4. pc' = [pc EXCEPT ![w] = "insert"]
      BY <1>2 DEF StartAward, Goto
    <2> QED
      BY <1>2, <2>1, <2>3, <2>4, <2>5
      DEF StartAward, Arrive, WorkerOK, TypeInv, TypeOK, Label
  <1>3. ASSUME NEW l \in LP, NEW f \in Forms, StartEdit(w, l, f)
        PROVE  TypeInv'
    <2>1. PICK obj \in Loaded(l) :
            /\ cache' = [cache EXCEPT ![l] = obj]
            /\ edit' = [edit EXCEPT ![w] = [lp |-> l, obj |-> Updated(obj, f),
                                           todo |-> f.badges]]
      BY <1>3 DEF StartEdit
    <2>2. f \in Form /\ obj \in Object
      BY <1>b, ConstantsOK
    <2>3. Updated(obj, f) \in Object /\ f.badges \in SUBSET Badge
      BY <2>2 DEF Updated, Object, Path, Form
    <2>4. edit' \in [Worker -> Edit] /\ edit'[w].lp = l
          /\ \A v \in Worker : v # w => edit'[v] = edit[v]
      BY <1>a, <2>1, <2>3 DEF Edit
    <2>8. cache' \in [LP -> Object]
      BY <1>a, <2>1, <2>2
    <2>5. /\ pc' \in [Worker -> Label] /\ pc'[w] \in {"clear", "save"}
          /\ \A v \in Worker : v # w => pc'[v] = pc[v]
      BY <1>3 DEF StartEdit, Goto, TypeInv, TypeOK, Label
    <2>6. pc[w] = "idle" /\ UNCHANGED <<issue, target, assertion>> /\ requests' \in Nat
      BY <1>3 DEF StartEdit, Arrive, TypeInv, TypeOK
    <2>7. \A v \in Worker : WorkerOK(v)'
      BY <2>4, <2>5, <2>6 DEF WorkerOK, TypeInv
    <2> QED
      BY <1>3, <2>4, <2>5, <2>6, <2>7, <2>8 DEF StartEdit, TypeInv, TypeOK
  <1>4. ASSUME NEW l \in LP, StartArchive(w, l)
        PROVE  TypeInv'
    <2>1. PICK obj \in Loaded(l) :
            /\ cache' = [cache EXCEPT ![l] = obj]
            /\ edit' = [edit EXCEPT ![w] =
                          [lp |-> l, obj |-> [obj EXCEPT !.row.archived = TRUE],
                           todo |-> {}]]
      BY <1>4 DEF StartArchive
    <2>2. obj \in Object
      BY <1>b
    <2>5. [obj EXCEPT !.row.archived = TRUE] \in Object
      BY <2>2 DEF Object, Path
    <2>3. edit' \in [Worker -> Edit] /\ edit'[w].lp = l
          /\ \A v \in Worker : v # w => edit'[v] = edit[v]
      BY <1>a, <2>1, <2>5 DEF Edit
    <2>6. cache' \in [LP -> Object]
      BY <1>a, <2>1, <2>2
    <2>4. pc' = [pc EXCEPT ![w] = "save"]
      BY <1>4 DEF StartArchive, Goto
    <2> QED
      BY <1>4, <2>3, <2>4, <2>6 DEF StartArchive, Arrive, WorkerOK, TypeInv, TypeOK, Label
  <1>5. ASSUME NEW i \in DOMAIN assertion, StartRevoke(w, i)
        PROVE  TypeInv'
    <2>1. i \in Nat
      BY DEF TypeInv, TypeOK
    <2> QED
      BY <1>5, <2>1
      DEF StartRevoke, Arrive, Goto, WorkerOK, TypeInv, TypeOK, Label
  <1> QED
    BY <1>1, <1>2, <1>3, <1>4, <1>5 DEF Request

LEMMA SavingTypeInv ==
  ASSUME TypeInv, NEW w \in Worker,
         \/ ClearBadges(w) \/ AddBadge(w) \/ BadgesSet(w)
         \/ SavePath(w) \/ Publish(w) \/ Enqueue(w) \/ SaveRevoked(w)
  PROVE  TypeInv'
  <1>a. NoEdit \in Edit
    BY ConstantsOK DEF NoEdit, Edit, Constructed, Object, Path
  <1>b. edit \in [Worker -> Edit] /\ edit[w] \in Edit
    BY DEF TypeInv, TypeOK
  <1>1. CASE ClearBadges(w)
    BY <1>1 DEF ClearBadges, WorkerOK, TypeInv, TypeOK, Label, Goto
  <1>2. CASE AddBadge(w)
    <2>1. PICK b \in edit[w].todo :
            /\ members' = [members EXCEPT ![edit[w].lp] = @ \cup {b}]
            /\ everMembers' = [everMembers EXCEPT ![edit[w].lp] = @ \cup {b}]
            /\ edit' = [edit EXCEPT ![w].todo = @ \ {b}]
            /\ excused' = excused \cup ({edit[w].lp} \X Recipient)
      BY <1>2 DEF AddBadge
    <2>2. b \in Badge
      BY <1>b DEF Edit
    <2>3. edit' \in [Worker -> Edit] /\ \A v \in Worker : edit'[v].lp = edit[v].lp
      BY <1>b, <2>1 DEF Edit
    <2>4. edit[w].lp \in LP
      BY <1>2 DEF AddBadge, WorkerOK, TypeInv
    <2>5. UNCHANGED <<pc, issue, target, assertion>>
      BY <1>2 DEF AddBadge
    <2>6. \A v \in Worker : WorkerOK(v)'
      BY <2>3, <2>5 DEF WorkerOK, TypeInv
    <2> QED
      BY <1>2, <2>1, <2>2, <2>3, <2>4, <2>6 DEF AddBadge, TypeInv, TypeOK
  <1>3. CASE BadgesSet(w)
    BY <1>3 DEF BadgesSet, WorkerOK, TypeInv, TypeOK, Label, Goto
  <1>4. CASE SavePath(w)
    <2>1. edit[w].obj.row \in Path /\ edit[w].obj.row.required \in Nat
      BY <1>b DEF Edit, Object, Path
    <2>2. edit[w].lp \in LP
      BY <1>4 DEF SavePath, WorkerOK, TypeInv
    <2>3. /\ path' \in [LP -> Path]
          /\ everRequired' \in [LP -> SUBSET Nat]
      BY <1>4, <2>1 DEF SavePath, TypeInv, TypeOK
    <2>4. excused' \subseteq LP \X Recipient
      BY <1>4, <2>2 DEF SavePath, TypeInv, TypeOK
    <2>5. pc' = [pc EXCEPT ![w] = "publish"]
      BY <1>4 DEF SavePath, Goto
    <2>6. pc[w] = "save" /\ UNCHANGED <<edit, issue, target, assertion>>
      BY <1>4 DEF SavePath
    <2>7. \A v \in Worker : WorkerOK(v)'
      BY <2>5, <2>6 DEF WorkerOK, TypeInv, TypeOK
    <2> QED
      BY <1>4, <2>3, <2>4, <2>5, <2>7 DEF SavePath, TypeInv, TypeOK, Label
  <1>5. CASE Enqueue(w)
    BY <1>5, <1>a DEF Enqueue, WorkerOK, TypeInv, TypeOK, Label, Goto
  <1>6. CASE SaveRevoked(w)
    <2> DEFINE i == target[w]
    <2>1. i \in DOMAIN assertion
      BY <1>6 DEF SaveRevoked, WorkerOK, TypeInv
    <2>2. assertion[i] \in Assertion /\ assertion \in Seq(Assertion)
      BY <2>1 DEF TypeInv, TypeOK
    <2>3. assertion' = [assertion EXCEPT ![i].revoked = TRUE]
      BY <1>6 DEF SaveRevoked
    <2>4. [assertion[i] EXCEPT !.revoked = TRUE] \in Assertion
      BY <2>2 DEF Assertion
    <2>5. /\ assertion' \in Seq(Assertion)
          /\ DOMAIN assertion' = DOMAIN assertion
      BY <2>1, <2>2, <2>3, <2>4
    <2>6. excused' \subseteq LP \X Recipient
      BY <1>6, <2>2 DEF SaveRevoked, Assertion, TypeInv, TypeOK
    <2> QED
      BY <1>6, <2>5, <2>6 DEF SaveRevoked, WorkerOK, TypeInv, TypeOK, Label, Goto
  <1>7. CASE Publish(w)
    <2>1. edit[w].obj \in Object /\ edit[w].lp \in LP
      BY <1>b, <1>7 DEF Publish, Edit, WorkerOK, TypeInv
    <2>2. cache' \in [LP -> Object]
      BY <1>7, <2>1 DEF Publish, TypeInv, TypeOK
    <2>3. /\ edit' \in [Worker -> Edit]
          /\ pc' \in [Worker -> Label]
          /\ \A v \in Worker : v # w => pc'[v] = pc[v] /\ edit'[v] = edit[v]
          /\ \/ pc'[w] = "idle"
             \/ pc'[w] = "enqueue" /\ edit'[w] = edit[w]
      BY <1>7, <1>a DEF Publish, Goto, TypeInv, TypeOK, Label
    <2>4. pc[w] = "publish" /\ UNCHANGED <<issue, target, assertion>>
      BY <1>7 DEF Publish
    <2>5. \A v \in Worker : WorkerOK(v)'
      BY <2>3, <2>4 DEF WorkerOK, TypeInv
    <2> QED
      BY <1>7, <2>2, <2>3, <2>5 DEF Publish, TypeInv, TypeOK
  <1> QED
    BY <1>1, <1>2, <1>3, <1>4, <1>5, <1>6, <1>7

LEMMA NextTypeInv == TypeInv /\ [Next]_vars => TypeInv'
  <1> SUFFICES ASSUME TypeInv, [Next]_vars PROVE TypeInv'
    OBVIOUS
  <1>1. CASE UNCHANGED vars
    BY <1>1 DEF vars, TypeInv, TypeOK, WorkerOK
  <1>2. ASSUME NEW w \in Worker, Work(w) \/ TakeTask(w) \/ Request(w) \/ Abort(w)
        PROVE  TypeInv'
    BY <1>2, IssuingTypeInv, RequestTypeInv, SavingTypeInv DEF Work
  <1> QED
    BY <1>1, <1>2 DEF Next, Rest

\* Every reachable state is well typed, and every worker holds what its next
\* statement needs.
THEOREM TypeCorrect == Spec => []TypeOK
  <1>1. TypeInv => TypeOK
    BY DEF TypeInv
  <1> QED
    BY InitTypeInv, NextTypeInv, <1>1, PTL DEF Spec

-----------------------------------------------------------------------------
(* Micro degrees are earned.                                               *)

\* Rows are never removed from the history: what has been collected and what
\* has been required stays on record, and an assertion keeps its badge, its
\* recipient and its origin.
Grows ==
    /\ \A l \in LP : /\ everMembers[l] \subseteq everMembers'[l]
                     /\ everRequired[l] \subseteq everRequired'[l]
    /\ \A i \in DOMAIN assertion :
         /\ i \in DOMAIN assertion'
         /\ assertion'[i].badge = assertion[i].badge
         /\ assertion'[i].rcpt = assertion[i].rcpt
         /\ assertion'[i].via = assertion[i].via

LEMMA StepGrows ==
  ASSUME TypeInv, [Next]_vars
  PROVE  Grows
  <1>a. /\ assertion \in Seq(Assertion)
        /\ everMembers \in [LP -> SUBSET Badge]
        /\ everRequired \in [LP -> SUBSET Nat]
    BY DEF TypeInv, TypeOK
  <1>1. CASE UNCHANGED <<assertion, everMembers, everRequired>>
    BY <1>1 DEF Grows
  <1>2. ASSUME NEW w \in Worker, Insert(w) PROVE Grows
    BY <1>2, <1>a DEF Insert, Grows
  <1>3. ASSUME NEW w \in Worker, AddBadge(w) PROVE Grows
    <2>1. PICK b \in edit[w].todo :
            everMembers' = [everMembers EXCEPT ![edit[w].lp] = @ \cup {b}]
      BY <1>3 DEF AddBadge
    <2>2. UNCHANGED <<assertion, everRequired>>
      BY <1>3 DEF AddBadge
    <2> QED
      BY <2>1, <2>2, <1>a DEF Grows
  <1>4. ASSUME NEW w \in Worker, SavePath(w) PROVE Grows
    <2>1. everRequired' = [everRequired EXCEPT
                             ![edit[w].lp] = @ \cup {edit[w].obj.row.required}]
      BY <1>4 DEF SavePath
    <2>2. UNCHANGED <<assertion, everMembers>>
      BY <1>4 DEF SavePath
    <2> QED
      BY <2>1, <2>2, <1>a DEF Grows
  <1>5. ASSUME NEW w \in Worker, SaveRevoked(w) PROVE Grows
    <2>1. assertion' = [assertion EXCEPT ![target[w]].revoked = TRUE]
      BY <1>5 DEF SaveRevoked
    <2>2. UNCHANGED <<everMembers, everRequired>>
      BY <1>5 DEF SaveRevoked
    <2>3. \A i \in DOMAIN assertion : assertion[i] \in Assertion
      BY <1>a
    <2> QED
      BY <2>1, <2>2, <2>3, <1>a DEF Grows, Assertion
  <1>6. ASSUME NEW w \in Worker,
               Work(w) \/ TakeTask(w) \/ Request(w) \/ Abort(w)
        PROVE  Grows
    <2>1. CASE TakeTask(w)
      BY <2>1, <1>1 DEF TakeTask, StartTask
    <2>2. CASE Request(w)
      BY <2>2, <1>1 DEF Request, StartAward, StartEdit, StartArchive, StartRevoke
    <2>3. CASE Abort(w)
      BY <2>3, <1>1 DEF Abort
    <2>4. CASE Work(w)
      <3>1. CASE \/ Notify(w) \/ ListPaths(w) \/ VisitPath(w) \/ CheckHeld(w)
                 \/ OweDegree(w) \/ HasDegree(w) \/ Return(w) \/ Finish(w)
                 \/ VisitUser(w) \/ EndTask(w)
        BY <3>1, <1>1 DEF Notify, ListPaths, VisitPath, CheckHeld, OweDegree,
                          HasDegree, Return, Finish, VisitUser, EndTask
      <3>2. CASE ClearBadges(w) \/ BadgesSet(w) \/ Publish(w) \/ Enqueue(w)
        BY <3>2, <1>1 DEF ClearBadges, BadgesSet, Publish, Enqueue
      <3> QED
        BY <2>4, <3>1, <3>2, <1>2, <1>3, <1>4, <1>5 DEF Work
    <2> QED
      BY <1>6, <2>1, <2>2, <2>3, <2>4
  <1> QED
    BY <1>1, <1>6 DEF Next, Rest, vars

\* Earned(l, r) in the state after the step, for l and r of the state before.
EarnedAfter(l, r) ==
    \E n \in everRequired'[l] :
       Cardinality({b \in everMembers'[l] :
                      \E i \in DOMAIN assertion' : /\ assertion'[i].badge = b
                                                  /\ assertion'[i].rcpt = r}) >= n

\* Both modules extend FiniteSets; the instance has a name of its own for it.
LEMMA LedgerCardinality == \A S : Ledger!Cardinality(S) = Cardinality(S)
  BY DEF Ledger!Cardinality, Cardinality

LEMMA EarnedGrows ==
  ASSUME TypeInv, TypeInv', Grows, NEW l \in LP, NEW r, Ledger!Earned(l, r)
  PROVE  EarnedAfter(l, r)
  <1>1. PICK n \in everRequired[l] : Cardinality(Ledger!Collected(l, r)) >= n
    BY LedgerCardinality DEF Ledger!Earned
  <1>2. n \in everRequired'[l] /\ n \in Nat
    BY DEF Grows, TypeInv, TypeOK
  <1>3. Ledger!Collected(l, r) \subseteq Ledger!Collected(l, r)'
    BY DEF Ledger!Collected, Grows
  <1>4. Ledger!Collected(l, r)' \subseteq Badge
    BY DEF Ledger!Collected, TypeInv, TypeOK
  <1>5. IsFiniteSet(Ledger!Collected(l, r)')
    BY <1>4, ConstantsOK, FS_Subset
  <1>6. /\ Cardinality(Ledger!Collected(l, r)) <= Cardinality(Ledger!Collected(l, r)')
        /\ Cardinality(Ledger!Collected(l, r)) \in Nat
        /\ Cardinality(Ledger!Collected(l, r)') \in Nat
    BY <1>3, <1>5, FS_Subset, FS_CardinalityType
  <1>7. Cardinality(Ledger!Collected(l, r)') >= n
    BY <1>1, <1>2, <1>6
  <1> QED
    BY <1>2, <1>7 DEF EarnedAfter, Ledger!Collected

\* The check of user_has_completed, made with a set of badges that the path
\* has had and a count that it has had, is passed only by those who earned it.
LEMMA CompletedEarned ==
  ASSUME TypeInv, NEW l \in LP, NEW r \in Recipient,
         NEW S, S \subseteq everMembers[l],
         NEW n \in everRequired[l], HasCompleted(S, n, r)
  PROVE  Ledger!Earned(l, r)
  <1> DEFINE C == {b \in S : Live(b, r) # {}}
  <1>1. C \subseteq Ledger!Collected(l, r)
    BY DEF Ledger!Collected, Live
  <1>2. Ledger!Collected(l, r) \subseteq Badge
    BY DEF Ledger!Collected, TypeInv, TypeOK
  <1>3. IsFiniteSet(Ledger!Collected(l, r))
    BY <1>2, ConstantsOK, FS_Subset
  <1>4. /\ Cardinality(C) <= Cardinality(Ledger!Collected(l, r))
        /\ Cardinality(C) \in Nat
        /\ Cardinality(Ledger!Collected(l, r)) \in Nat
    BY <1>1, <1>3, FS_Subset, FS_CardinalityType
  <1>5. n \in Nat /\ Cardinality(C) >= n
    BY DEF HasCompleted, TypeInv, TypeOK
  <1>6. Cardinality(Ledger!Collected(l, r)) >= n
    BY <1>4, <1>5
  <1> QED
    BY <1>6, LedgerCardinality DEF Ledger!Earned

LEMMA FrameKept ==
  ASSUME Grows, NEW frame \in Frame, FrameOK(frame)
  PROVE  FrameOK(frame)'
  BY DEF Grows, FrameOK, Frame

\* A worker whose local state does not change keeps its part of the invariant.
LEMMA WorkerKept ==
  ASSUME TypeInv, TypeInv', Grows, NEW v \in Worker,
         TermsOK(v), CheckedEarned(v),
         issue'[v] = issue[v], pc'[v] = pc[v]
  PROVE  TermsOK(v)' /\ CheckedEarned(v)'
  <1>1. /\ issue[v] \in Issue
        /\ issue[v].calls \in Seq(Frame)
        /\ issue[v].task \in Frame
    BY DEF TypeInv, TypeOK, Issue
  <1>2. \A k \in DOMAIN issue[v].calls : issue[v].calls[k] \in Frame
    BY <1>1
  <1>3. \A k \in DOMAIN issue[v].calls : FrameOK(issue[v].calls[k])'
    BY <1>2, FrameKept DEF TermsOK
  <1>4. FrameOK(issue[v].task)'
    BY <1>1, FrameKept DEF TermsOK
  <1>5. TermsOK(v)'
    BY <1>3, <1>4 DEF TermsOK, FrameOK, Grows, TypeInv, WorkerOK
  <1>6. ASSUME pc[v] = "degree" \/ (pc[v] = "insert" /\ issue[v].via # None)
        PROVE  Ledger!Earned(issue[v].via, issue[v].rcpt)'
    <2>1. issue[v].via \in LP
      BY <1>1, <1>6 DEF Issue, TypeInv, WorkerOK
    <2>2. Ledger!Earned(issue[v].via, issue[v].rcpt)
      BY <1>6 DEF CheckedEarned
    <2>3. EarnedAfter(issue[v].via, issue[v].rcpt)
      BY <2>1, <2>2, EarnedGrows
    <2>4. issue'[v].via = issue[v].via /\ issue'[v].rcpt = issue[v].rcpt
      OBVIOUS
    <2> QED
      BY <2>3, <2>4, LedgerCardinality
      DEF Ledger!Earned, Ledger!Collected, EarnedAfter
  <1> QED
    BY <1>5, <1>6 DEF CheckedEarned

\* The part of the invariant about the database rows.
RowsOnRecord ==
    \A l \in LP : /\ members[l] \subseteq everMembers[l]
                 /\ path[l].required \in everRequired[l]

LEMMA RowsStep ==
  ASSUME TypeInv, RowsOnRecord, [Next]_vars
  PROVE  RowsOnRecord'
  <1>a. /\ members \in [LP -> SUBSET Badge] /\ everMembers \in [LP -> SUBSET Badge]
        /\ path \in [LP -> Path] /\ everRequired \in [LP -> SUBSET Nat]
    BY DEF TypeInv, TypeOK
  <1>1. CASE UNCHANGED <<path, members, everMembers, everRequired>>
    BY <1>1 DEF RowsOnRecord
  <1>2. ASSUME NEW w \in Worker, ClearBadges(w) PROVE RowsOnRecord'
    <2>1. /\ members' = [members EXCEPT ![edit[w].lp] = {}]
          /\ UNCHANGED <<path, everMembers, everRequired>>
      BY <1>2 DEF ClearBadges
    <2> QED
      BY <1>a, <2>1 DEF RowsOnRecord
  <1>3. ASSUME NEW w \in Worker, AddBadge(w) PROVE RowsOnRecord'
    <2>1. PICK b \in edit[w].todo :
            /\ members' = [members EXCEPT ![edit[w].lp] = @ \cup {b}]
            /\ everMembers' = [everMembers EXCEPT ![edit[w].lp] = @ \cup {b}]
      BY <1>3 DEF AddBadge
    <2>2. UNCHANGED <<path, everRequired>>
      BY <1>3 DEF AddBadge
    <2> QED
      BY <1>a, <2>1, <2>2 DEF RowsOnRecord
  <1>4. ASSUME NEW w \in Worker, SavePath(w) PROVE RowsOnRecord'
    <2>1. /\ path' = [path EXCEPT ![edit[w].lp] = edit[w].obj.row]
          /\ everRequired' = [everRequired EXCEPT
                                ![edit[w].lp] = @ \cup {edit[w].obj.row.required}]
          /\ UNCHANGED <<members, everMembers>>
      BY <1>4 DEF SavePath
    <2> QED
      BY <1>a, <2>1 DEF RowsOnRecord
  <1>5. ASSUME NEW w \in Worker,
               Work(w) \/ TakeTask(w) \/ Request(w) \/ Abort(w)
        PROVE  RowsOnRecord'
    <2>1. CASE TakeTask(w)
      BY <2>1, <1>1 DEF TakeTask, StartTask
    <2>2. CASE Request(w)
      BY <2>2, <1>1 DEF Request, StartAward, StartEdit, StartArchive, StartRevoke
    <2>3. CASE Abort(w)
      BY <2>3, <1>1 DEF Abort
    <2>4. CASE Work(w)
      <3>1. CASE \/ Insert(w) \/ Notify(w) \/ ListPaths(w) \/ VisitPath(w)
                 \/ CheckHeld(w) \/ OweDegree(w) \/ HasDegree(w) \/ Return(w)
                 \/ Finish(w) \/ VisitUser(w) \/ EndTask(w)
        BY <3>1, <1>1 DEF Insert, Notify, ListPaths, VisitPath, CheckHeld,
                          OweDegree, HasDegree, Return, Finish, VisitUser, EndTask
      <3>2. CASE BadgesSet(w) \/ Publish(w) \/ Enqueue(w) \/ SaveRevoked(w)
        BY <3>2, <1>1 DEF BadgesSet, Publish, Enqueue, SaveRevoked
      <3> QED
        BY <2>4, <3>1, <3>2, <1>2, <1>3, <1>4 DEF Work
    <2> QED
      BY <1>5, <2>1, <2>2, <2>3, <2>4
  <1> QED
    BY <1>1, <1>5 DEF Next, Rest, vars

\* A frame held before the step conforms to the history after it.
Recorded(frame) == \A f \in frame : f[2] \in everRequired'[f[1]]

LEMMA FrameRecorded ==
  ASSUME Grows, NEW frame \in Frame, FrameOK(frame)
  PROVE  Recorded(frame)
  BY DEF Grows, FrameOK, Frame, Recorded

\* The worker that takes the step keeps its own part of the invariant.
LEMMA ActorStep ==
  ASSUME TypeInv, TypeInv', Grows, EarnedInv, NEW w \in Worker,
         Work(w) \/ TakeTask(w) \/ Request(w) \/ Abort(w)
  PROVE  TermsOK(w)' /\ CheckedEarned(w)'
  <1>a. /\ issue \in [Worker -> Issue] /\ issue[w] \in Issue
        /\ issue[w].calls \in Seq(Frame) /\ issue[w].task \in Frame
        /\ pc \in [Worker -> Label]
    BY DEF TypeInv, TypeOK, Issue
  <1>b. TermsOK(w) /\ CheckedEarned(w)
    BY DEF EarnedInv
  <1>c. \A k \in DOMAIN issue[w].calls :
          issue[w].calls[k] \in Frame /\ Recorded(issue[w].calls[k])
    BY <1>a, <1>b, FrameRecorded DEF TermsOK
  <1>d. Recorded(issue[w].task)
    BY <1>a, <1>b, FrameRecorded DEF TermsOK
  <1>e. ASSUME issue'[w] = NoIssue, pc'[w] \notin {"held", "degree"}
        PROVE  TermsOK(w)' /\ CheckedEarned(w)'
    BY <1>e DEF TermsOK, CheckedEarned, FrameOK, Recorded, NoIssue
  <1>f. ASSUME issue'[w] = issue[w], pc'[w] \notin {"held", "degree", "insert"}
        PROVE  TermsOK(w)' /\ CheckedEarned(w)'
    BY <1>c, <1>d, <1>f DEF TermsOK, CheckedEarned, FrameOK, Recorded
  <1>1. CASE Insert(w) \/ Notify(w) \/ HasDegree(w)
    BY <1>1, <1>a, <1>f DEF Insert, Notify, HasDegree, Goto
  <1>2. CASE Abort(w) \/ EndTask(w)
    BY <1>2, <1>a, <1>e DEF Abort, EndTask, Goto
  <1>3. CASE ListPaths(w)
    <2> DEFINE found == {l \in LP : IsActive(l) /\ issue[w].badge \in members[l]}
               frame == {<<l, path[l].required>> : l \in found}
    <2>1. \A f \in frame : f[2] \in everRequired'[f[1]]
      BY DEF EarnedInv, Grows
    <2> HIDE DEF frame
    <2>2. issue' = [issue EXCEPT ![w].calls = <<frame>> \o issue[w].calls]
      BY <1>3 DEF ListPaths, frame
    <2>3. /\ issue'[w].calls = <<frame>> \o issue[w].calls
          /\ issue'[w].task = issue[w].task
      BY <1>a, <2>2 DEF Issue
    <2>4. \A k \in DOMAIN issue'[w].calls :
            \/ issue'[w].calls[k] = frame
            \/ \E j \in DOMAIN issue[w].calls : issue'[w].calls[k] = issue[w].calls[j]
      BY <1>a, <2>3
    <2>5. \A k \in DOMAIN issue'[w].calls : Recorded(issue'[w].calls[k])
      BY <1>c, <2>1, <2>4 DEF Recorded
    <2>6. pc'[w] = "next"
      BY <1>3, <1>a DEF ListPaths, Goto
    <2> QED
      BY <1>d, <2>3, <2>5, <2>6 DEF TermsOK, CheckedEarned, FrameOK, Recorded
  <1>4. CASE VisitPath(w)
    <2>1. PICK f \in Head(issue[w].calls) :
            issue' = [issue EXCEPT
                        ![w].calls = <<Head(@) \ {f}>> \o Tail(@),
                        ![w].via = f[1],
                        ![w].need = f[2],
                        ![w].seen = members[f[1]]]
      BY <1>4 DEF VisitPath
    <2>2. issue[w].calls # <<>>
      BY <1>4 DEF VisitPath
    <2>3. 1 \in DOMAIN issue[w].calls /\ Head(issue[w].calls) = issue[w].calls[1]
      BY <1>a, <2>2
    <2>4. f[1] \in LP /\ f[2] \in everRequired'[f[1]]
      BY <1>c, <2>3 DEF Recorded, Frame
    <2> DEFINE rest == <<Head(issue[w].calls) \ {f}>> \o Tail(issue[w].calls)
    <2>5. \A k \in DOMAIN rest :
            \E j \in DOMAIN issue[w].calls : rest[k] \subseteq issue[w].calls[j]
      BY <1>a, <2>2, <2>3
    <2> HIDE DEF rest
    <2>6. /\ issue'[w].calls = rest /\ issue'[w].task = issue[w].task
          /\ issue'[w].via = f[1] /\ issue'[w].need = f[2]
          /\ issue'[w].seen = members[f[1]]
      BY <1>a, <2>1 DEF Issue, rest
    <2>7. \A k \in DOMAIN rest : Recorded(rest[k])
      BY <1>c, <2>5 DEF Recorded
    <2>8. members[f[1]] \subseteq everMembers'[f[1]]
      BY <2>4 DEF EarnedInv, Grows
    <2>9. pc'[w] = "held"
      BY <1>4, <1>a DEF VisitPath, Goto
    <2> QED
      BY <1>d, <2>4, <2>6, <2>7, <2>8, <2>9 DEF TermsOK, CheckedEarned, FrameOK, Recorded
  <1>5. CASE CheckHeld(w)
    <2>1. CASE HasCompleted(issue[w].seen, issue[w].need, issue[w].rcpt)
      <3>1. pc[w] = "held" /\ pc'[w] = "degree" /\ issue' = issue
        BY <1>5, <1>a, <2>1 DEF CheckHeld, Goto
      <3>2. issue[w].via \in LP /\ issue[w].rcpt \in Recipient
        BY <3>1 DEF TypeInv, WorkerOK
      <3>3. Ledger!Earned(issue[w].via, issue[w].rcpt)
        BY <1>b, <2>1, <3>1, <3>2, CompletedEarned DEF TermsOK
      <3>4. UNCHANGED <<assertion, everMembers, everRequired>>
        BY <1>5 DEF CheckHeld
      <3>5. Ledger!Earned(issue[w].via, issue[w].rcpt)'
        BY <3>1, <3>3, <3>4 DEF Ledger!Earned, Ledger!Collected
      <3> QED
        BY <1>c, <1>d, <3>1, <3>5 DEF TermsOK, CheckedEarned, FrameOK, Recorded
    <2>2. CASE ~HasCompleted(issue[w].seen, issue[w].need, issue[w].rcpt)
      BY <1>5, <1>a, <1>f, <2>2 DEF CheckHeld, Goto
    <2> QED
      BY <2>1, <2>2
  <1>6. CASE OweDegree(w)
    <2>1. /\ issue' = [issue EXCEPT ![w].badge = Part[issue[w].via]]
          /\ UNCHANGED <<assertion, everMembers, everRequired>>
          /\ pc[w] = "degree"
      BY <1>6 DEF OweDegree
    <2>2. /\ issue'[w].via = issue[w].via /\ issue'[w].rcpt = issue[w].rcpt
          /\ issue'[w].calls = issue[w].calls /\ issue'[w].task = issue[w].task
      BY <1>a, <2>1 DEF Issue
    <2>3. pc'[w] = "insert"
      BY <1>6, <1>a DEF OweDegree, Goto
    <2>4. Ledger!Earned(issue[w].via, issue[w].rcpt)
      BY <1>b, <2>1 DEF CheckedEarned
    <2>5. Ledger!Earned(issue[w].via, issue[w].rcpt)'
      BY <2>1, <2>2, <2>4 DEF Ledger!Earned, Ledger!Collected
    <2> QED
      BY <1>c, <1>d, <2>2, <2>3, <2>5 DEF TermsOK, CheckedEarned, FrameOK, Recorded
  <1>7. CASE Return(w)
    <2>1. issue' = [issue EXCEPT ![w].calls = Tail(issue[w].calls)]
      BY <1>7 DEF Return
    <2>2. /\ issue'[w].calls = Tail(issue[w].calls)
          /\ issue'[w].task = issue[w].task
      BY <1>a, <2>1 DEF Issue
    <2>3. issue[w].calls # <<>>
      BY <1>7, <1>a DEF Return
    <2>4. \A k \in DOMAIN issue'[w].calls :
            \E j \in DOMAIN issue[w].calls : issue'[w].calls[k] = issue[w].calls[j]
      BY <1>a, <2>2, <2>3
    <2>5. pc'[w] = "next"
      BY <1>7 DEF Return
    <2> QED
      BY <1>c, <1>d, <2>2, <2>4, <2>5 DEF TermsOK, CheckedEarned, FrameOK, Recorded
  <1>8. CASE Finish(w)
    <2>1. CASE issue[w].task = {}
      BY <1>8, <1>a, <1>e, <2>1 DEF Finish, Goto
    <2>2. CASE issue[w].task # {}
      <3>1. /\ issue'[w] = [NoIssue EXCEPT !.task = issue[w].task,
                                           !.audience = issue[w].audience]
            /\ pc'[w] = "users"
        BY <1>8, <1>a, <2>2 DEF Finish, Goto
      <3>2. issue'[w].calls = <<>> /\ issue'[w].task = issue[w].task
        BY <3>1 DEF NoIssue
      <3> QED
        BY <1>d, <3>1, <3>2 DEF TermsOK, CheckedEarned, FrameOK, Recorded
    <2> QED
      BY <2>1, <2>2
  <1>9. CASE VisitUser(w)
    <2>1. PICK r \in issue[w].audience :
            issue' = [issue EXCEPT ![w].rcpt = r,
                                   ![w].audience = @ \ {r},
                                   ![w].calls = <<issue[w].task>>]
      BY <1>9 DEF VisitUser
    <2>2. issue'[w].calls = <<issue[w].task>> /\ issue'[w].task = issue[w].task
      BY <1>a, <2>1 DEF Issue
    <2>3. pc'[w] = "next"
      BY <1>9, <1>a DEF VisitUser, Goto
    <2> QED
      BY <1>d, <2>2, <2>3 DEF TermsOK, CheckedEarned, FrameOK, Recorded
  <1>10. CASE \/ ClearBadges(w) \/ AddBadge(w) \/ BadgesSet(w)
              \/ SavePath(w) \/ Publish(w) \/ Enqueue(w) \/ SaveRevoked(w)
    BY <1>10, <1>a, <1>f
    DEF ClearBadges, AddBadge, BadgesSet, SavePath, Publish, Enqueue, SaveRevoked, Goto
  <1>11. CASE TakeTask(w)
    <2>1. PICK l \in LP : StartTask(w, l)
      BY <1>11 DEF TakeTask
    <2>2. /\ issue' = [issue EXCEPT ![w].task = {<<l, path[l].required>>},
                                    ![w].audience = Verified]
          /\ pc'[w] = "users"
      BY <2>1, <1>a DEF StartTask, Goto
    <2>3. /\ issue'[w].task = {<<l, path[l].required>>}
          /\ issue'[w].calls = issue[w].calls
      BY <1>a, <2>2 DEF Issue
    <2>4. path[l].required \in everRequired'[l]
      BY DEF EarnedInv, Grows
    <2>5. Recorded(issue'[w].task)
      BY <2>3, <2>4 DEF Recorded
    <2> QED
      BY <1>c, <2>2, <2>3, <2>5 DEF TermsOK, CheckedEarned, FrameOK, Recorded
  <1>12. CASE Request(w)
    <2>1. ASSUME NEW b \in Awardable, NEW r \in Recipient, StartAward(w, b, r)
          PROVE  TermsOK(w)' /\ CheckedEarned(w)'
      <3>1. /\ issue[w] = NoIssue
            /\ issue' = [issue EXCEPT ![w].badge = b, ![w].rcpt = r]
            /\ pc'[w] = "insert"
        BY <2>1, <1>a DEF StartAward, Arrive, Goto, TypeInv, WorkerOK
      <3>2. /\ issue'[w].calls = <<>> /\ issue'[w].task = {}
            /\ issue'[w].via = None
        BY <1>a, <3>1 DEF NoIssue
      <3>3. \A k \in DOMAIN issue'[w].calls : FALSE
        BY <3>2
      <3> QED
        BY <3>1, <3>2, <3>3 DEF TermsOK, CheckedEarned, FrameOK
    <2>2. ASSUME \/ \E l \in LP, f \in Forms : StartEdit(w, l, f)
                 \/ \E l \in LP : StartArchive(w, l)
                 \/ \E i \in DOMAIN assertion : StartRevoke(w, i)
          PROVE  TermsOK(w)' /\ CheckedEarned(w)'
      BY <2>2, <1>a, <1>f DEF StartEdit, StartArchive, StartRevoke, Goto
    <2> QED
      BY <1>12, <2>1, <2>2 DEF Request
  <1> QED
    BY <1>1, <1>2, <1>3, <1>4, <1>5, <1>6, <1>7, <1>8, <1>9, <1>10, <1>11, <1>12
    DEF Work

\* A step of one worker leaves the local state of the others alone.
LEMMA OthersKept ==
  ASSUME TypeInv, NEW w \in Worker,
         Work(w) \/ TakeTask(w) \/ Request(w) \/ Abort(w),
         NEW v \in Worker, v # w
  PROVE  issue'[v] = issue[v] /\ pc'[v] = pc[v]
  <1>a. issue \in [Worker -> Issue] /\ pc \in [Worker -> Label]
    BY DEF TypeInv, TypeOK
  <1>1. CASE TakeTask(w)
    BY <1>1, <1>a DEF TakeTask, StartTask, Goto
  <1>2. CASE Request(w)
    BY <1>2, <1>a DEF Request, StartAward, StartEdit, StartArchive, StartRevoke, Goto
  <1>3. CASE Abort(w)
    BY <1>3, <1>a DEF Abort, Goto
  <1>4. CASE Work(w)
    <2>1. CASE \/ Insert(w) \/ Notify(w) \/ ListPaths(w) \/ VisitPath(w)
               \/ CheckHeld(w) \/ OweDegree(w) \/ HasDegree(w)
      BY <2>1, <1>a DEF Insert, Notify, ListPaths, VisitPath, CheckHeld,
                        OweDegree, HasDegree, Goto
    <2>2. CASE Return(w) \/ Finish(w) \/ VisitUser(w) \/ EndTask(w)
      BY <2>2, <1>a DEF Return, Finish, VisitUser, EndTask, Goto
    <2>3. CASE \/ ClearBadges(w) \/ AddBadge(w) \/ BadgesSet(w)
               \/ SavePath(w) \/ Publish(w) \/ Enqueue(w) \/ SaveRevoked(w)
      BY <2>3, <1>a DEF ClearBadges, AddBadge, BadgesSet, SavePath, Publish, Enqueue,
                        SaveRevoked, Goto
    <2> QED
      BY <1>4, <2>1, <2>2, <2>3 DEF Work
  <1> QED
    BY <1>1, <1>2, <1>3, <1>4

\* Only Insert adds an assertion, and what it adds is in the worker's state.
LEMMA NewAssertion ==
  ASSUME TypeInv, [Next]_vars,
         NEW i \in DOMAIN assertion', i \notin DOMAIN assertion
  PROVE  \E w \in Worker : /\ Insert(w)
                           /\ assertion'[i].via = issue[w].via
                           /\ assertion'[i].rcpt = issue[w].rcpt
  <1>a. assertion \in Seq(Assertion)
    BY DEF TypeInv, TypeOK
  <1>1. ASSUME DOMAIN assertion' = DOMAIN assertion PROVE FALSE
    BY <1>1
  <1>2. ~ UNCHANGED vars
    BY <1>1 DEF vars
  <1>3. PICK w \in Worker : Work(w) \/ TakeTask(w) \/ Request(w) \/ Abort(w)
    BY <1>2 DEF Next, Rest
  <1>4. ~ TakeTask(w) /\ ~ Request(w) /\ ~ Abort(w)
    BY <1>1 DEF TakeTask, StartTask, Request, StartAward, StartEdit,
                StartArchive, StartRevoke, Abort
  <1>5. ~ SaveRevoked(w)
    BY <1>1, <1>a DEF SaveRevoked
  <1>6. Insert(w)
    BY <1>1, <1>3, <1>4, <1>5
    DEF Work, Notify, ListPaths, VisitPath, CheckHeld, OweDegree, HasDegree,
        Return, Finish, VisitUser, EndTask, ClearBadges, AddBadge, BadgesSet,
        SavePath, Publish, Enqueue
  <1> DEFINE new == [badge |-> issue[w].badge, rcpt |-> issue[w].rcpt,
                     via |-> issue[w].via, revoked |-> FALSE]
  <1>7. assertion' = Append(assertion, new)
    BY <1>6 DEF Insert
  <1>8. assertion'[i] = new
    BY <1>7, <1>a
  <1> QED
    BY <1>6, <1>8

\* A micro degree that a step adds was earned, and those there are stay so.
LEMMA DegreesStep ==
  ASSUME TypeInv, TypeInv', Grows, EarnedInv, [Next]_vars
  PROVE  DegreesEarned'
  <1>a. assertion \in Seq(Assertion)
    BY DEF TypeInv, TypeOK
  <1>1. ASSUME NEW i \in DOMAIN assertion, assertion'[i].via # None
        PROVE  EarnedAfter(assertion'[i].via, assertion'[i].rcpt)
    <2>1. /\ assertion'[i].via = assertion[i].via
          /\ assertion'[i].rcpt = assertion[i].rcpt
      BY DEF Grows
    <2>2. assertion[i] \in Assertion
      BY <1>a
    <2>3. assertion[i].via \in LP
      BY <1>1, <2>1, <2>2 DEF Assertion
    <2>4. Ledger!Earned(assertion[i].via, assertion[i].rcpt)
      BY <1>1, <2>1 DEF EarnedInv, DegreesEarned
    <2> QED
      BY <2>1, <2>3, <2>4, EarnedGrows
  <1>2. ASSUME NEW i \in DOMAIN assertion', i \notin DOMAIN assertion,
               assertion'[i].via # None
        PROVE  EarnedAfter(assertion'[i].via, assertion'[i].rcpt)
    <2>1. PICK w \in Worker : /\ Insert(w)
                              /\ assertion'[i].via = issue[w].via
                              /\ assertion'[i].rcpt = issue[w].rcpt
      BY <1>2, NewAssertion
    <2>2. pc[w] = "insert" /\ issue[w].via \in LP
      BY <1>2, <2>1 DEF Insert, TypeInv, TypeOK, Issue
    <2>3. Ledger!Earned(issue[w].via, issue[w].rcpt)
      BY <1>2, <2>1, <2>2 DEF EarnedInv, CheckedEarned
    <2> QED
      BY <2>1, <2>2, <2>3, EarnedGrows
  <1>3. \A i \in DOMAIN assertion' :
          assertion'[i].via # None =>
            EarnedAfter(assertion'[i].via, assertion'[i].rcpt)
    BY <1>1, <1>2
  <1> QED
    BY <1>3, LedgerCardinality
    DEF DegreesEarned, Ledger!Earned, Ledger!Collected, EarnedAfter

LEMMA InitEarnedInv == Init => EarnedInv
  <1> SUFFICES ASSUME Init PROVE EarnedInv
    OBVIOUS
  <1>1. \A w \in Worker : issue[w] = NoIssue /\ pc[w] = "idle"
    BY DEF Init
  <1>2. \A k \in DOMAIN <<>> : FALSE
    OBVIOUS
  <1>3. \A w \in Worker : TermsOK(w) /\ CheckedEarned(w)
    BY <1>1, <1>2 DEF TermsOK, CheckedEarned, FrameOK, NoIssue
  <1>4. DegreesEarned
    BY <1>2 DEF Init, DegreesEarned
  <1> QED
    BY <1>3, <1>4, ConstantsOK DEF EarnedInv, Init

LEMMA NextEarnedInv ==
  ASSUME TypeInv, EarnedInv, [Next]_vars
  PROVE  EarnedInv'
  <1>1. TypeInv' /\ Grows
    BY NextTypeInv, StepGrows
  <1>2. RowsOnRecord'
    BY RowsStep DEF EarnedInv, RowsOnRecord
  <1>3. DegreesEarned'
    BY <1>1, DegreesStep
  <1>4. ASSUME NEW v \in Worker PROVE TermsOK(v)' /\ CheckedEarned(v)'
    <2>1. TermsOK(v) /\ CheckedEarned(v)
      BY DEF EarnedInv
    <2>2. CASE UNCHANGED vars
      BY <1>1, <2>1, <2>2, WorkerKept DEF vars
    <2>3. ASSUME NEW w \in Worker,
                 Work(w) \/ TakeTask(w) \/ Request(w) \/ Abort(w)
          PROVE  TermsOK(v)' /\ CheckedEarned(v)'
      <3>1. CASE v = w
        BY <1>1, <2>3, <3>1, ActorStep
      <3>2. CASE v # w
        <4>1. issue'[v] = issue[v] /\ pc'[v] = pc[v]
          BY <2>3, <3>2, OthersKept
        <4> QED
          BY <1>1, <2>1, <4>1, WorkerKept
      <3> QED
        BY <3>1, <3>2
    <2> QED
      BY <2>2, <2>3 DEF Next, Rest
  <1> QED
    BY <1>2, <1>3, <1>4 DEF EarnedInv, RowsOnRecord

\* No interleaving of awards, edits, revocations and activation tasks makes
\* the system issue a micro degree that was not earned.
THEOREM MicroDegreesEarned == Spec => []DegreesEarned
  <1>1. Init => TypeInv /\ EarnedInv
    BY InitTypeInv, InitEarnedInv
  <1>2. TypeInv /\ EarnedInv /\ [Next]_vars => (TypeInv /\ EarnedInv)'
    BY NextTypeInv, NextEarnedInv
  <1>3. TypeInv /\ EarnedInv => DegreesEarned
    BY DEF EarnedInv
  <1> QED
    BY <1>1, <1>2, <1>3, PTL DEF Spec

-----------------------------------------------------------------------------
(* The ledger.                                                             *)

\* A step that leaves the ledger and the history alone, or writes to them as
\* the ledger allows.
LEMMA LedgerWrites ==
  ASSUME TypeInv, EarnedInv, NEW w \in Worker,
         Insert(w) \/ AddBadge(w) \/ SavePath(w) \/ SaveRevoked(w)
  PROVE  [Ledger!Next]_(Ledger!vars)
  <1>a. /\ issue[w] \in Issue /\ edit[w] \in Edit
        /\ assertion \in Seq(Assertion) /\ WorkerOK(w)
    BY DEF TypeInv, TypeOK
  <1>1. CASE Insert(w)
    <2>1. /\ pc[w] = "insert" /\ issue[w].rcpt \in Recipient
          /\ UNCHANGED <<everMembers, everRequired>>
          /\ Ledger!Write(issue[w].badge, issue[w].rcpt, issue[w].via)
      BY <1>1, <1>a DEF Insert, WorkerOK, Ledger!Write
    <2>2. CASE issue[w].via = None
      <3>1. issue[w].badge \in Awardable
        BY <1>a, <2>1, <2>2 DEF WorkerOK
      <3>2. Ledger!Award(issue[w].badge, issue[w].rcpt)
        BY <2>1, <2>2 DEF Ledger!Award
      <3> QED
        BY <2>1, <3>1, <3>2 DEF Ledger!Next
    <2>3. CASE issue[w].via # None
      <3>1. issue[w].via \in LP /\ issue[w].badge = Part[issue[w].via]
        BY <1>a, <2>1, <2>3 DEF Issue, WorkerOK
      <3>2. Ledger!Earned(issue[w].via, issue[w].rcpt)
        BY <2>1, <2>3 DEF EarnedInv, CheckedEarned
      <3>3. Ledger!Grant(issue[w].via, issue[w].rcpt)
        BY <2>1, <3>1, <3>2 DEF Ledger!Grant
      <3> QED
        BY <2>1, <3>1, <3>3 DEF Ledger!Next
    <2> QED
      BY <2>2, <2>3
  <1>2. CASE AddBadge(w)
    <2>1. PICK b \in edit[w].todo :
            everMembers' = [everMembers EXCEPT ![edit[w].lp] = @ \cup {b}]
      BY <1>2 DEF AddBadge
    <2>2. edit[w].lp \in LP /\ b \in Badge
      BY <1>2, <1>a DEF AddBadge, WorkerOK, Edit
    <2>3. Ledger!Include(edit[w].lp, b)
      BY <1>2, <2>1 DEF AddBadge, Ledger!Include
    <2> QED
      BY <2>2, <2>3 DEF Ledger!Next
  <1>3. CASE SavePath(w)
    <2> DEFINE l == edit[w].lp
               n == edit[w].obj.row.required
    <2>1. l \in LP /\ n \in Nat
      BY <1>3, <1>a DEF SavePath, WorkerOK, Edit, Object, Path
    <2>2. /\ everRequired' = [everRequired EXCEPT ![l] = @ \cup {n}]
          /\ UNCHANGED <<assertion, everMembers>>
      BY <1>3 DEF SavePath
    <2>3. n \in everRequired'[l]
      BY <2>1, <2>2 DEF TypeInv, TypeOK
    <2>4. Ledger!Require(l)
      BY <2>1, <2>2, <2>3 DEF Ledger!Require
    <2> QED
      BY <2>1, <2>4 DEF Ledger!Next
  <1>4. CASE SaveRevoked(w)
    <2> DEFINE i == target[w]
    <2>1. i \in DOMAIN assertion
      BY <1>4, <1>a DEF SaveRevoked, WorkerOK
    <2>2. /\ assertion' = [assertion EXCEPT ![i].revoked = TRUE]
          /\ UNCHANGED <<everMembers, everRequired>>
      BY <1>4 DEF SaveRevoked
    <2>3. CASE ~assertion[i].revoked
      BY <2>1, <2>2, <2>3 DEF Ledger!Revoke, Ledger!Next
    <2>4. CASE assertion[i].revoked
      <3>1. assertion[i] \in Assertion
        BY <1>a, <2>1
      <3>2. [assertion[i] EXCEPT !.revoked = TRUE] = assertion[i]
        BY <2>4, <3>1 DEF Assertion
      <3>3. assertion' = assertion
        BY <1>a, <2>1, <2>2, <3>2
      <3> QED
        BY <2>2, <3>3 DEF Ledger!vars
    <2> QED
      BY <2>3, <2>4
  <1> QED
    BY <1>1, <1>2, <1>3, <1>4

LEMMA LedgerStep ==
  ASSUME TypeInv, EarnedInv, [Next]_vars
  PROVE  [Ledger!Next]_(Ledger!vars)
  <1>1. CASE UNCHANGED <<assertion, everMembers, everRequired>>
    BY <1>1 DEF Ledger!vars
  <1>2. ASSUME NEW w \in Worker,
               Work(w) \/ TakeTask(w) \/ Request(w) \/ Abort(w)
        PROVE  [Ledger!Next]_(Ledger!vars)
    <2>1. CASE TakeTask(w)
      BY <2>1, <1>1 DEF TakeTask, StartTask
    <2>2. CASE Request(w)
      BY <2>2, <1>1 DEF Request, StartAward, StartEdit, StartArchive, StartRevoke
    <2>3. CASE Abort(w)
      BY <2>3, <1>1 DEF Abort
    <2>4. CASE Work(w)
      <3>1. CASE \/ Notify(w) \/ ListPaths(w) \/ VisitPath(w) \/ CheckHeld(w)
                 \/ OweDegree(w) \/ HasDegree(w) \/ Return(w) \/ Finish(w)
                 \/ VisitUser(w) \/ EndTask(w)
        BY <3>1, <1>1 DEF Notify, ListPaths, VisitPath, CheckHeld, OweDegree,
                          HasDegree, Return, Finish, VisitUser, EndTask
      <3>2. CASE ClearBadges(w) \/ BadgesSet(w) \/ Publish(w) \/ Enqueue(w)
        BY <3>2, <1>1 DEF ClearBadges, BadgesSet, Publish, Enqueue
      <3> QED
        BY <2>4, <3>1, <3>2, LedgerWrites DEF Work
    <2> QED
      BY <1>2, <2>1, <2>2, <2>3, <2>4
  <1> QED
    BY <1>1, <1>2 DEF Next, Rest, vars

\* The workers together implement the ledger: every assertion is an award by
\* an issuer or a micro degree that was earned when it was written, nothing
\* is removed, and nothing but `revoked' changes.
THEOREM Implementation == Spec => ImplementsLedger
  <1>1. Init => Ledger!Init
    BY DEF Init, Ledger!Init
  <1>2. Init => TypeInv /\ EarnedInv
    BY InitTypeInv, InitEarnedInv
  <1>3. TypeInv /\ EarnedInv /\ [Next]_vars => (TypeInv /\ EarnedInv)'
    BY NextTypeInv, NextEarnedInv
  <1>4. TypeInv /\ EarnedInv /\ [Next]_vars => [Ledger!Next]_(Ledger!vars)
    BY LedgerStep
  <1> QED
    BY <1>1, <1>2, <1>3, <1>4, PTL DEF Spec, ImplementsLedger, Ledger!Spec

-----------------------------------------------------------------------------
(* Duplicate micro degrees.                                                *)

LEMMA CountsFinite ==
  ASSUME TypeInv, NEW b, NEW r
  PROVE  /\ IsFiniteSet(AutoLive(b, r)) /\ IsFiniteSet(Pending(b, r))
         /\ Cardinality(AutoLive(b, r)) \in Nat
         /\ Cardinality(Pending(b, r)) \in Nat
  <1>1. AutoLive(b, r) \subseteq 1..Len(assertion) /\ Len(assertion) \in Nat
    BY DEF AutoLive, Live, TypeInv, TypeOK
  <1>2. IsFiniteSet(1..Len(assertion))
    BY <1>1, FS_Interval
  <1>3. Pending(b, r) \subseteq Worker
    BY DEF Pending
  <1>4. IsFiniteSet(AutoLive(b, r)) /\ IsFiniteSet(Pending(b, r))
    BY <1>1, <1>2, <1>3, ConstantsOK, FS_Subset
  <1> QED
    BY <1>4, FS_CardinalityType

\* Fewer pending and fewer live degrees than before are no more in number.
LEMMA CountsFall ==
  ASSUME TypeInv, NEW b \in Badge, NEW r \in Recipient,
         AutoLive(b, r)' \subseteq AutoLive(b, r),
         Pending(b, r)' \subseteq Pending(b, r),
         CountInv
  PROVE  Cardinality(AutoLive(b, r)') + Cardinality(Pending(b, r)')
           <= Cardinality(Worker)
  <1>1. /\ Cardinality(AutoLive(b, r)') <= Cardinality(AutoLive(b, r))
        /\ Cardinality(Pending(b, r)') <= Cardinality(Pending(b, r))
        /\ IsFiniteSet(AutoLive(b, r)') /\ IsFiniteSet(Pending(b, r)')
    BY CountsFinite, FS_Subset
  <1>2. /\ Cardinality(AutoLive(b, r)') \in Nat
        /\ Cardinality(Pending(b, r)') \in Nat
        /\ Cardinality(AutoLive(b, r)) \in Nat
        /\ Cardinality(Pending(b, r)) \in Nat
        /\ Cardinality(Worker) \in Nat
    BY <1>1, CountsFinite, FS_CardinalityType, ConstantsOK
  <1>3. Cardinality(AutoLive(b, r)) + Cardinality(Pending(b, r))
          <= Cardinality(Worker)
    BY DEF CountInv
  <1> QED
    BY <1>1, <1>2, <1>3

\* Only OweDegree makes a worker pending.
LEMMA PendingFalls ==
  ASSUME TypeInv, NEW w \in Worker,
         Work(w) \/ TakeTask(w) \/ Request(w) \/ Abort(w), ~OweDegree(w),
         NEW b, NEW r
  PROVE  Pending(b, r)' \subseteq Pending(b, r)
  <1>a. issue \in [Worker -> Issue] /\ pc \in [Worker -> Label]
    BY DEF TypeInv, TypeOK
  <1>1. ASSUME pc'[w] = "insert" PROVE issue'[w].via = None
    <2>1. CASE Request(w)
      <3>1. PICK c \in Awardable, s \in Recipient : StartAward(w, c, s)
        BY <1>1, <1>a, <2>1
        DEF Request, StartEdit, StartArchive, StartRevoke, Goto
      <3>2. issue[w] = NoIssue
        BY <3>1 DEF StartAward, Arrive, TypeInv, WorkerOK
      <3> QED
        BY <1>a, <3>1, <3>2 DEF StartAward, NoIssue, Issue
    <2>2. CASE TakeTask(w) \/ Abort(w)
      BY <1>1, <1>a, <2>2 DEF TakeTask, StartTask, Abort, Goto
    <2>3. CASE Work(w)
      <3>1. ~ (Insert(w) \/ Notify(w) \/ ListPaths(w) \/ VisitPath(w))
        BY <1>1, <1>a DEF Insert, Notify, ListPaths, VisitPath, Goto
      <3>2. ~ (CheckHeld(w) \/ HasDegree(w) \/ Return(w) \/ Finish(w))
        BY <1>1, <1>a DEF CheckHeld, HasDegree, Return, Finish, Goto
      <3>3. ~ (VisitUser(w) \/ EndTask(w))
        BY <1>1, <1>a DEF VisitUser, EndTask, Goto
      <3>4. ~ (ClearBadges(w) \/ AddBadge(w) \/ BadgesSet(w))
        BY <1>1, <1>a DEF ClearBadges, AddBadge, BadgesSet, Goto
      <3>5. ~ (SavePath(w) \/ Publish(w) \/ Enqueue(w) \/ SaveRevoked(w))
        BY <1>1, <1>a DEF SavePath, Publish, Enqueue, SaveRevoked, Goto
      <3> QED
        BY <2>3, <3>1, <3>2, <3>3, <3>4, <3>5 DEF Work
    <2> QED
      BY <2>1, <2>2, <2>3
  <1>2. ASSUME NEW v \in Worker, v # w
        PROVE  issue'[v] = issue[v] /\ pc'[v] = pc[v]
    BY <1>2, OthersKept
  <1> QED
    BY <1>1, <1>2 DEF Pending

\* Only Insert makes a degree live.
LEMMA LiveFalls ==
  ASSUME TypeInv, NEW w \in Worker,
         Work(w) \/ TakeTask(w) \/ Request(w) \/ Abort(w), ~Insert(w),
         NEW b, NEW r
  PROVE  AutoLive(b, r)' \subseteq AutoLive(b, r)
  <1>a. assertion \in Seq(Assertion)
    BY DEF TypeInv, TypeOK
  <1>1. CASE UNCHANGED assertion
    BY <1>1 DEF AutoLive, Live
  <1>2. CASE SaveRevoked(w)
    <2>1. assertion' = [assertion EXCEPT ![target[w]].revoked = TRUE]
      BY <1>2 DEF SaveRevoked
    <2>2. \A i \in DOMAIN assertion : assertion[i] \in Assertion
      BY <1>a
    <2>3. DOMAIN assertion' = DOMAIN assertion
      BY <1>a, <2>1
    <2>4. \A i \in DOMAIN assertion :
            /\ assertion'[i].badge = assertion[i].badge
            /\ assertion'[i].rcpt = assertion[i].rcpt
            /\ assertion'[i].via = assertion[i].via
            /\ ~assertion'[i].revoked => ~assertion[i].revoked
      BY <1>a, <2>1, <2>2 DEF Assertion
    <2> QED
      BY <2>3, <2>4 DEF AutoLive, Live
  <1>3. CASE TakeTask(w) \/ Request(w) \/ Abort(w)
    BY <1>1, <1>3 DEF TakeTask, StartTask, Request, StartAward, StartEdit,
                      StartArchive, StartRevoke, Abort
  <1>4. CASE Work(w)
    BY <1>1, <1>2, <1>4
    DEF Work, Notify, ListPaths, VisitPath, CheckHeld, OweDegree, HasDegree,
        Return, Finish, VisitUser, EndTask, ClearBadges, AddBadge, BadgesSet,
        SavePath, Publish, Enqueue
  <1> QED
    BY <1>3, <1>4

\* An insert turns a pending degree into a live one.
LEMMA CountsInsert ==
  ASSUME TypeInv, NEW w \in Worker, Insert(w),
         NEW b \in Badge, NEW r \in Recipient, CountInv
  PROVE  Cardinality(AutoLive(b, r)') + Cardinality(Pending(b, r)')
           <= Cardinality(Worker)
  <1> DEFINE i == Len(assertion) + 1
             new == [badge |-> issue[w].badge, rcpt |-> issue[w].rcpt,
                     via |-> issue[w].via, revoked |-> FALSE]
  <1>a. /\ assertion \in Seq(Assertion) /\ pc \in [Worker -> Label]
        /\ issue \in [Worker -> Issue]
    BY DEF TypeInv, TypeOK
  <1>b. /\ assertion' = Append(assertion, new) /\ pc[w] = "insert"
        /\ issue' = issue /\ pc' = [pc EXCEPT ![w] = "notify"]
    BY DEF Insert, Goto
  <1>c. /\ DOMAIN assertion' = DOMAIN assertion \cup {i}
        /\ \A k \in DOMAIN assertion : assertion'[k] = assertion[k]
        /\ assertion'[i] = new /\ i \notin DOMAIN assertion
    BY <1>a, <1>b
  <1>1. Pending(b, r)' = Pending(b, r) \ {w}
    BY <1>a, <1>b DEF Pending
  <1>2. CASE w \notin Pending(b, r)
    <2>1. ~ (issue[w].via # None /\ issue[w].badge = b /\ issue[w].rcpt = r)
      BY <1>2, <1>b DEF Pending
    <2>2. AutoLive(b, r)' \subseteq AutoLive(b, r)
      BY <1>c, <2>1 DEF AutoLive, Live
    <2> QED
      BY <1>1, <2>2, CountsFall
  <1>3. CASE w \in Pending(b, r)
    <2>1. AutoLive(b, r)' \subseteq AutoLive(b, r) \cup {i}
      BY <1>c DEF AutoLive, Live
    <2>2. i \notin AutoLive(b, r)
      BY <1>c DEF AutoLive, Live
    <2>3. /\ IsFiniteSet(AutoLive(b, r) \cup {i})
          /\ Cardinality(AutoLive(b, r) \cup {i}) = Cardinality(AutoLive(b, r)) + 1
      BY <2>2, CountsFinite, FS_AddElement
    <2>4. /\ Cardinality(AutoLive(b, r)') <= Cardinality(AutoLive(b, r)) + 1
          /\ IsFiniteSet(AutoLive(b, r)')
      BY <2>1, <2>3, FS_Subset
    <2>5. /\ Cardinality(Pending(b, r)') = Cardinality(Pending(b, r)) - 1
          /\ IsFiniteSet(Pending(b, r)')
      BY <1>1, <1>3, CountsFinite, FS_RemoveElement
    <2>6. /\ Cardinality(AutoLive(b, r)') \in Nat
          /\ Cardinality(Pending(b, r)') \in Nat
          /\ Cardinality(AutoLive(b, r)) \in Nat
          /\ Cardinality(Pending(b, r)) \in Nat
          /\ Cardinality(Worker) \in Nat
      BY <2>4, <2>5, CountsFinite, FS_CardinalityType, ConstantsOK
    <2>7. Cardinality(AutoLive(b, r)) + Cardinality(Pending(b, r))
            <= Cardinality(Worker)
      BY DEF CountInv
    <2> QED
      BY <2>4, <2>5, <2>6, <2>7
  <1> QED
    BY <1>2, <1>3

\* A worker that finds no degree joins the pending ones while there is none.
LEMMA CountsOwe ==
  ASSUME TypeInv, NEW w \in Worker, OweDegree(w),
         NEW b \in Badge, NEW r \in Recipient, CountInv
  PROVE  Cardinality(AutoLive(b, r)') + Cardinality(Pending(b, r)')
           <= Cardinality(Worker)
  <1>a. issue \in [Worker -> Issue] /\ pc \in [Worker -> Label]
    BY DEF TypeInv, TypeOK
  <1>b. /\ issue' = [issue EXCEPT ![w].badge = Part[issue[w].via]]
        /\ pc' = [pc EXCEPT ![w] = "insert"] /\ assertion' = assertion
        /\ Live(Part[issue[w].via], issue[w].rcpt) = {}
    BY DEF OweDegree, LacksDegree, Goto
  <1>c. /\ issue'[w].badge = Part[issue[w].via]
        /\ issue'[w].rcpt = issue[w].rcpt
        /\ \A v \in Worker \ {w} : issue'[v] = issue[v] /\ pc'[v] = pc[v]
    BY <1>a, <1>b DEF Issue
  <1>1. AutoLive(b, r)' = AutoLive(b, r)
    BY <1>b DEF AutoLive, Live
  <1>2. CASE b = Part[issue[w].via] /\ r = issue[w].rcpt
    <2>1. AutoLive(b, r)' = {}
      BY <1>1, <1>2, <1>b DEF AutoLive
    <2>2. Pending(b, r)' \subseteq Worker
      BY DEF Pending
    <2>3. /\ Cardinality(Pending(b, r)') <= Cardinality(Worker)
          /\ IsFiniteSet(Pending(b, r)')
      BY <2>2, ConstantsOK, FS_Subset
    <2>4. /\ Cardinality(Pending(b, r)') \in Nat
          /\ Cardinality(AutoLive(b, r)') = 0
      BY <2>1, <2>3, FS_CardinalityType, FS_EmptySet
    <2>5. Cardinality(Worker) \in Nat
      BY ConstantsOK, FS_CardinalityType
    <2> QED
      BY <2>3, <2>4, <2>5
  <1>3. CASE ~ (b = Part[issue[w].via] /\ r = issue[w].rcpt)
    <2>1. Pending(b, r)' \subseteq Pending(b, r)
      BY <1>3, <1>c DEF Pending
    <2> QED
      BY <1>1, <2>1, CountsFall
  <1> QED
    BY <1>2, <1>3

LEMMA NextCountInv ==
  ASSUME TypeInv, CountInv, [Next]_vars
  PROVE  CountInv'
  <1>1. CASE UNCHANGED vars
    BY <1>1 DEF vars, CountInv, AutoLive, Live, Pending
  <1>2. ASSUME NEW w \in Worker,
               Work(w) \/ TakeTask(w) \/ Request(w) \/ Abort(w)
        PROVE  CountInv'
    <2> SUFFICES ASSUME NEW b \in Badge, NEW r \in Recipient
                 PROVE  Cardinality(AutoLive(b, r)') + Cardinality(Pending(b, r)')
                          <= Cardinality(Worker)
      BY DEF CountInv
    <2>1. CASE Insert(w)
      BY <2>1, CountsInsert
    <2>2. CASE OweDegree(w)
      BY <2>2, CountsOwe
    <2>3. CASE ~Insert(w) /\ ~OweDegree(w)
      <3>1. /\ AutoLive(b, r)' \subseteq AutoLive(b, r)
            /\ Pending(b, r)' \subseteq Pending(b, r)
        BY <1>2, <2>3, LiveFalls, PendingFalls
      <3> QED
        BY <3>1, CountsFall
    <2> QED
      BY <2>1, <2>2, <2>3
  <1> QED
    BY <1>1, <1>2 DEF Next, Rest

LEMMA InitCountInv == Init => CountInv
  <1> SUFFICES ASSUME Init, NEW b \in Badge, NEW r \in Recipient
               PROVE  Cardinality(AutoLive(b, r)) + Cardinality(Pending(b, r))
                        <= Cardinality(Worker)
    BY DEF CountInv
  <1>1. AutoLive(b, r) = {} /\ Pending(b, r) = {}
    BY DEF Init, AutoLive, Live, Pending
  <1>2. Cardinality({}) = 0 /\ Cardinality(Worker) \in Nat
    BY ConstantsOK, FS_EmptySet, FS_CardinalityType
  <1> QED
    BY <1>1, <1>2

LEMMA CountInvHolds == Spec => []CountInv
  <1> QED
    BY InitTypeInv, NextTypeInv, InitCountInv, NextCountInv, PTL DEF Spec

LEMMA CountBounds ==
  ASSUME TypeInv, CountInv, NEW l \in LP, NEW r \in Recipient
  PROVE  Cardinality(AutoLive(Part[l], r)) <= Cardinality(Worker)
  <1>1. Part[l] \in Badge
    BY ConstantsOK
  <1>2. /\ Cardinality(AutoLive(Part[l], r)) \in Nat
        /\ Cardinality(Pending(Part[l], r)) \in Nat
        /\ Cardinality(Worker) \in Nat
    BY CountsFinite, ConstantsOK, FS_CardinalityType
  <1>3. Cardinality(AutoLive(Part[l], r)) + Cardinality(Pending(Part[l], r))
          <= Cardinality(Worker)
    BY <1>1 DEF CountInv
  <1> QED
    BY <1>2, <1>3

\* A recipient never holds more live micro degrees of a path, of those that
\* learning paths have awarded, than there are workers.
THEOREM DuplicatesLimited == Spec => []DuplicatesBounded
  <1>1. TypeInv /\ CountInv => DuplicatesBounded
    BY CountBounds DEF DuplicatesBounded
  <1> QED
    BY <1>1, InitTypeInv, NextTypeInv, CountInvHolds, PTL DEF Spec

\* With a single worker the check-then-insert of user_should_have_badge does
\* what its comment says: the participation badge is awarded once.
THEOREM SerialAwardsOnce ==
  ASSUME Cardinality(Worker) = 1
  PROVE  Spec => []AwardedOnce
  <1>1. TypeInv /\ CountInv => AwardedOnce
    BY CountBounds DEF AwardedOnce
  <1> QED
    BY <1>1, InitTypeInv, NextTypeInv, CountInvHolds, PTL DEF Spec
=============================================================================
