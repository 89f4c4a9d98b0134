--------------------------- MODULE LearningPaths ---------------------------
(***************************************************************************)
(* Awarding badges and the micro degrees that learning paths add to them.  *)
(*                                                                         *)
(* A Worker is a request thread of the web application or a Celery worker. *)
(* No view runs in a transaction of its own (ATOMIC_REQUESTS is not set),  *)
(* so every ORM statement commits by itself: an action below stands for    *)
(* one statement, or for one block inside transaction.atomic(), and the    *)
(* statements of different workers interleave.                             *)
(*                                                                         *)
(* BadgeInstanceManager.create inserts an assertion, notifies the earner   *)
(* and then visits every active learning path that has the badge; where    *)
(* the earner has completed the path and does not hold its participation   *)
(* badge, it issues that badge through another call of itself.  `calls' is *)
(* the stack of these calls, innermost first; each is the set of learning  *)
(* paths its loop has still to visit, with the required_badges_count of    *)
(* the row the loop has loaded.                                            *)
(*                                                                         *)
(* Activating a path enqueues a task that does the same for every user.    *)
(* PUT and archive work on objects that memcached holds, queries read the  *)
(* database.                                                               *)
(***************************************************************************)
EXTENDS Integers, Sequences, FiniteSets

CONSTANTS
    Badge,          \* badge classes
    LP,             \* learning paths
    Recipient,      \* recipient identifiers (email addresses)
    Verified,       \* those that are a verified identifier of a BadgeUser
    Worker,         \* request threads and Celery workers
    Part,           \* Part[l]: the participationBadge of learning path l
    InitPath,       \* the LearningPath rows of the initial state
    InitMembers,    \* the badges of each learning path in the initial state
    Awardable,      \* badges that issuers award directly
    Forms,          \* payloads of PUT requests to a learning path
    Requests,       \* the kinds of request that arrive
    MaxRequests,    \* bound: how many requests arrive
    None            \* "no value" in a worker's local state

Path == [activated : BOOLEAN, archived : BOOLEAN, required : Nat]

\* `replace' is FALSE when the payload has no "badges" (the field is optional).
Form == [activated : BOOLEAN, required : Nat,
         replace : BOOLEAN, badges : SUBSET Badge]

ASSUME ConstantsOK ==
    /\ IsFiniteSet(Badge)
    /\ IsFiniteSet(Worker)
    /\ Verified \subseteq Recipient
    /\ Part \in [LP -> Badge]
    /\ InitPath \in [LP -> Path]
    /\ InitMembers \in [LP -> SUBSET Badge]
    /\ Awardable \subseteq Badge
    /\ Forms \subseteq Form
    /\ Requests \subseteq {"award", "edit", "archive", "revoke"}
    /\ MaxRequests \in Nat
    /\ None \notin LP \cup Badge \cup Recipient

VARIABLES
    (* the database *)
    path,           \* LearningPath rows
    cache,          \* the LearningPath objects that memcached holds
    members,        \* LearningPathBadge rows: the badges of each path
    assertion,      \* BadgeInstance rows, in the order of insertion
    (* the Celery broker *)
    tasks,          \* process_learning_path_activation messages per path
    (* the workers: program counter and local state *)
    pc,
    issue,          \* of a worker that issues badges
    edit,           \* of a worker that saves a learning path
    target,         \* of a worker that revokes: the assertion
    (* bound and history *)
    requests,       \* number of requests that have arrived
    everMembers,    \* every badge that has been a member of a path
    everRequired,   \* every required_badges_count a path has had
    excused         \* pairs <<l, r>> for which no micro degree is owed

vars == <<path, cache, members, assertion, tasks, pc, issue, edit, target,
          requests, everMembers, everRequired, excused>>

\* A worker's next step.  Issuing: insert, notify, list, next, held, degree;
\* an activation task: users; saving a learning path: clear, fill, save,
\* publish, enqueue; revoking: revoke.
Label == {"idle", "insert", "notify", "list", "next", "held", "degree",
          "users", "clear", "fill", "save", "publish", "enqueue", "revoke"}

\* A LearningPath object: its row and _original_activated, what `activated'
\* was when the object was constructed.
Object == [row : Path, orig : BOOLEAN]

\* A learning path as a loop holds it: the object, with its required count.
Frame == SUBSET (LP \X Nat)

Issue == [rcpt : Recipient \cup {None},   \* recipient_identifier
          badge : Badge \cup {None},      \* badge class being issued
          via : LP \cup {None},           \* path visited, or of this degree
          calls : Seq(Frame),             \* loops over learning paths
          seen : SUBSET Badge,            \* badges of `via' as they were read
          need : Nat,                     \* required_badges_count of `via'
          task : Frame,                   \* the activated path, in a task
          audience : SUBSET Recipient]    \* recipients the task has to visit

Edit == [lp : LP \cup {None},
         obj : Object,                    \* the object save() will write
         todo : SUBSET Badge]             \* LearningPathBadges to create

Assertion == [badge : Badge, rcpt : Recipient, via : LP \cup {None},
              revoked : BOOLEAN]

NoIssue == [rcpt |-> None, badge |-> None, via |-> None, calls |-> <<>>,
            seen |-> {}, need |-> 0, task |-> {}, audience |-> {}]

\* __init__ of a row that is loaded from the database.
Constructed(row) == [row |-> row, orig |-> row.activated]

NoEdit == [lp |-> None, todo |-> {},
           obj |-> Constructed([activated |-> FALSE, archived |-> FALSE,
                                required |-> 0])]

-----------------------------------------------------------------------------
(* Queries.                                                                *)

\* The live (not revoked) assertions of badge b for recipient r.
Live(b, r) == {i \in DOMAIN assertion : /\ assertion[i].badge = b
                                        /\ assertion[i].rcpt = r
                                        /\ ~assertion[i].revoked}

\* Mutant: one badge of the path is enough.
HasCompletedAny(S, required, r) == \E b \in S : Live(b, r) # {}

\* LearningPath.user_has_completed, over the badges S that it has read.
HasCompleted(S, required, r) ==
    Cardinality({b \in S : Live(b, r) # {}}) >= required

\* The filter activated=True, archived=False.
IsActive(l) == path[l].activated /\ ~path[l].archived

\* Mutant: a participation badge is awarded whenever the path is completed.
LacksDegreeAlways(l, r) == TRUE

\* user_should_have_badge: "only award the participationBadge once".
LacksDegree(l, r) == Live(Part[l], r) = {}

\* Mutant: deactivated paths are protected instead of archived ones.
ProtectedInactive(b) == \E l \in LP : Part[l] = b /\ ~path[l].activated

\* revoke() finds an archived path with this participation badge.
Protected(b) == \E l \in LP : Part[l] = b /\ path[l].archived

-----------------------------------------------------------------------------
Init ==
    /\ path = InitPath
    /\ cache = [l \in LP |-> Constructed(InitPath[l])]
    /\ members = InitMembers
    /\ assertion = <<>>
    /\ tasks = [l \in LP |-> 0]
    /\ pc = [w \in Worker |-> "idle"]
    /\ issue = [w \in Worker |-> NoIssue]
    /\ edit = [w \in Worker |-> NoEdit]
    /\ target = [w \in Worker |-> 0]
    /\ requests = 0
    /\ everMembers = InitMembers
    /\ everRequired = [l \in LP |-> {InitPath[l].required}]
    /\ excused = {}

\* A request arrives and a free worker takes it.
Arrive(w, kind) ==
    /\ kind \in Requests
    /\ requests < MaxRequests
    /\ pc[w] = "idle"
    /\ requests' = requests + 1

Goto(w, label) == pc' = [pc EXCEPT ![w] = label]

-----------------------------------------------------------------------------
(* Issuing a badge.                                                        *)

\* A request (or one item of a batch) awards badge b to recipient r.
StartAward(w, b, r) ==
    /\ Arrive(w, "award")
    /\ Goto(w, "insert")
    /\ issue' = [issue EXCEPT ![w].badge = b, ![w].rcpt = r]
    /\ UNCHANGED <<path, cache, members, assertion, tasks, edit, target,
                   everMembers, everRequired, excused>>

\* The transaction that inserts the assertion with its extensions commits.
Insert(w) ==
    /\ pc[w] = "insert"
    /\ assertion' = Append(assertion, [badge |-> issue[w].badge,
                                       rcpt |-> issue[w].rcpt,
                                       via |-> issue[w].via,
                                       revoked |-> FALSE])
    /\ Goto(w, "notify")
    /\ UNCHANGED <<path, cache, members, tasks, issue, edit, target,
                   requests, everMembers, everRequired, excused>>

\* notify_earner renders the PDF and sends the mail.
Notify(w) ==
    /\ pc[w] = "notify"
    /\ Goto(w, "list")
    /\ UNCHANGED <<path, cache, members, assertion, tasks, issue, edit,
                   target, requests, everMembers, everRequired, excused>>

\* The insert is refused or fails (blacklist, image) or the notification
\* raises: the exception leaves every nested call and ends the task as well.
Abort(w) ==
    /\ pc[w] \in {"insert", "notify"}
    /\ Goto(w, "idle")
    /\ issue' = [issue EXCEPT ![w] = NoIssue]
    /\ excused' = excused \cup
                    (LP \X ({issue[w].rcpt} \cup issue[w].audience))
    /\ UNCHANGED <<path, cache, members, assertion, tasks, edit, target,
                   requests, everMembers, everRequired>>

\* The query for the active learning paths that have the badge.
ListPaths(w) ==
    /\ pc[w] = "list"
    /\ LET found == {l \in LP : IsActive(l) /\ issue[w].badge \in members[l]}
           frame == {<<l, path[l].required>> : l \in found}
       IN  issue' = [issue EXCEPT ![w].calls = <<frame>> \o @]
    /\ Goto(w, "next")
    /\ UNCHANGED <<path, cache, members, assertion, tasks, edit, target,
                   requests, everMembers, everRequired, excused>>

\* The innermost loop takes its next learning path and user_has_completed
\* reads the badges of that path.
VisitPath(w) ==
    /\ pc[w] = "next"
    /\ issue[w].calls # <<>>
    /\ \E f \in Head(issue[w].calls) :
         issue' = [issue EXCEPT
                     ![w].calls = <<Head(@) \ {f}>> \o Tail(@),
                     ![w].via = f[1],
                     ![w].need = f[2],
                     ![w].seen = members[f[1]]]
    /\ Goto(w, "held")
    /\ UNCHANGED <<path, cache, members, assertion, tasks, edit, target,
                   requests, everMembers, everRequired, excused>>

\* Mutant: more badges are asked for than the path requires.
CheckHeldStrict(w) ==
    /\ pc[w] = "held"
    /\ Goto(w, IF HasCompleted(issue[w].seen, issue[w].need + 1, issue[w].rcpt)
               THEN "degree" ELSE "next")
    /\ UNCHANGED <<path, cache, members, assertion, tasks, issue, edit,
                   target, requests, everMembers, everRequired, excused>>

\* user_has_completed reads the live assertions of those badges.
CheckHeld(w) ==
    /\ pc[w] = "held"
    /\ Goto(w, IF HasCompleted(issue[w].seen, issue[w].need, issue[w].rcpt)
               THEN "degree" ELSE "next")
    /\ UNCHANGED <<path, cache, members, assertion, tasks, issue, edit,
                   target, requests, everMembers, everRequired, excused>>

\* user_should_have_badge looks for a participation badge; there is none, and
\* create() calls itself to issue it.
OweDegree(w) ==
    /\ pc[w] = "degree"
    /\ LacksDegree(issue[w].via, issue[w].rcpt)
    /\ issue' = [issue EXCEPT ![w].badge = Part[issue[w].via]]
    /\ Goto(w, "insert")
    /\ UNCHANGED <<path, cache, members, assertion, tasks, edit, target,
                   requests, everMembers, everRequired, excused>>

\* There is one: the loop goes on.
HasDegree(w) ==
    /\ pc[w] = "degree"
    /\ ~LacksDegree(issue[w].via, issue[w].rcpt)
    /\ Goto(w, "next")
    /\ UNCHANGED <<path, cache, members, assertion, tasks, issue, edit,
                   target, requests, everMembers, everRequired, excused>>

\* The innermost loop is done: create() returns to its caller's loop.
Return(w) ==
    /\ pc[w] = "next"
    /\ Len(issue[w].calls) > 1
    /\ Head(issue[w].calls) = {}
    /\ issue' = [issue EXCEPT ![w].calls = Tail(@)]
    /\ UNCHANGED <<path, cache, members, assertion, tasks, pc, edit, target,
                   requests, everMembers, everRequired, excused>>

\* The outermost loop is done: the handler answers, or the task goes on with
\* its next user.
Finish(w) ==
    /\ pc[w] = "next"
    /\ issue[w].calls = <<{}>>
    /\ IF issue[w].task = {}
         THEN Goto(w, "idle") /\ issue' = [issue EXCEPT ![w] = NoIssue]
         ELSE /\ Goto(w, "users")
              /\ issue' = [issue EXCEPT ![w] =
                             [NoIssue EXCEPT !.task = issue[w].task,
                                             !.audience = issue[w].audience]]
    /\ UNCHANGED <<path, cache, members, assertion, tasks, edit, target,
                   requests, everMembers, everRequired, excused>>

-----------------------------------------------------------------------------
(* The Celery task process_learning_path_activation.                       *)

\* Mutant: the message stays with the broker and is taken again.
StartTaskAgain(w, l) ==
    /\ pc[w] = "idle"
    /\ tasks' = [tasks EXCEPT ![l] = @ - 1]
    /\ Goto(w, "users")
    /\ UNCHANGED <<path, cache, members, assertion, issue, edit, target,
                   requests, everMembers, everRequired, excused>>

\* A worker takes the message and loads the learning path.
StartTask(w, l) ==
    /\ pc[w] = "idle"
    /\ tasks[l] > 0
    /\ tasks' = [tasks EXCEPT ![l] = @ - 1]
    /\ Goto(w, "users")
    /\ issue' = [issue EXCEPT ![w].task = {<<l, path[l].required>>},
                              ![w].audience = Verified]
    /\ UNCHANGED <<path, cache, members, assertion, edit, target, requests,
                   everMembers, everRequired, excused>>

\* The task turns to the next identifier and asks user_should_have_badge.
VisitUser(w) ==
    /\ pc[w] = "users"
    /\ \E r \in issue[w].audience :
         issue' = [issue EXCEPT ![w].rcpt = r,
                                ![w].audience = @ \ {r},
                                ![w].calls = <<issue[w].task>>]
    /\ Goto(w, "next")
    /\ UNCHANGED <<path, cache, members, assertion, tasks, edit, target,
                   requests, everMembers, everRequired, excused>>

EndTask(w) ==
    /\ pc[w] = "users"
    /\ issue[w].audience = {}
    /\ Goto(w, "idle")
    /\ issue' = [issue EXCEPT ![w] = NoIssue]
    /\ UNCHANGED <<path, cache, members, assertion, tasks, edit, target,
                   requests, everMembers, everRequired, excused>>

-----------------------------------------------------------------------------
(* Editing and archiving a learning path.                                  *)

\* cached.get: the object in the cache, or after an eviction a new one.
Loaded(l) == {cache[l], Constructed(path[l])}

\* Mutant: the payload's missing "archived" is taken for False.
UpdatedReset(obj, f) ==
    [obj EXCEPT !.row = [activated |-> f.activated, archived |-> FALSE,
                         required |-> f.required]]

\* What update() makes of the loaded object: `archived' is a field of the
\* serializer but is not assigned.
Updated(obj, f) ==
    [obj EXCEPT !.row.activated = f.activated, !.row.required = f.required]

\* PUT: the view loads the object and update() assigns the payload to it.
StartEdit(w, l, f) ==
    /\ Arrive(w, "edit")
    /\ \E obj \in Loaded(l) :
         /\ cache' = [cache EXCEPT ![l] = obj]
         /\ edit' = [edit EXCEPT ![w] = [lp |-> l, obj |-> Updated(obj, f),
                                        todo |-> f.badges]]
    /\ Goto(w, IF f.replace THEN "clear" ELSE "save")
    /\ UNCHANGED <<path, members, assertion, tasks, issue, target,
                   everMembers, everRequired, excused>>

\* The learningpath_badges setter deletes the rows there are ...
ClearBadges(w) ==
    /\ pc[w] = "clear"
    /\ members' = [members EXCEPT ![edit[w].lp] = {}]
    /\ excused' = excused \cup ({edit[w].lp} \X Recipient)
    /\ Goto(w, "fill")
    /\ UNCHANGED <<path, cache, assertion, tasks, issue, edit, target,
                   requests, everMembers, everRequired>>

\* ... and creates the new ones one by one.
AddBadge(w) ==
    /\ pc[w] = "fill"
    /\ \E b \in edit[w].todo :
         LET l == edit[w].lp
         IN  /\ members' = [members EXCEPT ![l] = @ \cup {b}]
             /\ everMembers' = [everMembers EXCEPT ![l] = @ \cup {b}]
             /\ edit' = [edit EXCEPT ![w].todo = @ \ {b}]
             /\ excused' = excused \cup ({l} \X Recipient)
    /\ UNCHANGED <<path, cache, assertion, tasks, pc, issue, target,
                   requests, everRequired>>

BadgesSet(w) ==
    /\ pc[w] = "fill"
    /\ edit[w].todo = {}
    /\ Goto(w, "save")
    /\ UNCHANGED <<path, cache, members, assertion, tasks, issue, edit,
                   target, requests, everMembers, everRequired, excused>>

\* LearningPathArchive.post: refused for a path that is archived already.
StartArchive(w, l) ==
    /\ Arrive(w, "archive")
    /\ \E obj \in Loaded(l) :
         /\ ~obj.row.archived
         /\ cache' = [cache EXCEPT ![l] = obj]
         /\ edit' = [edit EXCEPT ![w] =
                       [lp |-> l, obj |-> [obj EXCEPT !.row.archived = TRUE],
                        todo |-> {}]]
    /\ Goto(w, "save")
    /\ UNCHANGED <<path, members, assertion, tasks, issue, target,
                   everMembers, everRequired, excused>>

\* save() decides from the object alone whether the path becomes activated.
Announces(obj) == ~obj.orig /\ obj.row.activated

\* save() writes the whole row, whatever it has become since it was loaded.
\* A path that becomes active without an announcement, or whose required
\* count changes, owes nothing for what was earned before.
SavePath(w) ==
    /\ pc[w] = "save"
    /\ LET l == edit[w].lp
           row == edit[w].obj.row
           reopened == row.activated /\ ~row.archived /\ ~IsActive(l)
       IN  /\ path' = [path EXCEPT ![l] = row]
           /\ everRequired' =
                [everRequired EXCEPT ![l] = @ \cup {row.required}]
           /\ excused' = IF \/ row.required # path[l].required
                            \/ reopened /\ ~Announces(edit[w].obj)
                         THEN excused \cup ({l} \X Recipient)
                         ELSE excused
    /\ Goto(w, "publish")
    /\ UNCHANGED <<cache, members, assertion, tasks, issue, edit, target,
                   requests, everMembers>>

\* Mutant: the saved object is not published.
PublishNothing(w) ==
    /\ pc[w] = "publish"
    /\ IF Announces(edit[w].obj)
         THEN Goto(w, "enqueue") /\ UNCHANGED edit
         ELSE Goto(w, "idle") /\ edit' = [edit EXCEPT ![w] = NoEdit]
    /\ UNCHANGED <<path, cache, members, assertion, tasks, issue, target,
                   requests, everMembers, everRequired, excused>>

\* CacheModel.save puts the object into the cache before LearningPath.save
\* resets _original_activated: the cached copy keeps the old value.
Publish(w) ==
    /\ pc[w] = "publish"
    /\ cache' = [cache EXCEPT ![edit[w].lp] = edit[w].obj]
    /\ IF Announces(edit[w].obj)
         THEN Goto(w, "enqueue") /\ UNCHANGED edit
         ELSE Goto(w, "idle") /\ edit' = [edit EXCEPT ![w] = NoEdit]
    /\ UNCHANGED <<path, members, assertion, tasks, issue, target, requests,
                   everMembers, everRequired, excused>>

\* Mutant: the message does not reach the broker.
EnqueueLost(w) ==
    /\ pc[w] = "enqueue"
    /\ Goto(w, "idle")
    /\ edit' = [edit EXCEPT ![w] = NoEdit]
    /\ UNCHANGED <<path, cache, members, assertion, tasks, issue, target,
                   requests, everMembers, everRequired, excused>>

\* process_learning_path_activation.delay(self.pk)
Enqueue(w) ==
    /\ pc[w] = "enqueue"
    /\ tasks' = [tasks EXCEPT ![edit[w].lp] = @ + 1]
    /\ Goto(w, "idle")
    /\ edit' = [edit EXCEPT ![w] = NoEdit]
    /\ UNCHANGED <<path, cache, members, assertion, issue, target, requests,
                   everMembers, everRequired, excused>>

-----------------------------------------------------------------------------
(* Revoking an assertion.                                                  *)

\* BadgeInstance.revoke: not revoked yet, and not a participation badge of an
\* archived learning path.
StartRevoke(w, i) ==
    /\ Arrive(w, "revoke")
    /\ ~assertion[i].revoked
    /\ ~Protected(assertion[i].badge)
    /\ target' = [target EXCEPT ![w] = i]
    /\ Goto(w, "revoke")
    /\ UNCHANGED <<path, cache, members, assertion, tasks, issue, edit,
                   everMembers, everRequired, excused>>

\* Mutant: a second revocation takes the first one back.
SaveToggled(w) ==
    /\ pc[w] = "revoke"
    /\ LET i == target[w]
       IN  /\ assertion' = [assertion EXCEPT ![i].revoked = ~@]
           /\ excused' = excused \cup
                {<<l, assertion[i].rcpt>> :
                    l \in {m \in LP : Part[m] = assertion[i].badge}}
    /\ target' = [target EXCEPT ![w] = 0]
    /\ Goto(w, "idle")
    /\ UNCHANGED <<path, cache, members, tasks, issue, edit, requests,
                   everMembers, everRequired>>

\* The row is saved without another look at it.
SaveRevoked(w) ==
    /\ pc[w] = "revoke"
    /\ LET i == target[w]
       IN  /\ assertion' = [assertion EXCEPT ![i].revoked = TRUE]
           /\ excused' = excused \cup
                {<<l, assertion[i].rcpt>> :
                    l \in {m \in LP : Part[m] = assertion[i].badge}}
    /\ target' = [target EXCEPT ![w] = 0]
    /\ Goto(w, "idle")
    /\ UNCHANGED <<path, cache, members, tasks, issue, edit, requests,
                   everMembers, everRequired>>

-----------------------------------------------------------------------------
\* A step inside a handler or a task.
Work(w) ==
    \/ Insert(w) \/ Notify(w) \/ ListPaths(w) \/ VisitPath(w)
    \/ CheckHeld(w) \/ OweDegree(w) \/ HasDegree(w) \/ Return(w) \/ Finish(w)
    \/ VisitUser(w) \/ EndTask(w)
    \/ ClearBadges(w) \/ AddBadge(w) \/ BadgesSet(w) \/ SavePath(w)
    \/ Publish(w) \/ Enqueue(w)
    \/ SaveRevoked(w)

TakeTask(w) == \E l \in LP : StartTask(w, l)

Request(w) ==
    \/ \E b \in Awardable, r \in Recipient : StartAward(w, b, r)
    \/ \E l \in LP, f \in Forms : StartEdit(w, l, f)
    \/ \E l \in LP : StartArchive(w, l)
    \/ \E i \in DOMAIN assertion : StartRevoke(w, i)

Quiescent == /\ \A w \in Worker : pc[w] = "idle"
             /\ \A l \in LP : tasks[l] = 0

\* All requests that the bound allows have been served.
Rest == Quiescent /\ UNCHANGED vars

Next ==
    \/ \E w \in Worker : Work(w) \/ TakeTask(w) \/ Request(w) \/ Abort(w)
    \/ Rest

Spec == Init /\ [][Next]_vars

\* A handler that has begun runs on, and an idle worker takes a message of
\* the broker: the scheduler and Celery see to that.  Requests and failures
\* need not happen.
FairSpec ==
    /\ Spec
    /\ \A w \in Worker : WF_vars(Work(w)) /\ WF_vars(TakeTask(w))

-----------------------------------------------------------------------------
(* Properties.                                                             *)

TypeOK ==
    /\ path \in [LP -> Path]
    /\ cache \in [LP -> Object]
    /\ members \in [LP -> SUBSET Badge]
    /\ assertion \in Seq(Assertion)
    /\ tasks \in [LP -> Nat]
    /\ pc \in [Worker -> Label]
    /\ issue \in [Worker -> Issue]
    /\ edit \in [Worker -> Edit]
    /\ target \in [Worker -> Nat]
    /\ requests \in Nat
    /\ everMembers \in [LP -> SUBSET Badge]
    /\ everRequired \in [LP -> SUBSET Nat]
    /\ excused \subseteq LP \X Recipient

\* What the whole promises, over the same names.
Ledger == INSTANCE DegreeLedger

\* Workers, interleavings and failures notwithstanding, the assertions are
\* such a ledger: above all, every micro degree was earned when it was
\* written.
ImplementsLedger == Ledger!Spec

\* A micro degree that the system has issued by itself was earned, however
\* the reads of user_should_have_badge interleave with edits, revocations and
\* other awards.
DegreesEarned ==
    \A i \in DOMAIN assertion :
        assertion[i].via # None => Ledger!Earned(assertion[i].via, assertion[i].rcpt)

\* The live degrees that learning paths, not issuers, have awarded.
AutoLive(b, r) == {i \in Live(b, r) : assertion[i].via # None}

\* "only award the participationBadge once" (user_should_have_badge).
AwardedOnce ==
    \A r \in Recipient, l \in LP :
        Cardinality(AutoLive(Part[l], r)) <= 1

\* What the check achieves with concurrent workers: there are never more live
\* automatic micro degrees of one badge and recipient than workers.
DuplicatesBounded ==
    \A r \in Recipient, l \in LP :
        Cardinality(AutoLive(Part[l], r)) <= Cardinality(Worker)

\* When all handlers and tasks have finished, whoever has a verified
\* identifier and has completed an active path holds its participation badge:
\* no interleaving of awards and activation loses one.
NoMissedDegree ==
    Quiescent =>
        \A l \in LP, r \in Verified :
            /\ IsActive(l)
            /\ HasCompleted(members[l], path[l].required, r)
            /\ <<l, r>> \notin excused
            => Live(Part[l], r) # {}

\* "Process Micro-Degree-Badge issuance for all users when a learning path is
\* activated": whoever writes activated=True over False enqueues the task.
ActivationAnnounced ==
    [][\A l \in LP :
         ~path[l].activated /\ path'[l].activated
         => \E w \in Worker : /\ pc'[w] = "publish"
                              /\ edit'[w].lp = l
                              /\ Announces(edit'[w].obj)]_vars

\* "Cannot revoke micro degree from archived learning path"
ArchivedDegreesKept ==
    [][\A i \in DOMAIN assertion :
         ~assertion[i].revoked /\ assertion'[i].revoked
         => \A l \in LP :
              Part[l] = assertion[i].badge => ~path[l].archived]_vars

\* Nothing takes an archived learning path out of the archive.
ArchiveIsFinal == [][\A l \in LP : path[l].archived => path'[l].archived]_vars

\* Once the requests are served, the cache shows the learning paths as the
\* database has them.
CacheFresh == Quiescent => \A l \in LP : cache[l].row = path[l]

\* A recipient who has completed an active path is eventually issued the
\* micro degree, unless that ceases to be owed.
EventuallyAwarded ==
    \A l \in LP, r \in Verified :
        /\ IsActive(l)
        /\ HasCompleted(members[l], path[l].required, r)
        ~> \/ Live(Part[l], r) # {}
           \/ ~IsActive(l)
           \/ ~HasCompleted(members[l], path[l].required, r)
           \/ <<l, r>> \in excused

-----------------------------------------------------------------------------
(* The inductive invariant behind DegreesEarned and DuplicatesBounded.     *)

\* What a worker holds at each label.
WorkerOK(w) ==
    /\ pc[w] \in {"insert", "notify", "list"} =>
         issue[w].badge \in Badge /\ issue[w].rcpt \in Recipient
    /\ pc[w] = "insert" => IF issue[w].via = None
                             THEN issue[w].badge \in Awardable
                             ELSE issue[w].badge = Part[issue[w].via]
    /\ pc[w] \in {"next", "held", "degree"} => issue[w].rcpt \in Recipient
    /\ pc[w] \in {"held", "degree"} => issue[w].via \in LP
    /\ pc[w] \in {"idle", "clear", "fill", "save", "publish", "enqueue",
                  "revoke"} => issue[w] = NoIssue
    /\ pc[w] \in {"clear", "fill", "save", "publish", "enqueue"} =>
         edit[w].lp \in LP
    /\ pc[w] = "revoke" => target[w] \in DOMAIN assertion

\* A loaded path has a required count that the path has had.
FrameOK(frame) == \A f \in frame : f[2] \in everRequired[f[1]]

\* What a worker has read of the terms of a path is on record.
TermsOK(w) ==
    /\ \A k \in DOMAIN issue[w].calls : FrameOK(issue[w].calls[k])
    /\ FrameOK(issue[w].task)
    /\ pc[w] = "held" => /\ issue[w].seen \subseteq everMembers[issue[w].via]
                         /\ issue[w].need \in everRequired[issue[w].via]

\* Whoever passed the check of user_has_completed has earned the degree.
CheckedEarned(w) ==
    pc[w] = "degree" \/ (pc[w] = "insert" /\ issue[w].via # None) =>
        Ledger!Earned(issue[w].via, issue[w].rcpt)

EarnedInv ==
    /\ \A l \in LP : /\ members[l] \subseteq everMembers[l]
                     /\ path[l].required \in everRequired[l]
    /\ \A w \in Worker : TermsOK(w) /\ CheckedEarned(w)
    /\ DegreesEarned

\* The workers that are about to issue b to r on behalf of a learning path.
Pending(b, r) == {w \in Worker : /\ pc[w] = "insert"
                                 /\ issue[w].via # None
                                 /\ issue[w].badge = b
                                 /\ issue[w].rcpt = r}

\* A worker that finds no degree is one of at most |Worker| that did so, and
\* each of them inserts one.
CountInv ==
    \A b \in Badge, r \in Recipient :
        Cardinality(AutoLive(b, r)) + Cardinality(Pending(b, r))
            <= Cardinality(Worker)

IInv == /\ TypeOK
        /\ \A w \in Worker : WorkerOK(w)
        /\ EarnedInv
        /\ CountInv
=============================================================================
