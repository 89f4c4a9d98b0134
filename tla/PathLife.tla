------------------------------ MODULE PathLife ------------------------------
(***************************************************************************)
(* Learning paths and badge classes come and go.  Deleting a path takes its *)
(* participation badge out of other paths and deletes those that become too *)
(* short, which may go on from path to path; deleting a badge class deletes *)
(* the short paths that have it, and the database deletes what refers to    *)
(* the class.  Neither runs in a transaction.                               *)
(***************************************************************************)
EXTENDS Integers, Sequences, FiniteSets

CONSTANTS
    Badge,          \* badge classes
    LP,             \* learning paths, by primary key
    Part,           \* Part[l]: the participationBadge of learning path l
    Contents,       \* the sets of badges that learning paths are made of
    Awardable,      \* the badge classes whose awards matter
    Worker,         \* request threads
    MaxRequests     \* bound: how many requests arrive

ASSUME PathLifeConstants ==
    /\ IsFiniteSet(Badge)
    /\ Part \in [LP -> Badge]
    /\ Contents \subseteq SUBSET Badge
    /\ Awardable \subseteq Badge
    /\ MaxRequests \in Nat

VARIABLES
    classes,    \* BadgeClass rows
    paths,      \* LearningPath rows
    badges,     \* LearningPathBadge rows: the badges of each path
    granted,    \* assertions of a class: none, unrevoked but expired, or live
    calls,      \* of a worker: its calls of delete(), innermost first
    requests,   \* number of requests that have arrived
    made,       \* the primary keys that have been given to a path
    stubs,      \* history: paths that need not have two badges
    late        \* history: paths whose degree was awarded during their deletion

vars == <<classes, paths, badges, granted, calls, requests, made, stubs, late>>

Frame ==
         [at : {"list paths"}, badge : Badge]
    \cup [at : {"each path"}, badge : Badge, todo : SUBSET LP]
    \cup [at : {"list entries"}, path : LP]
    \cup [at : {"each entry"}, path : LP, todo : SUBSET LP]
    \cup [at : {"count"}, path : LP, todo : SUBSET LP, shrunk : LP]
    \cup [at : {"insert", "fill"}, path : LP, todo : SUBSET Badge]
    \cup [at : {"save"}, path : LP]

Idle(w) == calls[w] = <<>>
Top(w) == Head(calls[w])
At(w, label) == ~Idle(w) /\ Top(w).at = label
Frames(w) == {calls[w][k] : k \in DOMAIN calls[w]}

\* The request that a worker is serving.
Root(w) == calls[w][Len(calls[w])]

Goto(w, frame) == calls' = [calls EXCEPT ![w] = <<frame>> \o Tail(@)]
Call(w, frame, callee) == calls' = [calls EXCEPT ![w] = <<callee, frame>> \o Tail(@)]
Return(w) == calls' = [calls EXCEPT ![w] = Tail(@)]

Begin(w, frame) ==
    /\ Idle(w)
    /\ requests < MaxRequests
    /\ requests' = requests + 1
    /\ calls' = [calls EXCEPT ![w] = <<frame>>]

\* The paths that worker w is making, deleting or taking a badge from.
Involved(w) ==
    {f.path : f \in {g \in Frames(w) : g.at \notin {"list paths", "each path"}}}
        \cup {f.shrunk : f \in {g \in Frames(w) : g.at = "count"}}

\* An exception leaves all calls of delete().
Fail(w) ==
    /\ calls' = [calls EXCEPT ![w] = <<>>]
    /\ stubs' = stubs \cup Involved(w)

\* A deletion of badge class b has counted the badges of path l, or never saw l.
Passed(f, l) == f.at = "each path" /\ l \notin f.todo

\* Path l will lose one more badge than b, to a deletion that has counted both.
Outdated(l, b) == \E w \in Worker : \E f \in Frames(w) :
    Passed(f, l) /\ f.badge \in badges[l] \ {b}

\* Some paths exist, each with its badges.
Init == /\ classes = Badge
        /\ badges \in [LP -> Contents \cup {{}}]
        /\ paths = {l \in LP : badges[l] # {}}
        /\ granted = [b \in Badge |-> "none"]
        /\ calls = [w \in Worker |-> <<>>]
        /\ requests = 0
        /\ made = paths
        /\ stubs = {l \in LP : Cardinality(badges[l]) < 2}
        /\ late = {}

----------------------------------------------------------------------------
(* BadgeClass.delete *)

\* "BadgeClass may only be deleted if all BadgeInstances have been revoked", or
\* have expired.
DeleteClass(w) == \E b \in classes :
    /\ granted[b] # "live"
    /\ Begin(w, [at |-> "list paths", badge |-> b])
    /\ UNCHANGED <<classes, paths, badges, granted, made, stubs, late>>

ListPaths(w) ==
    /\ At(w, "list paths")
    /\ LET b == Top(w).badge
       IN Goto(w, [at |-> "each path", badge |-> b,
                   todo |-> {l \in paths : b \in badges[l]}])
    /\ UNCHANGED <<classes, paths, badges, granted, requests, made, stubs, late>>

\* Mutant: a path keeps its last badge.
KeepShortPath(w) ==
    /\ At(w, "each path")
    /\ \E l \in Top(w).todo :
         LET rest == [Top(w) EXCEPT !.todo = @ \ {l}]
         IN IF l \notin paths THEN Fail(w)
            ELSE /\ IF Cardinality(badges[l]) <= 1
                    THEN Call(w, rest, [at |-> "list entries", path |-> l])
                    ELSE Goto(w, rest)
                 /\ UNCHANGED stubs
    /\ UNCHANGED <<classes, paths, badges, granted, requests, made, late>>

\* A path that has two badges or fewer is deleted; looking up one that is gone
\* raises DoesNotExist.
CountBadges(w) ==
    /\ At(w, "each path")
    /\ \E l \in Top(w).todo :
         LET rest == [Top(w) EXCEPT !.todo = @ \ {l}]
         IN IF l \notin paths THEN Fail(w)
            ELSE /\ IF Cardinality(badges[l]) <= 2
                    THEN Call(w, rest, [at |-> "list entries", path |-> l])
                    ELSE Goto(w, rest)
                 /\ UNCHANGED stubs
    /\ UNCHANGED <<classes, paths, badges, granted, requests, made, late>>

\* Mutant: the paths that award the class stay.
DropClassOnly(w) ==
    /\ At(w, "each path") /\ Top(w).todo = {}
    /\ LET b == Top(w).badge
       IN /\ classes' = classes \ {b}
          /\ badges' = [l \in LP |-> badges[l] \ {b}]
          /\ granted' = [granted EXCEPT ![b] = "none"]
          /\ stubs' = stubs \cup {l \in LP : b \in badges[l] /\ Outdated(l, b)}
    /\ Return(w)
    /\ UNCHANGED <<paths, requests, made, late>>

\* The row goes in a transaction, with all that refers to it (CASCADE): its
\* assertions, its places in paths, and the paths that award it.
DropClass(w) ==
    /\ At(w, "each path") /\ Top(w).todo = {}
    /\ LET b == Top(w).badge
           orphans == {l \in LP : Part[l] = b}
       IN /\ classes' = classes \ {b}
          /\ paths' = paths \ orphans
          /\ badges' = [l \in LP |-> IF l \in orphans THEN {} ELSE badges[l] \ {b}]
          /\ granted' = [granted EXCEPT ![b] = "none"]
          /\ stubs' = stubs \cup {l \in LP : b \in badges[l] /\ Outdated(l, b)}
    /\ Return(w)
    /\ UNCHANGED <<requests, made, late>>

----------------------------------------------------------------------------
(* LearningPathDetail.delete and LearningPath.delete *)

\* Mutant: awarded micro degrees are not looked for.
DeleteAwarded(w) == \E l \in paths :
    /\ Begin(w, [at |-> "list entries", path |-> l])
    /\ UNCHANGED <<classes, paths, badges, granted, made, stubs, late>>

\* "This learning path has already been completed by at least one user and can
\* no longer be deleted."
DeletePath(w) == \E l \in paths :
    /\ granted[Part[l]] = "none"
    /\ Begin(w, [at |-> "list entries", path |-> l])
    /\ UNCHANGED <<classes, paths, badges, granted, made, stubs, late>>

\* The other paths that have the participation badge; looking that up raises
\* DoesNotExist if it is gone.
ListEntries(w) ==
    /\ At(w, "list entries")
    /\ LET l == Top(w).path
       IN IF Part[l] \notin classes THEN Fail(w)
          ELSE /\ Goto(w, [at |-> "each entry", path |-> l,
                           todo |-> {m \in paths \ {l} : Part[l] \in badges[m]}])
               /\ UNCHANGED stubs
    /\ UNCHANGED <<classes, paths, badges, granted, requests, made, late>>

\* Mutant: the list does not get shorter.
RemoveEntryAgain(w) ==
    /\ At(w, "each entry")
    /\ \E m \in Top(w).todo :
         LET l == Top(w).path
         IN /\ badges' = [badges EXCEPT ![m] = @ \ {Part[l]}]
            /\ stubs' = IF Part[l] \in badges[m] /\ Outdated(m, Part[l])
                        THEN stubs \cup {m} ELSE stubs
            /\ Goto(w, [at |-> "count", path |-> l, todo |-> Top(w).todo,
                        shrunk |-> m])
    /\ UNCHANGED <<classes, paths, granted, requests, made, late>>

RemoveEntry(w) ==
    /\ At(w, "each entry")
    /\ \E m \in Top(w).todo :
         LET l == Top(w).path
         IN /\ badges' = [badges EXCEPT ![m] = @ \ {Part[l]}]
            /\ stubs' = IF Part[l] \in badges[m] /\ Outdated(m, Part[l])
                        THEN stubs \cup {m} ELSE stubs
            /\ Goto(w, [at |-> "count", path |-> l, todo |-> Top(w).todo \ {m},
                        shrunk |-> m])
    /\ UNCHANGED <<classes, paths, granted, requests, made, late>>

\* A path that is left with fewer than two badges is deleted, too.
CountLeft(w) ==
    /\ At(w, "count")
    /\ LET f == Top(w)
           rest == [at |-> "each entry", path |-> f.path, todo |-> f.todo]
       IN IF f.shrunk \notin paths THEN Fail(w)
          ELSE /\ IF Cardinality(badges[f.shrunk]) < 2
                  THEN Call(w, rest, [at |-> "list entries", path |-> f.shrunk])
                  ELSE Goto(w, rest)
               /\ UNCHANGED stubs
    /\ UNCHANGED <<classes, paths, badges, granted, requests, made, late>>

\* The row goes with its badges, if it is still there.
DropPath(w) ==
    /\ At(w, "each entry") /\ Top(w).todo = {}
    /\ paths' = paths \ {Top(w).path}
    /\ badges' = [badges EXCEPT ![Top(w).path] = {}]
    /\ Return(w)
    /\ UNCHANGED <<classes, granted, requests, made, stubs, late>>

----------------------------------------------------------------------------
(* LearningPathSerializerV1.create, and requests that save a path. *)

\* The participation badge and the badges are looked up.
Post(w) == \E l \in LP \ made, S \in Contents :
    /\ {Part[l]} \cup S \subseteq classes
    /\ Begin(w, [at |-> "insert", path |-> l, todo |-> S])
    /\ made' = made \cup {l}
    /\ stubs' = IF Cardinality(S) < 2 THEN stubs \cup {l} ELSE stubs \ {l}
    /\ UNCHANGED <<classes, paths, badges, granted, late>>

\* Rows refer to rows that exist: otherwise the statement raises.
Insert(w) ==
    /\ At(w, "insert")
    /\ IF Part[Top(w).path] \in classes
       THEN /\ paths' = paths \cup {Top(w).path}
            /\ Goto(w, [Top(w) EXCEPT !.at = "fill"])
            /\ UNCHANGED stubs
       ELSE Fail(w) /\ UNCHANGED paths
    /\ UNCHANGED <<classes, badges, granted, requests, made, late>>

\* The badges are added one by one.
Fill(w) ==
    /\ At(w, "fill")
    /\ \E b \in Top(w).todo :
         LET l == Top(w).path
         IN IF l \in paths /\ b \in classes
            THEN /\ badges' = [badges EXCEPT ![l] = @ \cup {b}]
                 /\ Goto(w, [Top(w) EXCEPT !.todo = @ \ {b}])
                 /\ stubs' = IF \E u \in Worker : \E f \in Frames(u) :
                                   Passed(f, l) /\ f.badge = b
                             THEN stubs \cup {l} ELSE stubs
            ELSE Fail(w) /\ UNCHANGED badges
    /\ UNCHANGED <<classes, paths, granted, requests, made, late>>

Filled(w) ==
    /\ At(w, "fill") /\ Top(w).todo = {}
    /\ Return(w)
    /\ UNCHANGED <<classes, paths, badges, granted, requests, made, stubs, late>>

\* PUT without "badges", and archive: the path is loaded ...
Load(w) == \E l \in paths :
    /\ Begin(w, [at |-> "save", path |-> l])
    /\ UNCHANGED <<classes, paths, badges, granted, made, stubs, late>>

\* ... and saved, which inserts it again if it is gone.
Save(w) ==
    /\ At(w, "save")
    /\ LET l == Top(w).path
       IN IF l \in paths THEN Return(w) /\ UNCHANGED <<paths, stubs>>
          ELSE /\ paths' = IF Part[l] \in classes THEN paths \cup {l} ELSE paths
               /\ Fail(w)
    /\ UNCHANGED <<classes, badges, granted, requests, made, late>>

----------------------------------------------------------------------------
(* Assertions are awarded, expire and are revoked meanwhile. *)

Award(b) ==
    /\ b \in classes
    /\ granted' = [granted EXCEPT ![b] = "live"]
    /\ late' = late \cup {l \in LP : /\ Part[l] = b
                                     /\ \E w \in Worker : l \in Involved(w)}
    /\ UNCHANGED <<classes, paths, badges, calls, requests, made, stubs>>

\* The last live assertion expires.
Expire(b) ==
    /\ granted[b] = "live"
    /\ granted' = [granted EXCEPT ![b] = "expired"]
    /\ UNCHANGED <<classes, paths, badges, calls, requests, made, stubs, late>>

\* The last assertion is revoked.
Revoke(b) ==
    /\ granted[b] # "none"
    /\ granted' = [granted EXCEPT ![b] = "none"]
    /\ UNCHANGED <<classes, paths, badges, calls, requests, made, stubs, late>>

----------------------------------------------------------------------------

\* The process is killed, or a statement fails.
Crash(w) ==
    /\ ~Idle(w)
    /\ Fail(w)
    /\ UNCHANGED <<classes, paths, badges, granted, requests, made, late>>

Work(w) == ListPaths(w) \/ CountBadges(w) \/ DropClass(w)
             \/ ListEntries(w) \/ RemoveEntry(w) \/ CountLeft(w) \/ DropPath(w)
             \/ Insert(w) \/ Fill(w) \/ Filled(w) \/ Save(w)

Request(w) == DeleteClass(w) \/ DeletePath(w) \/ Post(w) \/ Load(w)

Next == \/ \E w \in Worker : Work(w) \/ Request(w) \/ Crash(w)
        \/ \E b \in Awardable : Award(b) \/ Expire(b) \/ Revoke(b)

Spec == Init /\ [][Next]_vars

\* A request that has begun goes on.
FairSpec == Spec /\ \A w \in Worker : WF_vars(Work(w))

----------------------------------------------------------------------------
(* Properties. *)

\* The tables refer to rows that exist, whatever is created, saved and deleted
\* at the same time.
PathLifeTypeOK ==
    /\ classes \subseteq Badge
    /\ paths \subseteq made
    /\ \A l \in paths : Part[l] \in classes
    /\ badges \in [LP -> SUBSET classes]
    /\ \A l \in LP \ paths : badges[l] = {}
    /\ granted \in [Badge -> {"none", "expired", "live"}]
    /\ \A b \in Badge \ classes : granted[b] = "none"
    /\ calls \in [Worker -> Seq(Frame)]
    /\ requests \in 0..MaxRequests
    /\ made \subseteq LP /\ stubs \subseteq LP /\ late \subseteq LP

\* BadgeClass.delete and LearningPath.delete delete the paths that they leave
\* with fewer than two badges: no path stays behind with one, unless it was
\* made so, a request died, or its badges had been counted by the deletion of
\* a badge class when another deletion, or one nested in it, took a badge.
TwoLeft ==
    (\A w \in Worker : Idle(w)) =>
        \A l \in paths \ stubs : Cardinality(badges[l]) >= 2

\* A request to delete a path does not delete one that has awarded micro
\* degrees: such a path goes only with a badge class, with another path, or
\* when the degree is awarded while the request is served.
CompletedKept ==
    [][\A l \in paths \ paths' :
         granted[Part[l]] # "none" /\ l \notin late
         => \E w \in Worker :
               /\ calls'[w] # calls[w]
               /\ Root(w).at = "each path" \/ Root(w).path # l]_vars

\* Every request ends, also if learning paths contain each other's
\* participation badges.
RequestsEnd == \A w \in Worker : ~Idle(w) ~> Idle(w)

=============================================================================
