-------------------------- MODULE PathLife_proofs --------------------------
(***************************************************************************)
(* Proofs about PathLife, for any badge classes, learning paths and workers. *)
(***************************************************************************)
EXTENDS PathLife, FiniteSetTheorems, SequenceTheorems, TLAPS

----------------------------------------------------------------------------
(* Stacks of calls. *)

Elements(s) == {s[k] : k \in DOMAIN s}

\* The calls below the innermost one.
Rest(w) == Elements(Tail(calls[w]))

Stacks == calls \in [Worker -> Seq(Frame)]

LEMMA PushElements ==
    ASSUME NEW S, NEW s \in Seq(S), s # <<>>, NEW e \in S
    PROVE  /\ Head(s) \in S
           /\ Tail(s) \in Seq(S)
           /\ Elements(s) = {Head(s)} \cup Elements(Tail(s))
           /\ <<e>> \o Tail(s) \in Seq(S)
           /\ <<e>> \o Tail(s) # <<>>
           /\ Elements(<<e>> \o Tail(s)) = {e} \cup Elements(Tail(s))
<1>1. /\ Head(s) \in S /\ Tail(s) \in Seq(S)
      /\ Len(s) \in Nat /\ Len(s) >= 1 /\ Len(Tail(s)) = Len(s) - 1
      /\ \A k \in 1..Len(s) - 1 : Tail(s)[k] = s[k + 1]
      /\ Head(s) = s[1]
      /\ DOMAIN s = 1..Len(s) /\ DOMAIN Tail(s) = 1..Len(s) - 1
  OBVIOUS
<1>2. Elements(s) = {Head(s)} \cup Elements(Tail(s))
  <2>1. ASSUME NEW x \in Elements(s) PROVE x \in {Head(s)} \cup Elements(Tail(s))
    <3>1. PICK k \in 1..Len(s) : x = s[k]
      BY <1>1 DEF Elements
    <3>2. CASE k = 1
      BY <3>1, <3>2, <1>1
    <3>3. CASE k # 1
      <4>1. k - 1 \in 1..Len(s) - 1 /\ x = Tail(s)[k - 1]
        BY <3>1, <3>3, <1>1
      <4>2. QED
        BY <4>1, <1>1 DEF Elements
    <3>4. QED
      BY <3>2, <3>3
  <2>2. ASSUME NEW x \in {Head(s)} \cup Elements(Tail(s)) PROVE x \in Elements(s)
    <3>1. CASE x = Head(s)
      BY <3>1, <1>1 DEF Elements
    <3>2. CASE x \in Elements(Tail(s))
      <4>1. PICK k \in 1..Len(s) - 1 : x = Tail(s)[k]
        BY <3>2, <1>1 DEF Elements
      <4>2. k + 1 \in 1..Len(s) /\ x = s[k + 1]
        BY <4>1, <1>1
      <4>3. QED
        BY <4>2, <1>1 DEF Elements
    <3>3. QED
      BY <2>2, <3>1, <3>2
  <2>3. QED
    BY <2>1, <2>2
<1>3. DEFINE t == Tail(s)
             p == <<e>> \o t
<1>4. /\ p \in Seq(S) /\ p # <<>>
      /\ Len(p) = Len(t) + 1 /\ DOMAIN p = 1..Len(t) + 1
      /\ p[1] = e
      /\ \A k \in 1..Len(t) : p[k + 1] = t[k]
      /\ DOMAIN t = 1..Len(t) /\ Len(t) \in Nat
  BY <1>1
<1>5. Elements(p) = {e} \cup Elements(t)
  <2> HIDE DEF p, t
  <2>1. ASSUME NEW x \in Elements(p) PROVE x \in {e} \cup Elements(t)
    <3>1. PICK k \in 1..Len(t) + 1 : x = p[k]
      BY <1>4 DEF Elements
    <3>2. CASE k = 1
      BY <3>1, <3>2, <1>4
    <3>3. CASE k # 1
      <4>1. k - 1 \in 1..Len(t) /\ x = t[k - 1]
        BY <3>1, <3>3, <1>4
      <4>2. QED
        BY <4>1, <1>4 DEF Elements
    <3>4. QED
      BY <3>2, <3>3
  <2>2. ASSUME NEW x \in {e} \cup Elements(t) PROVE x \in Elements(p)
    <3>1. CASE x = e
      BY <3>1, <1>4 DEF Elements
    <3>2. CASE x \in Elements(t)
      <4>1. PICK k \in 1..Len(t) : x = t[k]
        BY <3>2, <1>4 DEF Elements
      <4>2. k + 1 \in 1..Len(t) + 1 /\ x = p[k + 1]
        BY <4>1, <1>4
      <4>3. QED
        BY <4>2, <1>4 DEF Elements
    <3>3. QED
      BY <2>2, <3>1, <3>2
  <2>3. QED
    BY <2>1, <2>2
<1>6. QED
  BY <1>1, <1>2, <1>4, <1>5

LEMMA OneElement ==
    ASSUME NEW S, NEW e \in S
    PROVE  /\ <<>> \in Seq(S) /\ Elements(<<>>) = {}
           /\ <<e>> \in Seq(S) /\ Elements(<<e>>) = {e}
  BY DEF Elements

----------------------------------------------------------------------------
(* What the operations on the stack do to the calls that are on it. *)

LEMMA TopOf ==
    ASSUME Stacks, NEW w \in Worker, ~Idle(w)
    PROVE  Top(w) \in Frame /\ Frames(w) = {Top(w)} \cup Rest(w)
<1>1. calls[w] \in Seq(Frame) /\ calls[w] # <<>>
  BY DEF Stacks, Idle
<1>2. Head(calls[w]) \in Frame
  BY <1>1
<1>3. Elements(calls[w]) = {Head(calls[w])} \cup Elements(Tail(calls[w]))
  BY <1>1, <1>2, PushElements
<1>4. QED
  BY <1>2, <1>3 DEF Top, Frames, Rest, Elements

LEMMA OtherFrames ==
    ASSUME Stacks, NEW w \in Worker, NEW s, calls' = [calls EXCEPT ![w] = s]
    PROVE  /\ Frames(w)' = Elements(s)
           /\ \A u \in Worker \ {w} : Frames(u)' = Frames(u)
           /\ s \in Seq(Frame) => Stacks'
  BY DEF Stacks, Frames, Elements

LEMMA GotoFrames ==
    ASSUME Stacks, NEW w \in Worker, ~Idle(w), NEW f \in Frame, Goto(w, f)
    PROVE  /\ Stacks'
           /\ Frames(w)' = {f} \cup Rest(w)
           /\ \A u \in Worker \ {w} : Frames(u)' = Frames(u)
<1>1. calls[w] \in Seq(Frame) /\ calls[w] # <<>>
  BY DEF Stacks, Idle
<1>2. DEFINE s == <<f>> \o Tail(calls[w])
<1>3. s \in Seq(Frame) /\ Elements(s) = {f} \cup Rest(w)
  BY <1>1, PushElements DEF Rest
<1>4. calls' = [calls EXCEPT ![w] = s]
  BY DEF Goto, Stacks
<1>5. QED
  <2> HIDE DEF s
  <2> QED BY <1>3, <1>4, OtherFrames

LEMMA CallFrames ==
    ASSUME Stacks, NEW w \in Worker, ~Idle(w), NEW f \in Frame, NEW g \in Frame,
           Call(w, f, g)
    PROVE  /\ Stacks'
           /\ Frames(w)' = {f, g} \cup Rest(w)
           /\ \A u \in Worker \ {w} : Frames(u)' = Frames(u)
<1>1. calls[w] \in Seq(Frame) /\ calls[w] # <<>>
  BY DEF Stacks, Idle
<1>2. DEFINE r == <<f>> \o Tail(calls[w])
             s == <<g>> \o r
<1>3. r \in Seq(Frame) /\ r # <<>> /\ Elements(r) = {f} \cup Rest(w)
  BY <1>1, PushElements DEF Rest
<1>4. s \in Seq(Frame) /\ Elements(s) = {g} \cup Elements(r)
  <2>1. DEFINE q == <<f>> \o r
  <2>2. r = Tail(q) /\ q \in Seq(Frame) /\ q # <<>>
    <3> HIDE DEF r
    <3> QED BY <1>3
  <2>3. QED
    <3> HIDE DEF q, r
    <3> QED BY <2>2, PushElements
<1>5. calls' = [calls EXCEPT ![w] = s]
  <2>1. <<g, f>> \o Tail(calls[w]) = <<g>> \o (<<f>> \o Tail(calls[w]))
    BY <1>1
  <2>2. QED
    BY <2>1 DEF Call, Stacks
<1>6. QED
  <2> HIDE DEF s, r
  <2> QED BY <1>3, <1>4, <1>5, OtherFrames

LEMMA ReturnFrames ==
    ASSUME Stacks, NEW w \in Worker, ~Idle(w), Return(w)
    PROVE  /\ Stacks'
           /\ Frames(w)' = Rest(w)
           /\ \A u \in Worker \ {w} : Frames(u)' = Frames(u)
<1>1. calls[w] \in Seq(Frame) /\ calls[w] # <<>>
  BY DEF Stacks, Idle
<1>2. DEFINE s == Tail(calls[w])
<1>3. s \in Seq(Frame) /\ Elements(s) = Rest(w)
  BY <1>1 DEF Rest
<1>4. calls' = [calls EXCEPT ![w] = s]
  BY DEF Return, Stacks
<1>5. QED
  <2> HIDE DEF s
  <2> QED BY <1>3, <1>4, OtherFrames

LEMMA BeginFrames ==
    ASSUME Stacks, NEW w \in Worker, NEW f \in Frame, Begin(w, f)
    PROVE  /\ Stacks'
           /\ Frames(w) = {} /\ Frames(w)' = {f}
           /\ \A u \in Worker \ {w} : Frames(u)' = Frames(u)
<1>1. Frames(w) = {}
  BY DEF Begin, Idle, Frames
<1>2. DEFINE s == <<f>>
<1>3. s \in Seq(Frame) /\ Elements(s) = {f}
  BY OneElement
<1>4. calls' = [calls EXCEPT ![w] = s]
  BY DEF Begin
<1>5. QED
  <2> HIDE DEF s
  <2> QED BY <1>1, <1>3, <1>4, OtherFrames

LEMMA FailFrames ==
    ASSUME Stacks, NEW w \in Worker, Fail(w)
    PROVE  /\ Stacks'
           /\ Frames(w)' = {}
           /\ \A u \in Worker \ {w} : Frames(u)' = Frames(u)
           /\ stubs' = stubs \cup Involved(w)
<1>1. DEFINE s == <<>>
<1>2. s \in Seq(Frame) /\ Elements(s) = {}
  BY DEF Elements
<1>3. calls' = [calls EXCEPT ![w] = s]
  BY DEF Fail
<1>4. QED
  <2> HIDE DEF s
  <2> QED BY <1>2, <1>3, OtherFrames DEF Fail

----------------------------------------------------------------------------
(* The shapes of calls. *)

LEMMA FrameKinds ==
    ASSUME NEW f \in Frame
    PROVE  /\ f.at = "list paths" => f \in [at : {"list paths"}, badge : Badge]
           /\ f.at = "each path" =>
                f \in [at : {"each path"}, badge : Badge, todo : SUBSET LP]
           /\ f.at = "list entries" => f \in [at : {"list entries"}, path : LP]
           /\ f.at = "each entry" =>
                f \in [at : {"each entry"}, path : LP, todo : SUBSET LP]
           /\ f.at = "count" =>
                f \in [at : {"count"}, path : LP, todo : SUBSET LP, shrunk : LP]
           /\ f.at \in {"insert", "fill"} =>
                f \in [at : {"insert", "fill"}, path : LP, todo : SUBSET Badge]
           /\ f.at = "save" => f \in [at : {"save"}, path : LP]
  BY DEF Frame

LEMMA NewFrames ==
    /\ \A b \in Badge : [at |-> "list paths", badge |-> b] \in Frame
    /\ \A b \in Badge, S \in SUBSET LP :
         [at |-> "each path", badge |-> b, todo |-> S] \in Frame
    /\ \A l \in LP : /\ [at |-> "list entries", path |-> l] \in Frame
                     /\ [at |-> "save", path |-> l] \in Frame
    /\ \A l \in LP, S \in SUBSET LP :
         [at |-> "each entry", path |-> l, todo |-> S] \in Frame
    /\ \A l \in LP, m \in LP, S \in SUBSET LP :
         [at |-> "count", path |-> l, todo |-> S, shrunk |-> m] \in Frame
    /\ \A l \in LP, S \in SUBSET Badge :
         [at |-> "insert", path |-> l, todo |-> S] \in Frame
  BY DEF Frame

----------------------------------------------------------------------------
(* Types, and: who is about to write a path has its primary key. *)

NewOK == \A w \in Worker : \A f \in Frames(w) :
    f.at \in {"insert", "save"} => f.path \in made

TypeInv == PathLifeTypeOK /\ NewOK

\* The parts of PathLifeTypeOK that are not about calls.
TablesOK ==
    /\ classes \subseteq Badge
    /\ paths \subseteq made
    /\ \A l \in paths : Part[l] \in classes
    /\ badges \in [LP -> SUBSET classes]
    /\ \A l \in LP \ paths : badges[l] = {}
    /\ granted \in [Badge -> {"none", "expired", "live"}]
    /\ \A b \in Badge \ classes : granted[b] = "none"
    /\ requests \in 0..MaxRequests
    /\ made \subseteq LP /\ stubs \subseteq LP /\ late \subseteq LP

LEMMA TypeParts == PathLifeTypeOK <=> TablesOK /\ Stacks
  BY DEF PathLifeTypeOK, TablesOK, Stacks

LEMMA InvolvedPaths ==
    ASSUME Stacks, NEW w \in Worker
    PROVE  Involved(w) \subseteq LP
<1>1. \A f \in Frames(w) : f \in Frame
  BY DEF Stacks, Frames
<1>2. ASSUME NEW f \in Frames(w), f.at \notin {"list paths", "each path"}
      PROVE  f.path \in LP
  BY <1>1, <1>2 DEF Frame
<1>3. ASSUME NEW f \in Frames(w), f.at = "count"
      PROVE  f.shrunk \in LP
  BY <1>1, <1>3, FrameKinds
<1>4. QED
  BY <1>2, <1>3 DEF Involved

LEMMA InitTypeInv == Init => TypeInv
<1> SUFFICES ASSUME Init PROVE TypeInv
  OBVIOUS
<1> USE PathLifeConstants
<1>1. Stacks
  BY DEF Init, Stacks
<1>2. TablesOK
  BY DEF Init, TablesOK
<1>3. NewOK
  BY DEF Init, NewOK, Frames
<1>4. QED
  BY <1>1, <1>2, <1>3, TypeParts DEF TypeInv

\* A worker that writes no key of its own keeps NewOK.
LEMMA NewKept ==
    ASSUME NewOK, NEW w \in Worker,
           \A u \in Worker \ {w} : Frames(u)' = Frames(u),
           made \subseteq made',
           \A f \in Frames(w)' : \/ f \in Frames(w)
                                 \/ f.at \in {"insert", "save"} => f.path \in made'
    PROVE  NewOK'
  BY DEF NewOK

LEMMA TypeStep == TypeInv /\ [Next]_vars => TypeInv'
<1> SUFFICES ASSUME TypeInv, [Next]_vars PROVE TypeInv'
  OBVIOUS
<1> USE PathLifeConstants
<1>1. TablesOK /\ Stacks /\ NewOK
  BY TypeParts DEF TypeInv
<1>2. SUFFICES TablesOK' /\ Stacks' /\ NewOK'
  <2>1. PathLifeTypeOK' <=> TablesOK' /\ Stacks'
    BY DEF PathLifeTypeOK, TablesOK, Stacks
  <2>2. QED
    BY <2>1 DEF TypeInv
<1>3. ASSUME NEW w \in Worker, ~Idle(w)
      PROVE  /\ Top(w) \in Frame /\ Frames(w) = {Top(w)} \cup Rest(w)
             /\ Top(w).at \in {"insert", "save"} => Top(w).path \in made
  BY <1>1, <1>3, TopOf DEF NewOK
<1>4. ASSUME NEW w \in Worker, DeleteClass(w) PROVE TablesOK' /\ Stacks' /\ NewOK'
  <2>1. PICK b \in classes : DeleteClass(w)!(b)
    BY <1>4 DEF DeleteClass
  <2>2. DEFINE f == [at |-> "list paths", badge |-> b]
  <2>3. f \in Frame /\ f.at \notin {"insert", "save"}
    BY <1>1, NewFrames DEF TablesOK
  <2>4. /\ Begin(w, f)
        /\ UNCHANGED <<classes, paths, badges, granted, made, stubs, late>>
    BY <2>1
  <2>5. /\ Stacks' /\ Frames(w)' = {f}
        /\ \A u \in Worker \ {w} : Frames(u)' = Frames(u)
    <3> HIDE DEF f
    <3> QED BY <1>1, <2>3, <2>4, BeginFrames
  <2>6. TablesOK'
    <3> HIDE DEF f
    <3> QED BY <1>1, <2>4 DEF TablesOK, Begin
  <2>7. NewOK'
    <3> HIDE DEF f
    <3> QED BY <1>1, <2>3, <2>4, <2>5, NewKept
  <2>8. QED
    BY <2>5, <2>6, <2>7
<1>5. ASSUME NEW w \in Worker, ListPaths(w) PROVE TablesOK' /\ Stacks' /\ NewOK'
  <2>1. DEFINE b == Top(w).badge
               f == [at |-> "each path", badge |-> b, todo |-> {l \in paths : b \in badges[l]}]
  <2>2. ~Idle(w) /\ Top(w).at = "list paths" /\ Goto(w, f)
    BY <1>5 DEF ListPaths, At
  <2>3. b \in Badge
    BY <1>3, <2>2, FrameKinds
  <2>4. f \in Frame /\ f.at = "each path"
    BY <1>1, <2>3, NewFrames DEF TablesOK
  <2>5. /\ Stacks' /\ Frames(w)' = {f} \cup Rest(w)
        /\ \A u \in Worker \ {w} : Frames(u)' = Frames(u)
    <3> HIDE DEF f
    <3> QED BY <1>1, <2>2, <2>4, GotoFrames
  <2>6. TablesOK'
    BY <1>1, <1>5 DEF TablesOK, ListPaths
  <2>7. NewOK'
    <3>1. made' = made
      BY <1>5 DEF ListPaths
    <3> HIDE DEF f
    <3>2. QED
      BY <1>1, <1>3, <2>2, <2>4, <2>5, <3>1, NewKept
  <2>8. QED
    BY <2>5, <2>6, <2>7
<1>6. ASSUME NEW w \in Worker, CountBadges(w) PROVE TablesOK' /\ Stacks' /\ NewOK'
  <2>1. ~Idle(w) /\ Top(w).at = "each path"
    BY <1>6 DEF CountBadges, At
  <2>2. Top(w) \in [at : {"each path"}, badge : Badge, todo : SUBSET LP]
    BY <1>3, <2>1, FrameKinds
  <2>3. PICK l \in Top(w).todo : CountBadges(w)!2!(l)
    BY <1>6 DEF CountBadges
  <2>4. DEFINE rest == [Top(w) EXCEPT !.todo = @ \ {l}]
               callee == [at |-> "list entries", path |-> l]
  <2>5. l \in LP /\ rest \in Frame /\ callee \in Frame
        /\ rest.at = "each path" /\ callee.at = "list entries"
    BY <2>2, NewFrames DEF Frame
  <2>6. CASE l \notin paths
    <3>1. Fail(w)
      BY <2>3, <2>6
    <3>2. QED
      BY <1>1, <1>6, <3>1, FailFrames, InvolvedPaths, NewKept DEF CountBadges, TablesOK
  <2>7. CASE l \in paths
    <3>1. Call(w, rest, callee) \/ Goto(w, rest)
      BY <2>3, <2>7
    <3>2. /\ Stacks' /\ Frames(w)' \subseteq {rest, callee} \cup Rest(w)
          /\ \A u \in Worker \ {w} : Frames(u)' = Frames(u)
      <4> HIDE DEF rest, callee
      <4>1. CASE Call(w, rest, callee)
        BY <1>1, <2>1, <2>5, <4>1, CallFrames
      <4>2. CASE Goto(w, rest)
        BY <1>1, <2>1, <2>5, <4>2, GotoFrames
      <4>3. QED
        BY <3>1, <4>1, <4>2
    <3>3. stubs' = stubs
      BY <2>3, <2>7
    <3>4. TablesOK'
      BY <1>1, <1>6, <3>3 DEF TablesOK, CountBadges
    <3>5. made' = made
      BY <1>6 DEF CountBadges
    <3>6. NewOK'
      <4> HIDE DEF rest, callee
      <4> QED BY <1>1, <1>3, <2>1, <2>5, <3>2, <3>5, NewKept
    <3>7. QED
      BY <3>2, <3>4, <3>6
  <2>8. QED
    BY <2>6, <2>7
<1>7. ASSUME NEW w \in Worker, DropClass(w) PROVE TablesOK' /\ Stacks' /\ NewOK'
  <2>1. ~Idle(w) /\ Return(w)
    BY <1>7 DEF DropClass, At
  <2>2. /\ Stacks' /\ Frames(w)' = Rest(w)
        /\ \A u \in Worker \ {w} : Frames(u)' = Frames(u)
    BY <1>1, <2>1, ReturnFrames
  <2>3. TablesOK'
    BY <1>1, <1>7 DEF TablesOK, DropClass
  <2>4. NewOK'
    BY <1>1, <1>3, <1>7, <2>1, <2>2, NewKept DEF DropClass
  <2>5. QED
    BY <2>2, <2>3, <2>4
<1>8. ASSUME NEW w \in Worker, DeletePath(w) PROVE TablesOK' /\ Stacks' /\ NewOK'
  <2>1. PICK l \in paths : DeletePath(w)!(l)
    BY <1>8 DEF DeletePath
  <2>2. DEFINE f == [at |-> "list entries", path |-> l]
  <2>3. f \in Frame /\ f.at \notin {"insert", "save"}
    BY <1>1, NewFrames DEF TablesOK
  <2>4. /\ Begin(w, f)
        /\ UNCHANGED <<classes, paths, badges, granted, made, stubs, late>>
    BY <2>1
  <2>5. /\ Stacks' /\ Frames(w)' = {f}
        /\ \A u \in Worker \ {w} : Frames(u)' = Frames(u)
    <3> HIDE DEF f
    <3> QED BY <1>1, <2>3, <2>4, BeginFrames
  <2>6. TablesOK'
    <3> HIDE DEF f
    <3> QED BY <1>1, <2>4 DEF TablesOK, Begin
  <2>7. NewOK'
    <3> HIDE DEF f
    <3> QED BY <1>1, <2>3, <2>4, <2>5, NewKept
  <2>8. QED
    BY <2>5, <2>6, <2>7
<1>9. ASSUME NEW w \in Worker, ListEntries(w) PROVE TablesOK' /\ Stacks' /\ NewOK'
  <2>1. DEFINE l == Top(w).path
               S == {m \in paths \ {l} : Part[l] \in badges[m]}
               f == [at |-> "each entry", path |-> l, todo |-> S]
  <2>2. ~Idle(w) /\ Top(w).at = "list entries"
    BY <1>9 DEF ListEntries, At
  <2>3. l \in LP
    BY <1>3, <2>2, FrameKinds
  <2>4. f \in Frame /\ f.at = "each entry"
    BY <1>1, <2>3, NewFrames DEF TablesOK
  <2>5. CASE Fail(w)
    <3> HIDE DEF l, S, f
    <3>1. UNCHANGED <<classes, paths, badges, granted, requests, made, late>>
      BY <1>9 DEF ListEntries
    <3>2. QED
      BY <1>1, <2>5, <3>1, FailFrames, InvolvedPaths, NewKept DEF TablesOK
  <2>6. CASE Goto(w, f) /\ UNCHANGED stubs
    <3>1. /\ Stacks' /\ Frames(w)' = {f} \cup Rest(w)
          /\ \A u \in Worker \ {w} : Frames(u)' = Frames(u)
      <4> HIDE DEF f
      <4> QED BY <1>1, <2>2, <2>4, <2>6, GotoFrames
    <3>2. TablesOK'
      BY <1>1, <1>9, <2>6 DEF TablesOK, ListEntries
    <3>3. made' = made
      BY <1>9 DEF ListEntries
    <3>4. NewOK'
      <4> HIDE DEF f
      <4> QED BY <1>1, <1>3, <2>2, <2>4, <3>1, <3>3, NewKept
    <3>5. QED
      BY <3>1, <3>2, <3>4
  <2>7. QED
    BY <1>9, <2>5, <2>6 DEF ListEntries
<1>10. ASSUME NEW w \in Worker, RemoveEntry(w) PROVE TablesOK' /\ Stacks' /\ NewOK'
  <2>1. ~Idle(w) /\ Top(w).at = "each entry"
    BY <1>10 DEF RemoveEntry, At
  <2>2. Top(w) \in [at : {"each entry"}, path : LP, todo : SUBSET LP]
    BY <1>3, <2>1, FrameKinds
  <2>3. PICK m \in Top(w).todo : RemoveEntry(w)!2!(m)
    BY <1>10 DEF RemoveEntry
  <2>4. DEFINE l == Top(w).path
               f == [at |-> "count", path |-> l, todo |-> Top(w).todo \ {m}, shrunk |-> m]
  <2>5. l \in LP /\ m \in LP /\ f \in Frame /\ f.at = "count"
    BY <2>2, NewFrames
  <2>6. Goto(w, f)
    BY <2>3
  <2>7. /\ Stacks' /\ Frames(w)' = {f} \cup Rest(w)
        /\ \A u \in Worker \ {w} : Frames(u)' = Frames(u)
    <3> HIDE DEF f
    <3> QED BY <1>1, <2>1, <2>5, <2>6, GotoFrames
  <2>8. TablesOK'
    BY <1>1, <1>10, <2>3, <2>5 DEF TablesOK, RemoveEntry
  <2>9. NewOK'
    <3>1. made' = made
      BY <1>10 DEF RemoveEntry
    <3> HIDE DEF f
    <3>2. QED
      BY <1>1, <1>3, <2>1, <2>5, <2>7, <3>1, NewKept
  <2>10. QED
    BY <2>7, <2>8, <2>9
<1>11. ASSUME NEW w \in Worker, CountLeft(w) PROVE TablesOK' /\ Stacks' /\ NewOK'
  <2>1. ~Idle(w) /\ Top(w).at = "count"
    BY <1>11 DEF CountLeft, At
  <2>2. Top(w) \in [at : {"count"}, path : LP, todo : SUBSET LP, shrunk : LP]
    BY <1>3, <2>1, FrameKinds
  <2>3. DEFINE f == Top(w)
               rest == [at |-> "each entry", path |-> f.path, todo |-> f.todo]
               callee == [at |-> "list entries", path |-> f.shrunk]
  <2>4. rest \in Frame /\ callee \in Frame
        /\ rest.at = "each entry" /\ callee.at = "list entries"
    BY <2>2, NewFrames
  <2>5. CASE f.shrunk \notin paths
    <3>1. Fail(w)
      BY <1>11, <2>5 DEF CountLeft
    <3>2. QED
      BY <1>1, <1>11, <3>1, FailFrames, InvolvedPaths, NewKept DEF CountLeft, TablesOK
  <2>6. CASE f.shrunk \in paths
    <3>1. Call(w, rest, callee) \/ Goto(w, rest)
      BY <1>11, <2>6 DEF CountLeft
    <3>2. /\ Stacks' /\ Frames(w)' \subseteq {rest, callee} \cup Rest(w)
          /\ \A u \in Worker \ {w} : Frames(u)' = Frames(u)
      <4> HIDE DEF rest, callee
      <4>1. CASE Call(w, rest, callee)
        BY <1>1, <2>1, <2>4, <4>1, CallFrames
      <4>2. CASE Goto(w, rest)
        BY <1>1, <2>1, <2>4, <4>2, GotoFrames
      <4>3. QED
        BY <3>1, <4>1, <4>2
    <3>3. stubs' = stubs
      BY <1>11, <2>6 DEF CountLeft
    <3>4. TablesOK'
      BY <1>1, <1>11, <3>3 DEF TablesOK, CountLeft
    <3>5. made' = made
      BY <1>11 DEF CountLeft
    <3>6. NewOK'
      <4> HIDE DEF rest, callee
      <4> QED BY <1>1, <1>3, <2>1, <2>4, <3>2, <3>5, NewKept
    <3>7. QED
      BY <3>2, <3>4, <3>6
  <2>7. QED
    BY <2>5, <2>6
<1>12. ASSUME NEW w \in Worker, DropPath(w) PROVE TablesOK' /\ Stacks' /\ NewOK'
  <2>1. ~Idle(w) /\ Return(w) /\ Top(w).at = "each entry"
    BY <1>12 DEF DropPath, At
  <2>2. /\ Stacks' /\ Frames(w)' = Rest(w)
        /\ \A u \in Worker \ {w} : Frames(u)' = Frames(u)
    BY <1>1, <2>1, ReturnFrames
  <2>3. Top(w).path \in LP
    BY <1>3, <2>1, FrameKinds
  <2>4. TablesOK'
    BY <1>1, <1>12, <2>3 DEF TablesOK, DropPath
  <2>5. NewOK'
    BY <1>1, <1>3, <1>12, <2>1, <2>2, NewKept DEF DropPath
  <2>6. QED
    BY <2>2, <2>4, <2>5
<1>13. ASSUME NEW w \in Worker, Post(w) PROVE TablesOK' /\ Stacks' /\ NewOK'
  <2>1. PICK l \in LP \ made, S \in Contents : Post(w)!(l, S)
    BY <1>13 DEF Post
  <2>2. DEFINE f == [at |-> "insert", path |-> l, todo |-> S]
  <2>3. f \in Frame /\ f.path = l
    BY <1>1, NewFrames
  <2>4. Begin(w, f)
    BY <2>1
  <2>5. /\ Stacks' /\ Frames(w)' = {f}
        /\ \A u \in Worker \ {w} : Frames(u)' = Frames(u)
    <3> HIDE DEF f
    <3> QED BY <1>1, <2>3, <2>4, BeginFrames
  <2>6. TablesOK'
    BY <1>1, <2>1 DEF TablesOK, Begin
  <2>7. NewOK'
    <3>1. made' = made \cup {l}
      BY <2>1
    <3> HIDE DEF f
    <3>2. QED
      BY <1>1, <2>3, <2>5, <3>1, NewKept
  <2>8. QED
    BY <2>5, <2>6, <2>7
<1>14. ASSUME NEW w \in Worker, Insert(w) PROVE TablesOK' /\ Stacks' /\ NewOK'
  <2>1. ~Idle(w) /\ Top(w).at = "insert"
    BY <1>14 DEF Insert, At
  <2>2. Top(w) \in [at : {"insert", "fill"}, path : LP, todo : SUBSET Badge]
    BY <1>3, <2>1, FrameKinds
  <2>3. DEFINE f == [Top(w) EXCEPT !.at = "fill"]
  <2>4. f \in Frame /\ f.at = "fill" /\ Top(w).path \in made
    BY <1>3, <2>1, <2>2 DEF Frame
  <2>5. CASE Fail(w) /\ UNCHANGED paths
    BY <1>1, <1>14, <2>5, FailFrames, InvolvedPaths, NewKept DEF Insert, TablesOK
  <2>6. CASE /\ Part[Top(w).path] \in classes /\ paths' = paths \cup {Top(w).path}
             /\ Goto(w, f) /\ UNCHANGED stubs
    <3>1. /\ Stacks' /\ Frames(w)' = {f} \cup Rest(w)
          /\ \A u \in Worker \ {w} : Frames(u)' = Frames(u)
      <4> HIDE DEF f
      <4> QED BY <1>1, <2>1, <2>4, <2>6, GotoFrames
    <3>2. TablesOK'
      BY <1>1, <1>14, <2>4, <2>6 DEF TablesOK, Insert
    <3>3. made' = made
      BY <1>14 DEF Insert
    <3>4. NewOK'
      <4> HIDE DEF f
      <4> QED BY <1>1, <1>3, <2>1, <2>4, <3>1, <3>3, NewKept
    <3>5. QED
      BY <3>1, <3>2, <3>4
  <2>7. QED
    BY <1>14, <2>5, <2>6 DEF Insert
<1>15. ASSUME NEW w \in Worker, Fill(w) PROVE TablesOK' /\ Stacks' /\ NewOK'
  <2>1. ~Idle(w) /\ Top(w).at = "fill"
    BY <1>15 DEF Fill, At
  <2>2. Top(w) \in [at : {"insert", "fill"}, path : LP, todo : SUBSET Badge]
    BY <1>3, <2>1, FrameKinds
  <2>3. PICK b \in Top(w).todo : Fill(w)!2!(b)
    BY <1>15 DEF Fill
  <2>4. DEFINE l == Top(w).path
               f == [Top(w) EXCEPT !.todo = @ \ {b}]
  <2>5. f \in Frame /\ f.at = "fill" /\ l \in LP /\ b \in Badge
    BY <2>1, <2>2 DEF Frame
  <2>6. CASE ~(l \in paths /\ b \in classes)
    <3>1. Fail(w) /\ UNCHANGED badges
      BY <2>3, <2>6
    <3>2. QED
      BY <1>1, <1>15, <3>1, FailFrames, InvolvedPaths, NewKept DEF Fill, TablesOK
  <2>7. CASE l \in paths /\ b \in classes
    <3>1. /\ badges' = [badges EXCEPT ![l] = @ \cup {b}]
          /\ Goto(w, f)
          /\ stubs' \subseteq stubs \cup {l}
      BY <2>3, <2>7
    <3>2. /\ Stacks' /\ Frames(w)' = {f} \cup Rest(w)
          /\ \A u \in Worker \ {w} : Frames(u)' = Frames(u)
      <4> HIDE DEF f
      <4> QED BY <1>1, <2>1, <2>5, <3>1, GotoFrames
    <3>3. TablesOK'
      BY <1>1, <1>15, <2>5, <2>7, <3>1 DEF TablesOK, Fill
    <3>4. made' = made
      BY <1>15 DEF Fill
    <3>5. NewOK'
      <4> HIDE DEF f
      <4> QED BY <1>1, <1>3, <2>1, <2>5, <3>2, <3>4, NewKept
    <3>6. QED
      BY <3>2, <3>3, <3>5
  <2>8. QED
    BY <2>6, <2>7
<1>16. ASSUME NEW w \in Worker, Filled(w) PROVE TablesOK' /\ Stacks' /\ NewOK'
  <2>1. ~Idle(w) /\ Return(w)
    BY <1>16 DEF Filled, At
  <2>2. /\ Stacks' /\ Frames(w)' = Rest(w)
        /\ \A u \in Worker \ {w} : Frames(u)' = Frames(u)
    BY <1>1, <2>1, ReturnFrames
  <2>3. TablesOK'
    BY <1>1, <1>16 DEF TablesOK, Filled
  <2>4. NewOK'
    BY <1>1, <1>3, <1>16, <2>1, <2>2, NewKept DEF Filled
  <2>5. QED
    BY <2>2, <2>3, <2>4
<1>17. ASSUME NEW w \in Worker, Load(w) PROVE TablesOK' /\ Stacks' /\ NewOK'
  <2>1. PICK l \in paths : Load(w)!(l)
    BY <1>17 DEF Load
  <2>2. DEFINE f == [at |-> "save", path |-> l]
  <2>3. f \in Frame /\ f.path = l /\ l \in made
    BY <1>1, NewFrames DEF TablesOK
  <2>4. Begin(w, f)
    BY <2>1
  <2>5. /\ Stacks' /\ Frames(w)' = {f}
        /\ \A u \in Worker \ {w} : Frames(u)' = Frames(u)
    <3> HIDE DEF f
    <3> QED BY <1>1, <2>3, <2>4, BeginFrames
  <2>6. TablesOK'
    BY <1>1, <2>1 DEF TablesOK, Begin
  <2>7. NewOK'
    <3>1. made' = made
      BY <2>1
    <3> HIDE DEF f
    <3>2. QED
      BY <1>1, <2>3, <2>5, <3>1, NewKept
  <2>8. QED
    BY <2>5, <2>6, <2>7
<1>18. ASSUME NEW w \in Worker, Save(w) PROVE TablesOK' /\ Stacks' /\ NewOK'
  <2>1. ~Idle(w) /\ Top(w).at = "save" /\ Top(w).path \in made
    BY <1>3, <1>18 DEF Save, At
  <2>2. CASE Top(w).path \in paths
    <3>1. Return(w) /\ UNCHANGED <<paths, stubs>>
      BY <1>18, <2>2 DEF Save
    <3>2. QED
      BY <1>1, <1>3, <1>18, <2>1, <3>1, ReturnFrames, NewKept DEF Save, TablesOK
  <2>3. CASE Top(w).path \notin paths
    <3>1. /\ Fail(w)
          /\ paths' = IF Part[Top(w).path] \in classes THEN paths \cup {Top(w).path}
                      ELSE paths
      BY <1>18, <2>3 DEF Save
    <3>2. /\ Stacks' /\ Frames(w)' = {}
          /\ \A u \in Worker \ {w} : Frames(u)' = Frames(u)
          /\ stubs' = stubs \cup Involved(w)
      BY <1>1, <3>1, FailFrames
    <3>3. TablesOK'
      BY <1>1, <1>18, <2>1, <3>1, <3>2, InvolvedPaths DEF Save, TablesOK
    <3>4. NewOK'
      BY <1>1, <1>18, <3>2, NewKept DEF Save
    <3>5. QED
      BY <3>2, <3>3, <3>4
  <2>4. QED
    BY <2>2, <2>3
<1>19. ASSUME NEW w \in Worker, Crash(w) PROVE TablesOK' /\ Stacks' /\ NewOK'
  BY <1>1, <1>19, FailFrames, InvolvedPaths, NewKept DEF Crash, TablesOK
<1>20. ASSUME NEW b \in Awardable, Award(b) \/ Expire(b) \/ Revoke(b)
       PROVE  TablesOK' /\ Stacks' /\ NewOK'
  <2>1. UNCHANGED <<classes, paths, badges, calls, requests, made, stubs>>
    BY <1>20 DEF Award, Expire, Revoke
  <2>2. Stacks' /\ NewOK'
    BY <1>1, <2>1 DEF Stacks, NewOK, Frames
  <2>3. CASE Award(b)
    BY <1>1, <2>2, <2>3 DEF Award, TablesOK
  <2>4. CASE Expire(b)
    BY <1>1, <2>2, <2>4 DEF Expire, TablesOK
  <2>5. CASE Revoke(b)
    BY <1>1, <2>2, <2>5 DEF Revoke, TablesOK
  <2>6. QED
    BY <1>20, <2>3, <2>4, <2>5
<1>21. CASE UNCHANGED vars
  BY <1>1, <1>21 DEF vars, TablesOK, Stacks, NewOK, Frames
<1>22. QED
  BY <1>4, <1>5, <1>6, <1>7, <1>8, <1>9, <1>10, <1>11, <1>12, <1>13, <1>14, <1>15,
     <1>16, <1>17, <1>18, <1>19, <1>20, <1>21
     DEF Next, Work, Request

\* Whatever is created, saved and deleted at the same time, badges and degrees of
\* learning paths refer to badge classes that exist, and rows that are gone
\* leave nothing behind.
THEOREM PathLifeTypeCorrect == Spec => []PathLifeTypeOK
<1>1. Init => TypeInv
  BY InitTypeInv
<1>2. TypeInv /\ [Next]_vars => TypeInv'
  BY TypeStep
<1>3. TypeInv => PathLifeTypeOK
  BY DEF TypeInv
<1>4. QED
  BY <1>1, <1>2, <1>3, PTL DEF Spec

----------------------------------------------------------------------------
(* No path stays behind with one badge.  While requests are served, a path   *)
(* that has fewer than two badges is being deleted, made, or about to be     *)
(* counted; and a path that the deletion of a badge class has passed has two *)
(* badges beside that class, or is being deleted.                            *)

Deletes(f, l) == f.at \in {"list entries", "each entry", "count"} /\ f.path = l
Checks(f, l) == f.at = "count" /\ f.shrunk = l
Fills(f, l) == f.at = "fill" /\ f.path = l /\ Cardinality(badges[l] \cup f.todo) >= 2

Doomed(l) == \E w \in Worker : \E f \in Frames(w) : Deletes(f, l)
Checked(l) == \E w \in Worker : \E f \in Frames(w) : Checks(f, l)
Filling(l) == \E w \in Worker : \E f \in Frames(w) : Fills(f, l)

KeptAt(l) == Cardinality(badges[l]) >= 2 \/ Doomed(l) \/ Checked(l) \/ Filling(l)

CountedAt(l) == \A w \in Worker : \A f \in Frames(w) :
    Passed(f, l) /\ f.badge \in badges[l] => Cardinality(badges[l]) >= 3 \/ Doomed(l)

InsertsOK == \A w \in Worker : \A f \in Frames(w) :
    f.at = "insert" => f.path \in stubs \/ Cardinality(f.todo) >= 2

TwoInv == InsertsOK /\ \A l \in paths \ stubs : KeptAt(l) /\ CountedAt(l)

LEMMA FiniteBadges ==
    ASSUME TypeInv, NEW l \in LP
    PROVE  /\ IsFiniteSet(badges[l]) /\ Cardinality(badges[l]) \in Nat
           /\ \A S \in SUBSET Badge :
                /\ IsFiniteSet(S) /\ Cardinality(S) \in Nat
                /\ IsFiniteSet(badges[l] \cup S)
                /\ Cardinality(badges[l] \cup S) \in Nat
                /\ Cardinality(badges[l] \cup S) >= Cardinality(badges[l])
<1>1. badges[l] \subseteq Badge /\ IsFiniteSet(Badge)
  BY PathLifeConstants DEF TypeInv, PathLifeTypeOK
<1>2. ASSUME NEW S \in SUBSET Badge
      PROVE  /\ IsFiniteSet(S) /\ Cardinality(S) \in Nat
             /\ IsFiniteSet(badges[l] \cup S)
             /\ Cardinality(badges[l] \cup S) \in Nat
             /\ Cardinality(badges[l] \cup S) >= Cardinality(badges[l])
  <2>1. badges[l] \cup S \subseteq Badge /\ badges[l] \subseteq badges[l] \cup S
    BY <1>1
  <2>2. IsFiniteSet(S) /\ IsFiniteSet(badges[l] \cup S)
    BY <1>1, <2>1, FS_Subset
  <2>3. Cardinality(badges[l]) <= Cardinality(badges[l] \cup S)
    BY <2>1, <2>2, FS_Subset
  <2>4. /\ Cardinality(S) \in Nat /\ Cardinality(badges[l] \cup S) \in Nat
        /\ Cardinality(badges[l]) \in Nat
    BY <1>1, <2>2, FS_CardinalityType, FS_Subset
  <2>5. QED
    BY <2>2, <2>3, <2>4
<1>3. QED
  BY <1>1, <1>2, FS_Subset, FS_CardinalityType

\* A step of worker w that leaves the badges of path l alone keeps what is said
\* of l, if the calls that go are replaced or have become unnecessary.
LEMMA QuietPath ==
    ASSUME NEW w \in Worker,
           \A u \in Worker \ {w} : Frames(u)' = Frames(u),
           NEW l, KeptAt(l), CountedAt(l), badges'[l] = badges[l],
           \A f \in Frames(w) : Deletes(f, l) => \E g \in Frames(w)' : Deletes(g, l),
           \A f \in Frames(w) : Checks(f, l) =>
               \/ \E g \in Frames(w)' : Checks(g, l) \/ Deletes(g, l)
               \/ Cardinality(badges[l]) >= 2,
           \A f \in Frames(w) : Fills(f, l) =>
               f \in Frames(w)' \/ Cardinality(badges[l]) >= 2,
           \A f \in Frames(w)' : Passed(f, l) /\ f.badge \in badges[l] =>
               \/ \E g \in Frames(w) : Passed(g, l) /\ g.badge = f.badge
               \/ Cardinality(badges[l]) >= 3
               \/ \E g \in Frames(w)' : Deletes(g, l)
    PROVE  KeptAt(l)' /\ CountedAt(l)'
<1>1. Doomed(l) => Doomed(l)'
  BY DEF Doomed, Deletes
<1>2. (\E g \in Frames(w)' : Deletes(g, l)) => Doomed(l)'
  BY DEF Doomed, Deletes
<1>3. Checked(l) => Checked(l)' \/ Doomed(l)' \/ Cardinality(badges[l]) >= 2
  BY DEF Checked, Doomed, Checks, Deletes
<1>4. Filling(l) => Filling(l)' \/ Cardinality(badges[l]) >= 2
  BY DEF Filling, Fills
<1>5. KeptAt(l)'
  BY <1>1, <1>3, <1>4 DEF KeptAt
<1>6. CountedAt(l)'
  BY <1>1, <1>2 DEF CountedAt, Passed
<1>7. QED
  BY <1>5, <1>6

\* A request that ends with an exception leaves only stubs behind.
LEMMA FailedPath ==
    ASSUME Stacks, NEW w \in Worker, Fail(w),
           NEW l, l \notin stubs', KeptAt(l), CountedAt(l), badges'[l] = badges[l]
    PROVE  KeptAt(l)' /\ CountedAt(l)'
<1>1. /\ Frames(w)' = {} /\ \A u \in Worker \ {w} : Frames(u)' = Frames(u)
      /\ l \notin Involved(w)
  BY FailFrames
<1>2. \A f \in Frames(w) : ~Deletes(f, l) /\ ~Checks(f, l) /\ ~Fills(f, l)
  BY <1>1 DEF Involved, Deletes, Checks, Fills
<1>3. QED
  BY <1>1, <1>2, QuietPath

LEMMA InsertsKept ==
    ASSUME InsertsOK, NEW w \in Worker, stubs \subseteq stubs',
           \A u \in Worker \ {w} : Frames(u)' = Frames(u),
           \A f \in Frames(w)' : f \in Frames(w) \/ f.at # "insert"
    PROVE  InsertsOK'
  BY DEF InsertsOK

LEMMA TwoStep == TypeInv /\ TwoInv /\ [Next]_vars => TwoInv'
<1> SUFFICES ASSUME TypeInv, TwoInv, [Next]_vars PROVE TwoInv'
  OBVIOUS
<1>1. TablesOK /\ Stacks /\ NewOK /\ InsertsOK
  BY TypeParts DEF TypeInv, TwoInv
<1>2. ASSUME NEW l \in paths \ stubs
      PROVE  /\ KeptAt(l) /\ CountedAt(l) /\ l \in LP
             /\ IsFiniteSet(badges[l]) /\ Cardinality(badges[l]) \in Nat
  BY <1>1, FiniteBadges DEF TwoInv, TablesOK
<1>3. ASSUME NEW w \in Worker, ~Idle(w)
      PROVE  Top(w) \in Frame /\ Frames(w) = {Top(w)} \cup Rest(w)
  BY <1>1, <1>3, TopOf
<1>4. ASSUME NEW w \in Worker, Fail(w), UNCHANGED badges, UNCHANGED paths
      PROVE  TwoInv'
  <2>1. /\ Frames(w)' = {} /\ \A u \in Worker \ {w} : Frames(u)' = Frames(u)
        /\ stubs \subseteq stubs'
    BY <1>1, <1>4, FailFrames
  <2>2. InsertsOK'
    BY <1>1, <2>1, InsertsKept
  <2>3. ASSUME NEW l \in paths' \ stubs' PROVE KeptAt(l)' /\ CountedAt(l)'
    BY <1>1, <1>2, <1>4, <2>1, FailedPath
  <2>4. QED
    BY <2>2, <2>3 DEF TwoInv
<1>5. ASSUME NEW w \in Worker, DeleteClass(w) PROVE TwoInv'
  <2>1. PICK b \in classes : DeleteClass(w)!(b)
    BY <1>5 DEF DeleteClass
  <2>2. DEFINE f == [at |-> "list paths", badge |-> b]
  <2>3. f \in Frame /\ f.at \notin {"insert", "each path"}
    BY <1>1, NewFrames DEF TablesOK
  <2>4. Begin(w, f) /\ UNCHANGED <<paths, badges, stubs>>
    BY <2>1
  <2>5. QED
    <3> HIDE DEF f
    <3>1. /\ Frames(w) = {} /\ Frames(w)' = {f}
          /\ \A u \in Worker \ {w} : Frames(u)' = Frames(u)
      BY <1>1, <2>3, <2>4, BeginFrames
    <3>2. InsertsOK'
      BY <1>1, <2>3, <2>4, <3>1, InsertsKept
    <3>3. ASSUME NEW l \in paths' \ stubs' PROVE KeptAt(l)' /\ CountedAt(l)'
      <4>1. \A g \in Frames(w)' : ~Passed(g, l)
        BY <2>3, <3>1 DEF Passed
      <4>2. QED
        BY <1>2, <2>4, <3>1, <4>1, QuietPath
    <3>4. QED
      BY <3>2, <3>3 DEF TwoInv
<1>6. ASSUME NEW w \in Worker, DeletePath(w) PROVE TwoInv'
  <2>1. PICK m \in paths : DeletePath(w)!(m)
    BY <1>6 DEF DeletePath
  <2>2. DEFINE f == [at |-> "list entries", path |-> m]
  <2>3. f \in Frame /\ f.at \notin {"insert", "each path"}
    BY <1>1, NewFrames DEF TablesOK
  <2>4. Begin(w, f) /\ UNCHANGED <<paths, badges, stubs>>
    BY <2>1
  <2>5. QED
    <3> HIDE DEF f
    <3>1. /\ Frames(w) = {} /\ Frames(w)' = {f}
          /\ \A u \in Worker \ {w} : Frames(u)' = Frames(u)
      BY <1>1, <2>3, <2>4, BeginFrames
    <3>2. InsertsOK'
      BY <1>1, <2>3, <2>4, <3>1, InsertsKept
    <3>3. ASSUME NEW l \in paths' \ stubs' PROVE KeptAt(l)' /\ CountedAt(l)'
      <4>1. \A g \in Frames(w)' : ~Passed(g, l)
        BY <2>3, <3>1 DEF Passed
      <4>2. QED
        BY <1>2, <2>4, <3>1, <4>1, QuietPath
    <3>4. QED
      BY <3>2, <3>3 DEF TwoInv
<1>7. ASSUME NEW w \in Worker, Load(w) PROVE TwoInv'
  <2>1. PICK m \in paths : Load(w)!(m)
    BY <1>7 DEF Load
  <2>2. DEFINE f == [at |-> "save", path |-> m]
  <2>3. f \in Frame /\ f.at \notin {"insert", "each path"}
    BY <1>1, NewFrames DEF TablesOK
  <2>4. Begin(w, f) /\ UNCHANGED <<paths, badges, stubs>>
    BY <2>1
  <2>5. QED
    <3> HIDE DEF f
    <3>1. /\ Frames(w) = {} /\ Frames(w)' = {f}
          /\ \A u \in Worker \ {w} : Frames(u)' = Frames(u)
      BY <1>1, <2>3, <2>4, BeginFrames
    <3>2. InsertsOK'
      BY <1>1, <2>3, <2>4, <3>1, InsertsKept
    <3>3. ASSUME NEW l \in paths' \ stubs' PROVE KeptAt(l)' /\ CountedAt(l)'
      <4>1. \A g \in Frames(w)' : ~Passed(g, l)
        BY <2>3, <3>1 DEF Passed
      <4>2. QED
        BY <1>2, <2>4, <3>1, <4>1, QuietPath
    <3>4. QED
      BY <3>2, <3>3 DEF TwoInv
<1>8. ASSUME NEW w \in Worker, ListPaths(w) PROVE TwoInv'
  <2>1. DEFINE b == Top(w).badge
               S == {l \in paths : b \in badges[l]}
               f == [at |-> "each path", badge |-> b, todo |-> S]
  <2>2. /\ ~Idle(w) /\ Top(w).at = "list paths" /\ Goto(w, f)
        /\ UNCHANGED <<paths, badges, stubs>>
    BY <1>8 DEF ListPaths, At
  <2>3. f \in Frame /\ f.at = "each path" /\ f.todo = S /\ f.badge = b
    BY <1>1, <1>3, <2>2, FrameKinds, NewFrames DEF TablesOK
  <2>4. /\ Frames(w)' = {f} \cup Rest(w)
        /\ \A u \in Worker \ {w} : Frames(u)' = Frames(u)
    <3> HIDE DEF f
    <3> QED BY <1>1, <2>2, <2>3, GotoFrames
  <2>5. ASSUME NEW l \in paths \ stubs PROVE ~(Passed(f, l) /\ f.badge \in badges[l])
    <3> HIDE DEF f
    <3> QED BY <2>3, <2>5 DEF Passed
  <2> HIDE DEF f
  <2>6. InsertsOK'
    BY <1>1, <1>3, <2>2, <2>3, <2>4, InsertsKept
  <2>7. ASSUME NEW l \in paths' \ stubs' PROVE KeptAt(l)' /\ CountedAt(l)'
    <3>1. l \in paths \ stubs
      BY <2>2
    <3>2. Frames(w) = {Top(w)} \cup Rest(w)
      BY <1>3, <2>2
    <3>3. ~Deletes(Top(w), l) /\ ~Checks(Top(w), l) /\ ~Fills(Top(w), l)
      BY <2>2 DEF Deletes, Checks, Fills
    <3>4. QED
      BY <1>2, <2>2, <2>4, <2>5, <3>1, <3>2, <3>3, QuietPath
  <2>8. QED
    BY <2>6, <2>7 DEF TwoInv
<1>9. ASSUME NEW w \in Worker, CountBadges(w) PROVE TwoInv'
  <2>1. ~Idle(w) /\ Top(w).at = "each path" /\ UNCHANGED <<paths, badges>>
    BY <1>9 DEF CountBadges, At
  <2>2. Top(w) \in [at : {"each path"}, badge : Badge, todo : SUBSET LP]
    BY <1>3, <2>1, FrameKinds
  <2>3. PICK m \in Top(w).todo : CountBadges(w)!2!(m)
    BY <1>9 DEF CountBadges
  <2>4. DEFINE rest == [Top(w) EXCEPT !.todo = @ \ {m}]
               callee == [at |-> "list entries", path |-> m]
  <2>5. /\ m \in LP /\ rest \in Frame /\ callee \in Frame
        /\ rest.at = "each path" /\ rest.badge = Top(w).badge
        /\ rest.todo = Top(w).todo \ {m}
        /\ callee.at = "list entries" /\ callee.path = m
    BY <2>2, NewFrames DEF Frame
  <2>6. CASE m \notin paths
    BY <1>4, <2>1, <2>3, <2>6
  <2>7. CASE m \in paths
    <3>1. \/ Cardinality(badges[m]) <= 2 /\ Call(w, rest, callee)
          \/ ~(Cardinality(badges[m]) <= 2) /\ Goto(w, rest)
      BY <2>3, <2>7
    <3>2. stubs' = stubs
      BY <2>3, <2>7
    <3> HIDE DEF rest, callee
    <3>3. /\ \A u \in Worker \ {w} : Frames(u)' = Frames(u)
          /\ \/ Cardinality(badges[m]) <= 2 /\ Frames(w)' = {rest, callee} \cup Rest(w)
             \/ ~(Cardinality(badges[m]) <= 2) /\ Frames(w)' = {rest} \cup Rest(w)
      <4>1. CASE Cardinality(badges[m]) <= 2 /\ Call(w, rest, callee)
        BY <1>1, <2>1, <2>5, <4>1, CallFrames
      <4>2. CASE ~(Cardinality(badges[m]) <= 2) /\ Goto(w, rest)
        BY <1>1, <2>1, <2>5, <4>2, GotoFrames
      <4>3. QED
        BY <3>1, <4>1, <4>2
    <3>4. Frames(w) = {Top(w)} \cup Rest(w)
      BY <1>3, <2>1
    <3>5. InsertsOK'
      BY <1>1, <2>1, <2>5, <3>2, <3>3, <3>4, InsertsKept
    <3>6. ASSUME NEW l \in paths' \ stubs' PROVE KeptAt(l)' /\ CountedAt(l)'
      <4>1. l \in paths \ stubs /\ badges'[l] = badges[l]
        BY <2>1, <3>2
      <4>2. ~Deletes(Top(w), l) /\ ~Checks(Top(w), l) /\ ~Fills(Top(w), l)
        BY <2>1 DEF Deletes, Checks, Fills
      <4>3. ~Passed(callee, l)
        BY <2>5 DEF Passed
      <4>4. Passed(rest, l) => \/ Passed(Top(w), l)
                               \/ Cardinality(badges[l]) >= 3
                               \/ \E g \in Frames(w)' : Deletes(g, l)
        <5>1. CASE l = m
          <6>1. CASE Cardinality(badges[m]) <= 2
            BY <2>5, <3>3, <5>1, <6>1 DEF Deletes
          <6>2. CASE ~(Cardinality(badges[m]) <= 2)
            BY <1>2, <4>1, <5>1, <6>2
          <6>3. QED
            BY <6>1, <6>2
        <5>2. CASE l # m
          BY <2>1, <2>5, <5>2 DEF Passed
        <5>3. QED
          BY <5>1, <5>2
      <4>5. \A f \in Frames(w)' : Passed(f, l) /\ f.badge \in badges[l] =>
               \/ \E g \in Frames(w) : Passed(g, l) /\ g.badge = f.badge
               \/ Cardinality(badges[l]) >= 3
               \/ \E g \in Frames(w)' : Deletes(g, l)
        BY <2>5, <3>3, <3>4, <4>3, <4>4
      <4>6. \A f \in Frames(w) : f = Top(w) \/ f \in Frames(w)'
        BY <3>3, <3>4
      <4>7. QED
        BY <1>2, <3>3, <4>1, <4>2, <4>5, <4>6, QuietPath
    <3>7. QED
      BY <3>5, <3>6 DEF TwoInv
  <2>8. QED
    BY <2>6, <2>7
<1>10. ASSUME NEW w \in Worker, DropClass(w) PROVE TwoInv'
  <2>1. DEFINE b == Top(w).badge
  <2>2. /\ ~Idle(w) /\ Top(w).at = "each path" /\ Top(w).todo = {} /\ Return(w)
        /\ paths' \subseteq paths
        /\ \A l \in paths' : badges'[l] = badges[l] \ {b}
        /\ stubs' = stubs \cup {l \in LP : b \in badges[l] /\ Outdated(l, b)}
    BY <1>1, <1>10 DEF DropClass, At, TablesOK
  <2>3. /\ Frames(w)' = Rest(w) /\ Frames(w) = {Top(w)} \cup Rest(w)
        /\ \A u \in Worker \ {w} : Frames(u)' = Frames(u)
    BY <1>1, <1>3, <2>2, ReturnFrames
  <2>4. InsertsOK'
    BY <1>1, <2>2, <2>3, InsertsKept
  <2>5. ASSUME NEW l \in paths' \ stubs' PROVE KeptAt(l)' /\ CountedAt(l)'
    <3>1. /\ l \in paths \ stubs /\ l \in LP /\ badges'[l] = badges[l] \ {b}
          /\ b \in badges[l] => ~Outdated(l, b)
      BY <1>2, <2>2
    <3>2. ~Deletes(Top(w), l) /\ ~Checks(Top(w), l) /\ ~Fills(Top(w), l)
      BY <2>2 DEF Deletes, Checks, Fills
    <3>3. CASE b \notin badges[l]
      <4>1. badges'[l] = badges[l]
        BY <3>1, <3>3
      <4>2. QED
        BY <1>2, <2>3, <3>1, <3>2, <4>1, QuietPath
    <3>4. CASE b \in badges[l]
      <4>1. Passed(Top(w), l) /\ Top(w).badge \in badges[l]
        BY <2>2, <3>4 DEF Passed
      <4>2. Cardinality(badges[l]) >= 3 \/ Doomed(l)
        BY <1>2, <2>3, <3>1, <4>1 DEF CountedAt
      <4>3. Doomed(l) => Doomed(l)'
        BY <2>3, <3>2 DEF Doomed, Deletes
      <4>4. Cardinality(badges[l]) >= 3 => Cardinality(badges[l])' >= 2
        <5>1. Cardinality(badges[l] \ {b}) = Cardinality(badges[l]) - 1
          BY <1>2, <3>1, <3>4, FS_RemoveElement
        <5>2. QED
          BY <1>2, <3>1, <5>1
      <4>5. KeptAt(l)'
        BY <4>2, <4>3, <4>4 DEF KeptAt
      <4>6. ASSUME NEW u \in Worker, NEW f \in Frames(u)', Passed(f, l)
            PROVE  f.badge \notin badges'[l]
        <5>1. f \in Frames(u)
          BY <2>3
        <5>2. QED
          BY <3>1, <3>4, <4>6, <5>1 DEF Outdated
      <4>7. CountedAt(l)'
        BY <4>6 DEF CountedAt, Passed
      <4>8. QED
        BY <4>5, <4>7
    <3>5. QED
      BY <3>3, <3>4
  <2>6. QED
    BY <2>4, <2>5 DEF TwoInv
<1>11. ASSUME NEW w \in Worker, ListEntries(w) PROVE TwoInv'
  <2>1. DEFINE m == Top(w).path
               S == {k \in paths \ {m} : Part[m] \in badges[k]}
               f == [at |-> "each entry", path |-> m, todo |-> S]
  <2>2. ~Idle(w) /\ Top(w).at = "list entries" /\ UNCHANGED <<paths, badges>>
    BY <1>11 DEF ListEntries, At
  <2>3. f \in Frame /\ f.at = "each entry" /\ f.path = m
    BY <1>1, <1>3, <2>2, FrameKinds, NewFrames DEF TablesOK
  <2>4. CASE Fail(w)
    BY <1>4, <2>2, <2>4
  <2>5. CASE Goto(w, f) /\ UNCHANGED stubs
    <3> HIDE DEF f
    <3>1. /\ Frames(w)' = {f} \cup Rest(w) /\ Frames(w) = {Top(w)} \cup Rest(w)
          /\ \A u \in Worker \ {w} : Frames(u)' = Frames(u)
      BY <1>1, <1>3, <2>2, <2>3, <2>5, GotoFrames
    <3>2. InsertsOK'
      BY <1>1, <2>3, <2>5, <3>1, InsertsKept
    <3>3. ASSUME NEW l \in paths' \ stubs' PROVE KeptAt(l)' /\ CountedAt(l)'
      <4>1. l \in paths \ stubs /\ badges'[l] = badges[l]
        BY <2>2, <2>5
      <4>2. /\ Deletes(Top(w), l) => Deletes(f, l)
            /\ ~Checks(Top(w), l) /\ ~Fills(Top(w), l) /\ ~Passed(f, l)
        BY <2>2, <2>3 DEF Deletes, Checks, Fills, Passed
      <4>3. QED
        BY <1>2, <3>1, <4>1, <4>2, QuietPath
    <3>4. QED
      BY <3>2, <3>3 DEF TwoInv
  <2>6. QED
    BY <1>11, <2>4, <2>5 DEF ListEntries
<1>12. ASSUME NEW w \in Worker, RemoveEntry(w) PROVE TwoInv'
  <2>1. ~Idle(w) /\ Top(w).at = "each entry" /\ UNCHANGED paths
    BY <1>12 DEF RemoveEntry, At
  <2>2. Top(w) \in [at : {"each entry"}, path : LP, todo : SUBSET LP]
    BY <1>3, <2>1, FrameKinds
  <2>3. PICK m \in Top(w).todo : RemoveEntry(w)!2!(m)
    BY <1>12 DEF RemoveEntry
  <2>4. DEFINE p == Part[Top(w).path]
               f == [at |-> "count", path |-> Top(w).path, todo |-> Top(w).todo \ {m},
                     shrunk |-> m]
  <2>5. /\ m \in LP /\ f \in Frame /\ f.at = "count" /\ f.path = Top(w).path
        /\ f.shrunk = m
    BY <2>2, NewFrames
  <2>6. /\ badges' = [badges EXCEPT ![m] = @ \ {p}]
        /\ stubs' = IF p \in badges[m] /\ Outdated(m, p) THEN stubs \cup {m} ELSE stubs
        /\ Goto(w, f)
    BY <2>3
  <2> HIDE DEF f, p
  <2>7. /\ Frames(w)' = {f} \cup Rest(w) /\ Frames(w) = {Top(w)} \cup Rest(w)
        /\ \A u \in Worker \ {w} : Frames(u)' = Frames(u)
    BY <1>1, <1>3, <2>1, <2>5, <2>6, GotoFrames
  <2>8. InsertsOK'
    BY <1>1, <2>5, <2>6, <2>7, InsertsKept
  <2>9. ASSUME NEW l \in paths' \ stubs' PROVE KeptAt(l)' /\ CountedAt(l)'
    <3>1. l \in paths \ stubs /\ l \in LP
      BY <1>2, <2>1, <2>6
    <3>2. /\ Deletes(Top(w), l) => Deletes(f, l)
          /\ ~Checks(Top(w), l) /\ ~Fills(Top(w), l) /\ ~Passed(f, l)
      BY <2>1, <2>5 DEF Deletes, Checks, Fills, Passed
    <3>3. CASE badges'[l] = badges[l]
      BY <1>2, <2>7, <3>1, <3>2, <3>3, QuietPath
    <3>4. CASE badges'[l] # badges[l]
      <4>1. l = m /\ badges'[l] = badges[l] \ {p} /\ p \in badges[l]
        BY <1>1, <2>6, <3>1, <3>4 DEF TablesOK
      <4>2. ~Outdated(l, p)
        BY <2>6, <4>1
      <4>3. KeptAt(l)'
        BY <2>5, <2>7, <4>1 DEF KeptAt, Checked, Checks
      <4>4. ASSUME NEW u \in Worker, NEW g \in Frames(u)', Passed(g, l)
            PROVE  g.badge \notin badges'[l]
        <5>1. g \in Frames(u)
          BY <2>7, <3>2, <4>4
        <5>2. QED
          BY <4>1, <4>2, <4>4, <5>1 DEF Outdated
      <4>5. CountedAt(l)'
        BY <4>4 DEF CountedAt, Passed
      <4>6. QED
        BY <4>3, <4>5
    <3>5. QED
      BY <3>3, <3>4
  <2>10. QED
    BY <2>8, <2>9 DEF TwoInv
<1>13. ASSUME NEW w \in Worker, CountLeft(w) PROVE TwoInv'
  <2>1. ~Idle(w) /\ Top(w).at = "count" /\ UNCHANGED <<paths, badges>>
    BY <1>13 DEF CountLeft, At
  <2>2. Top(w) \in [at : {"count"}, path : LP, todo : SUBSET LP, shrunk : LP]
    BY <1>3, <2>1, FrameKinds
  <2>3. DEFINE m == Top(w).shrunk
               rest == [at |-> "each entry", path |-> Top(w).path, todo |-> Top(w).todo]
               callee == [at |-> "list entries", path |-> m]
  <2>4. /\ rest \in Frame /\ rest.at = "each entry" /\ rest.path = Top(w).path
        /\ callee \in Frame /\ callee.at = "list entries" /\ callee.path = m
        /\ m \in LP
    BY <2>2, NewFrames
  <2>5. CASE m \notin paths
    BY <1>4, <1>13, <2>1, <2>5 DEF CountLeft
  <2>6. CASE m \in paths
    <3>1. /\ \/ Cardinality(badges[m]) < 2 /\ Call(w, rest, callee)
             \/ ~(Cardinality(badges[m]) < 2) /\ Goto(w, rest)
          /\ stubs' = stubs
      BY <1>13, <2>6 DEF CountLeft
    <3>2. Frames(w) = {Top(w)} \cup Rest(w)
      BY <1>3, <2>1
    <3> HIDE DEF m, rest, callee
    <3>3. /\ \A u \in Worker \ {w} : Frames(u)' = Frames(u)
          /\ \/ Cardinality(badges[m]) < 2 /\ Frames(w)' = {rest, callee} \cup Rest(w)
             \/ ~(Cardinality(badges[m]) < 2) /\ Frames(w)' = {rest} \cup Rest(w)
      <4>1. CASE Cardinality(badges[m]) < 2 /\ Call(w, rest, callee)
        BY <1>1, <2>1, <2>4, <4>1, CallFrames
      <4>2. CASE ~(Cardinality(badges[m]) < 2) /\ Goto(w, rest)
        BY <1>1, <2>1, <2>4, <4>2, GotoFrames
      <4>3. QED
        BY <3>1, <4>1, <4>2
    <3>4. InsertsOK'
      BY <1>1, <2>4, <3>1, <3>2, <3>3, InsertsKept
    <3>5. ASSUME NEW l \in paths' \ stubs' PROVE KeptAt(l)' /\ CountedAt(l)'
      <4>1. l \in paths \ stubs /\ badges'[l] = badges[l]
        BY <2>1, <3>1
      <4>2. /\ Deletes(Top(w), l) => Deletes(rest, l)
            /\ Checks(Top(w), l) => l = m
            /\ ~Fills(Top(w), l) /\ ~Passed(rest, l) /\ ~Passed(callee, l)
        BY <2>1, <2>4 DEF Deletes, Checks, Fills, Passed, m
      <4>3. Checks(Top(w), l) => \/ \E g \in Frames(w)' : Deletes(g, l)
                                 \/ Cardinality(badges[l]) >= 2
        <5>1. CASE Cardinality(badges[m]) < 2
          BY <2>4, <3>3, <4>2, <5>1 DEF Deletes
        <5>2. CASE ~(Cardinality(badges[m]) < 2)
          BY <1>2, <4>1, <4>2, <5>2
        <5>3. QED
          BY <5>1, <5>2
      <4>4. /\ rest \in Frames(w)' /\ Rest(w) \subseteq Frames(w)'
            /\ Frames(w)' \subseteq {rest, callee} \cup Rest(w)
        BY <3>3
      <4>5. QED
        BY <1>2, <3>2, <3>3, <4>1, <4>2, <4>3, <4>4, QuietPath
    <3>6. QED
      BY <3>4, <3>5 DEF TwoInv
  <2>7. QED
    BY <2>5, <2>6
<1>14. ASSUME NEW w \in Worker, DropPath(w) PROVE TwoInv'
  <2>1. /\ ~Idle(w) /\ Top(w).at = "each entry" /\ Return(w)
        /\ paths' = paths \ {Top(w).path} /\ stubs' = stubs
        /\ badges' = [badges EXCEPT ![Top(w).path] = {}]
    BY <1>14 DEF DropPath, At
  <2>2. /\ Frames(w)' = Rest(w) /\ Frames(w) = {Top(w)} \cup Rest(w)
        /\ \A u \in Worker \ {w} : Frames(u)' = Frames(u)
    BY <1>1, <1>3, <2>1, ReturnFrames
  <2>3. InsertsOK'
    BY <1>1, <2>1, <2>2, InsertsKept
  <2>4. ASSUME NEW l \in paths' \ stubs' PROVE KeptAt(l)' /\ CountedAt(l)'
    <3>1. l \in paths \ stubs /\ l # Top(w).path /\ badges'[l] = badges[l]
      BY <1>1, <1>2, <2>1 DEF TablesOK
    <3>2. ~Deletes(Top(w), l) /\ ~Checks(Top(w), l) /\ ~Fills(Top(w), l)
      BY <2>1, <3>1 DEF Deletes, Checks, Fills
    <3>3. QED
      BY <1>2, <2>2, <3>1, <3>2, QuietPath
  <2>5. QED
    BY <2>3, <2>4 DEF TwoInv
<1>15. ASSUME NEW w \in Worker, Post(w) PROVE TwoInv'
  <2>1. PICK m \in LP \ made, S \in Contents : Post(w)!(m, S)
    BY <1>15 DEF Post
  <2>2. DEFINE f == [at |-> "insert", path |-> m, todo |-> S]
  <2>3. f \in Frame /\ f.at = "insert" /\ f.path = m /\ f.todo = S
    BY PathLifeConstants, NewFrames
  <2>4. /\ Begin(w, f) /\ UNCHANGED <<paths, badges>>
        /\ stubs' = IF Cardinality(S) < 2 THEN stubs \cup {m} ELSE stubs \ {m}
    BY <2>1
  <2> HIDE DEF f
  <2>5. /\ Frames(w) = {} /\ Frames(w)' = {f}
        /\ \A u \in Worker \ {w} : Frames(u)' = Frames(u)
    BY <1>1, <2>3, <2>4, BeginFrames
  <2>6. InsertsOK'
    <3>1. ASSUME NEW u \in Worker, NEW g \in Frames(u)', g.at = "insert"
          PROVE  g.path \in stubs' \/ Cardinality(g.todo) >= 2
      <4>1. CASE u = w
        <5>1. g = f /\ Cardinality(S) \in Nat
          BY <2>5, <4>1, PathLifeConstants, FS_Subset, FS_CardinalityType
        <5>2. QED
          BY <2>3, <2>4, <5>1
      <4>2. CASE u # w
        <5>1. g \in Frames(u)
          BY <2>5, <4>2
        <5>2. g.path \in made /\ (g.path \in stubs \/ Cardinality(g.todo) >= 2)
          BY <1>1, <3>1, <5>1 DEF NewOK, InsertsOK
        <5>3. QED
          BY <2>4, <5>2
      <4>3. QED
        BY <4>1, <4>2
    <3>2. QED
      BY <3>1 DEF InsertsOK
  <2>7. ASSUME NEW l \in paths' \ stubs' PROVE KeptAt(l)' /\ CountedAt(l)'
    <3>1. l \in paths \ stubs /\ badges'[l] = badges[l]
      BY <1>1, <2>4 DEF TablesOK
    <3>2. ~Passed(f, l)
      BY <2>3 DEF Passed
    <3>3. QED
      BY <1>2, <2>5, <3>1, <3>2, QuietPath
  <2>8. QED
    BY <2>6, <2>7 DEF TwoInv
<1>16. ASSUME NEW w \in Worker, Insert(w) PROVE TwoInv'
  <2>1. ~Idle(w) /\ Top(w).at = "insert" /\ UNCHANGED badges
    BY <1>16 DEF Insert, At
  <2>2. Top(w) \in [at : {"insert", "fill"}, path : LP, todo : SUBSET Badge]
    BY <1>3, <2>1, FrameKinds
  <2>3. DEFINE m == Top(w).path
               f == [Top(w) EXCEPT !.at = "fill"]
  <2>4. /\ f \in Frame /\ f.at = "fill" /\ f.path = m /\ f.todo = Top(w).todo
        /\ m \in LP
    BY <2>2 DEF Frame
  <2>5. CASE Fail(w) /\ UNCHANGED paths
    BY <1>4, <2>1, <2>5
  <2>6. CASE paths' = paths \cup {m} /\ Goto(w, f) /\ UNCHANGED stubs
    <3> HIDE DEF f, m
    <3>1. /\ Frames(w)' = {f} \cup Rest(w) /\ Frames(w) = {Top(w)} \cup Rest(w)
          /\ \A u \in Worker \ {w} : Frames(u)' = Frames(u)
      BY <1>1, <1>3, <2>1, <2>4, <2>6, GotoFrames
    <3>2. InsertsOK'
      BY <1>1, <2>4, <2>6, <3>1, InsertsKept
    <3>3. ASSUME NEW l \in paths' \ stubs' PROVE KeptAt(l)' /\ CountedAt(l)'
      <4>1. badges'[l] = badges[l] /\ l \notin stubs
        BY <2>1, <2>6
      <4>2. CASE l \in paths
        <5>1. /\ ~Deletes(Top(w), l) /\ ~Checks(Top(w), l) /\ ~Fills(Top(w), l)
              /\ ~Passed(f, l)
          BY <2>1, <2>4 DEF Deletes, Checks, Fills, Passed
        <5>2. QED
          BY <1>2, <3>1, <4>1, <4>2, <5>1, QuietPath
      <4>3. CASE l \notin paths
        <5>1. l = m /\ badges[l] = {}
          BY <1>1, <2>4, <2>6, <4>3 DEF TablesOK
        <5>2. Cardinality(Top(w).todo) >= 2
          BY <1>1, <2>1, <3>1, <4>1, <5>1 DEF InsertsOK, m
        <5>3. /\ f.at = "fill" /\ f.path = l
              /\ Cardinality(badges'[l] \cup f.todo) >= 2
          <6>1. badges'[l] \cup f.todo = Top(w).todo
            BY <2>4, <4>1, <5>1
          <6>2. QED
            BY <2>4, <5>1, <5>2, <6>1
        <5>4. KeptAt(l)'
          BY <3>1, <5>3 DEF KeptAt, Filling, Fills
        <5>5. CountedAt(l)'
          BY <4>1, <5>1 DEF CountedAt
        <5>6. QED
          BY <5>4, <5>5
      <4>4. QED
        BY <4>2, <4>3
    <3>4. QED
      BY <3>2, <3>3 DEF TwoInv
  <2>7. QED
    BY <1>16, <2>5, <2>6 DEF Insert
<1>17. ASSUME NEW w \in Worker, Fill(w) PROVE TwoInv'
  <2>1. ~Idle(w) /\ Top(w).at = "fill" /\ UNCHANGED paths
    BY <1>17 DEF Fill, At
  <2>2. Top(w) \in [at : {"insert", "fill"}, path : LP, todo : SUBSET Badge]
    BY <1>3, <2>1, FrameKinds
  <2>3. PICK b \in Top(w).todo : Fill(w)!2!(b)
    BY <1>17 DEF Fill
  <2>4. DEFINE m == Top(w).path
               f == [Top(w) EXCEPT !.todo = @ \ {b}]
  <2>5. /\ f \in Frame /\ f.at = "fill" /\ f.path = m /\ f.todo = Top(w).todo \ {b}
        /\ m \in LP /\ b \in Badge
    BY <2>1, <2>2 DEF Frame
  <2>6. CASE ~(m \in paths /\ b \in classes)
    BY <1>4, <2>1, <2>3, <2>6
  <2>7. CASE m \in paths /\ b \in classes
    <3>1. /\ badges' = [badges EXCEPT ![m] = @ \cup {b}]
          /\ Goto(w, f)
          /\ stubs' = IF \E u \in Worker : \E g \in Frames(u) : Passed(g, m) /\ g.badge = b
                      THEN stubs \cup {m} ELSE stubs
      BY <2>3, <2>7
    <3> HIDE DEF f, m
    <3>2. /\ Frames(w)' = {f} \cup Rest(w) /\ Frames(w) = {Top(w)} \cup Rest(w)
          /\ \A u \in Worker \ {w} : Frames(u)' = Frames(u)
      BY <1>1, <1>3, <2>1, <2>5, <3>1, GotoFrames
    <3>3. InsertsOK'
      BY <1>1, <2>5, <3>1, <3>2, InsertsKept
    <3>4. ASSUME NEW l \in paths' \ stubs' PROVE KeptAt(l)' /\ CountedAt(l)'
      <4>1. l \in paths \ stubs /\ l \in LP
        BY <1>2, <2>1, <3>1
      <4>2. /\ ~Deletes(Top(w), l) /\ ~Checks(Top(w), l) /\ ~Passed(f, l)
            /\ Fills(Top(w), l) => l = m
        BY <2>1, <2>5 DEF Deletes, Checks, Fills, Passed, m
      <4>3. CASE l # m
        <5>1. badges'[l] = badges[l]
          BY <1>1, <3>1, <4>1, <4>3 DEF TablesOK
        <5>2. QED
          BY <1>2, <3>2, <4>1, <4>2, <4>3, <5>1, QuietPath
      <4>4. CASE l = m
        <5>1. badges'[l] = badges[l] \cup {b}
          BY <1>1, <3>1, <4>1, <4>4 DEF TablesOK
        <5>2. /\ Cardinality(badges'[l]) \in Nat
              /\ Cardinality(badges'[l]) >= Cardinality(badges[l])
          BY <2>5, <4>1, <5>1, FiniteBadges
        <5>3. Cardinality(badges[l]) \in Nat
          BY <4>1, FiniteBadges
        <5>4. (Doomed(l) => Doomed(l)') /\ (Checked(l) => Checked(l)')
          BY <3>2, <4>2 DEF Doomed, Checked, Deletes, Checks
        <5>5. Filling(l) => Filling(l)'
          <6> SUFFICES ASSUME Filling(l) PROVE Filling(l)'
            OBVIOUS
          <6>1. PICK u \in Worker : \E g \in Frames(u) : Fills(g, l)
            BY DEF Filling
          <6>2. PICK g \in Frames(u) : Fills(g, l)
            BY <6>1
          <6>3. CASE u = w /\ g = Top(w)
            <7>1. badges'[l] \cup f.todo = badges[l] \cup Top(w).todo
              BY <2>5, <5>1
            <7>2. /\ f.at = "fill" /\ f.path = l
                  /\ Cardinality(badges'[l] \cup f.todo) >= 2
              BY <2>5, <4>4, <6>2, <6>3, <7>1 DEF Fills
            <7>3. QED
              BY <3>2, <7>2 DEF Filling, Fills
          <6>4. CASE ~(u = w /\ g = Top(w))
            <7>1. g \in Frames(u)'
              BY <3>2, <6>2, <6>4
            <7>2. g \in Frame /\ g.at = "fill"
              BY <1>1, <6>2 DEF Stacks, Frames, Fills
            <7>3. g.todo \subseteq Badge
              BY <7>2, FrameKinds
            <7>4. badges'[l] \cup g.todo = badges[l] \cup (g.todo \cup {b})
              BY <5>1
            <7>5. Cardinality(badges[l] \cup g.todo) \in Nat
              BY <4>1, <7>3, FiniteBadges
            <7>6. Cardinality(badges'[l] \cup g.todo) >= Cardinality(badges[l] \cup g.todo)
                  /\ Cardinality(badges'[l] \cup g.todo) \in Nat
              <8>1. IsFiniteSet(badges[l] \cup (g.todo \cup {b}))
                    /\ Cardinality(badges[l] \cup (g.todo \cup {b})) \in Nat
                BY <2>5, <4>1, <7>3, FiniteBadges
              <8>2. Cardinality(badges[l] \cup g.todo)
                      <= Cardinality(badges[l] \cup (g.todo \cup {b}))
                BY <8>1, FS_Subset
              <8>3. QED
                BY <7>4, <7>5, <8>1, <8>2
            <7>7. Fills(g, l)'
              BY <6>2, <7>5, <7>6 DEF Fills
            <7>8. QED
              BY <7>1, <7>7 DEF Filling
          <6>5. QED
            BY <6>3, <6>4
        <5>6. KeptAt(l)'
          BY <1>2, <4>1, <5>2, <5>3, <5>4, <5>5 DEF KeptAt
        <5>7. ASSUME NEW u \in Worker, NEW g \in Frames(u)', Passed(g, l),
                     g.badge \in badges'[l]
              PROVE  Cardinality(badges'[l]) >= 3 \/ Doomed(l)'
          <6>1. g \in Frames(u)
            BY <3>2, <4>2, <5>7
          <6>2. g.badge \in badges[l]
            BY <3>1, <4>4, <5>1, <5>7, <6>1
          <6>3. Cardinality(badges[l]) >= 3 \/ Doomed(l)
            BY <1>2, <4>1, <5>7, <6>1, <6>2 DEF CountedAt
          <6>4. QED
            BY <5>2, <5>3, <5>4, <6>3
        <5>8. CountedAt(l)'
          BY <5>7 DEF CountedAt, Passed
        <5>9. QED
          BY <5>6, <5>8
      <4>5. QED
        BY <4>3, <4>4
    <3>5. QED
      BY <3>3, <3>4 DEF TwoInv
  <2>8. QED
    BY <2>6, <2>7
<1>18. ASSUME NEW w \in Worker, Filled(w) PROVE TwoInv'
  <2>1. /\ ~Idle(w) /\ Top(w).at = "fill" /\ Top(w).todo = {} /\ Return(w)
        /\ UNCHANGED <<paths, badges, stubs>>
    BY <1>18 DEF Filled, At
  <2>2. /\ Frames(w)' = Rest(w) /\ Frames(w) = {Top(w)} \cup Rest(w)
        /\ \A u \in Worker \ {w} : Frames(u)' = Frames(u)
    BY <1>1, <1>3, <2>1, ReturnFrames
  <2>3. InsertsOK'
    BY <1>1, <2>1, <2>2, InsertsKept
  <2>4. ASSUME NEW l \in paths' \ stubs' PROVE KeptAt(l)' /\ CountedAt(l)'
    <3>1. ~Deletes(Top(w), l) /\ ~Checks(Top(w), l)
      BY <2>1 DEF Deletes, Checks
    <3>2. Fills(Top(w), l) => Cardinality(badges[l]) >= 2
      <4>1. badges[l] \cup Top(w).todo = badges[l]
        BY <2>1
      <4>2. QED
        BY <4>1 DEF Fills
    <3>3. QED
      BY <1>2, <2>1, <2>2, <3>1, <3>2, QuietPath
  <2>5. QED
    BY <2>3, <2>4 DEF TwoInv
<1>19. ASSUME NEW w \in Worker, Save(w) PROVE TwoInv'
  <2>1. ~Idle(w) /\ Top(w).at = "save" /\ UNCHANGED badges
    BY <1>19 DEF Save, At
  <2>2. Frames(w) = {Top(w)} \cup Rest(w)
    BY <1>3, <2>1
  <2>3. CASE Top(w).path \in paths
    <3>1. Return(w) /\ UNCHANGED <<paths, stubs>>
      BY <1>19, <2>3 DEF Save
    <3>2. Frames(w)' = Rest(w) /\ \A u \in Worker \ {w} : Frames(u)' = Frames(u)
      BY <1>1, <2>1, <3>1, ReturnFrames
    <3>3. InsertsOK'
      BY <1>1, <2>2, <3>1, <3>2, InsertsKept
    <3>4. ASSUME NEW l \in paths' \ stubs' PROVE KeptAt(l)' /\ CountedAt(l)'
      <4>1. ~Deletes(Top(w), l) /\ ~Checks(Top(w), l) /\ ~Fills(Top(w), l)
        BY <2>1 DEF Deletes, Checks, Fills
      <4>2. QED
        BY <1>2, <2>1, <2>2, <3>1, <3>2, <4>1, QuietPath
    <3>5. QED
      BY <3>3, <3>4 DEF TwoInv
  <2>4. CASE Top(w).path \notin paths
    <3>1. Fail(w) /\ paths' \subseteq paths \cup {Top(w).path}
      BY <1>19, <2>4 DEF Save
    <3>2. /\ Frames(w)' = {} /\ \A u \in Worker \ {w} : Frames(u)' = Frames(u)
          /\ stubs' = stubs \cup Involved(w)
      BY <1>1, <3>1, FailFrames
    <3>3. Top(w).path \in Involved(w)
      BY <2>1, <2>2 DEF Involved
    <3>4. InsertsOK'
      BY <1>1, <3>2, InsertsKept
    <3>5. ASSUME NEW l \in paths' \ stubs' PROVE KeptAt(l)' /\ CountedAt(l)'
      <4>1. l \in paths \ stubs
        BY <3>1, <3>2, <3>3
      <4>2. QED
        BY <1>1, <1>2, <2>1, <3>1, <4>1, FailedPath
    <3>6. QED
      BY <3>4, <3>5 DEF TwoInv
  <2>5. QED
    BY <2>3, <2>4
<1>20. ASSUME NEW w \in Worker, Crash(w) PROVE TwoInv'
  BY <1>4, <1>20 DEF Crash
<1>21. ASSUME UNCHANGED <<paths, badges, calls, stubs>> PROVE TwoInv'
  <2>1. \A u \in Worker : Frames(u)' = Frames(u)
    BY <1>21 DEF Frames
  <2>2. InsertsOK'
    BY <1>1, <1>21, <2>1 DEF InsertsOK
  <2>3. ASSUME NEW l \in paths' \ stubs' PROVE KeptAt(l)' /\ CountedAt(l)'
    <3>1. l \in paths \ stubs /\ badges'[l] = badges[l]
      BY <1>21
    <3>2. /\ Doomed(l)' = Doomed(l) /\ Checked(l)' = Checked(l)
          /\ Filling(l)' = Filling(l)
      BY <2>1, <3>1 DEF Doomed, Checked, Filling, Deletes, Checks, Fills
    <3>3. KeptAt(l)'
      BY <1>2, <3>1, <3>2 DEF KeptAt
    <3>4. CountedAt(l)'
      BY <1>2, <2>1, <3>1, <3>2 DEF CountedAt, Passed
    <3>5. QED
      BY <3>3, <3>4
  <2>4. QED
    BY <2>2, <2>3 DEF TwoInv
<1>22. ASSUME NEW b \in Awardable, Award(b) \/ Expire(b) \/ Revoke(b) PROVE TwoInv'
  BY <1>21, <1>22 DEF Award, Expire, Revoke
<1>23. CASE UNCHANGED vars
  BY <1>21, <1>23 DEF vars
<1>24. QED
  BY <1>5, <1>6, <1>7, <1>8, <1>9, <1>10, <1>11, <1>12, <1>13, <1>14, <1>15, <1>16,
     <1>17, <1>18, <1>19, <1>20, <1>22, <1>23 DEF Next, Work, Request

LEMMA InitTwoInv == Init => TwoInv
<1> SUFFICES ASSUME Init PROVE TwoInv
  OBVIOUS
<1>1. TypeInv
  BY InitTypeInv
<1>2. \A w \in Worker : Frames(w) = {}
  BY DEF Init, Frames
<1>3. InsertsOK
  BY <1>2 DEF InsertsOK
<1>4. ASSUME NEW l \in paths \ stubs PROVE KeptAt(l) /\ CountedAt(l)
  <2>1. l \in LP /\ ~(Cardinality(badges[l]) < 2)
    BY <1>4 DEF Init
  <2>2. Cardinality(badges[l]) \in Nat
    BY <1>1, <2>1, FiniteBadges
  <2>3. QED
    BY <1>2, <2>1, <2>2 DEF KeptAt, CountedAt
<1>5. QED
  BY <1>3, <1>4 DEF TwoInv

\* However many requests create and delete paths and badge classes at once, no
\* path is left with one badge but those that TwoLeft names.
THEOREM TwoAlwaysLeft == Spec => []TwoLeft
<1>1. Init => TypeInv /\ TwoInv
  BY InitTypeInv, InitTwoInv
<1>2. TypeInv /\ TwoInv /\ [Next]_vars => (TypeInv /\ TwoInv)'
  BY TypeStep, TwoStep
<1>3. TypeInv /\ TwoInv => TwoLeft
  <2> SUFFICES ASSUME TypeInv, TwoInv, \A w \in Worker : Idle(w),
                      NEW l \in paths \ stubs
               PROVE  Cardinality(badges[l]) >= 2
    BY DEF TwoLeft
  <2>1. \A w \in Worker : Frames(w) = {}
    BY DEF Idle, Frames
  <2>2. KeptAt(l)
    BY DEF TwoInv
  <2>3. QED
    BY <2>1, <2>2 DEF KeptAt, Doomed, Checked, Filling
<1>4. QED
  BY <1>1, <1>2, <1>3, PTL DEF Spec

----------------------------------------------------------------------------
(* Completed paths are kept.  Calls of delete() are nested above one request, *)
(* and a request to delete a path has found no micro degree of it.           *)

Deleting(f) == f.at \in {"list entries", "each entry", "count"}
Looping(f) == f.at \in {"each path", "each entry"}
DeletesOneOf(f, S) == Deleting(f) => f.path \in S

\* The stack s of calls belongs to one request; if that deletes a path, the path
\* is one of S.
Nested(s, S) ==
    /\ \A k \in 1..Len(s) - 1 : Deleting(s[k])
    /\ Len(s) > 1 => Looping(s[Len(s)])
    /\ s # <<>> => DeletesOneOf(s[Len(s)], S)

SparedPaths == {l \in LP : granted[Part[l]] = "none" \/ l \in late}

RootInv == \A w \in Worker : Nested(calls[w], SparedPaths)

LEMMA NestedReplace ==
    ASSUME NEW s \in Seq(Frame), s # <<>>, NEW f \in Frame, NEW S, Nested(s, S),
           Deleting(f) <=> Deleting(Head(s)),
           Deleting(f) => f.path = Head(s).path
    PROVE  Nested(<<f>> \o Tail(s), S)
<1>1. DEFINE n == Len(s)
             t == <<f>> \o Tail(s)
<1>2. /\ n \in Nat /\ n >= 1 /\ Head(s) = s[1]
      /\ Len(Tail(s)) = n - 1 /\ \A k \in 1..n - 1 : Tail(s)[k] = s[k + 1]
  OBVIOUS
<1>3. /\ Len(t) = n /\ t # <<>> /\ t[1] = f
      /\ \A k \in 2..n : t[k] = Tail(s)[k - 1]
  BY <1>2
<1>4. \A k \in 2..n : t[k] = s[k]
  BY <1>2, <1>3
<1>5. /\ \A k \in 1..n - 1 : Deleting(s[k])
      /\ n > 1 => Looping(s[n])
      /\ DeletesOneOf(s[n], S)
  BY <1>2 DEF Nested
<1>6. Deleting(s[1]) => Deleting(f)
  BY <1>2
<1>7. DeletesOneOf(s[1], S) => DeletesOneOf(f, S)
  BY <1>2 DEF DeletesOneOf
<1> HIDE DEF n, t
<1>8. \A k \in 1..n - 1 : Deleting(t[k])
  <2> TAKE k \in 1..n - 1
  <2>1. CASE k = 1
    BY <1>3, <1>5, <1>6, <2>1
  <2>2. CASE k # 1
    <3>1. k \in 2..n
      BY <1>2, <2>2
    <3>2. QED
      BY <1>4, <1>5, <3>1
  <2>3. QED
    BY <2>1, <2>2
<1>9. (n > 1 => Looping(t[n])) /\ DeletesOneOf(t[n], S)
  <2>1. CASE n = 1
    BY <1>2, <1>3, <1>5, <1>7, <2>1
  <2>2. CASE n # 1
    <3>1. n \in 2..n
      BY <1>2, <2>2
    <3>2. QED
      BY <1>4, <1>5, <3>1
  <2>3. QED
    BY <2>1, <2>2
<1>10. QED
  BY <1>3, <1>8, <1>9 DEF Nested, t

LEMMA NestedPush ==
    ASSUME NEW s \in Seq(Frame), s # <<>>, NEW g \in Frame, NEW S, Nested(s, S),
           Deleting(g), Looping(s[Len(s)])
    PROVE  Nested(<<g>> \o s, S)
<1>1. DEFINE n == Len(s)
             t == <<g>> \o s
<1>2. n \in Nat /\ n >= 1
  OBVIOUS
<1>3. /\ Len(t) = n + 1 /\ t # <<>> /\ t[1] = g
      /\ \A k \in 1..n : t[k + 1] = s[k]
  BY <1>2
<1>4. (\A k \in 1..n - 1 : Deleting(s[k])) /\ DeletesOneOf(s[n], S) /\ Looping(s[n])
  BY <1>2 DEF Nested
<1> HIDE DEF n, t
<1>5. \A k \in 1..n : Deleting(t[k])
  <2> TAKE k \in 1..n
  <2>1. CASE k = 1
    BY <1>3, <2>1
  <2>2. CASE k # 1
    <3>1. k - 1 \in 1..n /\ k - 1 \in 1..n - 1 /\ k - 1 + 1 = k
      BY <1>2, <2>2
    <3>2. t[k - 1 + 1] = s[k - 1] /\ Deleting(s[k - 1])
      BY <1>3, <1>4, <3>1
    <3>3. QED
      BY <3>1, <3>2
  <2>3. QED
    BY <2>1, <2>2
<1>6. t[n + 1] = s[n]
  <2>1. n \in 1..n
    BY <1>2
  <2>2. QED
    BY <1>3, <2>1
<1>7. Len(t) - 1 = n
  BY <1>2, <1>3
<1>8. QED
  BY <1>3, <1>4, <1>5, <1>6, <1>7 DEF Nested

LEMMA NestedPop ==
    ASSUME NEW s \in Seq(Frame), s # <<>>, NEW S, Nested(s, S)
    PROVE  Nested(Tail(s), S)
<1>1. DEFINE n == Len(s)
             t == Tail(s)
<1>2. /\ n \in Nat /\ n >= 1
      /\ Len(t) = n - 1 /\ \A k \in 1..n - 1 : t[k] = s[k + 1]
      /\ t # <<>> => n > 1
  OBVIOUS
<1>3. /\ \A k \in 1..n - 1 : Deleting(s[k])
      /\ n > 1 => Looping(s[n])
      /\ DeletesOneOf(s[n], S)
  BY <1>2 DEF Nested
<1> HIDE DEF n, t
<1>4. n > 1 => t[n - 1] = s[n]
  <2>1. n > 1 => n - 1 \in 1..n - 1 /\ n - 1 + 1 = n
    BY <1>2
  <2>2. QED
    BY <1>2, <2>1
<1>5. \A k \in 1..n - 1 - 1 : Deleting(t[k])
  <2> TAKE k \in 1..n - 1 - 1
  <2>1. k \in 1..n - 1 /\ k + 1 \in 1..n - 1
    BY <1>2
  <2>2. QED
    BY <1>2, <1>3, <2>1
<1>6. QED
  BY <1>2, <1>3, <1>4, <1>5 DEF Nested

LEMMA NestedOther ==
    /\ \A S : Nested(<<>>, S)
    /\ \A S : \A f \in Frame : DeletesOneOf(f, S) => Nested(<<f>>, S)
    /\ \A s \in Seq(Frame) : \A S, T : S \subseteq T /\ Nested(s, S) => Nested(s, T)
<1>1. \A S : Nested(<<>>, S)
  BY DEF Nested
<1>2. \A S : \A f \in Frame : DeletesOneOf(f, S) => Nested(<<f>>, S)
  BY DEF Nested
<1>3. ASSUME NEW s \in Seq(Frame), NEW S, NEW T, S \subseteq T, Nested(s, S)
      PROVE  Nested(s, T)
  BY <1>3 DEF Nested, DeletesOneOf
<1>4. QED
  BY <1>1, <1>2, <1>3

LEMMA StackOf ==
    ASSUME Stacks, NEW w \in Worker, ~Idle(w)
    PROVE  /\ calls[w] \in Seq(Frame) /\ calls[w] # <<>>
           /\ Top(w) = Head(calls[w]) /\ Top(w) = calls[w][1]
           /\ Len(calls[w]) \in Nat /\ Len(calls[w]) >= 1
           /\ Root(w) = calls[w][Len(calls[w])]
<1>1. calls[w] \in Seq(Frame) /\ calls[w] # <<>>
  BY DEF Stacks, Idle
<1>2. QED
  BY <1>1 DEF Top, Root

\* A step of worker w that changes no assertion keeps RootInv if it keeps the
\* stack of w nested.
LEMMA RootKept ==
    ASSUME Stacks, RootInv, NEW w \in Worker, NEW s,
           calls' = [calls EXCEPT ![w] = s],
           SparedPaths \subseteq SparedPaths', Nested(s, SparedPaths')
    PROVE  RootInv'
<1>1. calls'[w] = s /\ \A u \in Worker \ {w} : calls'[u] = calls[u]
  BY DEF Stacks
<1>2. \A u \in Worker \ {w} : Nested(calls[u], SparedPaths')
  BY NestedOther DEF RootInv, Stacks
<1>3. \A u \in Worker : Nested(calls'[u], SparedPaths')
  BY <1>1, <1>2
<1>4. QED
  BY <1>3 DEF RootInv

LEMMA GotoRoot ==
    ASSUME Stacks, RootInv, NEW w \in Worker, ~Idle(w), NEW f \in Frame, Goto(w, f),
           Deleting(f) <=> Deleting(Top(w)),
           Deleting(f) => f.path = Top(w).path,
           SparedPaths \subseteq SparedPaths'
    PROVE  RootInv'
<1>1. /\ calls[w] \in Seq(Frame) /\ calls[w] # <<>> /\ Top(w) = Head(calls[w])
      /\ Nested(calls[w], SparedPaths)
  BY StackOf DEF RootInv
<1>2. DEFINE s == <<f>> \o Tail(calls[w])
<1>3. Nested(s, SparedPaths) /\ s \in Seq(Frame)
  BY <1>1, NestedReplace
<1>4. calls' = [calls EXCEPT ![w] = s]
  BY DEF Goto, Stacks
<1> HIDE DEF s
<1>5. Nested(s, SparedPaths')
  BY <1>3, NestedOther
<1>6. QED
  BY <1>4, <1>5, RootKept

LEMMA CallRoot ==
    ASSUME Stacks, RootInv, NEW w \in Worker, ~Idle(w),
           NEW f \in Frame, NEW g \in Frame, Call(w, f, g),
           Deleting(f) <=> Deleting(Top(w)),
           Deleting(f) => f.path = Top(w).path,
           Looping(f), Deleting(g),
           SparedPaths \subseteq SparedPaths'
    PROVE  RootInv'
<1>1. /\ calls[w] \in Seq(Frame) /\ calls[w] # <<>> /\ Top(w) = Head(calls[w])
      /\ Nested(calls[w], SparedPaths)
  BY StackOf DEF RootInv
<1>2. DEFINE r == <<f>> \o Tail(calls[w])
             s == <<g>> \o r
<1>3. r \in Seq(Frame) /\ r # <<>> /\ Nested(r, SparedPaths)
  BY <1>1, NestedReplace
<1>4. Looping(r[Len(r)])
  <2>1. CASE Len(r) > 1
    <3> HIDE DEF r
    <3> QED BY <1>3, <2>1 DEF Nested
  <2>2. CASE Len(r) <= 1
    <3>1. DEFINE q == Tail(calls[w])
    <3>2. q \in Seq(Frame)
      BY <1>1
    <3>3. r = <<f>> \o q
      OBVIOUS
    <3> HIDE DEF q, r
    <3>4. r[1] = f /\ Len(r) = Len(q) + 1 /\ Len(q) \in Nat
      BY <3>2, <3>3
    <3>5. Len(r) = 1
      BY <2>2, <3>4
    <3>6. QED
      BY <3>4, <3>5
  <2>3. QED
    <3>1. Len(r) \in Nat
      BY <1>3
    <3>2. QED
      BY <2>1, <2>2, <3>1
<1>5. Nested(s, SparedPaths) /\ s \in Seq(Frame)
  <2> HIDE DEF r
  <2> QED BY <1>3, <1>4, NestedPush
<1>6. calls' = [calls EXCEPT ![w] = s]
  <2>1. <<g, f>> \o Tail(calls[w]) = <<g>> \o (<<f>> \o Tail(calls[w]))
    BY <1>1
  <2>2. QED
    BY <2>1 DEF Call, Stacks
<1> HIDE DEF s
<1>7. Nested(s, SparedPaths')
  BY <1>5, NestedOther
<1>8. QED
  BY <1>6, <1>7, RootKept

LEMMA ReturnRoot ==
    ASSUME Stacks, RootInv, NEW w \in Worker, ~Idle(w), Return(w),
           SparedPaths \subseteq SparedPaths'
    PROVE  RootInv'
<1>1. /\ calls[w] \in Seq(Frame) /\ calls[w] # <<>> /\ Nested(calls[w], SparedPaths)
  BY StackOf DEF RootInv
<1>2. DEFINE s == Tail(calls[w])
<1>3. Nested(s, SparedPaths) /\ s \in Seq(Frame)
  BY <1>1, NestedPop
<1>4. calls' = [calls EXCEPT ![w] = s]
  BY DEF Return, Stacks
<1> HIDE DEF s
<1>5. Nested(s, SparedPaths')
  BY <1>3, NestedOther
<1>6. QED
  BY <1>4, <1>5, RootKept

LEMMA OtherRoot ==
    ASSUME Stacks, RootInv, NEW w \in Worker, SparedPaths \subseteq SparedPaths',
           \/ Fail(w)
           \/ \E f \in Frame : Begin(w, f) /\ DeletesOneOf(f, SparedPaths')
    PROVE  RootInv'
<1>1. CASE Fail(w)
  <2>1. DEFINE s == <<>>
  <2>2. calls' = [calls EXCEPT ![w] = s] /\ Nested(s, SparedPaths')
    BY <1>1, NestedOther DEF Fail
  <2> HIDE DEF s
  <2>3. QED
    BY <2>2, RootKept
<1>2. CASE \E f \in Frame : Begin(w, f) /\ DeletesOneOf(f, SparedPaths')
  <2>1. PICK f \in Frame : Begin(w, f) /\ DeletesOneOf(f, SparedPaths')
    BY <1>2
  <2>2. DEFINE s == <<f>>
  <2>3. calls' = [calls EXCEPT ![w] = s]
    BY <2>1 DEF Begin
  <2>4. Nested(s, SparedPaths')
    BY <2>1, NestedOther
  <2> HIDE DEF s
  <2>5. QED
    BY <2>3, <2>4, RootKept
<1>3. QED
  BY <1>1, <1>2

LEMMA RootStep == TypeInv /\ RootInv /\ [Next]_vars => RootInv'
<1> SUFFICES ASSUME TypeInv, RootInv, [Next]_vars PROVE RootInv'
  OBVIOUS
<1> USE PathLifeConstants
<1>1. TablesOK /\ Stacks
  BY TypeParts DEF TypeInv
<1>2. ASSUME UNCHANGED <<granted, late>> PROVE SparedPaths' = SparedPaths
  BY <1>2 DEF SparedPaths
<1>3. ASSUME NEW w \in Worker, ~Idle(w) PROVE Top(w) \in Frame
  BY <1>1, <1>3, TopOf
<1>4. ASSUME NEW w \in Worker, DeleteClass(w) PROVE RootInv'
  <2>1. PICK b \in classes : DeleteClass(w)!(b)
    BY <1>4 DEF DeleteClass
  <2>2. DEFINE f == [at |-> "list paths", badge |-> b]
  <2>3. f \in Frame /\ ~Deleting(f)
    BY <1>1, NewFrames DEF TablesOK, Deleting
  <2>4. Begin(w, f) /\ UNCHANGED <<granted, late>>
    BY <2>1
  <2> HIDE DEF f
  <2>5. QED
    BY <1>1, <1>2, <2>3, <2>4, OtherRoot DEF DeletesOneOf
<1>5. ASSUME NEW w \in Worker, DeletePath(w) PROVE RootInv'
  <2>1. PICK l \in paths : DeletePath(w)!(l)
    BY <1>5 DEF DeletePath
  <2>2. DEFINE f == [at |-> "list entries", path |-> l]
  <2>3. f \in Frame /\ f.path = l /\ l \in LP
    BY <1>1, NewFrames DEF TablesOK
  <2>4. Begin(w, f) /\ UNCHANGED <<granted, late>> /\ granted[Part[l]] = "none"
    BY <2>1
  <2> HIDE DEF f
  <2>5. DeletesOneOf(f, SparedPaths')
    BY <1>2, <2>3, <2>4 DEF DeletesOneOf, SparedPaths
  <2>6. QED
    BY <1>1, <1>2, <2>3, <2>4, <2>5, OtherRoot
<1>6. ASSUME NEW w \in Worker, Post(w) PROVE RootInv'
  <2>1. PICK l \in LP \ made, S \in Contents : Post(w)!(l, S)
    BY <1>6 DEF Post
  <2>2. DEFINE f == [at |-> "insert", path |-> l, todo |-> S]
  <2>3. f \in Frame /\ ~Deleting(f)
    BY NewFrames DEF Deleting
  <2>4. Begin(w, f) /\ UNCHANGED <<granted, late>>
    BY <2>1
  <2> HIDE DEF f
  <2>5. QED
    BY <1>1, <1>2, <2>3, <2>4, OtherRoot DEF DeletesOneOf
<1>7. ASSUME NEW w \in Worker, Load(w) PROVE RootInv'
  <2>1. PICK l \in paths : Load(w)!(l)
    BY <1>7 DEF Load
  <2>2. DEFINE f == [at |-> "save", path |-> l]
  <2>3. f \in Frame /\ ~Deleting(f)
    BY <1>1, NewFrames DEF TablesOK, Deleting
  <2>4. Begin(w, f) /\ UNCHANGED <<granted, late>>
    BY <2>1
  <2> HIDE DEF f
  <2>5. QED
    BY <1>1, <1>2, <2>3, <2>4, OtherRoot DEF DeletesOneOf
<1>8. ASSUME NEW w \in Worker, ListPaths(w) PROVE RootInv'
  <2>1. DEFINE b == Top(w).badge
               f == [at |-> "each path", badge |-> b,
                     todo |-> {l \in paths : b \in badges[l]}]
  <2>2. /\ ~Idle(w) /\ Top(w).at = "list paths" /\ Goto(w, f)
        /\ UNCHANGED <<granted, late>>
    BY <1>8 DEF ListPaths, At
  <2>3. f \in Frame /\ f.at = "each path"
    <3>1. Top(w) \in Frame /\ Top(w).at = "list paths"
      BY <1>3, <2>2
    <3>2. b \in Badge
      BY <3>1, FrameKinds
    <3>3. QED
      BY <1>1, <3>2, NewFrames DEF TablesOK
  <2> HIDE DEF f
  <2>4. ~Deleting(f) /\ ~Deleting(Top(w))
    BY <2>2, <2>3 DEF Deleting
  <2>5. QED
    BY <1>1, <1>2, <2>2, <2>3, <2>4, GotoRoot
<1>9. ASSUME NEW w \in Worker, CountBadges(w) PROVE RootInv'
  <2>1. ~Idle(w) /\ Top(w).at = "each path" /\ UNCHANGED <<granted, late>>
    BY <1>9 DEF CountBadges, At
  <2>2. PICK m \in Top(w).todo : CountBadges(w)!2!(m)
    BY <1>9 DEF CountBadges
  <2>3. DEFINE rest == [Top(w) EXCEPT !.todo = @ \ {m}]
               callee == [at |-> "list entries", path |-> m]
  <2>4. Fail(w) \/ Call(w, rest, callee) \/ Goto(w, rest)
    BY <2>2
  <2>5. Top(w) \in [at : {"each path"}, badge : Badge, todo : SUBSET LP]
    BY <1>3, <2>1, FrameKinds
  <2>6. /\ rest \in Frame /\ rest.at = "each path"
        /\ callee \in Frame /\ callee.at = "list entries"
    BY <2>5, NewFrames DEF Frame
  <2> HIDE DEF rest, callee
  <2>7. ~Deleting(rest) /\ ~Deleting(Top(w)) /\ Looping(rest) /\ Deleting(callee)
    BY <2>1, <2>6 DEF Deleting, Looping
  <2>8. QED
    BY <1>1, <1>2, <2>1, <2>4, <2>6, <2>7, GotoRoot, CallRoot, OtherRoot
<1>10. ASSUME NEW w \in Worker, DropClass(w) PROVE RootInv'
  <2>1. /\ ~Idle(w) /\ Return(w) /\ late' = late
        /\ granted' = [granted EXCEPT ![Top(w).badge] = "none"]
    BY <1>10 DEF DropClass, At
  <2>2. SparedPaths \subseteq SparedPaths'
    BY <1>1, <2>1 DEF SparedPaths, TablesOK
  <2>3. QED
    BY <1>1, <2>1, <2>2, ReturnRoot
<1>11. ASSUME NEW w \in Worker, ListEntries(w) PROVE RootInv'
  <2>1. DEFINE m == Top(w).path
               f == [at |-> "each entry", path |-> m,
                     todo |-> {k \in paths \ {m} : Part[m] \in badges[k]}]
  <2>2. /\ ~Idle(w) /\ Top(w).at = "list entries" /\ UNCHANGED <<granted, late>>
        /\ Fail(w) \/ Goto(w, f)
    BY <1>11 DEF ListEntries, At
  <2>3. f \in Frame /\ f.at = "each entry" /\ f.path = Top(w).path
    BY <1>1, <1>3, <2>2, FrameKinds, NewFrames DEF TablesOK
  <2> HIDE DEF f
  <2>4. Deleting(f) /\ Deleting(Top(w))
    BY <2>2, <2>3 DEF Deleting
  <2>5. QED
    BY <1>1, <1>2, <2>2, <2>3, <2>4, GotoRoot, OtherRoot
<1>12. ASSUME NEW w \in Worker, RemoveEntry(w) PROVE RootInv'
  <2>1. ~Idle(w) /\ Top(w).at = "each entry" /\ UNCHANGED <<granted, late>>
    BY <1>12 DEF RemoveEntry, At
  <2>2. Top(w) \in [at : {"each entry"}, path : LP, todo : SUBSET LP]
    BY <1>3, <2>1, FrameKinds
  <2>3. PICK m \in Top(w).todo : RemoveEntry(w)!2!(m)
    BY <1>12 DEF RemoveEntry
  <2>4. DEFINE f == [at |-> "count", path |-> Top(w).path, todo |-> Top(w).todo \ {m},
                     shrunk |-> m]
  <2>5. f \in Frame /\ f.at = "count" /\ f.path = Top(w).path
    BY <2>2, NewFrames
  <2>6. Goto(w, f)
    BY <2>3
  <2> HIDE DEF f
  <2>7. Deleting(f) /\ Deleting(Top(w))
    BY <2>1, <2>5 DEF Deleting
  <2>8. QED
    BY <1>1, <1>2, <2>1, <2>5, <2>6, <2>7, GotoRoot
<1>13. ASSUME NEW w \in Worker, CountLeft(w) PROVE RootInv'
  <2>1. ~Idle(w) /\ Top(w).at = "count" /\ UNCHANGED <<granted, late>>
    BY <1>13 DEF CountLeft, At
  <2>2. Top(w) \in [at : {"count"}, path : LP, todo : SUBSET LP, shrunk : LP]
    BY <1>3, <2>1, FrameKinds
  <2>3. DEFINE rest == [at |-> "each entry", path |-> Top(w).path, todo |-> Top(w).todo]
               callee == [at |-> "list entries", path |-> Top(w).shrunk]
  <2>4. Fail(w) \/ Call(w, rest, callee) \/ Goto(w, rest)
    BY <1>13 DEF CountLeft
  <2>5. /\ rest \in Frame /\ rest.at = "each entry" /\ rest.path = Top(w).path
        /\ callee \in Frame /\ callee.at = "list entries"
    BY <2>2, NewFrames
  <2> HIDE DEF rest, callee
  <2>6. Deleting(rest) /\ Deleting(Top(w)) /\ Looping(rest) /\ Deleting(callee)
    BY <2>1, <2>5 DEF Deleting, Looping
  <2>7. QED
    BY <1>1, <1>2, <2>1, <2>4, <2>5, <2>6, GotoRoot, CallRoot, OtherRoot
<1>14. ASSUME NEW w \in Worker, DropPath(w) \/ Filled(w) PROVE RootInv'
  <2>1. ~Idle(w) /\ Return(w) /\ UNCHANGED <<granted, late>>
    BY <1>14 DEF DropPath, Filled, At
  <2>2. QED
    BY <1>1, <1>2, <2>1, ReturnRoot
<1>15. ASSUME NEW w \in Worker, Insert(w) PROVE RootInv'
  <2>1. DEFINE f == [Top(w) EXCEPT !.at = "fill"]
  <2>2. /\ ~Idle(w) /\ Top(w).at = "insert" /\ UNCHANGED <<granted, late>>
        /\ Fail(w) \/ Goto(w, f)
    BY <1>15 DEF Insert, At
  <2>3. Top(w) \in [at : {"insert", "fill"}, path : LP, todo : SUBSET Badge]
    BY <1>3, <2>2, FrameKinds
  <2>4. f \in Frame /\ f.at = "fill"
    BY <2>3 DEF Frame
  <2> HIDE DEF f
  <2>5. ~Deleting(f) /\ ~Deleting(Top(w))
    BY <2>2, <2>4 DEF Deleting
  <2>6. QED
    BY <1>1, <1>2, <2>2, <2>4, <2>5, GotoRoot, OtherRoot
<1>16. ASSUME NEW w \in Worker, Fill(w) PROVE RootInv'
  <2>1. ~Idle(w) /\ Top(w).at = "fill" /\ UNCHANGED <<granted, late>>
    BY <1>16 DEF Fill, At
  <2>2. Top(w) \in [at : {"insert", "fill"}, path : LP, todo : SUBSET Badge]
    BY <1>3, <2>1, FrameKinds
  <2>3. PICK b \in Top(w).todo : Fill(w)!2!(b)
    BY <1>16 DEF Fill
  <2>4. DEFINE f == [Top(w) EXCEPT !.todo = @ \ {b}]
  <2>5. f \in Frame /\ f.at = "fill"
    BY <2>1, <2>2 DEF Frame
  <2>6. Fail(w) \/ Goto(w, f)
    BY <2>3
  <2> HIDE DEF f
  <2>7. ~Deleting(f) /\ ~Deleting(Top(w))
    BY <2>1, <2>5 DEF Deleting
  <2>8. QED
    BY <1>1, <1>2, <2>1, <2>5, <2>6, <2>7, GotoRoot, OtherRoot
<1>17. ASSUME NEW w \in Worker, Save(w) PROVE RootInv'
  <2>1. ~Idle(w) /\ (Return(w) \/ Fail(w)) /\ UNCHANGED <<granted, late>>
    BY <1>17 DEF Save, At
  <2>2. QED
    BY <1>1, <1>2, <2>1, ReturnRoot, OtherRoot
<1>18. ASSUME NEW w \in Worker, Crash(w) PROVE RootInv'
  <2>1. Fail(w) /\ UNCHANGED <<granted, late>>
    BY <1>18 DEF Crash
  <2>2. QED
    BY <1>1, <1>2, <2>1, OtherRoot
<1>19. ASSUME calls' = calls,
              \A w \in Worker, l \in LP :
                ~Idle(w) /\ Root(w).at \in {"list entries", "each entry", "count"}
                  /\ Root(w).path = l /\ l \in SparedPaths => l \in SparedPaths'
       PROVE  RootInv'
  <2>1. ASSUME NEW w \in Worker PROVE Nested(calls[w], SparedPaths')
    <3>1. CASE Idle(w)
      BY <3>1, NestedOther DEF Idle
    <3>2. CASE ~Idle(w)
      <4>1. Nested(calls[w], SparedPaths) /\ Root(w) = calls[w][Len(calls[w])]
        BY <1>1, <3>2, StackOf DEF RootInv
      <4>2. DeletesOneOf(Root(w), SparedPaths)
        BY <3>2, <4>1 DEF Nested, Idle
      <4>3. DeletesOneOf(Root(w), SparedPaths')
        BY <1>19, <3>2, <4>2 DEF DeletesOneOf, Deleting, SparedPaths
      <4>4. QED
        BY <4>1, <4>3 DEF Nested
    <3>3. QED
      BY <3>1, <3>2
  <2>2. QED
    BY <1>19, <2>1 DEF RootInv
<1>20. ASSUME NEW b \in Awardable, Award(b) \/ Expire(b) \/ Revoke(b) PROVE RootInv'
  <2>1. calls' = calls
    BY <1>20 DEF Award, Expire, Revoke
  <2>2. ASSUME NEW w \in Worker, NEW l \in LP, ~Idle(w),
               Root(w).at \in {"list entries", "each entry", "count"},
               Root(w).path = l, l \in SparedPaths
        PROVE  l \in SparedPaths'
    <3>1. Root(w) \in Frames(w)
      <4>1. /\ calls[w] \in Seq(Frame) /\ Len(calls[w]) \in Nat /\ Len(calls[w]) >= 1
            /\ Root(w) = calls[w][Len(calls[w])]
        BY <1>1, <2>2, StackOf
      <4>2. Len(calls[w]) \in DOMAIN calls[w]
        BY <4>1
      <4>3. QED
        BY <4>1, <4>2 DEF Frames
    <3>2. l \in Involved(w)
      BY <2>2, <3>1 DEF Involved
    <3> DEFINE g == granted[Part[l]]
    <3>3. Part[l] \in Badge /\ (g = "none" \/ l \in late)
      BY <2>2 DEF SparedPaths
    <3>4. granted \in [Badge -> {"none", "expired", "live"}]
      BY <1>1 DEF TablesOK
    <3>5. CASE Award(b)
      <4>1. late \subseteq late' /\ (Part[l] = b => l \in late')
        BY <3>2, <3>5 DEF Award
      <4>2. Part[l] # b => g' = g
        BY <3>3, <3>4, <3>5 DEF Award
      <4>3. QED
        BY <3>3, <4>1, <4>2 DEF SparedPaths
    <3>6. CASE Expire(b)
      <4>1. late' = late /\ (g = "none" => g' = "none")
        BY <3>3, <3>4, <3>6 DEF Expire
      <4>2. QED
        BY <3>3, <4>1 DEF SparedPaths
    <3>7. CASE Revoke(b)
      <4>1. late' = late /\ (g = "none" => g' = "none")
        BY <3>3, <3>4, <3>7 DEF Revoke
      <4>2. QED
        BY <3>3, <4>1 DEF SparedPaths
    <3>8. QED
      BY <1>20, <3>5, <3>6, <3>7
  <2>3. QED
    BY <1>19, <2>1, <2>2
<1>21. CASE UNCHANGED vars
  BY <1>2, <1>21 DEF vars, RootInv
<1>22. QED
  BY <1>4, <1>5, <1>6, <1>7, <1>8, <1>9, <1>10, <1>11, <1>12, <1>13, <1>14, <1>15,
     <1>16, <1>17, <1>18, <1>20, <1>21 DEF Next, Work, Request

\* Which path a step may delete.
LEMMA CompletedStep ==
    ASSUME TypeInv, RootInv, [Next]_vars, NEW l \in paths \ paths',
           granted[Part[l]] # "none", l \notin late
    PROVE  \E w \in Worker : /\ calls'[w] # calls[w]
                             /\ Root(w).at = "each path" \/ Root(w).path # l
<1> USE PathLifeConstants
<1>1. TablesOK /\ Stacks
  BY TypeParts DEF TypeInv
<1>2. l \notin SparedPaths
  BY DEF SparedPaths
<1>3. PICK w \in Worker : DropClass(w) \/ DropPath(w)
  BY DEF Next, Work, Request, vars, DeleteClass, ListPaths, CountBadges, DeletePath,
         ListEntries, RemoveEntry, CountLeft, Post, Insert, Fill, Filled, Load, Save,
         Award, Expire, Revoke, Crash
<1>4. ~Idle(w) /\ Return(w) /\ Top(w).at \in {"each path", "each entry"}
  BY <1>3 DEF DropClass, DropPath, At
<1>5. /\ calls[w] \in Seq(Frame) /\ calls[w] # <<>>
      /\ Top(w) = calls[w][1] /\ Root(w) = calls[w][Len(calls[w])]
      /\ Len(calls[w]) \in Nat /\ Len(calls[w]) >= 1
      /\ Nested(calls[w], SparedPaths)
  BY <1>1, <1>4, StackOf DEF RootInv
<1>6. calls'[w] # calls[w]
  <2>1. calls'[w] = Tail(calls[w])
    BY <1>1, <1>4 DEF Return, Stacks
  <2>2. calls[w] \in Seq(Frame) /\ calls[w] # <<>>
    BY <1>5
  <2>3. Len(Tail(calls[w])) # Len(calls[w])
    BY <2>2
  <2>4. QED
    BY <2>1, <2>3
<1>7. Deleting(Root(w)) => Root(w).path # l
  <2>1. DeletesOneOf(Root(w), SparedPaths)
    BY <1>5 DEF Nested
  <2>2. QED
    BY <1>2, <2>1 DEF DeletesOneOf
<1>8. Root(w).at = "each path" \/ Deleting(Root(w))
  <2>1. Looping(Root(w))
    <3>1. CASE Len(calls[w]) = 1
      BY <1>4, <1>5, <3>1 DEF Looping
    <3>2. CASE Len(calls[w]) > 1
      <4>1. Nested(calls[w], SparedPaths) /\ Root(w) = calls[w][Len(calls[w])]
        BY <1>5
      <4>2. QED
        BY <3>2, <4>1 DEF Nested
    <3>3. Len(calls[w]) = 1 \/ Len(calls[w]) > 1
      <4> DEFINE n == Len(calls[w])
      <4>1. n \in Nat /\ n >= 1
        BY <1>5
      <4> HIDE DEF n
      <4>2. n = 1 \/ n > 1
        BY <4>1
      <4>3. QED
        BY <4>2 DEF n
    <3>4. QED
      BY <3>1, <3>2, <3>3
  <2>2. QED
    BY <2>1 DEF Looping, Deleting
<1>9. QED
  BY <1>6, <1>7, <1>8

\* A request to delete a path deletes no path that has awarded micro degrees
\* unless the degree came late or the path was another one.
THEOREM CompletedAlwaysKept == Spec => CompletedKept
<1>1. Init => TypeInv /\ RootInv
  <2>1. Init => RootInv
    BY NestedOther DEF Init, RootInv
  <2>2. QED
    BY <2>1, InitTypeInv
<1>2. TypeInv /\ RootInv /\ [Next]_vars => (TypeInv /\ RootInv)'
  BY TypeStep, RootStep
<1>3. TypeInv /\ RootInv /\ [Next]_vars =>
        [\A l \in paths \ paths' :
           granted[Part[l]] # "none" /\ l \notin late
           => \E w \in Worker :
                 /\ calls'[w] # calls[w]
                 /\ Root(w).at = "each path" \/ Root(w).path # l]_vars
  BY CompletedStep
<1>4. QED
  BY <1>1, <1>2, <1>3, PTL DEF Spec, CompletedKept

=============================================================================
