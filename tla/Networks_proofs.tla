-------------------------- MODULE Networks_proofs --------------------------
(***************************************************************************)
(* Theorems about Networks, for any numbers of networks, issuers, badge     *)
(* classes, invitations and workers: rows always refer to rows that exist,  *)
(* the pending invitations of an issuer are bounded by the workers, and     *)
(* requests that overlap exceed the quota by a bounded amount.              *)
(***************************************************************************)
EXTENDS Networks, TLAPS, FiniteSetTheorems

TablesOK ==
    /\ networks \subseteq Network
    /\ members \subseteq networks \X Issuer
    /\ invites \in [Invitation -> Row \cup {None}]
    /\ used \subseteq Invitation
    /\ \A k \in Invitation :
          invites[k] # None => k \in used /\ invites[k].network \in networks
    /\ shares \subseteq Badge \X networks
    /\ founders \subseteq members

\* What a worker has read exists: networks and used keys never go away.
Reads(w) == /\ doing[w] # Idle => doing[w].network \in networks
            /\ At(w, "accept") \/ At(w, "withdraw") => doing[w].key \in used

IInv == /\ TablesOK
        /\ doing \in [Worker -> Step]
        /\ \A w \in Worker : Reads(w)

\* The workers that are about to invite issuer i to network n.
Inviting(n, i) == {w \in Worker :
    At(w, "invite") /\ doing[w].network = n /\ i \in doing[w].issuers}

\* The invitations that workers A are about to replace.
Seen(A) == UNION {doing[w].found : w \in A}

\* Of the workers that are about to invite an issuer, take any group: the
\* pending invitations that none of the group has seen are as many as there are
\* other workers, at most.
Unseen(n, i) == \A A \in SUBSET Inviting(n, i) :
    Cardinality(Pending(n, i) \ Seen(A)) <= Cardinality(Worker) - Cardinality(A)

PendingInv == IInv /\ \A n \in Network, i \in Issuer : Unseen(n, i)

----------------------------------------------------------------------------
(* What a worker holds, by the label it is at. *)

\* The quota has granted what it is about to invite.
HasGrant(step) == step.at \in {"check", "find", "invite"}

LEMMA IdleStep == Idle \in Step /\ Idle.at = "idle"
  BY DEF Idle, Step

LEMMA Held ==
    ASSUME NEW w, doing[w] \in Step
    PROVE  /\ doing[w] # Idle => doing[w].network \in Network
           /\ At(w, "join") \/ At(w, "cancel") => doing[w].issuer \in Issuer
           /\ At(w, "count") \/ HasGrant(doing[w]) => doing[w].issuers \in SUBSET Issuer
           /\ At(w, "count") => doing[w].partners \in Nat
           /\ At(w, "invite") => doing[w].found \in SUBSET Invitation
           /\ At(w, "accept") \/ At(w, "withdraw") =>
                 doing[w].key \in Invitation /\ doing[w].issuer \in Issuer
           /\ At(w, "share") => doing[w].badge \in Badge
           /\ doing[w] = Idle <=> At(w, "idle")
<1> DEFINE d == doing[w]
<1>1. CASE d = Idle
  BY <1>1 DEF Idle, At, HasGrant
<1>2. CASE d \in [at : {"join", "cancel"}, network : Network, issuer : Issuer]
  BY <1>2, IdleStep DEF At, HasGrant
<1>3. CASE \/ d \in [at : {"count"}, network : Network, issuers : SUBSET Issuer,
                     partners : Nat]
           \/ d \in [at : {"check", "find"}, network : Network, issuers : SUBSET Issuer]
  BY <1>3, IdleStep DEF At, HasGrant
<1>4. CASE d \in [at : {"invite"}, network : Network, issuers : SUBSET Issuer,
                  found : SUBSET Invitation]
  BY <1>4, IdleStep DEF At, HasGrant
<1>5. CASE d \in [at : {"accept", "withdraw"}, key : Invitation, network : Network,
                  issuer : Issuer]
  BY <1>5, IdleStep DEF At, HasGrant
<1>6. CASE d \in [at : {"share"}, badge : Badge, network : Network]
  BY <1>6, IdleStep DEF At, HasGrant
<1> QED BY <1>1, <1>2, <1>3, <1>4, <1>5, <1>6 DEF Step

\* A worker goes on to step, and the tables stay in order.
LEMMA Moved ==
    ASSUME IInv, NEW w \in Worker, NEW step \in Step, Then(w, step), TablesOK',
           networks \subseteq networks', used \subseteq used',
           step = Idle \/ step.network \in networks',
           step.at \in {"accept", "withdraw"} => step.key \in used'
    PROVE  IInv'
<1>1. doing' \in [Worker -> Step]
  BY DEF IInv, Then
<1>2. ASSUME NEW u \in Worker PROVE Reads(u)'
  <2>1. CASE u = w
    <3>1. doing'[w] = step
      BY DEF IInv, Then
    <3> QED BY <2>1, <3>1, IdleStep DEF Reads, At
  <2>2. CASE u # w
    <3>1. doing'[u] = doing[u]
      BY <2>2 DEF IInv, Then
    <3>2. Reads(u)
      BY DEF IInv
    <3> QED BY <3>1, <3>2 DEF Reads, At
  <2> QED BY <2>1, <2>2
<1> QED BY <1>1, <1>2 DEF IInv

LEMMA PartnersCounted ==
    ASSUME NEW n
    PROVE  IsFiniteSet(Partners(n)) /\ Cardinality(Partners(n)) \in Nat
  BY NetworksConstants, FS_Subset, FS_CardinalityType DEF Partners

\* A request to invite passes a check or is refused.
LEMMA Checked ==
    ASSUME NEW w, CheckQuota(w) \/ CheckPartners(w)
    PROVE  /\ At(w, "count") \/ At(w, "check")
           /\ \/ \E label \in {"check", "find"} :
                   Then(w, [at |-> label, network |-> doing[w].network,
                            issuers |-> doing[w].issuers])
              \/ Done(w)
           /\ UNCHANGED <<networks, members, invites, used, shares, founders>>
<1>1. CASE CheckQuota(w)
  <2>1. \/ Then(w, [at |-> "check", network |-> doing[w].network,
                    issuers |-> doing[w].issuers])
        \/ Done(w)
    BY <1>1 DEF CheckQuota, Pass
  <2> QED BY <1>1, <2>1 DEF CheckQuota, Pass
<1>2. CASE CheckPartners(w)
  <2>1. \/ Then(w, [at |-> "find", network |-> doing[w].network,
                    issuers |-> doing[w].issuers])
        \/ Done(w)
    BY <1>2 DEF CheckPartners, Pass
  <2> QED BY <1>2, <2>1 DEF CheckPartners, Pass
<1> QED BY <1>1, <1>2

----------------------------------------------------------------------------
(* Handlers that begin, and only read. *)

LEMMA Begun ==
    ASSUME IInv, NEW w \in Worker,
           CountPartners(w) \/ CheckQuota(w) \/ CheckPartners(w) \/ FindPending(w)
             \/ Confirm(w) \/ Revoke(w) \/ CheckShare(w)
    PROVE  IInv'
<1>0. TablesOK /\ doing[w] \in Step /\ Reads(w)
  BY DEF IInv
<1>1. UNCHANGED <<networks, members, invites, used, shares, founders>>
  BY DEF CountPartners, CheckQuota, CheckPartners, Pass, FindPending, Confirm, Revoke,
         CheckShare, Load
<1>2. TablesOK'
  BY <1>0, <1>1 DEF TablesOK
<1>3. CASE CountPartners(w)
  <2>1. PICK n \in networks, S \in SUBSET Issuer :
           Begin(w, [at |-> "count", network |-> n, issuers |-> S,
                     partners |-> Cardinality(Partners(n))])
    BY <1>3 DEF CountPartners
  <2> DEFINE step == [at |-> "count", network |-> n, issuers |-> S,
                      partners |-> Cardinality(Partners(n))]
  <2>2. Cardinality(Partners(n)) \in Nat
    BY PartnersCounted
  <2>3. step \in Step
    BY <1>0, <2>2 DEF Step, TablesOK
  <2> QED BY <1>1, <1>2, <2>1, <2>3, Moved DEF Begin, Then
<1>4. CASE FindPending(w)
  <2> DEFINE found == {k \in PendingOf(doing[w].network) :
                              invites[k].issuer \in doing[w].issuers}
             step == [at |-> "invite", network |-> doing[w].network,
                      issuers |-> doing[w].issuers, found |-> found]
  <2>1. /\ doing[w].network \in networks /\ doing[w].issuers \in SUBSET Issuer
        /\ networks \subseteq Network
    BY <1>0, <1>4, Held DEF FindPending, Reads, At, Idle, TablesOK, HasGrant
  <2>2. found \in SUBSET Invitation
    BY DEF PendingOf
  <2>3. step \in Step
    BY <2>1, <2>2 DEF Step
  <2>4. Then(w, step)
    BY <1>4 DEF FindPending
  <2> QED BY <1>1, <1>2, <2>1, <2>3, <2>4, Moved
<1>5. ASSUME NEW k \in Invitation, NEW label \in {"accept", "withdraw"},
             Is(k, "Pending"), Load(w, label, k)
      PROVE  IInv'
  <2> DEFINE step == [at |-> label, key |-> k, network |-> invites[k].network,
                      issuer |-> invites[k].issuer]
  <2>1. /\ invites[k] \in Row /\ k \in used /\ invites[k].network \in networks
    BY <1>0, <1>5 DEF TablesOK, Is
  <2>2. step \in Step
    BY <2>1 DEF Step, Row
  <2> QED BY <1>1, <1>2, <1>5, <2>1, <2>2, Moved DEF Load, Begin, Then
<1>6. CASE CheckShare(w)
  <2>1. PICK b \in Badge, n \in networks :
           Begin(w, [at |-> "share", badge |-> b, network |-> n])
    BY <1>6 DEF CheckShare
  <2> DEFINE step == [at |-> "share", badge |-> b, network |-> n]
  <2>2. step \in Step
    BY <1>0 DEF Step, TablesOK
  <2> QED BY <1>1, <1>2, <2>1, <2>2, Moved DEF Begin, Then
<1>7. CASE CheckQuota(w) \/ CheckPartners(w)
  <2>1. /\ doing[w].network \in networks /\ doing[w].issuers \in SUBSET Issuer
        /\ networks \subseteq Network
    BY <1>0, <1>7, Checked, Held DEF Reads, At, Idle, TablesOK, HasGrant
  <2>2. CASE Done(w)
    BY <1>1, <1>2, <2>2, IdleStep, Moved DEF Done
  <2>3. ASSUME NEW label \in {"check", "find"},
               Then(w, [at |-> label, network |-> doing[w].network,
                        issuers |-> doing[w].issuers])
        PROVE  IInv'
    <3> DEFINE step == [at |-> label, network |-> doing[w].network,
                        issuers |-> doing[w].issuers]
    <3>1. step \in Step
      BY <2>1 DEF Step
    <3> QED BY <1>1, <1>2, <2>1, <2>3, <3>1, Moved
  <2> QED BY <1>7, <2>2, <2>3, Checked
<1> QED BY <1>3, <1>4, <1>5, <1>6, <1>7 DEF Confirm, Revoke

----------------------------------------------------------------------------
(* Handlers that write. *)

LEMMA Written ==
    ASSUME IInv, NEW w \in Worker,
           Create(w) \/ Join(w) \/ Invite(w) \/ Accept(w) \/ Withdraw(w)
             \/ Remove(w) \/ Cancel(w) \/ Share(w) \/ Crash(w)
    PROVE  IInv'
<1>0. TablesOK /\ doing[w] \in Step /\ Reads(w)
  BY DEF IInv
<1>1. ASSUME Done(w), TablesOK', networks' = networks, used \subseteq used'
      PROVE  IInv'
  BY <1>1, IdleStep, Moved DEF Done
<1>2. CASE Create(w)
  <2>1. PICK n \in Network \ networks : networks' = networks \cup {n} /\
           \/ Begin(w, Idle)
           \/ \E i \in Issuer :
                 Begin(w, [at |-> "join", network |-> n, issuer |-> i])
    BY <1>2 DEF Create
  <2>2. UNCHANGED <<members, invites, used, shares, founders>>
    BY <1>2 DEF Create
  <2>3. TablesOK'
    BY <1>0, <2>1, <2>2 DEF TablesOK
  <2>4. CASE Begin(w, Idle)
    BY <2>1, <2>2, <2>3, <2>4, IdleStep, Moved DEF Begin, Then
  <2>5. ASSUME NEW i \in Issuer,
               Begin(w, [at |-> "join", network |-> n, issuer |-> i])
        PROVE  IInv'
    <3> DEFINE step == [at |-> "join", network |-> n, issuer |-> i]
    <3>1. step \in Step
      BY DEF Step
    <3> QED BY <2>1, <2>2, <2>3, <2>5, <3>1, Moved DEF Begin, Then
  <2> QED BY <2>1, <2>4, <2>5
<1>3. CASE Join(w)
  <2>1. doing[w].network \in networks /\ doing[w].issuer \in Issuer
    BY <1>0, <1>3, Held DEF Join, Reads, At, Idle
  <2>2. TablesOK'
    BY <1>0, <1>3, <2>1 DEF Join, TablesOK
  <2> QED BY <1>1, <1>3, <2>2 DEF Join
<1>4. CASE Invite(w)
  <2>1. doing[w].network \in networks /\ doing[w].issuers \in SUBSET Issuer
    BY <1>0, <1>4, Held DEF Invite, Reads, At, Idle, HasGrant
  <2>2. PICK new \in [doing[w].issuers -> Invitation \ used] :
        /\ used' = used \cup {new[i] : i \in doing[w].issuers}
        /\ invites' = [k \in Invitation |->
              IF \E i \in doing[w].issuers : k = new[i]
              THEN [network |-> doing[w].network,
                    issuer |-> CHOOSE i \in doing[w].issuers : k = new[i],
                    status |-> "Pending"]
              ELSE IF k \in doing[w].found /\ Is(k, "Pending") THEN None
              ELSE invites[k]]
    BY <1>4 DEF Invite
  <2>3. ASSUME NEW k \in Invitation
        PROVE  /\ invites'[k] \in Row \cup {None}
               /\ invites'[k] # None => k \in used' /\ invites'[k].network \in networks
    <3>1. CASE \E i \in doing[w].issuers : k = new[i]
      <4> DEFINE j == CHOOSE i \in doing[w].issuers : k = new[i]
      <4>1. j \in Issuer /\ k \in used'
        BY <2>1, <2>2, <3>1
      <4>2. invites'[k] = [network |-> doing[w].network, issuer |-> j,
                           status |-> "Pending"]
        BY <2>2, <3>1
      <4> QED BY <1>0, <2>1, <4>1, <4>2 DEF Row, TablesOK
    <3>2. CASE ~ \E i \in doing[w].issuers : k = new[i]
      <4>1. invites'[k] \in {None, invites[k]}
        BY <2>2, <3>2
      <4> QED BY <1>0, <2>2, <4>1 DEF TablesOK
    <3> QED BY <3>1, <3>2
  <2>4. used \subseteq used' /\ used' \subseteq Invitation
    BY <1>0, <2>2 DEF TablesOK
  <2>5. UNCHANGED <<networks, members, shares, founders>>
    BY <1>4 DEF Invite
  <2>6. invites' \in [Invitation -> Row \cup {None}]
    <3>1. invites' = [k \in Invitation |-> invites'[k]]
      BY <2>2
    <3> QED BY <2>3, <3>1
  <2>7. TablesOK'
    BY <1>0, <2>3, <2>4, <2>5, <2>6 DEF TablesOK
  <2> QED BY <1>1, <1>4, <2>4, <2>7 DEF Invite
<1>5. ASSUME At(w, "accept") \/ At(w, "withdraw"),
             NEW s \in {"Approved", "Revoked"}, SaveRow(w, s),
             members \subseteq members', members' \subseteq networks \X Issuer,
             UNCHANGED <<networks, used, shares, founders>>
      PROVE  TablesOK'
  <2>1. /\ doing[w].network \in networks /\ doing[w].issuer \in Issuer
        /\ doing[w].key \in Invitation /\ doing[w].key \in used
    BY <1>0, <1>5, Held DEF Reads, At, Idle
  <2> DEFINE new == [network |-> doing[w].network, issuer |-> doing[w].issuer,
                     status |-> s]
  <2>2. new \in Row
    BY <1>0, <2>1 DEF Row, TablesOK
  <2>3. invites' = [invites EXCEPT ![doing[w].key] = new]
    BY <1>5 DEF SaveRow
  <2> QED BY <1>0, <1>5, <2>1, <2>2, <2>3 DEF TablesOK
<1>6. CASE Accept(w)
  <2>1. doing[w].network \in networks /\ doing[w].issuer \in Issuer
    BY <1>0, <1>6, Held DEF Accept, Reads, At, Idle
  <2>2. members \subseteq members' /\ members' \subseteq networks \X Issuer
    BY <1>0, <1>6, <2>1 DEF Accept, TablesOK
  <2> QED BY <1>1, <1>5, <1>6, <2>2 DEF Accept
<1>7. CASE Withdraw(w)
  BY <1>0, <1>1, <1>5, <1>7 DEF Withdraw, TablesOK
<1>8. CASE Remove(w)
  <2>1. PICK n \in networks, i \in Issuer :
        /\ members' = members \ {<<n, i>>}
        /\ founders' = founders \ {<<n, i>>}
        /\ Begin(w, [at |-> "cancel", network |-> n, issuer |-> i])
    BY <1>8 DEF Remove
  <2> DEFINE step == [at |-> "cancel", network |-> n, issuer |-> i]
  <2>2. step \in Step
    BY <1>0 DEF Step, TablesOK
  <2>3. TablesOK'
    BY <1>0, <1>8, <2>1 DEF Remove, TablesOK
  <2> QED BY <1>8, <2>1, <2>2, <2>3, Moved DEF Remove, Begin, Then
<1>9. CASE Cancel(w)
  <2>1. ASSUME NEW k \in Invitation
        PROVE  /\ invites'[k] \in Row \cup {None}
               /\ invites'[k] # None => k \in used /\ invites'[k].network \in networks
    <3>1. invites[k] \in Row \cup {None}
      BY <1>0 DEF TablesOK
    <3>2. CASE invites[k] \in Row /\ Is(k, "Approved") /\
               invites'[k] = [invites[k] EXCEPT !.status = "Revoked"]
      <4>1. invites'[k] \in Row /\ invites'[k].network = invites[k].network
        BY <3>2 DEF Row
      <4> QED BY <1>0, <3>2, <4>1 DEF Is, TablesOK
    <3>3. CASE invites'[k] = invites[k]
      BY <1>0, <3>3 DEF TablesOK
    <3> QED BY <1>9, <3>1, <3>2, <3>3 DEF Cancel, Is
  <2>2. invites' = [k \in Invitation |-> invites'[k]]
    BY <1>9 DEF Cancel
  <2>3. invites' \in [Invitation -> Row \cup {None}]
    BY <2>1, <2>2
  <2>4. TablesOK'
    BY <1>0, <1>9, <2>1, <2>3 DEF Cancel, TablesOK
  <2> QED BY <1>1, <1>9, <2>4 DEF Cancel
<1>10. CASE Share(w)
  <2>1. doing[w].network \in networks /\ doing[w].badge \in Badge
    BY <1>0, <1>10, Held DEF Share, Reads, At, Idle
  <2>2. TablesOK'
    BY <1>0, <1>10, <2>1 DEF Share, TablesOK
  <2> QED BY <1>1, <1>10, <2>2 DEF Share
<1>11. CASE Crash(w)
  BY <1>0, <1>1, <1>11 DEF Crash, TablesOK
<1> QED
  BY <1>2, <1>3, <1>4, <1>6, <1>7, <1>8, <1>9, <1>10, <1>11

----------------------------------------------------------------------------

LEMMA InitSound == Init => IInv
<1> SUFFICES ASSUME Init PROVE IInv
  OBVIOUS
<1>1. doing \in [Worker -> Step] /\ \A w \in Worker : doing[w] = Idle
  BY IdleStep DEF Init
<1>2. TablesOK
  BY DEF Init, TablesOK
<1> QED BY <1>1, <1>2, IdleStep DEF IInv, Reads, At

LEMMA NextSound == IInv /\ [Next]_vars => IInv'
<1> SUFFICES ASSUME IInv, [Next]_vars PROVE IInv'
  OBVIOUS
<1>1. CASE UNCHANGED vars
  BY <1>1 DEF vars, IInv, TablesOK, Reads, At
<1> QED BY <1>1, Begun, Written DEF Next, Work

LEMMA Invariance == Spec => []IInv
  BY InitSound, NextSound, PTL DEF Spec

\* Type correctness with the foreign keys: memberships, invitations and shares
\* refer to networks that exist, even those that a late save writes again.
THEOREM NetworksTypeCorrect == Spec => []NetworksTypeOK
<1>1. IInv => NetworksTypeOK
  BY DEF IInv, TablesOK, NetworksTypeOK
<1> QED BY <1>1, Invariance, PTL

----------------------------------------------------------------------------
(* Pending invitations. *)

LEMMA FinitePending ==
    ASSUME NEW n, NEW i
    PROVE  IsFiniteSet(Pending(n, i))
<1>1. Pending(n, i) \in SUBSET Invitation
  BY DEF Pending, PendingOf
<1> QED BY <1>1, NetworksConstants, FS_Subset

\* The bound stands when an issuer gets no pending invitation and no worker
\* begins to invite it.
LEMMA UnseenKept ==
    ASSUME NEW n, NEW i, Unseen(n, i),
           Pending(n, i)' \subseteq Pending(n, i),
           \A u \in Inviting(n, i)' : u \in Inviting(n, i) /\ doing'[u] = doing[u]
    PROVE  Unseen(n, i)'
<1> SUFFICES ASSUME NEW A \in SUBSET Inviting(n, i)'
             PROVE  Cardinality(Pending(n, i)' \ Seen(A)')
                        <= Cardinality(Worker) - Cardinality(A)
  BY DEF Unseen
<1>1. A \in SUBSET Inviting(n, i) /\ Seen(A)' = Seen(A)
  BY DEF Seen
<1>2. Cardinality(Pending(n, i) \ Seen(A)) <= Cardinality(Worker) - Cardinality(A)
  BY <1>1 DEF Unseen
<1>3. Pending(n, i)' \ Seen(A)' \in SUBSET (Pending(n, i) \ Seen(A))
  BY <1>1
<1>4. Pending(n, i) \ Seen(A) \in SUBSET Pending(n, i)
  OBVIOUS
<1>5. IsFiniteSet(Pending(n, i) \ Seen(A))
  BY <1>4, FinitePending, FS_Subset
<1>6. /\ Cardinality(Pending(n, i)' \ Seen(A)') <= Cardinality(Pending(n, i) \ Seen(A))
      /\ Cardinality(Pending(n, i) \ Seen(A)) \in Nat
      /\ IsFiniteSet(Pending(n, i)' \ Seen(A)')
  BY <1>3, <1>5, FS_Subset, FS_CardinalityType
<1>7. Cardinality(Pending(n, i)' \ Seen(A)') \in Nat
  BY <1>6, FS_CardinalityType
<1>8. A \in SUBSET Worker
  BY <1>1 DEF Inviting
<1>9. Cardinality(Worker) \in Nat /\ Cardinality(A) \in Nat
  BY <1>8, NetworksConstants, FS_Subset, FS_CardinalityType
<1> QED BY <1>2, <1>6, <1>7, <1>9

\* So it stands in a step that makes no row pending and ends before "invite".
LEMMA UnseenElsewhere ==
    ASSUME IInv, NEW w \in Worker, NEW step, Then(w, step), step.at # "invite",
           \A k \in Invitation : Is(k, "Pending")' => invites'[k] = invites[k],
           NEW n, NEW i, Unseen(n, i)
    PROVE  Unseen(n, i)'
<1>1. Pending(n, i)' \subseteq Pending(n, i)
  BY DEF Pending, PendingOf, Is
<1>2. ASSUME NEW u \in Inviting(n, i)'
      PROVE  u \in Inviting(n, i) /\ doing'[u] = doing[u]
  <2>1. u \in Worker /\ doing'[u].at = "invite"
    BY DEF Inviting, At
  <2>2. doing'[u] = IF u = w THEN step ELSE doing[u]
    BY <2>1 DEF IInv, Then
  <2>3. doing'[u] = doing[u]
    BY <2>1, <2>2
  <2> QED BY <2>1, <2>3 DEF Inviting, At
<1> QED BY <1>1, <1>2, UnseenKept

\* A worker that looks for pending invitations sees all of them.
LEMMA UnseenFindPending ==
    ASSUME IInv, NEW w \in Worker, FindPending(w),
           NEW n, NEW i, Unseen(n, i)
    PROVE  Unseen(n, i)'
<1> DEFINE found == {k \in PendingOf(doing[w].network) :
                              invites[k].issuer \in doing[w].issuers}
           step == [at |-> "invite", network |-> doing[w].network,
                    issuers |-> doing[w].issuers, found |-> found]
<1>1. doing' = [doing EXCEPT ![w] = step] /\ invites' = invites
  BY DEF FindPending, Then
<1>2. /\ doing'[w].network = doing[w].network
      /\ doing'[w].issuers = doing[w].issuers
      /\ doing'[w].found = found
      /\ \A u \in Worker \ {w} : doing'[u] = doing[u]
  <2>1. doing'[w] = step /\ \A u \in Worker \ {w} : doing'[u] = doing[u]
    BY <1>1 DEF IInv
  <2> HIDE DEF found
  <2> QED BY <2>1
<1> HIDE DEF step
<1>3. Pending(n, i)' = Pending(n, i)
  BY <1>1 DEF Pending, PendingOf, Is
<1> SUFFICES ASSUME NEW A \in SUBSET Inviting(n, i)'
             PROVE  Cardinality(Pending(n, i)' \ Seen(A)')
                        <= Cardinality(Worker) - Cardinality(A)
  BY DEF Unseen
<1>4. A \in SUBSET Worker
  BY DEF Inviting
<1>5. CASE w \in A
  <2>1. n = doing[w].network /\ i \in doing[w].issuers
    BY <1>2, <1>5 DEF Inviting
  <2>2. Pending(n, i)' \subseteq found
    BY <1>3, <2>1 DEF Pending, PendingOf
  <2>3. found \subseteq Seen(A)'
    BY <1>2, <1>5 DEF Seen
  <2>4. Cardinality(Pending(n, i)' \ Seen(A)') = 0
    <3>1. Pending(n, i)' \ Seen(A)' = {}
      BY <2>2, <2>3
    <3> QED BY <3>1, FS_EmptySet
  <2>5. /\ Cardinality(A) \in Nat /\ Cardinality(Worker) \in Nat
        /\ Cardinality(A) <= Cardinality(Worker)
    BY <1>4, NetworksConstants, FS_Subset, FS_CardinalityType
  <2> QED BY <2>4, <2>5
<1>6. CASE w \notin A
  <2>1. A \in SUBSET Inviting(n, i) /\ Seen(A)' = Seen(A)
    BY <1>2, <1>4, <1>6 DEF Inviting, At, Seen
  <2> QED BY <1>3, <2>1 DEF Unseen
<1> QED BY <1>5, <1>6

\* A worker that invites adds one invitation for an issuer, which no other
\* worker has seen, and deletes those that it saw itself.
LEMMA UnseenInvite ==
    ASSUME IInv, NEW w \in Worker, Invite(w),
           NEW n, NEW i, Unseen(n, i)
    PROVE  Unseen(n, i)'
<1>1. PICK new \in [doing[w].issuers -> Invitation \ used] :
        invites' = [k \in Invitation |->
              IF \E j \in doing[w].issuers : k = new[j]
              THEN [network |-> doing[w].network,
                    issuer |-> CHOOSE j \in doing[w].issuers : k = new[j],
                    status |-> "Pending"]
              ELSE IF k \in doing[w].found /\ Is(k, "Pending") THEN None
              ELSE invites[k]]
  BY DEF Invite
<1>2. \A u \in Worker : doing'[u] = IF u = w THEN Idle ELSE doing[u]
  BY DEF Invite, Done, Then, IInv
<1>3. ASSUME NEW k \in Pending(n, i)'
      PROVE  \/ /\ n = doing[w].network /\ i \in doing[w].issuers
                /\ k = new[i]
             \/ k \in Pending(n, i) \ doing[w].found
  <2>0. k \in Invitation /\ invites'[k] # None /\ invites'[k].status = "Pending"
        /\ invites'[k].network = n /\ invites'[k].issuer = i
    BY DEF Pending, PendingOf, Is
  <2>1. CASE \E j \in doing[w].issuers : k = new[j]
    <3>1. PICK j0 : j0 = CHOOSE j \in doing[w].issuers : k = new[j]
      OBVIOUS
    <3>2. j0 \in doing[w].issuers /\ k = new[j0]
      BY <2>1, <3>1
    <3>3. invites'[k] = [network |-> doing[w].network, issuer |-> j0,
                         status |-> "Pending"]
      BY <1>1, <2>0, <2>1, <3>1
    <3> QED BY <2>0, <3>2, <3>3
  <2>2. CASE ~ \E j \in doing[w].issuers : k = new[j]
    <3>1. invites'[k] = IF k \in doing[w].found /\ Is(k, "Pending") THEN None
                        ELSE invites[k]
      BY <1>1, <2>0, <2>2
    <3> QED BY <2>0, <3>1 DEF Pending, PendingOf, Is
  <2> QED BY <2>1, <2>2
<1>4. CASE n = doing[w].network /\ i \in doing[w].issuers
  <2> SUFFICES ASSUME NEW A \in SUBSET Inviting(n, i)'
               PROVE  Cardinality(Pending(n, i)' \ Seen(A)')
                          <= Cardinality(Worker) - Cardinality(A)
    BY DEF Unseen
  <2> DEFINE B == A \cup {w}
             old == Pending(n, i) \ Seen(B)
  <2>1. w \notin A
    BY <1>2, IdleStep DEF Inviting, At
  <2>2. A \in SUBSET Inviting(n, i) /\ Seen(A)' = Seen(A)
    BY <1>2, <2>1 DEF Inviting, At, Seen
  <2>3. B \in SUBSET Inviting(n, i)
    BY <1>4, <2>2 DEF Inviting, Invite
  <2>4. Cardinality(old) <= Cardinality(Worker) - Cardinality(B)
    BY <2>3 DEF Unseen
  <2>5. Pending(n, i)' \ Seen(A)' \in SUBSET (old \cup {new[i]})
    BY <1>3, <2>2 DEF Seen
  <2>6. A \in SUBSET Worker /\ IsFiniteSet(A)
    BY <2>2, NetworksConstants, FS_Subset DEF Inviting
  <2>7. Cardinality(B) = Cardinality(A) + 1
    BY <2>1, <2>6, FS_AddElement
  <2>8. /\ Cardinality(A) \in Nat /\ Cardinality(Worker) \in Nat
    BY <2>6, NetworksConstants, FS_CardinalityType
  <2>9. IsFiniteSet(old)
    <3>1. old \in SUBSET Pending(n, i)
      OBVIOUS
    <3> QED BY <3>1, FinitePending, FS_Subset
  <2>10. /\ IsFiniteSet(old \cup {new[i]})
         /\ Cardinality(old) \in Nat
         /\ Cardinality(old \cup {new[i]}) \in {Cardinality(old), Cardinality(old) + 1}
    BY <2>9, FS_AddElement, FS_CardinalityType
  <2>11. /\ IsFiniteSet(Pending(n, i)' \ Seen(A)')
         /\ Cardinality(Pending(n, i)' \ Seen(A)') <= Cardinality(old \cup {new[i]})
    BY <2>5, <2>10, FS_Subset
  <2>12. Cardinality(Pending(n, i)' \ Seen(A)') \in Nat
    BY <2>11, FS_CardinalityType
  <2> HIDE DEF B, old
  <2> QED BY <2>4, <2>7, <2>8, <2>10, <2>11, <2>12
<1>5. CASE ~(n = doing[w].network /\ i \in doing[w].issuers)
  <2>1. Pending(n, i)' \subseteq Pending(n, i)
    BY <1>3, <1>5
  <2>2. \A u \in Inviting(n, i)' : u \in Inviting(n, i) /\ doing'[u] = doing[u]
    BY <1>2, IdleStep DEF Inviting, At
  <2> QED BY <2>1, <2>2, UnseenKept
<1> QED BY <1>4, <1>5

LEMMA UnseenStep ==
    ASSUME IInv, NEW w \in Worker, Work(w), NEW n, NEW i, Unseen(n, i)
    PROVE  Unseen(n, i)'
<1>1. ASSUME UNCHANGED invites, NEW step, Then(w, step), step.at # "invite"
      PROVE  Unseen(n, i)'
  BY <1>1, UnseenElsewhere DEF Is
<1>2. ASSUME Done(w),
             \A k \in Invitation : Is(k, "Pending")' => invites'[k] = invites[k]
      PROVE  Unseen(n, i)'
  BY <1>2, UnseenElsewhere, IdleStep DEF Done
<1>3. CASE Create(w)
  <2>1. UNCHANGED invites
    BY <1>3 DEF Create
  <2>2. CASE Begin(w, Idle)
    BY <1>1, <2>1, <2>2, IdleStep DEF Begin, Then
  <2>3. ASSUME NEW m, NEW j, Begin(w, [at |-> "join", network |-> m, issuer |-> j])
        PROVE  Unseen(n, i)'
    <3> DEFINE step == [at |-> "join", network |-> m, issuer |-> j]
    <3>1. Then(w, step) /\ step.at # "invite"
      BY <2>3 DEF Begin, Then
    <3> HIDE DEF step
    <3> QED BY <1>1, <2>1, <3>1
  <2> QED BY <1>3, <2>2, <2>3 DEF Create
<1>4. CASE CountPartners(w)
  <2>1. PICK m, S, c :
           Begin(w, [at |-> "count", network |-> m, issuers |-> S, partners |-> c])
    BY <1>4 DEF CountPartners
  <2> DEFINE step == [at |-> "count", network |-> m, issuers |-> S, partners |-> c]
  <2>2. Then(w, step) /\ step.at # "invite"
    BY <2>1 DEF Begin, Then
  <2>3. UNCHANGED invites
    BY <1>4 DEF CountPartners
  <2> HIDE DEF step
  <2> QED BY <1>1, <2>2, <2>3
<1>11. CASE CheckQuota(w) \/ CheckPartners(w)
  <2>1. UNCHANGED invites
    BY <1>11, Checked
  <2>2. ASSUME NEW label \in {"check", "find"},
               Then(w, [at |-> label, network |-> doing[w].network,
                        issuers |-> doing[w].issuers])
        PROVE  Unseen(n, i)'
    <3> DEFINE step == [at |-> label, network |-> doing[w].network,
                        issuers |-> doing[w].issuers]
    <3>1. Then(w, step) /\ step.at # "invite"
      BY <2>2
    <3> HIDE DEF step
    <3> QED BY <1>1, <2>1, <3>1
  <2> QED BY <1>2, <1>11, <2>1, <2>2, Checked
<1>5. CASE Confirm(w) \/ Revoke(w)
  <2>1. ASSUME NEW k, NEW label \in {"accept", "withdraw"}, Load(w, label, k)
        PROVE  Unseen(n, i)'
    <3> DEFINE step == [at |-> label, key |-> k, network |-> invites[k].network,
                        issuer |-> invites[k].issuer]
    <3>1. Then(w, step) /\ step.at # "invite" /\ UNCHANGED invites
      BY <2>1 DEF Load, Begin, Then
    <3> HIDE DEF step
    <3> QED BY <1>1, <3>1
  <2> QED BY <1>5, <2>1 DEF Confirm, Revoke
<1>6. CASE CheckShare(w)
  <2>1. PICK b, m : Begin(w, [at |-> "share", badge |-> b, network |-> m])
    BY <1>6 DEF CheckShare
  <2> DEFINE step == [at |-> "share", badge |-> b, network |-> m]
  <2>2. Then(w, step) /\ step.at # "invite"
    BY <2>1 DEF Begin, Then
  <2>3. UNCHANGED invites
    BY <1>6 DEF CheckShare
  <2> HIDE DEF step
  <2> QED BY <1>1, <2>2, <2>3
<1>7. CASE Remove(w)
  <2>1. PICK m, j : Begin(w, [at |-> "cancel", network |-> m, issuer |-> j])
    BY <1>7 DEF Remove
  <2> DEFINE step == [at |-> "cancel", network |-> m, issuer |-> j]
  <2>2. Then(w, step) /\ step.at # "invite"
    BY <2>1 DEF Begin, Then
  <2>3. UNCHANGED invites
    BY <1>7 DEF Remove
  <2> HIDE DEF step
  <2> QED BY <1>1, <2>2, <2>3
<1>8. CASE Join(w) \/ Share(w) \/ Crash(w)
  BY <1>2, <1>8 DEF Join, Share, Crash
<1>9. CASE Accept(w) \/ Withdraw(w)
  <2>1. PICK s \in {"Approved", "Revoked"} : SaveRow(w, s)
    BY <1>9 DEF Accept, Withdraw
  <2>2. \A k \in Invitation : Is(k, "Pending")' => invites'[k] = invites[k]
    BY <2>1 DEF SaveRow, Is, IInv, TablesOK
  <2> QED BY <1>2, <1>9, <2>2 DEF Accept, Withdraw
<1>10. CASE Cancel(w)
  <2>1. ASSUME NEW k \in Invitation, Is(k, "Pending")'
        PROVE  invites'[k] = invites[k]
    <3>1. CASE Is(k, "Approved") /\ invites'[k] = [invites[k] EXCEPT !.status = "Revoked"]
      <4>1. invites[k] \in Row
        BY <3>1 DEF IInv, TablesOK, Is
      <4>2. invites'[k].status = "Revoked"
        BY <3>1, <4>1 DEF Row
      <4> QED BY <2>1, <4>2 DEF Is
    <3> QED BY <1>10, <3>1 DEF Cancel
  <2> QED BY <1>2, <1>10, <2>1 DEF Cancel
<1> QED
  BY <1>3, <1>4, <1>5, <1>6, <1>7, <1>8, <1>9, <1>10, <1>11, UnseenFindPending,
     UnseenInvite DEF Work

LEMMA PendingInitSound == Init => PendingInv
<1> SUFFICES ASSUME Init PROVE PendingInv
  OBVIOUS
<1>1. ASSUME NEW n, NEW i PROVE Unseen(n, i)
  <2>1. Inviting(n, i) = {} /\ Pending(n, i) = {}
    BY IdleStep DEF Init, Inviting, At, Pending, PendingOf, Is
  <2>2. Cardinality({}) = 0 /\ Cardinality(Worker) \in Nat
    BY NetworksConstants, FS_EmptySet, FS_CardinalityType
  <2>3. ASSUME NEW A \in SUBSET Inviting(n, i)
        PROVE  Cardinality(Pending(n, i) \ Seen(A))
                   <= Cardinality(Worker) - Cardinality(A)
    <3>1. A = {} /\ Pending(n, i) \ Seen(A) = {}
      BY <2>1, <2>3
    <3> QED BY <2>2, <3>1
  <2> QED BY <2>3 DEF Unseen
<1> QED BY <1>1, InitSound DEF PendingInv

LEMMA PendingNextSound == PendingInv /\ [Next]_vars => PendingInv'
<1> SUFFICES ASSUME PendingInv, [Next]_vars PROVE PendingInv'
  OBVIOUS
<1>1. IInv /\ IInv'
  BY NextSound DEF PendingInv
<1>2. ASSUME NEW n \in Network, NEW i \in Issuer PROVE Unseen(n, i)'
  <2>1. Unseen(n, i)
    BY DEF PendingInv
  <2>2. CASE UNCHANGED vars
    BY <2>1, <2>2 DEF vars, Unseen, Inviting, At, Seen, Pending, PendingOf, Is
  <2> QED BY <1>1, <2>1, <2>2, UnseenStep DEF Next
<1> QED BY <1>1, <1>2 DEF PendingInv

\* Requests that overlap can invite an issuer twice, but it never has more
\* pending invitations than there are request threads.
THEOREM PendingAlwaysBounded == Spec => []PendingBounded
<1>1. PendingInv => PendingBounded
  <2> SUFFICES ASSUME PendingInv, NEW n \in Network, NEW i \in Issuer
               PROVE  Cardinality(Pending(n, i)) <= Cardinality(Worker)
    BY DEF PendingBounded
  <2>1. Pending(n, i) \ Seen({}) = Pending(n, i)
    BY DEF Seen
  <2>2. Cardinality(Pending(n, i) \ Seen({})) <= Cardinality(Worker) - Cardinality({})
    BY DEF PendingInv, Unseen
  <2>3. /\ Cardinality({}) = 0 /\ Cardinality(Worker) \in Nat
        /\ Cardinality(Pending(n, i)) \in Nat
    BY FinitePending, NetworksConstants, FS_EmptySet, FS_CardinalityType
  <2> QED BY <2>1, <2>2, <2>3
<1>2. Spec => []PendingInv
  BY PendingInitSound, PendingNextSound, PTL DEF Spec
<1> QED BY <1>1, <1>2, PTL

----------------------------------------------------------------------------
(* How far requests in progress exceed the quota: the invariant. *)

\* The invitations that can still be answered.
Open == {k \in Invitation : Is(k, "Pending")}

\* An answer to an invitation that has been withdrawn or replaced since makes
\* the issuer a partner all the same.
Late(n) == {i \in Issuer :
    /\ <<n, i>> \notin members
    /\ \E w \in Worker : /\ At(w, "accept") /\ ~Is(doing[w].key, "Pending")
                         /\ doing[w].network = n /\ doing[w].issuer = i}

\* The invitations to network n that a request has been granted and not written.
Granted(n) == {p \in Worker \X Issuer :
    /\ HasGrant(doing[p[1]])
    /\ doing[p[1]].network = n /\ p[2] \in doing[p[1]].issuers}

\* Workers that have created network n and not yet added its founder.
Founding(n) == {w \in Worker : At(w, "join") /\ doing[w].network = n}

\* Workers between the two counts, and the places that the partners they have
\* counted leave them.
Counting(n) == {w \in Worker : At(w, "count") /\ doing[w].network = n}
Hoped(n) == {p \in Worker \X (1..Limit) :
    p[1] \in Counting(n) /\ doing[p[1]].partners < p[2]}
HopeOf(w) == {"hoped"} \X ({w} \X (1..Limit))

\* What has been offered and not answered: it may become partners that a worker
\* between the two counts misses.
Waiting(n) == ({"pending"} \X PendingOf(n)) \cup ({"late"} \X Late(n))
    \cup ({"granted"} \X Granted(n)) \cup ({"founder"} \X Founding(n))

\* Everything that takes a place in network n or is going to take one.
Claims(n) == ({"partner"} \X Partners(n)) \cup Waiting(n) \cup ({"hoped"} \X Hoped(n))

\* The same offers, but answers stay with the invitation that they are about,
\* whoever is a partner.
Stale(n) == {k \in Invitation :
    /\ ~Is(k, "Pending")
    /\ \E w \in Worker : /\ At(w, "accept") /\ doing[w].key = k
                         /\ doing[w].network = n}
Offers(n) == ({"pending"} \X PendingOf(n)) \cup ({"stale"} \X Stale(n))
    \cup ({"granted"} \X Granted(n)) \cup ({"founder"} \X Founding(n))

Peak == (2 * Cardinality(Worker) - 1) * Limit

\* The claims are within bounds; if all workers are between their two counts,
\* then without what the last of them hopes for.
Sated(n) ==
    \/ Cardinality(Claims(n)) <= Peak
    \/ /\ Worker = Counting(n)
       /\ \E u \in Worker : /\ doing[u].partners = Cardinality(Partners(n))
                            /\ Cardinality(Claims(n) \ HopeOf(u)) <= Peak

\* Whoever answers an invitation knows its network and its issuer, and agrees
\* with others that answer it.
Answering(w) == At(w, "accept") \/ At(w, "withdraw")
KeyOf(w) == Answering(w) =>
    /\ invites[doing[w].key] # None =>
          Of(doing[w].key, doing[w].network, doing[w].issuer)
    /\ \A u \in Worker : Answering(u) /\ doing[u].key = doing[w].key =>
          doing[u].network = doing[w].network /\ doing[u].issuer = doing[w].issuer

\* The quota has granted a worker what it is about to invite.
BatchOf(w) == HasGrant(doing[w]) => Cardinality(doing[w].issuers) <= MaxMembers

Keyed == IInv /\ \A w \in Worker : KeyOf(w)

QuotaInv ==
    /\ Keyed
    /\ \A w \in Worker : BatchOf(w)
    /\ \A n \in Network : /\ Cardinality(Offers(n)) <= Cardinality(Worker) * Limit
                          /\ Sated(n)

----------------------------------------------------------------------------
(* Counting. *)

LEMMA DisjointUnion ==
    ASSUME NEW S, NEW T, IsFiniteSet(S), IsFiniteSet(T), S \cap T = {}
    PROVE  Cardinality(S \cup T) = Cardinality(S) + Cardinality(T)
<1>1. Cardinality(S) \in Nat /\ Cardinality(T) \in Nat
  BY FS_CardinalityType
<1>2. Cardinality(S \cup T) = Cardinality(S) + Cardinality(T) - Cardinality({})
  BY FS_Union
<1>3. Cardinality({}) = 0
  BY FS_EmptySet
<1> QED BY <1>1, <1>2, <1>3

\* A set that wins one element and loses another does not grow.
LEMMA Swap ==
    ASSUME NEW A, NEW B, NEW a, NEW b \in A, IsFiniteSet(A),
           B \subseteq (A \ {b}) \cup {a}
    PROVE  Cardinality(B) <= Cardinality(A)
<1> DEFINE C == A \ {b}
<1>1. IsFiniteSet(C) /\ Cardinality(C) = Cardinality(A) - 1
  BY FS_RemoveElement
<1>2. /\ IsFiniteSet(C \cup {a})
      /\ Cardinality(C \cup {a}) = IF a \in C THEN Cardinality(C) ELSE Cardinality(C) + 1
  <2> HIDE DEF C
  <2> QED BY <1>1, FS_AddElement
<1>3. Cardinality(A) \in Nat /\ Cardinality(C \cup {a}) \in Nat
  BY <1>2, FS_CardinalityType
<1>4. IsFiniteSet(B) /\ Cardinality(B) <= Cardinality(C \cup {a}) /\ Cardinality(B) \in Nat
  BY <1>2, FS_Subset, FS_CardinalityType
<1> QED BY <1>1, <1>2, <1>3, <1>4

\* A set does not grow if what it wins can be paired off with what it loses.
LEMMA Exchange ==
    ASSUME NEW A, NEW B, IsFiniteSet(A), NEW f \in Injection(B \ A, A \ B)
    PROVE  Cardinality(B) <= Cardinality(A)
<1> DEFINE New == B \ A
           Lost == A \ B
           Both == A \cap B
<1>1. IsFiniteSet(Lost) /\ IsFiniteSet(Both)
  BY FS_Subset
<1>2. IsFiniteSet(New) /\ Cardinality(New) <= Cardinality(Lost)
  BY <1>1, FS_Injection
<1>3. Cardinality(Both \cup Lost) = Cardinality(Both) + Cardinality(Lost)
  <2>1. Both \cap Lost = {}
    OBVIOUS
  <2> QED BY <1>1, <2>1, DisjointUnion
<1>4. Cardinality(Both \cup New) = Cardinality(Both) + Cardinality(New)
  <2>1. Both \cap New = {}
    OBVIOUS
  <2> QED BY <1>1, <1>2, <2>1, DisjointUnion
<1>5. A = Both \cup Lost /\ B = Both \cup New
  OBVIOUS
<1>6. Cardinality(Both) \in Nat /\ Cardinality(New) \in Nat /\ Cardinality(Lost) \in Nat
  BY <1>1, <1>2, FS_CardinalityType
<1> HIDE DEF New, Lost, Both
<1> QED BY <1>2, <1>3, <1>4, <1>5, <1>6

\* A label before them does not change how many elements there are.
LEMMA Labelled ==
    ASSUME NEW label, NEW S, IsFiniteSet(S)
    PROVE  /\ IsFiniteSet({label} \X S)
           /\ Cardinality({label} \X S) = Cardinality(S)
           /\ Cardinality(S) \in Nat
<1>1. IsFiniteSet({label}) /\ Cardinality({label}) = 1
  BY FS_Singleton
<1>2. /\ IsFiniteSet({label} \X S)
      /\ Cardinality({label} \X S) = Cardinality({label}) * Cardinality(S)
  BY <1>1, FS_Product
<1> QED BY <1>1, <1>2, FS_CardinalityType

\* A set does not grow if a part of it is replaced by something no larger.
LEMMA Replaced ==
    ASSUME NEW A, NEW B, NEW T, NEW C, IsFiniteSet(A), B \subseteq A, IsFiniteSet(T),
           Cardinality(T) <= Cardinality(B), C \subseteq (A \ B) \cup T
    PROVE  Cardinality(C) <= Cardinality(A)
<1>1. PICK D : D = A \ B
  OBVIOUS
<1>2. IsFiniteSet(B) /\ IsFiniteSet(D)
  BY <1>1, FS_Subset
<1>3. Cardinality(A) = Cardinality(D) + Cardinality(B)
  <2>1. D \cap B = {} /\ A = D \cup B
    BY <1>1
  <2> QED BY <1>2, <2>1, DisjointUnion
<1>4. /\ Cardinality(B) \in Nat /\ Cardinality(T) \in Nat /\ Cardinality(D) \in Nat
  BY <1>2, FS_CardinalityType
<1>5. IsFiniteSet(D \cup T) /\ Cardinality(D \cup T) <= Cardinality(D) + Cardinality(T)
  <2>1. /\ IsFiniteSet(D \cup T) /\ IsFiniteSet(D \cap T)
        /\ Cardinality(D \cup T) = Cardinality(D) + Cardinality(T) - Cardinality(D \cap T)
    BY <1>2, FS_Union, FS_Subset
  <2>2. Cardinality(D \cap T) \in Nat
    BY <2>1, FS_CardinalityType
  <2> QED BY <1>4, <2>1, <2>2
<1>6. /\ IsFiniteSet(C) /\ Cardinality(C) <= Cardinality(D \cup T)
      /\ Cardinality(C) \in Nat /\ Cardinality(D \cup T) \in Nat
  BY <1>1, <1>5, FS_Subset, FS_CardinalityType
<1> QED BY <1>3, <1>4, <1>5, <1>6

LEMMA LimitOK ==
    /\ Limit \in Nat /\ 1 <= Limit /\ MaxMembers <= Limit /\ MaxMembers \in Nat
    /\ IsFiniteSet(1..Limit) /\ Cardinality(1..Limit) = Limit
    /\ Cardinality(Worker) \in Nat
<1>1. Limit \in Nat /\ 1 <= Limit /\ MaxMembers <= Limit /\ MaxMembers \in Nat
  BY NetworksConstants DEF Limit
<1>2. IsFiniteSet(1..Limit) /\ Cardinality(1..Limit) = Limit
  BY <1>1, FS_Interval
<1> QED BY <1>1, <1>2, NetworksConstants, FS_CardinalityType

LEMMA FiniteClaims ==
    ASSUME NEW n
    PROVE  /\ IsFiniteSet(Claims(n)) /\ IsFiniteSet(Waiting(n)) /\ IsFiniteSet(Offers(n))
           /\ IsFiniteSet(Partners(n)) /\ IsFiniteSet(PendingOf(n))
           /\ Cardinality(Claims(n)) \in Nat /\ Cardinality(Offers(n)) \in Nat
<1>1. /\ IsFiniteSet(Partners(n)) /\ IsFiniteSet(PendingOf(n)) /\ IsFiniteSet(Late(n))
      /\ IsFiniteSet(Stale(n))
  BY NetworksConstants, FS_Subset DEF Partners, PendingOf, Late, Stale
<1>2. IsFiniteSet(Granted(n)) /\ IsFiniteSet(Founding(n))
  BY NetworksConstants, FS_Subset, FS_Product DEF Granted, Founding
<1>3. IsFiniteSet(Hoped(n))
  <2>1. IsFiniteSet(Worker \X (1..Limit))
    BY LimitOK, NetworksConstants, FS_Product
  <2>2. Hoped(n) \in SUBSET (Worker \X (1..Limit))
    BY DEF Hoped
  <2> QED BY <2>1, <2>2, FS_Subset
<1>4. /\ IsFiniteSet({"partner"} \X Partners(n)) /\ IsFiniteSet({"pending"} \X PendingOf(n))
      /\ IsFiniteSet({"late"} \X Late(n)) /\ IsFiniteSet({"granted"} \X Granted(n))
      /\ IsFiniteSet({"founder"} \X Founding(n)) /\ IsFiniteSet({"stale"} \X Stale(n))
      /\ IsFiniteSet({"hoped"} \X Hoped(n))
  BY <1>1, <1>2, <1>3, Labelled
<1>5. IsFiniteSet(Waiting(n)) /\ IsFiniteSet(Offers(n))
  BY <1>4, FS_Union DEF Waiting, Offers
<1>6. IsFiniteSet(Claims(n))
  BY <1>4, <1>5, FS_Union DEF Claims
<1> QED BY <1>1, <1>5, <1>6, FS_CardinalityType

\* What the quota counts is among the claims.
LEMMA UsageClaimed ==
    ASSUME NEW n
    PROVE  /\ Usage(n) <= Cardinality(Claims(n))
           /\ Usage(n) \in Nat
           /\ Usage(n) = Cardinality(({"partner"} \X Partners(n))
                                       \cup ({"pending"} \X PendingOf(n)))
<1> DEFINE A == {"partner"} \X Partners(n)
           B == {"pending"} \X PendingOf(n)
<1>1. /\ IsFiniteSet(A) /\ Cardinality(A) = Cardinality(Partners(n))
      /\ IsFiniteSet(B) /\ Cardinality(B) = Cardinality(PendingOf(n))
      /\ Cardinality(Partners(n)) \in Nat /\ Cardinality(PendingOf(n)) \in Nat
  BY FiniteClaims, Labelled
<1>2. A \cap B = {}
  OBVIOUS
<1>3. Cardinality(A \cup B) = Cardinality(A) + Cardinality(B)
  <2> HIDE DEF A, B
  <2> QED BY <1>1, <1>2, DisjointUnion
<1>4. Cardinality(A \cup B) <= Cardinality(Claims(n))
  <2>1. A \cup B \subseteq Claims(n)
    BY DEF Claims, Waiting
  <2> QED BY <2>1, FiniteClaims, FS_Subset
<1> QED BY <1>1, <1>3, <1>4 DEF Usage

----------------------------------------------------------------------------
(* What the workers hold, after a step. *)

LEMMA Others ==
    ASSUME IInv, NEW w \in Worker, NEW step, Then(w, step)
    PROVE  doing'[w] = step /\ \A u \in Worker \ {w} : doing'[u] = doing[u]
  BY DEF IInv, Then

\* Who answers knows the row, if rows stay where they are or are written by
\* somebody who knows them.
LEMMA KeysKept ==
    ASSUME IInv, \A u \in Worker : KeyOf(u), NEW w \in Worker, NEW step, Then(w, step),
           step.at \in {"accept", "withdraw"} =>
               /\ invites' = invites /\ Is(step.key, "Pending")
               /\ Of(step.key, step.network, step.issuer),
           \A k \in used : invites'[k] # None =>
               \/ /\ invites[k] # None
                  /\ invites'[k].network = invites[k].network
                  /\ invites'[k].issuer = invites[k].issuer
               \/ \E v \in Worker : /\ Answering(v) /\ doing[v].key = k
                                    /\ invites'[k].network = doing[v].network
                                    /\ invites'[k].issuer = doing[v].issuer
    PROVE  \A u \in Worker : KeyOf(u)'
<1>0. doing'[w] = step /\ \A u \in Worker \ {w} : doing'[u] = doing[u]
  BY Others
<1>1. ASSUME NEW u \in Worker \ {w}, Answering(u)
      PROVE  invites'[doing[u].key] # None =>
                /\ invites'[doing[u].key].network = doing[u].network
                /\ invites'[doing[u].key].issuer = doing[u].issuer
  <2>1. doing[u].key \in used
    BY <1>1 DEF IInv, Reads, Answering
  <2>2. KeyOf(u)
    OBVIOUS
  <2> QED BY <1>1, <2>1, <2>2 DEF KeyOf, Of
<1>2. ASSUME NEW u \in Worker \ {w}, Answering(u), Answering(w)', step.key = doing[u].key
      PROVE  step.network = doing[u].network /\ step.issuer = doing[u].issuer
  <2>1. KeyOf(u)
    OBVIOUS
  <2>2. Is(step.key, "Pending") /\ Of(step.key, step.network, step.issuer)
    BY <1>0, <1>2 DEF Answering, At
  <2> QED BY <1>2, <2>1, <2>2 DEF KeyOf, Of, Is
<1>3. ASSUME Answering(w)'
      PROVE  invites'[step.key].network = step.network /\ invites'[step.key].issuer = step.issuer
  BY <1>0, <1>3 DEF Answering, At, Of
<1>4. ASSUME NEW u \in Worker \ {w}, NEW v \in Worker \ {w}, Answering(u), Answering(v),
             doing[u].key = doing[v].key
      PROVE  doing[v].network = doing[u].network /\ doing[v].issuer = doing[u].issuer
  BY <1>4 DEF KeyOf
<1>5. \A u \in Worker \ {w} : Answering(u)' <=> Answering(u)
  BY <1>0 DEF Answering, At
<1>6. ASSUME NEW u \in Worker, Answering(u)'
      PROVE  invites'[doing'[u].key] # None =>
                /\ invites'[doing'[u].key].network = doing'[u].network
                /\ invites'[doing'[u].key].issuer = doing'[u].issuer
  BY <1>0, <1>1, <1>3, <1>5, <1>6
<1>7. ASSUME NEW u \in Worker, NEW v \in Worker, Answering(u)', Answering(v)',
             doing'[v].key = doing'[u].key
      PROVE  doing'[v].network = doing'[u].network /\ doing'[v].issuer = doing'[u].issuer
  BY <1>0, <1>2, <1>4, <1>5, <1>7
<1> QED BY <1>6, <1>7 DEF KeyOf, Of

LEMMA KeysStep ==
    ASSUME IInv, \A u \in Worker : KeyOf(u), NEW w \in Worker, Work(w)
    PROVE  \A u \in Worker : KeyOf(u)'
<1> DEFINE Kept(k) == /\ invites[k] # None
                      /\ invites'[k].network = invites[k].network
                      /\ invites'[k].issuer = invites[k].issuer
           Known(k) == \E v \in Worker : /\ Answering(v) /\ doing[v].key = k
                                    /\ invites'[k].network = doing[v].network
                                    /\ invites'[k].issuer = doing[v].issuer
           Rows == \A k \in used : invites'[k] # None => Kept(k) \/ Known(k)
           Quiet(step) == step.at \notin {"accept", "withdraw"}
<1>0. TablesOK /\ doing[w] \in Step /\ Reads(w)
  BY DEF IInv
<1>1. ASSUME NEW step, Then(w, step), Quiet(step), Rows
      PROVE  \A u \in Worker : KeyOf(u)'
  BY <1>1, KeysKept
<1>2. ASSUME invites' = invites PROVE Rows
  BY <1>2
<1>3. ASSUME Done(w), Rows PROVE \A u \in Worker : KeyOf(u)'
  BY <1>1, <1>3, IdleStep DEF Done
<1>4. CASE Create(w)
  <2>1. PICK n \in Network : \/ Begin(w, Idle)
            \/ \E i \in Issuer : Begin(w, [at |-> "join", network |-> n, issuer |-> i])
    BY <1>4 DEF Create
  <2>2. Rows
    BY <1>2, <1>4 DEF Create
  <2>3. CASE Begin(w, Idle)
    BY <1>3, <2>2, <2>3 DEF Begin, Done, Then
  <2>4. ASSUME NEW i \in Issuer, Begin(w, [at |-> "join", network |-> n, issuer |-> i])
        PROVE  \A u \in Worker : KeyOf(u)'
    BY <1>1, <2>2, <2>4 DEF Begin, Then
  <2> QED BY <2>1, <2>3, <2>4
<1>5. CASE Join(w) \/ Share(w) \/ Crash(w)
  BY <1>2, <1>3, <1>5 DEF Join, Share, Crash
<1>6. CASE CountPartners(w)
  <2>1. PICK n, S, c :
           Begin(w, [at |-> "count", network |-> n, issuers |-> S, partners |-> c])
    BY <1>6 DEF CountPartners
  <2>2. Rows
    BY <1>2, <1>6 DEF CountPartners
  <2> QED BY <1>1, <2>1, <2>2 DEF Begin, Then
<1>17. CASE CheckQuota(w) \/ CheckPartners(w)
  <2>1. Rows
    BY <1>2, <1>17, Checked
  <2>2. CASE Done(w)
    BY <1>3, <2>1, <2>2
  <2>3. ASSUME NEW label \in {"check", "find"},
               Then(w, [at |-> label, network |-> doing[w].network,
                        issuers |-> doing[w].issuers])
        PROVE  \A u \in Worker : KeyOf(u)'
    BY <1>1, <2>1, <2>3
  <2> QED BY <1>17, <2>2, <2>3, Checked
<1>7. CASE FindPending(w)
  <2>1. PICK found : Then(w, [at |-> "invite", network |-> doing[w].network,
                              issuers |-> doing[w].issuers, found |-> found])
    BY <1>7 DEF FindPending
  <2>2. Rows
    BY <1>2, <1>7 DEF FindPending
  <2> QED BY <1>1, <2>1, <2>2
<1>8. CASE Invite(w)
  <2>1. PICK new \in [doing[w].issuers -> Invitation \ used] :
           invites' = [k \in Invitation |->
              IF \E i \in doing[w].issuers : k = new[i]
              THEN [network |-> doing[w].network,
                    issuer |-> CHOOSE i \in doing[w].issuers : k = new[i],
                    status |-> "Pending"]
              ELSE IF k \in doing[w].found /\ Is(k, "Pending") THEN None
              ELSE invites[k]]
    BY <1>8 DEF Invite
  <2>2. \A k \in used : invites'[k] # None => invites'[k] = invites[k]
    BY <1>0, <2>1 DEF TablesOK
  <2> QED BY <1>3, <1>8, <2>2 DEF Invite
<1>9. ASSUME NEW k \in Invitation, NEW label \in {"accept", "withdraw"},
             Is(k, "Pending"), Load(w, label, k)
      PROVE  \A u \in Worker : KeyOf(u)'
  <2> DEFINE step == [at |-> label, key |-> k, network |-> invites[k].network,
                      issuer |-> invites[k].issuer]
  <2>1. Then(w, step) /\ invites' = invites
    BY <1>9 DEF Load, Begin, Then
  <2>2. step.key = k /\ Of(step.key, step.network, step.issuer)
    BY DEF Of
  <2>3. Rows
    BY <1>2, <2>1
  <2> HIDE DEF step
  <2> QED BY <1>9, <2>1, <2>2, <2>3, KeysKept
<1>10. CASE Confirm(w) \/ Revoke(w)
  BY <1>9, <1>10 DEF Confirm, Revoke
<1>11. ASSUME NEW status, Answering(w), SaveRow(w, status) PROVE Rows
  <2>1. doing[w].key \in Invitation /\ invites \in [Invitation -> Row \cup {None}]
    BY <1>0, <1>11, Held DEF TablesOK, Answering
  <2>2. \A k \in Invitation : k # doing[w].key => invites'[k] = invites[k]
    BY <1>11, <2>1 DEF SaveRow
  <2>3. invites'[doing[w].key] = [network |-> doing[w].network, issuer |-> doing[w].issuer,
                                  status |-> status]
    BY <1>11, <2>1 DEF SaveRow
  <2>4. Known(doing[w].key)
    BY <1>11, <2>3
  <2> QED BY <1>0, <2>2, <2>4 DEF TablesOK
<1>12. CASE Accept(w)
  BY <1>3, <1>11, <1>12 DEF Accept, Answering
<1>13. CASE Withdraw(w)
  BY <1>3, <1>11, <1>13 DEF Withdraw, Answering
<1>14. CASE Remove(w)
  <2>1. PICK n, i : Begin(w, [at |-> "cancel", network |-> n, issuer |-> i])
    BY <1>14 DEF Remove
  <2>2. Rows
    BY <1>2, <1>14 DEF Remove
  <2> QED BY <1>1, <2>1, <2>2 DEF Begin, Then
<1>15. CASE Cancel(w)
  <2>1. \A k \in Invitation : invites'[k] =
          IF Is(k, "Approved") /\ Of(k, doing[w].network, doing[w].issuer)
          THEN [invites[k] EXCEPT !.status = "Revoked"] ELSE invites[k]
    BY <1>15 DEF Cancel
  <2>2. \A k \in Invitation : invites[k] # None => invites[k] \in Row
    BY <1>0 DEF TablesOK
  <2>3. Rows
    BY <1>0, <2>1, <2>2 DEF TablesOK, Is, Row
  <2> QED BY <1>3, <1>15, <2>3 DEF Cancel
<1>16. CASE CheckShare(w)
  <2>1. PICK b, n : Begin(w, [at |-> "share", badge |-> b, network |-> n])
    BY <1>16 DEF CheckShare
  <2>2. Rows
    BY <1>2, <1>16 DEF CheckShare
  <2> QED BY <1>1, <2>1, <2>2 DEF Begin, Then
<1> QED
  BY <1>4, <1>5, <1>6, <1>7, <1>8, <1>10, <1>12, <1>13, <1>14, <1>15, <1>16, <1>17
     DEF Work

LEMMA BatchStep ==
    ASSUME IInv, \A u \in Worker : BatchOf(u), NEW w \in Worker, Work(w)
    PROVE  \A u \in Worker : BatchOf(u)'
<1> DEFINE Fits(step) == HasGrant(step) => Cardinality(step.issuers) <= MaxMembers
<1>1. ASSUME NEW step, Then(w, step), Fits(step) PROVE \A u \in Worker : BatchOf(u)'
  <2>1. doing'[w] = step /\ \A u \in Worker \ {w} : doing'[u] = doing[u]
    BY <1>1, Others
  <2> QED BY <1>1, <2>1 DEF BatchOf
<1>2. CASE Done(w)
  BY <1>1, <1>2, IdleStep DEF Done, HasGrant
<1>3. CASE Create(w)
  BY <1>1, <1>2, <1>3 DEF Create, Begin, Done, Then, HasGrant
<1>4. CASE CountPartners(w)
  <2>1. PICK n, S, c :
           Begin(w, [at |-> "count", network |-> n, issuers |-> S, partners |-> c])
    BY <1>4 DEF CountPartners
  <2> QED BY <1>1, <2>1 DEF Begin, Then, HasGrant
<1>9. CASE CheckQuota(w)
  <2>1. CASE Done(w)
    BY <1>2, <2>1
  <2>2. CASE ~Done(w)
    <3>1. /\ doing[w].partners + Cardinality(PendingOf(doing[w].network))
                + Cardinality(doing[w].issuers) <= MaxMembers
          /\ Then(w, [at |-> "check", network |-> doing[w].network,
                      issuers |-> doing[w].issuers])
          /\ At(w, "count")
      BY <1>9, <2>2 DEF CheckQuota, Pass
    <3>2. doing[w].partners \in Nat /\ doing[w].issuers \in SUBSET Issuer
      BY <3>1, Held DEF IInv
    <3>3. Cardinality(doing[w].issuers) \in Nat
      BY <3>2, NetworksConstants, FS_Subset, FS_CardinalityType
    <3>4. Cardinality(PendingOf(doing[w].network)) \in Nat
      BY FiniteClaims, FS_CardinalityType
    <3>5. Cardinality(doing[w].issuers) <= MaxMembers
      BY <3>1, <3>2, <3>3, <3>4, NetworksConstants
    <3> QED BY <1>1, <3>1, <3>5
  <2> QED BY <2>1, <2>2
<1>10. CASE CheckPartners(w)
  <2>1. BatchOf(w) /\ HasGrant(doing[w])
    BY <1>10 DEF CheckPartners, At, HasGrant
  <2>2. CASE Done(w)
    BY <1>2, <2>2
  <2>3. ASSUME NEW label \in {"check", "find"},
               Then(w, [at |-> label, network |-> doing[w].network,
                        issuers |-> doing[w].issuers])
        PROVE  \A u \in Worker : BatchOf(u)'
    BY <1>1, <2>1, <2>3 DEF BatchOf
  <2> QED BY <1>10, <2>2, <2>3, Checked
<1>5. CASE FindPending(w)
  <2>1. PICK found : Then(w, [at |-> "invite", network |-> doing[w].network,
                              issuers |-> doing[w].issuers, found |-> found])
    BY <1>5 DEF FindPending
  <2>2. BatchOf(w) /\ HasGrant(doing[w])
    BY <1>5 DEF FindPending, At, HasGrant
  <2> QED BY <1>1, <2>1, <2>2 DEF BatchOf
<1>6. CASE Confirm(w) \/ Revoke(w)
  <2>1. ASSUME NEW k, NEW label \in {"accept", "withdraw"}, Load(w, label, k)
        PROVE  \A u \in Worker : BatchOf(u)'
    <3>1. Then(w, [at |-> label, key |-> k, network |-> invites[k].network,
                   issuer |-> invites[k].issuer])
      BY <2>1 DEF Load, Begin, Then
    <3> QED BY <1>1, <3>1 DEF HasGrant
  <2> QED BY <1>6, <2>1 DEF Confirm, Revoke
<1>7. CASE Remove(w)
  <2>1. PICK n, i : Then(w, [at |-> "cancel", network |-> n, issuer |-> i])
    BY <1>7 DEF Remove, Begin, Then
  <2> QED BY <1>1, <2>1 DEF HasGrant
<1>8. CASE CheckShare(w)
  <2>1. PICK b, n : Then(w, [at |-> "share", badge |-> b, network |-> n])
    BY <1>8 DEF CheckShare, Begin, Then
  <2> QED BY <1>1, <2>1 DEF HasGrant
<1> QED
  BY <1>2, <1>3, <1>4, <1>5, <1>6, <1>7, <1>8, <1>9, <1>10
     DEF Work, Join, Invite, Accept, Withdraw, Cancel, Share, Crash

----------------------------------------------------------------------------
(* The claims, after a step. *)

\* Answers that become late, or stay so, are those of other workers.
LEMMA LateAfter ==
    ASSUME IInv, NEW w \in Worker, NEW step, Then(w, step), NEW n,
           step.at = "accept" => step.key \in Open'
    PROVE  \A i \in Late(n)' :
           /\ i \in Issuer /\ <<n, i>> \notin members'
           /\ \E u \in Worker \ {w} :
                /\ At(u, "accept") /\ doing[u].key \notin Open'
                /\ doing[u].key \in Invitation /\ doing[u].key \in used
                /\ doing[u].network = n /\ doing[u].issuer = i
<1> SUFFICES ASSUME NEW i, i \in Late(n)'
             PROVE  /\ i \in Issuer /\ <<n, i>> \notin members'
                    /\ \E u \in Worker \ {w} :
                         /\ At(u, "accept") /\ doing[u].key \notin Open'
                         /\ doing[u].key \in Invitation /\ doing[u].key \in used
                         /\ doing[u].network = n /\ doing[u].issuer = i
  OBVIOUS
<1>1. doing'[w] = step /\ \A u \in Worker \ {w} : doing'[u] = doing[u]
  BY Others
<1>2. PICK u \in Worker : /\ At(u, "accept")' /\ doing'[u].key \notin Open'
                          /\ doing'[u].network = n /\ doing'[u].issuer = i
  BY DEF Late, Open
<1>3. u # w
  BY <1>1, <1>2 DEF At
<1>4. doing'[u] = doing[u] /\ At(u, "accept")
  BY <1>1, <1>2, <1>3 DEF At
<1>5. doing[u].key \in Invitation /\ doing[u].key \in used
  BY <1>4, Held DEF IInv, Reads
<1>6. doing[u].key \notin Open' /\ doing[u].network = n /\ doing[u].issuer = i
  BY <1>2, <1>4
<1> QED BY <1>2, <1>3, <1>4, <1>5, <1>6 DEF Late

\* A worker that invites nobody and founds nothing claims nothing.
LEMMA GrantedAfter ==
    ASSUME IInv, NEW w \in Worker, NEW step, Then(w, step), NEW n,
           HasGrant(step) /\ step.network = n =>
               /\ HasGrant(doing[w]) /\ doing[w].network = n
               /\ step.issuers = doing[w].issuers
    PROVE  Granted(n)' \subseteq Granted(n)
<1>1. doing'[w] = step /\ \A u \in Worker \ {w} : doing'[u] = doing[u]
  BY Others
<1>2. ASSUME NEW p \in Worker \X Issuer, p \in Granted(n)' PROVE p \in Granted(n)
  <2>1. CASE p[1] = w
    BY <1>1, <1>2, <2>1 DEF Granted
  <2>2. CASE p[1] # w
    BY <1>1, <1>2, <2>2 DEF Granted
  <2> QED BY <2>1, <2>2
<1> QED BY <1>2 DEF Granted

LEMMA FoundingAfter ==
    ASSUME IInv, NEW w \in Worker, NEW step, Then(w, step), NEW n,
           step.at = "join" => step.network # n
    PROVE  Founding(n)' \subseteq Founding(n) \ {w}
<1>1. doing'[w] = step /\ \A u \in Worker \ {w} : doing'[u] = doing[u]
  BY Others
<1> QED BY <1>1 DEF Founding, At

LEMMA HopedAfter ==
    ASSUME IInv, NEW w \in Worker, NEW step, Then(w, step), NEW n,
           step.at = "count" => step.network # n
    PROVE  Hoped(n)' \subseteq Hoped(n) /\ \A p \in Hoped(n)' : p[1] # w
<1>1. doing'[w] = step /\ \A u \in Worker \ {w} : doing'[u] = doing[u]
  BY Others
<1>2. Counting(n)' \subseteq Counting(n) \ {w}
  BY <1>1 DEF Counting, At
<1> QED BY <1>1, <1>2 DEF Hoped

\* A step claims nothing in network n if it adds neither members nor pending
\* invitations there, and removes no member.
LEMMA QuietClaims ==
    ASSUME IInv, NEW w \in Worker, NEW step, Then(w, step), NEW n,
           step.at = "accept" => step.key \in Open',
           HasGrant(step) /\ step.network = n =>
               /\ HasGrant(doing[w]) /\ doing[w].network = n
               /\ step.issuers = doing[w].issuers,
           step.at \in {"join", "count"} => step.network # n,
           Partners(n)' = Partners(n), PendingOf(n)' = PendingOf(n),
           \A u \in Worker \ {w} :
               At(u, "accept") /\ doing[u].network = n /\ doing[u].key \in Open
                   => doing[u].key \in Open'
    PROVE  Claims(n)' \subseteq Claims(n)
<1>1. Late(n)' \subseteq Late(n)
  <2> SUFFICES ASSUME NEW i, i \in Late(n)' PROVE i \in Late(n)
    OBVIOUS
  <2>1. /\ i \in Issuer /\ <<n, i>> \notin members'
        /\ \E u \in Worker \ {w} :
             /\ At(u, "accept") /\ doing[u].key \notin Open'
             /\ doing[u].key \in Invitation /\ doing[u].key \in used
             /\ doing[u].network = n /\ doing[u].issuer = i
    BY LateAfter
  <2>3. \A u \in Worker \ {w} : doing'[u] = doing[u]
    BY Others
  <2>2. <<n, i>> \notin members
    BY <2>1 DEF Partners
  <2> QED BY <2>1, <2>2 DEF Late, Open
<1>2. Granted(n)' \subseteq Granted(n)
  BY GrantedAfter
<1>3. Founding(n)' \subseteq Founding(n) /\ Hoped(n)' \subseteq Hoped(n)
  BY FoundingAfter, HopedAfter
<1> QED BY <1>1, <1>2, <1>3 DEF Claims, Waiting

LEMMA FewerClaims ==
    ASSUME NEW n, Claims(n)' \subseteq Claims(n)
    PROVE  Cardinality(Claims(n)') <= Cardinality(Claims(n))
  BY FiniteClaims, FS_Subset

LEMMA SwappedClaims ==
    ASSUME NEW n, NEW a, NEW b \in Claims(n), Claims(n)' \subseteq (Claims(n) \ {b}) \cup {a}
    PROVE  Cardinality(Claims(n)') <= Cardinality(Claims(n))
<1>1. PICK A : A = Claims(n)
  OBVIOUS
<1>2. PICK B : B = Claims(n)'
  OBVIOUS
<1>3. IsFiniteSet(A) /\ b \in A /\ B \subseteq (A \ {b}) \cup {a}
  BY <1>1, <1>2, FiniteClaims
<1>4. Cardinality(B) <= Cardinality(A)
  BY <1>3, Swap
<1> QED BY <1>1, <1>2, <1>4

\* The handlers that give no place away.
LEMMA CalmClaims ==
    ASSUME IInv, NEW w \in Worker, NEW n,
           \/ CheckPartners(w) \/ FindPending(w) \/ Confirm(w) \/ Revoke(w)
           \/ Cancel(w) \/ CheckShare(w) \/ Share(w) \/ Crash(w)
           \/ CheckQuota(w) /\ Done(w)
    PROVE  Claims(n)' \subseteq Claims(n)
<1>0. TablesOK /\ doing[w] \in Step
  BY DEF IInv
<1>1. ASSUME NEW step, Then(w, step), members' = members, invites' = invites,
             step.at = "accept" => step.key \in Open, step.at \notin {"join", "count"},
             HasGrant(step) => /\ HasGrant(doing[w]) /\ step.network = doing[w].network
                               /\ step.issuers = doing[w].issuers
      PROVE  Claims(n)' \subseteq Claims(n)
  <2>1. Open' = Open /\ Partners(n)' = Partners(n) /\ PendingOf(n)' = PendingOf(n)
    BY <1>1 DEF Open, Partners, PendingOf, Is
  <2> QED BY <1>1, <2>1, QuietClaims
<1>2. CASE FindPending(w)
  <2>1. PICK found : Then(w, [at |-> "invite", network |-> doing[w].network,
                              issuers |-> doing[w].issuers, found |-> found])
    BY <1>2 DEF FindPending
  <2>2. HasGrant(doing[w]) /\ members' = members /\ invites' = invites
    BY <1>2 DEF FindPending, At, HasGrant
  <2> QED BY <1>1, <2>1, <2>2
<1>3. ASSUME NEW k \in Invitation, NEW label \in {"accept", "withdraw"},
             Is(k, "Pending"), Load(w, label, k)
      PROVE  Claims(n)' \subseteq Claims(n)
  <2> DEFINE step == [at |-> label, key |-> k, network |-> invites[k].network,
                      issuer |-> invites[k].issuer]
  <2>1. Then(w, step) /\ members' = members /\ invites' = invites
    BY <1>3 DEF Load, Begin, Then
  <2>2. step.key \in Open /\ step.at = label
    BY <1>3 DEF Open
  <2>3. step.at \notin {"join", "count"} /\ ~HasGrant(step)
    BY <2>2 DEF HasGrant
  <2> HIDE DEF step
  <2> QED BY <1>1, <2>1, <2>2, <2>3
<1>4. CASE Confirm(w) \/ Revoke(w)
  BY <1>3, <1>4 DEF Confirm, Revoke
<1>5. CASE Cancel(w)
  <2>1. \A k \in Invitation : invites'[k] =
          IF Is(k, "Approved") /\ Of(k, doing[w].network, doing[w].issuer)
          THEN [invites[k] EXCEPT !.status = "Revoked"] ELSE invites[k]
    BY <1>5 DEF Cancel
  <2>2. \A k \in Invitation : invites[k] # None => invites[k] \in Row
    BY <1>0 DEF TablesOK
  <2>3. None \notin Row
    BY NetworksConstants
  <2>4. ASSUME NEW k \in Invitation
        PROVE  /\ Is(k, "Pending")' <=> Is(k, "Pending")
               /\ Is(k, "Pending") => invites'[k].network = invites[k].network
    BY <2>1, <2>2, <2>3 DEF Is, Row
  <2>5. Open' = Open /\ PendingOf(n)' = PendingOf(n)
    BY <2>4 DEF Open, PendingOf
  <2>6. Partners(n)' = Partners(n)
    BY <1>5 DEF Cancel, Partners
  <2>7. Then(w, Idle) /\ Idle.at \notin {"join", "count", "accept"} /\ ~HasGrant(Idle)
    BY <1>5, IdleStep DEF Cancel, Done, HasGrant
  <2> QED BY <2>5, <2>6, <2>7, QuietClaims
<1>6. CASE CheckShare(w)
  <2>1. PICK b, m : Then(w, [at |-> "share", badge |-> b, network |-> m])
    BY <1>6 DEF CheckShare, Begin, Then
  <2>2. members' = members /\ invites' = invites
    BY <1>6 DEF CheckShare
  <2> QED BY <1>1, <2>1, <2>2 DEF HasGrant
<1>7. CASE Done(w) /\ members' = members /\ invites' = invites
  BY <1>1, <1>7, IdleStep DEF HasGrant, Done
<1>8. CASE Share(w) \/ Crash(w) \/ (CheckQuota(w) /\ Done(w))
  BY <1>7, <1>8, Checked DEF Share, Crash
<1>9. CASE CheckPartners(w)
  <2>1. members' = members /\ invites' = invites /\ HasGrant(doing[w])
    BY <1>9, Checked DEF CheckPartners, At, HasGrant
  <2>2. ASSUME NEW label \in {"check", "find"},
               Then(w, [at |-> label, network |-> doing[w].network,
                        issuers |-> doing[w].issuers])
        PROVE  Claims(n)' \subseteq Claims(n)
    BY <1>1, <2>1, <2>2
  <2> QED BY <1>7, <1>9, <2>1, <2>2, Checked
<1> QED BY <1>2, <1>4, <1>5, <1>6, <1>8, <1>9

\* A founder that joins takes the place that was kept for it.
LEMMA JoinClaims ==
    ASSUME IInv, NEW w \in Worker, NEW n, Join(w)
    PROVE  Cardinality(Claims(n)') <= Cardinality(Claims(n))
<1>0. TablesOK /\ doing[w] \in Step /\ doing[w].issuer \in Issuer
  BY Held DEF IInv, Join
<1>1. /\ Then(w, Idle) /\ Idle.at \notin {"join", "count", "accept"} /\ ~HasGrant(Idle)
      /\ Open' = Open /\ PendingOf(n)' = PendingOf(n)
      /\ members' = members \cup {<<doing[w].network, doing[w].issuer>>}
  BY IdleStep DEF Join, Done, HasGrant, Open, PendingOf, Is
<1>2. CASE doing[w].network # n
  <2>1. Partners(n)' = Partners(n)
    BY <1>1, <1>2 DEF Partners
  <2> QED BY <1>1, <2>1, QuietClaims, FewerClaims
<1>3. CASE doing[w].network = n
  <2>1. PICK i \in Issuer : i = doing[w].issuer
    BY <1>0
  <2>2. Partners(n)' = Partners(n) \cup {i}
    BY <1>0, <1>1, <1>3, <2>1 DEF Partners
  <2>3. Late(n)' \subseteq Late(n)
    BY <1>1, LateAfter DEF Late, Open
  <2>4. /\ Granted(n)' \subseteq Granted(n) /\ Founding(n)' \subseteq Founding(n) \ {w}
        /\ Hoped(n)' \subseteq Hoped(n)
    BY <1>1, GrantedAfter, FoundingAfter, HopedAfter
  <2>5. <<"founder", w>> \in Claims(n)
    BY <1>3 DEF Claims, Waiting, Founding, Join
  <2>6. Claims(n)' \subseteq (Claims(n) \ {<<"founder", w>>}) \cup {<<"partner", i>>}
    BY <1>1, <2>2, <2>3, <2>4 DEF Claims, Waiting
  <2> QED BY <2>5, <2>6, SwappedClaims
<1> QED BY <1>2, <1>3

\* A partner that is removed may come back by an answer that is late.
LEMMA RemoveClaims ==
    ASSUME IInv, NEW w \in Worker, NEW n, Remove(w)
    PROVE  Cardinality(Claims(n)') <= Cardinality(Claims(n))
<1>1. PICK m \in networks, i \in Issuer :
         /\ <<m, i>> \in members /\ members' = members \ {<<m, i>>}
         /\ Then(w, [at |-> "cancel", network |-> m, issuer |-> i])
  BY DEF Remove, Begin, Then
<1>2. PICK step : step = [at |-> "cancel", network |-> m, issuer |-> i]
  OBVIOUS
<1>3. /\ Then(w, step) /\ step.at \notin {"join", "count", "accept"} /\ ~HasGrant(step)
      /\ Open' = Open /\ PendingOf(n)' = PendingOf(n)
  BY <1>1, <1>2 DEF Remove, HasGrant, Open, PendingOf, Is
<1>4. CASE m # n
  <2>1. Partners(n)' = Partners(n)
    BY <1>1, <1>4 DEF Partners
  <2> QED BY <1>3, <2>1, QuietClaims, FewerClaims
<1>5. CASE m = n
  <2>1. Partners(n)' = Partners(n) \ {i}
    BY <1>1, <1>5 DEF Partners
  <2>2. Late(n)' \subseteq Late(n) \cup {i}
    BY <1>1, <1>3, LateAfter DEF Late, Open
  <2>3. /\ Granted(n)' \subseteq Granted(n) /\ Founding(n)' \subseteq Founding(n)
        /\ Hoped(n)' \subseteq Hoped(n)
    BY <1>3, GrantedAfter, FoundingAfter, HopedAfter
  <2>4. <<"partner", i>> \in Claims(n)
    BY <1>1, <1>5 DEF Claims, Waiting, Partners
  <2>5. Claims(n)' \subseteq (Claims(n) \ {<<"partner", i>>}) \cup {<<"late", i>>}
    BY <1>3, <2>1, <2>2, <2>3 DEF Claims, Waiting
  <2> QED BY <2>4, <2>5, SwappedClaims
<1> QED BY <1>4, <1>5

----------------------------------------------------------------------------
(* The claims, after an answer is saved. *)

\* An answer that is saved closes the invitation, whoever else is answering it.
LEMMA SavedRow ==
    ASSUME IInv, NEW w \in Worker, KeyOf(w), Answering(w),
           NEW status \in {"Approved", "Revoked"}, SaveRow(w, status), NEW n
    PROVE  LET k == doing[w].key IN
           /\ Open' = Open \ {k} /\ k \in Invitation /\ doing[w].issuer \in Issuer
           /\ k \in Open => Of(k, doing[w].network, doing[w].issuer)
           /\ PendingOf(n)' = PendingOf(n) \ {k}
<1>0. PICK k, new : /\ k = doing[w].key
                    /\ new = [network |-> doing[w].network, issuer |-> doing[w].issuer,
                              status |-> status]
  OBVIOUS
<1>1. k \in Invitation /\ doing[w].issuer \in Issuer /\ doing[w].network \in Network
  <2>1. doing[w] # Idle
    BY IdleStep DEF Answering, At
  <2> QED BY <1>0, <2>1, Held DEF IInv, Answering
<1>2. /\ invites'[k] = new
      /\ \A j \in Invitation \ {k} : invites'[j] = invites[j]
  BY <1>0, <1>1 DEF IInv, TablesOK, SaveRow
<1>3. new \in Row /\ None \notin Row /\ new.status = status
  BY <1>0, <1>1, NetworksConstants DEF Row
<1>4. ~Is(k, "Pending")'
  BY <1>2, <1>3 DEF Is
<1>5. \A j \in Invitation \ {k} : Is(j, "Pending")' <=> Is(j, "Pending")
  BY <1>2 DEF Is
<1>6. Open' = Open \ {k}
  BY <1>4, <1>5 DEF Open
<1>7. k \in Open => Of(k, doing[w].network, doing[w].issuer)
  BY <1>0 DEF Open, Is, KeyOf
<1>8. PendingOf(n)' = PendingOf(n) \ {k}
  BY <1>2, <1>4, <1>5 DEF PendingOf
<1> QED BY <1>0, <1>1, <1>6, <1>7, <1>8

\* An answer that is saved claims nothing in other networks.
LEMMA SavedElsewhere ==
    ASSUME IInv, NEW w \in Worker, \A u \in Worker : KeyOf(u), Answering(w),
           NEW status \in {"Approved", "Revoked"}, SaveRow(w, status), Done(w),
           NEW n, n # doing[w].network, Partners(n)' = Partners(n)
    PROVE  Claims(n)' \subseteq Claims(n)
<1>1. PICK k : k = doing[w].key
  OBVIOUS
<1>2. /\ Open' = Open \ {k} /\ PendingOf(n)' = PendingOf(n) \ {k}
      /\ k \in Open => Of(k, doing[w].network, doing[w].issuer)
  BY <1>1, SavedRow
<1>3. PendingOf(n)' = PendingOf(n)
  BY <1>2 DEF PendingOf, Open, Of
<1>4. ASSUME NEW u \in Worker \ {w}, At(u, "accept"), doing[u].network = n,
             doing[u].key \in Open
      PROVE  doing[u].key \in Open'
  <2>1. doing[u].key # k
    BY <1>1, <1>4 DEF KeyOf, Answering
  <2> QED BY <1>2, <1>4, <2>1
<1>5. Then(w, Idle) /\ Idle.at \notin {"join", "count", "accept"} /\ ~HasGrant(Idle)
  BY IdleStep DEF Done, HasGrant
<1> QED BY <1>3, <1>4, <1>5, QuietClaims

\* In the network that the answer is about, one other answer may become late.
LEMMA SavedHere ==
    ASSUME IInv, NEW w \in Worker, \A u \in Worker : KeyOf(u), Answering(w),
           NEW status \in {"Approved", "Revoked"}, SaveRow(w, status), Done(w),
           members \subseteq members', NEW n, n = doing[w].network
    PROVE  /\ \A i \in Late(n)' : /\ <<n, i>> \notin members'
                                  /\ i \in Late(n) \/ (doing[w].key \in Open /\ i = doing[w].issuer)
           /\ Granted(n)' \subseteq Granted(n) /\ Founding(n)' \subseteq Founding(n)
           /\ Hoped(n)' \subseteq Hoped(n)
<1>1. PICK k : k = doing[w].key
  OBVIOUS
<1>2. Open' = Open \ {k}
  BY <1>1, SavedRow
<1>3. Then(w, Idle) /\ Idle.at \notin {"join", "count", "accept"} /\ ~HasGrant(Idle)
  BY IdleStep DEF Done, HasGrant
<1>4. ASSUME NEW i, i \in Late(n)'
      PROVE  /\ <<n, i>> \notin members'
             /\ i \in Late(n) \/ (k \in Open /\ i = doing[w].issuer)
  <2>1. /\ i \in Issuer /\ <<n, i>> \notin members'
        /\ \E u \in Worker \ {w} :
             /\ At(u, "accept") /\ doing[u].key \notin Open'
             /\ doing[u].key \in Invitation /\ doing[u].key \in used
             /\ doing[u].network = n /\ doing[u].issuer = i
    BY <1>3, <1>4, LateAfter
  <2>2. PICK u \in Worker \ {w} :
           /\ At(u, "accept") /\ doing[u].key \notin Open'
           /\ doing[u].key \in Invitation /\ doing[u].key \in used
           /\ doing[u].network = n /\ doing[u].issuer = i
    BY <2>1
  <2>3. CASE doing[u].key \notin Open
    BY <2>1, <2>2, <2>3 DEF Late, Open
  <2>4. CASE doing[u].key \in Open
    <3>1. doing[u].key = k
      BY <1>2, <2>2, <2>4
    <3>2. doing[u].issuer = doing[w].issuer
      BY <1>1, <2>2, <3>1 DEF KeyOf, Answering
    <3> QED BY <2>1, <2>2, <2>4, <3>1, <3>2
  <2> QED BY <2>3, <2>4
<1>5. /\ Granted(n)' \subseteq Granted(n) /\ Founding(n)' \subseteq Founding(n)
      /\ Hoped(n)' \subseteq Hoped(n)
  BY <1>3, GrantedAfter, FoundingAfter, HopedAfter
<1> QED BY <1>1, <1>4, <1>5

\* An invitation that is withdrawn may still be accepted by one that has read it.
LEMMA WithdrawClaims ==
    ASSUME IInv, NEW w \in Worker, \A u \in Worker : KeyOf(u), NEW n, Withdraw(w)
    PROVE  Cardinality(Claims(n)') <= Cardinality(Claims(n))
<1>1. /\ Answering(w) /\ SaveRow(w, "Revoked") /\ Done(w) /\ members' = members
      /\ Partners(n)' = Partners(n)
  BY DEF Withdraw, Answering, Partners
<1>2. CASE doing[w].network # n
  BY <1>1, <1>2, SavedElsewhere, FewerClaims
<1>3. CASE doing[w].network = n
  <2>1. PICK k, i : k = doing[w].key /\ i = doing[w].issuer
    OBVIOUS
  <2>2. /\ PendingOf(n)' = PendingOf(n) \ {k}
        /\ k \in Open => Of(k, n, i)
    BY <1>1, <1>3, <2>1, SavedRow
  <2>3. /\ \A j \in Late(n)' : j \in Late(n) \/ (k \in Open /\ j = i)
        /\ Granted(n)' \subseteq Granted(n) /\ Founding(n)' \subseteq Founding(n)
        /\ Hoped(n)' \subseteq Hoped(n)
    BY <1>1, <1>3, <2>1, SavedHere
  <2>4. CASE k \in Open
    <3>1. <<"pending", k>> \in Claims(n)
      BY <2>2, <2>4 DEF Claims, Waiting, PendingOf, Open, Of
    <3>2. Claims(n)' \subseteq (Claims(n) \ {<<"pending", k>>}) \cup {<<"late", i>>}
      BY <1>1, <2>2, <2>3 DEF Claims, Waiting
    <3> QED BY <3>1, <3>2, SwappedClaims
  <2>5. CASE k \notin Open
    <3>1. Claims(n)' \subseteq Claims(n)
      BY <1>1, <2>2, <2>3, <2>5 DEF Claims, Waiting
    <3> QED BY <3>1, FewerClaims
  <2> QED BY <2>4, <2>5
<1> QED BY <1>2, <1>3

\* Who accepts takes the place of its invitation, or of its late answer.
LEMMA AcceptClaims ==
    ASSUME IInv, NEW w \in Worker, \A u \in Worker : KeyOf(u), NEW n, Accept(w)
    PROVE  Cardinality(Claims(n)') <= Cardinality(Claims(n))
<1>1. /\ Answering(w) /\ SaveRow(w, "Approved") /\ Done(w) /\ At(w, "accept")
      /\ members' = members \cup {<<doing[w].network, doing[w].issuer>>}
  BY DEF Accept, Answering
<1>2. CASE doing[w].network # n
  <2>1. Partners(n)' = Partners(n)
    BY <1>1, <1>2 DEF Partners
  <2> QED BY <1>1, <1>2, <2>1, SavedElsewhere, FewerClaims
<1>3. CASE doing[w].network = n
  <2>1. PICK k, i : k = doing[w].key /\ i = doing[w].issuer
    OBVIOUS
  <2>2. /\ PendingOf(n)' = PendingOf(n) \ {k}
        /\ k \in Open => Of(k, n, i)
        /\ k \in Invitation /\ i \in Issuer
    BY <1>1, <1>3, <2>1, SavedRow
  <2>3. Partners(n)' = Partners(n) \cup {i} /\ <<n, i>> \in members'
    BY <1>1, <1>3, <2>1, <2>2 DEF Partners
  <2>4. /\ \A j \in Late(n)' : /\ <<n, j>> \notin members'
                               /\ j \in Late(n) \/ (k \in Open /\ j = i)
        /\ Granted(n)' \subseteq Granted(n) /\ Founding(n)' \subseteq Founding(n)
        /\ Hoped(n)' \subseteq Hoped(n)
    BY <1>1, <1>3, <2>1, SavedHere
  <2>5. Late(n)' \subseteq Late(n) \ {i}
    BY <2>3, <2>4
  <2>6. CASE i \in Partners(n)
    <3>1. Claims(n)' \subseteq Claims(n)
      BY <2>2, <2>3, <2>4, <2>5, <2>6 DEF Claims, Waiting
    <3> QED BY <3>1, FewerClaims
  <2>7. CASE k \in Open
    <3>1. <<"pending", k>> \in Claims(n)
      BY <2>2, <2>7 DEF Claims, Waiting, PendingOf, Open, Of
    <3>2. Claims(n)' \subseteq (Claims(n) \ {<<"pending", k>>}) \cup {<<"partner", i>>}
      BY <2>2, <2>3, <2>4, <2>5 DEF Claims, Waiting
    <3> QED BY <3>1, <3>2, SwappedClaims
  <2>8. CASE i \notin Partners(n) /\ k \notin Open
    <3>1. <<"late", i>> \in Claims(n)
      BY <1>1, <1>3, <2>1, <2>2, <2>8 DEF Claims, Waiting, Late, Partners, Open
    <3>2. Claims(n)' \subseteq (Claims(n) \ {<<"late", i>>}) \cup {<<"partner", i>>}
      BY <2>2, <2>3, <2>4, <2>5 DEF Claims, Waiting
    <3> QED BY <3>1, <3>2, SwappedClaims
  <2> QED BY <2>6, <2>7, <2>8
<1> QED BY <1>2, <1>3

\* The invitations of network n that are replaced make place for the answers
\* to them, and those that were granted for the new ones.
LEMMA InviteClaims ==
    ASSUME IInv, NEW w \in Worker, \A u \in Worker : KeyOf(u), NEW n, Invite(w)
    PROVE  Cardinality(Claims(n)') <= Cardinality(Claims(n))
<1>0. TablesOK /\ doing[w] \in Step
  BY DEF IInv
<1>1. PICK m, S, found : m = doing[w].network /\ S = doing[w].issuers /\ found = doing[w].found
  OBVIOUS
<1>2. PICK new \in [S -> Invitation \ used] :
        /\ \A i, j \in S : i # j => new[i] # new[j]
        /\ invites' = [k \in Invitation |->
              IF \E i \in S : k = new[i]
              THEN [network |-> m, issuer |-> CHOOSE i \in S : k = new[i],
                    status |-> "Pending"]
              ELSE IF k \in found /\ Is(k, "Pending") THEN None
              ELSE invites[k]]
  BY <1>1 DEF Invite
<1>3. S \in SUBSET Issuer /\ members' = members /\ Then(w, Idle) /\ At(w, "invite")
  <2>1. At(w, "invite") /\ Then(w, Idle) /\ members' = members
    BY DEF Invite, Done
  <2> QED BY <1>1, <1>0, <2>1, Held DEF At, HasGrant
<1>4. Idle.at \notin {"join", "count", "accept"} /\ ~HasGrant(Idle)
  BY IdleStep DEF HasGrant
<1> DEFINE Fresh == {new[i] : i \in S}
<1>5. Fresh \subseteq Invitation \ used
  BY <1>2
<1>6. \A k \in Invitation : k \notin Fresh =>
         invites'[k] = IF k \in found /\ Is(k, "Pending") THEN None ELSE invites[k]
  BY <1>2
<1>7. \A k \in Fresh : invites'[k] # None /\ invites'[k].network = m
  <2>1. TAKE k \in Fresh
  <2>2. PICK i : i = CHOOSE j \in S : k = new[j]
    OBVIOUS
  <2>3. invites'[k] = [network |-> m, issuer |-> i, status |-> "Pending"] /\ i \in S
    BY <1>2, <1>5, <2>2
  <2>4. m \in Network
    BY <1>0, <1>1, <1>3, Held, IdleStep DEF At
  <2>5. invites'[k] \in Row
    BY <1>3, <2>3, <2>4 DEF Row
  <2> QED BY <2>3, <2>5, NetworksConstants
<1>8. PendingOf(n)' \subseteq PendingOf(n) \cup Fresh
  BY <1>6 DEF PendingOf, Is
<1>9. \A k \in Open \ Open' : k \in found
  BY <1>0, <1>5, <1>6 DEF Open, Is, TablesOK
<1>10. PICK gone : gone = PendingOf(n) \ PendingOf(n)'
  OBVIOUS
<1>11. PICK rows : rows = invites
  OBVIOUS
<1>12. Late(n)' \subseteq Late(n) \cup {rows[k].issuer : k \in gone}
  <2> SUFFICES ASSUME NEW i, i \in Late(n)', i \notin Late(n)
               PROVE  \E k \in gone : i = rows[k].issuer
    OBVIOUS
  <2>1. /\ i \in Issuer /\ <<n, i>> \notin members'
        /\ \E u \in Worker \ {w} :
             /\ At(u, "accept") /\ doing[u].key \notin Open'
             /\ doing[u].key \in Invitation /\ doing[u].key \in used
             /\ doing[u].network = n /\ doing[u].issuer = i
    BY <1>3, <1>4, LateAfter
  <2>2. PICK u \in Worker \ {w} :
           /\ At(u, "accept") /\ doing[u].key \notin Open'
           /\ doing[u].key \in Invitation /\ doing[u].key \in used
           /\ doing[u].network = n /\ doing[u].issuer = i
    BY <2>1
  <2>3. PICK k : k = doing[u].key
    OBVIOUS
  <2>4. k \in Open
    BY <1>3, <2>1, <2>2, <2>3 DEF Late, Open
  <2>5. Of(k, n, i)
    BY <2>2, <2>3, <2>4 DEF KeyOf, Answering, Open, Is
  <2>6. k \in PendingOf(n)
    BY <2>4, <2>5 DEF PendingOf, Open, Of
  <2>7. k \notin PendingOf(n)'
    BY <2>2, <2>3 DEF PendingOf, Open
  <2> QED BY <1>10, <1>11, <2>5, <2>6, <2>7 DEF Of
<1>13. Granted(n)' \subseteq {p \in Granted(n) : p[1] # w}
  <2>1. doing'[w] = Idle
    BY <1>3, Others
  <2>2. Granted(n)' \subseteq Granted(n)
    BY <1>3, <1>4, GrantedAfter
  <2> QED BY <1>4, <2>1, <2>2 DEF Granted
<1>14. /\ Founding(n)' \subseteq Founding(n) /\ Partners(n)' = Partners(n)
       /\ Hoped(n)' \subseteq Hoped(n)
  BY <1>3, <1>4, FoundingAfter, HopedAfter DEF Partners
<1>15. PICK A, B : A = Claims(n) /\ B = Claims(n)'
  OBVIOUS
<1>16. PICK idx : idx = [k \in Fresh |-> CHOOSE i \in S : k = new[i]]
  OBVIOUS
<1>17. \A k \in Fresh : idx[k] \in S /\ new[idx[k]] = k
  BY <1>16
<1>18. PICK key : key = [i \in {rows[k].issuer : k \in gone} |->
                          CHOOSE k \in gone : i = rows[k].issuer]
  OBVIOUS
<1>19. \A i : (\E k \in gone : i = rows[k].issuer) =>
                key[i] \in gone /\ rows[key[i]].issuer = i
  BY <1>18
<1>20. ASSUME NEW x \in B \ A
       PROVE  \/ /\ x[1] = "pending" /\ x = <<"pending", x[2]>> /\ x[2] \in Fresh
                 /\ <<"granted", <<w, idx[x[2]]>>>> \in A \ B
              \/ /\ x[1] = "late" /\ x = <<"late", x[2]>>
                 /\ \E k \in gone : x[2] = rows[k].issuer
                 /\ <<"pending", key[x[2]]>> \in A \ B
  <2>1. CASE \E k \in Fresh : x = <<"pending", k>> /\ k \in PendingOf(n)'
    <3>1. PICK k \in Fresh : x = <<"pending", k>> /\ k \in PendingOf(n)'
      BY <2>1
    <3>2. m = n
      BY <1>7, <3>1 DEF PendingOf
    <3>3. idx[k] \in S
      BY <1>17
    <3>4. <<w, idx[k]>> \in Granted(n)
      BY <1>1, <1>3, <3>2, <3>3 DEF Granted, HasGrant, At
    <3>5. <<w, idx[k]>> \notin Granted(n)'
      BY <1>13
    <3>6. <<"granted", <<w, idx[k]>>>> \in A \ B
      BY <1>15, <3>4, <3>5 DEF Claims, Waiting
    <3> HIDE DEF Fresh
    <3> QED BY <3>1, <3>6
  <2>2. CASE \E i \in Late(n)' \ Late(n) : x = <<"late", i>>
    <3>1. PICK i \in Late(n)' \ Late(n) : x = <<"late", i>>
      BY <2>2
    <3>2. \E k \in gone : i = rows[k].issuer
      BY <1>12
    <3>3. key[i] \in PendingOf(n) /\ key[i] \notin PendingOf(n)'
      BY <1>10, <1>19, <3>2
    <3>4. <<"pending", key[i]>> \in A \ B
      BY <1>15, <3>3 DEF Claims, Waiting
    <3> QED BY <3>1, <3>2, <3>4
  <2> HIDE DEF Fresh
  <2> QED BY <1>8, <1>13, <1>14, <1>15, <2>1, <2>2 DEF Claims, Waiting
<1> DEFINE f == [x \in B \ A |-> IF x[1] = "pending" THEN <<"granted", <<w, idx[x[2]]>>>>
                                ELSE <<"pending", key[x[2]]>>]
<1>21. f \in [B \ A -> A \ B]
  <2> HIDE DEF Fresh
  <2> QED BY <1>20
<1>22. ASSUME NEW x \in B \ A, NEW y \in B \ A, f[x] = f[y] PROVE x = y
  <2>1. CASE x[1] = "pending"
    <3>1. f[x] = <<"granted", <<w, idx[x[2]]>>>> /\ x = <<"pending", x[2]>> /\ x[2] \in Fresh
      BY <1>20, <2>1
    <3>2. f[y] = <<"granted", <<w, idx[y[2]]>>>> /\ y = <<"pending", y[2]>> /\ y[2] \in Fresh
      BY <1>20, <1>22, <3>1
    <3>3. idx[x[2]] = idx[y[2]]
      BY <1>22, <3>1, <3>2
    <3> HIDE DEF Fresh
    <3> QED BY <1>17, <3>1, <3>2, <3>3
  <2>2. CASE x[1] # "pending"
    <3>1. /\ f[x] = <<"pending", key[x[2]]>> /\ x = <<"late", x[2]>>
          /\ rows[key[x[2]]].issuer = x[2]
      BY <1>19, <1>20, <2>2
    <3>2. /\ f[y] = <<"pending", key[y[2]]>> /\ y = <<"late", y[2]>>
          /\ rows[key[y[2]]].issuer = y[2]
      BY <1>19, <1>20, <1>22, <3>1
    <3> QED BY <1>22, <3>1, <3>2
  <2> QED BY <2>1, <2>2
<1>23. f \in Injection(B \ A, A \ B)
  BY <1>21, <1>22 DEF Injection, IsInjective
<1>24. IsFiniteSet(A)
  BY <1>15, FiniteClaims
<1> HIDE DEF f
<1> QED BY <1>15, <1>23, <1>24, Exchange


\* A network that does not exist has no claims.
LEMMA NoClaims ==
    ASSUME IInv, NEW n, n \notin networks
    PROVE  Claims(n) = {} /\ Offers(n) = {}
<1>1. Partners(n) = {} /\ PendingOf(n) = {}
  BY DEF IInv, TablesOK, Partners, PendingOf, Is
<1>2. ASSUME NEW u \in Worker, ~At(u, "idle") PROVE doing[u].network # n
  BY <1>2, IdleStep DEF IInv, Reads, At
<1>3. Late(n) = {} /\ Founding(n) = {} /\ Stale(n) = {}
  BY <1>2 DEF Late, Founding, Stale, At
<1>4. Granted(n) = {}
  BY <1>2 DEF Granted, HasGrant, At
<1>5. Hoped(n) = {}
  BY <1>2 DEF Hoped, Counting, At
<1> QED BY <1>1, <1>3, <1>4, <1>5 DEF Claims, Waiting, Offers

\* The handlers that take no new place, and the quota, which grants no more than
\* was hoped for.
LEMMA GrantedClaims ==
    ASSUME IInv, NEW w \in Worker, NEW n, CheckQuota(w)
    PROVE  Cardinality(Claims(n)') <= Cardinality(Claims(n))
<1>0. TablesOK /\ doing[w] \in Step /\ At(w, "count")
  BY DEF IInv, CheckQuota
<1>1. CASE Done(w)
  BY <1>1, CalmClaims, FewerClaims
<1>2. CASE ~Done(w)
  <2>1. PICK m, S, p : m = doing[w].network /\ S = doing[w].issuers /\ p = doing[w].partners
    OBVIOUS
  <2>2. PICK step : step = [at |-> "check", network |-> m, issuers |-> S]
    OBVIOUS
  <2>3. /\ Then(w, step) /\ step.at = "check" /\ step.network = m /\ step.issuers = S
        /\ members' = members /\ invites' = invites
        /\ p + Cardinality(PendingOf(m)) + Cardinality(S) <= MaxMembers
    BY <1>2, <2>1, <2>2 DEF CheckQuota, Pass
  <2>4. Open' = Open /\ Partners(n)' = Partners(n) /\ PendingOf(n)' = PendingOf(n)
    BY <2>3 DEF Open, Partners, PendingOf, Is
  <2>5. step.at \notin {"join", "count", "accept"}
    BY <2>3
  <2>6. CASE m # n
    BY <2>3, <2>4, <2>5, <2>6, QuietClaims, FewerClaims
  <2>7. CASE m = n
    <3>1. S \in SUBSET Issuer /\ p \in Nat
      BY <1>0, <2>1, Held
    <3>2. IsFiniteSet(S) /\ Cardinality(S) \in Nat
      BY <3>1, NetworksConstants, FS_Subset, FS_CardinalityType
    <3>3. Cardinality(PendingOf(m)) \in Nat
      BY FiniteClaims, FS_CardinalityType
    <3>4. p + Cardinality(S) <= Limit /\ Limit \in Nat
      BY <2>3, <3>1, <3>2, <3>3, LimitOK
    <3>5. PICK Left, Lost, Won, A, C :
             /\ Left = (p + 1)..Limit
             /\ Lost = {"hoped"} \X ({w} \X Left) /\ Won = {"granted"} \X ({w} \X S)
             /\ A = Claims(n) /\ C = Claims(n)'
      OBVIOUS
    <3>6. IsFiniteSet(Left) /\ Cardinality(Left) = Limit - p
      <4>1. PICK a : a = p + 1
        OBVIOUS
      <4>2. a \in Int /\ Limit \in Int /\ a <= Limit + 1
        BY <3>1, <3>2, <3>4, <4>1
      <4>3. /\ IsFiniteSet(a..Limit)
            /\ Cardinality(a..Limit) = IF a > Limit THEN 0 ELSE Limit - a + 1
        BY <4>2, FS_Interval
      <4>4. Cardinality(a..Limit) = Limit - a + 1
        BY <4>2, <4>3
      <4> QED BY <3>1, <3>4, <3>5, <4>1, <4>3, <4>4
    <3>7. /\ Cardinality(Lost) = Cardinality(Left)
          /\ IsFiniteSet(Won) /\ Cardinality(Won) = Cardinality(S)
      <4>1. PICK P, Q : P = {w} \X Left /\ Q = {w} \X S
        OBVIOUS
      <4>2. /\ IsFiniteSet(P) /\ Cardinality(P) = Cardinality(Left)
            /\ IsFiniteSet(Q) /\ Cardinality(Q) = Cardinality(S)
        BY <3>2, <3>6, <4>1, Labelled
      <4>3. /\ Cardinality({"hoped"} \X P) = Cardinality(P)
            /\ IsFiniteSet({"granted"} \X Q) /\ Cardinality({"granted"} \X Q) = Cardinality(Q)
        BY <4>2, Labelled
      <4>4. Lost = {"hoped"} \X P /\ Won = {"granted"} \X Q
        BY <3>5, <4>1
      <4> QED BY <4>2, <4>3, <4>4
    <3>8. Lost \subseteq A
      <4>1. ASSUME NEW k \in Left PROVE <<w, k>> \in Hoped(n)
        <5>1. k \in 1..Limit /\ p < k
          BY <3>1, <3>4, <3>5
        <5>2. w \in Counting(n)
          BY <1>0, <2>1, <2>7 DEF Counting
        <5> QED BY <2>1, <5>1, <5>2 DEF Hoped
      <4> QED BY <3>5, <4>1 DEF Claims
    <3>9. doing'[w] = step /\ \A u \in Worker \ {w} : doing'[u] = doing[u]
      BY <2>3, Others
    <3>10. Late(n)' \subseteq Late(n)
      BY <2>3, <2>4, <2>5, LateAfter DEF Late, Open
    <3>11. Founding(n)' \subseteq Founding(n) /\ Hoped(n)' \subseteq Hoped(n)
           /\ \A q \in Hoped(n)' : q[1] # w
      BY <2>3, <2>5, FoundingAfter, HopedAfter
    <3>12. ASSUME NEW q \in Granted(n)' PROVE q \in Granted(n) \/ q \in {w} \X S
      BY <2>3, <3>9 DEF Granted, HasGrant
    <3>13. C \subseteq (A \ Lost) \cup Won
      BY <2>4, <3>5, <3>10, <3>11, <3>12 DEF Claims, Waiting
    <3>14. Cardinality(Won) <= Cardinality(Lost)
      BY <3>1, <3>2, <3>4, <3>6, <3>7
    <3>15. IsFiniteSet(A)
      BY <3>5, FiniteClaims
    <3> HIDE DEF Pass
    <3> QED BY <3>5, <3>7, <3>8, <3>13, <3>14, <3>15, Replaced
  <2> QED BY <2>6, <2>7
<1> QED BY <1>1, <1>2

----------------------------------------------------------------------------
(* The offers, after a step. *)

\* An answer becomes late only when its invitation goes.
LEMMA StaleAfter ==
    ASSUME IInv, \A u \in Worker : KeyOf(u), NEW w \in Worker, NEW step, Then(w, step),
           NEW n, step.at = "accept" => step.key \in Open'
    PROVE  \A k \in Stale(n)' :
           /\ k \in Stale(n) \/ (k \in PendingOf(n) /\ k \notin PendingOf(n)')
           /\ \E u \in Worker \ {w} : /\ At(u, "accept") /\ doing[u].key = k
                                      /\ doing[u].network = n
<1> SUFFICES ASSUME NEW k, k \in Stale(n)'
             PROVE  /\ k \in Stale(n) \/ (k \in PendingOf(n) /\ k \notin PendingOf(n)')
                    /\ \E u \in Worker \ {w} : /\ At(u, "accept") /\ doing[u].key = k
                                               /\ doing[u].network = n
  OBVIOUS
<1>1. doing'[w] = step /\ \A u \in Worker \ {w} : doing'[u] = doing[u]
  BY Others
<1>2. k \in Invitation /\ k \notin Open'
  BY DEF Stale, Open
<1>3. PICK u \in Worker : At(u, "accept")' /\ doing'[u].key = k /\ doing'[u].network = n
  BY DEF Stale
<1>4. u # w
  BY <1>1, <1>2, <1>3 DEF At
<1>5. At(u, "accept") /\ doing[u].key = k /\ doing[u].network = n
  BY <1>1, <1>3, <1>4 DEF At
<1>6. CASE Is(k, "Pending")
  <2>1. invites[k].network = n
    BY <1>5, <1>6 DEF KeyOf, Answering, Is, Of
  <2> QED BY <1>2, <1>4, <1>5, <1>6, <2>1 DEF PendingOf, Open
<1>7. CASE ~Is(k, "Pending")
  BY <1>2, <1>4, <1>5, <1>7 DEF Stale
<1> QED BY <1>6, <1>7

\* Offers become late answers or, when they are written, invitations.
LEMMA OffersKept ==
    ASSUME IInv, \A u \in Worker : KeyOf(u), NEW w \in Worker, NEW step, Then(w, step),
           NEW n, step.at = "accept" => step.key \in Open',
           NEW Fresh, NEW by,
           \A k \in Fresh : <<w, by[k]>> \in Granted(n) /\ <<w, by[k]>> \notin Granted(n)',
           \A j, k \in Fresh : by[j] = by[k] => j = k,
           PendingOf(n)' \subseteq PendingOf(n) \cup Fresh,
           Granted(n)' \subseteq Granted(n), Founding(n)' \subseteq Founding(n)
    PROVE  Cardinality(Offers(n)') <= Cardinality(Offers(n))
<1>1. PICK A, B : A = Offers(n) /\ B = Offers(n)'
  OBVIOUS
<1>2. ASSUME NEW x \in B \ A
      PROVE  \/ /\ x[1] = "stale" /\ x = <<"stale", x[2]>>
                /\ <<"pending", x[2]>> \in A \ B
             \/ /\ x[1] = "pending" /\ x = <<"pending", x[2]>> /\ x[2] \in Fresh
                /\ <<"granted", <<w, by[x[2]]>>>> \in A \ B
  <2>1. CASE \E k \in Stale(n)' : x = <<"stale", k>>
    <3>1. PICK k \in Stale(n)' : x = <<"stale", k>>
      BY <2>1
    <3>2. k \notin Stale(n)
      BY <1>1, <3>1 DEF Offers
    <3>3. k \in PendingOf(n) /\ k \notin PendingOf(n)'
      BY <3>2, StaleAfter
    <3>4. <<"pending", k>> \in A \ B
      BY <1>1, <3>3 DEF Offers
    <3> QED BY <3>1, <3>4
  <2>2. CASE \E k \in PendingOf(n)' : x = <<"pending", k>>
    <3>1. PICK k \in PendingOf(n)' : x = <<"pending", k>>
      BY <2>2
    <3>2. k \in Fresh
      BY <1>1, <3>1 DEF Offers
    <3>3. <<"granted", <<w, by[k]>>>> \in A \ B
      BY <1>1, <3>2 DEF Offers
    <3> QED BY <3>1, <3>2, <3>3
  <2> QED BY <1>1, <2>1, <2>2 DEF Offers
<1> DEFINE f == [x \in B \ A |-> IF x[1] = "stale" THEN <<"pending", x[2]>>
                                ELSE <<"granted", <<w, by[x[2]]>>>>]
<1>3. f \in [B \ A -> A \ B]
  BY <1>2
<1>4. ASSUME NEW x \in B \ A, NEW y \in B \ A, f[x] = f[y] PROVE x = y
  <2>1. CASE x[1] = "stale"
    <3>1. f[x] = <<"pending", x[2]>> /\ x = <<"stale", x[2]>>
      BY <1>2, <2>1
    <3>2. f[y] = <<"pending", y[2]>> /\ y = <<"stale", y[2]>>
      BY <1>2, <1>4, <3>1
    <3> QED BY <1>4, <3>1, <3>2
  <2>2. CASE x[1] # "stale"
    <3>1. /\ f[x] = <<"granted", <<w, by[x[2]]>>>> /\ x = <<"pending", x[2]>>
          /\ x[2] \in Fresh
      BY <1>2, <2>2
    <3>2. /\ f[y] = <<"granted", <<w, by[y[2]]>>>> /\ y = <<"pending", y[2]>>
          /\ y[2] \in Fresh
      BY <1>2, <1>4, <3>1
    <3>3. by[x[2]] = by[y[2]]
      BY <1>4, <3>1, <3>2
    <3> QED BY <3>1, <3>2, <3>3
  <2> QED BY <2>1, <2>2
<1>5. f \in Injection(B \ A, A \ B)
  BY <1>3, <1>4 DEF Injection, IsInjective
<1>6. IsFiniteSet(A)
  BY <1>1, FiniteClaims
<1> HIDE DEF f
<1> QED BY <1>1, <1>5, <1>6, Exchange

\* The elements of a finite set can be numbered.
LEMMA Numbered ==
    ASSUME NEW T, IsFiniteSet(T), NEW N \in Nat, Cardinality(T) <= N
    PROVE  \E h \in [T -> 1..N] : \A s, t \in T : h[s] = h[t] => s = t
<1>1. PICK b : b \in Bijection(1..Cardinality(T), T)
  BY FS_CardinalityType DEF ExistsBijection
<1>2. Cardinality(T) \in Nat
  BY FS_CardinalityType
<1>3. \A t \in T : \E k \in 1..Cardinality(T) : b[k] = t
  BY <1>1 DEF Bijection, Surjection
<1> DEFINE h == [t \in T |-> CHOOSE k \in 1..Cardinality(T) : b[k] = t]
<1>4. \A t \in T : h[t] \in 1..Cardinality(T) /\ b[h[t]] = t
  BY <1>3
<1>5. h \in [T -> 1..N]
  BY <1>2, <1>4
<1>6. \A s, t \in T : h[s] = h[t] => s = t
  BY <1>4
<1> QED BY <1>5, <1>6

\* What worker u may claim: a batch that it was granted, or one place.
LEMMA BatchFits ==
    ASSUME IInv, NEW u \in Worker, BatchOf(u), HasGrant(doing[u])
    PROVE  \E h \in [doing[u].issuers -> 1..Limit] :
              \A s, t \in doing[u].issuers : h[s] = h[t] => s = t
<1>1. PICK T : T = doing[u].issuers
  OBVIOUS
<1>2. T \in SUBSET Issuer
  BY <1>1, Held DEF IInv, HasGrant, At
<1>3. IsFiniteSet(T) /\ Cardinality(T) \in Nat
  BY <1>2, NetworksConstants, FS_Subset, FS_CardinalityType
<1>4. Cardinality(T) <= MaxMembers
  BY <1>1 DEF BatchOf
<1>5. Cardinality(T) <= Limit /\ Limit \in Nat
  BY <1>3, <1>4, LimitOK
<1>6. \E h \in [T -> 1..Limit] : \A s, t \in T : h[s] = h[t] => s = t
  BY <1>3, <1>5, Numbered
<1> QED BY <1>1, <1>6

\* What workers other than w offer, whatever these are at: no more than the quota
\* for each.
LEMMA OthersFit ==
    ASSUME IInv, \A u \in Worker : BatchOf(u), NEW w \in Worker, NEW R,
           \A x \in R :
              \/ /\ x = <<"granted", x[2]>> /\ x[2] = <<x[2][1], x[2][2]>>
                 /\ x[2][1] \in Worker \ {w} /\ HasGrant(doing[x[2][1]])
                 /\ x[2][2] \in doing[x[2][1]].issuers
              \/ /\ x = <<"stale", x[2]>>
                 /\ \E u \in Worker \ {w} : At(u, "accept") /\ doing[u].key = x[2]
              \/ /\ x = <<"founder", x[2]>>
                 /\ x[2] \in Worker \ {w} /\ At(x[2], "join")
    PROVE  /\ IsFiniteSet(R)
           /\ Cardinality(R) <= (Cardinality(Worker) - 1) * Limit
<1> DEFINE W == Worker \ {w}
<1>1. PICK num : num = [u \in Worker |->
          CHOOSE h \in [doing[u].issuers -> 1..Limit] :
              \A s, t \in doing[u].issuers : h[s] = h[t] => s = t]
  OBVIOUS
<1>2. ASSUME NEW u \in Worker, HasGrant(doing[u])
      PROVE  /\ num[u] \in [doing[u].issuers -> 1..Limit]
             /\ \A s, t \in doing[u].issuers : num[u][s] = num[u][t] => s = t
  <2>1. \E h \in [doing[u].issuers -> 1..Limit] :
           \A s, t \in doing[u].issuers : h[s] = h[t] => s = t
    BY <1>2, BatchFits
  <2> QED BY <1>1, <2>1
<1>3. PICK of : of = [i \in {doing[u].key : u \in W} |->
          CHOOSE u \in W : At(u, "accept") /\ doing[u].key = i]
  OBVIOUS
<1>4. ASSUME NEW i, \E u \in W : At(u, "accept") /\ doing[u].key = i
      PROVE  of[i] \in W /\ At(of[i], "accept") /\ doing[of[i]].key = i
  BY <1>3, <1>4
<1> DEFINE f == [x \in R |-> IF x[1] = "granted" THEN <<x[2][1], num[x[2][1]][x[2][2]]>>
                             ELSE IF x[1] = "stale" THEN <<of[x[2]], 1>>
                             ELSE <<x[2], 1>>]
<1>5. Limit \in Nat /\ 1 \in 1..Limit
  BY LimitOK
\* The value of f tells the claim.
<1>6. ASSUME NEW x \in R
      PROVE  \E u \in W, k \in 1..Limit :
                /\ f[x] = <<u, k>>
                /\ \/ /\ HasGrant(doing[u])
                      /\ \E i \in doing[u].issuers :
                            x = <<"granted", <<u, i>>>> /\ k = num[u][i]
                   \/ At(u, "accept") /\ x = <<"stale", doing[u].key>>
                   \/ At(u, "join") /\ x = <<"founder", u>>
  <2>1. CASE /\ x = <<"granted", x[2]>> /\ x[2] = <<x[2][1], x[2][2]>>
             /\ x[2][1] \in Worker \ {w} /\ HasGrant(doing[x[2][1]])
             /\ x[2][2] \in doing[x[2][1]].issuers
    <3>1. PICK u, i : u = x[2][1] /\ i = x[2][2]
      OBVIOUS
    <3>2. x = <<"granted", <<u, i>>>> /\ u \in W /\ HasGrant(doing[u]) /\ i \in doing[u].issuers
      BY <2>1, <3>1
    <3>3. num[u][i] \in 1..Limit
      BY <1>2, <3>2
    <3>4. f[x] = <<u, num[u][i]>>
      BY <2>1, <3>1
    <3> HIDE DEF f, W
    <3> QED BY <3>2, <3>3, <3>4
  <2>2. CASE /\ x = <<"stale", x[2]>>
             /\ \E u \in Worker \ {w} : At(u, "accept") /\ doing[u].key = x[2]
    <3>1. of[x[2]] \in W /\ At(of[x[2]], "accept") /\ doing[of[x[2]]].key = x[2]
      BY <1>4, <2>2
    <3>2. f[x] = <<of[x[2]], 1>>
      BY <2>2
    <3>3. x = <<"stale", doing[of[x[2]]].key>>
      BY <2>2, <3>1
    <3> HIDE DEF f, W
    <3> QED BY <1>5, <3>1, <3>2, <3>3
  <2>3. CASE /\ x = <<"founder", x[2]>>
             /\ x[2] \in Worker \ {w} /\ At(x[2], "join")
    <3>1. f[x] = <<x[2], 1>> /\ x[2] \in W
      BY <2>3
    <3> HIDE DEF f, W
    <3> QED BY <1>5, <2>3, <3>1
  <2> HIDE DEF f
  <2> QED BY <2>1, <2>2, <2>3
<1>7. f \in [R -> W \X (1..Limit)]
  <2>1. ASSUME NEW x \in R PROVE f[x] \in W \X (1..Limit)
    <3> HIDE DEF f, W
    <3> QED BY <1>6
  <2> QED BY <2>1
<1>8. \A u \in W : /\ HasGrant(doing[u]) => ~At(u, "accept") /\ ~At(u, "join")
                   /\ At(u, "accept") => ~At(u, "join")
  BY DEF HasGrant, At
<1>9. ASSUME NEW x \in R, NEW y \in R, f[x] = f[y] PROVE x = y
  <2> HIDE DEF f
  <2>1. PICK u \in W, k \in 1..Limit :
                /\ f[x] = <<u, k>>
                /\ \/ /\ HasGrant(doing[u])
                      /\ \E i \in doing[u].issuers :
                            x = <<"granted", <<u, i>>>> /\ k = num[u][i]
                   \/ At(u, "accept") /\ x = <<"stale", doing[u].key>>
                   \/ At(u, "join") /\ x = <<"founder", u>>
    BY <1>6
  <2>2. PICK v \in W, l \in 1..Limit :
                /\ f[y] = <<v, l>>
                /\ \/ /\ HasGrant(doing[v])
                      /\ \E i \in doing[v].issuers :
                            y = <<"granted", <<v, i>>>> /\ l = num[v][i]
                   \/ At(v, "accept") /\ y = <<"stale", doing[v].key>>
                   \/ At(v, "join") /\ y = <<"founder", v>>
    BY <1>6
  <2>3. u = v /\ k = l
    <3>1. <<u, k>> = <<v, l>>
      BY <1>9, <2>1, <2>2, Zenon
    <3> QED BY <3>1
  <2>4. CASE HasGrant(doing[u])
    <3>1. PICK i \in doing[u].issuers : x = <<"granted", <<u, i>>>> /\ k = num[u][i]
      BY <1>8, <2>1, <2>4
    <3>2. PICK j \in doing[u].issuers : y = <<"granted", <<u, j>>>> /\ k = num[u][j]
      BY <1>8, <2>2, <2>3, <2>4
    <3>3. i = j
      BY <1>2, <2>4, <3>1, <3>2
    <3> QED BY <3>1, <3>2, <3>3
  <2>5. CASE At(u, "accept")
    BY <1>8, <2>1, <2>2, <2>3, <2>5
  <2>6. CASE At(u, "join")
    BY <1>8, <2>1, <2>2, <2>3, <2>6
  <2> QED BY <2>1, <2>4, <2>5, <2>6
<1>10. f \in Injection(R, W \X (1..Limit))
  BY <1>7, <1>9 DEF Injection, IsInjective
<1>11. /\ IsFiniteSet(W) /\ Cardinality(W) = Cardinality(Worker) - 1
       /\ IsFiniteSet(1..Limit) /\ Cardinality(1..Limit) = Limit
  <2>1. IsFiniteSet(1..Limit) /\ Cardinality(1..Limit) = Limit
    BY <1>5, FS_Interval
  <2> QED BY <2>1, NetworksConstants, FS_RemoveElement
<1>12. /\ IsFiniteSet(W \X (1..Limit))
       /\ Cardinality(W \X (1..Limit)) = (Cardinality(Worker) - 1) * Limit
  <2> HIDE DEF W
  <2>1. /\ IsFiniteSet(W \X (1..Limit))
        /\ Cardinality(W \X (1..Limit)) = Cardinality(W) * Cardinality(1..Limit)
    BY <1>11, FS_Product
  <2> QED BY <1>11, <2>1
<1> HIDE DEF f, W
<1> QED BY <1>10, <1>12, FS_Injection

\* What is found in two sets is no more than both together.
LEMMA Within ==
    ASSUME NEW S, NEW T, NEW C, IsFiniteSet(S), IsFiniteSet(T), C \subseteq S \cup T
    PROVE  /\ IsFiniteSet(C) /\ Cardinality(C) \in Nat
           /\ Cardinality(S) \in Nat /\ Cardinality(T) \in Nat
           /\ Cardinality(C) <= Cardinality(S) + Cardinality(T)
<1>1. /\ IsFiniteSet(S \cup T) /\ IsFiniteSet(S \cap T)
      /\ Cardinality(S \cup T) = Cardinality(S) + Cardinality(T) - Cardinality(S \cap T)
  BY FS_Union, FS_Subset
<1>2. IsFiniteSet(C) /\ Cardinality(C) <= Cardinality(S \cup T)
  BY <1>1, FS_Subset
<1>3. /\ Cardinality(S) \in Nat /\ Cardinality(T) \in Nat /\ Cardinality(C) \in Nat
      /\ Cardinality(S \cup T) \in Nat /\ Cardinality(S \cap T) \in Nat
  BY <1>1, <1>2, FS_CardinalityType
<1> QED BY <1>1, <1>2, <1>3

\* The places that groups of workers take, if each takes as many as the quota.
LEMMA Places ==
    ASSUME NEW w \in Worker
    PROVE  \E c \in Nat :
              /\ c = Cardinality(Worker) * Limit
              /\ (Cardinality(Worker) - 1) * Limit = c - Limit
              /\ (Cardinality(Worker) - 2) * Limit = c - 2 * Limit
              /\ Peak = 2 * c - Limit
              /\ Limit <= c /\ 1 <= Limit /\ Limit \in Nat
<1>1. PICK k, l : k = Cardinality(Worker) /\ l = Limit
  OBVIOUS
<1>2. k \in Nat /\ l \in Nat /\ 1 <= l
  BY <1>1, LimitOK
<1>3. k # 0
  BY <1>1, NetworksConstants, FS_EmptySet
<1>4. /\ k * l \in Nat /\ (k - 1) * l \in Nat /\ (k - 1) * l = k * l - l
      /\ (k - 2) * l = k * l - 2 * l /\ (2 * k - 1) * l = 2 * (k * l) - l
  BY <1>2, <1>3
<1> QED BY <1>1, <1>2, <1>4 DEF Peak

\* What the quota grants fits beside the pending invitations; what else is
\* offered belongs to the other workers.
LEMMA OffersGranted ==
    ASSUME IInv, \A u \in Worker : KeyOf(u) /\ BatchOf(u), NEW w \in Worker, CheckQuota(w),
           ~Done(w), NEW n, n = doing[w].network
    PROVE  Cardinality(Offers(n)') <= Cardinality(Worker) * Limit
<1>0. TablesOK /\ doing[w] \in Step /\ At(w, "count")
  BY DEF IInv, CheckQuota
<1>1. PICK S, p : S = doing[w].issuers /\ p = doing[w].partners
  OBVIOUS
<1>2. PICK step : step = [at |-> "check", network |-> n, issuers |-> S]
  OBVIOUS
<1>3. /\ Then(w, step) /\ step.at = "check" /\ step.network = n /\ step.issuers = S
      /\ members' = members /\ invites' = invites
      /\ p + Cardinality(PendingOf(n)) + Cardinality(S) <= MaxMembers
  BY <1>1, <1>2 DEF CheckQuota, Pass
<1>4. doing'[w] = step /\ \A u \in Worker \ {w} : doing'[u] = doing[u]
  BY <1>3, Others
<1>5. PendingOf(n)' = PendingOf(n)
  BY <1>3 DEF PendingOf, Is
<1>6. S \in SUBSET Issuer /\ p \in Nat
  BY <1>0, <1>1, Held
<1>7. /\ IsFiniteSet(S) /\ Cardinality(S) \in Nat
      /\ IsFiniteSet(PendingOf(n)) /\ Cardinality(PendingOf(n)) \in Nat
  BY <1>6, NetworksConstants, FiniteClaims, FS_Subset, FS_CardinalityType
<1>8. Cardinality(PendingOf(n)) + Cardinality(S) <= Limit
  BY <1>3, <1>6, <1>7, LimitOK
<1>9. PICK New, Sent, Mine, Rest :
         /\ New = Offers(n)' /\ Sent = {"pending"} \X PendingOf(n)
         /\ Mine = {"granted"} \X ({w} \X S) /\ Rest = New \ (Sent \cup Mine)
  OBVIOUS
<1>10. /\ IsFiniteSet(Sent) /\ Cardinality(Sent) = Cardinality(PendingOf(n))
       /\ IsFiniteSet(Mine) /\ Cardinality(Mine) = Cardinality(S)
  <2>1. PICK P : P = {w} \X S
    OBVIOUS
  <2>2. IsFiniteSet(P) /\ Cardinality(P) = Cardinality(S)
    BY <1>7, <2>1, Labelled
  <2>3. /\ IsFiniteSet({"granted"} \X P) /\ Cardinality({"granted"} \X P) = Cardinality(P)
        /\ IsFiniteSet({"pending"} \X PendingOf(n))
        /\ Cardinality({"pending"} \X PendingOf(n)) = Cardinality(PendingOf(n))
    BY <1>7, <2>2, Labelled
  <2>4. Mine = {"granted"} \X P
    BY <1>9, <2>1
  <2> QED BY <1>9, <2>2, <2>3, <2>4
<1>11. ASSUME NEW x \in Rest
       PROVE  \/ /\ x = <<"granted", x[2]>> /\ x[2] = <<x[2][1], x[2][2]>>
                 /\ x[2][1] \in Worker \ {w} /\ HasGrant(doing[x[2][1]])
                 /\ x[2][2] \in doing[x[2][1]].issuers
              \/ /\ x = <<"stale", x[2]>>
                 /\ \E u \in Worker \ {w} : At(u, "accept") /\ doing[u].key = x[2]
              \/ /\ x = <<"founder", x[2]>>
                 /\ x[2] \in Worker \ {w} /\ At(x[2], "join")
  <2>1. \/ \E q \in Granted(n)' : x = <<"granted", q>>
        \/ \E k \in Stale(n)' : x = <<"stale", k>>
        \/ \E u \in Founding(n)' : x = <<"founder", u>>
    BY <1>5, <1>9 DEF Offers
  <2>2. CASE \E q \in Granted(n)' : x = <<"granted", q>>
    <3>1. PICK q \in Granted(n)' : x = <<"granted", q>>
      BY <2>2
    <3>2. /\ q = <<q[1], q[2]>> /\ q[1] \in Worker /\ q[2] \in Issuer
          /\ HasGrant(doing'[q[1]]) /\ q[2] \in doing'[q[1]].issuers
      <4>1. q \in Worker \X Issuer
        BY <3>1 DEF Granted
      <4> QED BY <3>1, <4>1 DEF Granted, HasGrant
    <3>3. q[1] # w
      BY <1>3, <1>4, <1>9, <3>1, <3>2
    <3>4. HasGrant(doing[q[1]]) /\ q[2] \in doing[q[1]].issuers
      BY <1>4, <3>2, <3>3
    <3>5. x = <<"granted", x[2]>> /\ x[2] = q
      BY <3>1
    <3> QED BY <3>2, <3>3, <3>4, <3>5
  <2>3. CASE \E k \in Stale(n)' : x = <<"stale", k>>
    <3>1. PICK k \in Stale(n)' : x = <<"stale", k>>
      BY <2>3
    <3>2. \E u \in Worker \ {w} : At(u, "accept") /\ doing[u].key = k
      BY <1>3, StaleAfter
    <3>3. x = <<"stale", x[2]>> /\ x[2] = k
      BY <3>1
    <3> QED BY <3>2, <3>3
  <2>4. CASE \E u \in Founding(n)' : x = <<"founder", u>>
    <3>1. PICK u \in Founding(n)' : x = <<"founder", u>>
      BY <2>4
    <3>2. u \in Worker \ {w} /\ At(u, "join")
      BY <1>3, <1>4 DEF Founding, At
    <3>3. x = <<"founder", x[2]>> /\ x[2] = u
      BY <3>1
    <3> QED BY <3>2, <3>3
  <2> QED BY <2>1, <2>2, <2>3, <2>4
<1>12. IsFiniteSet(Rest) /\ Cardinality(Rest) <= (Cardinality(Worker) - 1) * Limit
  BY <1>11, OthersFit
<1>13. /\ IsFiniteSet(Sent \cup Mine) /\ Cardinality(Sent \cup Mine) \in Nat
       /\ Cardinality(Sent \cup Mine) <= Limit
  <2>1. PICK Both : Both = Sent \cup Mine
    OBVIOUS
  <2>2. /\ IsFiniteSet(Both) /\ Cardinality(Both) \in Nat
        /\ Cardinality(Both) <= Cardinality(Sent) + Cardinality(Mine)
    BY <1>10, <2>1, Within
  <2> QED BY <1>7, <1>8, <1>10, <2>1, <2>2, LimitOK
<1>14. /\ Cardinality(New) <= Cardinality(Sent \cup Mine) + Cardinality(Rest)
       /\ Cardinality(New) \in Nat /\ Cardinality(Rest) \in Nat
  BY <1>9, <1>12, <1>13, Within
<1>15. PICK c \in Nat : /\ c = Cardinality(Worker) * Limit
                        /\ (Cardinality(Worker) - 1) * Limit = c - Limit
                        /\ Limit \in Nat
  BY Places
<1>16. Cardinality(New) <= c
  BY <1>12, <1>13, <1>14, <1>15
<1> QED BY <1>9, <1>15, <1>16

\* Invitations that are written were granted to their writer.
LEMMA OffersInvite ==
    ASSUME IInv, \A u \in Worker : KeyOf(u), NEW w \in Worker, NEW n, Invite(w)
    PROVE  Cardinality(Offers(n)') <= Cardinality(Offers(n))
<1>0. TablesOK /\ doing[w] \in Step /\ At(w, "invite") /\ Then(w, Idle)
  BY DEF IInv, Invite, Done
<1>1. PICK m, S, found : m = doing[w].network /\ S = doing[w].issuers /\ found = doing[w].found
  OBVIOUS
<1>2. PICK new \in [S -> Invitation \ used] :
         invites' = [k \in Invitation |->
              IF \E i \in S : k = new[i]
              THEN [network |-> m, issuer |-> CHOOSE i \in S : k = new[i],
                    status |-> "Pending"]
              ELSE IF k \in found /\ Is(k, "Pending") THEN None
              ELSE invites[k]]
  BY <1>1 DEF Invite
<1>3. PICK Fresh : Fresh = PendingOf(n)' \ PendingOf(n)
  OBVIOUS
<1>4. PICK by : by = [k \in Invitation |-> CHOOSE i \in S : k = new[i]]
  OBVIOUS
<1>5. S \in SUBSET Issuer /\ m \in Network
  BY <1>0, <1>1, Held, IdleStep DEF At, HasGrant
<1>6. ASSUME NEW k \in Fresh
      PROVE  k \in Invitation /\ by[k] \in S /\ new[by[k]] = k /\ m = n
  <2>1. k \in Invitation /\ Is(k, "Pending")' /\ invites'[k].network = n
    BY <1>3 DEF PendingOf
  <2>2. CASE \E i \in S : k = new[i]
    <3>1. invites'[k] = [network |-> m, issuer |-> by[k], status |-> "Pending"]
      BY <1>2, <1>4, <2>1, <2>2
    <3>2. by[k] \in S /\ new[by[k]] = k
      BY <1>4, <2>1, <2>2
    <3>3. invites'[k].network = m
      BY <3>1
    <3> QED BY <2>1, <3>2, <3>3
  <2>3. CASE ~ \E i \in S : k = new[i]
    <3>1. invites'[k] = invites[k]
      BY <1>2, <2>1, <2>3 DEF Is
    <3> QED BY <1>3, <2>1, <3>1 DEF PendingOf, Is
  <2> QED BY <2>2, <2>3
<1>7. doing'[w] = Idle
  BY <1>0, Others
<1>8. ASSUME NEW k \in Fresh
      PROVE  <<w, by[k]>> \in Granted(n) /\ <<w, by[k]>> \notin Granted(n)'
  <2>1. <<w, by[k]>> \in Granted(n)
    BY <1>0, <1>1, <1>5, <1>6 DEF Granted, HasGrant, At
  <2>2. <<w, by[k]>> \notin Granted(n)'
    BY <1>7, IdleStep DEF Granted, HasGrant
  <2> QED BY <2>1, <2>2
<1>9. \A j, k \in Fresh : by[j] = by[k] => j = k
  BY <1>6
<1>10. Granted(n)' \subseteq Granted(n) /\ Founding(n)' \subseteq Founding(n)
  BY <1>0, IdleStep, GrantedAfter, FoundingAfter DEF HasGrant
<1>11. PendingOf(n)' \subseteq PendingOf(n) \cup Fresh
  BY <1>3
<1> QED BY <1>0, <1>8, <1>9, <1>10, <1>11, IdleStep, OffersKept

\* Other steps turn offers into other offers, or drop them.
LEMMA OffersFewer ==
    ASSUME IInv, \A u \in Worker : KeyOf(u), NEW w \in Worker, NEW step, Then(w, step),
           NEW n, step.at = "accept" => step.key \in Open',
           HasGrant(step) /\ step.network = n =>
               /\ HasGrant(doing[w]) /\ doing[w].network = n
               /\ step.issuers = doing[w].issuers,
           step.at = "join" => step.network # n,
           PendingOf(n)' \subseteq PendingOf(n)
    PROVE  Cardinality(Offers(n)') <= Cardinality(Offers(n))
<1>1. PICK by : by = [k \in {} |-> k]
  OBVIOUS
<1>2. PICK Fresh : Fresh = {}
  OBVIOUS
<1>3. Granted(n)' \subseteq Granted(n) /\ Founding(n)' \subseteq Founding(n)
  BY GrantedAfter, FoundingAfter
<1>4. /\ \A k \in Fresh : <<w, by[k]>> \in Granted(n) /\ <<w, by[k]>> \notin Granted(n)'
      /\ \A j, k \in Fresh : by[j] = by[k] => j = k
      /\ PendingOf(n)' \subseteq PendingOf(n) \cup Fresh
  BY <1>2
<1> QED BY <1>3, <1>4, OffersKept, ZenonT(30)

LEMMA OffersCalm ==
    ASSUME IInv, \A u \in Worker : KeyOf(u), NEW w \in Worker, NEW n, Work(w),
           ~Create(w), ~Invite(w), CheckQuota(w) => Done(w) \/ doing[w].network # n
    PROVE  Cardinality(Offers(n)') <= Cardinality(Offers(n))
<1>1. ASSUME NEW step, Then(w, step), invites' = invites,
             step.at = "accept" => step.key \in Open, step.at # "join",
             HasGrant(step) /\ step.network = n =>
                 /\ HasGrant(doing[w]) /\ doing[w].network = n
                 /\ step.issuers = doing[w].issuers
      PROVE  Cardinality(Offers(n)') <= Cardinality(Offers(n))
  <2>1. Open' = Open /\ PendingOf(n)' \subseteq PendingOf(n)
    BY <1>1 DEF Open, PendingOf, Is
  <2> QED BY <1>1, <2>1, OffersFewer
<1>2. CASE Done(w) /\ PendingOf(n)' \subseteq PendingOf(n)
  BY <1>2, IdleStep, OffersFewer DEF Done, HasGrant
<1>3. CASE Done(w) /\ invites' = invites
  BY <1>1, <1>3, IdleStep DEF Done, HasGrant
<1>4. CASE Join(w) \/ Share(w) \/ Crash(w)
  BY <1>3, <1>4 DEF Join, Share, Crash
<1>5. CASE Accept(w) \/ Withdraw(w)
  <2>1. PICK status \in {"Approved", "Revoked"} : SaveRow(w, status)
    BY <1>5 DEF Accept, Withdraw
  <2>2. Answering(w) /\ Done(w)
    BY <1>5 DEF Accept, Withdraw, Answering
  <2>3. PendingOf(n)' \subseteq PendingOf(n)
    BY <2>1, <2>2, SavedRow
  <2> QED BY <1>2, <2>2, <2>3
<1>6. CASE Cancel(w)
  <2>1. ASSUME NEW k \in Invitation, Is(k, "Pending")' PROVE invites'[k] = invites[k]
    <3>1. invites[k] \in Row \cup {None} /\ None \notin Row
      BY NetworksConstants DEF IInv, TablesOK
    <3>2. invites'[k] = IF Is(k, "Approved") /\ Of(k, doing[w].network, doing[w].issuer)
                        THEN [invites[k] EXCEPT !.status = "Revoked"] ELSE invites[k]
      BY <1>6 DEF Cancel
    <3> QED BY <2>1, <3>1, <3>2 DEF Is, Row
  <2>2. PendingOf(n)' \subseteq PendingOf(n)
    BY <2>1 DEF PendingOf, Is
  <2> QED BY <1>2, <1>6, <2>2 DEF Cancel
<1>7. CASE Remove(w)
  <2>1. PICK m, i : Then(w, [at |-> "cancel", network |-> m, issuer |-> i])
    BY <1>7 DEF Remove, Begin, Then
  <2> QED BY <1>1, <1>7, <2>1 DEF HasGrant, Remove
<1>8. CASE CheckShare(w)
  <2>1. PICK b, m : Then(w, [at |-> "share", badge |-> b, network |-> m])
    BY <1>8 DEF CheckShare, Begin, Then
  <2> QED BY <1>1, <1>8, <2>1 DEF HasGrant, CheckShare
<1>9. CASE CountPartners(w)
  <2>1. PICK m, S, c :
           Then(w, [at |-> "count", network |-> m, issuers |-> S, partners |-> c])
    BY <1>9 DEF CountPartners, Begin, Then
  <2>2. invites' = invites
    BY <1>9 DEF CountPartners
  <2> QED BY <1>1, <2>1, <2>2 DEF HasGrant
<1>10. CASE FindPending(w)
  <2>1. PICK found : Then(w, [at |-> "invite", network |-> doing[w].network,
                              issuers |-> doing[w].issuers, found |-> found])
    BY <1>10 DEF FindPending
  <2>2. HasGrant(doing[w]) /\ invites' = invites
    BY <1>10 DEF FindPending, At, HasGrant
  <2> QED BY <1>1, <2>1, <2>2
<1>11. CASE CheckPartners(w) \/ CheckQuota(w)
  <2>1. invites' = invites
    BY <1>11, Checked
  <2>2. CASE Done(w)
    BY <1>3, <2>1, <2>2
  <2>3. CASE ~Done(w)
    <3>1. PICK label \in {"check", "find"} :
             Then(w, [at |-> label, network |-> doing[w].network,
                      issuers |-> doing[w].issuers])
      BY <1>11, <2>3, Checked
    <3>2. HasGrant(doing[w]) \/ doing[w].network # n
      BY <1>11, <2>3 DEF CheckPartners, At, HasGrant
    <3> QED BY <1>1, <2>1, <3>1, <3>2
  <2> QED BY <2>2, <2>3
<1>12. CASE Confirm(w) \/ Revoke(w)
  <2>1. ASSUME NEW k \in Invitation, NEW label \in {"accept", "withdraw"},
               Is(k, "Pending"), Load(w, label, k)
        PROVE  Cardinality(Offers(n)') <= Cardinality(Offers(n))
    <3>1. PICK step : step = [at |-> label, key |-> k, network |-> invites[k].network,
                              issuer |-> invites[k].issuer]
      OBVIOUS
    <3>2. /\ Then(w, step) /\ invites' = invites /\ step.at = label /\ step.key = k
          /\ k \in Open
      BY <2>1, <3>1 DEF Load, Begin, Then, Open
    <3>3. step.at # "join" /\ ~HasGrant(step)
      BY <3>2 DEF HasGrant
    <3> QED BY <1>1, <3>2, <3>3
  <2> QED BY <1>12, <2>1 DEF Confirm, Revoke
<1> QED
  BY <1>4, <1>5, <1>6, <1>7, <1>8, <1>9, <1>10, <1>11, <1>12 DEF Work

\* A network that is created offers a place to its founder only.
LEMMA OffersCreate ==
    ASSUME IInv, \A u \in Worker : KeyOf(u), NEW w \in Worker, NEW n, Create(w)
    PROVE  \/ Cardinality(Offers(n)') <= Cardinality(Offers(n))
           \/ Cardinality(Offers(n)') <= 1
<1>1. invites' = invites /\ Open' = Open /\ PendingOf(n)' = PendingOf(n)
  BY DEF Create, Open, PendingOf, Is
<1>2. PICK m, step :
         /\ m \in Network \ networks /\ Then(w, step)
         /\ step.at = "join" => step.network = m
         /\ step.at \in {"idle", "join"}
  <2>1. PICK m \in Network \ networks :
           \/ Then(w, Idle)
           \/ \E i \in Issuer : Then(w, [at |-> "join", network |-> m, issuer |-> i])
    BY DEF Create, Begin, Then
  <2>2. CASE Then(w, Idle)
    BY <2>1, <2>2, IdleStep
  <2>3. ASSUME NEW i \in Issuer, Then(w, [at |-> "join", network |-> m, issuer |-> i])
        PROVE  \E step : /\ Then(w, step)
                         /\ step.at = "join" => step.network = m
                         /\ step.at \in {"idle", "join"}
    BY <2>3
  <2> QED BY <2>1, <2>2, <2>3
<1>3. step.at # "accept" /\ ~HasGrant(step)
  BY <1>2 DEF HasGrant
<1>4. CASE m # n
  BY <1>1, <1>2, <1>3, <1>4, OffersFewer
<1>5. CASE m = n
  <2>1. Offers(n) = {}
    BY <1>2, <1>5, NoClaims
  <2>2. Stale(n)' = {}
    <3>1. \A k \in Stale(n)' : k \in Stale(n) \/ k \in PendingOf(n)
      BY <1>2, <1>3, StaleAfter
    <3>2. ASSUME NEW k PROVE k \notin Stale(n) /\ k \notin PendingOf(n)
      <4>1. <<"stale", k>> \notin Offers(n) /\ <<"pending", k>> \notin Offers(n)
        BY <2>1
      <4> QED BY <4>1 DEF Offers
    <3> QED BY <3>1, <3>2
  <2>3. Granted(n)' \subseteq Granted(n)
    BY <1>2, <1>3, GrantedAfter
  <2>4. Founding(n)' \subseteq Founding(n) \cup {w}
    BY <1>2, Others DEF Founding, At
  <2>5. PICK New, One : New = Offers(n)' /\ One = {<<"founder", w>>}
    OBVIOUS
  <2>6. New \subseteq One
    BY <1>1, <2>1, <2>2, <2>3, <2>4, <2>5 DEF Offers
  <2>7. IsFiniteSet(One) /\ Cardinality(One) = 1
    BY <2>5, FS_Singleton
  <2>8. Cardinality(New) <= 1
    BY <2>6, <2>7, FS_Subset
  <2> QED BY <2>5, <2>8
<1> QED BY <1>4, <1>5

LEMMA OffersStep ==
    ASSUME IInv, IInv', \A u \in Worker : KeyOf(u) /\ BatchOf(u), NEW w \in Worker, Work(w),
           NEW n, Cardinality(Offers(n)) <= Cardinality(Worker) * Limit
    PROVE  Cardinality(Offers(n)') <= Cardinality(Worker) * Limit
<1>1. PICK c \in Nat : c = Cardinality(Worker) * Limit /\ 1 <= c
  <2>1. PICK c \in Nat : c = Cardinality(Worker) * Limit /\ Limit <= c /\ 1 <= Limit /\ Limit \in Nat
    BY Places
  <2> QED BY <2>1
<1>2. Cardinality(Offers(n)) \in Nat
  BY FiniteClaims
<1>3. Cardinality(Offers(n)') \in Nat
  <2>1. (Cardinality(Offers(n)) \in Nat)'
    BY FiniteClaims, PTL
  <2> QED BY <2>1
<1>4. CASE CheckQuota(w) /\ ~Done(w) /\ doing[w].network = n
  BY <1>4, OffersGranted
<1>5. CASE Create(w)
  BY <1>1, <1>2, <1>3, <1>5, OffersCreate
<1>6. CASE Invite(w)
  BY <1>1, <1>2, <1>3, <1>6, OffersInvite
<1>7. CASE ~Create(w) /\ ~Invite(w) /\ (CheckQuota(w) => Done(w) \/ doing[w].network # n)
  BY <1>1, <1>2, <1>3, <1>7, OffersCalm
<1> QED BY <1>4, <1>5, <1>6, <1>7

----------------------------------------------------------------------------
(* The claims stay within bounds. *)

\* Late answers are answers to invitations that are not pending.
LEMMA WaitingOffered ==
    ASSUME Keyed, NEW n
    PROVE  Cardinality(Waiting(n)) <= Cardinality(Offers(n))
<1>1. PICK key : key = [i \in Late(n) |-> CHOOSE k \in Stale(n) :
          \E u \in Worker : /\ At(u, "accept") /\ doing[u].key = k
                            /\ doing[u].network = n /\ doing[u].issuer = i]
  OBVIOUS
<1>2. ASSUME NEW i \in Late(n)
      PROVE  /\ key[i] \in Stale(n)
             /\ \E u \in Worker : /\ At(u, "accept") /\ doing[u].key = key[i]
                                  /\ doing[u].network = n /\ doing[u].issuer = i
  <2>1. PICK u \in Worker : /\ At(u, "accept") /\ ~Is(doing[u].key, "Pending")
                            /\ doing[u].network = n /\ doing[u].issuer = i
    BY DEF Late
  <2>2. doing[u].key \in Invitation
    BY <2>1, Held DEF Keyed, IInv
  <2>3. doing[u].key \in Stale(n)
    BY <2>1, <2>2 DEF Stale
  <2> QED BY <1>1, <2>1, <2>3
<1>3. ASSUME NEW i \in Late(n), NEW j \in Late(n), key[i] = key[j] PROVE i = j
  BY <1>2, <1>3 DEF Keyed, KeyOf, Answering
<1>4. PICK A, B : A = Waiting(n) /\ B = Offers(n)
  OBVIOUS
<1> DEFINE f == [x \in A |-> IF x[1] = "late" THEN <<"stale", key[x[2]]>> ELSE x]
<1>5. ASSUME NEW x \in A
      PROVE  \/ x[1] = "late" /\ x = <<"late", x[2]>> /\ x[2] \in Late(n)
             \/ x[1] \in {"pending", "granted", "founder"} /\ x \in B
  BY <1>4 DEF Waiting, Offers
<1>6. ASSUME NEW x \in A PROVE f[x] \in B
  <2>1. CASE x[1] = "late"
    <3>1. x[2] \in Late(n)
      BY <1>5, <2>1
    <3>2. <<"stale", key[x[2]]>> \in B
      BY <1>2, <1>4, <3>1 DEF Offers
    <3> QED BY <2>1, <3>2
  <2>2. CASE x[1] # "late"
    BY <1>5, <2>2
  <2> QED BY <2>1, <2>2
<1>7. ASSUME NEW x \in A, NEW y \in A, f[x] = f[y] PROVE x = y
  <2>1. CASE x[1] = "late" /\ y[1] = "late"
    <3>1. key[x[2]] = key[y[2]]
      BY <1>7, <2>1
    <3>2. x[2] = y[2]
      BY <1>3, <1>5, <2>1, <3>1
    <3> QED BY <1>5, <2>1, <3>2
  <2>2. CASE x[1] # "late" /\ y[1] # "late"
    BY <1>7, <2>2
  <2>3. ASSUME NEW s \in A, NEW t \in A, s[1] = "late", t[1] # "late" PROVE f[s] # f[t]
    <3>1. f[s] = <<"stale", key[s[2]]>> /\ f[t] = t
      BY <2>3
    <3>2. t[1] # "stale"
      BY <1>5, <2>3
    <3> QED BY <3>1, <3>2
  <2> QED BY <1>7, <2>1, <2>2, <2>3
<1>8. f \in Injection(A, B)
  <2>1. f \in [A -> B]
    BY <1>6
  <2> QED BY <1>7, <2>1 DEF Injection, IsInjective
<1>9. IsFiniteSet(B)
  BY <1>4, FiniteClaims
<1> HIDE DEF f
<1> QED BY <1>4, <1>8, <1>9, FS_Injection

LEMMA WaitingFits == Keyed =>
    \A m \in Network : /\ Cardinality(Waiting(m)) <= Cardinality(Offers(m))
                       /\ Cardinality(Waiting(m)) \in Nat
                       /\ Cardinality(Offers(m)) \in Nat
<1> SUFFICES ASSUME Keyed, NEW m \in Network
             PROVE  /\ Cardinality(Waiting(m)) <= Cardinality(Offers(m))
                    /\ Cardinality(Waiting(m)) \in Nat
                    /\ Cardinality(Offers(m)) \in Nat
  OBVIOUS
<1> QED BY WaitingOffered, FiniteClaims, FS_CardinalityType

\* Of the places of a network, worker u hopes for those that the partners P have
\* left, worker v hopes for none, and the others may hope for all.
LEMMA Tight ==
    ASSUME NEW u \in Worker, NEW v \in Worker, u # v, NEW P, IsFiniteSet(P),
           Cardinality(P) <= Limit, NEW X, IsFiniteSet(X),
           Cardinality(X) <= Cardinality(Worker) * Limit, NEW C,
           \A x \in C :
              \/ x \in {"partner"} \X P
              \/ x \in X
              \/ x \in {"hoped"} \X ({u} \X ((Cardinality(P) + 1)..Limit))
              \/ x \in {"hoped"} \X ((Worker \ {u, v}) \X (1..Limit))
    PROVE  Cardinality(C) <= Peak
<1>1. PICK a : a = Cardinality(P) + 1
  OBVIOUS
<1>2. PICK Left, Rest, Own, Rivals :
         /\ Left = a..Limit /\ Rest = Worker \ {u, v}
         /\ Own = {"hoped"} \X ({u} \X Left) /\ Rivals = {"hoped"} \X (Rest \X (1..Limit))
  OBVIOUS
<1>3. PICK Joined : Joined = {"partner"} \X P
  OBVIOUS
<1>4. /\ IsFiniteSet(Joined) /\ Cardinality(Joined) = Cardinality(P)
      /\ Cardinality(P) \in Nat /\ Cardinality(X) \in Nat
  BY <1>3, Labelled, FS_CardinalityType
<1>5. /\ IsFiniteSet(Left) /\ Cardinality(Left) = Limit - Cardinality(P)
  <2>1. a \in Int /\ Limit \in Int /\ a <= Limit + 1
    BY <1>1, <1>4, LimitOK
  <2>2. /\ IsFiniteSet(a..Limit)
        /\ Cardinality(a..Limit) = IF a > Limit THEN 0 ELSE Limit - a + 1
    BY <2>1, FS_Interval
  <2>3. Cardinality(a..Limit) = Limit - a + 1
    BY <2>1, <2>2
  <2> QED BY <1>1, <1>2, <1>4, <2>1, <2>2, <2>3
<1>6. IsFiniteSet(Own) /\ Cardinality(Own) = Limit - Cardinality(P)
  <2>1. PICK Q : Q = {u} \X Left
    OBVIOUS
  <2>2. IsFiniteSet(Q) /\ Cardinality(Q) = Cardinality(Left)
    BY <1>5, <2>1, Labelled
  <2>3. IsFiniteSet({"hoped"} \X Q) /\ Cardinality({"hoped"} \X Q) = Cardinality(Q)
    BY <2>2, Labelled
  <2>4. Own = {"hoped"} \X Q
    BY <1>2, <2>1
  <2> QED BY <1>5, <2>2, <2>3, <2>4
<1>7. IsFiniteSet(Rest) /\ Cardinality(Rest) = Cardinality(Worker) - 2
  <2>1. PICK W : W = Worker \ {u}
    OBVIOUS
  <2>2. IsFiniteSet(W) /\ Cardinality(W) = Cardinality(Worker) - 1 /\ v \in W
    BY <2>1, NetworksConstants, FS_RemoveElement
  <2>3. IsFiniteSet(W \ {v}) /\ Cardinality(W \ {v}) = Cardinality(W) - 1
    BY <2>2, FS_RemoveElement
  <2>4. Rest = W \ {v}
    BY <1>2, <2>1
  <2> QED BY <2>2, <2>3, <2>4, LimitOK
<1>8. IsFiniteSet(Rivals) /\ Cardinality(Rivals) = (Cardinality(Worker) - 2) * Limit
  <2>1. PICK Q : Q = Rest \X (1..Limit)
    OBVIOUS
  <2>2. IsFiniteSet(Q) /\ Cardinality(Q) = Cardinality(Rest) * Cardinality(1..Limit)
    BY <1>7, <2>1, LimitOK, FS_Product
  <2>3. IsFiniteSet({"hoped"} \X Q) /\ Cardinality({"hoped"} \X Q) = Cardinality(Q)
    BY <2>2, Labelled
  <2>4. Rivals = {"hoped"} \X Q
    BY <1>2, <2>1
  <2>5. Cardinality(1..Limit) = Limit
    BY LimitOK
  <2> QED BY <1>7, <2>2, <2>3, <2>4, <2>5
<1>9. PICK JX, JXO, All : /\ JX = Joined \cup X /\ JXO = JX \cup Own /\ All = JXO \cup Rivals
  OBVIOUS
<1>10. /\ IsFiniteSet(JX) /\ Cardinality(JX) \in Nat
       /\ Cardinality(JX) <= Cardinality(P) + Cardinality(X)
  BY <1>4, <1>9, Within
<1>11. /\ IsFiniteSet(JXO) /\ Cardinality(JXO) \in Nat
       /\ Cardinality(JXO) <= Cardinality(JX) + Cardinality(Own)
  BY <1>6, <1>9, <1>10, Within
<1>12. C \subseteq JXO \cup Rivals
  BY <1>1, <1>2, <1>3, <1>9
<1>13. /\ Cardinality(C) \in Nat /\ Cardinality(Rivals) \in Nat
       /\ Cardinality(C) <= Cardinality(JXO) + Cardinality(Rivals)
  BY <1>8, <1>11, <1>12, Within
<1>14. PICK c \in Nat : /\ c = Cardinality(Worker) * Limit
                        /\ (Cardinality(Worker) - 2) * Limit = c - 2 * Limit
                        /\ Peak = 2 * c - Limit /\ Limit \in Nat
  BY Places
<1> QED BY <1>4, <1>6, <1>8, <1>10, <1>11, <1>13, <1>14

\* A network that is created has room for its founder.
LEMMA CreateClaims ==
    ASSUME IInv, NEW w \in Worker, NEW n, Create(w), Cardinality(Claims(n)) <= Peak
    PROVE  Cardinality(Claims(n)') <= Peak
<1>1. /\ Open' = Open /\ Partners(n)' = Partners(n) /\ PendingOf(n)' = PendingOf(n)
      /\ members' = members
  BY DEF Create, Open, Partners, PendingOf, Is
<1>2. PICK m, step :
         /\ m \in Network \ networks /\ Then(w, step)
         /\ step.at = "join" => step.network = m
         /\ step.at \in {"idle", "join"}
  <2>1. PICK m \in Network \ networks :
           \/ Then(w, Idle)
           \/ \E i \in Issuer : Then(w, [at |-> "join", network |-> m, issuer |-> i])
    BY DEF Create, Begin, Then
  <2>2. CASE Then(w, Idle)
    BY <2>1, <2>2, IdleStep
  <2>3. ASSUME NEW i \in Issuer, Then(w, [at |-> "join", network |-> m, issuer |-> i])
        PROVE  \E step : /\ Then(w, step)
                         /\ step.at = "join" => step.network = m
                         /\ step.at \in {"idle", "join"}
    BY <2>3
  <2> QED BY <2>1, <2>2, <2>3
<1>3. step.at \notin {"accept", "count"} /\ ~HasGrant(step)
  BY <1>2 DEF HasGrant
<1>4. /\ Cardinality(Claims(n)) \in Nat /\ Cardinality(Claims(n)') \in Nat
      /\ Peak \in Nat /\ 1 <= Peak
  <2>1. (Cardinality(Claims(n)) \in Nat)'
    BY FiniteClaims, PTL
  <2>2. PICK c \in Nat : Peak = 2 * c - Limit /\ Limit <= c /\ 1 <= Limit /\ Limit \in Nat
    BY Places
  <2> QED BY <2>1, <2>2, FiniteClaims
<1>5. CASE m # n
  <2>1. Claims(n)' \subseteq Claims(n)
    BY <1>1, <1>2, <1>3, <1>5, QuietClaims
  <2> QED BY <1>4, <2>1, FewerClaims
<1>6. CASE m = n
  <2>1. Claims(n) = {}
    BY <1>2, <1>6, NoClaims
  <2>2. Late(n)' \subseteq Late(n)
    BY <1>1, <1>2, <1>3, LateAfter DEF Late, Open
  <2>3. Granted(n)' \subseteq Granted(n) /\ Hoped(n)' \subseteq Hoped(n)
    BY <1>2, <1>3, GrantedAfter, HopedAfter
  <2>4. Founding(n)' \subseteq Founding(n) \cup {w}
    BY <1>2, Others DEF Founding, At
  <2>5. PICK New, One : New = Claims(n)' /\ One = {<<"founder", w>>}
    OBVIOUS
  <2>6. New \subseteq One
    BY <1>1, <2>1, <2>2, <2>3, <2>4, <2>5 DEF Claims, Waiting
  <2>7. IsFiniteSet(One) /\ Cardinality(One) = 1
    BY <2>5, FS_Singleton
  <2>8. Cardinality(New) <= 1
    BY <2>6, <2>7, FS_Subset
  <2> QED BY <1>4, <2>5, <2>8
<1> QED BY <1>5, <1>6

\* Who counts the partners hopes for the places that they have left.
LEMMA CountClaims ==
    ASSUME IInv, NEW w \in Worker, NEW n, CountPartners(w),
           Cardinality(Claims(n)) <= Peak,
           (Cardinality(Waiting(n)) <= Cardinality(Worker) * Limit)'
    PROVE  Sated(n)'
<1>1. PICK m \in networks, S \in (SUBSET Issuer) \ {{}} :
         Begin(w, [at |-> "count", network |-> m, issuers |-> S,
                   partners |-> Cardinality(Partners(m))])
  BY DEF CountPartners
<1>2. PICK step : step = [at |-> "count", network |-> m, issuers |-> S,
                          partners |-> Cardinality(Partners(m))]
  OBVIOUS
<1>3. /\ Then(w, step) /\ doing[w] = Idle /\ step.at = "count" /\ step.network = m
      /\ step.partners = Cardinality(Partners(m)) /\ ~HasGrant(step)
  BY <1>1, <1>2 DEF Begin, Then, HasGrant
<1>4. members' = members /\ invites' = invites
  BY DEF CountPartners
<1>5. Open' = Open /\ \A l : Partners(l)' = Partners(l) /\ PendingOf(l)' = PendingOf(l)
  BY <1>4 DEF Open, Partners, PendingOf, Is
<1>6. doing'[w] = step /\ \A u \in Worker \ {w} : doing'[u] = doing[u]
  BY <1>3, Others
<1>7. /\ Cardinality(Claims(n)) \in Nat /\ Cardinality(Claims(n)') \in Nat
      /\ Peak \in Nat
  <2>1. (Cardinality(Claims(n)) \in Nat)'
    BY FiniteClaims, PTL
  <2>2. PICK c \in Nat : Peak = 2 * c - Limit /\ Limit <= c /\ 1 <= Limit /\ Limit \in Nat
    BY Places
  <2> QED BY <2>1, <2>2, FiniteClaims
<1>8. CASE m # n
  <2>1. Claims(n)' \subseteq Claims(n)
    BY <1>3, <1>5, <1>8, QuietClaims
  <2> QED BY <1>7, <2>1, FewerClaims DEF Sated
<1>9. CASE m = n
  <2>1. PICK P, p : P = Partners(n) /\ p = Cardinality(P)
    OBVIOUS
  <2>2. IsFiniteSet(P) /\ p \in Nat
    BY <2>1, PartnersCounted
  <2>3. /\ Late(n)' \subseteq Late(n) /\ Granted(n)' \subseteq Granted(n)
        /\ Founding(n)' \subseteq Founding(n)
    BY <1>3, <1>4, <1>5, LateAfter, GrantedAfter, FoundingAfter DEF Late, Open
  <2>4. ASSUME NEW q \in Hoped(n)'
        PROVE  /\ q \in Worker \X (1..Limit) /\ q[1] \in Counting(n)'
               /\ q[1] = w => p < q[2]
               /\ q[1] # w => q \in Hoped(n)
    <3>1. q \in Worker \X (1..Limit) /\ q[1] \in Counting(n)' /\ doing'[q[1]].partners < q[2]
      BY DEF Hoped
    <3>2. q[1] = w => p < q[2]
      BY <1>3, <1>6, <1>9, <2>1, <3>1
    <3>3. q[1] # w => q \in Hoped(n)
      BY <1>6, <3>1 DEF Hoped, Counting, At
    <3> QED BY <3>1, <3>2, <3>3
  <2>5. PICK A, B, H : A = Claims(n) /\ B = Claims(n)' /\ H = HopeOf(w)
    OBVIOUS
  <2>6. \A x \in B : x \in A \/ \E q \in Hoped(n)' : q[1] = w /\ x = <<"hoped", q>>
    BY <1>5, <2>3, <2>4, <2>5 DEF Claims, Waiting
    \* If all workers are counting, then without what the last of them hopes for.
  <2>7. CASE Worker = Counting(n)'
    <3>1. B \ H \subseteq A
      BY <2>4, <2>5, <2>6 DEF HopeOf
    <3>2. IsFiniteSet(A)
      BY <2>5, FiniteClaims
    <3>3. /\ Cardinality(B \ H) <= Cardinality(A) /\ Cardinality(B \ H) \in Nat
          /\ Cardinality(A) \in Nat
      BY <3>1, <3>2, FS_Subset, FS_CardinalityType
    <3>4. Cardinality(B \ H) <= Peak
      BY <1>7, <2>5, <3>3
    <3>5. H = HopeOf(w)'
      BY <2>5 DEF HopeOf
    <3>6. doing'[w].partners = Cardinality(Partners(n)')
      BY <1>3, <1>5, <1>6, <1>9
    <3> QED BY <2>5, <2>7, <3>4, <3>5, <3>6 DEF Sated
    \* If worker v is not, then the others hope for as much as they can.
  <2>8. CASE Worker # Counting(n)' /\ p <= Limit
    <3>1. PICK v \in Worker : v \notin Counting(n)'
      BY <2>8 DEF Counting
    <3>2. v # w
      BY <1>3, <1>6, <1>9, <3>1 DEF Counting, At
    <3>3. PICK X : X = Waiting(n)'
      OBVIOUS
    <3>4. IsFiniteSet(X) /\ Cardinality(X) <= Cardinality(Worker) * Limit
      <4>1. IsFiniteSet(Waiting(n))'
        BY FiniteClaims, PTL
      <4> QED BY <3>3, <4>1
    <3>5. ASSUME NEW x \in B
          PROVE  \/ x \in {"partner"} \X P
                 \/ x \in X
                 \/ x \in {"hoped"} \X ({w} \X ((p + 1)..Limit))
                 \/ x \in {"hoped"} \X ((Worker \ {w, v}) \X (1..Limit))
      <4>1. CASE x \in {"hoped"} \X Hoped(n)'
        <5>1. PICK q \in Hoped(n)' : x = <<"hoped", q>>
          BY <4>1
        <5>2. q = <<q[1], q[2]>> /\ q[1] \in Worker /\ q[1] # v /\ q[2] \in 1..Limit
          BY <2>4, <3>1
        <5>3. q[1] = w => q[2] \in (p + 1)..Limit
          BY <2>2, <2>4, <5>2, LimitOK
        <5> QED BY <5>1, <5>2, <5>3
      <4>2. CASE x \notin {"hoped"} \X Hoped(n)'
        BY <1>5, <2>1, <2>5, <3>3, <4>2 DEF Claims
      <4> QED BY <4>1, <4>2
    <3>6. Cardinality(B) <= Peak
      BY <2>1, <2>2, <2>8, <3>2, <3>4, <3>5, Tight
    <3> QED BY <2>5, <3>6 DEF Sated
  <2>9. CASE ~(p <= Limit)
    <3>1. B \subseteq A
      <4>1. \A q \in Hoped(n)' : q[1] # w
        BY <2>2, <2>4, <2>9, LimitOK
      <4> QED BY <2>6, <4>1
    <3> QED BY <1>7, <2>5, <3>1, FewerClaims DEF Sated
  <2> QED BY <2>7, <2>8, <2>9
<1> QED BY <1>8, <1>9

\* The other handlers.
LEMMA ClaimsStep ==
    ASSUME IInv, \A u \in Worker : KeyOf(u), NEW w \in Worker, NEW n, Work(w),
           ~Create(w), ~CountPartners(w), Cardinality(Claims(n)) <= Peak
    PROVE  Cardinality(Claims(n)') <= Peak
<1>1. Cardinality(Claims(n)') <= Cardinality(Claims(n))
  BY CalmClaims, FewerClaims, GrantedClaims, JoinClaims, RemoveClaims, WithdrawClaims,
     AcceptClaims, InviteClaims DEF Work
<1>2. Cardinality(Claims(n)) \in Nat /\ Cardinality(Claims(n)') \in Nat /\ Peak \in Int
  <2>1. (Cardinality(Claims(n)) \in Nat)'
    BY FiniteClaims, PTL
  <2>2. PICK c \in Nat : Peak = 2 * c - Limit /\ Limit \in Nat
    BY Places
  <2> QED BY <2>1, <2>2, FiniteClaims
<1> QED BY <1>1, <1>2

\* All workers are between the two counts of network n, and worker u, who has
\* counted last, goes on: the quota sees all that there is.
LEMMA LastGoesOn ==
    ASSUME IInv, NEW u \in Worker, NEW n, Worker = Counting(n), CheckQuota(u), ~Done(u),
           doing[u].partners = Cardinality(Partners(n))
    PROVE  Cardinality(Claims(n)') <= Peak
<1>0. TablesOK /\ doing[u] \in Step /\ At(u, "count") /\ doing[u].network = n
  BY DEF IInv, Counting
<1>1. PICK S, p : S = doing[u].issuers /\ p = Cardinality(Partners(n))
  OBVIOUS
<1>2. PICK step : step = [at |-> "check", network |-> n, issuers |-> S]
  OBVIOUS
<1>3. /\ Then(u, step) /\ step.at = "check" /\ step.issuers = S
      /\ members' = members /\ invites' = invites
      /\ p + Cardinality(PendingOf(n)) + Cardinality(S) <= MaxMembers
  BY <1>0, <1>1, <1>2 DEF CheckQuota, Pass
<1>4. doing'[u] = step /\ \A v \in Worker \ {u} : doing'[v] = doing[v] /\ At(v, "count")
  BY <1>3, Others DEF Counting
<1>5. Partners(n)' = Partners(n) /\ PendingOf(n)' = PendingOf(n)
  BY <1>3 DEF Partners, PendingOf, Is
<1>6. S \in SUBSET Issuer
  BY <1>0, <1>1, Held
<1>7. /\ IsFiniteSet(S) /\ Cardinality(S) \in Nat
      /\ IsFiniteSet(Partners(n)) /\ p \in Nat
      /\ IsFiniteSet(PendingOf(n)) /\ Cardinality(PendingOf(n)) \in Nat
  BY <1>1, <1>6, NetworksConstants, FiniteClaims, FS_Subset, FS_CardinalityType
<1>8. p + Cardinality(PendingOf(n)) + Cardinality(S) <= Limit /\ Limit \in Nat
  BY <1>3, <1>7, LimitOK
<1>9. PICK Joined, Sent, Mine, Rest :
         /\ Joined = {"partner"} \X Partners(n) /\ Sent = {"pending"} \X PendingOf(n)
         /\ Mine = {"granted"} \X ({u} \X S)
         /\ Rest = {"hoped"} \X ((Worker \ {u}) \X (1..Limit))
  OBVIOUS
<1>10. /\ IsFiniteSet(Joined) /\ Cardinality(Joined) = p
       /\ IsFiniteSet(Sent) /\ Cardinality(Sent) = Cardinality(PendingOf(n))
       /\ IsFiniteSet(Mine) /\ Cardinality(Mine) = Cardinality(S)
  <2>1. PICK Q : Q = {u} \X S
    OBVIOUS
  <2>2. IsFiniteSet(Q) /\ Cardinality(Q) = Cardinality(S)
    BY <1>7, <2>1, Labelled
  <2>3. /\ IsFiniteSet({"granted"} \X Q) /\ Cardinality({"granted"} \X Q) = Cardinality(Q)
        /\ IsFiniteSet({"pending"} \X PendingOf(n))
        /\ Cardinality({"pending"} \X PendingOf(n)) = Cardinality(PendingOf(n))
        /\ IsFiniteSet({"partner"} \X Partners(n))
        /\ Cardinality({"partner"} \X Partners(n)) = Cardinality(Partners(n))
    BY <1>7, <2>2, Labelled
  <2>4. Mine = {"granted"} \X Q
    BY <1>9, <2>1
  <2> QED BY <1>1, <1>9, <2>2, <2>3, <2>4
<1>11. IsFiniteSet(Rest) /\ Cardinality(Rest) = (Cardinality(Worker) - 1) * Limit
  <2>1. PICK W : W = Worker \ {u}
    OBVIOUS
  <2>2. IsFiniteSet(W) /\ Cardinality(W) = Cardinality(Worker) - 1
    BY <2>1, NetworksConstants, FS_RemoveElement
  <2>3. PICK Q : Q = W \X (1..Limit)
    OBVIOUS
  <2>4. IsFiniteSet(Q) /\ Cardinality(Q) = Cardinality(W) * Cardinality(1..Limit)
    BY <2>2, <2>3, LimitOK, FS_Product
  <2>5. IsFiniteSet({"hoped"} \X Q) /\ Cardinality({"hoped"} \X Q) = Cardinality(Q)
    BY <2>4, Labelled
  <2>6. Rest = {"hoped"} \X Q
    BY <1>9, <2>1, <2>3
  <2>7. Cardinality(1..Limit) = Limit
    BY LimitOK
  <2> QED BY <2>2, <2>4, <2>5, <2>6, <2>7
<1>12. PICK JS, JSM, New :
          JS = Joined \cup Sent /\ JSM = JS \cup Mine /\ New = Claims(n)'
  OBVIOUS
<1>13. New \subseteq JSM \cup Rest
  <2>1. Late(n)' = {} /\ Founding(n)' = {}
    BY <1>3, <1>4 DEF Late, Founding, At
  <2>2. Granted(n)' \subseteq {u} \X S
    BY <1>3, <1>4 DEF Granted, HasGrant, At
  <2>3. Hoped(n)' \subseteq (Worker \ {u}) \X (1..Limit)
    BY <1>3, <1>4 DEF Hoped, Counting, At
  <2> QED BY <1>5, <1>9, <1>12, <2>1, <2>2, <2>3 DEF Claims, Waiting
<1>14. /\ IsFiniteSet(JS) /\ Cardinality(JS) \in Nat
       /\ Cardinality(JS) <= Cardinality(Joined) + Cardinality(Sent)
  BY <1>10, <1>12, Within
<1>15. /\ IsFiniteSet(JSM) /\ Cardinality(JSM) \in Nat
       /\ Cardinality(JSM) <= Cardinality(JS) + Cardinality(Mine)
  BY <1>10, <1>12, <1>14, Within
<1>16. /\ Cardinality(New) \in Nat /\ Cardinality(Rest) \in Nat
       /\ Cardinality(New) <= Cardinality(JSM) + Cardinality(Rest)
  BY <1>11, <1>13, <1>15, Within
<1>17. PICK c \in Nat : /\ (Cardinality(Worker) - 1) * Limit = c - Limit
                        /\ Peak = 2 * c - Limit /\ Limit <= c /\ Limit \in Nat
  BY Places
<1>18. Cardinality(New) <= Peak
  BY <1>7, <1>8, <1>10, <1>11, <1>14, <1>15, <1>16, <1>17
<1> QED BY <1>12, <1>18

\* Or another worker w goes on.
LEMMA LastStays ==
    ASSUME IInv, \A v \in Worker : KeyOf(v), NEW u \in Worker, NEW w \in Worker, NEW n,
           Worker = Counting(n), CheckQuota(w) \/ Crash(w), w # u \/ Done(w),
           doing[u].partners = Cardinality(Partners(n)),
           Cardinality(Claims(n) \ HopeOf(u)) <= Peak,
           (Cardinality(Waiting(n)) <= Cardinality(Worker) * Limit)'
    PROVE  Cardinality(Claims(n)') <= Peak
<1>0. TablesOK /\ members' = members /\ invites' = invites
  BY Checked DEF IInv, Crash
<1>1. PICK A, B, H : A = Claims(n) /\ B = Claims(n)' /\ H = HopeOf(u)
  OBVIOUS
<1>2. PICK P, p : P = Partners(n) /\ p = Cardinality(P)
  OBVIOUS
<1>3. IsFiniteSet(P) /\ p \in Nat
  BY <1>2, PartnersCounted
<1>4. IsFiniteSet(A) /\ IsFiniteSet(A \ H) /\ Cardinality(A \ H) \in Nat
  BY <1>1, FiniteClaims, FS_Subset, FS_CardinalityType
<1>5. Peak \in Int
  <2>1. PICK c \in Nat : Peak = 2 * c - Limit /\ Limit \in Nat
    BY Places
  <2> QED BY <2>1
<1>6. PICK step : Then(w, step) /\ step.at \in {"idle", "check", "find"}
  <2>1. CASE Done(w)
    BY <2>1, IdleStep DEF Done
  <2>2. CASE ~Done(w)
    <3>1. PICK label \in {"check", "find"} :
             Then(w, [at |-> label, network |-> doing[w].network,
                      issuers |-> doing[w].issuers])
      BY <2>2, Checked DEF Crash
    <3> QED BY <3>1
  <2> QED BY <2>1, <2>2
<1>7. doing'[w] = step /\ \A v \in Worker \ {w} : doing'[v] = doing[v]
  BY <1>6, Others
<1>8. \A q \in Hoped(n)' : q \in Hoped(n) /\ q[1] # w
  BY <1>6, HopedAfter
<1>9. CASE w = u
  <2>1. B \subseteq A
    BY <1>1, <1>9, CalmClaims
  <2>2. \A x \in B : x \notin H
    <3>1. \A q \in Hoped(n)' : q \notin {u} \X (1..Limit)
      BY <1>8, <1>9
    <3>2. \A x \in B : x \in H => x \in {"hoped"} \X Hoped(n)'
      BY <1>1 DEF Claims, Waiting, HopeOf
    <3> QED BY <1>1, <3>1, <3>2 DEF HopeOf
  <2>3. B \subseteq A \ H
    BY <2>1, <2>2
  <2>4. Cardinality(B) <= Cardinality(A \ H) /\ Cardinality(B) \in Nat
    BY <1>4, <2>3, FS_Subset, FS_CardinalityType
  <2> QED BY <1>1, <1>4, <1>5, <2>4
<1>10. CASE w # u /\ p <= Limit
  <2>1. PICK X : X = Waiting(n)'
    OBVIOUS
  <2>2. IsFiniteSet(X) /\ Cardinality(X) <= Cardinality(Worker) * Limit
    <3>1. IsFiniteSet(Waiting(n))'
      BY FiniteClaims, PTL
    <3> QED BY <2>1, <3>1
  <2>3. Partners(n)' = P
    BY <1>0, <1>2 DEF Partners
  <2>4. ASSUME NEW x \in B
        PROVE  \/ x \in {"partner"} \X P
               \/ x \in X
               \/ x \in {"hoped"} \X ({u} \X ((p + 1)..Limit))
               \/ x \in {"hoped"} \X ((Worker \ {u, w}) \X (1..Limit))
    <3>1. CASE x \in {"hoped"} \X Hoped(n)'
      <4>1. PICK q \in Hoped(n)' : x = <<"hoped", q>>
        BY <3>1
      <4>2. /\ q = <<q[1], q[2]>> /\ q[1] \in Worker /\ q[1] # w /\ q[2] \in 1..Limit
            /\ doing[q[1]].partners < q[2]
        BY <1>8 DEF Hoped
      <4>3. q[1] = u => q[2] \in (p + 1)..Limit
        BY <1>2, <1>3, <4>2, LimitOK
      <4> QED BY <4>1, <4>2, <4>3
    <3>2. CASE x \notin {"hoped"} \X Hoped(n)'
      BY <1>1, <2>1, <2>3, <3>2 DEF Claims
    <3> QED BY <3>1, <3>2
  <2>5. Cardinality(B) <= Peak
    BY <1>2, <1>3, <1>10, <2>2, <2>4, Tight
  <2> QED BY <1>1, <2>5
<1>11. CASE ~(p <= Limit)
  <2>1. A \ H = A
    <3>1. \A q \in Hoped(n) : q[1] # u
      BY <1>2, <1>3, <1>11, LimitOK DEF Hoped
    <3>2. \A x \in A : x \in H => x \in {"hoped"} \X Hoped(n)
      BY <1>1 DEF Claims, Waiting, HopeOf
    <3> QED BY <1>1, <3>1, <3>2 DEF HopeOf
  <2>2. Cardinality(Claims(n)') <= Cardinality(Claims(n))
    BY CalmClaims, FewerClaims, GrantedClaims
  <2>3. Cardinality(Claims(n)') \in Nat
    <3>1. (Cardinality(Claims(n)) \in Nat)'
      BY FiniteClaims, PTL
    <3> QED BY <3>1
  <2>4. Cardinality(A) <= Peak
    BY <1>1, <2>1
  <2> QED BY <1>1, <1>4, <1>5, <2>1, <2>2, <2>3, <2>4
<1> QED BY <1>9, <1>10, <1>11

LEMMA SatedStep ==
    ASSUME IInv, \A u \in Worker : KeyOf(u), NEW w \in Worker, NEW n, Work(w), Sated(n),
           (Cardinality(Waiting(n)) <= Cardinality(Worker) * Limit)'
    PROVE  Sated(n)'
<1>1. CASE Cardinality(Claims(n)) <= Peak
  <2>1. CASE CountPartners(w)
    BY <1>1, <2>1, CountClaims
  <2>2. CASE ~CountPartners(w)
    <3>1. Cardinality(Claims(n)') <= Peak
      BY <1>1, <2>2, CreateClaims, ClaimsStep
    <3> QED BY <3>1 DEF Sated
  <2> QED BY <2>1, <2>2
<1>2. CASE ~(Cardinality(Claims(n)) <= Peak)
  <2>1. PICK u \in Worker : /\ doing[u].partners = Cardinality(Partners(n))
                            /\ Cardinality(Claims(n) \ HopeOf(u)) <= Peak
    BY <1>2 DEF Sated
  <2>2. Worker = Counting(n) /\ At(w, "count")
    BY <1>2 DEF Sated, Counting
  <2>3. CheckQuota(w) \/ Crash(w)
    BY <2>2, IdleStep DEF Work, At, Create, Join, CountPartners, CheckPartners, FindPending,
       Invite, Confirm, Accept, Revoke, Withdraw, Remove, Cancel, CheckShare, Share, Load,
       Begin
  <2>4. Crash(w) => Done(w)
    BY DEF Crash
  <2>5. Cardinality(Claims(n)') <= Peak
    BY <2>1, <2>2, <2>3, <2>4, LastGoesOn, LastStays
  <2> QED BY <2>5 DEF Sated
<1> QED BY <1>1, <1>2

----------------------------------------------------------------------------

LEMMA QuotaInitSound == Init => QuotaInv
<1> SUFFICES ASSUME Init PROVE QuotaInv
  OBVIOUS
<1>1. IInv
  BY InitSound
<1>2. ASSUME NEW u \in Worker PROVE doing[u].at = "idle"
  BY IdleStep DEF Init
<1>3. \A u \in Worker : KeyOf(u) /\ BatchOf(u)
  BY <1>2 DEF KeyOf, BatchOf, Answering, At, HasGrant
<1>4. ASSUME NEW n \in Network
      PROVE  Cardinality(Offers(n)) <= Cardinality(Worker) * Limit /\ Sated(n)
  <2>1. Cardinality(Claims(n)) = 0 /\ Cardinality(Offers(n)) = 0
    BY <1>1, NoClaims, FS_EmptySet DEF Init
  <2>2. PICK c \in Nat : /\ c = Cardinality(Worker) * Limit /\ Peak = 2 * c - Limit
                         /\ Limit <= c /\ Limit \in Nat
    BY NetworksConstants, Places
  <2> QED BY <2>1, <2>2 DEF Sated
<1> QED BY <1>1, <1>3, <1>4 DEF QuotaInv, Keyed

LEMMA QuotaNextSound == QuotaInv /\ [Next]_vars => QuotaInv'
<1> SUFFICES ASSUME QuotaInv, [Next]_vars PROVE QuotaInv'
  OBVIOUS
<1>1. IInv /\ IInv' /\ \A u \in Worker : KeyOf(u) /\ BatchOf(u)
  BY NextSound DEF QuotaInv, Keyed
<1>2. CASE UNCHANGED vars
  <2>1. \A u \in Worker : KeyOf(u)' /\ BatchOf(u)'
    BY <1>1, <1>2 DEF vars, KeyOf, BatchOf, Answering, At, Of
  <2>2. ASSUME NEW n \in Network
        PROVE  /\ Offers(n)' = Offers(n) /\ Claims(n)' = Claims(n)
               /\ Partners(n)' = Partners(n) /\ Counting(n)' = Counting(n)
    BY <1>2 DEF vars, Claims, Waiting, Offers, Stale, Hoped, Counting, Partners, PendingOf,
       Late, Granted, Founding, At, Is
  <2>3. doing' = doing
    BY <1>2 DEF vars
  <2>4. ASSUME NEW n \in Network
        PROVE  (Cardinality(Offers(n)) <= Cardinality(Worker) * Limit /\ Sated(n))'
    <3>1. Cardinality(Offers(n)) <= Cardinality(Worker) * Limit /\ Sated(n)
      BY DEF QuotaInv
    <3> QED BY <2>2, <2>3, <3>1 DEF Sated, HopeOf
  <2> QED BY <1>1, <2>1, <2>4 DEF QuotaInv, Keyed
<1>3. ASSUME NEW w \in Worker, Work(w) PROVE QuotaInv'
  <2>1. \A u \in Worker : KeyOf(u)'
    BY <1>1, <1>3, KeysStep
  <2>2. \A u \in Worker : BatchOf(u)'
    BY <1>1, <1>3, BatchStep
  <2>3. Keyed'
    BY <1>1, <2>1 DEF Keyed
  <2>4. ASSUME NEW n \in Network
        PROVE  (Cardinality(Offers(n)) <= Cardinality(Worker) * Limit /\ Sated(n))'
    <3>1. Cardinality(Offers(n)) <= Cardinality(Worker) * Limit /\ Sated(n)
      BY DEF QuotaInv
    <3>2. (Cardinality(Offers(n)) <= Cardinality(Worker) * Limit)'
      BY <1>1, <1>3, <3>1, OffersStep
    <3>3. (Cardinality(Waiting(n)) <= Cardinality(Worker) * Limit)'
      <4>1. (\A m \in Network : /\ Cardinality(Waiting(m)) <= Cardinality(Offers(m))
                                /\ Cardinality(Waiting(m)) \in Nat
                                /\ Cardinality(Offers(m)) \in Nat)'
        BY <2>3, WaitingFits, PTL
      <4>2. Cardinality(Worker) * Limit \in Nat
        BY LimitOK
      <4> QED BY <3>2, <4>1, <4>2
    <3> QED BY <1>1, <1>3, <3>1, <3>2, <3>3, SatedStep
  <2> QED BY <2>2, <2>3, <2>4 DEF QuotaInv
<1> QED BY <1>2, <1>3 DEF Next

\* Requests that overlap fill a network up to (2 * W - 1) times, W being the
\* number of workers, and no further, even though the partners and the pending
\* invitations are counted one after the other (models.py:439-441).
THEOREM OvershootAlwaysBounded == Spec => []OvershootBounded
<1>1. QuotaInv => OvershootBounded
  <2> SUFFICES ASSUME QuotaInv, NEW n \in Network PROVE Usage(n) <= Peak
    BY DEF OvershootBounded, Peak
  <2>1. PICK c \in Nat : /\ c = Cardinality(Worker) * Limit /\ Peak = 2 * c - Limit
                         /\ Limit <= c /\ Limit \in Nat
    BY NetworksConstants, Places
  <2>2. /\ Usage(n) <= Cardinality(Claims(n)) /\ Usage(n) \in Nat
        /\ Cardinality(Claims(n)) \in Nat
    BY UsageClaimed, FiniteClaims
  <2>3. CASE Cardinality(Claims(n)) <= Peak
    BY <2>1, <2>2, <2>3
  \* What is hoped for is not in use.
  <2>4. CASE ~(Cardinality(Claims(n)) <= Peak)
    <3>1. PICK u \in Worker : Cardinality(Claims(n) \ HopeOf(u)) <= Peak
      BY <2>4 DEF QuotaInv, Sated
    <3>2. PICK A, B : /\ A = ({"partner"} \X Partners(n)) \cup ({"pending"} \X PendingOf(n))
                      /\ B = Claims(n) \ HopeOf(u)
      OBVIOUS
    <3>3. A \subseteq B
      BY <3>2 DEF Claims, Waiting, HopeOf
    <3>4. IsFiniteSet(B)
      BY <3>2, FiniteClaims, FS_Subset
    <3>5. Cardinality(A) <= Cardinality(B) /\ Cardinality(B) \in Nat
      BY <3>3, <3>4, FS_Subset, FS_CardinalityType
    <3>6. Usage(n) = Cardinality(A)
      BY <3>2, UsageClaimed
    <3> QED BY <2>1, <2>2, <3>1, <3>2, <3>5, <3>6
  <2> QED BY <2>3, <2>4
<1>2. Spec => []QuotaInv
  BY QuotaInitSound, QuotaNextSound, PTL DEF Spec
<1> QED BY <1>1, <1>2, PTL

=============================================================================
