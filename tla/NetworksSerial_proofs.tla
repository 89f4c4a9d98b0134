----------------------- MODULE NetworksSerial_proofs -----------------------
(***************************************************************************)
(* Theorems about requests to Networks that come one after the other, some  *)
(* of which die half way: with one worker w, and any numbers of networks,   *)
(* issuers, badge classes and invitations.  The quota is kept, an issuer    *)
(* has one pending invitation, and the handlers implement Partnership.      *)
(***************************************************************************)
EXTENDS Networks_proofs

\* An issuer has one pending invitation to a network.
Single == \A n \in Network, i \in Issuer : \A k, l \in Pending(n, i) : k = l

\* Partners are not invited.
Apart == \A n \in Network, i \in Issuer :
    <<n, i>> \in members => Pending(n, i) = {}

Sound == Single /\ Apart /\ QuotaKept /\ MemberInvited /\ OneShare

\* What worker w has read is still so: nobody else writes.
Knows(w) ==
    /\ At(w, "join") =>
          Partners(doing[w].network) = {} /\ PendingOf(doing[w].network) = {}
    /\ At(w, "count") => doing[w].partners = Cardinality(Partners(doing[w].network))
    /\ HasGrant(doing[w]) =>
          Usage(doing[w].network) + Cardinality(doing[w].issuers) <= MaxMembers
    /\ At(w, "find") \/ At(w, "invite") =>
          doing[w].issuers \cap Partners(doing[w].network) = {}
    /\ At(w, "invite") =>
          doing[w].found = {k \in PendingOf(doing[w].network) :
                                invites[k].issuer \in doing[w].issuers}
    /\ At(w, "accept") \/ At(w, "withdraw") =>
          /\ Is(doing[w].key, "Pending")
          /\ Of(doing[w].key, doing[w].network, doing[w].issuer)
    /\ At(w, "cancel") => <<doing[w].network, doing[w].issuer>> \notin members
    /\ At(w, "share") =>
          /\ <<doing[w].network, Owner[doing[w].badge]>> \in members
          /\ ~ \E m \in Network : <<doing[w].badge, m>> \in shares

SInv(w) == IInv /\ Sound /\ Knows(w)

----------------------------------------------------------------------------
(* Usage *)

LEMMA FiniteUsage ==
    ASSUME NEW n
    PROVE  /\ IsFiniteSet(Partners(n)) /\ IsFiniteSet(PendingOf(n))
           /\ Cardinality(Partners(n)) \in Nat /\ Cardinality(PendingOf(n)) \in Nat
<1>1. Partners(n) \in SUBSET Issuer /\ PendingOf(n) \in SUBSET Invitation
  BY DEF Partners, PendingOf
<1>2. IsFiniteSet(Partners(n)) /\ IsFiniteSet(PendingOf(n))
  BY <1>1, NetworksConstants, FS_Subset
<1> QED BY <1>2, FS_CardinalityType

LEMMA UsageShrinks ==
    ASSUME NEW n, Partners(n)' \subseteq Partners(n),
           PendingOf(n)' \subseteq PendingOf(n)
    PROVE  Usage(n)' <= Usage(n)
<1>1. /\ Cardinality(Partners(n)') <= Cardinality(Partners(n))
      /\ Cardinality(PendingOf(n)') <= Cardinality(PendingOf(n))
      /\ IsFiniteSet(Partners(n)') /\ IsFiniteSet(PendingOf(n)')
  BY FiniteUsage, FS_Subset
<1>2. Cardinality(Partners(n)') \in Nat /\ Cardinality(PendingOf(n)') \in Nat
  BY <1>1, FS_CardinalityType
<1> QED BY <1>1, <1>2, FiniteUsage DEF Usage

LEMMA QuotaOf ==
    ASSUME NEW n \in Network, QuotaKept, Usage(n)' <= Usage(n)
    PROVE  Usage(n)' <= Limit
<1>1. IsFiniteSet(Partners(n)') /\ IsFiniteSet(PendingOf(n)')
  <2>1. Partners(n)' \in SUBSET Issuer /\ PendingOf(n)' \in SUBSET Invitation
    BY DEF Partners, PendingOf
  <2> QED BY <2>1, NetworksConstants, FS_Subset
<1>2. Usage(n)' \in Nat /\ Usage(n) \in Nat /\ Limit \in Nat
  BY <1>1, FiniteUsage, NetworksConstants, FS_CardinalityType DEF Usage, Limit
<1>3. Usage(n) <= Limit
  BY DEF QuotaKept
<1> QED BY <1>2, <1>3

----------------------------------------------------------------------------
(* The row that Invite leaves under a key. *)

LEMMA Invited ==
    ASSUME IInv, NEW w \in Worker, Invite(w)
    PROVE  \E new \in [doing[w].issuers -> Invitation \ used] :
              /\ \A i, j \in doing[w].issuers : i # j => new[i] # new[j]
              /\ \A i \in doing[w].issuers :
                    invites'[new[i]] = [network |-> doing[w].network, issuer |-> i,
                                        status |-> "Pending"]
              /\ \A k \in Invitation : (\A i \in doing[w].issuers : k # new[i]) =>
                    invites'[k] = IF k \in doing[w].found /\ Is(k, "Pending")
                                  THEN None ELSE invites[k]
<1>1. PICK new \in [doing[w].issuers -> Invitation \ used] :
        /\ \A i, j \in doing[w].issuers : i # j => new[i] # new[j]
        /\ invites' = [k \in Invitation |->
              IF \E i \in doing[w].issuers : k = new[i]
              THEN [network |-> doing[w].network,
                    issuer |-> CHOOSE i \in doing[w].issuers : k = new[i],
                    status |-> "Pending"]
              ELSE IF k \in doing[w].found /\ Is(k, "Pending") THEN None
              ELSE invites[k]]
  BY DEF Invite
<1>2. ASSUME NEW i \in doing[w].issuers
      PROVE  invites'[new[i]] = [network |-> doing[w].network, issuer |-> i,
                                 status |-> "Pending"]
  <2>1. (CHOOSE j \in doing[w].issuers : new[i] = new[j]) = i
    BY <1>1
  <2>2. new[i] \in Invitation
    OBVIOUS
  <2> QED BY <1>1, <2>1, <2>2
<1>3. ASSUME NEW k \in Invitation, \A i \in doing[w].issuers : k # new[i]
      PROVE  invites'[k] = IF k \in doing[w].found /\ Is(k, "Pending")
                           THEN None ELSE invites[k]
  BY <1>1, <1>3
<1> QED BY <1>1, <1>2, <1>3

\* And the sets of pending invitations that it leaves.
LEMMA InvitedPending ==
    ASSUME IInv, NEW w \in Worker, Invite(w), Knows(w)
    PROVE  \E new \in [doing[w].issuers -> Invitation \ used] :
              /\ \A n \in Network, i \in Issuer :
                    Pending(n, i)' = IF n = doing[w].network /\ i \in doing[w].issuers
                                     THEN {new[i]} ELSE Pending(n, i)
              /\ \A k \in Invitation : invites[k] # None /\ ~Is(k, "Pending") =>
                    invites'[k] = invites[k]
<1>0. /\ doing[w].network \in Network /\ doing[w].issuers \in SUBSET Issuer
      /\ At(w, "invite") /\ invites \in [Invitation -> Row \cup {None}]
      /\ \A k \in Invitation : invites[k] # None => k \in used
  BY Held DEF IInv, TablesOK, Invite, At, Idle, HasGrant
<1> DEFINE n0 == doing[w].network
           S0 == doing[w].issuers
<1>1. PICK new \in [S0 -> Invitation \ used] :
        /\ \A i, j \in S0 : i # j => new[i] # new[j]
        /\ \A i \in S0 : invites'[new[i]] = [network |-> n0, issuer |-> i,
                                             status |-> "Pending"]
        /\ \A k \in Invitation : (\A i \in S0 : k # new[i]) =>
              invites'[k] = IF k \in doing[w].found /\ Is(k, "Pending")
                            THEN None ELSE invites[k]
  BY Invited
<1>2. doing[w].found = {k \in PendingOf(n0) : invites[k].issuer \in S0}
  BY <1>0 DEF Knows
<1>3. ASSUME NEW n \in Network, NEW i \in Issuer, NEW k \in Invitation,
             NEW j \in S0, k = new[j]
      PROVE  /\ k \in Pending(n, i)' <=> n = n0 /\ i = j
             /\ k \notin Pending(n, i)
  <2>1. invites'[k] = [network |-> n0, issuer |-> j, status |-> "Pending"]
    BY <1>1, <1>3
  <2>2. [network |-> n0, issuer |-> j, status |-> "Pending"] # None
    BY <1>0, NetworksConstants DEF Row
  <2>3. invites[k] = None
    BY <1>0, <1>3
  <2> QED BY <2>1, <2>2, <2>3 DEF Pending, PendingOf, Is
<1>4. ASSUME NEW n \in Network, NEW i \in Issuer, NEW k \in Invitation,
             \A j \in S0 : k # new[j]
      PROVE  k \in Pending(n, i)' <=> k \in Pending(n, i) /\ ~(n = n0 /\ i \in S0)
  <2>1. invites'[k] = IF k \in doing[w].found /\ Is(k, "Pending")
                      THEN None ELSE invites[k]
    BY <1>1, <1>4
  <2> HIDE DEF n0, S0
  <2> QED BY <1>2, <2>1 DEF Pending, PendingOf, Is
<1>5. ASSUME NEW n \in Network, NEW i \in Issuer
      PROVE  Pending(n, i)' = IF n = n0 /\ i \in S0 THEN {new[i]} ELSE Pending(n, i)
  <2>1. Pending(n, i) \subseteq Invitation /\ Pending(n, i)' \subseteq Invitation
    BY DEF Pending, PendingOf
  <2>2. CASE n = n0 /\ i \in S0
    <3>1. new[i] \in Invitation
      BY <2>2
    <3> QED BY <1>3, <1>4, <2>1, <2>2, <3>1
  <2>3. CASE ~(n = n0 /\ i \in S0)
    BY <1>3, <1>4, <2>1, <2>3
  <2> QED BY <2>2, <2>3
<1>6. ASSUME NEW k \in Invitation, invites[k] # None, ~Is(k, "Pending")
      PROVE  invites'[k] = invites[k]
  BY <1>0, <1>1, <1>6
<1> QED BY <1>5, <1>6

----------------------------------------------------------------------------
(* The other ways in which the invitations change. *)

\* The answer to an invitation.
LEMMA Answered ==
    ASSUME IInv, Single, NEW w \in Worker, Knows(w),
           At(w, "accept") \/ At(w, "withdraw"),
           NEW s \in {"Approved", "Revoked"}, SaveRow(w, s)
    PROVE  \E n0 \in Network, i0 \in Issuer : \E k0 \in Pending(n0, i0) :
              /\ n0 = doing[w].network /\ i0 = doing[w].issuer /\ k0 = doing[w].key
              /\ \A n \in Network, i \in Issuer :
                    Pending(n, i)' = IF n = n0 /\ i = i0 THEN {} ELSE Pending(n, i)
              /\ \A k \in Invitation \ {k0} : invites'[k] = invites[k]
              /\ Is(k0, s)' /\ Of(k0, n0, i0)'
<1>1. PICK n0 \in Network, i0 \in Issuer, k0 \in Invitation :
         n0 = doing[w].network /\ i0 = doing[w].issuer /\ k0 = doing[w].key
  BY Held DEF IInv, At, Idle
<1>2. k0 \in Pending(n0, i0)
  BY <1>1 DEF Knows, Pending, PendingOf, Is, Of
<1> DEFINE new == [network |-> n0, issuer |-> i0, status |-> s]
<1>3. invites'[k0] = new /\ \A k \in Invitation \ {k0} : invites'[k] = invites[k]
  BY <1>1 DEF SaveRow, IInv, TablesOK
<1>4. new # None
  BY <1>1, NetworksConstants DEF Row
<1>5. Is(k0, s)' /\ Of(k0, n0, i0)' /\ ~Is(k0, "Pending")'
  BY <1>3, <1>4 DEF Is, Of
<1>6. ASSUME NEW n \in Network, NEW i \in Issuer
      PROVE  Pending(n, i)' = Pending(n, i) \ {k0}
  BY <1>3, <1>5 DEF Pending, PendingOf, Is
<1>7. ASSUME NEW n \in Network, NEW i \in Issuer
      PROVE  Pending(n, i)' = IF n = n0 /\ i = i0 THEN {} ELSE Pending(n, i)
  <2>1. CASE n = n0 /\ i = i0
    BY <1>1, <1>2, <1>6, <2>1 DEF Single
  <2>2. CASE ~(n = n0 /\ i = i0)
    <3>1. k0 \notin Pending(n, i)
      BY <1>2, <2>2 DEF Pending, PendingOf
    <3> QED BY <1>6, <2>2, <3>1
  <2> QED BY <2>1, <2>2
<1> QED BY <1>1, <1>2, <1>3, <1>5, <1>7

\* The revocation of accepted invitations.
LEMMA Cancelled ==
    ASSUME IInv, NEW w \in Worker, Cancel(w)
    PROVE  /\ \A n, i : Pending(n, i)' = Pending(n, i)
           /\ \A k \in Invitation :
                 ~(Is(k, "Approved") /\ Of(k, doing[w].network, doing[w].issuer))
                 => invites'[k] = invites[k]
           /\ \A k \in Invitation : Is(k, "Revoked") => Is(k, "Revoked")'
<1>1. ASSUME NEW k \in Invitation
      PROVE  \/ invites'[k] = invites[k]
             \/ /\ Is(k, "Approved") /\ Of(k, doing[w].network, doing[w].issuer)
                /\ ~Is(k, "Pending")'
  <2>1. CASE Is(k, "Approved") /\ Of(k, doing[w].network, doing[w].issuer)
    <3>1. invites[k] \in Row
      BY <2>1 DEF IInv, TablesOK, Is
    <3>2. invites'[k] = [invites[k] EXCEPT !.status = "Revoked"]
      BY <2>1 DEF Cancel
    <3>3. invites'[k].status = "Revoked"
      BY <3>1, <3>2 DEF Row
    <3> QED BY <2>1, <3>3 DEF Is
  <2>2. CASE ~(Is(k, "Approved") /\ Of(k, doing[w].network, doing[w].issuer))
    BY <2>2 DEF Cancel
  <2> QED BY <2>1, <2>2
<1>2. ASSUME NEW n, NEW i PROVE Pending(n, i)' = Pending(n, i)
  BY <1>1 DEF Pending, PendingOf, Is
<1>3. ASSUME NEW k \in Invitation, Is(k, "Revoked") PROVE Is(k, "Revoked")'
  BY <1>1, <1>3 DEF Is
<1>4. ASSUME NEW k \in Invitation,
             ~(Is(k, "Approved") /\ Of(k, doing[w].network, doing[w].issuer))
      PROVE  invites'[k] = invites[k]
  BY <1>1, <1>4
<1> QED BY <1>2, <1>3, <1>4

----------------------------------------------------------------------------
(* Handlers that leave the tables alone, or found a network. *)

LEMMA IdleKnows ==
    ASSUME IInv, NEW w \in Worker, Done(w)
    PROVE  Knows(w)'
<1>1. doing'[w] = Idle
  BY DEF IInv, Done, Then
<1> QED BY <1>1, IdleStep DEF Knows, At, HasGrant

LEMMA Settled ==
    ASSUME Sound, UNCHANGED <<members, invites, shares, founders>>
    PROVE  Sound'
  BY DEF Sound, Single, Apart, QuotaKept, MemberInvited, OneShare, Pending,
         PendingOf, Is, Of, Usage, Partners

LEMMA QuotaStays ==
    ASSUME QuotaKept, \A n \in Network : Partners(n)' \subseteq Partners(n) /\
                                         PendingOf(n)' \subseteq PendingOf(n)
    PROVE  QuotaKept'
<1> SUFFICES ASSUME NEW n \in Network PROVE Usage(n)' <= Limit
  BY DEF QuotaKept, Limit
<1> QED BY UsageShrinks, QuotaOf

LEMMA Readers ==
    ASSUME NEW w \in Worker, SInv(w),
           \/ Create(w) \/ CountPartners(w) \/ CheckQuota(w) \/ CheckPartners(w)
           \/ FindPending(w) \/ Confirm(w) \/ Revoke(w) \/ CheckShare(w) \/ Crash(w)
    PROVE  Sound' /\ Knows(w)'
<1>0. IInv /\ Sound /\ Knows(w) /\ TablesOK
  BY DEF SInv, IInv
<1>1. UNCHANGED <<members, invites, used, shares, founders>>
  BY DEF Create, CountPartners, CheckQuota, CheckPartners, Pass, FindPending, Confirm, Revoke,
         CheckShare, Load, Crash
<1>2. Sound'
  BY <1>0, <1>1, Settled
<1> SUFFICES Knows(w)'
  BY <1>2
<1>3. /\ \A n : Partners(n)' = Partners(n) /\ PendingOf(n)' = PendingOf(n)
                /\ Usage(n)' = Usage(n)
      /\ \A k, s : Is(k, s)' = Is(k, s)
      /\ \A k, n, i : Of(k, n, i)' = Of(k, n, i)
  BY <1>1 DEF Partners, PendingOf, Usage, Is, Of
<1>4. ASSUME NEW step, Then(w, step) PROVE doing'[w] = step
  BY <1>0, <1>4 DEF IInv, Then
<1>5. CASE Create(w)
  <2>1. CASE Begin(w, Idle)
    BY <1>0, <2>1, IdleKnows DEF Begin, Done, Then
  <2>2. ASSUME NEW n \in Network \ networks, NEW i \in Issuer,
               Begin(w, [at |-> "join", network |-> n, issuer |-> i])
        PROVE  Knows(w)'
    <3>1. doing'[w].at = "join" /\ doing'[w].network = n
      BY <1>4, <2>2 DEF Begin, Then
    <3>2. Partners(n) = {} /\ PendingOf(n) = {}
      BY <1>0, <2>2 DEF TablesOK, Partners, PendingOf, Is
    <3> QED BY <1>3, <3>1, <3>2 DEF Knows, At, HasGrant
  <2> QED BY <1>5, <2>1, <2>2 DEF Create
<1>6. CASE CountPartners(w)
  <2>1. PICK n, S, p :
           /\ p = Cardinality(Partners(n))
           /\ Then(w, [at |-> "count", network |-> n, issuers |-> S, partners |-> p])
    BY <1>6 DEF CountPartners, Begin, Then
  <2>2. doing'[w] = [at |-> "count", network |-> n, issuers |-> S, partners |-> p]
    BY <1>4, <2>1
  <2>3. doing'[w].at = "count" /\ doing'[w].network = n /\ doing'[w].partners = p
    BY <2>2
  <2> QED BY <1>3, <2>1, <2>3 DEF Knows, At, HasGrant
<1>11. CASE CheckQuota(w) \/ CheckPartners(w)
  <2>1. CASE Done(w)
    BY <1>0, <2>1, IdleKnows
  <2>2. CASE ~Done(w)
    <3>1. PICK n, S : n = doing[w].network /\ S = doing[w].issuers
      OBVIOUS
    <3>2. PICK label \in {"check", "find"} :
             /\ Then(w, [at |-> label, network |-> n, issuers |-> S])
             /\ label = "find" => S \cap Partners(n) = {}
      <4>1. CASE CheckQuota(w)
        <5>1. Then(w, [at |-> "check", network |-> n, issuers |-> S])
          BY <2>2, <3>1, <4>1 DEF CheckQuota, Pass
        <5> QED BY <5>1
      <4>2. CASE CheckPartners(w)
        <5>1. /\ Then(w, [at |-> "find", network |-> n, issuers |-> S])
              /\ S \cap Partners(n) = {}
          BY <2>2, <3>1, <4>2 DEF CheckPartners, Pass
        <5> QED BY <5>1
      <4> QED BY <1>11, <4>1, <4>2
    <3>3. doing'[w] = [at |-> label, network |-> n, issuers |-> S]
      BY <1>4, <3>2
    <3>4. doing'[w].at = label /\ doing'[w].network = n /\ doing'[w].issuers = S
      BY <3>3
    <3>5. Usage(n) + Cardinality(S) <= MaxMembers
      <4>1. CASE CheckQuota(w)
        BY <1>0, <2>2, <3>1, <4>1 DEF CheckQuota, Pass, Knows, Usage
      <4>2. CASE CheckPartners(w)
        BY <1>0, <3>1, <4>2 DEF CheckPartners, Knows, At, HasGrant
      <4> QED BY <1>11, <4>1, <4>2
    <3> QED BY <1>3, <3>2, <3>4, <3>5 DEF Knows, At, HasGrant
  <2> QED BY <2>1, <2>2
<1>7. CASE FindPending(w)
  <2>1. PICK n, S : n = doing[w].network /\ S = doing[w].issuers
    OBVIOUS
  <2>2. PICK found : found = {k \in PendingOf(n) : invites[k].issuer \in S}
    OBVIOUS
  <2>3. /\ doing'[w].at = "invite" /\ doing'[w].network = n
        /\ doing'[w].issuers = S /\ doing'[w].found = found
    <3>1. doing'[w] = [at |-> "invite", network |-> n, issuers |-> S, found |-> found]
      BY <1>4, <1>7, <2>1, <2>2 DEF FindPending
    <3> QED BY <3>1
  <2>4. found = {k \in PendingOf(n)' : invites'[k].issuer \in S}
    BY <1>1, <1>3, <2>2
  <2>5. S \cap Partners(n) = {} /\ Usage(n) + Cardinality(S) <= MaxMembers
    BY <1>0, <1>7, <2>1 DEF FindPending, Knows, At, HasGrant
  <2> QED BY <1>3, <2>3, <2>4, <2>5 DEF Knows, At, HasGrant
<1>8. ASSUME NEW k \in Invitation, NEW label \in {"accept", "withdraw"},
             Is(k, "Pending"), Load(w, label, k)
      PROVE  Knows(w)'
  <2>1. /\ doing'[w].at = label /\ doing'[w].key = k
        /\ doing'[w].network = invites[k].network
        /\ doing'[w].issuer = invites[k].issuer
    <3>1. doing'[w] = [at |-> label, key |-> k, network |-> invites[k].network,
                       issuer |-> invites[k].issuer]
      BY <1>4, <1>8 DEF Load, Begin, Then
    <3> QED BY <3>1
  <2> QED BY <1>1, <1>3, <1>8, <2>1 DEF Knows, At, Of, HasGrant
<1>9. CASE CheckShare(w)
  <2>1. PICK b \in Badge, n \in networks :
           /\ <<n, Owner[b]>> \in members
           /\ ~ \E m \in Network : <<b, m>> \in shares
           /\ Begin(w, [at |-> "share", badge |-> b, network |-> n])
    BY <1>9 DEF CheckShare
  <2>2. doing'[w].at = "share" /\ doing'[w].network = n /\ doing'[w].badge = b
    BY <1>4, <2>1 DEF Begin, Then
  <2> QED BY <1>1, <2>1, <2>2 DEF Knows, At, HasGrant
<1>10. CASE Crash(w)
  BY <1>0, <1>10, IdleKnows DEF Crash
<1> QED
  BY <1>5, <1>6, <1>7, <1>8, <1>9, <1>10, <1>11 DEF Confirm, Revoke

----------------------------------------------------------------------------
(* Handlers that write. *)

LEMMA PendingOfShrinks ==
    ASSUME IInv', NEW n \in Network,
           \A i \in Issuer : Pending(n, i)' \subseteq Pending(n, i)
    PROVE  PendingOf(n)' \subseteq PendingOf(n)
<1> SUFFICES ASSUME NEW k \in PendingOf(n)' PROVE k \in PendingOf(n)
  OBVIOUS
<1>1. k \in Invitation /\ invites'[k] # None
  BY DEF PendingOf, Is
<1>2. invites'[k] \in Row
  BY <1>1 DEF IInv, TablesOK
<1>3. PICK i \in Issuer : i = invites'[k].issuer
  BY <1>2 DEF Row
<1>4. k \in Pending(n, i)'
  BY <1>3 DEF Pending
<1> QED BY <1>4 DEF Pending

LEMMA SoundJoin ==
    ASSUME NEW w \in Worker, SInv(w), Join(w)
    PROVE  Sound'
<1>0. IInv /\ Sound /\ Knows(w) /\ TablesOK
  BY DEF SInv, IInv
<1>1. PICK n0 \in Network, i0 \in Issuer :
         n0 = doing[w].network /\ i0 = doing[w].issuer
  BY <1>0, Held DEF IInv, Join, At, Idle
<1>2. /\ members' = members \cup {<<n0, i0>>} /\ founders' = founders \cup {<<n0, i0>>}
      /\ UNCHANGED <<networks, invites, used, shares>>
  BY <1>1 DEF Join
<1>3. Partners(n0) = {} /\ PendingOf(n0) = {}
  BY <1>0, <1>1 DEF Join, Knows
<1>4. \A n, i : Pending(n, i)' = Pending(n, i) /\ PendingOf(n)' = PendingOf(n)
  BY <1>2 DEF Pending, PendingOf, Is
<1>5. Single' /\ OneShare'
  BY <1>0, <1>2, <1>4 DEF Sound, Single, OneShare
<1>6. Apart'
  <2>1. \A i : Pending(n0, i) = {}
    BY <1>3 DEF Pending
  <2> QED BY <1>0, <1>2, <1>4, <2>1 DEF Sound, Apart
<1>7. MemberInvited'
  <2>1. members' \ founders' \subseteq members \ founders
    BY <1>2
  <2> QED BY <1>0, <1>2, <2>1 DEF Sound, MemberInvited, Is, Of
<1>8. ASSUME NEW n \in Network PROVE Usage(n)' <= Limit
  <2>1. CASE n = n0
    <3>1. Partners(n)' = {i0} /\ PendingOf(n)' = {}
      BY <1>2, <1>3, <1>4, <2>1 DEF Partners
    <3>2. Usage(n)' = 1
      BY <3>1, FS_Singleton, FS_EmptySet DEF Usage
    <3> QED BY <3>2, NetworksConstants DEF Limit
  <2>2. CASE n # n0
    <3>1. Partners(n)' = Partners(n)
      BY <1>2, <2>2 DEF Partners
    <3> QED BY <1>0, <1>4, <3>1, UsageShrinks, QuotaOf DEF Sound
  <2> QED BY <2>1, <2>2
<1> QED BY <1>5, <1>6, <1>7, <1>8 DEF Sound, QuotaKept, Limit

LEMMA SoundInvite ==
    ASSUME NEW w \in Worker, SInv(w), IInv', Invite(w)
    PROVE  Sound'
<1>0. IInv /\ Sound /\ Knows(w) /\ TablesOK
  BY DEF SInv, IInv
<1>1. PICK n0 \in Network, S0 \in SUBSET Issuer :
         n0 = doing[w].network /\ S0 = doing[w].issuers
  BY <1>0, Held DEF IInv, Invite, At, Idle, HasGrant
<1>2. UNCHANGED <<networks, members, shares, founders>>
  BY DEF Invite
<1>3. PICK new \in [S0 -> Invitation \ used] :
              /\ \A n \in Network, i \in Issuer :
                    Pending(n, i)' = IF n = n0 /\ i \in S0
                                     THEN {new[i]} ELSE Pending(n, i)
              /\ \A k \in Invitation : invites[k] # None /\ ~Is(k, "Pending") =>
                    invites'[k] = invites[k]
  BY <1>0, <1>1, InvitedPending
<1>4. S0 \cap Partners(n0) = {} /\ Usage(n0) + Cardinality(S0) <= MaxMembers
  BY <1>0, <1>1 DEF Invite, Knows, At, HasGrant
<1>5. \A n : Partners(n)' = Partners(n)
  BY <1>2 DEF Partners
<1>6. Single'
  BY <1>0, <1>3 DEF Sound, Single
<1>7. Apart'
  BY <1>0, <1>2, <1>3, <1>4 DEF Sound, Apart, Partners
<1>8. MemberInvited'
  BY <1>0, <1>2, <1>3 DEF Sound, MemberInvited, Is, Of
<1>9. OneShare'
  BY <1>0, <1>2 DEF Sound, OneShare
<1>10. ASSUME NEW n \in Network PROVE Usage(n)' <= Limit
  <2>1. CASE n # n0
    <3>1. PendingOf(n)' \subseteq PendingOf(n)
      BY <1>3, <2>1, PendingOfShrinks
    <3> QED BY <1>0, <1>5, <3>1, UsageShrinks, QuotaOf DEF Sound
  <2>2. CASE n = n0
    <3> DEFINE range == {new[i] : i \in S0}
    <3>1. PendingOf(n)' \in SUBSET (PendingOf(n) \cup range)
      <4> SUFFICES ASSUME NEW k \in PendingOf(n)' PROVE k \in PendingOf(n) \cup range
        OBVIOUS
      <4>1. k \in Invitation /\ invites'[k] \in Row
        BY DEF PendingOf, Is, IInv, TablesOK
      <4>2. PICK i \in Issuer : i = invites'[k].issuer
        BY <4>1 DEF Row
      <4>3. k \in Pending(n, i)'
        BY <4>2 DEF Pending
      <4> QED BY <1>3, <2>2, <4>3 DEF Pending
    <3>2. IsFiniteSet(S0) /\ new \in Surjection(S0, range)
      BY NetworksConstants, FS_Subset DEF Surjection
    <3>3. IsFiniteSet(range) /\ Cardinality(range) <= Cardinality(S0)
      BY <3>2, FS_Surjection
    <3> HIDE DEF range
    <3>4. /\ IsFiniteSet(PendingOf(n) \cup range)
          /\ Cardinality(PendingOf(n) \cup range) = Cardinality(PendingOf(n)) +
                Cardinality(range) - Cardinality(PendingOf(n) \cap range)
      BY <3>3, FiniteUsage, FS_Union
    <3>5. /\ IsFiniteSet(PendingOf(n)')
          /\ Cardinality(PendingOf(n)') <= Cardinality(PendingOf(n) \cup range)
      BY <3>1, <3>4, FS_Subset
    <3>6. IsFiniteSet(PendingOf(n) \cap range)
      <4>1. PendingOf(n) \cap range \in SUBSET range
        OBVIOUS
      <4> QED BY <3>3, <4>1, FS_Subset
    <3>7. /\ Cardinality(PendingOf(n)') \in Nat
          /\ Cardinality(range) \in Nat /\ Cardinality(S0) \in Nat
          /\ Cardinality(PendingOf(n) \cap range) \in Nat
          /\ Cardinality(PendingOf(n)) \in Nat /\ Cardinality(Partners(n)) \in Nat
      BY <3>2, <3>3, <3>5, <3>6, FiniteUsage, FS_CardinalityType
    <3>8. Usage(n)' = Cardinality(Partners(n)) + Cardinality(PendingOf(n)')
      BY <1>5 DEF Usage
    <3>9. Cardinality(Partners(n)) + Cardinality(PendingOf(n)) + Cardinality(S0)
             <= MaxMembers
      BY <1>4, <2>2 DEF Usage
    <3>10. Usage(n)' <= MaxMembers
      BY <3>3, <3>4, <3>5, <3>7, <3>8, <3>9, NetworksConstants
    <3>11. Usage(n)' \in Nat
      BY <3>7, <3>8
    <3> QED BY <3>10, <3>11, NetworksConstants DEF Limit
  <2> QED BY <2>1, <2>2
<1> QED BY <1>6, <1>7, <1>8, <1>9, <1>10 DEF Sound, QuotaKept, Limit

LEMMA SoundAnswer ==
    ASSUME NEW w \in Worker, SInv(w), IInv', Accept(w) \/ Withdraw(w)
    PROVE  Sound'
<1>0. IInv /\ Sound /\ Knows(w) /\ TablesOK /\ Single
  BY DEF SInv, IInv, Sound
<1>1. PICK s \in {"Approved", "Revoked"} :
         /\ SaveRow(w, s) /\ (s = "Approved" <=> Accept(w))
  BY DEF Accept, Withdraw, At
<1>2. PICK n0 \in Network, i0 \in Issuer : \E k0 \in Pending(n0, i0) :
              /\ n0 = doing[w].network /\ i0 = doing[w].issuer /\ k0 = doing[w].key
              /\ \A n \in Network, i \in Issuer :
                    Pending(n, i)' = IF n = n0 /\ i = i0 THEN {} ELSE Pending(n, i)
              /\ \A k \in Invitation \ {k0} : invites'[k] = invites[k]
              /\ Is(k0, s)' /\ Of(k0, n0, i0)'
  BY <1>0, <1>1, Answered DEF Accept, Withdraw
<1>3. PICK k0 \in Pending(n0, i0) :
              /\ n0 = doing[w].network /\ i0 = doing[w].issuer /\ k0 = doing[w].key
              /\ \A n \in Network, i \in Issuer :
                    Pending(n, i)' = IF n = n0 /\ i = i0 THEN {} ELSE Pending(n, i)
              /\ \A k \in Invitation \ {k0} : invites'[k] = invites[k]
              /\ Is(k0, s)' /\ Of(k0, n0, i0)'
  BY <1>2
<1>4. /\ members' = IF s = "Approved" THEN members \cup {<<n0, i0>>} ELSE members
      /\ UNCHANGED <<networks, shares, founders>>
  BY <1>1, <1>3 DEF Accept, Withdraw
<1>5. Single' /\ Apart' /\ OneShare'
  BY <1>0, <1>3, <1>4 DEF Sound, Single, Apart, OneShare
<1>6. MemberInvited'
  <2> SUFFICES ASSUME NEW m \in members' \ founders
               PROVE  \E k \in Invitation : Is(k, "Approved")' /\ Of(k, m[1], m[2])'
    BY <1>4 DEF MemberInvited
  <2>1. CASE m \in members
    <3>1. PICK k \in Invitation : Is(k, "Approved") /\ Of(k, m[1], m[2])
      BY <1>0, <2>1 DEF Sound, MemberInvited
    <3>2. k # k0
      BY <1>3, <3>1 DEF Pending, PendingOf, Is
    <3> QED BY <1>3, <3>1, <3>2 DEF Is, Of
  <2>2. CASE m \notin members
    <3>1. m = <<n0, i0>> /\ s = "Approved"
      BY <1>4, <2>2
    <3>2. k0 \in Invitation
      BY <1>3 DEF Pending, PendingOf
    <3> QED BY <1>3, <3>1, <3>2
  <2> QED BY <2>1, <2>2
<1>7. \A n \in Network : PendingOf(n)' \subseteq PendingOf(n)
  BY <1>3, PendingOfShrinks
<1>8. ASSUME NEW n \in Network PROVE Usage(n)' <= Limit
  <2>1. CASE Partners(n)' \subseteq Partners(n)
    BY <1>0, <1>7, <2>1, UsageShrinks, QuotaOf DEF Sound
  <2>2. CASE n = n0
    <3>1. PendingOf(n)' \in SUBSET (PendingOf(n) \ {k0}) /\ k0 \in PendingOf(n)
      <4>1. k0 \notin PendingOf(n)'
        BY <1>1, <1>3 DEF PendingOf, Is
      <4> QED BY <1>3, <1>7, <2>2, <4>1 DEF Pending
    <3>2. Partners(n)' \in SUBSET (Partners(n) \cup {i0})
      BY <1>4 DEF Partners
    <3>3. /\ IsFiniteSet(PendingOf(n) \ {k0})
          /\ Cardinality(PendingOf(n) \ {k0}) = Cardinality(PendingOf(n)) - 1
      BY <3>1, FiniteUsage, FS_RemoveElement
    <3>4. /\ IsFiniteSet(PendingOf(n)')
          /\ Cardinality(PendingOf(n)') <= Cardinality(PendingOf(n)) - 1
      BY <3>1, <3>3, FS_Subset
    <3>5. /\ IsFiniteSet(Partners(n) \cup {i0})
          /\ Cardinality(Partners(n) \cup {i0})
                \in {Cardinality(Partners(n)), Cardinality(Partners(n)) + 1}
      BY FiniteUsage, FS_AddElement
    <3>6. /\ IsFiniteSet(Partners(n)')
          /\ Cardinality(Partners(n)') <= Cardinality(Partners(n) \cup {i0})
      BY <3>2, <3>5, FS_Subset
    <3>7. /\ Cardinality(Partners(n)') \in Nat /\ Cardinality(PendingOf(n)') \in Nat
          /\ Cardinality(Partners(n)) \in Nat /\ Cardinality(PendingOf(n)) \in Nat
      BY <3>4, <3>6, FiniteUsage, FS_CardinalityType
    <3>8. Usage(n)' <= Usage(n)
      <4>1. Cardinality(Partners(n)') <= Cardinality(Partners(n)) + 1
        BY <3>5, <3>6, <3>7
      <4> QED BY <3>4, <3>7, <4>1 DEF Usage
    <3> QED BY <1>0, <3>8, QuotaOf DEF Sound
  <2>3. n = n0 \/ Partners(n)' \subseteq Partners(n)
    BY <1>4 DEF Partners
  <2> QED BY <2>1, <2>2, <2>3
<1> QED BY <1>5, <1>6, <1>8 DEF Sound, QuotaKept, Limit

LEMMA SoundRemove ==
    ASSUME NEW w \in Worker, SInv(w), IInv', Remove(w)
    PROVE  Sound' /\ Knows(w)'
<1>0. IInv /\ Sound
  BY DEF SInv
<1>1. PICK n0 \in networks, i0 \in Issuer :
         /\ members' = members \ {<<n0, i0>>}
         /\ founders' = founders \ {<<n0, i0>>}
         /\ Begin(w, [at |-> "cancel", network |-> n0, issuer |-> i0])
  BY DEF Remove
<1>2. UNCHANGED <<networks, invites, used, shares>>
  BY DEF Remove
<1>3. \A n, i : Pending(n, i)' = Pending(n, i) /\ PendingOf(n)' = PendingOf(n)
  BY <1>2 DEF Pending, PendingOf, Is
<1>4. Single' /\ Apart' /\ OneShare'
  BY <1>0, <1>1, <1>2, <1>3 DEF Sound, Single, Apart, OneShare
<1>5. MemberInvited'
  <2>1. members' \ founders' \subseteq members \ founders
    BY <1>1
  <2> QED BY <1>0, <1>2, <2>1 DEF Sound, MemberInvited, Is, Of
<1>6. QuotaKept'
  <2>1. \A n : Partners(n)' \subseteq Partners(n)
    BY <1>1 DEF Partners
  <2> QED BY <1>0, <1>3, <2>1, QuotaStays DEF Sound
<1>7. Knows(w)'
  <2>1. /\ doing'[w].at = "cancel" /\ doing'[w].network = n0
        /\ doing'[w].issuer = i0
    <3>1. doing'[w] = [at |-> "cancel", network |-> n0, issuer |-> i0]
      BY <1>0, <1>1 DEF Begin, IInv
    <3> QED BY <3>1
  <2> QED BY <1>1, <2>1 DEF Knows, At, HasGrant
<1> QED BY <1>4, <1>5, <1>6, <1>7 DEF Sound

LEMMA SoundCancel ==
    ASSUME NEW w \in Worker, SInv(w), Cancel(w)
    PROVE  Sound'
<1>0. IInv /\ Sound /\ Knows(w)
  BY DEF SInv
<1>1. UNCHANGED <<networks, members, used, shares, founders>>
  BY DEF Cancel
<1>2. /\ \A n, i : Pending(n, i)' = Pending(n, i)
      /\ \A k \in Invitation :
            ~(Is(k, "Approved") /\ Of(k, doing[w].network, doing[w].issuer))
            => invites'[k] = invites[k]
  BY <1>0, Cancelled
<1>3. Single' /\ Apart' /\ OneShare'
  BY <1>0, <1>1, <1>2 DEF Sound, Single, Apart, OneShare
<1>4. MemberInvited'
  <2> SUFFICES ASSUME NEW m \in members \ founders
               PROVE  \E k \in Invitation : Is(k, "Approved")' /\ Of(k, m[1], m[2])'
    BY <1>1 DEF MemberInvited
  <2>1. PICK k \in Invitation : Is(k, "Approved") /\ Of(k, m[1], m[2])
    BY <1>0 DEF Sound, MemberInvited
  <2>2. m = <<m[1], m[2]>>
    BY <1>0 DEF IInv, TablesOK
  <2>3. ~Of(k, doing[w].network, doing[w].issuer)
    BY <1>0, <2>1, <2>2 DEF Cancel, Knows, Of
  <2> QED BY <1>2, <2>1, <2>3 DEF Is, Of
<1>5. QuotaKept'
  <2>1. \A n : Partners(n)' = Partners(n)
    BY <1>1 DEF Partners
  <2>2. ASSUME NEW n, NEW k \in PendingOf(n)' PROVE k \in PendingOf(n)
    <3>1. PICK i : i = invites'[k].issuer
      OBVIOUS
    <3>2. k \in Pending(n, i)'
      BY <2>2, <3>1 DEF Pending
    <3> QED BY <1>2, <3>2 DEF Pending
  <2> QED BY <1>0, <2>1, <2>2, QuotaStays DEF Sound
<1> QED BY <1>3, <1>4, <1>5 DEF Sound

LEMMA SoundShare ==
    ASSUME NEW w \in Worker, SInv(w), Share(w)
    PROVE  Sound'
<1>0. IInv /\ Sound /\ Knows(w)
  BY DEF SInv
<1>1. UNCHANGED <<networks, members, invites, used, founders>>
  BY DEF Share
<1>2. Single' /\ Apart' /\ MemberInvited' /\ QuotaKept'
  BY <1>0, <1>1 DEF Sound, Single, Apart, QuotaKept, MemberInvited, Pending,
                    PendingOf, Is, Of, Usage, Partners
<1>3. OneShare'
  BY <1>0 DEF Sound, OneShare, Share, Knows
<1> QED BY <1>2, <1>3 DEF Sound

LEMMA Writers ==
    ASSUME NEW w \in Worker, SInv(w), IInv',
           Join(w) \/ Invite(w) \/ Accept(w) \/ Withdraw(w) \/ Remove(w)
             \/ Cancel(w) \/ Share(w)
    PROVE  Sound' /\ Knows(w)'
<1>1. CASE Remove(w)
  BY <1>1, SoundRemove
<1>2. CASE Join(w) \/ Invite(w) \/ Accept(w) \/ Withdraw(w) \/ Cancel(w) \/ Share(w)
  <2>1. Sound'
    BY <1>2, SoundJoin, SoundInvite, SoundAnswer, SoundCancel, SoundShare
  <2>2. Done(w)
    BY <1>2 DEF Join, Invite, Accept, Withdraw, Cancel, Share
  <2> QED BY <2>1, <2>2, IdleKnows DEF SInv
<1> QED BY <1>1, <1>2

----------------------------------------------------------------------------
(* The invariant. *)

LEMMA SerialInit ==
    ASSUME NEW w \in Worker, Init
    PROVE  SInv(w)
<1>1. IInv
  BY InitSound
<1>2. \A n, i : Pending(n, i) = {} /\ PendingOf(n) = {} /\ Partners(n) = {}
  BY DEF Init, Pending, PendingOf, Is, Partners
<1>3. QuotaKept
  <2>1. \A n : Usage(n) = 0
    BY <1>2, FS_EmptySet DEF Usage
  <2> QED BY <2>1, NetworksConstants DEF QuotaKept, Limit
<1>4. Sound
  BY <1>2, <1>3 DEF Init, Sound, Single, Apart, MemberInvited, OneShare
<1>5. Knows(w)
  BY IdleStep DEF Init, Knows, At, HasGrant
<1> QED BY <1>1, <1>4, <1>5 DEF SInv

LEMMA SerialNext ==
    ASSUME NEW w, Worker = {w}, SInv(w), [Next]_vars
    PROVE  SInv(w)'
<1>1. IInv'
  BY NextSound DEF SInv
<1>2. CASE Next
  BY <1>1, <1>2, Readers, Writers DEF Next, Work, SInv
<1>3. CASE UNCHANGED vars
  <2>1. Sound'
    BY <1>3, Settled DEF vars, SInv
  <2>2. Knows(w)'
    BY <1>3 DEF vars, SInv, Knows, At, Is, Of, Partners, PendingOf, Usage, HasGrant
  <2> QED BY <1>1, <2>1, <2>2 DEF SInv
<1> QED BY <1>2, <1>3

LEMMA SerialInvariance ==
    ASSUME NEW w, Worker = {w}
    PROVE  Spec => []SInv(w)
<1>1. Init => SInv(w)
  BY SerialInit
<1>2. SInv(w) /\ [Next]_vars => SInv(w)'
  BY SerialNext
<1> QED BY <1>1, <1>2, PTL DEF Spec

\* A network keeps its quota, whatever requests die half way.
THEOREM QuotaAlwaysKept ==
    ASSUME NEW w, Worker = {w}
    PROVE  Spec => []QuotaKept
<1>1. SInv(w) => QuotaKept
  BY DEF SInv, Sound
<1> QED BY <1>1, SerialInvariance, PTL

\* An issuer has at most one pending invitation to a network.
THEOREM OnePendingAlways ==
    ASSUME NEW w, Worker = {w}
    PROVE  Spec => []OnePending
<1>1. SInv(w) => OnePending
  <2> SUFFICES ASSUME SInv(w), NEW n \in Network, NEW i \in Issuer
               PROVE  Cardinality(Pending(n, i)) <= 1
    BY DEF OnePending
  <2>1. \A k, l \in Pending(n, i) : k = l
    BY DEF SInv, Sound, Single
  <2>2. CASE Pending(n, i) = {}
    BY <2>2, FS_EmptySet
  <2>3. ASSUME NEW k \in Pending(n, i) PROVE Cardinality(Pending(n, i)) <= 1
    <3>1. Pending(n, i) = {k}
      BY <2>1
    <3>2. Cardinality({k}) = 1
      BY FS_Singleton
    <3> QED BY <3>1, <3>2
  <2> QED BY <2>2, <2>3
<1> QED BY <1>1, SerialInvariance, PTL

\* A partner that did not found its network accepted an invitation that stands,
\* even if an earlier removal of the partner died half way.
THEOREM MembersAlwaysInvited ==
    ASSUME NEW w, Worker = {w}
    PROVE  Spec => []MemberInvited
<1>1. SInv(w) => MemberInvited
  BY DEF SInv, Sound
<1> QED BY <1>1, SerialInvariance, PTL

\* A badge class is shared with one network.
THEOREM OneShareAlways ==
    ASSUME NEW w, Worker = {w}
    PROVE  Spec => []OneShare
<1>1. SInv(w) => OneShare
  BY DEF SInv, Sound
<1> QED BY <1>1, SerialInvariance, PTL

\* An invitation that the network has revoked stays revoked.
THEOREM RevokedStays ==
    ASSUME NEW w, Worker = {w}
    PROVE  Spec => RevokedIsFinal
<1> DEFINE Final == \A k \in Invitation : Is(k, "Revoked") => Is(k, "Revoked")'
<1>1. ASSUME SInv(w), Next PROVE Final
  <2>1. SInv(w) /\ IInv /\ Sound /\ Knows(w) /\ w \in Worker
    BY <1>1 DEF SInv
  <2>2. CASE UNCHANGED invites
    BY <2>2 DEF Is
  <2>3. CASE Invite(w)
    <3>1. \A k \in Invitation : invites[k] # None /\ ~Is(k, "Pending") =>
             invites'[k] = invites[k]
      BY <2>1, <2>3, InvitedPending
    <3> QED BY <3>1 DEF Is
  <2>4. CASE Accept(w) \/ Withdraw(w)
    <3>1. PICK s \in {"Approved", "Revoked"} : SaveRow(w, s)
      BY <2>4 DEF Accept, Withdraw
    <3>2. PICK n0 \in Network, i0 \in Issuer : \E k0 \in Pending(n0, i0) :
              \A k \in Invitation \ {k0} : invites'[k] = invites[k]
      BY <2>1, <2>4, <3>1, Answered DEF Accept, Withdraw, Sound
    <3> QED BY <3>2 DEF Pending, PendingOf, Is
  <2>5. CASE Cancel(w)
    BY <2>1, <2>5, Cancelled
  <2>6. Work(w)
    BY <1>1 DEF Next
  <2> QED
    BY <2>2, <2>3, <2>4, <2>5, <2>6
      DEF Work, Create, Join, CountPartners, CheckQuota, CheckPartners, Pass, FindPending,
          Confirm, Revoke, Load, Remove, CheckShare, Share, Crash
<1>2. SInv(w) /\ [Next]_vars => [Final]_vars
  BY <1>1
<1> HIDE DEF Final
<1>3. Spec => [][Final]_vars
  BY <1>2, SerialInvariance, PTL DEF Spec
<1> QED BY <1>3 DEF RevokedIsFinal, Final

----------------------------------------------------------------------------
(* Refinement: every step is one of Partnership, or leaves it as it is. *)

\* What issuer i is to network n.
RelationOf(n, i) == IF <<n, i>> \in members THEN "partner"
                    ELSE IF Pending(n, i) # {} THEN "invited" ELSE "none"

AbstractStep == Promise!Next \/ UNCHANGED <<Founded, Relation, Shared>>

\* Partnership has its own copy of the operator.
LEMMA SameCardinality == \A S : Promise!Cardinality(S) = Cardinality(S)
  BY DEF Promise!Cardinality, Cardinality

LEMMA RelationMap ==
    /\ Relation \in [Network -> [Issuer -> {"partner", "invited", "none"}]]
    /\ \A n \in Network, i \in Issuer : Relation[n][i] = RelationOf(n, i)
  BY DEF Relation, RelationOf

LEMMA RelationKept ==
    ASSUME \A n \in Network, i \in Issuer : RelationOf(n, i)' = RelationOf(n, i)
    PROVE  Relation' = Relation
<1> DEFINE R(n, i) == RelationOf(n, i)
<1>1. Relation = [n \in Network |-> [i \in Issuer |-> R(n, i)]]
  BY DEF Relation, RelationOf
<1>2. Relation' = [n \in Network |-> [i \in Issuer |-> R(n, i)']]
  BY DEF Relation, RelationOf
<1> QED BY <1>1, <1>2

\* One relation changes.
LEMMA RelationBecomes ==
    ASSUME NEW n0 \in Network, NEW i0 \in Issuer, NEW r,
           \A n \in Network, i \in Issuer :
              RelationOf(n, i)' = IF n = n0 /\ i = i0 THEN r ELSE RelationOf(n, i)
    PROVE  Relation' = [Relation EXCEPT ![n0][i0] = r]
<1> DEFINE R(n, i) == RelationOf(n, i)
<1>1. Relation = [n \in Network |-> [i \in Issuer |-> R(n, i)]]
  BY DEF Relation, RelationOf
<1>2. Relation' = [n \in Network |-> [i \in Issuer |-> R(n, i)']]
  BY DEF Relation, RelationOf
<1> HIDE DEF R
<1>3. \A n \in Network, i \in Issuer :
         R(n, i)' = IF n = n0 /\ i = i0 THEN r ELSE R(n, i)
  BY DEF R
<1> QED BY <1>1, <1>2, <1>3

LEMMA FoundedMap ==
    ASSUME NEW w, Worker = {w}
    PROVE  Founded = IF At(w, "join") THEN networks \ {doing[w].network} ELSE networks
  BY DEF Founded

LEMMA FoundedMapPrimed ==
    ASSUME NEW w, Worker = {w}
    PROVE  Founded' = IF doing'[w].at = "join" THEN networks' \ {doing'[w].network}
                      ELSE networks'
  BY DEF Founded, At

\* Steps that only read, and the revocation of answered invitations.
LEMMA StepStutters ==
    ASSUME NEW w, Worker = {w}, SInv(w),
           \/ CountPartners(w) \/ CheckQuota(w) \/ CheckPartners(w) \/ FindPending(w)
           \/ Confirm(w) \/ Revoke(w) \/ CheckShare(w) \/ Cancel(w)
    PROVE  UNCHANGED <<Founded, Relation, Shared>>
<1>0. IInv /\ w \in Worker
  BY DEF SInv
<1>1. UNCHANGED <<networks, members, shares>>
  BY DEF CountPartners, CheckQuota, CheckPartners, Pass, FindPending, Confirm, Revoke, Load,
         CheckShare, Cancel
<1>2. \A n, i : Pending(n, i)' = Pending(n, i)
  <2>1. CASE Cancel(w)
    BY <1>0, <2>1, Cancelled
  <2>2. CASE UNCHANGED invites
    BY <2>2 DEF Pending, PendingOf, Is
  <2> QED BY <2>1, <2>2 DEF CountPartners, CheckQuota, CheckPartners, Pass, FindPending,
                            Confirm, Revoke, Load, CheckShare
<1>3. Relation' = Relation
  BY <1>1, <1>2, RelationKept DEF RelationOf
<1>4. Shared' = Shared
  BY <1>1 DEF Shared
<1>5. ~At(w, "join")
  BY IdleStep DEF CountPartners, CheckQuota, CheckPartners, FindPending, Confirm, Revoke,
                  Load, CheckShare, Cancel, Begin, At
<1>6. doing'[w].at # "join"
  <2>1. ASSUME NEW step, Then(w, step) PROVE doing'[w] = step
    BY <1>0, <2>1 DEF IInv, Then
  <2>2. CASE CountPartners(w)
    <3>1. PICK n, S, p :
             Then(w, [at |-> "count", network |-> n, issuers |-> S, partners |-> p])
      BY <2>2 DEF CountPartners, Begin, Then
    <3>2. doing'[w] = [at |-> "count", network |-> n, issuers |-> S, partners |-> p]
      BY <2>1, <3>1
    <3> QED BY <3>2
  <2>7. CASE CheckQuota(w) \/ CheckPartners(w)
    <3>1. CASE Done(w)
      BY <2>1, <3>1, IdleStep DEF Done
    <3>2. CASE ~Done(w)
      <4>1. PICK label \in {"check", "find"} :
               Then(w, [at |-> label, network |-> doing[w].network,
                        issuers |-> doing[w].issuers])
        BY <2>7, <3>2, Checked
      <4>2. doing'[w] = [at |-> label, network |-> doing[w].network,
                         issuers |-> doing[w].issuers]
        BY <2>1, <4>1
      <4> QED BY <4>2
    <3> QED BY <3>1, <3>2
  <2>3. CASE FindPending(w)
    <3>1. PICK n, S, f : Then(w, [at |-> "invite", network |-> n, issuers |-> S,
                                  found |-> f])
      BY <2>3 DEF FindPending
    <3>2. doing'[w] = [at |-> "invite", network |-> n, issuers |-> S, found |-> f]
      BY <2>1, <3>1
    <3> QED BY <3>2
  <2>4. CASE Confirm(w) \/ Revoke(w)
    <3>1. ASSUME NEW k, NEW label \in {"accept", "withdraw"}, Load(w, label, k)
          PROVE  doing'[w].at # "join"
      <4>1. PICK n, i : Then(w, [at |-> label, key |-> k, network |-> n, issuer |-> i])
        BY <3>1 DEF Load, Begin, Then
      <4> QED BY <2>1, <4>1
    <3> QED BY <2>4, <3>1 DEF Confirm, Revoke
  <2>5. CASE CheckShare(w)
    <3>1. PICK b, n : Then(w, [at |-> "share", badge |-> b, network |-> n])
      BY <2>5 DEF CheckShare, Begin, Then
    <3> QED BY <2>1, <3>1
  <2>6. CASE Cancel(w)
    BY <2>1, <2>6, IdleStep DEF Cancel, Done
  <2> QED BY <2>2, <2>3, <2>4, <2>5, <2>6, <2>7
<1>7. Founded' = Founded
  BY <1>1, <1>5, <1>6, FoundedMap, FoundedMapPrimed
<1> QED BY <1>3, <1>4, <1>7

\* A network is saved: it opens, unless it waits for its founder.
LEMMA StepCreate ==
    ASSUME NEW w, Worker = {w}, SInv(w), Create(w)
    PROVE  AbstractStep
<1>0. IInv /\ TablesOK /\ w \in Worker /\ UNCHANGED <<members, invites, shares>>
  BY DEF SInv, IInv, Create
<1>1. Relation' = Relation /\ Shared' = Shared
  BY <1>0, RelationKept DEF RelationOf, Pending, PendingOf, Is, Shared
<1>2. PICK n \in Network \ networks :
         /\ networks' = networks \cup {n}
         /\ \/ Begin(w, Idle)
            \/ \E i \in Issuer :
                  Begin(w, [at |-> "join", network |-> n, issuer |-> i])
  BY DEF Create
<1>3. Founded = networks
  BY <1>2, FoundedMap, IdleStep DEF Begin, At
<1>4. CASE Begin(w, Idle)
  <2>1. doing'[w] = Idle
    BY <1>0, <1>4 DEF Begin, IInv
  <2>2. Founded' = networks \cup {n}
    BY <1>2, <2>1, FoundedMapPrimed, IdleStep
  <2>3. Promise!Open(n)
    BY <1>1, <1>2, <1>3, <2>2 DEF Promise!Open
  <2> QED BY <1>2, <2>3 DEF AbstractStep, Promise!Next
<1>5. ASSUME NEW i, Begin(w, [at |-> "join", network |-> n, issuer |-> i])
      PROVE  AbstractStep
  <2>1. doing'[w].at = "join" /\ doing'[w].network = n
    <3>1. doing'[w] = [at |-> "join", network |-> n, issuer |-> i]
      BY <1>0, <1>5 DEF Begin, IInv
    <3> QED BY <3>1
  <2>2. Founded' = networks
    BY <1>2, <2>1, FoundedMapPrimed
  <2> QED BY <1>1, <1>3, <2>2 DEF AbstractStep
<1> QED BY <1>2, <1>4, <1>5

\* The founder joins.
LEMMA StepJoin ==
    ASSUME NEW w, Worker = {w}, SInv(w), Join(w)
    PROVE  AbstractStep
<1>0. IInv /\ Knows(w) /\ w \in Worker
  BY DEF SInv
<1>1. PICK n0 \in Network, i0 \in Issuer :
         n0 = doing[w].network /\ i0 = doing[w].issuer
  BY <1>0, Held DEF IInv, Join, At, Idle
<1>2. /\ members' = members \cup {<<n0, i0>>} /\ At(w, "join")
      /\ UNCHANGED <<networks, invites, used, shares>>
  BY <1>1 DEF Join
<1>3. Partners(n0) = {} /\ PendingOf(n0) = {} /\ n0 \in networks
  BY <1>0, <1>1, <1>2, IdleStep DEF Knows, IInv, Reads, At
<1>4. \A i \in Issuer : RelationOf(n0, i) = "none"
  BY <1>3 DEF RelationOf, Partners, Pending
<1>5. \A n \in Network, i \in Issuer :
         RelationOf(n, i)' = IF n = n0 /\ i = i0 THEN "partner" ELSE RelationOf(n, i)
  BY <1>2 DEF RelationOf, Pending, PendingOf, Is
<1>6. Relation' = [Relation EXCEPT ![n0][i0] = "partner"] /\ Shared' = Shared
  BY <1>2, <1>5, RelationBecomes DEF Shared
<1>7. Founded = networks \ {n0} /\ Founded' = networks
  <2>1. doing'[w].at = "idle"
    BY <1>0, IdleStep DEF Join, Done, Then, IInv
  <2> QED BY <1>1, <1>2, <2>1, FoundedMap, FoundedMapPrimed
<1>8. n0 \notin Founded /\ Founded' = Founded \cup {n0}
  BY <1>3, <1>7
<1>9. Promise!Related(n0) = {}
  BY <1>4, RelationMap DEF Promise!Related
<1>10. Promise!Found(n0, i0)
  BY <1>6, <1>8, <1>9 DEF Promise!Found, Promise!Becomes
<1> QED BY <1>10 DEF AbstractStep, Promise!Next

\* A request dies: a network that waited for its founder opens without.
LEMMA StepCrash ==
    ASSUME NEW w, Worker = {w}, SInv(w), Crash(w)
    PROVE  AbstractStep
<1>0. IInv /\ w \in Worker /\ UNCHANGED <<networks, members, invites, shares>>
  BY DEF SInv, Crash
<1>1. Relation' = Relation /\ Shared' = Shared
  BY <1>0, RelationKept DEF RelationOf, Pending, PendingOf, Is, Shared
<1>2. Founded' = networks
  <2>1. doing'[w].at = "idle"
    BY <1>0, IdleStep DEF Crash, Done, Then, IInv
  <2> QED BY <1>0, <2>1, FoundedMapPrimed
<1>3. CASE At(w, "join")
  <2>1. PICK n0 : n0 = doing[w].network
    OBVIOUS
  <2>2. n0 \in networks /\ n0 \in Network
    BY <1>0, <1>3, <2>1, IdleStep DEF IInv, TablesOK, Reads, At
  <2>3. Founded = networks \ {n0}
    BY <1>3, <2>1, FoundedMap
  <2>4. Promise!Open(n0)
    BY <1>1, <1>2, <2>2, <2>3 DEF Promise!Open
  <2> QED BY <2>2, <2>4 DEF AbstractStep, Promise!Next
<1>4. CASE ~At(w, "join")
  BY <1>1, <1>2, <1>4, FoundedMap DEF AbstractStep
<1> QED BY <1>3, <1>4

\* The other handlers are not those of a founder.
LEMMA FoundedStays ==
    ASSUME NEW w, Worker = {w}, IInv, ~At(w, "join"), doing'[w].at # "join",
           networks' = networks
    PROVE  Founded = networks /\ Founded' = networks
  BY FoundedMap, FoundedMapPrimed

\* A handler that ends with a write.
LEMMA FoundedDone ==
    ASSUME NEW w, Worker = {w}, IInv, ~At(w, "join"), Done(w), networks' = networks
    PROVE  Founded = networks /\ Founded' = networks
<1>1. doing'[w].at = "idle"
  BY IdleStep DEF Done, Then, IInv
<1> QED BY <1>1, FoundedStays

LEMMA StepInvite ==
    ASSUME NEW w, Worker = {w}, SInv(w), IInv', Invite(w)
    PROVE  AbstractStep
<1>0. IInv /\ Sound /\ Knows(w) /\ TablesOK /\ w \in Worker
  BY DEF SInv, IInv
<1>1. PICK n0 \in Network, S0 \in SUBSET Issuer :
         /\ n0 = doing[w].network /\ S0 = doing[w].issuers /\ n0 \in networks
  BY <1>0, Held, IdleStep DEF IInv, Invite, At, Reads, HasGrant
<1>2. UNCHANGED <<networks, members, shares, founders>> /\ Done(w) /\ At(w, "invite")
  BY DEF Invite
<1>3. PICK new \in [S0 -> Invitation \ used] :
         \A n \in Network, i \in Issuer :
            Pending(n, i)' = IF n = n0 /\ i \in S0 THEN {new[i]} ELSE Pending(n, i)
  BY <1>0, <1>1, InvitedPending
<1>4. S0 \cap Partners(n0) = {} /\ Usage(n0) + Cardinality(S0) <= MaxMembers
  BY <1>0, <1>1, <1>2 DEF Knows, At, HasGrant
<1>5. Founded = networks /\ Founded' = networks
  BY <1>0, <1>2, FoundedDone DEF At
<1>6. Shared' = Shared
  BY <1>2 DEF Shared
<1>7. \A i \in S0 : RelationOf(n0, i) # "partner"
  BY <1>4 DEF RelationOf, Partners
<1>8. \A n \in Network, i \in Issuer :
         RelationOf(n, i)' = IF n = n0 /\ i \in S0 THEN "invited" ELSE RelationOf(n, i)
  BY <1>2, <1>3, <1>7 DEF RelationOf
<1>9. Relation' = [Relation EXCEPT ![n0] =
                      [i \in Issuer |-> IF i \in S0 THEN "invited" ELSE @[i]]]
  <2> DEFINE R(n, i) == RelationOf(n, i)
  <2>1. Relation = [n \in Network |-> [i \in Issuer |-> R(n, i)]]
    BY DEF Relation, RelationOf
  <2>2. Relation' = [n \in Network |-> [i \in Issuer |-> R(n, i)']]
    BY DEF Relation, RelationOf
  <2>3. \A n \in Network, i \in Issuer :
           R(n, i)' = IF n = n0 /\ i \in S0 THEN "invited" ELSE R(n, i)
    BY <1>8
  <2> HIDE DEF R
  <2> QED BY <2>1, <2>2, <2>3
<1>10. Cardinality(Promise!Related(n0) \cup S0) <= MaxMembers
  <2> DEFINE P == Partners(n0)
             Q == PendingOf(n0)
             I == {i \in Issuer : Pending(n0, i) # {}}
  <2>1. Promise!Related(n0) \cup S0 \in SUBSET (P \cup I \cup S0)
    BY RelationMap DEF Promise!Related, RelationOf, Partners
  <2>2. /\ IsFiniteSet(P) /\ IsFiniteSet(Q) /\ IsFiniteSet(S0)
        /\ Cardinality(P) \in Nat /\ Cardinality(Q) \in Nat /\ Cardinality(S0) \in Nat
    <3>1. IsFiniteSet(S0)
      BY NetworksConstants, FS_Subset
    <3> QED BY <3>1, FiniteUsage, FS_CardinalityType
  <2>3. IsFiniteSet(I) /\ Cardinality(I) <= Cardinality(Q) /\ Cardinality(I) \in Nat
    <3> DEFINE f == [k \in Q |-> invites[k].issuer]
    <3>1. \A k \in Q : f[k] \in Issuer /\ k \in Pending(n0, f[k])
      BY <1>0 DEF TablesOK, PendingOf, Pending, Is, Row
    <3>2. \A k \in Q : f[k] \in I
      BY <3>1
    <3>3. \A i \in I : \E k \in Q : f[k] = i
      BY DEF Pending
    <3>4. f \in Surjection(Q, I)
      BY <3>2, <3>3 DEF Surjection
    <3> HIDE DEF f, I, Q
    <3>5. IsFiniteSet(I) /\ Cardinality(I) <= Cardinality(Q)
      BY <2>2, <3>4, FS_Surjection
    <3> QED BY <3>5, FS_CardinalityType
  <2> HIDE DEF P, Q, I
  <2>4. /\ IsFiniteSet(P \cup I)
        /\ Cardinality(P \cup I) <= Cardinality(P) + Cardinality(I)
        /\ Cardinality(P \cup I) \in Nat
    <3>1. /\ IsFiniteSet(P \cup I)
          /\ Cardinality(P \cup I) = Cardinality(P) + Cardinality(I) - Cardinality(P \cap I)
      BY <2>2, <2>3, FS_Union
    <3>2. IsFiniteSet(P \cap I)
      <4>1. P \cap I \in SUBSET P
        OBVIOUS
      <4> QED BY <2>2, <4>1, FS_Subset
    <3>3. Cardinality(P \cap I) \in Nat /\ Cardinality(P \cup I) \in Nat
      BY <3>1, <3>2, FS_CardinalityType
    <3> QED BY <2>2, <2>3, <3>1, <3>3
  <2>5. /\ IsFiniteSet(P \cup I \cup S0)
        /\ Cardinality(P \cup I \cup S0) <= Cardinality(P \cup I) + Cardinality(S0)
        /\ Cardinality(P \cup I \cup S0) \in Nat
    <3>1. /\ IsFiniteSet((P \cup I) \cup S0)
          /\ Cardinality((P \cup I) \cup S0) = Cardinality(P \cup I) + Cardinality(S0)
                - Cardinality((P \cup I) \cap S0)
      BY <2>2, <2>4, FS_Union
    <3>2. IsFiniteSet((P \cup I) \cap S0)
      <4>1. (P \cup I) \cap S0 \in SUBSET S0
        OBVIOUS
      <4> QED BY <2>2, <4>1, FS_Subset
    <3>3. Cardinality((P \cup I) \cap S0) \in Nat /\ Cardinality((P \cup I) \cup S0) \in Nat
      BY <3>1, <3>2, FS_CardinalityType
    <3> QED BY <2>2, <2>4, <3>1, <3>3
  <2>6. /\ IsFiniteSet(Promise!Related(n0) \cup S0)
        /\ Cardinality(Promise!Related(n0) \cup S0) <= Cardinality(P \cup I \cup S0)
    BY <2>1, <2>5, FS_Subset
  <2>7. Cardinality(Promise!Related(n0) \cup S0) \in Nat
    BY <2>6, FS_CardinalityType
  <2>8. Cardinality(P) + Cardinality(Q) + Cardinality(S0) <= MaxMembers
    BY <1>4 DEF Usage, P, Q
  <2> QED BY <2>2, <2>3, <2>4, <2>5, <2>6, <2>7, <2>8, NetworksConstants
<1>11. \A i \in S0 : Relation[n0][i] # "partner"
  BY <1>7, RelationMap
<1>12. Promise!Invite(n0, S0)
  <2>1. Promise!Cardinality(Promise!Related(n0) \cup S0) <= MaxMembers
    BY <1>10, SameCardinality
  <2> QED BY <1>1, <1>5, <1>6, <1>9, <2>1, <1>11 DEF Promise!Invite
<1> QED BY <1>12 DEF AbstractStep, Promise!Next

\* Answers: an invitation that stands is accepted or withdrawn.
LEMMA StepAnswer ==
    ASSUME NEW w, Worker = {w}, SInv(w), Accept(w) \/ Withdraw(w)
    PROVE  AbstractStep
<1>0. IInv /\ Sound /\ Knows(w) /\ Single /\ Apart /\ w \in Worker
  BY DEF SInv, IInv, Sound
<1>1. PICK s \in {"Approved", "Revoked"} :
         /\ SaveRow(w, s) /\ (s = "Approved" <=> Accept(w))
  BY DEF Accept, Withdraw, At
<1>2. PICK n0 \in Network, i0 \in Issuer : \E k0 \in Pending(n0, i0) :
              /\ n0 = doing[w].network /\ i0 = doing[w].issuer
              /\ \A n \in Network, i \in Issuer :
                    Pending(n, i)' = IF n = n0 /\ i = i0 THEN {} ELSE Pending(n, i)
  BY <1>0, <1>1, Answered DEF Accept, Withdraw
<1>3. /\ members' = IF s = "Approved" THEN members \cup {<<n0, i0>>} ELSE members
      /\ UNCHANGED <<networks, shares, founders>> /\ Done(w) /\ ~At(w, "join")
  BY <1>1, <1>2 DEF Accept, Withdraw, At
<1>4. Founded = networks /\ Founded' = networks
  BY <1>0, <1>3, FoundedDone
<1>5. Shared' = Shared
  BY <1>3 DEF Shared
<1>6. <<n0, i0>> \notin members /\ RelationOf(n0, i0) = "invited"
  BY <1>0, <1>2 DEF Apart, RelationOf
<1>7. CASE Accept(w)
  <2>1. \A n \in Network, i \in Issuer :
           RelationOf(n, i)' = IF n = n0 /\ i = i0 THEN "partner" ELSE RelationOf(n, i)
    BY <1>1, <1>2, <1>3, <1>7 DEF RelationOf
  <2>2. Relation' = [Relation EXCEPT ![n0][i0] = "partner"]
    BY <2>1, RelationBecomes
  <2>3. Relation[n0][i0] = "invited"
    BY <1>6, RelationMap
  <2>4. Promise!Accept(n0, i0)
    BY <1>4, <1>5, <2>2, <2>3 DEF Promise!Accept, Promise!Becomes
  <2> QED BY <2>4 DEF AbstractStep, Promise!Next
<1>8. CASE ~Accept(w)
  <2>1. \A n \in Network, i \in Issuer :
           RelationOf(n, i)' = IF n = n0 /\ i = i0 THEN "none" ELSE RelationOf(n, i)
    BY <1>1, <1>2, <1>3, <1>6, <1>8 DEF RelationOf
  <2>2. Relation' = [Relation EXCEPT ![n0][i0] = "none"]
    BY <2>1, RelationBecomes
  <2>3. Relation[n0][i0] = "invited"
    BY <1>6, RelationMap
  <2>4. Promise!Withdraw(n0, i0)
    BY <1>4, <1>5, <2>2, <2>3 DEF Promise!Withdraw, Promise!Becomes
  <2> QED BY <2>4 DEF AbstractStep, Promise!Next
<1> QED BY <1>7, <1>8

LEMMA StepRemove ==
    ASSUME NEW w, Worker = {w}, SInv(w), Remove(w)
    PROVE  AbstractStep
<1>0. IInv /\ TablesOK /\ Sound /\ Apart /\ w \in Worker
  BY DEF SInv, IInv, Sound
<1>1. PICK n0 \in networks, i0 \in Issuer :
         /\ <<n0, i0>> \in members
         /\ members' = members \ {<<n0, i0>>}
         /\ Begin(w, [at |-> "cancel", network |-> n0, issuer |-> i0])
  BY DEF Remove
<1>2. UNCHANGED <<networks, invites, used, shares>>
  BY DEF Remove
<1>3. n0 \in Network
  BY <1>0 DEF TablesOK
<1>4. doing'[w].at = "cancel" /\ ~At(w, "join")
  <2>1. doing'[w] = [at |-> "cancel", network |-> n0, issuer |-> i0]
    BY <1>0, <1>1 DEF Begin, IInv
  <2>2. doing'[w].at = "cancel"
    BY <2>1
  <2> QED BY <1>1, <2>2, IdleStep DEF Begin, At
<1>5. Founded = networks /\ Founded' = networks
  BY <1>0, <1>2, <1>4, FoundedStays
<1>6. Shared' = Shared
  BY <1>2 DEF Shared
<1>7. Pending(n0, i0) = {} /\ RelationOf(n0, i0) = "partner"
  BY <1>0, <1>1, <1>3 DEF Apart, RelationOf
<1>8. \A n, i : Pending(n, i)' = Pending(n, i)
  BY <1>2 DEF Pending, PendingOf, Is
<1>9. \A n \in Network, i \in Issuer :
         RelationOf(n, i)' = IF n = n0 /\ i = i0 THEN "none" ELSE RelationOf(n, i)
  BY <1>1, <1>7, <1>8 DEF RelationOf
<1>10. Promise!Part(n0, i0)
  <2>1. Relation' = [Relation EXCEPT ![n0][i0] = "none"]
    BY <1>3, <1>9, RelationBecomes
  <2>2. Relation[n0][i0] = "partner"
    BY <1>3, <1>7, RelationMap
  <2> QED BY <1>5, <1>6, <2>1, <2>2 DEF Promise!Part, Promise!Becomes
<1> QED BY <1>3, <1>10 DEF AbstractStep, Promise!Next

LEMMA StepShare ==
    ASSUME NEW w, Worker = {w}, SInv(w), Share(w)
    PROVE  AbstractStep
<1>0. IInv /\ Knows(w) /\ w \in Worker
  BY DEF SInv
<1>1. PICK n0 \in Network, b0 \in Badge : n0 = doing[w].network /\ b0 = doing[w].badge
  BY <1>0, Held DEF IInv, Share, At, Idle
<1>2. /\ shares' = shares \cup {<<b0, n0>>} /\ Done(w) /\ ~At(w, "join")
      /\ UNCHANGED <<networks, members, invites, used, founders>>
  BY <1>1 DEF Share, At
<1>3. <<n0, Owner[b0]>> \in members /\ ~ \E m \in Network : <<b0, m>> \in shares
  BY <1>0, <1>1 DEF Knows, Share
<1>4. Founded = networks /\ Founded' = networks
  BY <1>0, <1>2, FoundedDone
<1>5. Relation' = Relation
  BY <1>2, RelationKept DEF RelationOf, Pending, PendingOf, Is
<1>6. Relation[n0][Owner[b0]] = "partner"
  <2>1. Owner[b0] \in Issuer
    BY NetworksConstants
  <2> QED BY <1>3, <2>1, RelationMap DEF RelationOf
<1>7. Shared[b0] = {} /\ Shared' = [Shared EXCEPT ![b0] = {n0}]
  BY <1>2, <1>3 DEF Shared
<1>8. Promise!Share(b0, n0)
  BY <1>4, <1>5, <1>6, <1>7 DEF Promise!Share
<1> QED BY <1>8 DEF AbstractStep, Promise!Next

\* Requests that come one after the other, some of which die half way, do what
\* Partnership promises.
THEOREM NetworksImplementPartnership ==
    ASSUME NEW w, Worker = {w}
    PROVE  Spec => ImplementsPartnership
<1>1. Init => Promise!Init
  <2> SUFFICES ASSUME Init PROVE Promise!Init
    OBVIOUS
  <2>1. Founded = {} /\ Shared = [b \in Badge |-> {}]
    BY DEF Init, Founded, Shared
  <2>2. Relation = [n \in Network |-> [i \in Issuer |-> "none"]]
    BY DEF Init, Relation, Pending, PendingOf, Is
  <2> QED BY <2>1, <2>2 DEF Promise!Init
<1>2. SInv(w) /\ [Next]_vars => AbstractStep
  <2> SUFFICES ASSUME SInv(w), [Next]_vars PROVE AbstractStep
    OBVIOUS
  <2>1. IInv'
    BY NextSound DEF SInv
  <2>2. CASE Work(w)
    BY <2>1, <2>2, StepStutters, StepCreate, StepJoin, StepCrash, StepInvite,
       StepAnswer, StepRemove, StepShare DEF Work, AbstractStep
  <2>3. CASE UNCHANGED vars
    BY <2>3 DEF vars, AbstractStep, Founded, Relation, Shared, At, Pending,
                PendingOf, Is
  <2> QED BY <2>2, <2>3 DEF Next
<1>3. AbstractStep => [Promise!Next]_(Promise!vars)
  BY DEF AbstractStep, Promise!vars
<1>4. Spec => Promise!Spec
  BY <1>1, <1>2, <1>3, SerialInvariance, PTL DEF Spec, Promise!Spec
<1> QED BY <1>4 DEF ImplementsPartnership

=============================================================================
