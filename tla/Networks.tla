------------------------------ MODULE Networks ------------------------------
(***************************************************************************)
(* Networks of issuers: they are created, invite issuers up to a quota,     *)
(* part with them, and issuers share badge classes with them.  Requests are *)
(* handled by threads, Worker; a handler reads and checks first and writes  *)
(* later, and other handlers run in between.                                *)
(***************************************************************************)
EXTENDS Integers, FiniteSets

CONSTANTS
    Network, Issuer, Badge,
    Owner,          \* the issuer of a badge class
    Invitation,     \* bound: the keys that NetworkInvite rows can have
    Worker,         \* request threads
    MaxMembers,     \* the quota NETWORK_MEMBERSHIPS of every network
    None            \* no row

Row == [network : Network, issuer : Issuer,
        status : {"Pending", "Approved", "Revoked"}]

ASSUME NetworksConstants ==
    /\ IsFiniteSet(Issuer) /\ IsFiniteSet(Invitation)
    /\ IsFiniteSet(Worker) /\ Worker # {}
    /\ MaxMembers \in Nat
    /\ Owner \in [Badge -> Issuer]
    /\ None \notin Row

VARIABLES
    networks,   \* the networks that exist
    members,    \* NetworkMembership rows <<network, issuer>>
    invites,    \* NetworkInvite rows by key
    used,       \* the keys that have been given to a row
    shares,     \* BadgeClassNetworkShare rows <<badge, network>>
    doing,      \* the next statement of a worker, and what it has read
    founders    \* history: members that joined when their network was created

vars == <<networks, members, invites, used, shares, doing, founders>>

Idle == [at |-> "idle"]

Step == {Idle}
    \cup [at : {"join", "cancel"}, network : Network, issuer : Issuer]
    \cup [at : {"count"}, network : Network, issuers : SUBSET Issuer, partners : Nat]
    \cup [at : {"check", "find"}, network : Network, issuers : SUBSET Issuer]
    \cup [at : {"invite"}, network : Network, issuers : SUBSET Issuer,
          found : SUBSET Invitation]
    \cup [at : {"accept", "withdraw"}, key : Invitation, network : Network,
          issuer : Issuer]
    \cup [at : {"share"}, badge : Badge, network : Network]

Is(k, status) == invites[k] # None /\ invites[k].status = status
Of(k, n, i) == invites[k].network = n /\ invites[k].issuer = i

Partners(n) == {i \in Issuer : <<n, i>> \in members}

\* The pending invitations of network n, and those of issuer i among them.
PendingOf(n) == {k \in Invitation : Is(k, "Pending") /\ invites[k].network = n}
Pending(n, i) == {k \in PendingOf(n) : invites[k].issuer = i}

Begin(w, step) == doing[w] = Idle /\ doing' = [doing EXCEPT ![w] = step]
At(w, label) == doing[w].at = label
Then(w, step) == doing' = [doing EXCEPT ![w] = step]
Done(w) == Then(w, Idle)

Init == /\ networks = {}
        /\ members = {}
        /\ invites = [k \in Invitation |-> None]
        /\ used = {}
        /\ shares = {}
        /\ doing = [w \in Worker |-> Idle]
        /\ founders = {}

----------------------------------------------------------------------------
(* NetworkSerializerV1.create: the network is saved, then its parent issuer, *)
(* if the request names one, becomes a member.                               *)

\* Mutant: the parent joins a network that is never saved.
CreateUnsaved(w) == \E n \in Network \ networks :
    /\ \E i \in Issuer : Begin(w, [at |-> "join", network |-> n, issuer |-> i])
    /\ UNCHANGED <<networks, members, invites, used, shares, founders>>

Create(w) == \E n \in Network \ networks :
    /\ networks' = networks \cup {n}
    /\ \/ Begin(w, Idle)
       \/ \E i \in Issuer : Begin(w, [at |-> "join", network |-> n, issuer |-> i])
    /\ UNCHANGED <<members, invites, used, shares, founders>>

Join(w) ==
    /\ At(w, "join")
    /\ LET m == <<doing[w].network, doing[w].issuer>>
       IN /\ members' = members \cup {m}
          /\ founders' = founders \cup {m}
    /\ Done(w)
    /\ UNCHANGED <<networks, invites, used, shares>>

----------------------------------------------------------------------------
(* NetworkInvitationList.post invites several issuers at once.               *)

\* get_quota_usage('NETWORK_MEMBERSHIPS') counts the partners ...
CountPartners(w) == \E n \in networks, S \in (SUBSET Issuer) \ {{}} :
    /\ Begin(w, [at |-> "count", network |-> n, issuers |-> S,
                 partners |-> Cardinality(Partners(n))])
    /\ UNCHANGED <<networks, members, invites, used, shares, founders>>

\* The request goes on to the next check, or is refused.
Pass(w, holds, label) ==
    /\ IF holds
       THEN Then(w, [at |-> label, network |-> doing[w].network,
                     issuers |-> doing[w].issuers])
       ELSE Done(w)
    /\ UNCHANGED <<networks, members, invites, used, shares, founders>>

\* Mutant: the usage leaves out pending invitations.
InviteUncounted(w) ==
    /\ At(w, "count")
    /\ Pass(w, doing[w].partners + Cardinality(doing[w].issuers) <= MaxMembers,
            "check")

\* Mutant: the quota may be exceeded by one.
InviteOneMore(w) ==
    /\ At(w, "count")
    /\ Pass(w, doing[w].partners + Cardinality(PendingOf(doing[w].network))
               + Cardinality(doing[w].issuers) <= MaxMembers + 1, "check")

\* ... and then, in a statement of its own, the pending invitations.  The quota
\* has to have room for all the issuers.
CheckQuota(w) ==
    /\ At(w, "count")
    /\ Pass(w, doing[w].partners + Cardinality(PendingOf(doing[w].network))
               + Cardinality(doing[w].issuers) <= MaxMembers, "check")

\* Mutant: partners may be invited again.
InvitePartners(w) == At(w, "check") /\ Pass(w, TRUE, "find")

\* None of them is a partner yet.
CheckPartners(w) ==
    /\ At(w, "check")
    /\ Pass(w, doing[w].issuers \cap Partners(doing[w].network) = {}, "find")

\* Mutant: pending invitations of the issuers are not looked for.
NothingFound(w) ==
    /\ At(w, "find")
    /\ Then(w, [at |-> "invite", network |-> doing[w].network,
                issuers |-> doing[w].issuers, found |-> {}])
    /\ UNCHANGED <<networks, members, invites, used, shares, founders>>

\* The transaction begins: it finds the pending invitations to replace.
FindPending(w) ==
    /\ At(w, "find")
    /\ Then(w, [at |-> "invite", network |-> doing[w].network,
                issuers |-> doing[w].issuers,
                found |-> {k \in PendingOf(doing[w].network) :
                              invites[k].issuer \in doing[w].issuers}])
    /\ UNCHANGED <<networks, members, invites, used, shares, founders>>

\* It commits: those that are still pending are deleted, and every issuer gets
\* a new one.
Invite(w) ==
    /\ At(w, "invite")
    /\ \E new \in [doing[w].issuers -> Invitation \ used] :
        /\ \A i, j \in doing[w].issuers : i # j => new[i] # new[j]
        /\ used' = used \cup {new[i] : i \in doing[w].issuers}
        /\ invites' = [k \in Invitation |->
              IF \E i \in doing[w].issuers : k = new[i]
              THEN [network |-> doing[w].network,
                    issuer |-> CHOOSE i \in doing[w].issuers : k = new[i],
                    status |-> "Pending"]
              ELSE IF k \in doing[w].found /\ Is(k, "Pending") THEN None
              ELSE invites[k]]
    /\ Done(w)
    /\ UNCHANGED <<networks, members, shares, founders>>

----------------------------------------------------------------------------
(* Answers to an invitation: NetworkInvitationConfirm.put by the issuer,     *)
(* NetworkInvitation.delete by the network.                                  *)

Load(w, label, k) ==
    /\ Begin(w, [at |-> label, key |-> k, network |-> invites[k].network,
                 issuer |-> invites[k].issuer])
    /\ UNCHANGED <<networks, members, invites, used, shares, founders>>

\* save() writes the whole row, and inserts it again if it is gone.
SaveRow(w, status) ==
    invites' = [invites EXCEPT ![doing[w].key] =
        [network |-> doing[w].network, issuer |-> doing[w].issuer,
         status |-> status]]

\* Mutant: only an approved invitation is refused.
ConfirmAnswered(w) == \E k \in Invitation :
    invites[k] # None /\ ~Is(k, "Approved") /\ Load(w, "accept", k)

Confirm(w) == \E k \in Invitation : Is(k, "Pending") /\ Load(w, "accept", k)

\* Mutant: the invitation is not saved.
JoinOnly(w) ==
    /\ At(w, "accept")
    /\ members' = members \cup {<<doing[w].network, doing[w].issuer>>}
    /\ Done(w)
    /\ UNCHANGED <<networks, invites, used, shares, founders>>

\* One transaction: the answer, and the membership if there is none.
Accept(w) ==
    /\ At(w, "accept")
    /\ SaveRow(w, "Approved")
    /\ members' = members \cup {<<doing[w].network, doing[w].issuer>>}
    /\ Done(w)
    /\ UNCHANGED <<networks, used, shares, founders>>

Revoke(w) == \E k \in Invitation : Is(k, "Pending") /\ Load(w, "withdraw", k)

Withdraw(w) ==
    /\ At(w, "withdraw")
    /\ SaveRow(w, "Revoked")
    /\ Done(w)
    /\ UNCHANGED <<networks, members, used, shares, founders>>

----------------------------------------------------------------------------
(* NetworkIssuerDetail.delete: two statements, no transaction. *)

Remove(w) == \E n \in networks, i \in Issuer :
    /\ <<n, i>> \in members
    /\ members' = members \ {<<n, i>>}
    /\ founders' = founders \ {<<n, i>>}
    /\ Begin(w, [at |-> "cancel", network |-> n, issuer |-> i])
    /\ UNCHANGED <<networks, invites, used, shares>>

\* Mutant: they become pending again.
CancelReopened(w) ==
    /\ At(w, "cancel")
    /\ invites' = [k \in Invitation |->
          IF Is(k, "Approved") /\ Of(k, doing[w].network, doing[w].issuer)
          THEN [invites[k] EXCEPT !.status = "Pending"] ELSE invites[k]]
    /\ Done(w)
    /\ UNCHANGED <<networks, members, used, shares, founders>>

\* The invitations that the partner had accepted are revoked.
Cancel(w) ==
    /\ At(w, "cancel")
    /\ invites' = [k \in Invitation |->
          IF Is(k, "Approved") /\ Of(k, doing[w].network, doing[w].issuer)
          THEN [invites[k] EXCEPT !.status = "Revoked"] ELSE invites[k]]
    /\ Done(w)
    /\ UNCHANGED <<networks, members, used, shares, founders>>

----------------------------------------------------------------------------
(* BadgeClassNetworkShareView.post *)

\* Mutant: shares with other networks are not looked for.
CheckShareOnce(w) == \E b \in Badge, n \in networks :
    /\ <<n, Owner[b]>> \in members
    /\ <<b, n>> \notin shares
    /\ Begin(w, [at |-> "share", badge |-> b, network |-> n])
    /\ UNCHANGED <<networks, members, invites, used, shares, founders>>

CheckShare(w) == \E b \in Badge, n \in networks :
    /\ <<n, Owner[b]>> \in members
    /\ ~ \E m \in Network : <<b, m>> \in shares
    /\ Begin(w, [at |-> "share", badge |-> b, network |-> n])
    /\ UNCHANGED <<networks, members, invites, used, shares, founders>>

\* A second share with the same network violates a unique constraint, which
\* leaves everything as it is.
Share(w) ==
    /\ At(w, "share")
    /\ shares' = shares \cup {<<doing[w].badge, doing[w].network>>}
    /\ Done(w)
    /\ UNCHANGED <<networks, members, invites, used, founders>>

----------------------------------------------------------------------------

\* A request dies between two statements: the process is killed, or sending a
\* mail raises, which rolls back a transaction that has begun.
Crash(w) == /\ doing[w] # Idle
            /\ Done(w)
            /\ UNCHANGED <<networks, members, invites, used, shares, founders>>

Work(w) ==
    \/ Create(w) \/ Join(w)
    \/ CountPartners(w) \/ CheckQuota(w) \/ CheckPartners(w)
    \/ FindPending(w) \/ Invite(w)
    \/ Confirm(w) \/ Accept(w) \/ Revoke(w) \/ Withdraw(w)
    \/ Remove(w) \/ Cancel(w) \/ CheckShare(w) \/ Share(w) \/ Crash(w)

Next == \E w \in Worker : Work(w)

Spec == Init /\ [][Next]_vars

----------------------------------------------------------------------------
(* Properties. *)

NetworksTypeOK ==
    /\ networks \subseteq Network
    /\ members \subseteq networks \X Issuer
    /\ invites \in [Invitation -> Row \cup {None}]
    /\ used \subseteq Invitation
    /\ \A k \in Invitation : invites[k] # None => k \in used
    /\ shares \subseteq Badge \X networks
    /\ doing \in [Worker -> Step]
    /\ founders \subseteq members

\* Two requests that invite the same issuer can both find nothing to replace.
\* An issuer never has more pending invitations than requests can overlap.
PendingBounded == \A n \in Network, i \in Issuer :
    Cardinality(Pending(n, i)) <= Cardinality(Worker)

\* The places of network n that are taken or offered.
Usage(n) == Cardinality(Partners(n)) + Cardinality(PendingOf(n))

\* Room for the founder, who is not counted against the quota.
Limit == IF MaxMembers = 0 THEN 1 ELSE MaxMembers

\* Requests that overlap overfill a network twice: all of them can be granted the
\* same room, and while some of them are between the two counts, what the others
\* have offered can be accepted and is seen by neither.  Nothing goes further.
OvershootBounded == \A n \in Network :
    Usage(n) <= (2 * Cardinality(Worker) - 1) * Limit

----------------------------------------------------------------------------
(* Properties of requests that come one after the other, some of which die  *)
(* half way.                                                                *)

\* "raise error if creating invitations would exceed quota"
QuotaKept == \A n \in Network : Usage(n) <= Limit

\* "Revoke existing pending invitations to prevent duplicates"
OnePending == \A n \in Network, i \in Issuer : Cardinality(Pending(n, i)) <= 1

\* Every partner that did not found the network has an invitation on record
\* that it accepted and that was not revoked since, even if an earlier removal
\* of the partner died half way.
MemberInvited == \A m \in members \ founders :
    \E k \in Invitation : Is(k, "Approved") /\ Of(k, m[1], m[2])

\* "Badge is already shared with a network."
OneShare == \A b \in Badge : \A m, n \in Network :
    <<b, m>> \in shares /\ <<b, n>> \in shares => m = n

\* "Link expired": an invitation that the network has revoked is not accepted.
RevokedIsFinal == [][\A k \in Invitation :
    Is(k, "Revoked") => Is(k, "Revoked")']_vars

\* The networks that are not still waiting for their founder.
Founded == {n \in networks :
    ~ \E w \in Worker : At(w, "join") /\ doing[w].network = n}

Relation == [n \in Network |-> [i \in Issuer |->
    IF <<n, i>> \in members THEN "partner"
    ELSE IF Pending(n, i) # {} THEN "invited" ELSE "none"]]

Shared == [b \in Badge |-> {n \in Network : <<b, n>> \in shares}]

Promise == INSTANCE Partnership
    WITH founded <- Founded, relation <- Relation, shared <- Shared

\* The handlers do what Partnership promises, one at a time.
ImplementsPartnership == Promise!Spec

=============================================================================
