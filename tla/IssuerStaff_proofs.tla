------------------------ MODULE IssuerStaff_proofs ------------------------
(***************************************************************************)
(* Proofs about IssuerStaff, for any users, workers and number of requests: *)
(* type correctness with the foreign keys, and that roles are as granted.   *)
(* With a single worker, that is for requests carried out one after the     *)
(* other: an owner is kept, the contact is handed over, and the succession  *)
(* goes by rank.                                                            *)
(***************************************************************************)
EXTENDS IssuerStaff, TLAPS, SequenceTheorems

\* RolesAsGranted rests on this: whoever an issuer object names as creator,
\* in the database, in memcached or in a worker's hands, has been the creator.
CreatorsKnown ==
    /\ issuer.creator \in creators \cup {None}
    /\ cache.creator \in creators \cup {None}
    /\ \A w \in Worker : obj[w].creator \in creators \cup {None}

IInv == TypeOK /\ CreatorsKnown /\ RolesAsGranted

----------------------------------------------------------------------------
(* The steps that a worker has still to do. *)

LEMMA NoneIsNothing == None \notin User /\ None \notin Role /\ Outside \notin User
BY StaffConstants DEF Role

LEMMA StepSequences ==
    /\ Save \in Seq(Step)
    /\ NewContactEmail \in Seq(Step)
    /\ <<>> \in Seq(Step)
BY DEF Save, NewContactEmail, Step

LEMMA ContinueType ==
    ASSUME todo \in [Worker -> Seq(Step)], NEW w \in Worker, todo[w] # <<>>,
           NEW steps \in Seq(Step), Continue(w, steps)
    PROVE  todo' \in [Worker -> Seq(Step)]
<1>1. Tail(todo[w]) \in Seq(Step)
  OBVIOUS
<1>2. steps \o Tail(todo[w]) \in Seq(Step)
  BY <1>1
<1> QED
  BY <1>2 DEF Continue

LEMMA FailType ==
    ASSUME todo \in [Worker -> Seq(Step)], NEW w \in Worker, Fail(w)
    PROVE  todo' \in [Worker -> Seq(Step)]
BY StepSequences DEF Fail

LEMMA ArriveType ==
    ASSUME todo \in [Worker -> Seq(Step)], requests \in 0..MaxRequests,
           NEW w \in Worker, NEW kind, NEW steps \in Seq(Step),
           Arrive(w, kind, steps)
    PROVE  /\ todo' \in [Worker -> Seq(Step)]
           /\ requests' \in 0..MaxRequests
BY StaffConstants DEF Arrive

\* Members and the roles that they have, when a single role changes.
LEMMA RoleChange ==
    ASSUME TypeOK, NEW u \in User, NEW r \in Role \cup {None},
           role' = [role EXCEPT ![u] = r]
    PROVE  /\ role' \in [User -> Role \cup {None}]
           /\ Members' = IF r = None THEN Members \ {u} ELSE Members \cup {u}
BY DEF TypeOK, Members

LEMMA InitIInv == Init => IInv
<1> SUFFICES ASSUME Init PROVE IInv
  OBVIOUS
<1>1. PICK u \in User, v \in BOOLEAN :
        /\ role = [x \in User |-> IF x = u THEN "owner" ELSE None]
        /\ issuer = [creator |-> u, contact |-> u, verified |-> v]
        /\ granted = role
        /\ creators = {u}
        /\ target = [w \in Worker |-> u]
        /\ heir = [w \in Worker |-> u]
  BY DEF Init
<1>2. issuer \in Object /\ cache = issuer /\ obj = [w \in Worker |-> issuer]
  BY <1>1 DEF Init, Object
<1>3. role \in [User -> Role \cup {None}] /\ granted = role
  BY <1>1 DEF Role
<1>4. todo \in [Worker -> Seq(Step)]
  BY StepSequences DEF Init
<1>5. requests \in 0..MaxRequests
  BY StaffConstants DEF Init
<1>6. Members \subseteq users /\ issuer.creator \in users
  BY <1>1 DEF Init, Members
<1>7. TypeOK
  <2>1. obj \in [Worker -> Object] /\ cache \in Object
    BY <1>2
  <2>2. target \in [Worker -> User] /\ heir \in [Worker -> User]
    BY <1>1
  <2>3. given \in [Worker -> Role] /\ left \subseteq User /\ ownerLeft \in BOOLEAN
    BY DEF Init, Role
  <2>4. users \subseteq User /\ mail \subseteq User /\ creators \subseteq User
    BY <1>1 DEF Init
  <2> QED
    BY <2>1, <2>2, <2>3, <2>4, <1>2, <1>3, <1>4, <1>5, <1>6 DEF TypeOK
<1>8. CreatorsKnown
  BY <1>1, <1>2 DEF CreatorsKnown
<1>9. RolesAsGranted
  BY <1>3 DEF RolesAsGranted
<1> QED
  BY <1>7, <1>8, <1>9 DEF IInv

----------------------------------------------------------------------------
(* Requests arrive. *)

LEMMA ObjectsOK ==
    ASSUME TypeOK, CreatorsKnown, NEW w \in Worker, Got(w)
    PROVE  /\ obj' \in [Worker -> Object]
           /\ \A x \in Worker : obj'[x].creator \in creators \cup {None}
BY DEF TypeOK, CreatorsKnown, Got

LEMMA StartAddIInv ==
    ASSUME IInv, NEW w \in Worker, StartAdd(w)
    PROVE  IInv'
<1>1. PICK by \in User, u \in User, r \in Role :
        /\ Arrive(w, "add", <<"add", "saveUser">>)
        /\ Got(w)
        /\ target' = [target EXCEPT ![w] = u]
        /\ given' = [given EXCEPT ![w] = r]
        /\ UNCHANGED <<users, mail, role, issuer, cache, heir, granted, creators,
                       left, ownerLeft>>
  BY DEF StartAdd
<1>2. <<"add", "saveUser">> \in Seq(Step)
  BY DEF Step
<1>3. todo' \in [Worker -> Seq(Step)] /\ requests' \in 0..MaxRequests
  BY <1>1, <1>2, ArriveType DEF IInv, TypeOK
<1>4. /\ obj' \in [Worker -> Object]
      /\ \A x \in Worker : obj'[x].creator \in creators \cup {None}
  BY <1>1, ObjectsOK DEF IInv
<1>5. TypeOK'
  BY <1>1, <1>3, <1>4 DEF IInv, TypeOK, Members
<1>6. CreatorsKnown' /\ RolesAsGranted'
  BY <1>1, <1>4 DEF IInv, CreatorsKnown, RolesAsGranted
<1> QED
  BY <1>5, <1>6 DEF IInv

LEMMA StartModifyIInv ==
    ASSUME IInv, NEW w \in Worker, StartModify(w)
    PROVE  IInv'
<1>1. PICK by \in User, u \in User, r \in Role :
        /\ Arrive(w, "modify", <<"modify", "saveUser">>)
        /\ Got(w)
        /\ target' = [target EXCEPT ![w] = u]
        /\ given' = [given EXCEPT ![w] = r]
        /\ UNCHANGED <<users, mail, role, issuer, cache, heir, granted, creators,
                       left, ownerLeft>>
  BY DEF StartModify
<1>2. <<"modify", "saveUser">> \in Seq(Step)
  BY DEF Step
<1>3. todo' \in [Worker -> Seq(Step)] /\ requests' \in 0..MaxRequests
  BY <1>1, <1>2, ArriveType DEF IInv, TypeOK
<1>4. /\ obj' \in [Worker -> Object]
      /\ \A x \in Worker : obj'[x].creator \in creators \cup {None}
  BY <1>1, ObjectsOK DEF IInv
<1>5. TypeOK'
  BY <1>1, <1>3, <1>4 DEF IInv, TypeOK, Members
<1>6. CreatorsKnown' /\ RolesAsGranted'
  BY <1>1, <1>4 DEF IInv, CreatorsKnown, RolesAsGranted
<1> QED
  BY <1>5, <1>6 DEF IInv

LEMMA StartRemoveIInv ==
    ASSUME IInv, NEW w \in Worker, StartRemove(w)
    PROVE  IInv'
<1> DEFINE steps == <<"load">> \o Save \o <<"saveUser">>
<1>1. PICK by \in User, u \in User :
        /\ Arrive(w, "remove", steps)
        /\ Got(w)
        /\ target' = [target EXCEPT ![w] = u]
        /\ UNCHANGED <<users, mail, role, issuer, cache, heir, given, granted,
                       creators, left, ownerLeft>>
  BY DEF StartRemove
<1>2. steps \in Seq(Step)
  BY DEF Step, Save
<1> HIDE DEF steps
<1>3. todo' \in [Worker -> Seq(Step)] /\ requests' \in 0..MaxRequests
  BY <1>1, <1>2, ArriveType DEF IInv, TypeOK
<1>4. /\ obj' \in [Worker -> Object]
      /\ \A x \in Worker : obj'[x].creator \in creators \cup {None}
  BY <1>1, ObjectsOK DEF IInv
<1>5. TypeOK'
  BY <1>1, <1>3, <1>4 DEF IInv, TypeOK, Members
<1>6. CreatorsKnown' /\ RolesAsGranted'
  BY <1>1, <1>4 DEF IInv, CreatorsKnown, RolesAsGranted
<1> QED
  BY <1>5, <1>6 DEF IInv

LEMMA StartPutIInv ==
    ASSUME IInv, NEW w \in Worker, StartPut(w)
    PROVE  IInv'
<1>1. PICK o \in {cache, issuer}, v \in BOOLEAN, c \in User \cup {Outside} :
        /\ Arrive(w, "put", Save)
        /\ obj' = [obj EXCEPT ![w] = [creator |-> o.creator, contact |-> c,
                                      verified |-> o.verified \/ v]]
        /\ left' = left \ {c}
        /\ UNCHANGED <<users, mail, role, issuer, cache, target, heir, given,
                       granted, creators, ownerLeft>>
  BY DEF StartPut
<1>2. o \in Object /\ o.creator \in creators \cup {None}
  BY <1>1 DEF IInv, TypeOK, CreatorsKnown
<1> DEFINE new == [creator |-> o.creator, contact |-> c, verified |-> o.verified \/ v]
<1>3. new \in Object /\ new.creator = o.creator
  BY <1>2 DEF Object
<1> HIDE DEF new
<1>4. /\ obj' \in [Worker -> Object]
      /\ \A x \in Worker : obj'[x].creator \in creators \cup {None}
  BY <1>1, <1>2, <1>3 DEF IInv, TypeOK, CreatorsKnown, new
<1>5. todo' \in [Worker -> Seq(Step)] /\ requests' \in 0..MaxRequests
  BY <1>1, StepSequences, ArriveType DEF IInv, TypeOK
<1>6. TypeOK'
  BY <1>1, <1>4, <1>5 DEF IInv, TypeOK, Members
<1>7. CreatorsKnown' /\ RolesAsGranted'
  BY <1>1, <1>4 DEF IInv, CreatorsKnown, RolesAsGranted
<1> QED
  BY <1>6, <1>7 DEF IInv

LEMMA StartLeaveIInv ==
    ASSUME IInv, NEW w \in Worker, StartLeave(w)
    PROVE  IInv'
<1> DEFINE long == <<"emails", "cascade", "reload">> \o NewContactEmail
           short == <<"emails", "cascade">>
<1>1. long \in Seq(Step) /\ short \in Seq(Step)
  BY DEF NewContactEmail, Save, Step
<1>2. PICK u \in users :
        /\ Arrive(w, "leave", IF role[u] # None /\ issuer.contact = u /\ u \in mail
                              THEN long ELSE short)
        /\ target' = [target EXCEPT ![w] = u]
        /\ UNCHANGED <<users, mail, role, issuer, cache, obj, heir, given,
                       granted, creators, left, ownerLeft>>
  BY DEF StartLeave
<1> HIDE DEF long, short
<1>3. todo' \in [Worker -> Seq(Step)] /\ requests' \in 0..MaxRequests
  BY <1>1, <1>2, ArriveType DEF IInv, TypeOK
<1>4. TypeOK'
  BY <1>2, <1>3 DEF IInv, TypeOK, Members
<1>5. CreatorsKnown' /\ RolesAsGranted'
  BY <1>2 DEF IInv, CreatorsKnown, RolesAsGranted
<1> QED
  BY <1>4, <1>5 DEF IInv

----------------------------------------------------------------------------
(* The staff list. *)

LEMMA RoleGiven ==
    ASSUME IInv, NEW u \in users, NEW r \in Role,
           role' = [role EXCEPT ![u] = r],
           granted' = [granted EXCEPT ![u] = r],
           UNCHANGED <<users, creators>>
    PROVE  /\ role' \in [User -> Role \cup {None}]
           /\ granted' \in [User -> Role \cup {None}]
           /\ Members' \subseteq users'
           /\ RolesAsGranted'
BY NoneIsNothing DEF IInv, TypeOK, Members, RolesAsGranted

LEMMA RoleTaken ==
    ASSUME IInv, NEW u \in User,
           role' = [role EXCEPT ![u] = None],
           granted' = [granted EXCEPT ![u] = None],
           users \ {u} \subseteq users',
           UNCHANGED creators
    PROVE  /\ role' \in [User -> Role \cup {None}]
           /\ granted' \in [User -> Role \cup {None}]
           /\ Members' \subseteq users'
           /\ RolesAsGranted'
BY DEF IInv, TypeOK, Members, RolesAsGranted

\* ensure_owner: somebody who has been the creator becomes an owner.
LEMMA CreatorPromoted ==
    ASSUME IInv, NEW u \in users, u \in creators,
           role' = [role EXCEPT ![u] = "owner"],
           UNCHANGED <<users, creators, granted>>
    PROVE  /\ role' \in [User -> Role \cup {None}]
           /\ Members' \subseteq users'
           /\ RolesAsGranted'
BY NoneIsNothing DEF IInv, TypeOK, Members, RolesAsGranted, Role

LEMMA AddIInv ==
    ASSUME IInv, NEW w \in Worker, Add(w)
    PROVE  IInv'
<1> DEFINE u == target[w]
<1>1. u \in User /\ given[w] \in Role /\ obj[w] \in Object
  BY DEF IInv, TypeOK
<1>2. todo' \in [Worker -> Seq(Step)]
  BY StepSequences, ContinueType, FailType DEF Add, At, IInv, TypeOK
<1>3. CASE role[target[w]] = None /\ target[w] \in users
  <2>1. u \in users
    BY <1>1, <1>3 DEF IInv, TypeOK, Members
  <2>2. /\ role' = [role EXCEPT ![u] = given[w]]
        /\ granted' = [granted EXCEPT ![u] = given[w]]
        /\ cache' = obj[w]
        /\ UNCHANGED <<users, mail, issuer, local, requests, creators, left, ownerLeft>>
    BY <1>3 DEF Add
  <2>3. /\ role' \in [User -> Role \cup {None}]
        /\ granted' \in [User -> Role \cup {None}]
        /\ Members' \subseteq users'
        /\ RolesAsGranted'
    BY <1>1, <2>1, <2>2, RoleGiven
  <2>4. TypeOK'
    BY <1>1, <1>2, <2>2, <2>3 DEF IInv, TypeOK, local
  <2>5. CreatorsKnown'
    BY <2>2 DEF IInv, CreatorsKnown, local
  <2> QED
    BY <2>3, <2>4, <2>5 DEF IInv
<1>4. CASE ~(role[target[w]] = None /\ target[w] \in users)
  <2>1. UNCHANGED <<users, mail, role, issuer, cache, local, history>>
    BY <1>4 DEF Add, history
  <2>2. TypeOK'
    BY <1>2, <2>1 DEF IInv, TypeOK, Members, local, history
  <2>3. CreatorsKnown' /\ RolesAsGranted'
    BY <2>1 DEF IInv, CreatorsKnown, RolesAsGranted, local, history
  <2> QED
    BY <2>2, <2>3 DEF IInv
<1> QED
  BY <1>3, <1>4

LEMMA ModifyIInv ==
    ASSUME IInv, NEW w \in Worker, Modify(w)
    PROVE  IInv'
<1> DEFINE u == target[w]
<1>1. u \in User /\ given[w] \in Role /\ issuer \in Object
  BY DEF IInv, TypeOK
<1>2. todo' \in [Worker -> Seq(Step)]
  BY StepSequences, ContinueType, FailType DEF Modify, At, IInv, TypeOK
<1>3. CASE role[target[w]] # None
  <2>1. u \in users
    BY <1>1, <1>3 DEF IInv, TypeOK, Members
  <2>2. /\ role' = [role EXCEPT ![u] = given[w]]
        /\ granted' = [granted EXCEPT ![u] = given[w]]
        /\ cache' = issuer
        /\ UNCHANGED <<users, mail, issuer, local, requests, creators, left, ownerLeft>>
    BY <1>3 DEF Modify
  <2>3. /\ role' \in [User -> Role \cup {None}]
        /\ granted' \in [User -> Role \cup {None}]
        /\ Members' \subseteq users'
        /\ RolesAsGranted'
    BY <1>1, <2>1, <2>2, RoleGiven
  <2>4. TypeOK'
    BY <1>1, <1>2, <2>2, <2>3 DEF IInv, TypeOK, local
  <2>5. CreatorsKnown'
    BY <2>2 DEF IInv, CreatorsKnown, local
  <2> QED
    BY <2>3, <2>4, <2>5 DEF IInv
<1>4. CASE ~(role[target[w]] # None)
  <2>1. UNCHANGED <<users, mail, role, issuer, cache, local, history>>
    BY <1>4 DEF Modify, history
  <2>2. TypeOK'
    BY <1>2, <2>1 DEF IInv, TypeOK, Members, local, history
  <2>3. CreatorsKnown' /\ RolesAsGranted'
    BY <2>1 DEF IInv, CreatorsKnown, RolesAsGranted, local, history
  <2> QED
    BY <2>2, <2>3 DEF IInv
<1> QED
  BY <1>3, <1>4

\* Steps that change nothing but what a worker has still to do.
LEMMA OnlyTodo ==
    ASSUME IInv, todo' \in [Worker -> Seq(Step)],
           UNCHANGED <<users, mail, role, issuer, cache, local, history>>
    PROVE  IInv'
<1>1. TypeOK'
  BY DEF IInv, TypeOK, Members, local, history
<1>2. CreatorsKnown' /\ RolesAsGranted'
  BY DEF IInv, CreatorsKnown, RolesAsGranted, local, history
<1> QED
  BY <1>1, <1>2 DEF IInv

\* Steps that also change the issuer object of worker w.
LEMMA OnlyObject ==
    ASSUME IInv, todo' \in [Worker -> Seq(Step)], NEW w \in Worker,
           NEW o \in Object, o.creator \in creators \cup {None},
           obj' = [obj EXCEPT ![w] = o],
           UNCHANGED <<users, mail, role, issuer, cache, target, heir, given, history>>
    PROVE  IInv'
<1>1. /\ obj' \in [Worker -> Object]
      /\ \A x \in Worker : obj'[x].creator \in creators \cup {None}
  BY DEF IInv, TypeOK, CreatorsKnown
<1>2. TypeOK'
  BY <1>1 DEF IInv, TypeOK, Members, history
<1>3. CreatorsKnown' /\ RolesAsGranted'
  BY <1>1 DEF IInv, CreatorsKnown, RolesAsGranted, history
<1> QED
  BY <1>2, <1>3 DEF IInv

LEMMA LoadIInv ==
    ASSUME IInv, NEW w \in Worker, Load(w)
    PROVE  IInv'
<1>1. todo' \in [Worker -> Seq(Step)]
  <2>1. <<"unstaff">> \in Seq(Step)
    BY DEF Step
  <2> QED
    BY <2>1, StepSequences, ContinueType DEF Load, At, IInv, TypeOK
<1>2. issuer \in Object /\ issuer.creator \in creators \cup {None}
  BY DEF IInv, TypeOK, CreatorsKnown
<1>3. CASE role[target[w]] # None
  BY <1>1, <1>2, <1>3, OnlyObject DEF Load
<1>4. CASE role[target[w]] = None
  BY <1>1, <1>4, OnlyTodo DEF Load, local
<1> QED
  BY <1>3, <1>4

LEMMA UnstaffIInv ==
    ASSUME IInv, NEW w \in Worker, Unstaff(w)
    PROVE  IInv'
<1> DEFINE u == target[w]
<1>1. u \in User /\ obj[w] \in Object /\ obj[w].creator \in creators \cup {None}
  BY DEF IInv, TypeOK, CreatorsKnown
<1>2. todo' \in [Worker -> Seq(Step)]
  BY StepSequences, ContinueType, FailType DEF Unstaff, At, IInv, TypeOK
<1>3. CASE u \in users
  <2>1. /\ role' = [role EXCEPT ![u] = None]
        /\ granted' = [granted EXCEPT ![u] = None]
        /\ cache' = obj[w]
        /\ left' \subseteq left \cup {u}
        /\ UNCHANGED <<users, mail, issuer, local, requests, creators, ownerLeft>>
    BY <1>3 DEF Unstaff
  <2>2. /\ role' \in [User -> Role \cup {None}]
        /\ granted' \in [User -> Role \cup {None}]
        /\ Members' \subseteq users'
        /\ RolesAsGranted'
    BY <1>1, <2>1, RoleTaken
  <2>3. TypeOK'
    BY <1>1, <1>2, <2>1, <2>2 DEF IInv, TypeOK, local
  <2>4. CreatorsKnown'
    BY <1>1, <2>1 DEF IInv, CreatorsKnown, local
  <2> QED
    BY <2>2, <2>3, <2>4 DEF IInv
<1>4. CASE u \notin users
  BY <1>2, <1>4, OnlyTodo DEF Unstaff, history
<1> QED
  BY <1>3, <1>4

LEMMA SaveUserIInv ==
    ASSUME IInv, NEW w \in Worker, SaveUser(w)
    PROVE  IInv'
<1>1. todo' \in [Worker -> Seq(Step)]
  BY StepSequences, ContinueType DEF SaveUser, At, IInv, TypeOK
<1>2. /\ users' = users \cup {target[w]} /\ target[w] \in User
      /\ UNCHANGED <<mail, role, issuer, cache, local, history>>
  BY DEF SaveUser, IInv, TypeOK
<1>3. TypeOK'
  BY <1>1, <1>2 DEF IInv, TypeOK, Members, local, history
<1>4. CreatorsKnown' /\ RolesAsGranted'
  BY <1>2 DEF IInv, CreatorsKnown, RolesAsGranted, local, history
<1> QED
  BY <1>3, <1>4 DEF IInv

LEMMA SaveHeirIInv ==
    ASSUME IInv, NEW w \in Worker, SaveHeir(w)
    PROVE  IInv'
<1>1. todo' \in [Worker -> Seq(Step)]
  BY StepSequences, ContinueType DEF SaveHeir, At, IInv, TypeOK
<1>2. /\ users' = users \cup {heir[w]} /\ heir[w] \in User
      /\ UNCHANGED <<mail, role, issuer, cache, local, history>>
  BY DEF SaveHeir, IInv, TypeOK
<1>3. TypeOK'
  BY <1>1, <1>2 DEF IInv, TypeOK, Members, local, history
<1>4. CreatorsKnown' /\ RolesAsGranted'
  BY <1>2 DEF IInv, CreatorsKnown, RolesAsGranted, local, history
<1> QED
  BY <1>3, <1>4 DEF IInv

----------------------------------------------------------------------------
(* An account is deleted. *)

LEMMA DeleteEmailsIInv ==
    ASSUME IInv, NEW w \in Worker, DeleteEmails(w)
    PROVE  IInv'
<1>1. todo' \in [Worker -> Seq(Step)]
  BY StepSequences, ContinueType DEF DeleteEmails, At, IInv, TypeOK
<1>2. /\ mail' = mail \ {target[w]}
      /\ UNCHANGED <<users, role, issuer, cache, local, history>>
  BY DEF DeleteEmails
<1>3. TypeOK'
  BY <1>1, <1>2 DEF IInv, TypeOK, Members, local, history
<1>4. CreatorsKnown' /\ RolesAsGranted'
  BY <1>2 DEF IInv, CreatorsKnown, RolesAsGranted, local, history
<1> QED
  BY <1>3, <1>4 DEF IInv

LEMMA CascadeIInv ==
    ASSUME IInv, NEW w \in Worker, Cascade(w)
    PROVE  IInv'
<1> DEFINE u == target[w]
<1>1. u \in User
  BY DEF IInv, TypeOK
<1>2. todo' \in [Worker -> Seq(Step)]
  BY StepSequences, ContinueType DEF Cascade, At, IInv, TypeOK
<1>3. /\ users' = users \ {u}
      /\ role' = [role EXCEPT ![u] = None]
      /\ granted' = [granted EXCEPT ![u] = None]
      /\ issuer' = IF issuer.creator = u THEN [issuer EXCEPT !.creator = None] ELSE issuer
      /\ left' \subseteq left \cup {u}
      /\ ownerLeft' \in BOOLEAN
      /\ UNCHANGED <<mail, cache, local, requests, creators>>
  BY DEF Cascade, IInv, TypeOK
<1>4. /\ role' \in [User -> Role \cup {None}]
      /\ granted' \in [User -> Role \cup {None}]
      /\ Members' \subseteq users'
      /\ RolesAsGranted'
  BY <1>1, <1>3, RoleTaken
<1>5. /\ issuer' \in Object
      /\ issuer'.creator \in (users \ {u}) \cup {None}
      /\ issuer'.creator \in creators \cup {None}
  BY <1>3 DEF IInv, TypeOK, CreatorsKnown, Object
<1>6. TypeOK'
  BY <1>1, <1>2, <1>3, <1>4, <1>5 DEF IInv, TypeOK, local
<1>7. CreatorsKnown'
  BY <1>3, <1>5 DEF IInv, CreatorsKnown, local
<1> QED
  BY <1>4, <1>6, <1>7 DEF IInv

LEMMA ReloadIInv ==
    ASSUME IInv, NEW w \in Worker, Reload(w)
    PROVE  IInv'
<1>1. todo' \in [Worker -> Seq(Step)]
  BY StepSequences, ContinueType DEF Reload, At, IInv, TypeOK
<1>2. issuer \in Object /\ issuer.creator \in creators \cup {None}
  BY DEF IInv, TypeOK, CreatorsKnown
<1> QED
  BY <1>1, <1>2, OnlyObject DEF Reload

----------------------------------------------------------------------------
(* Issuer.save and ensure_owner. *)

LEMMA WriteIInv ==
    ASSUME IInv, NEW w \in Worker, Write(w)
    PROVE  IInv'
<1>1. todo' \in [Worker -> Seq(Step)]
  BY StepSequences, ContinueType, FailType DEF Write, At, IInv, TypeOK
<1>2. obj[w] \in Object /\ obj[w].creator \in creators \cup {None}
  BY DEF IInv, TypeOK, CreatorsKnown
<1>3. CASE obj[w].creator \in users \cup {None}
  <2>1. issuer' = obj[w] /\ cache' = obj[w] /\ UNCHANGED <<users, mail, role, local, history>>
    BY <1>3 DEF Write
  <2>2. TypeOK'
    BY <1>1, <1>2, <1>3, <2>1 DEF IInv, TypeOK, Members, local, history
  <2>3. CreatorsKnown' /\ RolesAsGranted'
    BY <1>2, <2>1 DEF IInv, CreatorsKnown, RolesAsGranted, local, history
  <2> QED
    BY <2>2, <2>3 DEF IInv
<1>4. CASE obj[w].creator \notin users \cup {None}
  BY <1>1, <1>4, OnlyTodo DEF Write
<1> QED
  BY <1>3, <1>4

LEMMA EnsureIInv ==
    ASSUME IInv, NEW w \in Worker, Ensure(w)
    PROVE  IInv'
<1>1. <<"adoptOwner">> \in Seq(Step) /\ <<"creator">> \in Seq(Step)
  BY DEF Step
<1>2. todo' \in [Worker -> Seq(Step)]
  BY <1>1, StepSequences, ContinueType, FailType DEF Ensure, At, IInv, TypeOK
<1> QED
  BY <1>2, OnlyTodo DEF Ensure

LEMMA CheckCreatorIInv ==
    ASSUME IInv, NEW w \in Worker, CheckCreator(w)
    PROVE  IInv'
<1>1. <<"promote">> \in Seq(Step) /\ <<"seekEditor">> \in Seq(Step)
  BY DEF Step
<1>2. todo' \in [Worker -> Seq(Step)]
  BY <1>1, StepSequences, ContinueType DEF CheckCreator, At, IInv, TypeOK
<1> QED
  BY <1>2, OnlyTodo DEF CheckCreator

LEMMA PromoteIInv ==
    ASSUME IInv, NEW w \in Worker, Promote(w)
    PROVE  IInv'
<1> DEFINE u == obj[w].creator
<1>1. todo' \in [Worker -> Seq(Step)]
  BY StepSequences, ContinueType, FailType DEF Promote, At, IInv, TypeOK
<1>2. issuer \in Object /\ obj[w] \in Object /\ u \in creators \cup {None}
  BY DEF IInv, TypeOK, CreatorsKnown
<1>3. CASE /\ u \in users
           /\ role' = [role EXCEPT ![u] = "owner"]
           /\ cache' = issuer
           /\ UNCHANGED <<users, mail, issuer, local, history>>
  <2>1. u \in creators
    BY <1>2, <1>3, NoneIsNothing DEF IInv, TypeOK
  <2>2. /\ role' \in [User -> Role \cup {None}]
        /\ Members' \subseteq users'
        /\ RolesAsGranted'
    BY <1>3, <2>1, CreatorPromoted DEF history
  <2>3. TypeOK'
    BY <1>1, <1>2, <1>3, <2>2 DEF IInv, TypeOK, local, history
  <2>4. CreatorsKnown'
    BY <1>2, <1>3 DEF IInv, CreatorsKnown, local, history
  <2> QED
    BY <2>2, <2>3, <2>4 DEF IInv
<1>4. CASE UNCHANGED <<users, mail, role, issuer, cache, local, history>>
  BY <1>1, <1>4, OnlyTodo
<1> QED
  BY <1>3, <1>4 DEF Promote

LEMMA AdoptIInv ==
    ASSUME IInv, NEW w \in Worker, NEW here, NEW r \in Role,
           NEW steps \in Seq(Step), NEW otherwise \in Seq(Step),
           Adopt(w, here, r, steps, otherwise)
    PROVE  IInv'
<1>1. todo' \in [Worker -> Seq(Step)]
  BY ContinueType DEF Adopt, At, IInv, TypeOK
<1>2. CASE UNCHANGED <<obj, creators>>
  BY <1>1, <1>2, OnlyTodo DEF Adopt, local, history
<1>3. CASE \E u \in Having(r) : /\ obj' = [obj EXCEPT ![w].creator = u]
                                /\ creators' = creators \cup {u}
  <2>1. PICK u \in User : /\ obj' = [obj EXCEPT ![w].creator = u]
                          /\ creators' = creators \cup {u}
    BY <1>3 DEF Having
  <2>2. UNCHANGED <<users, mail, role, issuer, cache, target, heir, given,
                    requests, granted, left, ownerLeft>>
    BY DEF Adopt
  <2>3. /\ obj' \in [Worker -> Object]
        /\ \A x \in Worker : obj'[x].creator \in creators' \cup {None}
    BY <2>1 DEF IInv, TypeOK, CreatorsKnown, Object
  <2>4. TypeOK'
    BY <1>1, <2>1, <2>2, <2>3 DEF IInv, TypeOK, Members
  <2>5. CreatorsKnown' /\ RolesAsGranted'
    BY <2>1, <2>2, <2>3 DEF IInv, CreatorsKnown, RolesAsGranted
  <2> QED
    BY <2>4, <2>5 DEF IInv
<1> QED
  BY <1>2, <1>3 DEF Adopt

LEMMA AdoptsIInv ==
    ASSUME IInv, NEW w \in Worker, AdoptOwner(w) \/ AdoptEditor(w) \/ AdoptStaff(w)
    PROVE  IInv'
<1>1. /\ <<"write">> \in Seq(Step) /\ <<"adoptEditor">> \in Seq(Step)
      /\ <<"write", "promote">> \in Seq(Step) /\ <<"adoptStaff">> \in Seq(Step)
      /\ <<"unverify", "write">> \in Seq(Step)
  BY DEF Step
<1>2. "owner" \in Role /\ "editor" \in Role /\ "staff" \in Role
  BY DEF Role
<1> QED
  BY <1>1, <1>2, AdoptIInv DEF AdoptOwner, AdoptEditor, AdoptStaff

LEMMA UnverifyIInv ==
    ASSUME IInv, NEW w \in Worker, Unverify(w)
    PROVE  IInv'
<1>1. todo' \in [Worker -> Seq(Step)]
  BY StepSequences, ContinueType DEF Unverify, At, IInv, TypeOK
<1> DEFINE o == [obj[w] EXCEPT !.verified = FALSE]
<1>2. o \in Object /\ o.creator \in creators \cup {None}
  BY DEF IInv, TypeOK, CreatorsKnown, Object
<1>3. obj' = [obj EXCEPT ![w] = o]
  BY DEF Unverify
<1> HIDE DEF o
<1> QED
  BY <1>1, <1>2, <1>3, OnlyObject DEF Unverify

LEMMA SeekIInv ==
    ASSUME IInv, NEW w \in Worker, NEW here, NEW r, NEW otherwise \in Seq(Step),
           Seek(w, here, r, otherwise)
    PROVE  IInv'
<1>1. <<"saveHeir">> \in Seq(Step)
  BY DEF Step
<1>2. todo' \in [Worker -> Seq(Step)]
  BY <1>1, ContinueType DEF Seek, At, IInv, TypeOK
<1>3. /\ heir' \in [Worker -> User]
      /\ UNCHANGED <<users, mail, role, issuer, cache, obj, target, given, history>>
  BY DEF Seek, IInv, TypeOK, Having
<1>4. TypeOK'
  BY <1>2, <1>3 DEF IInv, TypeOK, Members, history
<1>5. CreatorsKnown' /\ RolesAsGranted'
  BY <1>3 DEF IInv, CreatorsKnown, RolesAsGranted, history
<1> QED
  BY <1>4, <1>5 DEF IInv

LEMMA SeeksIInv ==
    ASSUME IInv, NEW w \in Worker, SeekEditor(w) \/ SeekStaff(w)
    PROVE  IInv'
<1>1. <<"seekStaff">> \in Seq(Step) /\ <<"create">> \in Seq(Step)
  BY DEF Step
<1> QED
  BY <1>1, SeekIInv DEF SeekEditor, SeekStaff

LEMMA CreateOwnerIInv ==
    ASSUME IInv, NEW w \in Worker, CreateOwner(w)
    PROVE  IInv'
<1> DEFINE u == obj[w].creator
<1>1. todo' \in [Worker -> Seq(Step)]
  BY StepSequences, ContinueType, FailType DEF CreateOwner, At, IInv, TypeOK
<1>2. issuer \in Object /\ obj[w] \in Object /\ u \in creators \cup {None}
  BY DEF IInv, TypeOK, CreatorsKnown
<1>3. CASE /\ u \in users
           /\ role' = [role EXCEPT ![u] = "owner"]
           /\ cache' = obj[w]
           /\ UNCHANGED <<users, mail, issuer, local, history>>
  <2>1. u \in creators
    BY <1>2, <1>3, NoneIsNothing DEF IInv, TypeOK
  <2>2. /\ role' \in [User -> Role \cup {None}]
        /\ Members' \subseteq users'
        /\ RolesAsGranted'
    BY <1>3, <2>1, CreatorPromoted DEF history
  <2>3. TypeOK'
    BY <1>1, <1>2, <1>3, <2>2 DEF IInv, TypeOK, local, history
  <2>4. CreatorsKnown'
    BY <1>2, <1>3 DEF IInv, CreatorsKnown, local, history
  <2> QED
    BY <2>2, <2>3, <2>4 DEF IInv
<1>4. CASE UNCHANGED <<users, mail, role, issuer, cache, local, history>>
  BY <1>1, <1>4, OnlyTodo
<1> QED
  BY <1>3, <1>4 DEF CreateOwner

LEMMA NewContactIInv ==
    ASSUME IInv, NEW w \in Worker, NewContact(w)
    PROVE  IInv'
<1>1. CASE Owners # {}
  <2>1. PICK u \in User : /\ obj' = [obj EXCEPT ![w].contact = u]
                          /\ Continue(w, <<>>)
    BY <1>1 DEF NewContact, Owners, Having
  <2>2. todo' \in [Worker -> Seq(Step)]
    BY <2>1, StepSequences, ContinueType DEF NewContact, At, IInv, TypeOK
  <2> DEFINE o == [obj[w] EXCEPT !.contact = u]
  <2>3. o \in Object /\ o.creator \in creators \cup {None}
    BY DEF IInv, TypeOK, CreatorsKnown, Object
  <2>4. obj' = [obj EXCEPT ![w] = o]
    BY <2>1
  <2> HIDE DEF o
  <2> QED
    BY <2>2, <2>3, <2>4, OnlyObject DEF NewContact
<1>2. CASE Owners = {}
  <2> DEFINE rest == SubSeq(todo[w], 2 + Len(Save), Len(todo[w]))
  <2>1. rest \in Seq(Step)
    <3>1. todo[w] \in Seq(Step) /\ 2 + Len(Save) = 4
      BY DEF IInv, TypeOK, Save
    <3> QED
      BY <3>1
  <2>2. todo' = [todo EXCEPT ![w] = rest] /\ UNCHANGED obj
    BY <1>2 DEF NewContact
  <2> HIDE DEF rest
  <2>3. todo' \in [Worker -> Seq(Step)]
    BY <2>1, <2>2 DEF IInv, TypeOK
  <2> QED
    BY <2>2, <2>3, OnlyTodo DEF NewContact, local
<1> QED
  BY <1>1, <1>2

----------------------------------------------------------------------------

LEMMA NextIInv == IInv /\ [Next]_vars => IInv'
<1> SUFFICES ASSUME IInv, [Next]_vars PROVE IInv'
  OBVIOUS
<1>1. CASE UNCHANGED vars
  BY <1>1, OnlyTodo DEF vars, local, history, IInv, TypeOK
<1>2. ASSUME NEW w \in Worker, Arrival(w)
      PROVE  IInv'
  BY <1>2, StartAddIInv, StartModifyIInv, StartRemoveIInv, StartPutIInv,
     StartLeaveIInv DEF Arrival
<1>3. ASSUME NEW w \in Worker, StaffList(w) \/ Account(w)
      PROVE  IInv'
  BY <1>3, AddIInv, ModifyIInv, LoadIInv, UnstaffIInv, SaveUserIInv,
     DeleteEmailsIInv, CascadeIInv, ReloadIInv DEF StaffList, Account
<1>4. ASSUME NEW w \in Worker, Succession(w)
      PROVE  IInv'
  BY <1>4, WriteIInv, EnsureIInv, CheckCreatorIInv, PromoteIInv, AdoptsIInv,
     UnverifyIInv, SeeksIInv, SaveHeirIInv, CreateOwnerIInv, NewContactIInv
  DEF Succession
<1> QED
  BY <1>1, <1>2, <1>3, <1>4 DEF Next

LEMMA Invariance == Spec => []IInv
BY InitIInv, NextIInv, PTL DEF Spec

\* Type correctness, with the foreign keys that the database enforces and that
\* deleting an account keeps.
THEOREM StaffTypeCorrect == Spec => []TypeOK
<1>1. IInv => TypeOK
  BY DEF IInv
<1> QED
  BY Invariance, <1>1, PTL

\* Whatever requests overlap: a member has the role that was last given, or is
\* an owner who has been the creator.
THEOREM RolesGranted == Spec => []RolesAsGranted
<1>1. IInv => RolesAsGranted
  BY DEF IInv
<1> QED
  BY Invariance, <1>1, PTL

----------------------------------------------------------------------------
(* Requests one after the other. *)

(* What a request has still to do, as a sequence of steps.  Every method that *)
(* calls another works through the callee's steps first, so the sequence is   *)
(* one of ensure_owner's followed by one of what callers have left.           *)

PutBack == <<"saveUser">>
NewAddress == <<"contact">> \o Save

\* What remains of a request while ensure_owner runs.
Rest == {<<>>, PutBack, Save \o PutBack, NewAddress, NewAddress \o (Save \o PutBack)}

Seeking == {"ensure", "creator", "promote", "adoptOwner", "adoptEditor",
            "adoptStaff", "seekEditor", "seekStaff", "create", "saveHeir"}

\* Where ensure_owner may be, or the save() that it makes or that calls it.
Phase == {<<h>> : h \in Seeking \cup {"write"}}
            \cup {<<"write", "promote">>, <<"unverify", "write">>, Save}

\* What follows the deletion of an account, and what a request begins with.
Leaving == {<<>>, <<"reload">> \o NewContactEmail}
Beginning == {<<"add">> \o PutBack, <<"modify">> \o PutBack,
              <<"load">> \o (Save \o PutBack), <<"unstaff">> \o (Save \o PutBack)}
                 \cup {<<"emails">> \o (<<"cascade">> \o l) : l \in Leaving}
                 \cup {<<"cascade">> \o l : l \in Leaving}
                 \cup Leaving

\* The sequences of steps that there are.
Shape(s) ==
    \/ s \in Rest \cup Beginning
    \/ \E e \in Phase, k \in Rest : s = e \o k

\* The next step, and whether a step is still to come.
Now(s) == IF s = <<>> THEN "none" ELSE Head(s)
Includes(s, x) == \E i \in DOMAIN s : s[i] = x

----------------------------------------------------------------------------
(* Sequences of steps. *)

LEMMA TailOfConcat ==
  ASSUME NEW S, NEW e \in Seq(S), NEW k \in Seq(S), e # <<>>
  PROVE /\ e \o k \in Seq(S) /\ e \o k # <<>>
        /\ Head(e \o k) = Head(e) /\ Tail(e \o k) = Tail(e) \o k
<1>1. Len(e) \in Nat /\ Len(e) > 0 /\ Len(k) \in Nat
  OBVIOUS
<1>2. /\ e \o k \in Seq(S) /\ Len(e \o k) = Len(e) + Len(k)
      /\ \A i \in 1..Len(e) + Len(k) :
           (e \o k)[i] = IF i <= Len(e) THEN e[i] ELSE k[i - Len(e)]
  BY ConcatProperties
<1>3. e \o k # <<>>
  BY <1>1, <1>2
<1>4. Head(e \o k) = Head(e)
  BY <1>1, <1>2
<1>5. /\ Tail(e \o k) \in Seq(S) /\ Len(Tail(e \o k)) = Len(e) + Len(k) - 1
      /\ \A i \in 1..Len(e) + Len(k) - 1 : Tail(e \o k)[i] = (e \o k)[i + 1]
  BY <1>1, <1>2, <1>3, HeadTailProperties
<1>6. /\ Tail(e) \in Seq(S) /\ Len(Tail(e)) = Len(e) - 1
      /\ \A i \in 1..Len(e) - 1 : Tail(e)[i] = e[i + 1]
  BY <1>1, HeadTailProperties
<1>7. /\ Tail(e) \o k \in Seq(S) /\ Len(Tail(e) \o k) = Len(e) - 1 + Len(k)
      /\ \A i \in 1..Len(e) - 1 + Len(k) : (Tail(e) \o k)[i] =
            IF i <= Len(e) - 1 THEN Tail(e)[i] ELSE k[i - (Len(e) - 1)]
  BY <1>6, ConcatProperties
<1>8. \A i \in 1..Len(Tail(e \o k)) : Tail(e \o k)[i] = (Tail(e) \o k)[i]
  <2> TAKE i \in 1..Len(Tail(e \o k))
  <2>1. i \in 1..Len(e) + Len(k) - 1 /\ i \in 1..Len(e) - 1 + Len(k)
        /\ i + 1 \in 1..Len(e) + Len(k)
    BY <1>1, <1>5
  <2>2. CASE i <= Len(e) - 1
    <3>1. Tail(e \o k)[i] = e[i + 1]
      BY <2>1, <2>2, <1>1, <1>2, <1>5
    <3>2. (Tail(e) \o k)[i] = e[i + 1]
      BY <2>1, <2>2, <1>1, <1>6, <1>7
    <3> QED
      BY <3>1, <3>2
  <2>3. CASE i > Len(e) - 1
    <3>1. Tail(e \o k)[i] = k[i + 1 - Len(e)]
      BY <2>1, <2>3, <1>1, <1>2, <1>5
    <3>2. (Tail(e) \o k)[i] = k[i - (Len(e) - 1)]
      BY <2>1, <2>3, <1>1, <1>7
    <3>3. i + 1 - Len(e) = i - (Len(e) - 1)
      BY <1>1, <2>1
    <3> QED
      BY <3>1, <3>2, <3>3
  <2> QED
    BY <2>2, <2>3, <2>1, <1>1
<1>9. Len(Tail(e \o k)) = Len(Tail(e) \o k)
  BY <1>1, <1>5, <1>7
<1>10. Tail(e \o k) = Tail(e) \o k
  BY <1>5, <1>7, <1>8, <1>9, SeqEqual
<1> QED
  BY <1>2, <1>3, <1>4, <1>10

LEMMA TailOfOne ==
  ASSUME NEW S, NEW h \in S PROVE <<h>> \in Seq(S) /\ <<h>> # <<>> /\ Head(<<h>>) = h /\ Tail(<<h>>) = <<>>
<1>1. <<h>> \in Seq(S) /\ <<h>> # <<>> /\ Len(<<h>>) = 1
  OBVIOUS
<1>2. Tail(<<h>>) \in Seq(S) /\ Len(Tail(<<h>>)) = 0
  BY <1>1, HeadTailProperties
<1> QED
  BY <1>1, <1>2, EmptySeq

LEMMA TailOfTwo ==
  ASSUME NEW S, NEW h \in S, NEW i \in S
  PROVE <<h, i>> \in Seq(S) /\ <<h, i>> # <<>> /\ Head(<<h, i>>) = h /\ Tail(<<h, i>>) = <<i>>
<1>1. <<h, i>> \in Seq(S) /\ <<h, i>> # <<>> /\ Len(<<h, i>>) = 2
  OBVIOUS
<1>2. Tail(<<h, i>>) \in Seq(S) /\ Len(Tail(<<h, i>>)) = 1 /\ Tail(<<h, i>>)[1] = i
  BY <1>1, HeadTailProperties
<1>3. <<i>> \in Seq(S) /\ Len(<<i>>) = 1 /\ <<i>>[1] = i
  OBVIOUS
<1> QED
  BY <1>1, <1>2, <1>3, SeqEqual

LEMMA TailOfThree ==
  ASSUME NEW S, NEW h \in S, NEW i \in S, NEW j \in S
  PROVE <<h, i, j>> \in Seq(S) /\ <<h, i, j>> # <<>> /\ Head(<<h, i, j>>) = h /\ Tail(<<h, i, j>>) = <<i, j>>
<1>1. <<h, i, j>> \in Seq(S) /\ <<h, i, j>> # <<>> /\ Len(<<h, i, j>>) = 3
  OBVIOUS
<1>2. Tail(<<h, i, j>>) \in Seq(S) /\ Len(Tail(<<h, i, j>>)) = 2 /\ Tail(<<h, i, j>>)[1] = i /\ Tail(<<h, i, j>>)[2] = j
  BY <1>1, HeadTailProperties
<1>3. <<i, j>> \in Seq(S) /\ Len(<<i, j>>) = 2 /\ <<i, j>>[1] = i /\ <<i, j>>[2] = j
  OBVIOUS
<1> QED
  BY <1>1, <1>2, <1>3, SeqEqual

LEMMA Names ==
  /\ "write" \in Step /\ "ensure" \in Step /\ "contact" \in Step
  /\ "saveUser" \in Step /\ "promote" \in Step /\ "unverify" \in Step
BY DEF Step

LEMMA IncludesConcat ==
  ASSUME NEW S, NEW e \in Seq(S), NEW k \in Seq(S), NEW x
  PROVE  Includes(e \o k, x) <=> Includes(e, x) \/ Includes(k, x)
<1>1. Len(e) \in Nat /\ Len(k) \in Nat
  OBVIOUS
<1>2. ASSUME Includes(e, x) PROVE Includes(e \o k, x)
  BY <1>2, <1>1 DEF Includes
<1>3. ASSUME Includes(k, x) PROVE Includes(e \o k, x)
  <2>1. PICK i \in 1..Len(k) : k[i] = x
    BY <1>3 DEF Includes
  <2>2. (e \o k)[Len(e) + i] = x /\ Len(e) + i \in DOMAIN (e \o k)
    BY <2>1, <1>1
  <2> QED
    BY <2>2 DEF Includes
<1>4. ASSUME Includes(e \o k, x) PROVE Includes(e, x) \/ Includes(k, x)
  <2>1. PICK i \in 1..(Len(e) + Len(k)) : (e \o k)[i] = x
    BY <1>4 DEF Includes
  <2>2. CASE i <= Len(e)
    BY <2>1, <2>2, <1>1 DEF Includes
  <2>3. CASE i > Len(e)
    <3>1. k[i - Len(e)] = x /\ i - Len(e) \in 1..Len(k)
      BY <2>1, <2>3, <1>1
    <3> QED
      BY <3>1 DEF Includes
  <2> QED
    BY <2>2, <2>3, <1>1
<1> QED
  BY <1>2, <1>3, <1>4

LEMMA IncludesOne ==
  ASSUME NEW h, NEW x
  PROVE  Includes(<<h>>, x) <=> h = x
<1>1. DOMAIN <<h>> = 1..1 /\ <<h>>[1] = h
  OBVIOUS
<1> HIDE DEF Includes
<1>2. \A i \in 1..1 : i = 1
  OBVIOUS
<1>3. 1 \in 1..1
  OBVIOUS
<1> QED
  BY <1>1, <1>2, <1>3, Zenon DEF Includes

LEMMA IncludesTwo ==
  ASSUME NEW h, NEW i, NEW x
  PROVE  Includes(<<h, i>>, x) <=> h = x \/ i = x
<1>1. DOMAIN <<h, i>> = 1..2 /\ <<h, i>>[1] = h /\ <<h, i>>[2] = i
  OBVIOUS
<1>2. \A j \in 1..2 : j = 1 \/ j = 2
  OBVIOUS
<1>3. 1 \in 1..2 /\ 2 \in 1..2
  OBVIOUS
<1> QED
  BY <1>1, <1>2, <1>3, Zenon DEF Includes

\* Going on after step h: what was inserted comes before what remains.
LEMMA Replaced ==
  ASSUME NEW k \in Seq(Step), NEW h \in Step
  PROVE  /\ <<h>> \o k \in Seq(Step) /\ <<h>> \o k # <<>>
         /\ Now(<<h>> \o k) = h
         /\ Tail(<<h>> \o k) = k
         /\ \A x : Includes(<<h>> \o k, x) <=> h = x \/ Includes(k, x)
<1>1. PICK e : e = <<h>>
  OBVIOUS
<1>2. e \in Seq(Step) /\ e # <<>> /\ Head(e) = h /\ Tail(e) = <<>>
  BY <1>1, TailOfOne
<1>3. /\ e \o k \in Seq(Step) /\ e \o k # <<>>
      /\ Head(e \o k) = h /\ Tail(e \o k) = <<>> \o k
  BY <1>2, TailOfConcat
<1>4. <<>> \o k = k
  BY ConcatEmptySeq
<1>5. Tail(e \o k) = k /\ Now(e \o k) = h
  BY <1>3, <1>4 DEF Now
<1>6. \A x : Includes(e, x) <=> h = x
  BY <1>1, IncludesOne, Zenon
<1>7. \A x : Includes(e \o k, x) <=> h = x \/ Includes(k, x)
  BY <1>2, <1>6, IncludesConcat
<1> QED
  BY <1>1, <1>3, <1>5, <1>7, Zenon

LEMMA Replaced2 ==
  ASSUME NEW k \in Seq(Step), NEW h \in Step, NEW i \in Step
  PROVE  /\ <<h, i>> \o k \in Seq(Step) /\ <<h, i>> \o k # <<>>
         /\ Now(<<h, i>> \o k) = h
         /\ Tail(<<h, i>> \o k) = <<i>> \o k
         /\ \A x : Includes(<<h, i>> \o k, x) <=> h = x \/ i = x \/ Includes(k, x)
<1>1. PICK e : e = <<h, i>>
  OBVIOUS
<1>2. e \in Seq(Step) /\ e # <<>> /\ Head(e) = h /\ Tail(e) = <<i>>
  BY <1>1, TailOfTwo
<1>3. /\ e \o k \in Seq(Step) /\ e \o k # <<>>
      /\ Head(e \o k) = h /\ Tail(e \o k) = Tail(e) \o k
  BY <1>2, TailOfConcat
<1>5. Tail(e \o k) = <<i>> \o k /\ Now(e \o k) = h
  <2>1. Tail(e \o k) = <<i>> \o k
    BY <1>2, <1>3, Zenon
  <2> QED
    BY <2>1, <1>3 DEF Now
<1>6. \A x : Includes(e, x) <=> h = x \/ i = x
  BY <1>1, IncludesTwo, Zenon
<1>7. \A x : Includes(e \o k, x) <=> h = x \/ i = x \/ Includes(k, x)
  <2> TAKE x
  <2>1. Includes(e \o k, x) <=> Includes(e, x) \/ Includes(k, x)
    BY <1>2, IncludesConcat
  <2> QED
    BY <2>1, <1>6, Zenon
<1> QED
  BY <1>1, <1>3, <1>5, <1>7, Zenon

\* What callers have left.
LEMMA Rests ==
  /\ Rest \subseteq Seq(Step)
  /\ \A k \in Rest : /\ Now(k) \in {"none", "saveUser", "write", "contact"}
                     /\ ~Includes(k, "promote")
  /\ Includes(PutBack, "saveUser") /\ ~Includes(PutBack, "contact")
  /\ Includes(Save \o PutBack, "saveUser") /\ ~Includes(Save \o PutBack, "contact")
  /\ ~Includes(NewAddress, "saveUser") /\ Includes(NewAddress, "contact")
  /\ Includes(NewAddress \o (Save \o PutBack), "saveUser")
  /\ Includes(NewAddress \o (Save \o PutBack), "contact")
  /\ \A x : ~Includes(<<>>, x)
  /\ Now(<<>>) = "none" /\ Now(PutBack) = "saveUser" /\ Now(Save \o PutBack) = "write"
  /\ Now(NewAddress) = "contact" /\ Now(NewAddress \o (Save \o PutBack)) = "contact"
<1>1. PutBack \in Seq(Step) /\ Now(PutBack) = "saveUser"
      /\ \A x : Includes(PutBack, x) <=> "saveUser" = x
  <2>1. \A x : Includes(PutBack, x) <=> "saveUser" = x
    BY IncludesOne, Zenon DEF PutBack
  <2>2. PutBack \in Seq(Step) /\ Now(PutBack) = "saveUser"
    BY TailOfOne, Names, Zenon DEF PutBack, Now
  <2> QED
    BY <2>1, <2>2
<1>2. /\ Save \o PutBack \in Seq(Step) /\ Now(Save \o PutBack) = "write"
      /\ \A x : Includes(Save \o PutBack, x) <=> x \in {"write", "ensure", "saveUser"}
  <2>1. PICK k : k = PutBack
    OBVIOUS
  <2>2. k \in Seq(Step) /\ \A x : Includes(k, x) <=> "saveUser" = x
    BY <1>1, <2>1
  <2>3. /\ Save \o k \in Seq(Step) /\ Now(Save \o k) = "write"
        /\ \A x : Includes(Save \o k, x) <=> "write" = x \/ "ensure" = x \/ Includes(k, x)
    BY <2>2, Replaced2, Names, Zenon DEF Save
  <2> QED
    BY <2>1, <2>2, <2>3
<1>3. Save \in Seq(Step) /\ \A x : Includes(Save, x) <=> x \in {"write", "ensure"}
  <2>1. \A x : Includes(Save, x) <=> "write" = x \/ "ensure" = x
    BY IncludesTwo, Zenon DEF Save
  <2>2. Save \in Seq(Step)
    BY TailOfTwo, Names, Zenon DEF Save
  <2> QED
    BY <2>1, <2>2
<1>4. /\ NewAddress \in Seq(Step) /\ Now(NewAddress) = "contact" /\ NewAddress # <<>>
      /\ \A x : Includes(NewAddress, x) <=> x \in {"contact", "write", "ensure"}
  <2>1. /\ NewAddress \in Seq(Step) /\ Now(NewAddress) = "contact" /\ NewAddress # <<>>
        /\ \A x : Includes(NewAddress, x) <=> "contact" = x \/ Includes(Save, x)
    BY <1>3, Names, Replaced, ZenonT(40) DEF NewAddress
  <2> QED
    BY <2>1, <1>3
<1>5. /\ NewAddress \o (Save \o PutBack) \in Seq(Step)
      /\ Now(NewAddress \o (Save \o PutBack)) = "contact"
      /\ \A x : Includes(NewAddress \o (Save \o PutBack), x)
                 <=> x \in {"contact", "write", "ensure", "saveUser"}
  <2>1. /\ NewAddress \o (Save \o PutBack) \in Seq(Step)
        /\ NewAddress \o (Save \o PutBack) # <<>>
        /\ Head(NewAddress \o (Save \o PutBack)) = Head(NewAddress)
    BY <1>2, <1>4, TailOfConcat
  <2>2. ASSUME NEW x
        PROVE  Includes(NewAddress \o (Save \o PutBack), x)
                 <=> Includes(NewAddress, x) \/ Includes(Save \o PutBack, x)
    BY <1>2, <1>4, IncludesConcat
  <2> QED
    BY <2>1, <2>2, <1>2, <1>4 DEF Now
<1>6. <<>> \in Seq(Step) /\ Now(<<>>) = "none" /\ \A x : ~Includes(<<>>, x)
  BY DEF Now, Includes
<1> QED
  BY <1>1, <1>2, <1>4, <1>5, <1>6 DEF Rest

LEMMA Phases ==
  ASSUME NEW e \in Phase
  PROVE  /\ e \in Seq(Step) /\ e # <<>>
         /\ ~Includes(e, "contact") /\ ~Includes(e, "saveUser")
         /\ \/ \E h \in Seeking : e = <<h>> /\ Head(e) = h
            \/ Head(e) = "write" /\ e \in {<<"write">>, <<"write", "promote">>, Save}
            \/ Head(e) = "unverify" /\ e = <<"unverify", "write">>
<1>1. ASSUME NEW h \in Seeking \cup {"write"}, e = <<h>>
      PROVE  e \in Seq(Step) /\ e # <<>> /\ Head(e) = h /\ \A x : Includes(e, x) <=> h = x
  <2>1. h \in Step
    BY DEF Seeking, Step
  <2>2. e \in Seq(Step) /\ e # <<>> /\ Head(e) = h
    BY <1>1, <2>1, TailOfOne, Zenon
  <2> QED
    BY <1>1, <2>2, IncludesOne, Zenon
<1>2. ASSUME NEW h \in Step, NEW i \in Step, e = <<h, i>>
      PROVE  /\ e \in Seq(Step) /\ e # <<>> /\ Head(e) = h
             /\ \A x : Includes(e, x) <=> h = x \/ i = x
  <2>1. e \in Seq(Step) /\ e # <<>> /\ Head(e) = h
    BY <1>2, TailOfTwo, Zenon
  <2> QED
    BY <1>2, <2>1, IncludesTwo, Zenon
<1>3. \A h \in Seeking \cup {"write"} : h # "contact" /\ h # "saveUser"
  BY DEF Seeking
<1>4. CASE \E h \in Seeking \cup {"write"} : e = <<h>>
  <2>1. PICK h \in Seeking \cup {"write"} : e = <<h>>
    BY <1>4
  <2>2. e \in Seq(Step) /\ e # <<>> /\ Head(e) = h /\ \A x : Includes(e, x) <=> h = x
    BY <1>1, <2>1, Zenon
  <2> QED
    BY <2>1, <2>2, <1>3, Zenon
<1>5. CASE e = <<"write", "promote">>
  <2>1. /\ e \in Seq(Step) /\ e # <<>> /\ Head(e) = "write"
        /\ \A x : Includes(e, x) <=> "write" = x \/ "promote" = x
    BY <1>2, <1>5, Names, Zenon
  <2>2. ~Includes(e, "contact") /\ ~Includes(e, "saveUser")
    BY <2>1
  <2> QED
    BY <2>1, <2>2, <1>5, Zenon
<1>6. CASE e = Save
  <2>1. /\ e \in Seq(Step) /\ e # <<>> /\ Head(e) = "write"
        /\ \A x : Includes(e, x) <=> "write" = x \/ "ensure" = x
    BY <1>2, <1>6, Names, Zenon DEF Save
  <2>2. ~Includes(e, "contact") /\ ~Includes(e, "saveUser")
    BY <2>1
  <2> QED
    BY <2>1, <2>2, <1>6, Zenon
<1>7. CASE e = <<"unverify", "write">>
  <2>1. /\ e \in Seq(Step) /\ e # <<>> /\ Head(e) = "unverify"
        /\ \A x : Includes(e, x) <=> "unverify" = x \/ "write" = x
    BY <1>2, <1>7, Names, Zenon
  <2>2. ~Includes(e, "contact") /\ ~Includes(e, "saveUser")
    BY <2>1
  <2> QED
    BY <2>1, <2>2, <1>7, Zenon
<1>8. e \in {<<h>> : h \in Seeking \cup {"write"}}
        \/ e = <<"write", "promote">> \/ e = Save \/ e = <<"unverify", "write">>
  BY DEF Phase
<1>9. (e \in {<<h>> : h \in Seeking \cup {"write"}}) => \E h \in Seeking \cup {"write"} : e = <<h>>
  OBVIOUS
<1> QED
  BY <1>4, <1>5, <1>6, <1>7, <1>8, <1>9, Zenon

LEMMA NewContactSteps ==
  /\ NewContactEmail = <<"ensure">> \o NewAddress
  /\ NewContactEmail \in Seq(Step)
  /\ Includes(NewContactEmail, "contact") /\ ~Includes(NewContactEmail, "saveUser")
  /\ ~Includes(NewContactEmail, "promote")
<1>1. NewContactEmail = <<"ensure">> \o NewAddress
  BY DEF Save, NewContactEmail, NewAddress
<1>2. NewAddress \in Seq(Step) /\ Includes(NewAddress, "contact")
      /\ ~Includes(NewAddress, "saveUser") /\ ~Includes(NewAddress, "promote")
  BY Rests DEF Rest
<1>3. \A x : Includes(NewContactEmail, x) <=> "ensure" = x \/ Includes(NewAddress, x)
  BY <1>1, <1>2, Replaced, Names, Zenon
<1>4. NewContactEmail \in Seq(Step)
  BY StepSequences
<1> QED
  BY <1>1, <1>2, <1>3, <1>4

LEMMA Leavings ==
  ASSUME NEW l \in Leaving
  PROVE  /\ l \in Seq(Step) /\ ~Includes(l, "saveUser") /\ ~Includes(l, "promote")
         /\ \/ Now(l) = "none" /\ l = <<>> /\ ~Includes(l, "contact")
            \/ Now(l) = "reload" /\ l = <<"reload">> \o NewContactEmail /\ Includes(l, "contact")
<1>1. CASE l = <<>>
  BY <1>1, Rests DEF Rest
<1>2. CASE l = <<"reload">> \o NewContactEmail
  <2>1. "reload" \in Step
    BY DEF Step
  <2>2. /\ l \in Seq(Step) /\ Now(l) = "reload"
        /\ \A x : Includes(l, x) <=> "reload" = x \/ Includes(NewContactEmail, x)
    BY <1>2, <2>1, NewContactSteps, Replaced, ZenonT(40)
  <2> QED
    BY <1>2, <2>2, NewContactSteps
<1> QED
  BY <1>1, <1>2 DEF Leaving

LEMMA Beginnings ==
  ASSUME NEW s \in Beginning
  PROVE  \/ s = <<>>
         \/ /\ Now(s) \in {"add", "modify"} /\ s = <<Now(s)>> \o PutBack
            /\ Includes(s, "saveUser") /\ ~Includes(s, "contact")
         \/ /\ Now(s) \in {"load", "unstaff"} /\ s = <<Now(s)>> \o (Save \o PutBack)
            /\ Includes(s, "saveUser") /\ ~Includes(s, "contact")
         \/ /\ Now(s) = "emails" /\ \E l \in Leaving : s = <<"emails">> \o (<<"cascade">> \o l)
         \/ /\ Now(s) = "cascade" /\ \E l \in Leaving : s = <<"cascade">> \o l
         \/ /\ Now(s) = "reload" /\ s = <<"reload">> \o NewContactEmail
            /\ Includes(s, "contact") /\ ~Includes(s, "saveUser")
<1>1. \A h \in {"add", "modify", "load", "unstaff", "emails", "cascade"} :
        h \in Step /\ h # "saveUser" /\ h # "contact"
  BY DEF Step
<1>2. ASSUME NEW h \in {"add", "modify", "load", "unstaff", "emails", "cascade"},
             NEW k \in Seq(Step), s = <<h>> \o k
      PROVE  /\ Now(s) = h
             /\ \A x : Includes(s, x) <=> h = x \/ Includes(k, x)
  BY <1>1, <1>2, Replaced, ZenonT(40)
<1>3. CASE \E h \in {"add", "modify"} : s = <<h>> \o PutBack
  <2>1. PICK h \in {"add", "modify"} : s = <<h>> \o PutBack
    BY <1>3
  <2>2. PutBack \in Seq(Step) /\ Includes(PutBack, "saveUser") /\ ~Includes(PutBack, "contact")
    BY Rests DEF Rest
  <2>3. /\ Now(s) = h /\ Includes(s, "saveUser") /\ ~Includes(s, "contact")
    BY <1>1, <1>2, <2>1, <2>2, Zenon
  <2> QED
    BY <2>1, <2>3
<1>4. CASE \E h \in {"load", "unstaff"} : s = <<h>> \o (Save \o PutBack)
  <2>1. PICK h \in {"load", "unstaff"} : s = <<h>> \o (Save \o PutBack)
    BY <1>4
  <2>2. /\ Save \o PutBack \in Seq(Step) /\ Includes(Save \o PutBack, "saveUser")
        /\ ~Includes(Save \o PutBack, "contact")
    BY Rests DEF Rest
  <2>3. /\ Now(s) = h /\ Includes(s, "saveUser") /\ ~Includes(s, "contact")
    BY <1>1, <1>2, <2>1, <2>2, Zenon
  <2> QED
    BY <2>1, <2>3
<1>5. CASE \E l \in Leaving : s = <<"emails">> \o (<<"cascade">> \o l)
  <2>1. PICK l \in Leaving : s = <<"emails">> \o (<<"cascade">> \o l)
    BY <1>5
  <2>2. <<"cascade">> \o l \in Seq(Step)
    BY <1>1, Leavings, Replaced
  <2> QED
    BY <1>2, <2>1, <2>2, Zenon
<1>6. CASE \E l \in Leaving : s = <<"cascade">> \o l
  <2>1. PICK l \in Leaving : s = <<"cascade">> \o l
    BY <1>6
  <2>2. l \in Seq(Step)
    BY Leavings
  <2> QED
    BY <1>2, <2>1, <2>2, Zenon
<1>7. CASE s \in Leaving
  BY <1>7, Leavings
<1> QED
  BY <1>3, <1>4, <1>5, <1>6, <1>7 DEF Beginning

\* What the next step says about the rest.
LEMMA Shapes ==
  ASSUME NEW s, Shape(s)
  PROVE  /\ s \in Seq(Step)
         /\ \/ s = <<>> /\ Now(s) = "none"
            \/ s \in Beginning /\ s # <<>>
            \/ Now(s) \in Seeking /\ \E k \in Rest : s = <<Now(s)>> \o k
            \/ Now(s) = "write" /\ \E k \in Rest :
                  s \in {<<"write">> \o k, <<"write", "promote">> \o k, Save \o k}
            \/ Now(s) = "unverify" /\ \E k \in Rest : s = <<"unverify", "write">> \o k
            \/ Now(s) = "contact" /\ s \in {NewAddress, NewAddress \o (Save \o PutBack)}
            \/ Now(s) = "saveUser" /\ s = PutBack
<1>1. CASE s \in Rest
  <2>1. s \in Seq(Step)
    BY <1>1, Rests
  <2>2. CASE s = Save \o PutBack
    BY <2>1, <2>2, Rests DEF Rest
  <2> QED
    BY <1>1, <2>1, <2>2, Rests DEF Rest
<1>2. CASE s \in Beginning
  <2>1. ASSUME NEW h \in Step, NEW k \in Seq(Step), s = <<h>> \o k
        PROVE  s \in Seq(Step)
    BY <2>1, Replaced
  <2>2. /\ \A h \in {"add", "modify", "load", "unstaff", "emails", "cascade", "reload"} :
              h \in Step
        /\ PutBack \in Seq(Step) /\ Save \o PutBack \in Seq(Step)
    BY Rests DEF Step, Rest
  <2>3. \A l \in Leaving : l \in Seq(Step) /\ <<"cascade">> \o l \in Seq(Step)
    BY <2>2, Leavings, Replaced
  <2>4. s \in Seq(Step)
    BY <1>2, <2>1, <2>2, <2>3, Zenon DEF Beginning
  <2> QED
    BY <1>2, <2>4 DEF Now
<1>3. CASE \E e \in Phase, k \in Rest : s = e \o k
  <2>1. PICK e \in Phase, k \in Rest : s = e \o k
    BY <1>3
  <2>2. e \in Seq(Step) /\ e # <<>> /\ k \in Seq(Step)
    BY Phases, Rests
  <2>3. s \in Seq(Step) /\ s # <<>> /\ Head(s) = Head(e)
    BY <2>1, <2>2, TailOfConcat
  <2>4. Now(s) = Head(e)
    BY <2>3 DEF Now
  <2>5. CASE \E h \in Seeking : e = <<h>> /\ Head(e) = h
    <3>1. PICK h \in Seeking : e = <<h>> /\ Head(e) = h
      BY <2>5
    <3> QED
      BY <3>1, <2>1, <2>3, <2>4, Zenon
  <2>6. CASE Head(e) = "write" /\ e \in {<<"write">>, <<"write", "promote">>, Save}
    BY <2>6, <2>1, <2>3, <2>4
  <2>7. CASE Head(e) = "unverify" /\ e = <<"unverify", "write">>
    BY <2>7, <2>1, <2>3, <2>4, Zenon
  <2> QED
    BY <2>5, <2>6, <2>7, Phases
<1> QED
  BY <1>1, <1>2, <1>3 DEF Shape

\* A step of ensure_owner: what callers have left stays.
LEMMA GoesOn ==
  ASSUME NEW s, Shape(s), Now(s) \in Seeking, NEW e \in Phase
  PROVE  LET t == e \o Tail(s) IN
         /\ Shape(t) /\ t \in Seq(Step) /\ Now(t) = Head(e)
         /\ Includes(t, "contact") <=> Includes(s, "contact")
         /\ Includes(t, "saveUser") <=> Includes(s, "saveUser")
         /\ Includes(t, "promote") <=> Includes(e, "promote")
<1>1. PICK h \in Seeking, k \in Rest : s = <<h>> \o k
  BY Shapes, Beginnings DEF Seeking
<1>2. h \in Step /\ k \in Seq(Step) /\ h # "contact" /\ h # "saveUser"
  BY Rests DEF Seeking, Step
<1>3. /\ Tail(s) = k
      /\ Includes(s, "contact") <=> Includes(k, "contact")
      /\ Includes(s, "saveUser") <=> Includes(k, "saveUser")
  BY <1>1, <1>2, Replaced, ZenonT(40)
<1>4. /\ e \in Seq(Step) /\ e # <<>>
      /\ ~Includes(e, "contact") /\ ~Includes(e, "saveUser")
  BY Phases
<1>5. e \o k \in Seq(Step) /\ e \o k # <<>> /\ Head(e \o k) = Head(e)
  BY <1>2, <1>4, TailOfConcat
<1>6. \A x : Includes(e \o k, x) <=> Includes(e, x) \/ Includes(k, x)
  BY <1>2, <1>4, IncludesConcat
<1>7. Now(e \o k) = Head(e) /\ Shape(e \o k) /\ ~Includes(k, "promote")
  BY <1>5, Rests DEF Now, Shape
<1> QED
  BY <1>3, <1>4, <1>5, <1>6, <1>7, Zenon

LEMMA Returns ==
  ASSUME NEW s, Shape(s), Now(s) \in Seeking
  PROVE  LET t == <<>> \o Tail(s) IN
         /\ Shape(t) /\ t \in Seq(Step) /\ Now(t) \in {"none", "saveUser", "write", "contact"}
         /\ Includes(t, "contact") <=> Includes(s, "contact")
         /\ Includes(t, "saveUser") <=> Includes(s, "saveUser")
         /\ ~Includes(t, "promote")
<1>1. PICK h \in Seeking, k \in Rest : s = <<h>> \o k
  BY Shapes, Beginnings DEF Seeking
<1>2. h \in Step /\ k \in Seq(Step) /\ h # "contact" /\ h # "saveUser"
  BY Rests DEF Seeking, Step
<1>3. /\ Tail(s) = k
      /\ Includes(s, "contact") <=> Includes(k, "contact")
      /\ Includes(s, "saveUser") <=> Includes(k, "saveUser")
  BY <1>1, <1>2, Replaced, ZenonT(40)
<1>4. <<>> \o k = k
  BY <1>2, ConcatEmptySeq
<1> QED
  BY <1>2, <1>3, <1>4, Rests DEF Shape

LEMMA Written ==
  ASSUME NEW s, Shape(s), Now(s) = "write"
  PROVE  LET t == <<>> \o Tail(s) IN
         /\ Shape(t) /\ t \in Seq(Step)
         /\ Includes(t, "contact") <=> Includes(s, "contact")
         /\ Includes(t, "saveUser") <=> Includes(s, "saveUser")
         /\ Includes(t, "promote") <=> Includes(s, "promote")
         /\ Now(t) \in {"none", "saveUser", "write", "contact", "ensure", "promote"}
         /\ Now(t) = "promote" => Includes(s, "promote")
<1>1. PICK k \in Rest :
        s \in {<<"write">> \o k, <<"write", "promote">> \o k, Save \o k}
  BY Shapes, Beginnings DEF Seeking
<1>2. k \in Seq(Step) /\ ~Includes(k, "promote")
      /\ Now(k) \in {"none", "saveUser", "write", "contact"}
  BY Rests
<1>3. \A r \in Seq(Step) : <<>> \o r = r
  BY ConcatEmptySeq
<1>4. CASE s = <<"write">> \o k
  <2>1. Tail(s) = k /\ \A x : Includes(s, x) <=> "write" = x \/ Includes(k, x)
    BY <1>2, <1>4, Names, Replaced, ZenonT(40)
  <2> QED
    BY <2>1, <1>2, <1>3 DEF Shape
<1>5. ASSUME NEW h \in {"ensure", "promote"}, s = <<"write", h>> \o k
      PROVE  /\ <<>> \o Tail(s) = <<h>> \o k
             /\ Shape(<<>> \o Tail(s)) /\ <<>> \o Tail(s) \in Seq(Step)
             /\ Now(<<>> \o Tail(s)) = h
             /\ \A x : Includes(s, x) <=> "write" = x \/ Includes(<<>> \o Tail(s), x)
             /\ Includes(<<>> \o Tail(s), "promote") <=> h = "promote"
  <2>1. h \in Step /\ <<h>> \in Phase
    BY DEF Step, Phase, Seeking
  <2>2. Tail(s) = <<h>> \o k
        /\ \A x : Includes(s, x) <=> "write" = x \/ h = x \/ Includes(k, x)
    <3>1. PICK g \in Step : g = "write"
      BY Names
    <3>2. /\ Tail(<<g, h>> \o k) = <<h>> \o k
          /\ \A x : Includes(<<g, h>> \o k, x) <=> g = x \/ h = x \/ Includes(k, x)
      BY <2>1, <1>2, Replaced2, ZenonT(40)
    <3>3. s = <<g, h>> \o k
      BY <1>5, <3>1, Zenon
    <3> QED
      BY <3>1, <3>2, <3>3, Zenon
  <2>3. /\ <<h>> \o k \in Seq(Step) /\ Now(<<h>> \o k) = h
        /\ \A x : Includes(<<h>> \o k, x) <=> h = x \/ Includes(k, x)
    BY <2>1, <1>2, Replaced, ZenonT(40)
  <2>4. <<>> \o Tail(s) = <<h>> \o k
    BY <2>2, <2>3, <1>3, Zenon
  <2>5. Shape(<<h>> \o k)
    BY <2>1, Zenon DEF Shape
  <2> QED
    BY <2>2, <2>3, <2>4, <2>5, <1>2, Zenon
<1>6. CASE s = <<"write", "promote">> \o k
  <2> DEFINE t == <<>> \o Tail(s)
  <2>1. /\ Shape(t) /\ t \in Seq(Step) /\ Now(t) = "promote"
        /\ \A x : Includes(s, x) <=> "write" = x \/ Includes(t, x)
        /\ Includes(t, "promote")
    BY <1>5, <1>6
  <2> HIDE DEF t
  <2> QED
    BY <2>1 DEF t
<1>7. CASE s = Save \o k
  <2> DEFINE t == <<>> \o Tail(s)
  <2>1. /\ Shape(t) /\ t \in Seq(Step) /\ Now(t) = "ensure"
        /\ \A x : Includes(s, x) <=> "write" = x \/ Includes(t, x)
        /\ ~Includes(t, "promote")
    BY <1>5, <1>7 DEF Save
  <2> HIDE DEF t
  <2> QED
    BY <2>1 DEF t
<1> QED
  BY <1>1, <1>4, <1>6, <1>7

LEMMA Unverified ==
  ASSUME NEW s, Shape(s), Now(s) = "unverify"
  PROVE  LET t == <<>> \o Tail(s) IN
         /\ Shape(t) /\ t \in Seq(Step) /\ Now(t) = "write"
         /\ Includes(t, "contact") <=> Includes(s, "contact")
         /\ Includes(t, "saveUser") <=> Includes(s, "saveUser")
         /\ ~Includes(t, "promote")
<1>1. PICK k \in Rest : s = <<"unverify", "write">> \o k
  BY Shapes, Beginnings DEF Seeking
<1>2. k \in Seq(Step) /\ ~Includes(k, "promote")
  BY Rests
<1>3. Tail(s) = <<"write">> \o k
      /\ \A x : Includes(s, x) <=> "unverify" = x \/ "write" = x \/ Includes(k, x)
  BY <1>1, <1>2, Names, Replaced2, ZenonT(40)
<1>4. /\ <<"write">> \o k \in Seq(Step) /\ Now(<<"write">> \o k) = "write"
      /\ \A x : Includes(<<"write">> \o k, x) <=> "write" = x \/ Includes(k, x)
  BY <1>2, Names, Replaced, ZenonT(40)
<1>5. Shape(<<"write">> \o k)
  BY Zenon DEF Shape, Phase
<1>6. <<>> \o (<<"write">> \o k) = <<"write">> \o k
  BY <1>4, ConcatEmptySeq
<1>7. \A x \in {"contact", "saveUser", "promote"} : x # "write" /\ x # "unverify"
  OBVIOUS
<1> QED
  BY <1>2, <1>3, <1>4, <1>5, <1>6, <1>7, Zenon

LEMMA Renewed ==
  ASSUME NEW s, Shape(s), Now(s) = "contact"
  PROVE  LET t == <<>> \o Tail(s) IN
         /\ Shape(t) /\ t \in Seq(Step) /\ Now(t) = "write"
         /\ Includes(s, "contact") /\ ~Includes(t, "contact")
         /\ Includes(t, "saveUser") <=> Includes(s, "saveUser")
         /\ ~Includes(t, "promote")
         /\ ~Includes(s, "saveUser") => SubSeq(s, 2 + Len(Save), Len(s)) = <<>>
<1> DEFINE t == <<>> \o Tail(s)
<1>1. s \in {NewAddress, NewAddress \o (Save \o PutBack)}
  BY Shapes, Beginnings DEF Seeking
<1>2. /\ Save \in Seq(Step) /\ NewAddress \in Seq(Step) /\ NewAddress # <<>>
      /\ Head(NewAddress) = "contact" /\ Tail(NewAddress) = Save
      /\ Save \in Phase
  <2>1. Save \in Seq(Step)
    BY StepSequences
  <2>2. /\ <<"contact">> \o Save \in Seq(Step) /\ <<"contact">> \o Save # <<>>
        /\ Now(<<"contact">> \o Save) = "contact" /\ Tail(<<"contact">> \o Save) = Save
    BY <2>1, Names, Replaced, ZenonT(40)
  <2>3. Save \in Phase
    BY DEF Phase
  <2> QED
    BY <2>1, <2>2, <2>3 DEF NewAddress, Now
<1>3. ASSUME NEW k \in Rest
      PROVE  /\ Shape(Save \o k) /\ Save \o k \in Seq(Step) /\ Now(Save \o k) = "write"
             /\ \A x : Includes(Save \o k, x) <=> "write" = x \/ "ensure" = x \/ Includes(k, x)
  <2>1. k \in Seq(Step)
    BY Rests
  <2>2. /\ Save \o k \in Seq(Step) /\ Now(Save \o k) = "write"
        /\ \A x : Includes(Save \o k, x) <=> "write" = x \/ "ensure" = x \/ Includes(k, x)
    BY <2>1, Names, Replaced2, ZenonT(40) DEF Save
  <2> QED
    BY <2>2, <1>2, Zenon DEF Shape
<1>4. \A x \in {"contact", "saveUser", "promote"} : x # "write" /\ x # "ensure"
  OBVIOUS
<1>5. CASE s = NewAddress
  <2>1. Save = Save \o <<>> /\ <<>> \o Save = Save
    BY <1>2, ConcatEmptySeq
  <2>2. t = Save \o <<>>
    BY <1>2, <1>5, <2>1
  <2>3. <<>> \in Rest /\ \A x : ~Includes(<<>>, x)
    BY Rests DEF Rest
  <2>4. /\ Shape(t) /\ t \in Seq(Step) /\ Now(t) = "write" /\ ~Includes(t, "contact")
        /\ ~Includes(t, "saveUser") /\ ~Includes(t, "promote")
    BY <1>3, <1>4, <2>2, <2>3, Zenon
  <2>5. SubSeq(s, 2 + Len(Save), Len(s)) = <<>>
    <3>1. Len(Save) = 2 /\ Len(s) = 3
      BY <1>5 DEF NewAddress, Save
    <3>2. 2 + 2 \in Int /\ 3 \in Int /\ 3 < 2 + 2
      OBVIOUS
    <3> QED
      BY <3>1, <3>2, SubSeqEmpty
  <2> QED
    BY <1>5, <2>4, <2>5, Rests
<1>6. CASE s = NewAddress \o (Save \o PutBack)
  <2>1. Save \o PutBack \in Rest /\ Save \o PutBack \in Seq(Step)
    BY Rests DEF Rest
  <2>2. Tail(s) = Save \o (Save \o PutBack)
    BY <1>2, <1>6, <2>1, TailOfConcat
  <2>3. t = Save \o (Save \o PutBack)
    BY <1>3, <2>1, <2>2, ConcatEmptySeq
  <2>4. /\ Includes(Save \o PutBack, "saveUser") /\ ~Includes(Save \o PutBack, "contact")
        /\ ~Includes(Save \o PutBack, "promote")
    BY <2>1, Rests
  <2>5. /\ Shape(t) /\ t \in Seq(Step) /\ Now(t) = "write" /\ ~Includes(t, "contact")
        /\ Includes(t, "saveUser") /\ ~Includes(t, "promote")
    BY <1>3, <1>4, <2>1, <2>3, <2>4, Zenon
  <2> QED
    BY <1>6, <2>5, Rests
<1> QED
  BY <1>1, <1>5, <1>6

----------------------------------------------------------------------------
(* How requests begin. *)

LEMMA TwoSteps ==
  ASSUME NEW S, NEW h \in S, NEW i \in S
  PROVE  <<h, i>> = <<h>> \o <<i>>
<1>1. PICK e, k, t : e = <<h>> /\ k = <<i>> /\ t = <<h, i>>
  OBVIOUS
<1>2. e \in Seq(S) /\ k \in Seq(S) /\ Len(e) = 1 /\ Len(k) = 1 /\ e[1] = h /\ k[1] = i
  BY <1>1
<1>3. e \o k \in Seq(S) /\ Len(e \o k) = 2 /\ (e \o k)[1] = h /\ (e \o k)[2] = i
  BY <1>2, ConcatProperties
<1>4. t \in Seq(S) /\ Len(t) = 2 /\ t[1] = h /\ t[2] = i
  BY <1>1
<1>5. t = e \o k
  <2>1. \A n \in 1..2 : n = 1 \/ n = 2
    OBVIOUS
  <2>2. \A n \in 1..Len(t) : t[n] = (e \o k)[n]
    BY <1>3, <1>4, <2>1
  <2> QED
    BY <1>3, <1>4, <2>2, SeqEqual
<1> QED
  BY <1>1, <1>5, Zenon

LEMMA ThreeSteps ==
  ASSUME NEW S, NEW h \in S, NEW i \in S, NEW j \in S
  PROVE  <<h, i, j>> = <<h>> \o <<i, j>>
<1>1. PICK e, k, t : e = <<h>> /\ k = <<i, j>> /\ t = <<h, i, j>>
  OBVIOUS
<1>2. /\ e \in Seq(S) /\ k \in Seq(S) /\ Len(e) = 1 /\ Len(k) = 2
      /\ e[1] = h /\ k[1] = i /\ k[2] = j
  BY <1>1
<1>3. /\ e \o k \in Seq(S) /\ Len(e \o k) = 3
      /\ (e \o k)[1] = h /\ (e \o k)[2] = i /\ (e \o k)[3] = j
  BY <1>2, ConcatProperties, SMTT(30)
<1>4. t \in Seq(S) /\ Len(t) = 3 /\ t[1] = h /\ t[2] = i /\ t[3] = j
  BY <1>1
<1>5. t = e \o k
  <2>1. \A n \in 1..3 : n = 1 \/ n = 2 \/ n = 3
    OBVIOUS
  <2>2. \A n \in 1..Len(t) : t[n] = (e \o k)[n]
    BY <1>3, <1>4, <2>1
  <2> QED
    BY <1>3, <1>4, <2>2, SeqEqual
<1> QED
  BY <1>1, <1>5, Zenon

LEMMA EarlySteps ==
  \A h \in {"add", "modify", "load", "unstaff", "emails", "cascade", "reload"} :
     h \in Step /\ h # "saveUser" /\ h # "contact" /\ h # "promote"
BY DEF Step

\* A request about the staff list, from its first step on.
LEMMA Managing ==
  ASSUME NEW s,
         \/ s = <<"add", "saveUser">>
         \/ s = <<"modify", "saveUser">>
         \/ s = <<"load">> \o Save \o <<"saveUser">>
         \/ s = <<"unstaff">> \o (Save \o PutBack)
  PROVE  /\ Shape(s) /\ s \in Seq(Step)
         /\ Now(s) \in {"add", "modify", "load", "unstaff"}
         /\ s = <<"unstaff">> \o (Save \o PutBack) => Now(s) = "unstaff"
         /\ ~Includes(s, "contact") /\ Includes(s, "saveUser") /\ ~Includes(s, "promote")
<1> DEFINE Right == /\ Shape(s) /\ s \in Seq(Step)
                    /\ ~Includes(s, "contact") /\ Includes(s, "saveUser")
                    /\ ~Includes(s, "promote")
<1>1. ASSUME NEW h \in {"add", "modify", "load", "unstaff"}, NEW k \in {PutBack, Save \o PutBack},
             s = <<h>> \o k, <<h>> \o k \in Beginning
      PROVE  Right /\ Now(s) = h
  <2>1. /\ k \in Seq(Step) /\ ~Includes(k, "contact") /\ Includes(k, "saveUser")
        /\ ~Includes(k, "promote")
    BY Rests DEF Rest
  <2>2. h \in Step
    BY EarlySteps
  <2>3. /\ s \in Seq(Step) /\ Now(s) = h
        /\ \A x : Includes(s, x) <=> h = x \/ Includes(k, x)
    BY <1>1, <2>1, <2>2, Replaced, ZenonT(40)
  <2>4. ~Includes(s, "contact") /\ Includes(s, "saveUser") /\ ~Includes(s, "promote")
    BY <2>1, <2>3, EarlySteps
  <2> QED
    BY <1>1, <2>3, <2>4 DEF Shape
<1>2. ASSUME NEW h \in {"add", "modify"}, s = <<h, "saveUser">> PROVE Right /\ Now(s) = h
  <2>1. s = <<h>> \o PutBack
    BY <1>2, EarlySteps, Names, TwoSteps, ZenonT(40) DEF PutBack
  <2>2. <<h>> \o PutBack \in Beginning
    BY DEF Beginning
  <2> QED
    BY <1>1, <2>1, <2>2
<1>3. ASSUME s = <<"load">> \o Save \o <<"saveUser">> PROVE Right /\ Now(s) = "load"
  <2>1. PICK e : e = <<"load">>
    OBVIOUS
  <2>2. e \in Seq(Step) /\ Save \in Seq(Step) /\ PutBack \in Seq(Step)
    BY <2>1, EarlySteps, StepSequences, Rests, TailOfOne, Zenon DEF Rest
  <2>3. e \o Save \o PutBack = e \o (Save \o PutBack)
    BY <2>2, ConcatAssociative
  <2>4. s = <<"load">> \o (Save \o PutBack)
    BY <1>3, <2>1, <2>3, Zenon DEF PutBack
  <2>5. <<"load">> \o (Save \o PutBack) \in Beginning
    BY DEF Beginning
  <2> QED
    BY <1>1, <2>4, <2>5
<1>4. ASSUME s = <<"unstaff">> \o (Save \o PutBack) PROVE Right /\ Now(s) = "unstaff"
  <2>5. <<"unstaff">> \o (Save \o PutBack) \in Beginning
    BY DEF Beginning
  <2> QED
    BY <1>1, <1>4, <2>5
<1>5. s = <<"unstaff">> \o (Save \o PutBack) => Now(s) = "unstaff"
  BY <1>4
<1> HIDE DEF Right
<1>6. Right /\ Now(s) \in {"add", "modify", "load", "unstaff"}
  BY <1>2, <1>3, <1>4
<1> QED
  BY <1>5, <1>6 DEF Right

LEMMA Managed ==
  ASSUME NEW s, Shape(s), Now(s) \in {"add", "modify", "load", "unstaff"}
  PROVE  /\ Now(s) \in {"add", "modify"} => <<>> \o Tail(s) = PutBack
         /\ Now(s) \in {"load", "unstaff"} => /\ Tail(s) = Save \o PutBack
                                              /\ <<>> \o Tail(s) = Save \o PutBack
         /\ ~Includes(s, "contact") /\ Includes(s, "saveUser")
<1>1. /\ \/ Now(s) \in {"add", "modify"} /\ s = <<Now(s)>> \o PutBack
         \/ Now(s) \in {"load", "unstaff"} /\ s = <<Now(s)>> \o (Save \o PutBack)
      /\ ~Includes(s, "contact") /\ Includes(s, "saveUser")
  BY Shapes, Beginnings, Rests DEF Seeking
<1>2. /\ PutBack \in Seq(Step) /\ Save \o PutBack \in Seq(Step)
      /\ <<>> \o PutBack = PutBack /\ <<>> \o (Save \o PutBack) = Save \o PutBack
  BY Rests, ConcatEmptySeq DEF Rest
<1>3. \A h \in Step, k \in Seq(Step) : Tail(<<h>> \o k) = k
  BY Replaced
<1>4. CASE Now(s) \in {"add", "modify"} /\ s = <<Now(s)>> \o PutBack
  <2>1. Tail(s) = PutBack
    BY <1>2, <1>3, <1>4, EarlySteps, Zenon
  <2> QED
    BY <1>1, <1>2, <1>4, <2>1
<1>5. CASE Now(s) \in {"load", "unstaff"} /\ s = <<Now(s)>> \o (Save \o PutBack)
  <2>1. Tail(s) = Save \o PutBack
    BY <1>2, <1>3, <1>5, EarlySteps, Zenon
  <2> QED
    BY <1>1, <1>2, <1>5, <2>1
<1> QED
  BY <1>1, <1>4, <1>5

\* Finding a new contact while something remains to be done.
LEMMA Renewing ==
  ASSUME NEW k \in {<<>>, Save \o PutBack}
  PROVE  LET t == NewContactEmail \o k IN
         /\ Shape(t) /\ t \in Seq(Step) /\ Now(t) = "ensure"
         /\ Includes(t, "contact") /\ ~Includes(t, "promote")
         /\ Includes(t, "saveUser") <=> Includes(k, "saveUser")
<1>1. /\ NewContactEmail \in Seq(Step) /\ k \in Seq(Step) /\ NewAddress \in Seq(Step)
      /\ ~Includes(k, "promote")
  BY StepSequences, Rests DEF Rest
<1>2. NewContactEmail \o k = <<"ensure">> \o (NewAddress \o k)
  <2>1. PICK e : e = <<"ensure">>
    OBVIOUS
  <2>2. e \in Seq(Step)
    BY <2>1, Names, TailOfOne, Zenon
  <2>3. (e \o NewAddress) \o k = e \o (NewAddress \o k)
    BY <1>1, <2>2, ConcatAssociative, SMTT(30)
  <2> QED
    BY <2>1, <2>3, NewContactSteps, Zenon
<1>3. NewAddress \o k \in Rest
  <2>1. NewAddress \o <<>> = NewAddress
    BY <1>1, ConcatEmptySeq
  <2> QED
    BY <2>1 DEF Rest
<1>4. NewAddress \o k \in Seq(Step) /\ <<"ensure">> \in Phase
  BY <1>3, Rests DEF Phase, Seeking
<1>5. /\ <<"ensure">> \o (NewAddress \o k) \in Seq(Step)
      /\ Now(<<"ensure">> \o (NewAddress \o k)) = "ensure"
  BY <1>4, Names, Replaced, ZenonT(40)
<1>6. Shape(<<"ensure">> \o (NewAddress \o k))
  BY <1>3, <1>4, Zenon DEF Shape
<1>7. \A x : Includes(NewContactEmail \o k, x) <=> Includes(NewContactEmail, x) \/ Includes(k, x)
  BY <1>1, IncludesConcat
<1>8. /\ Includes(NewContactEmail, "contact") /\ ~Includes(NewContactEmail, "saveUser")
      /\ ~Includes(NewContactEmail, "promote")
  BY NewContactSteps
<1> QED
  BY <1>1, <1>2, <1>5, <1>6, <1>7, <1>8, Zenon

\* A user who leaves: the emails, the account, the contact.
LEMMA Prefixed ==
  ASSUME NEW h \in {"emails", "cascade"}, NEW k \in Seq(Step), NEW q, q = <<h>> \o k
  PROVE  /\ q \in Seq(Step) /\ Now(q) = h /\ <<>> \o Tail(q) = k
         /\ Includes(q, "contact") <=> Includes(k, "contact")
         /\ Includes(q, "saveUser") <=> Includes(k, "saveUser")
         /\ Includes(q, "promote") <=> Includes(k, "promote")
<1>1. h \in Step /\ h # "saveUser" /\ h # "contact" /\ h # "promote"
  BY EarlySteps
<1>2. /\ q \in Seq(Step) /\ Now(q) = h /\ Tail(q) = k
      /\ \A x : Includes(q, x) <=> h = x \/ Includes(k, x)
  BY <1>1, Replaced, ZenonT(40)
<1>3. <<>> \o k = k
  BY ConcatEmptySeq
<1> QED
  BY <1>1, <1>2, <1>3, Zenon

LEMMA CascadeSteps ==
  ASSUME NEW l \in Leaving, NEW c, c = <<"cascade">> \o l
  PROVE  /\ Shape(c) /\ c \in Seq(Step) /\ Now(c) = "cascade" /\ <<>> \o Tail(c) = l
         /\ Includes(c, "contact") <=> Includes(l, "contact")
         /\ ~Includes(c, "saveUser") /\ ~Includes(c, "promote")
         /\ Shape(l)
<1>1. l \in Seq(Step) /\ ~Includes(l, "saveUser") /\ ~Includes(l, "promote")
  BY Leavings
<1>2. c \in Beginning /\ l \in Beginning
  BY DEF Beginning
<1>3. "cascade" \in {"emails", "cascade"}
  OBVIOUS
<1>4. /\ c \in Seq(Step) /\ Now(c) = "cascade" /\ <<>> \o Tail(c) = l
      /\ Includes(c, "contact") <=> Includes(l, "contact")
      /\ Includes(c, "saveUser") <=> Includes(l, "saveUser")
      /\ Includes(c, "promote") <=> Includes(l, "promote")
  BY <1>1, <1>3, Prefixed, Zenon
<1> QED
  BY <1>1, <1>2, <1>4, Zenon DEF Shape

LEMMA EmailSteps ==
  ASSUME NEW l \in Leaving, NEW c, c = <<"cascade">> \o l, NEW e, e = <<"emails">> \o c
  PROVE  /\ Shape(e) /\ e \in Seq(Step) /\ Now(e) = "emails" /\ <<>> \o Tail(e) = c
         /\ Includes(e, "contact") <=> Includes(l, "contact")
         /\ ~Includes(e, "saveUser") /\ ~Includes(e, "promote")
<1>1. /\ c \in Seq(Step) /\ ~Includes(c, "saveUser") /\ ~Includes(c, "promote")
      /\ Includes(c, "contact") <=> Includes(l, "contact")
  BY CascadeSteps, Zenon
<1>2. e \in Beginning
  BY DEF Beginning
<1>3. "emails" \in {"emails", "cascade"}
  OBVIOUS
<1>4. /\ e \in Seq(Step) /\ Now(e) = "emails" /\ <<>> \o Tail(e) = c
      /\ Includes(e, "contact") <=> Includes(c, "contact")
      /\ Includes(e, "saveUser") <=> Includes(c, "saveUser")
      /\ Includes(e, "promote") <=> Includes(c, "promote")
  <2>1. PICK h, q : h = "emails" /\ q = c
    OBVIOUS
  <2>2. /\ e = <<h>> \o q /\ h \in {"emails", "cascade"} /\ q \in Seq(Step)
    BY <1>1, <1>3, <2>1, Zenon
  <2>3. /\ e \in Seq(Step) /\ Now(e) = h /\ <<>> \o Tail(e) = q
        /\ Includes(e, "contact") <=> Includes(q, "contact")
        /\ Includes(e, "saveUser") <=> Includes(q, "saveUser")
        /\ Includes(e, "promote") <=> Includes(q, "promote")
    BY <2>2, Prefixed
  <2> QED
    BY <2>1, <2>3, Zenon
<1> QED
  BY <1>1, <1>2, <1>4, Zenon DEF Shape

LEMMA LeaveBegins ==
  ASSUME NEW s, NEW renew \in BOOLEAN,
         s = IF renew THEN <<"emails", "cascade", "reload">> \o NewContactEmail
                      ELSE <<"emails", "cascade">>
  PROVE  /\ Shape(s) /\ s \in Seq(Step) /\ Now(s) = "emails"
         /\ Includes(s, "contact") <=> renew
         /\ ~Includes(s, "saveUser") /\ ~Includes(s, "promote")
<1> DEFINE l == IF renew THEN <<"reload">> \o NewContactEmail ELSE <<>>
<1>1. /\ l \in Leaving /\ l \in Seq(Step)
      /\ ~Includes(l, "saveUser") /\ ~Includes(l, "promote")
      /\ Includes(l, "contact") <=> renew
  <2>1. l \in Leaving
    BY DEF Leaving
  <2>2. CASE renew
    <3>1. l = <<"reload">> \o NewContactEmail
      BY <2>2
    <3>2. "reload" \in Step /\ NewContactEmail \in Seq(Step)
      BY EarlySteps, StepSequences
    <3>3. Now(l) = "reload"
      BY <3>1, <3>2, Replaced, ZenonT(40)
    <3> HIDE DEF l
    <3> QED
      BY <2>1, <2>2, <3>3, Leavings
  <2>3. CASE ~renew
    <3>1. Now(l) = "none"
      BY <2>3, Rests
    <3> HIDE DEF l
    <3> QED
      BY <2>1, <2>3, <3>1, Leavings
  <2> QED
    BY <2>2, <2>3
<1>2. s = <<"emails">> \o (<<"cascade">> \o l)
  <2>1. PICK c : c = <<"cascade">>
    OBVIOUS
  <2>2. c \in Seq(Step) /\ <<>> \in Seq(Step)
    BY <2>1, EarlySteps, TailOfOne, StepSequences, Zenon
  <2>3. CASE renew
    <3>1. PICK e, r : e = <<"emails">> /\ r = <<"reload">>
      OBVIOUS
    <3>2. e \in Seq(Step) /\ r \in Seq(Step) /\ NewContactEmail \in Seq(Step)
      BY <3>1, EarlySteps, TailOfOne, StepSequences, Zenon
    <3>3. <<"cascade", "reload">> = c \o r
      BY <2>1, <3>1, EarlySteps, TwoSteps, Zenon
    <3>4. <<"emails", "cascade", "reload">> = e \o (c \o r)
      BY <3>1, <3>3, EarlySteps, ThreeSteps, Zenon
    <3>5. c \o r \in Seq(Step)
      BY <2>2, <3>2, ConcatProperties
    <3>6. (e \o (c \o r)) \o NewContactEmail = e \o ((c \o r) \o NewContactEmail)
      <4> DEFINE d == c \o r
      <4>1. d \in Seq(Step)
        BY <3>5
      <4> HIDE DEF d
      <4>2. (e \o d) \o NewContactEmail = e \o (d \o NewContactEmail)
        BY <3>2, <4>1, ConcatAssociative
      <4> QED
        BY <4>2 DEF d
    <3>7. (c \o r) \o NewContactEmail = c \o (r \o NewContactEmail)
      BY <2>2, <3>2, ConcatAssociative
    <3>8. l = r \o NewContactEmail
      BY <2>3, <3>1, Zenon
    <3>9. s = (e \o (c \o r)) \o NewContactEmail
      BY <2>3, <3>4, Zenon
    <3> HIDE DEF l
    <3> QED
      BY <2>1, <3>1, <3>6, <3>7, <3>8, <3>9, Zenon
  <2>4. CASE ~renew
    <3>1. c \o <<>> = c
      BY <2>2, ConcatEmptySeq
    <3>2. <<"emails", "cascade">> = <<"emails">> \o <<"cascade">>
      BY EarlySteps, TwoSteps, Zenon
    <3>3. s = <<"emails", "cascade">> /\ l = <<>>
      BY <2>4, Zenon
    <3> HIDE DEF l
    <3> QED
      BY <2>1, <3>1, <3>2, <3>3, Zenon
  <2> QED
    BY <2>3, <2>4
<1> HIDE DEF l
<1>3. /\ Shape(s) /\ s \in Seq(Step) /\ Now(s) = "emails"
      /\ Includes(s, "contact") <=> Includes(l, "contact")
      /\ ~Includes(s, "saveUser") /\ ~Includes(s, "promote")
  <2>1. PICK c : c = <<"cascade">> \o l
    OBVIOUS
  <2> QED
    BY <1>1, <1>2, <2>1, EmailSteps, Zenon
<1> QED
  BY <1>1, <1>3

LEMMA Leaves ==
  ASSUME NEW s, Shape(s), Now(s) \in {"emails", "cascade", "reload"}
  PROVE  LET t == <<>> \o Tail(s) IN
         /\ Shape(t) /\ t \in Seq(Step)
         /\ Now(s) = "emails" => Now(t) = "cascade"
         /\ Now(s) = "cascade" => Now(t) \in {"none", "reload"}
         /\ Now(s) = "reload" => Now(t) = "ensure" /\ Includes(s, "contact")
         /\ Includes(t, "contact") <=> Includes(s, "contact")
         /\ ~Includes(s, "saveUser") /\ ~Includes(t, "saveUser") /\ ~Includes(t, "promote")
<1> DEFINE t == <<>> \o Tail(s)
<1>1. CASE Now(s) = "emails"
  <2>1. PICK l \in Leaving : s = <<"emails">> \o (<<"cascade">> \o l)
    BY <1>1, Shapes, Beginnings, Rests DEF Seeking
  <2>2. PICK c : c = <<"cascade">> \o l
    OBVIOUS
  <2>3. /\ t = c /\ Shape(c) /\ c \in Seq(Step) /\ Now(c) = "cascade"
        /\ Includes(s, "contact") <=> Includes(l, "contact")
        /\ Includes(c, "contact") <=> Includes(l, "contact")
        /\ ~Includes(s, "saveUser") /\ ~Includes(c, "saveUser") /\ ~Includes(c, "promote")
    <3>1. /\ Shape(c) /\ c \in Seq(Step) /\ Now(c) = "cascade"
          /\ Includes(c, "contact") <=> Includes(l, "contact")
          /\ ~Includes(c, "saveUser") /\ ~Includes(c, "promote")
      BY <2>2, CascadeSteps, Zenon
    <3>2. s = <<"emails">> \o c
      BY <2>1, <2>2, Zenon
    <3>3. /\ t = c /\ ~Includes(s, "saveUser")
          /\ Includes(s, "contact") <=> Includes(l, "contact")
      BY <2>2, <3>2, EmailSteps
    <3> QED
      BY <3>1, <3>3, Zenon
  <2> HIDE DEF t
  <2> QED
    BY <1>1, <2>3 DEF t
<1>2. CASE Now(s) = "cascade"
  <2>1. PICK l \in Leaving : s = <<"cascade">> \o l
    BY <1>2, Shapes, Beginnings, Rests DEF Seeking
  <2>2. /\ t = l /\ Shape(l) /\ ~Includes(s, "saveUser")
        /\ Includes(s, "contact") <=> Includes(l, "contact")
    BY <2>1, CascadeSteps, Zenon
  <2>4. /\ ~Includes(l, "saveUser") /\ ~Includes(l, "promote") /\ l \in Seq(Step)
        /\ Now(l) \in {"none", "reload"}
    BY Leavings
  <2> HIDE DEF t
  <2> QED
    BY <1>2, <2>2, <2>4 DEF t
<1>3. CASE Now(s) = "reload"
  <2>1. s = <<"reload">> \o NewContactEmail /\ Includes(s, "contact") /\ ~Includes(s, "saveUser")
    BY <1>3, Shapes, Beginnings, Rests DEF Seeking
  <2>2. NewContactEmail \in Seq(Step) /\ "reload" \in Step
    BY StepSequences, EarlySteps
  <2>3. Tail(s) = NewContactEmail
    BY <2>1, <2>2, Replaced, ZenonT(40)
  <2>4. t = NewContactEmail /\ NewContactEmail \o <<>> = NewContactEmail
    BY <2>2, <2>3, ConcatEmptySeq
  <2> HIDE DEF t
  <2>5. Shape(t) /\ Now(t) = "ensure"
    BY <2>4, Renewing, Zenon
  <2> QED
    BY <1>3, <2>1, <2>2, <2>4, <2>5, NewContactSteps DEF t
<1> QED
  BY <1>1, <1>2, <1>3

LEMMA Ends ==
  /\ Shape(<<>>) /\ Now(<<>>) = "none" /\ <<>> \in Seq(Step)
  /\ \A x : ~Includes(<<>>, x)
  /\ Shape(Save) /\ Now(Save) = "write" /\ Save \in Seq(Step)
  /\ ~Includes(Save, "contact") /\ ~Includes(Save, "saveUser") /\ ~Includes(Save, "promote")
  /\ Shape(PutBack) /\ Shape(Save \o PutBack)
  /\ PutBack \in Seq(Step) /\ Save \o PutBack \in Seq(Step)
  /\ \A s : Shape(s) /\ Now(s) = "saveUser"
        => <<>> \o Tail(s) = <<>> /\ Includes(s, "saveUser") /\ ~Includes(s, "contact")
<1>1. Shape(<<>>) /\ Shape(PutBack) /\ Shape(Save \o PutBack)
  BY DEF Shape, Rest
<1>2. Save \in Seq(Step) /\ <<>> \in Seq(Step) /\ PutBack \in Seq(Step) /\ Save \o PutBack \in Seq(Step)
  BY StepSequences, Rests DEF Rest
<1>3. Save \in Phase /\ Now(Save) = "write" /\ ~Includes(Save, "promote")
  <2>1. Save \in Phase
    BY DEF Phase
  <2>2. Save # <<>> /\ Head(Save) = "write"
    BY TailOfTwo, Names, Zenon DEF Save
  <2>3. ~Includes(Save, "promote")
    <3>1. \A x : Includes(Save, x) <=> "write" = x \/ "ensure" = x
      BY IncludesTwo, Zenon DEF Save
    <3> QED
      BY <3>1
  <2> QED
    BY <2>1, <2>2, <2>3 DEF Now
<1>4. Save = Save \o <<>>
  BY <1>2, ConcatEmptySeq
<1>5. Shape(Save)
  <2>1. <<>> \in Rest
    BY DEF Rest
  <2> QED
    BY <1>3, <1>4, <2>1, Zenon DEF Shape
<1>6. ~Includes(Save, "contact") /\ ~Includes(Save, "saveUser")
  BY <1>3, Phases
<1>7. ASSUME NEW s, Shape(s), Now(s) = "saveUser"
      PROVE  <<>> \o Tail(s) = <<>> /\ Includes(s, "saveUser") /\ ~Includes(s, "contact")
  <2>1. s = PutBack
    BY <1>7, Shapes, Beginnings, Rests DEF Seeking
  <2>2. Tail(s) = <<>>
    BY <2>1, TailOfOne, Names, Zenon DEF PutBack
  <2> QED
    BY <1>2, <2>1, <2>2, Rests, ConcatEmptySeq
<1> QED
  BY <1>1, <1>2, <1>3, <1>5, <1>6, <1>7, Rests

----------------------------------------------------------------------------
(* Requests one after the other: the invariant. *)

\* Whoever manages the staff list is an owner, is not the target, and nobody
\* interferes: an owner besides the target stays until the request ends.
ManagedInv(w) == Includes(todo[w], "saveUser") =>
    /\ target[w] \in users
    /\ \E u \in Owners : u # target[w]

\* What ensure_owner has found out about the staff still holds.
LeaderlessInv(w) ==
    /\ Now(todo[w]) \in {"creator", "seekEditor", "seekStaff", "create",
                         "adoptEditor", "adoptStaff"} => Owners = {}
    /\ Includes(todo[w], "promote") => Owners = {}
    /\ Now(todo[w]) = "adoptStaff" => Having("editor") = {}
    /\ Now(todo[w]) = "saveHeir" => heir[w] \in users

\* An account has its address until it is about to be deleted itself.
MailInv(w) == \A u \in users : u \in mail \/ (Now(todo[w]) = "cascade" /\ u = target[w])

OwnerInv == ownerLeft \/ Owners # {}

\* A contact that left the staff and has not come back.
Stale(c) == c \in left \ Members
Unfixed == Stale(issuer.contact) /\ Owners # {}

\* Worker w works on an issuer object.
Loaded(w) == Now(todo[w]) \notin {"none", "emails", "cascade", "reload"}

\* The contact of the issuer is stale only while a request is about to replace
\* it; the object in the worker's hands is the one that will be written.
ContactInv(w) ==
    /\ cache.contact = issuer.contact
    /\ Loaded(w) /\ Now(todo[w]) # "write" => obj[w].contact = issuer.contact
    /\ Loaded(w) /\ ~Includes(todo[w], "contact") => ~Stale(obj[w].contact)
    /\ Unfixed => Includes(todo[w], "contact") \/ Now(todo[w]) = "write"
    /\ Loaded(w) /\ (Includes(todo[w], "contact") \/ Unfixed)
         => obj[w].creator \in users \cup {None}
    /\ Now(todo[w]) \in {"emails", "cascade"} /\ role[target[w]] # None
         /\ issuer.contact = target[w] => Includes(todo[w], "contact")
    /\ Now(todo[w]) = "unstaff" => obj[w] = issuer

\* Nobody on the staff has a higher role than member u.
Ranked(u) == u \in Members /\ \A v \in Members : role[v] \notin Above(role[u])

\* Objects other than the row have its creator, or one whose account is gone,
\* or the successor that is about to be written.
CreatorOK(o) == o.creator = issuer.creator \/ o.creator \in User \ users
CreatorInv(w) ==
    /\ CreatorOK(cache)
    /\ Loaded(w) => \/ CreatorOK(obj[w])
                    \/ (Now(todo[w]) = "write" /\ Ranked(obj[w].creator))

OrderInv(w) ==
    /\ IInv
    /\ Shape(todo[w])
    /\ ManagedInv(w)
    /\ LeaderlessInv(w)
    /\ MailInv(w)
    /\ OwnerInv
    /\ ContactInv(w)
    /\ CreatorInv(w)

----------------------------------------------------------------------------
LEMMA Continues ==
  ASSUME TypeOK, NEW w \in Worker, NEW steps, Continue(w, steps)
  PROVE  todo'[w] = steps \o Tail(todo[w])
BY DEF TypeOK, Continue

LEMMA Fails ==
  ASSUME TypeOK, NEW w \in Worker, Fail(w)
  PROVE  todo'[w] = <<>>
BY DEF TypeOK, Fail

LEMMA AtNow ==
  ASSUME NEW w \in Worker, NEW h, At(w, h)
  PROVE  Now(todo[w]) = h
BY DEF At, Now

\* A step of ensure_owner that only looks.
LEMMA Quiet ==
  ASSUME NEW w \in Worker, OrderInv(w), IInv',
         Now(todo[w]) \in Seeking \cup {"contact", "saveUser"},
         UNCHANGED <<users, mail, role, issuer, cache, left, ownerLeft, obj, target>>,
         Shape(todo'[w]),
         Includes(todo'[w], "contact") <=> Includes(todo[w], "contact"),
         Includes(todo'[w], "saveUser") => Includes(todo[w], "saveUser"),
         Now(todo'[w]) \notin {"emails", "cascade", "unstaff"},
         LeaderlessInv(w)'
  PROVE  OrderInv(w)'
<1>1. Now(todo[w]) \notin {"none", "emails", "cascade", "reload", "write", "unstaff"}
  BY DEF Seeking
<1>2. Members' = Members /\ Owners' = Owners
  BY DEF Members, Owners, Having
<1>3. Loaded(w)
  BY <1>1 DEF Loaded
<1>4. Stale(issuer.contact)' <=> Stale(issuer.contact)
  BY <1>2 DEF Stale
<1>5. Stale(obj[w].contact)' <=> Stale(obj[w].contact)
  BY <1>2 DEF Stale
<1>6. Unfixed' <=> Unfixed
  BY <1>2, <1>4 DEF Unfixed
<1>7. ManagedInv(w)'
  BY <1>2 DEF OrderInv, ManagedInv
<1>8. MailInv(w)'
  BY <1>1 DEF OrderInv, MailInv
<1>9. OwnerInv'
  BY <1>2 DEF OrderInv, OwnerInv
<1>10. ContactInv(w)'
  BY <1>1, <1>3, <1>5, <1>6 DEF OrderInv, ContactInv
<1>11. CreatorOK(cache)' /\ CreatorOK(obj[w])'
  BY <1>1, <1>3 DEF OrderInv, CreatorInv, CreatorOK
<1>12. CreatorInv(w)'
  BY <1>11 DEF CreatorInv
<1> QED
  BY <1>7, <1>8, <1>9, <1>10, <1>12 DEF OrderInv

\* The request is over.
LEMMA Over ==
  ASSUME NEW w \in Worker, OrderInv(w), IInv', ~Unfixed,
         Now(todo[w]) # "cascade",
         UNCHANGED <<users, mail, role, issuer, cache, left, ownerLeft>>,
         todo'[w] = <<>>
  PROVE  OrderInv(w)'
<1>1. Shape(todo'[w]) /\ Now(todo'[w]) = "none" /\ \A x : ~Includes(todo'[w], x)
  BY Ends
<1>2. Members' = Members /\ Owners' = Owners
  BY DEF Members, Owners, Having
<1>3. ~Loaded(w)'
  BY <1>1 DEF Loaded
<1>4. Stale(issuer.contact)' <=> Stale(issuer.contact)
  BY <1>2 DEF Stale
<1>5. ~Unfixed'
  BY <1>2, <1>4 DEF Unfixed
<1>6. ManagedInv(w)' /\ LeaderlessInv(w)'
  BY <1>1 DEF ManagedInv, LeaderlessInv
<1>7. MailInv(w)'
  BY <1>1 DEF OrderInv, MailInv
<1>8. OwnerInv'
  BY <1>2 DEF OrderInv, OwnerInv
<1>9. ContactInv(w)'
  BY <1>1, <1>3, <1>5 DEF OrderInv, ContactInv
<1>10. CreatorInv(w)'
  BY <1>3 DEF OrderInv, CreatorInv, CreatorOK
<1> QED
  BY <1>1, <1>6, <1>7, <1>8, <1>9, <1>10 DEF OrderInv

LEMMA InitOrder == Init => \A w \in Worker : OrderInv(w)
<1> SUFFICES ASSUME Init, NEW w \in Worker PROVE OrderInv(w)
  OBVIOUS
<1>1. todo[w] = <<>> /\ cache = issuer /\ left = {} /\ mail = users
  BY DEF Init
<1>2. Shape(todo[w]) /\ Now(todo[w]) = "none" /\ \A x : ~Includes(todo[w], x)
  BY <1>1, Ends
<1>3. ManagedInv(w) /\ LeaderlessInv(w)
  BY <1>2 DEF ManagedInv, LeaderlessInv
<1>4. ~Unfixed /\ ~Loaded(w)
  BY <1>1, <1>2 DEF Unfixed, Stale, Loaded
<1>5. ContactInv(w) /\ CreatorInv(w) /\ MailInv(w)
  BY <1>1, <1>2, <1>4 DEF ContactInv, CreatorInv, CreatorOK, MailInv
<1>6. OwnerInv
  <2>1. PICK u \in User : role = [x \in User |-> IF x = u THEN "owner" ELSE None]
    BY DEF Init
  <2> QED
    BY <2>1 DEF OwnerInv, Owners, Having
<1> QED
  BY <1>2, <1>3, <1>5, <1>6, InitIInv DEF OrderInv

----------------------------------------------------------------------------
(* ensure_owner. *)

LEMMA Above3 == Above("owner") = {} /\ Above("editor") = {"owner"}
                /\ Above("staff") = {"owner", "editor"}
BY DEF Above

LEMMA OnePhases ==
  /\ \A h \in Seeking \cup {"write"} : <<h>> \in Phase /\ Head(<<h>>) = h
  /\ \A h \in Seeking \cup {"write"} : Includes(<<h>>, "promote") <=> h = "promote"
  /\ <<"write", "promote">> \in Phase /\ Head(<<"write", "promote">>) = "write"
  /\ Includes(<<"write", "promote">>, "promote")
  /\ <<"unverify", "write">> \in Phase /\ Head(<<"unverify", "write">>) = "unverify"
  /\ ~Includes(<<"unverify", "write">>, "promote")
<1>1. \A h \in Seeking \cup {"write"} : h \in Step /\ h # "unverify"
  BY DEF Seeking, Step
<1>2. \A h \in Seeking \cup {"write"} : <<h>> \in Phase /\ Head(<<h>>) = h
  BY <1>1, TailOfOne, Zenon DEF Phase
<1>3. \A h \in Seeking \cup {"write"} : Includes(<<h>>, "promote") <=> h = "promote"
  BY IncludesOne, Zenon
<1>4. <<"write", "promote">> \in Phase /\ <<"unverify", "write">> \in Phase
  BY DEF Phase
<1>5. Head(<<"write", "promote">>) = "write" /\ Head(<<"unverify", "write">>) = "unverify"
  BY TailOfTwo, Names, Zenon
<1>6. Includes(<<"write", "promote">>, "promote")
  BY IncludesTwo, Zenon
<1>7. ~Includes(<<"unverify", "write">>, "promote")
  <2>1. Includes(<<"unverify", "write">>, "promote")
          <=> "unverify" = "promote" \/ "write" = "promote"
    BY IncludesTwo, Zenon
  <2> QED
    BY <2>1
<1> QED
  BY <1>2, <1>3, <1>4, <1>5, <1>6, <1>7, Zenon

\* ensure_owner goes on with its step h.
LEMMA Looks ==
  ASSUME NEW w \in Worker, OrderInv(w), Now(todo[w]) \in Seeking,
         NEW h \in Seeking \cup {"write"}, Continue(w, <<h>>)
  PROVE  /\ Shape(todo'[w]) /\ Now(todo'[w]) = h
         /\ Includes(todo'[w], "contact") <=> Includes(todo[w], "contact")
         /\ Includes(todo'[w], "saveUser") <=> Includes(todo[w], "saveUser")
         /\ Includes(todo'[w], "promote") <=> h = "promote"
<1>1. todo'[w] = <<h>> \o Tail(todo[w])
  BY Continues DEF OrderInv, IInv
<1>2. PICK e : e = <<h>>
  OBVIOUS
<1>3. e \in Phase /\ Head(e) = h /\ (Includes(e, "promote") <=> h = "promote")
  BY <1>2, OnePhases, Zenon
<1>4. todo'[w] = e \o Tail(todo[w])
  BY <1>1, <1>2, Zenon
<1>5. Shape(todo[w])
  BY DEF OrderInv
<1> HIDE DEF Seeking
<1> QED
  BY <1>3, <1>4, <1>5, GoesOn

\* ensure_owner returns to its caller.
LEMMA Finds ==
  ASSUME NEW w \in Worker, OrderInv(w), Now(todo[w]) \in Seeking,
         Continue(w, <<>>)
  PROVE  /\ Shape(todo'[w])
         /\ Now(todo'[w]) \in {"none", "saveUser", "write", "contact"}
         /\ Includes(todo'[w], "contact") <=> Includes(todo[w], "contact")
         /\ Includes(todo'[w], "saveUser") <=> Includes(todo[w], "saveUser")
         /\ ~Includes(todo'[w], "promote")
<1>1. todo'[w] = <<>> \o Tail(todo[w])
  BY Continues DEF OrderInv, IInv
<1>5. Shape(todo[w])
  BY DEF OrderInv
<1> QED
  BY <1>1, <1>5, Returns

LEMMA NotUnfixed ==
  ASSUME NEW w \in Worker, OrderInv(w), Loaded(w),
         obj[w].creator \notin users \cup {None} \/ Owners = {}
  PROVE  ~Unfixed
BY DEF OrderInv, ContactInv, Unfixed

LEMMA EnsureOrder ==
  ASSUME NEW w \in Worker, OrderInv(w), IInv', Ensure(w)
  PROVE  OrderInv(w)'
<1>1. Now(todo[w]) = "ensure"
  BY AtNow DEF Ensure
<1>2. Now(todo[w]) \in Seeking /\ "adoptOwner" \in Seeking /\ "creator" \in Seeking
      /\ Now(todo[w]) \in Seeking \cup {"contact", "saveUser"}
  BY <1>1 DEF Seeking
<1>3. UNCHANGED <<users, mail, role, issuer, cache, left, ownerLeft, obj, target>>
  BY DEF Ensure, local, history
<1>4. CASE Continue(w, <<"adoptOwner">>)
  <2>1. /\ Shape(todo'[w]) /\ Now(todo'[w]) = "adoptOwner"
        /\ Includes(todo'[w], "contact") <=> Includes(todo[w], "contact")
        /\ Includes(todo'[w], "saveUser") <=> Includes(todo[w], "saveUser")
        /\ ~Includes(todo'[w], "promote")
    BY <1>2, <1>4, Looks
  <2>2. LeaderlessInv(w)'
    BY <2>1 DEF LeaderlessInv
  <2> QED
    BY <1>2, <1>3, <2>1, <2>2, Quiet
<1>5. CASE Continue(w, <<>>)
  <2>1. /\ Shape(todo'[w])
        /\ Now(todo'[w]) \in {"none", "saveUser", "write", "contact"}
        /\ Includes(todo'[w], "contact") <=> Includes(todo[w], "contact")
        /\ Includes(todo'[w], "saveUser") <=> Includes(todo[w], "saveUser")
        /\ ~Includes(todo'[w], "promote")
    BY <1>2, <1>5, Finds
  <2>2. LeaderlessInv(w)'
    BY <2>1 DEF LeaderlessInv
  <2> QED
    BY <1>2, <1>3, <2>1, <2>2, Quiet
<1>6. CASE Continue(w, <<"creator">>) /\ Owners = {}
  <2>1. /\ Shape(todo'[w]) /\ Now(todo'[w]) = "creator"
        /\ Includes(todo'[w], "contact") <=> Includes(todo[w], "contact")
        /\ Includes(todo'[w], "saveUser") <=> Includes(todo[w], "saveUser")
        /\ ~Includes(todo'[w], "promote")
    BY <1>2, <1>6, Looks
  <2>2. LeaderlessInv(w)'
    BY <2>1, <1>3, <1>6 DEF LeaderlessInv, Owners, Having
  <2> QED
    BY <1>2, <1>3, <2>1, <2>2, Quiet
<1>7. CASE Fail(w) /\ obj[w].creator \notin users \cup {None}
  <2>1. Loaded(w)
    BY <1>1 DEF Loaded
  <2>2. ~Unfixed
    BY <1>7, <2>1, NotUnfixed
  <2>3. todo'[w] = <<>>
    BY <1>7, Fails DEF OrderInv, IInv
  <2> QED
    BY <1>1, <1>3, <2>2, <2>3, Over
<1> QED
  BY <1>4, <1>5, <1>6, <1>7 DEF Ensure

LEMMA CheckCreatorOrder ==
  ASSUME NEW w \in Worker, OrderInv(w), IInv', CheckCreator(w)
  PROVE  OrderInv(w)'
<1>1. Now(todo[w]) = "creator" /\ Owners = {}
  <2>1. Now(todo[w]) = "creator"
    BY AtNow DEF CheckCreator
  <2> QED
    BY <2>1 DEF OrderInv, LeaderlessInv
<1>2. Now(todo[w]) \in Seeking /\ "promote" \in Seeking /\ "seekEditor" \in Seeking
      /\ Now(todo[w]) \in Seeking \cup {"contact", "saveUser"}
  BY <1>1 DEF Seeking
<1>3. UNCHANGED <<users, mail, role, issuer, cache, left, ownerLeft, obj, target>>
  BY DEF CheckCreator, local, history
<1>4. PICK h \in {"promote", "seekEditor"} : Continue(w, <<h>>)
  BY DEF CheckCreator
<1>5. /\ Shape(todo'[w]) /\ Now(todo'[w]) = h
      /\ Includes(todo'[w], "contact") <=> Includes(todo[w], "contact")
      /\ Includes(todo'[w], "saveUser") <=> Includes(todo[w], "saveUser")
  BY <1>2, <1>4, Looks
<1>6. LeaderlessInv(w)'
  BY <1>1, <1>3, <1>5 DEF LeaderlessInv, Owners, Having
<1> QED
  BY <1>2, <1>3, <1>5, <1>6, Quiet

LEMMA SeekOrder ==
  ASSUME NEW w \in Worker, OrderInv(w), IInv', SeekEditor(w) \/ SeekStaff(w)
  PROVE  OrderInv(w)'
<1>1. PICK here \in {"seekEditor", "seekStaff"}, r \in {"editor", "staff"},
           other \in {"seekStaff", "create"} : Seek(w, here, r, <<other>>)
  BY DEF SeekEditor, SeekStaff
<1>2. Now(todo[w]) = here
  BY <1>1, AtNow DEF Seek
<1>3. Owners = {} /\ Now(todo[w]) \in Seeking /\ other \in Seeking /\ "saveHeir" \in Seeking
      /\ Now(todo[w]) \in Seeking \cup {"contact", "saveUser"}
  BY <1>2 DEF OrderInv, LeaderlessInv, Seeking
<1>4. UNCHANGED <<users, mail, role, issuer, cache, left, ownerLeft, obj, target>>
  BY <1>1 DEF Seek, history
<1>5. ASSUME NEW h \in {other, "saveHeir"}, Continue(w, <<h>>),
             h = "saveHeir" => heir'[w] \in users
      PROVE  OrderInv(w)'
  <2>1. /\ Shape(todo'[w]) /\ Now(todo'[w]) = h
        /\ Includes(todo'[w], "contact") <=> Includes(todo[w], "contact")
        /\ Includes(todo'[w], "saveUser") <=> Includes(todo[w], "saveUser")
    BY <1>3, <1>5, Looks
  <2>2. LeaderlessInv(w)'
    BY <1>3, <1>4, <1>5, <2>1 DEF LeaderlessInv, Owners, Having
  <2> QED
    BY <1>3, <1>4, <2>1, <2>2, Quiet
<1>6. CASE Continue(w, <<other>>)
  <2>1. other # "saveHeir"
    OBVIOUS
  <2> QED
    BY <1>5, <1>6, <2>1
<1>7. ASSUME NEW u \in Having(r), heir' = [heir EXCEPT ![w] = u], Continue(w, <<"saveHeir">>)
      PROVE  OrderInv(w)'
  <2>1. u \in Members
    BY NoneIsNothing DEF Having, Members, Role
  <2>2. heir'[w] \in users
    BY <1>7, <2>1 DEF OrderInv, IInv, TypeOK
  <2> QED
    BY <1>5, <1>7, <2>2
<1> QED
  BY <1>1, <1>6, <1>7 DEF Seek

LEMMA SaveHeirOrder ==
  ASSUME NEW w \in Worker, OrderInv(w), IInv', SaveHeir(w)
  PROVE  OrderInv(w)'
<1>1. Now(todo[w]) = "saveHeir"
  BY AtNow DEF SaveHeir
<1>2. heir[w] \in users
  BY <1>1 DEF OrderInv, LeaderlessInv
<1>3. UNCHANGED <<users, mail, role, issuer, cache, left, ownerLeft, obj, target>>
  BY <1>2 DEF SaveHeir, local, history
<1>4. Now(todo[w]) \in Seeking /\ Now(todo[w]) \in Seeking \cup {"contact", "saveUser"}
  BY <1>1 DEF Seeking
<1>5. /\ Shape(todo'[w])
      /\ Now(todo'[w]) \in {"none", "saveUser", "write", "contact"}
      /\ Includes(todo'[w], "contact") <=> Includes(todo[w], "contact")
      /\ Includes(todo'[w], "saveUser") <=> Includes(todo[w], "saveUser")
      /\ ~Includes(todo'[w], "promote")
  BY <1>4, Finds DEF SaveHeir
<1>6. LeaderlessInv(w)'
  BY <1>5 DEF LeaderlessInv
<1> QED
  BY <1>3, <1>4, <1>5, <1>6, Quiet

\* An object that is about to be written.
LEMMA Drafts ==
  ASSUME NEW w \in Worker, OrderInv(w), IInv',
         UNCHANGED <<users, mail, role, issuer, cache, left, ownerLeft, target>>,
         Now(todo[w]) # "cascade", Now(todo'[w]) = "write",
         Shape(todo'[w]),
         Includes(todo'[w], "saveUser") => Includes(todo[w], "saveUser"),
         Includes(todo'[w], "promote") => Owners = {},
         ~Includes(todo'[w], "contact") => ~Stale(obj'[w].contact),
         Includes(todo'[w], "contact") \/ Unfixed => obj'[w].creator \in users \cup {None},
         CreatorOK(obj'[w]) \/ Ranked(obj'[w].creator)
  PROVE  OrderInv(w)'
<1>1. Members' = Members /\ Owners' = Owners
  BY DEF Members, Owners, Having
<1>2. /\ Stale(issuer.contact)' <=> Stale(issuer.contact)
      /\ Stale(obj[w].contact)' <=> Stale(obj'[w].contact)
  BY <1>1 DEF Stale
<1>3. Unfixed' <=> Unfixed
  BY <1>1, <1>2 DEF Unfixed
<1>4. ManagedInv(w)'
  BY <1>1 DEF OrderInv, ManagedInv
<1>5. LeaderlessInv(w)'
  BY <1>1 DEF LeaderlessInv
<1>6. MailInv(w)'
  BY DEF OrderInv, MailInv
<1>7. OwnerInv'
  BY <1>1 DEF OrderInv, OwnerInv
<1>8. ContactInv(w)'
  BY <1>2, <1>3 DEF OrderInv, ContactInv
<1>9. CreatorOK(cache)'
  BY DEF OrderInv, CreatorInv, CreatorOK
<1>10. (CreatorOK(obj[w])' <=> CreatorOK(obj'[w]))
       /\ (Ranked(obj[w].creator)' <=> Ranked(obj'[w].creator))
  BY <1>1 DEF CreatorOK, Ranked
<1>11. CreatorInv(w)'
  BY <1>9, <1>10 DEF CreatorInv
<1> QED
  BY <1>4, <1>5, <1>6, <1>7, <1>8, <1>11 DEF OrderInv

LEMMA UnverifyOrder ==
  ASSUME NEW w \in Worker, OrderInv(w), IInv', Unverify(w)
  PROVE  OrderInv(w)'
<1>1. Now(todo[w]) = "unverify"
  BY AtNow DEF Unverify
<1>2. todo'[w] = <<>> \o Tail(todo[w])
  BY Continues DEF Unverify, OrderInv, IInv
<1>3. /\ Shape(todo'[w]) /\ Now(todo'[w]) = "write"
      /\ Includes(todo'[w], "contact") <=> Includes(todo[w], "contact")
      /\ Includes(todo'[w], "saveUser") <=> Includes(todo[w], "saveUser")
      /\ ~Includes(todo'[w], "promote")
  BY <1>1, <1>2, Unverified DEF OrderInv
<1>4. obj[w] \in Object /\ obj'[w] = [obj[w] EXCEPT !.verified = FALSE]
  BY DEF OrderInv, IInv, TypeOK, Unverify
<1>5. obj'[w].contact = obj[w].contact /\ obj'[w].creator = obj[w].creator
  BY <1>4 DEF Object
<1>6. Loaded(w)
  BY <1>1 DEF Loaded
<1>7. ~Includes(todo'[w], "contact") => ~Stale(obj'[w].contact)
  BY <1>3, <1>5, <1>6 DEF OrderInv, ContactInv
<1>8. Includes(todo'[w], "contact") \/ Unfixed => obj'[w].creator \in users \cup {None}
  BY <1>3, <1>5, <1>6 DEF OrderInv, ContactInv
<1>9. CreatorOK(obj'[w])
  BY <1>1, <1>5, <1>6 DEF OrderInv, CreatorInv, CreatorOK
<1>10. UNCHANGED <<users, mail, role, issuer, cache, left, ownerLeft, target>>
  BY DEF Unverify, history
<1> QED
  BY <1>1, <1>3, <1>7, <1>8, <1>9, <1>10, Drafts

LEMMA AdoptOrder ==
  ASSUME NEW w \in Worker, OrderInv(w), IInv',
         AdoptOwner(w) \/ AdoptEditor(w) \/ AdoptStaff(w)
  PROVE  OrderInv(w)'
<1>1. Now(todo[w]) \in {"adoptOwner", "adoptEditor", "adoptStaff"}
  BY AtNow DEF AdoptOwner, AdoptEditor, AdoptStaff, Adopt
<1>2. Now(todo[w]) \in Seeking /\ Now(todo[w]) \in Seeking \cup {"contact", "saveUser"}
      /\ Loaded(w) /\ Now(todo[w]) # "write"
  BY <1>1 DEF Seeking, Loaded
<1>3. UNCHANGED <<users, mail, role, issuer, cache, left, ownerLeft, target, heir>>
  BY DEF AdoptOwner, AdoptEditor, AdoptStaff, Adopt
<1>4. ASSUME NEW u \in Members, obj' = [obj EXCEPT ![w].creator = u], Ranked(u),
             Continue(w, <<"write">>) \/ (Continue(w, <<"write", "promote">>) /\ Owners = {})
      PROVE  OrderInv(w)'
  <2>1. PICK e \in {<<"write">>, <<"write", "promote">>} :
          Continue(w, e) /\ (e = <<"write", "promote">> => Owners = {})
    <3>1. <<"write">> # <<"write", "promote">>
      OBVIOUS
    <3> QED
      BY <1>4, <3>1
  <2>2. e \in Phase /\ Head(e) = "write" /\ (Includes(e, "promote") => Owners = {})
    <3>1. CASE e = <<"write">>
      <4>1. "write" \in Seeking \cup {"write"} /\ "write" # "promote"
        OBVIOUS
      <4> QED
        BY <3>1, <4>1, OnePhases, Zenon
    <3>2. CASE e = <<"write", "promote">>
      BY <2>1, <3>2, OnePhases, Zenon
    <3> QED
      BY <2>1, <3>1, <3>2
  <2>3. todo'[w] = e \o Tail(todo[w])
    BY <2>1, Continues DEF OrderInv, IInv
  <2>4. /\ Shape(todo'[w]) /\ Now(todo'[w]) = "write"
        /\ Includes(todo'[w], "contact") <=> Includes(todo[w], "contact")
        /\ Includes(todo'[w], "saveUser") <=> Includes(todo[w], "saveUser")
        /\ Includes(todo'[w], "promote") => Owners = {}
    BY <1>2, <2>2, <2>3, GoesOn DEF OrderInv
  <2>5. obj[w] \in Object /\ obj'[w] = [obj[w] EXCEPT !.creator = u]
    BY <1>4 DEF OrderInv, IInv, TypeOK
  <2>6. obj'[w].contact = obj[w].contact /\ obj'[w].creator = u
    BY <2>5 DEF Object
  <2>7. ~Includes(todo'[w], "contact") => ~Stale(obj'[w].contact)
    BY <1>2, <2>4, <2>6 DEF OrderInv, ContactInv
  <2>8. obj'[w].creator \in users
    BY <1>4, <2>6 DEF OrderInv, IInv, TypeOK
  <2> QED
    BY <1>1, <1>3, <1>4, <2>4, <2>6, <2>7, <2>8, Drafts
<1>5. ASSUME NEW h \in {"adoptEditor", "adoptStaff"}, Continue(w, <<h>>), UNCHANGED obj,
             Owners = {}, h = "adoptStaff" => Having("editor") = {}
      PROVE  OrderInv(w)'
  <2>1. h \in Seeking /\ h # "promote" /\ h # "saveHeir" /\ h \notin {"emails", "cascade", "unstaff"}
    BY DEF Seeking
  <2>2. /\ Shape(todo'[w]) /\ Now(todo'[w]) = h
        /\ Includes(todo'[w], "contact") <=> Includes(todo[w], "contact")
        /\ Includes(todo'[w], "saveUser") <=> Includes(todo[w], "saveUser")
    BY <1>2, <1>5, <2>1, Looks
  <2>3. Owners' = {} /\ (h = "adoptStaff" => Having("editor")' = {})
    BY <1>3, <1>5 DEF Owners, Having
  <2>4. LeaderlessInv(w)'
    BY <2>1, <2>2, <2>3 DEF LeaderlessInv
  <2> QED
    BY <1>2, <1>3, <1>5, <2>1, <2>2, <2>4, Quiet
<1>6. \A u \in User, r \in Role : u \in Having(r) => u \in Members /\ role[u] = r
  BY NoneIsNothing DEF Having, Members
<1>7. CASE AdoptOwner(w)
  <2>1. ASSUME NEW u \in Having("owner"), obj' = [obj EXCEPT ![w].creator = u],
               Continue(w, <<"write">>)
        PROVE  OrderInv(w)'
    <3>1. u \in Members /\ role[u] = "owner"
      BY <1>6 DEF Having, Role
    <3>2. Ranked(u)
      BY <3>1, Above3 DEF Ranked
    <3> QED
      BY <1>4, <2>1, <3>1, <3>2
  <2>2. CASE Having("owner") = {} /\ Continue(w, <<"adoptEditor">>) /\ UNCHANGED obj
    BY <1>5, <2>2 DEF Owners
  <2> QED
    BY <1>7, <2>1, <2>2 DEF AdoptOwner, Adopt
<1>8. CASE AdoptEditor(w)
  <2>1. Owners = {}
    BY <1>8, AtNow DEF AdoptEditor, Adopt, OrderInv, LeaderlessInv
  <2>2. ASSUME NEW u \in Having("editor"), obj' = [obj EXCEPT ![w].creator = u],
               Continue(w, <<"write", "promote">>)
        PROVE  OrderInv(w)'
    <3>1. u \in Members /\ role[u] = "editor"
      BY <1>6 DEF Having, Role
    <3>2. Ranked(u)
      BY <2>1, <3>1, Above3 DEF Ranked, Owners, Having, Members
    <3> QED
      BY <1>4, <2>1, <2>2, <3>1, <3>2
  <2>3. CASE Having("editor") = {} /\ Continue(w, <<"adoptStaff">>) /\ UNCHANGED obj
    BY <1>5, <2>1, <2>3
  <2> QED
    BY <1>8, <2>2, <2>3 DEF AdoptEditor, Adopt
<1>9. CASE AdoptStaff(w)
  <2>1. Owners = {} /\ Having("editor") = {}
    BY <1>9, AtNow DEF AdoptStaff, Adopt, OrderInv, LeaderlessInv
  <2>2. ASSUME NEW u \in Having("staff"), obj' = [obj EXCEPT ![w].creator = u],
               Continue(w, <<"write", "promote">>)
        PROVE  OrderInv(w)'
    <3>1. u \in Members /\ role[u] = "staff"
      BY <1>6 DEF Having, Role
    <3>2. Ranked(u)
      BY <2>1, <3>1, Above3 DEF Ranked, Owners, Having, Members
    <3> QED
      BY <1>4, <2>1, <2>2, <3>1, <3>2
  <2>3. CASE Continue(w, <<"unverify", "write">>) /\ UNCHANGED obj
    <3>1. PICK e : e = <<"unverify", "write">>
      OBVIOUS
    <3>2. e \in Phase /\ Head(e) = "unverify" /\ ~Includes(e, "promote")
      BY <3>1, OnePhases, Zenon
    <3>3. todo'[w] = e \o Tail(todo[w])
      BY <2>3, <3>1, Continues, Zenon DEF OrderInv, IInv
    <3>4. /\ Shape(todo'[w]) /\ Now(todo'[w]) = "unverify"
          /\ Includes(todo'[w], "contact") <=> Includes(todo[w], "contact")
          /\ Includes(todo'[w], "saveUser") <=> Includes(todo[w], "saveUser")
          /\ ~Includes(todo'[w], "promote")
      BY <1>2, <3>2, <3>3, GoesOn DEF OrderInv
    <3>5. LeaderlessInv(w)'
      BY <3>4 DEF LeaderlessInv
    <3> QED
      BY <1>2, <1>3, <2>3, <3>4, <3>5, Quiet
  <2> QED
    BY <1>9, <2>2, <2>3 DEF AdoptStaff, Adopt
<1> QED
  BY <1>7, <1>8, <1>9

LEMMA WriteOrder ==
  ASSUME NEW w \in Worker, OrderInv(w), IInv', Write(w)
  PROVE  OrderInv(w)'
<1>1. Now(todo[w]) = "write" /\ Loaded(w)
  BY AtNow DEF Write, Loaded
<1>2. UNCHANGED <<users, mail, role, left, ownerLeft, obj, target>>
  BY DEF Write, local, history
<1>3. CASE obj[w].creator \in users \cup {None}
  <2>1. issuer' = obj[w] /\ cache' = obj[w] /\ Continue(w, <<>>)
    BY <1>3 DEF Write
  <2>2. todo'[w] = <<>> \o Tail(todo[w])
    BY <2>1, Continues DEF OrderInv, IInv
  <2>3. /\ Shape(todo'[w])
        /\ Includes(todo'[w], "contact") <=> Includes(todo[w], "contact")
        /\ Includes(todo'[w], "saveUser") <=> Includes(todo[w], "saveUser")
        /\ Includes(todo'[w], "promote") <=> Includes(todo[w], "promote")
        /\ Now(todo'[w]) \in {"none", "saveUser", "write", "contact", "ensure", "promote"}
    BY <1>1, <2>2, Written DEF OrderInv
  <2>4. Members' = Members /\ Owners' = Owners
    BY <1>2 DEF Members, Owners, Having
  <2>5. ManagedInv(w)'
    BY <1>2, <2>3, <2>4 DEF OrderInv, ManagedInv
  <2>6. LeaderlessInv(w)'
    BY <2>3, <2>4 DEF OrderInv, LeaderlessInv
  <2>7. MailInv(w)' /\ OwnerInv'
    BY <1>1, <1>2, <2>4 DEF OrderInv, MailInv, OwnerInv
  <2>8. Stale(issuer.contact)' <=> Stale(obj[w].contact)
    BY <1>2, <2>1, <2>4 DEF Stale
  <2>9. Stale(obj[w].contact)' <=> Stale(obj[w].contact)
    BY <1>2, <2>4 DEF Stale
  <2>10. Unfixed' => Includes(todo[w], "contact")
    BY <1>1, <2>8 DEF Unfixed, OrderInv, ContactInv
  <2>11. ContactInv(w)'
    BY <1>1, <1>2, <1>3, <2>1, <2>3, <2>9, <2>10 DEF OrderInv, ContactInv
  <2>12. CreatorInv(w)'
    BY <1>2, <2>1 DEF CreatorInv, CreatorOK
  <2> QED
    BY <2>3, <2>5, <2>6, <2>7, <2>11, <2>12 DEF OrderInv
<1>4. CASE obj[w].creator \notin users \cup {None}
  <2>1. Fail(w) /\ UNCHANGED <<issuer, cache>>
    BY <1>4 DEF Write
  <2>2. ~Unfixed
    BY <1>1, <1>4, NotUnfixed
  <2>3. todo'[w] = <<>>
    BY <2>1, Fails DEF OrderInv, IInv
  <2> QED
    BY <1>1, <1>2, <2>1, <2>2, <2>3, Over
<1> QED
  BY <1>3, <1>4

\* The creator becomes an owner.
LEMMA Raised ==
  ASSUME NEW w \in Worker, OrderInv(w), IInv',
         Now(todo[w]) \in {"promote", "create"},
         NEW u, u = obj[w].creator, u \in users,
         role' = [role EXCEPT ![u] = "owner"],
         cache' \in {issuer, obj[w]}, Continue(w, <<>>),
         UNCHANGED <<users, mail, issuer, obj, target, left, ownerLeft>>
  PROVE  OrderInv(w)'
<1>1. Now(todo[w]) \in Seeking /\ Loaded(w) /\ Now(todo[w]) # "write"
  BY DEF Seeking, Loaded
<1>2. /\ Shape(todo'[w])
      /\ Now(todo'[w]) \in {"none", "saveUser", "write", "contact"}
      /\ Includes(todo'[w], "contact") <=> Includes(todo[w], "contact")
      /\ Includes(todo'[w], "saveUser") <=> Includes(todo[w], "saveUser")
      /\ ~Includes(todo'[w], "promote")
  BY <1>1, Finds
<1>3. u \in User /\ "owner" \in Role
  BY DEF OrderInv, IInv, TypeOK, Role
<1>4. /\ u \in Owners'
      /\ Members' = Members \cup {u} /\ Owners \subseteq Owners'
  BY <1>3, NoneIsNothing DEF Owners, Having, Members, OrderInv, IInv, TypeOK
<1>5. ManagedInv(w)'
  BY <1>2, <1>4 DEF OrderInv, ManagedInv
<1>6. LeaderlessInv(w)'
  BY <1>2 DEF LeaderlessInv
<1>7. MailInv(w)' /\ OwnerInv'
  BY <1>4 DEF OrderInv, MailInv, OwnerInv
<1>8. cache'.contact = issuer.contact /\ obj[w].contact = issuer.contact
  BY <1>1 DEF OrderInv, ContactInv
<1>9. Stale(obj[w].contact)' => Stale(obj[w].contact)
  BY <1>4 DEF Stale
<1>10. Stale(issuer.contact)' => Stale(obj[w].contact)
  BY <1>4, <1>8 DEF Stale
<1>11. Unfixed' => Includes(todo[w], "contact")
  BY <1>1, <1>10 DEF Unfixed, OrderInv, ContactInv
<1>12. ContactInv(w)'
  BY <1>1, <1>2, <1>8, <1>9, <1>11 DEF OrderInv, ContactInv
<1>13. CreatorOK(obj[w])
  BY <1>1 DEF OrderInv, CreatorInv
<1>14. CreatorInv(w)'
  BY <1>13 DEF CreatorInv, CreatorOK
<1> QED
  BY <1>2, <1>5, <1>6, <1>7, <1>12, <1>14 DEF OrderInv

LEMMA PromoteOrder ==
  ASSUME NEW w \in Worker, OrderInv(w), IInv', Promote(w) \/ CreateOwner(w)
  PROVE  OrderInv(w)'
<1>1. Now(todo[w]) \in {"promote", "create"}
  BY AtNow DEF Promote, CreateOwner
<1>2. Loaded(w) /\ Now(todo[w]) # "cascade"
  BY <1>1 DEF Loaded
<1>3. UNCHANGED <<users, mail, issuer, obj, target, left, ownerLeft>>
  BY DEF Promote, CreateOwner, local, history
<1>4. CASE Fail(w) /\ UNCHANGED <<role, cache>>
  <2>1. Shape(todo[w])
    BY DEF OrderInv
  <2>2. Now(todo[w]) = "promote" => Includes(todo[w], "promote")
    <3>1. SUFFICES ASSUME Now(todo[w]) = "promote" PROVE Includes(todo[w], "promote")
      OBVIOUS
    <3>2. PICK k \in Rest : todo[w] = <<"promote">> \o k
      BY <2>1, <3>1, Shapes, Beginnings
    <3>3. k \in Seq(Step)
      BY Rests
    <3> QED
      BY <3>2, <3>3, Names, Replaced, ZenonT(40)
  <2>3. Owners = {}
    BY <1>1, <2>2 DEF OrderInv, LeaderlessInv
  <2>4. ~Unfixed
    BY <2>3 DEF Unfixed
  <2>5. todo'[w] = <<>>
    BY <1>4, Fails DEF OrderInv, IInv
  <2> QED
    BY <1>2, <1>3, <1>4, <2>4, <2>5, Over
<1>5. CASE /\ obj[w].creator \in users
           /\ role' = [role EXCEPT ![obj[w].creator] = "owner"]
           /\ cache' \in {issuer, obj[w]}
           /\ Continue(w, <<>>)
  BY <1>1, <1>3, <1>5, Raised
<1> QED
  BY <1>4, <1>5 DEF Promote, CreateOwner

LEMMA NewContactOrder ==
  ASSUME NEW w \in Worker, OrderInv(w), IInv', NewContact(w)
  PROVE  OrderInv(w)'
<1>1. Now(todo[w]) = "contact" /\ Loaded(w)
  BY AtNow DEF NewContact, Loaded
<1>2. UNCHANGED <<users, mail, role, issuer, cache, target, left, ownerLeft>>
  BY DEF NewContact, history
<1>3. LET t == <<>> \o Tail(todo[w]) IN
      /\ Shape(t) /\ t \in Seq(Step) /\ Now(t) = "write"
      /\ Includes(todo[w], "contact") /\ ~Includes(t, "contact")
      /\ Includes(t, "saveUser") <=> Includes(todo[w], "saveUser")
      /\ ~Includes(t, "promote")
      /\ ~Includes(todo[w], "saveUser")
           => SubSeq(todo[w], 2 + Len(Save), Len(todo[w])) = <<>>
  BY <1>1, Renewed DEF OrderInv
<1>4. ASSUME NEW u \in Owners, obj' = [obj EXCEPT ![w].contact = u], Continue(w, <<>>)
      PROVE  OrderInv(w)'
  <2>1. todo'[w] = <<>> \o Tail(todo[w])
    BY <1>4, Continues DEF OrderInv, IInv
  <2>2. obj[w] \in Object /\ obj'[w] = [obj[w] EXCEPT !.contact = u]
    BY <1>4 DEF OrderInv, IInv, TypeOK
  <2>3. obj'[w].contact = u /\ obj'[w].creator = obj[w].creator
    BY <2>2 DEF Object
  <2>4. u \in Members
    BY NoneIsNothing DEF Owners, Having, Members, Role
  <2>5. ~Stale(obj'[w].contact)
    BY <2>3, <2>4 DEF Stale
  <2>6. obj'[w].creator \in users \cup {None}
    BY <1>1, <1>3, <2>3 DEF OrderInv, ContactInv
  <2>7. CreatorOK(obj'[w])
    BY <1>1, <2>3 DEF OrderInv, CreatorInv, CreatorOK
  <2> QED
    BY <1>1, <1>2, <1>3, <2>1, <2>5, <2>6, <2>7, Drafts
<1>5. CASE /\ Owners = {}
           /\ todo' = [todo EXCEPT ![w] = SubSeq(@, 2 + Len(Save), Len(@))]
  <2>1. ~Includes(todo[w], "saveUser")
    BY <1>5 DEF OrderInv, ManagedInv
  <2>2. todo'[w] = SubSeq(todo[w], 2 + Len(Save), Len(todo[w]))
    BY <1>5 DEF OrderInv, IInv, TypeOK
  <2>3. todo'[w] = <<>>
    BY <1>3, <2>1, <2>2, Zenon
  <2>4. ~Unfixed
    BY <1>5 DEF Unfixed
  <2> QED
    BY <1>1, <1>2, <2>3, <2>4, Over
<1> QED
  BY <1>4, <1>5 DEF NewContact

----------------------------------------------------------------------------
(* The staff list. *)

LEMMA SaveUserOrder ==
  ASSUME NEW w \in Worker, OrderInv(w), IInv', SaveUser(w)
  PROVE  OrderInv(w)'
<1>1. Now(todo[w]) = "saveUser"
  BY AtNow DEF SaveUser
<1>2. todo'[w] = <<>> /\ Includes(todo[w], "saveUser") /\ ~Includes(todo[w], "contact")
  <2>1. todo'[w] = <<>> \o Tail(todo[w])
    BY Continues DEF SaveUser, OrderInv, IInv
  <2> QED
    BY <1>1, <2>1, Ends DEF OrderInv
<1>3. target[w] \in users
  BY <1>2 DEF OrderInv, ManagedInv
<1>4. UNCHANGED <<users, mail, role, issuer, cache, left, ownerLeft>>
  BY <1>3 DEF SaveUser, history
<1>5. ~Unfixed
  BY <1>1, <1>2 DEF OrderInv, ContactInv
<1> QED
  BY <1>1, <1>2, <1>4, <1>5, Over

\* Somebody's row is added or changed, and an issuer is published.
LEMMA AddModifyOrder ==
  ASSUME NEW w \in Worker, OrderInv(w), IInv', Add(w) \/ Modify(w)
  PROVE  OrderInv(w)'
<1>1. Now(todo[w]) \in {"add", "modify"} /\ Now(todo[w]) \in {"add", "modify", "load", "unstaff"}
  BY AtNow DEF Add, Modify
<1>2. /\ <<>> \o Tail(todo[w]) = PutBack
      /\ ~Includes(todo[w], "contact") /\ Includes(todo[w], "saveUser")
  BY <1>1, Managed DEF OrderInv
<1>3. Loaded(w) /\ Now(todo[w]) # "write" /\ Now(todo[w]) # "cascade"
  BY <1>1 DEF Loaded
<1>4. ~Unfixed
  BY <1>2, <1>3 DEF OrderInv, ContactInv
<1>5. UNCHANGED <<users, mail, issuer, obj, target, left, ownerLeft>>
  BY DEF Add, Modify, local
<1>6. CASE Fail(w) /\ UNCHANGED <<role, cache>>
  <2>1. todo'[w] = <<>>
    BY <1>6, Fails DEF OrderInv, IInv
  <2> QED
    BY <1>3, <1>4, <1>5, <1>6, <2>1, Over
<1>7. CASE /\ role' = [role EXCEPT ![target[w]] = given[w]]
           /\ cache' \in {issuer, obj[w]}
           /\ Continue(w, <<>>)
  <2>1. todo'[w] = PutBack
    BY <1>2, <1>7, Continues DEF OrderInv, IInv
  <2>2. /\ Shape(todo'[w]) /\ Now(todo'[w]) = "saveUser"
        /\ ~Includes(todo'[w], "contact") /\ ~Includes(todo'[w], "promote")
    BY <2>1, Ends, Rests DEF Rest
  <2>3. target[w] \in User /\ given[w] \in Role
    BY DEF OrderInv, IInv, TypeOK
  <2>4. target[w] \in users /\ \E u \in Owners : u # target[w]
    BY <1>2 DEF OrderInv, ManagedInv
  <2>5. Members' = Members \cup {target[w]}
    BY <1>7, <2>3, NoneIsNothing DEF Members, OrderInv, IInv, TypeOK
  <2>6. \E u \in Owners' : u # target[w]
    BY <1>7, <2>4 DEF Owners, Having, OrderInv, IInv, TypeOK
  <2>7. ManagedInv(w)' /\ LeaderlessInv(w)' /\ MailInv(w)' /\ OwnerInv'
    BY <1>3, <1>5, <2>2, <2>4, <2>6 DEF ManagedInv, LeaderlessInv, MailInv, OwnerInv, OrderInv
  <2>8. cache'.contact = issuer.contact /\ obj[w].contact = issuer.contact
    BY <1>3, <1>7 DEF OrderInv, ContactInv
  <2>9. /\ Stale(issuer.contact)' => Stale(issuer.contact)
        /\ Stale(obj[w].contact)' => Stale(obj[w].contact)
    BY <1>5, <2>5 DEF Stale
  <2>10. ~Unfixed'
    BY <1>4, <2>4, <2>9 DEF Unfixed
  <2>11. ContactInv(w)'
    BY <1>2, <1>3, <1>5, <2>2, <2>8, <2>9, <2>10 DEF OrderInv, ContactInv
  <2>12. CreatorOK(obj[w])
    BY <1>3 DEF OrderInv, CreatorInv
  <2>13. CreatorInv(w)'
    BY <1>5, <1>7, <2>12 DEF CreatorInv, CreatorOK
  <2> QED
    BY <2>2, <2>7, <2>11, <2>13 DEF OrderInv
<1> QED
  BY <1>6, <1>7 DEF Add, Modify

LEMMA LoadOrder ==
  ASSUME NEW w \in Worker, OrderInv(w), IInv', Load(w)
  PROVE  OrderInv(w)'
<1>1. Now(todo[w]) = "load" /\ Loaded(w)
  BY AtNow DEF Load, Loaded
<1>2. /\ Tail(todo[w]) = Save \o PutBack /\ <<>> \o Tail(todo[w]) = Save \o PutBack
      /\ ~Includes(todo[w], "contact") /\ Includes(todo[w], "saveUser")
  BY <1>1, Managed DEF OrderInv
<1>3. UNCHANGED <<users, mail, role, issuer, cache, target, left, ownerLeft>>
  BY DEF Load, history
<1>4. ~Unfixed
  BY <1>1, <1>2 DEF OrderInv, ContactInv
<1>5. Members' = Members /\ Owners' = Owners
  BY <1>3 DEF Members, Owners, Having
<1>6. /\ Shape(todo'[w]) /\ Now(todo'[w]) \in {"unstaff", "write"}
      /\ ~Includes(todo'[w], "contact") /\ ~Includes(todo'[w], "promote")
      /\ Now(todo'[w]) = "unstaff" => obj'[w] = issuer
      /\ obj'[w] \in {issuer, obj[w]}
  <2>1. CASE Continue(w, <<"unstaff">>) /\ obj' = [obj EXCEPT ![w] = issuer]
    <3>1. todo'[w] = <<"unstaff">> \o Tail(todo[w])
      BY <2>1, Continues DEF OrderInv, IInv
    <3>2. todo'[w] = <<"unstaff">> \o (Save \o PutBack)
      BY <1>2, <3>1, Zenon
    <3>3. /\ Shape(todo'[w]) /\ Now(todo'[w]) = "unstaff"
          /\ ~Includes(todo'[w], "contact") /\ ~Includes(todo'[w], "promote")
      BY <3>2, Managing, Zenon
    <3>4. obj'[w] = issuer
      BY <2>1 DEF OrderInv, IInv, TypeOK
    <3> QED
      BY <3>3, <3>4
  <2>2. CASE Continue(w, <<>>) /\ UNCHANGED obj
    <3>1. todo'[w] = Save \o PutBack
      BY <1>2, <2>2, Continues DEF OrderInv, IInv
    <3> QED
      BY <2>2, <3>1, Ends, Rests DEF Rest
  <2> QED
    BY <2>1, <2>2 DEF Load
<1>7. ManagedInv(w)' /\ LeaderlessInv(w)' /\ MailInv(w)' /\ OwnerInv'
  BY <1>1, <1>2, <1>3, <1>5, <1>6
  DEF ManagedInv, LeaderlessInv, MailInv, OwnerInv, OrderInv
<1>8. obj[w].contact = issuer.contact /\ ~Stale(issuer.contact) /\ cache.contact = issuer.contact
  BY <1>1, <1>2 DEF OrderInv, ContactInv
<1>9. obj'[w].contact = issuer.contact /\ ~Stale(obj[w].contact)'
  BY <1>3, <1>5, <1>6, <1>8 DEF Stale
<1>10. ~Unfixed'
  BY <1>3, <1>4, <1>5 DEF Unfixed, Stale
<1>11. ContactInv(w)'
  BY <1>3, <1>6, <1>8, <1>9, <1>10 DEF ContactInv
<1>12. CreatorOK(obj[w]) /\ CreatorOK(cache)
  BY <1>1 DEF OrderInv, CreatorInv
<1>13. CreatorInv(w)'
  BY <1>3, <1>6, <1>12 DEF CreatorInv, CreatorOK
<1> QED
  BY <1>6, <1>7, <1>11, <1>13 DEF OrderInv

LEMMA UnstaffOrder ==
  ASSUME NEW w \in Worker, OrderInv(w), IInv', Unstaff(w)
  PROVE  OrderInv(w)'
<1> DEFINE isContact == obj[w].contact = target[w] /\ target[w] \in mail
<1>1. Now(todo[w]) = "unstaff" /\ Loaded(w)
  BY AtNow DEF Unstaff, Loaded
<1>2. /\ Tail(todo[w]) = Save \o PutBack /\ <<>> \o Tail(todo[w]) = Save \o PutBack
      /\ ~Includes(todo[w], "contact") /\ Includes(todo[w], "saveUser")
  BY <1>1, Managed DEF OrderInv
<1>3. target[w] \in users /\ \E u \in Owners : u # target[w]
  BY <1>2 DEF OrderInv, ManagedInv
<1>4. /\ role' = [role EXCEPT ![target[w]] = None]
      /\ cache' = obj[w]
      /\ Continue(w, IF isContact THEN NewContactEmail ELSE <<>>)
      /\ left' = IF isContact THEN left \cup {target[w]} ELSE left
      /\ UNCHANGED <<users, mail, issuer, obj, target, ownerLeft>>
  BY <1>3 DEF Unstaff, local
<1>5. target[w] \in mail
  BY <1>1, <1>3 DEF OrderInv, MailInv
<1>6. Members' = Members \ {target[w]}
  BY <1>4, NoneIsNothing DEF Members, OrderInv, IInv, TypeOK
<1>7. \E u \in Owners' : u # target[w]
  BY <1>3, <1>4 DEF Owners, Having, OrderInv, IInv, TypeOK
<1>8. obj[w] = issuer /\ ~Stale(issuer.contact)
  BY <1>1, <1>2 DEF OrderInv, ContactInv
<1>9. /\ Shape(todo'[w]) /\ Now(todo'[w]) \in {"ensure", "write"}
      /\ Includes(todo'[w], "contact") <=> isContact
      /\ ~Includes(todo'[w], "promote")
      /\ ~isContact => Now(todo'[w]) = "write"
  <2>1. CASE isContact
    <3>1. todo'[w] = NewContactEmail \o Tail(todo[w])
      BY <1>4, <2>1, Continues DEF OrderInv, IInv
    <3>2. todo'[w] = NewContactEmail \o (Save \o PutBack)
      BY <1>2, <3>1, Zenon
    <3> HIDE DEF isContact
    <3>3. Save \o PutBack \in {<<>>, Save \o PutBack}
      OBVIOUS
    <3>4. /\ Shape(todo'[w]) /\ Now(todo'[w]) = "ensure"
          /\ Includes(todo'[w], "contact") /\ ~Includes(todo'[w], "promote")
      BY <3>2, <3>3, Renewing, Zenon
    <3> QED
      BY <2>1, <3>4
  <2>2. CASE ~isContact
    <3>1. todo'[w] = <<>> \o Tail(todo[w])
      BY <1>4, <2>2, Continues DEF OrderInv, IInv
    <3> HIDE DEF isContact
    <3> QED
      BY <1>2, <2>2, <3>1, Ends, Rests DEF Rest
  <2> QED
    BY <2>1, <2>2
<1>10. ManagedInv(w)' /\ LeaderlessInv(w)' /\ MailInv(w)' /\ OwnerInv'
  BY <1>1, <1>3, <1>4, <1>7, <1>9
  DEF ManagedInv, LeaderlessInv, MailInv, OwnerInv, OrderInv
<1>11. ~isContact => ~Stale(issuer.contact)'
  BY <1>4, <1>5, <1>6, <1>8 DEF Stale
<1>12. issuer.creator \in users \cup {None}
  BY DEF OrderInv, IInv, TypeOK
<1> HIDE DEF isContact
<1>13. Unfixed' => isContact
  BY <1>11 DEF Unfixed
<1>14. ContactInv(w)'
  BY <1>4, <1>8, <1>9, <1>11, <1>12, <1>13 DEF ContactInv
<1>15. CreatorInv(w)'
  BY <1>4, <1>8 DEF CreatorInv, CreatorOK
<1> QED
  BY <1>9, <1>10, <1>14, <1>15 DEF OrderInv

----------------------------------------------------------------------------
(* An account is deleted. *)

LEMMA DeleteEmailsOrder ==
  ASSUME NEW w \in Worker, OrderInv(w), IInv', DeleteEmails(w)
  PROVE  OrderInv(w)'
<1>1. Now(todo[w]) = "emails" /\ Now(todo[w]) \in {"emails", "cascade", "reload"}
  BY AtNow DEF DeleteEmails
<1>2. todo'[w] = <<>> \o Tail(todo[w])
  BY Continues DEF DeleteEmails, OrderInv, IInv
<1>3. /\ Shape(todo'[w]) /\ Now(todo'[w]) = "cascade"
      /\ Includes(todo'[w], "contact") <=> Includes(todo[w], "contact")
      /\ ~Includes(todo'[w], "saveUser") /\ ~Includes(todo'[w], "promote")
  BY <1>1, <1>2, Leaves DEF OrderInv
<1>4. UNCHANGED <<users, role, issuer, cache, obj, target, left, ownerLeft>>
  BY DEF DeleteEmails, local, history
<1>5. Members' = Members /\ Owners' = Owners
  BY <1>4 DEF Members, Owners, Having
<1>6. ManagedInv(w)' /\ LeaderlessInv(w)' /\ OwnerInv'
  BY <1>3, <1>4, <1>5 DEF ManagedInv, LeaderlessInv, OwnerInv, OrderInv
<1>7. MailInv(w)'
  BY <1>1, <1>3, <1>4 DEF OrderInv, MailInv, DeleteEmails
<1>8. ~Loaded(w)'
  BY <1>3 DEF Loaded
<1>9. Unfixed' <=> Unfixed
  BY <1>4, <1>5 DEF Unfixed, Stale
<1>10. ContactInv(w)'
  BY <1>1, <1>3, <1>4, <1>8, <1>9 DEF OrderInv, ContactInv
<1>11. CreatorInv(w)'
  BY <1>4, <1>8 DEF OrderInv, CreatorInv, CreatorOK
<1> QED
  BY <1>3, <1>6, <1>7, <1>10, <1>11 DEF OrderInv

LEMMA CascadeOrder ==
  ASSUME NEW w \in Worker, OrderInv(w), IInv', Cascade(w)
  PROVE  OrderInv(w)'
<1> DEFINE u == target[w]
<1>1. Now(todo[w]) = "cascade" /\ Now(todo[w]) \in {"emails", "cascade", "reload"}
  BY AtNow DEF Cascade
<1>2. todo'[w] = <<>> \o Tail(todo[w])
  BY Continues DEF Cascade, OrderInv, IInv
<1>3. /\ Shape(todo'[w]) /\ Now(todo'[w]) \in {"none", "reload"}
      /\ Includes(todo'[w], "contact") <=> Includes(todo[w], "contact")
      /\ ~Includes(todo'[w], "saveUser") /\ ~Includes(todo'[w], "promote")
  BY <1>1, <1>2, Leaves DEF OrderInv
<1>4. /\ users' = users \ {u}
      /\ role' = [role EXCEPT ![u] = None]
      /\ issuer' = IF issuer.creator = u THEN [issuer EXCEPT !.creator = None] ELSE issuer
      /\ left' = IF role[u] # None /\ issuer.contact = u THEN left \cup {u} ELSE left
      /\ ownerLeft' = (ownerLeft \/ role[u] = "owner")
      /\ UNCHANGED <<mail, cache, obj, target>>
  BY DEF Cascade, local
<1>5. u \in User /\ issuer \in Object
  BY DEF OrderInv, IInv, TypeOK
<1>6. /\ issuer'.contact = issuer.contact
      /\ issuer'.creator = IF issuer.creator = u THEN None ELSE issuer.creator
  BY <1>4, <1>5 DEF Object
<1>7. Members' = Members \ {u} /\ Owners' = Owners \ {u}
  <2>1. \A x \in User : role'[x] = IF x = u THEN None ELSE role[x]
    BY <1>4, <1>5 DEF OrderInv, IInv, TypeOK
  <2>2. None # "owner"
    BY NoneIsNothing DEF Role
  <2>3. Members' = Members \ {u}
    BY <2>1 DEF Members
  <2>4. Owners' = Owners \ {u}
    BY <2>1, <2>2 DEF Owners, Having
  <2> QED
    BY <2>3, <2>4
<1>8. (u \in Members <=> role[u] # None) /\ (u \in Owners <=> role[u] = "owner")
  BY <1>5 DEF Members, Owners, Having
<1> HIDE DEF u
<1>9. ManagedInv(w)' /\ LeaderlessInv(w)'
  BY <1>3 DEF ManagedInv, LeaderlessInv
<1>10. OwnerInv'
  BY <1>4, <1>7, <1>8 DEF OwnerInv, OrderInv
<1>11. MailInv(w)'
  BY <1>4 DEF OrderInv, MailInv, u
<1>12. ~Loaded(w)'
  BY <1>3 DEF Loaded
<1>13. Unfixed' => Includes(todo[w], "contact")
  <2>1. SUFFICES ASSUME Unfixed' PROVE Includes(todo[w], "contact")
    OBVIOUS
  <2>2. issuer.contact \in left' \ Members' /\ Owners # {}
    BY <1>6, <1>7, <2>1 DEF Unfixed, Stale
  <2>3. CASE issuer.contact = u /\ role[u] # None
    BY <1>1, <2>3 DEF OrderInv, ContactInv, u
  <2>4. CASE ~(issuer.contact = u /\ role[u] # None)
    <3>1. Unfixed
      BY <1>4, <1>7, <1>8, <2>2, <2>4 DEF Unfixed, Stale
    <3> QED
      BY <1>1, <3>1 DEF OrderInv, ContactInv
  <2> QED
    BY <2>3, <2>4
<1>14. ContactInv(w)'
  BY <1>3, <1>4, <1>6, <1>12, <1>13 DEF OrderInv, ContactInv
<1>15. cache.creator = issuer.creator \/ cache.creator \in User \ users
  BY DEF OrderInv, CreatorInv, CreatorOK
<1>16. CreatorInv(w)'
  BY <1>4, <1>5, <1>6, <1>12, <1>15 DEF CreatorInv, CreatorOK
<1> QED
  BY <1>3, <1>9, <1>10, <1>11, <1>14, <1>16 DEF OrderInv

LEMMA ReloadOrder ==
  ASSUME NEW w \in Worker, OrderInv(w), IInv', Reload(w)
  PROVE  OrderInv(w)'
<1>1. Now(todo[w]) = "reload" /\ Now(todo[w]) \in {"emails", "cascade", "reload"}
  BY AtNow DEF Reload
<1>2. todo'[w] = <<>> \o Tail(todo[w])
  BY Continues DEF Reload, OrderInv, IInv
<1>3. /\ Shape(todo'[w]) /\ Now(todo'[w]) = "ensure" /\ Includes(todo'[w], "contact")
      /\ ~Includes(todo'[w], "saveUser") /\ ~Includes(todo'[w], "promote")
  BY <1>1, <1>2, Leaves DEF OrderInv
<1>4. UNCHANGED <<users, mail, role, issuer, cache, target, left, ownerLeft>>
  BY DEF Reload, history
<1>5. obj'[w] = issuer /\ issuer.creator \in users \cup {None}
  BY DEF Reload, OrderInv, IInv, TypeOK
<1>6. Members' = Members /\ Owners' = Owners
  BY <1>4 DEF Members, Owners, Having
<1>7. ManagedInv(w)' /\ LeaderlessInv(w)' /\ OwnerInv'
  BY <1>3, <1>4, <1>6 DEF ManagedInv, LeaderlessInv, OwnerInv, OrderInv
<1>8. MailInv(w)'
  BY <1>1, <1>4 DEF OrderInv, MailInv
<1>9. ContactInv(w)'
  BY <1>3, <1>4, <1>5 DEF OrderInv, ContactInv
<1>10. CreatorInv(w)'
  BY <1>4, <1>5 DEF OrderInv, CreatorInv, CreatorOK
<1> QED
  BY <1>3, <1>7, <1>8, <1>9, <1>10 DEF OrderInv

----------------------------------------------------------------------------
(* Requests arrive. *)

LEMMA Resting ==
  ASSUME NEW w \in Worker, OrderInv(w), todo[w] = <<>>
  PROVE  /\ Now(todo[w]) = "none" /\ ~Loaded(w) /\ ~Unfixed
         /\ users \subseteq mail
         /\ cache.contact = issuer.contact /\ CreatorOK(cache)
<1>1. Now(todo[w]) = "none" /\ \A x : ~Includes(todo[w], x)
  BY Ends
<1>2. ~Loaded(w)
  BY <1>1 DEF Loaded
<1>3. ~Unfixed
  BY <1>1 DEF OrderInv, ContactInv
<1>4. users \subseteq mail
  BY <1>1 DEF OrderInv, MailInv
<1> QED
  BY <1>1, <1>2, <1>3, <1>4 DEF OrderInv, ContactInv, CreatorInv

LEMMA Arrives ==
  ASSUME TypeOK, NEW w \in Worker, NEW kind, NEW steps, Arrive(w, kind, steps)
  PROVE  todo[w] = <<>> /\ todo'[w] = steps
BY DEF TypeOK, Arrive

LEMMA ManagingOrder ==
  ASSUME NEW w \in Worker, OrderInv(w), IInv',
         StartAdd(w) \/ StartModify(w) \/ StartRemove(w)
  PROVE  OrderInv(w)'
<1>1. PICK by \in User, u \in User :
        /\ MayManage(by, u) /\ Got(w) /\ target' = [target EXCEPT ![w] = u]
        /\ UNCHANGED <<users, mail, role, issuer, cache, left, ownerLeft>>
        /\ \/ Arrive(w, "add", <<"add", "saveUser">>)
           \/ Arrive(w, "modify", <<"modify", "saveUser">>)
           \/ Arrive(w, "remove", <<"load">> \o Save \o <<"saveUser">>)
  BY DEF StartAdd, StartModify, StartRemove
<1>2. todo[w] = <<>>
  BY <1>1 DEF Arrive
<1>3. \/ todo'[w] = <<"add", "saveUser">>
      \/ todo'[w] = <<"modify", "saveUser">>
      \/ todo'[w] = <<"load">> \o Save \o <<"saveUser">>
  BY <1>1, Arrives DEF OrderInv, IInv
<1>4. /\ Shape(todo'[w])
      /\ Now(todo'[w]) \in {"add", "modify", "load", "unstaff"}
      /\ ~Includes(todo'[w], "contact") /\ ~Includes(todo'[w], "promote")
  <2>1. PICK s : s = todo'[w]
    OBVIOUS
  <2> QED
    BY <1>3, <2>1, Managing, Zenon
<1>5. Now(todo'[w]) # "unstaff"
  <2>1. PICK e, k : e = <<"load">> /\ k = Save \o PutBack
    OBVIOUS
  <2>2. e \in Seq(Step) /\ e # <<>> /\ Save \in Seq(Step) /\ PutBack \in Seq(Step) /\ Head(e) = "load"
    BY <2>1, EarlySteps, StepSequences, Rests, TailOfOne, Zenon DEF Rest
  <2>3. (e \o Save) \o PutBack = e \o k
    BY <2>1, <2>2, ConcatAssociative
  <2>4. k \in Seq(Step)
    BY <2>1, Rests DEF Rest
  <2>5. e \o k # <<>> /\ Head(e \o k) = "load"
    BY <2>2, <2>4, TailOfConcat
  <2>6. ASSUME todo'[w] = <<"load">> \o Save \o <<"saveUser">> PROVE Now(todo'[w]) = "load"
    <3>1. todo'[w] = e \o k
      BY <2>1, <2>3, <2>6, Zenon DEF PutBack
    <3> QED
      BY <2>5, <3>1 DEF Now
  <2>7. ASSUME NEW h \in {"add", "modify"}, todo'[w] = <<h, "saveUser">> PROVE Now(todo'[w]) = h
    <3>1. h \in Step /\ "saveUser" \in Step
      BY EarlySteps, Names
    <3>2. PICK s : s = todo'[w]
      OBVIOUS
    <3>3. s # <<>> /\ Head(s) = h
      <4>1. <<h, "saveUser">> # <<>> /\ Head(<<h, "saveUser">>) = h
        BY <3>1, TailOfTwo, Zenon
      <4> QED
        BY <2>7, <3>2, <4>1, Zenon
    <3> QED
      BY <3>2, <3>3 DEF Now
  <2> QED
    BY <1>3, <2>6, <2>7
<1>6. /\ ~Unfixed /\ users \subseteq mail /\ cache.contact = issuer.contact /\ CreatorOK(cache)
      /\ ~Loaded(w)
  BY <1>2, Resting
<1>7. by \in Owners /\ u \in users /\ u # by
  BY <1>1 DEF MayManage
<1>8. target'[w] = u
  BY <1>1 DEF OrderInv, IInv, TypeOK
<1>9. obj'[w] \in {cache, issuer}
  BY <1>1 DEF Got, OrderInv, IInv, TypeOK
<1>10. Members' = Members /\ Owners' = Owners
  BY <1>1 DEF Members, Owners, Having
<1>11. ManagedInv(w)'
  BY <1>1, <1>7, <1>8, <1>10 DEF ManagedInv
<1>12. LeaderlessInv(w)'
  BY <1>4 DEF LeaderlessInv
<1>13. MailInv(w)' /\ OwnerInv'
  BY <1>1, <1>6, <1>10 DEF OrderInv, OwnerInv, MailInv
<1>14. ~Unfixed' /\ ~Stale(issuer.contact)'
  BY <1>1, <1>6, <1>7, <1>10 DEF Unfixed, Stale
<1>15. obj'[w].contact = issuer'.contact /\ cache' = cache /\ issuer' = issuer
  BY <1>1, <1>6, <1>9
<1>16. ~Stale(obj[w].contact)'
  BY <1>14, <1>15 DEF Stale
<1>17. ContactInv(w)'
  BY <1>4, <1>5, <1>6, <1>14, <1>15, <1>16 DEF ContactInv
<1>18. CreatorInv(w)'
  BY <1>1, <1>6, <1>9 DEF CreatorInv, CreatorOK
<1> QED
  BY <1>4, <1>11, <1>12, <1>13, <1>17, <1>18 DEF OrderInv

LEMMA StartPutOrder ==
  ASSUME NEW w \in Worker, OrderInv(w), IInv', StartPut(w)
  PROVE  OrderInv(w)'
<1>1. PICK o \in {cache, issuer}, v \in BOOLEAN, c \in User \cup {Outside} :
        /\ Arrive(w, "put", Save)
        /\ obj' = [obj EXCEPT ![w] = [creator |-> o.creator, contact |-> c,
                                      verified |-> o.verified \/ v]]
        /\ left' = left \ {c}
        /\ UNCHANGED <<users, mail, role, issuer, cache, target, ownerLeft>>
  BY DEF StartPut
<1>2. todo[w] = <<>> /\ todo'[w] = Save
  BY <1>1, Arrives DEF OrderInv, IInv
<1>3. /\ Shape(todo'[w]) /\ Now(todo'[w]) = "write"
      /\ ~Includes(todo'[w], "contact") /\ ~Includes(todo'[w], "saveUser")
      /\ ~Includes(todo'[w], "promote")
  BY <1>2, Ends
<1>4. ~Unfixed /\ users \subseteq mail /\ cache.contact = issuer.contact /\ CreatorOK(cache)
  BY <1>2, Resting
<1>5. obj'[w].creator = o.creator /\ obj'[w].contact = c
  BY <1>1 DEF OrderInv, IInv, TypeOK
<1>6. Members' = Members /\ Owners' = Owners
  BY <1>1 DEF Members, Owners, Having
<1>7. ManagedInv(w)' /\ LeaderlessInv(w)'
  BY <1>3 DEF ManagedInv, LeaderlessInv
<1>8. MailInv(w)' /\ OwnerInv'
  BY <1>1, <1>4, <1>6 DEF OrderInv, OwnerInv, MailInv
<1>9. ~Unfixed'
  BY <1>1, <1>4, <1>6 DEF Unfixed, Stale
<1>10. ~Stale(obj[w].contact)'
  BY <1>1, <1>5 DEF Stale
<1>11. ContactInv(w)'
  BY <1>1, <1>3, <1>4, <1>9, <1>10 DEF ContactInv
<1>12. CreatorInv(w)'
  BY <1>1, <1>4, <1>5 DEF CreatorInv, CreatorOK
<1> QED
  BY <1>3, <1>7, <1>8, <1>11, <1>12 DEF OrderInv

LEMMA StartLeaveOrder ==
  ASSUME NEW w \in Worker, OrderInv(w), IInv', StartLeave(w)
  PROVE  OrderInv(w)'
<1>1. PICK u \in users :
        /\ Arrive(w, "leave", IF role[u] # None /\ issuer.contact = u /\ u \in mail
                              THEN <<"emails", "cascade", "reload">> \o NewContactEmail
                              ELSE <<"emails", "cascade">>)
        /\ target' = [target EXCEPT ![w] = u]
        /\ UNCHANGED <<users, mail, role, issuer, cache, obj, left, ownerLeft>>
  BY DEF StartLeave
<1>2. PICK renew \in BOOLEAN : renew = (role[u] # None /\ issuer.contact = u /\ u \in mail)
  OBVIOUS
<1>3. /\ todo[w] = <<>>
      /\ todo'[w] = IF renew THEN <<"emails", "cascade", "reload">> \o NewContactEmail
                             ELSE <<"emails", "cascade">>
  <2>1. PICK s : s = IF renew THEN <<"emails", "cascade", "reload">> \o NewContactEmail
                             ELSE <<"emails", "cascade">>
    OBVIOUS
  <2>2. Arrive(w, "leave", s)
    BY <1>1, <1>2, <2>1, Zenon
  <2>3. todo[w] = <<>> /\ todo'[w] = s
    BY <2>2, Arrives DEF OrderInv, IInv
  <2> QED
    BY <2>1, <2>3, Zenon
<1>4. /\ Shape(todo'[w]) /\ Now(todo'[w]) = "emails"
      /\ Includes(todo'[w], "contact") <=> renew
      /\ ~Includes(todo'[w], "saveUser") /\ ~Includes(todo'[w], "promote")
  <2>1. PICK s : s = todo'[w]
    OBVIOUS
  <2> QED
    BY <1>3, <2>1, LeaveBegins, Zenon
<1>5. ~Unfixed /\ users \subseteq mail /\ cache.contact = issuer.contact /\ CreatorOK(cache)
  BY <1>3, Resting
<1>6. target'[w] = u
  BY <1>1 DEF OrderInv, IInv, TypeOK
<1>7. Members' = Members /\ Owners' = Owners
  BY <1>1 DEF Members, Owners, Having
<1>8. ManagedInv(w)' /\ LeaderlessInv(w)'
  BY <1>4 DEF ManagedInv, LeaderlessInv
<1>9. MailInv(w)' /\ OwnerInv'
  BY <1>1, <1>5, <1>7 DEF OrderInv, OwnerInv, MailInv
<1>10. ~Unfixed' /\ ~Loaded(w)'
  BY <1>1, <1>4, <1>5, <1>7 DEF Unfixed, Stale, Loaded
<1>11. role[u] # None /\ issuer.contact = u => renew
  BY <1>2, <1>5
<1>12. ContactInv(w)'
  BY <1>1, <1>4, <1>5, <1>6, <1>10, <1>11 DEF ContactInv
<1>13. CreatorInv(w)'
  BY <1>1, <1>5, <1>10 DEF CreatorInv, CreatorOK
<1> QED
  BY <1>4, <1>8, <1>9, <1>12, <1>13 DEF OrderInv

----------------------------------------------------------------------------
(* Requests one after the other: the theorems. *)

LEMMA StepOrder ==
  ASSUME NEW w \in Worker, OrderInv(w), IInv',
         Arrival(w) \/ StaffList(w) \/ Account(w) \/ Succession(w)
  PROVE  OrderInv(w)'
<1>1. CASE Arrival(w)
  BY <1>1, ManagingOrder, StartPutOrder, StartLeaveOrder DEF Arrival
<1>2. CASE StaffList(w)
  BY <1>2, AddModifyOrder, LoadOrder, UnstaffOrder, SaveUserOrder DEF StaffList
<1>3. CASE Account(w)
  BY <1>3, DeleteEmailsOrder, CascadeOrder, ReloadOrder DEF Account
<1>4. CASE Succession(w)
  BY <1>4, WriteOrder, EnsureOrder, CheckCreatorOrder, PromoteOrder, AdoptOrder,
     UnverifyOrder, SeekOrder, SaveHeirOrder, NewContactOrder DEF Succession
<1> QED
  BY <1>1, <1>2, <1>3, <1>4

LEMMA Unchanged ==
  ASSUME NEW w \in Worker, OrderInv(w), UNCHANGED vars
  PROVE  OrderInv(w)'
<1>1. IInv'
  BY NextIInv DEF OrderInv
<1>2. Members' = Members /\ Owners' = Owners
  BY DEF vars, Members, Owners, Having
<1>3. \A r : Having(r)' = Having(r)
  BY DEF vars, Having
<1>4. \A c : Stale(c)' <=> Stale(c)
  BY <1>2 DEF vars, Stale
<1>5. Unfixed' <=> Unfixed
  BY <1>2, <1>4 DEF vars, Unfixed
<1>6. Loaded(w)' <=> Loaded(w)
  BY DEF vars, Loaded
<1>7. ManagedInv(w)' /\ LeaderlessInv(w)'
  BY <1>2, <1>3 DEF vars, OrderInv, ManagedInv, LeaderlessInv
<1>8. MailInv(w)' /\ OwnerInv'
  BY <1>2 DEF vars, OrderInv, MailInv, OwnerInv
<1>9. ContactInv(w)'
  BY <1>4, <1>5, <1>6 DEF vars, OrderInv, ContactInv
<1>10. \A u : Ranked(u)' <=> Ranked(u)
  BY <1>2 DEF vars, Ranked
<1>11. CreatorInv(w)'
  BY <1>6, <1>10 DEF vars, OrderInv, CreatorInv, CreatorOK
<1>12. Shape(todo[w])'
  BY DEF vars, OrderInv
<1> QED
  BY <1>1, <1>7, <1>8, <1>9, <1>11, <1>12 DEF OrderInv

LEMMA NextOrder ==
  ASSUME NEW w, Worker = {w}, OrderInv(w), [Next]_vars
  PROVE  OrderInv(w)'
<1>1. IInv' /\ w \in Worker
  BY NextIInv DEF OrderInv
<1>2. CASE Next
  BY <1>1, <1>2, StepOrder DEF Next
<1>3. CASE UNCHANGED vars
  BY <1>1, <1>3, Unchanged
<1> QED
  BY <1>2, <1>3

LEMMA OrderInvariance ==
  ASSUME NEW CONSTANT w, Worker = {w}
  PROVE  Spec => []OrderInv(w)
<1>1. Init => OrderInv(w)
  BY InitOrder
<1>2. OrderInv(w) /\ [Next]_vars => OrderInv(w)'
  BY NextOrder
<1> QED
  BY <1>1, <1>2, PTL DEF Spec

\* When requests are carried out one after the other, an issuer with members
\* is without an owner only after an owner has deleted the account: neither
\* the owners' requests about other members nor ensure_owner take the last
\* owner away.
THEOREM OwnerAlwaysKept ==
  ASSUME NEW CONSTANT w, Worker = {w}
  PROVE  Spec => []OwnerKept
<1>1. OrderInv(w) => OwnerKept
  BY DEF OrderInv, OwnerInv, OwnerKept
<1> QED
  BY <1>1, OrderInvariance, PTL

\* When requests are carried out one after the other, new_contact_email has
\* found another contact by the end of every request in which the contact left
\* the staff or deleted the account, if the issuer has an owner.
THEOREM ContactAlwaysHandedOver ==
  ASSUME NEW CONSTANT w, Worker = {w}
  PROVE  Spec => []ContactHandedOver
<1>1. ASSUME OrderInv(w), Idle, Owners # {} PROVE issuer.contact \notin left \ Members
  <2>1. ~Unfixed
    BY <1>1, Resting DEF Idle
  <2> QED
    BY <1>1, <2>1 DEF Unfixed, Stale
<1>2. OrderInv(w) => ContactHandedOver
  BY <1>1 DEF ContactHandedOver
<1> QED
  BY <1>2, OrderInvariance, PTL

LEMMA SucceedsByRank ==
  ASSUME NEW w, Worker = {w}, OrderInv(w), OrderInv(w)', Next,
         issuer.creator = None, issuer'.creator # None
  PROVE  Ranked(issuer'.creator)
<1>1. w \in Worker /\ issuer' # issuer
  OBVIOUS
<1>2. Write(w)
  <2>1. Arrival(w) => UNCHANGED issuer
    BY DEF Arrival, StartAdd, StartModify, StartRemove, StartPut, StartLeave
  <2>2. StaffList(w) => UNCHANGED issuer
    BY DEF StaffList, Add, Modify, Load, Unstaff, SaveUser
  <2>3. ~Cascade(w)
    BY DEF Cascade, OrderInv, IInv, TypeOK, Object
  <2>4. Account(w) => UNCHANGED issuer
    BY <2>3 DEF Account, DeleteEmails, Reload
  <2>5. Succession(w) /\ ~Write(w) => UNCHANGED issuer
    BY DEF Succession, Ensure, CheckCreator, Promote, AdoptOwner, AdoptEditor,
       AdoptStaff, Adopt, Unverify, SeekEditor, SeekStaff, Seek, SaveHeir,
       CreateOwner, NewContact
  <2> QED
    BY <1>1, <2>1, <2>2, <2>4, <2>5 DEF Next
<1>3. issuer' = obj[w] /\ obj[w].creator \in users
  BY <1>1, <1>2 DEF Write
<1>4. Now(todo[w]) = "write" /\ Loaded(w)
  BY <1>1, <1>2, AtNow DEF Write, Loaded
<1>5. ~CreatorOK(obj[w])
  BY <1>3 DEF CreatorOK
<1> QED
  BY <1>3, <1>4, <1>5 DEF OrderInv, CreatorInv

\* When requests are carried out one after the other, who becomes the creator
\* of an issuer whose creator is gone is a member, and nobody on the staff has
\* a higher role.
THEOREM SuccessionAlwaysByRank ==
  ASSUME NEW CONSTANT w, Worker = {w}
  PROVE  Spec => SuccessionByRank
<1>1. ASSUME OrderInv(w), OrderInv(w)', [Next]_vars
      PROVE  [issuer.creator = None /\ issuer'.creator # None
               => LET u == issuer'.creator IN
                  u \in Members /\ \A v \in Members : role[v] \notin Above(role[u])]_vars
  <2>1. CASE Next
    BY <1>1, <2>1, SucceedsByRank DEF Ranked
  <2>2. CASE UNCHANGED vars
    BY <2>2
  <2> QED
    BY <1>1, <2>1, <2>2
<1> QED
  BY <1>1, OrderInvariance, PTL DEF Spec, SuccessionByRank

================================================================================
