---------------------------- MODULE IssuerStaff ----------------------------
(***************************************************************************)
(* The staff of one issuer: who is a member in which role, who the issuer's *)
(* creator and contact address are, and how Issuer.ensure_owner looks for   *)
(* a new owner when members leave or delete their accounts.                 *)
(*                                                                          *)
(* A Worker is a request thread.  Every ORM statement commits by itself, so *)
(* an action stands for one statement.  `todo' is what a worker has still   *)
(* to do in its request, next step first: a method that calls another puts  *)
(* the steps of the callee before its own, and a failed statement ends the  *)
(* request.                                                                 *)
(*                                                                          *)
(* Each user has one address, which is named by the user: `contact = u'     *)
(* says that the issuer's email is the address of u.                        *)
(***************************************************************************)
EXTENDS Integers, Sequences, FiniteSets

CONSTANTS
    User,           \* everybody who may have an account
    Worker,         \* request threads
    Requests,       \* the kinds of request that arrive
    MaxRequests,    \* bound: how many requests arrive
    Outside,        \* an email address that belongs to no user
    None            \* no creator; no role

ASSUME StaffConstants ==
    /\ Requests \subseteq {"add", "modify", "remove", "put", "leave"}
    /\ MaxRequests \in Nat
    /\ Outside \notin User
    /\ None \notin User \cup {"owner", "editor", "staff"}

VARIABLES
    (* the database and memcached *)
    users,      \* accounts
    mail,       \* the users whose (verified) address exists
    role,       \* IssuerStaff rows: the role of each user, None without a row
    issuer,     \* the Issuer row
    cache,      \* the Issuer object that memcached holds
    (* the workers *)
    todo,       \* the steps a worker has still to do
    obj,        \* the Issuer object that it works on
    target,     \* the user that its request is about
    heir,       \* the account that ensure_owner has chosen
    given,      \* the role that its request gives
    (* bound and history *)
    requests,   \* number of requests that have arrived
    granted,    \* the role that a request has last given to each user
    creators,   \* everybody who has been the issuer's creator
    left,       \* contacts that left and have not been named in a PUT since
    ownerLeft   \* an owner has deleted the account

vars == <<users, mail, role, issuer, cache, todo, obj, target, heir, given,
          requests, granted, creators, left, ownerLeft>>

Role == {"owner", "editor", "staff"}

Object == [creator : User \cup {None}, contact : User \cup {Outside},
           verified : BOOLEAN]

Step == {"add", "modify", "load", "unstaff", "emails", "cascade", "reload",
         "contact", "write", "ensure", "creator", "promote", "adoptOwner",
         "adoptEditor", "adoptStaff", "seekEditor", "seekStaff", "create",
         "unverify", "saveHeir", "saveUser"}

local == <<obj, target, heir, given>>
history == <<requests, granted, creators, left, ownerLeft>>

----------------------------------------------------------------------------
(* State formulae. *)

Members == {u \in User : role[u] # None}
Having(r) == {u \in User : role[u] = r}
Owners == Having("owner")

Idle == \A w \in Worker : todo[w] = <<>>

At(w, s) == todo[w] # <<>> /\ Head(todo[w]) = s

\* Worker w goes on with `steps' and then with what remains of its request.
Continue(w, steps) == todo' = [todo EXCEPT ![w] = steps \o Tail(@)]

\* The request of w ends with an error response.
Fail(w) == todo' = [todo EXCEPT ![w] = <<>>]

\* Issuer.save: the whole row is written, then ensure_owner is called.
\* new_contact_email: ensure_owner, a new address, save.
Save == <<"write", "ensure">>
NewContactEmail == <<"ensure", "contact">> \o Save

----------------------------------------------------------------------------
(* Requests arrive.  Permission classes and the checks of the payload come  *)
(* first; what they saw may be out of date when the request is carried out. *)

Arrive(w, kind, steps) ==
    /\ kind \in Requests
    /\ requests < MaxRequests
    /\ todo[w] = <<>>
    /\ requests' = requests + 1
    /\ todo' = [todo EXCEPT ![w] = steps]

\* The view's get_object: memcached, or the row when the entry was evicted.
Got(w) == obj' \in {[obj EXCEPT ![w] = cache], [obj EXCEPT ![w] = issuer]}

\* Mutant: owners may change their own membership.
MayManageAll(by, u) == by \in Owners /\ u \in users

\* IssuerStaffList.post by an owner, about another user.
MayManage(by, u) == by \in Owners /\ u \in users /\ u # by

StartAdd(w) == \E by, u \in User, r \in Role :
    /\ Arrive(w, "add", <<"add", "saveUser">>)
    /\ MayManage(by, u)
    /\ Got(w)
    /\ target' = [target EXCEPT ![w] = u]
    /\ given' = [given EXCEPT ![w] = r]
    /\ UNCHANGED <<users, mail, role, issuer, cache, heir, granted, creators,
                   left, ownerLeft>>

StartModify(w) == \E by, u \in User, r \in Role :
    /\ Arrive(w, "modify", <<"modify", "saveUser">>)
    /\ MayManage(by, u)
    /\ Got(w)
    /\ target' = [target EXCEPT ![w] = u]
    /\ given' = [given EXCEPT ![w] = r]
    /\ UNCHANGED <<users, mail, role, issuer, cache, heir, granted, creators,
                   left, ownerLeft>>

StartRemove(w) == \E by, u \in User :
    /\ Arrive(w, "remove", <<"load">> \o Save \o <<"saveUser">>)
    /\ MayManage(by, u)
    /\ Got(w)
    /\ target' = [target EXCEPT ![w] = u]
    /\ UNCHANGED <<users, mail, role, issuer, cache, heir, given, granted,
                   creators, left, ownerLeft>>

\* IssuerDetail.put by an owner or editor: any contact address, which may
\* lead to automatic verification.
StartPut(w) == \E by \in User, o \in {cache, issuer}, v \in BOOLEAN :
    \E c \in User \cup {Outside} :
    /\ Arrive(w, "put", Save)
    /\ by \in Owners \cup Having("editor")
    /\ obj' = [obj EXCEPT ![w] = [creator |-> o.creator, contact |-> c,
                                  verified |-> o.verified \/ v]]
    /\ left' = left \ {c}
    /\ UNCHANGED <<users, mail, role, issuer, cache, target, heir, given,
                   granted, creators, ownerLeft>>

\* Mutant: the contact is looked up when the addresses are gone already.
StartLeaveUnseen(w) == \E u \in users :
    /\ Arrive(w, "leave", <<"emails", "cascade">>)
    /\ target' = [target EXCEPT ![w] = u]
    /\ UNCHANGED <<users, mail, role, issuer, cache, obj, heir, given,
                   granted, creators, left, ownerLeft>>

\* BadgeUser.delete: whether the user is the contact of the issuer is looked
\* up before anything is deleted.
StartLeave(w) == \E u \in users :
    /\ Arrive(w, "leave", IF role[u] # None /\ issuer.contact = u /\ u \in mail
                          THEN <<"emails", "cascade", "reload">> \o NewContactEmail
                          ELSE <<"emails", "cascade">>)
    /\ target' = [target EXCEPT ![w] = u]
    /\ UNCHANGED <<users, mail, role, issuer, cache, obj, heir, given,
                   granted, creators, left, ownerLeft>>

----------------------------------------------------------------------------
(* The staff list. *)

\* Mutant: get_or_create without the defaults.
AddDefaultRole(w) ==
    /\ At(w, "add")
    /\ IF role[target[w]] = None /\ target[w] \in users
       THEN /\ role' = [role EXCEPT ![target[w]] = "staff"]
            /\ granted' = [granted EXCEPT ![target[w]] = given[w]]
            /\ cache' = obj[w]
            /\ Continue(w, <<>>)
       ELSE /\ Fail(w)
            /\ UNCHANGED <<role, granted, cache>>
    /\ UNCHANGED <<users, mail, issuer, local, requests, creators, left,
                   ownerLeft>>

\* get_or_create.  A new row publishes the issuer that it was created with;
\* the account may be gone (foreign key), and an existing row is an error.
Add(w) ==
    /\ At(w, "add")
    /\ IF role[target[w]] = None /\ target[w] \in users
       THEN /\ role' = [role EXCEPT ![target[w]] = given[w]]
            /\ granted' = [granted EXCEPT ![target[w]] = given[w]]
            /\ cache' = obj[w]
            /\ Continue(w, <<>>)
       ELSE /\ Fail(w)
            /\ UNCHANGED <<role, granted, cache>>
    /\ UNCHANGED <<users, mail, issuer, local, requests, creators, left,
                   ownerLeft>>

\* save(update_fields=("role",)): never inserts a row.  The row was loaded
\* without its issuer, which publish() therefore reads from the database.
Modify(w) ==
    /\ At(w, "modify")
    /\ IF role[target[w]] # None
       THEN /\ role' = [role EXCEPT ![target[w]] = given[w]]
            /\ granted' = [granted EXCEPT ![target[w]] = given[w]]
            /\ cache' = issuer
            /\ Continue(w, <<>>)
       ELSE /\ Fail(w)
            /\ UNCHANGED <<role, granted, cache>>
    /\ UNCHANGED <<users, mail, issuer, local, requests, creators, left,
                   ownerLeft>>

\* The row to remove is looked up; with it comes the issuer as it is now.
\* Without a row, the request goes on with the object it had.
Load(w) ==
    /\ At(w, "load")
    /\ IF role[target[w]] # None
       THEN obj' = [obj EXCEPT ![w] = issuer] /\ Continue(w, <<"unstaff">>)
       ELSE UNCHANGED obj /\ Continue(w, <<>>)
    /\ UNCHANGED <<users, mail, role, issuer, cache, target, heir, given,
                   history>>

\* IssuerStaff.delete.  Whether the member is the contact (is_staff_contact)
\* is looked up first; that loads the account, which may be gone.
Unstaff(w) ==
    LET isContact == obj[w].contact = target[w] /\ target[w] \in mail IN
    /\ At(w, "unstaff")
    /\ IF target[w] \in users
       THEN /\ role' = [role EXCEPT ![target[w]] = None]
            /\ granted' = [granted EXCEPT ![target[w]] = None]
            /\ cache' = obj[w]
            /\ Continue(w, IF isContact THEN NewContactEmail ELSE <<>>)
            /\ left' = IF isContact THEN left \cup {target[w]} ELSE left
       ELSE /\ Fail(w)
            /\ UNCHANGED <<role, granted, cache, left>>
    /\ UNCHANGED <<users, mail, issuer, local, requests, creators, ownerLeft>>

----------------------------------------------------------------------------
(* An account is deleted. *)

DeleteEmails(w) ==
    /\ At(w, "emails")
    /\ mail' = mail \ {target[w]}
    /\ Continue(w, <<>>)
    /\ UNCHANGED <<users, role, issuer, cache, local, history>>

\* Mutant: the staff row survives the account.
CascadeKeepsStaff(w) ==
    LET u == target[w] IN
    /\ At(w, "cascade")
    /\ users' = users \ {u}
    /\ issuer' = IF issuer.creator = u THEN [issuer EXCEPT !.creator = None]
                                       ELSE issuer
    /\ Continue(w, <<>>)
    /\ UNCHANGED <<mail, role, cache, local, history>>

\* One transaction: the user, the staff row (on_delete CASCADE), created_by
\* (SET_NULL).  Nothing of this is published.
Cascade(w) ==
    LET u == target[w] IN
    /\ At(w, "cascade")
    /\ users' = users \ {u}
    /\ role' = [role EXCEPT ![u] = None]
    /\ granted' = [granted EXCEPT ![u] = None]
    /\ issuer' = IF issuer.creator = u THEN [issuer EXCEPT !.creator = None]
                                       ELSE issuer
    /\ left' = IF role[u] # None /\ issuer.contact = u THEN left \cup {u} ELSE left
    /\ ownerLeft' = (ownerLeft \/ role[u] = "owner")
    /\ Continue(w, <<>>)
    /\ UNCHANGED <<mail, cache, local, requests, creators>>

\* The issuers whose contact it was, from the database.
Reload(w) ==
    /\ At(w, "reload")
    /\ obj' = [obj EXCEPT ![w] = issuer]
    /\ Continue(w, <<>>)
    /\ UNCHANGED <<users, mail, role, issuer, cache, target, heir, given,
                   history>>

----------------------------------------------------------------------------
(* Issuer.save and Issuer.ensure_owner. *)

\* Issuer.save up to ensure_owner: the whole row is written and published.  A
\* creator whose account is gone violates the foreign key.
Write(w) ==
    /\ At(w, "write")
    /\ IF obj[w].creator \in users \cup {None}
       THEN /\ issuer' = obj[w]
            /\ cache' = obj[w]
            /\ Continue(w, <<>>)
       ELSE /\ Fail(w)
            /\ UNCHANGED <<issuer, cache>>
    /\ UNCHANGED <<users, mail, role, local, history>>

\* "If there exists both a creator and an owner, there's nothing to do."  The
\* creator is loaded now, unless the request has loaded it before: a deleted
\* one raises BadgeUser.DoesNotExist.
Ensure(w) ==
    /\ At(w, "ensure")
    /\ \/ /\ obj[w].creator = None
          /\ Continue(w, <<"adoptOwner">>)
       \/ /\ obj[w].creator # None
          /\ Continue(w, IF Owners # {} THEN <<>> ELSE <<"creator">>)
       \/ /\ obj[w].creator \notin users \cup {None}
          /\ Fail(w)
    /\ UNCHANGED <<users, mail, role, issuer, cache, local, history>>

\* There is a creator but no owner: is the creator on the staff?
CheckCreator(w) ==
    /\ At(w, "creator")
    /\ Continue(w, IF role[obj[w].creator] # None THEN <<"promote">>
                                                  ELSE <<"seekEditor">>)
    /\ UNCHANGED <<users, mail, role, issuer, cache, local, history>>

\* The creator's row is loaded and saved with the new role.  A row that was
\* removed before is not found; one that is removed in between is inserted
\* again, if the account still exists.
Promote(w) ==
    LET u == obj[w].creator IN
    /\ At(w, "promote")
    /\ \/ /\ u \in users
          /\ role' = [role EXCEPT ![u] = "owner"]
          /\ cache' = issuer
          /\ Continue(w, <<>>)
       \/ /\ role[u] = None
          /\ Fail(w)
          /\ UNCHANGED <<role, cache>>
    /\ UNCHANGED <<users, mail, issuer, local, history>>

\* There is no creator: the first member in the highest role becomes it, one
\* query per role.
Adopt(w, here, r, steps, otherwise) ==
    /\ At(w, here)
    /\ \/ /\ Having(r) = {}
          /\ Continue(w, otherwise)
          /\ UNCHANGED <<obj, creators>>
       \/ \E u \in Having(r) :
          /\ obj' = [obj EXCEPT ![w].creator = u]
          /\ creators' = creators \cup {u}
          /\ Continue(w, steps)
    /\ UNCHANGED <<users, mail, role, issuer, cache, target, heir, given,
                   requests, granted, left, ownerLeft>>

\* Mutant: staff members are asked for before editors and owners.
AdoptStaffFirst(w) ==
    Adopt(w, "adoptOwner", "staff", <<"write", "promote">>, <<"adoptEditor">>)

AdoptOwner(w) == Adopt(w, "adoptOwner", "owner", <<"write">>, <<"adoptEditor">>)
AdoptEditor(w) == Adopt(w, "adoptEditor", "editor", <<"write", "promote">>, <<"adoptStaff">>)
AdoptStaff(w) == Adopt(w, "adoptStaff", "staff", <<"write", "promote">>, <<"unverify", "write">>)

\* "With no other staff, there's nothing we can do. So we unverify the issuer."
Unverify(w) ==
    /\ At(w, "unverify")
    /\ obj' = [obj EXCEPT ![w].verified = FALSE]
    /\ Continue(w, <<>>)
    /\ UNCHANGED <<users, mail, role, issuer, cache, target, heir, given,
                   history>>

\* The creator is not on the staff: the first editor, or else the first staff
\* member, is taken.  What is taken is the account, not the staff row: its
\* attribute `role' is set, and saving it changes no role.  It inserts the
\* account again if that was deleted after the query.
Seek(w, here, r, otherwise) ==
    /\ At(w, here)
    /\ \/ /\ Having(r) = {}
          /\ Continue(w, otherwise)
          /\ UNCHANGED heir
       \/ \E u \in Having(r) :
          /\ heir' = [heir EXCEPT ![w] = u]
          /\ Continue(w, <<"saveHeir">>)
    /\ UNCHANGED <<users, mail, role, issuer, cache, obj, target, given,
                   history>>

SeekEditor(w) == Seek(w, "seekEditor", "editor", <<"seekStaff">>)
SeekStaff(w) == Seek(w, "seekStaff", "staff", <<"create">>)

SaveHeir(w) ==
    /\ At(w, "saveHeir")
    /\ users' = users \cup {heir[w]}
    /\ Continue(w, <<>>)
    /\ UNCHANGED <<mail, role, issuer, cache, local, history>>

\* Nobody is on the staff: the creator is put on it, as the owner.
CreateOwner(w) ==
    LET u == obj[w].creator IN
    /\ At(w, "create")
    /\ IF role[u] = None /\ u \in users
       THEN /\ role' = [role EXCEPT ![u] = "owner"]
            /\ cache' = obj[w]
            /\ Continue(w, <<>>)
       ELSE /\ Fail(w)
            /\ UNCHANGED <<role, cache>>
    /\ UNCHANGED <<users, mail, issuer, local, history>>

\* new_contact_email after ensure_owner: the address of the first owner.
\* Without an owner, the method returns before its save().
NewContact(w) ==
    /\ At(w, "contact")
    /\ \/ \E u \in Owners :
          /\ obj' = [obj EXCEPT ![w].contact = u]
          /\ Continue(w, <<>>)
       \/ /\ Owners = {}
          /\ todo' = [todo EXCEPT ![w] = SubSeq(@, 2 + Len(Save), Len(@))]
          /\ UNCHANGED obj
    /\ UNCHANGED <<users, mail, role, issuer, cache, target, heir, given,
                   history>>

\* user_to_modify.save(), the last statement of IssuerStaffList.post: the
\* object that was loaded first is written, which inserts the account again
\* if it was deleted meanwhile.
SaveUser(w) ==
    /\ At(w, "saveUser")
    /\ users' = users \cup {target[w]}
    /\ Continue(w, <<>>)
    /\ UNCHANGED <<mail, role, issuer, cache, local, history>>

----------------------------------------------------------------------------

\* Issuer.save of a new issuer has made its creator the owner; the creator's
\* address is the contact.
Init ==
    /\ users = User
    /\ mail = User
    /\ \E u \in User, v \in BOOLEAN :
        /\ role = [x \in User |-> IF x = u THEN "owner" ELSE None]
        /\ issuer = [creator |-> u, contact |-> u, verified |-> v]
        /\ granted = role
        /\ creators = {u}
        /\ target = [w \in Worker |-> u]
        /\ heir = [w \in Worker |-> u]
    /\ cache = issuer
    /\ todo = [w \in Worker |-> <<>>]
    /\ obj = [w \in Worker |-> issuer]
    /\ given = [w \in Worker |-> "staff"]
    /\ requests = 0
    /\ left = {}
    /\ ownerLeft = FALSE

Arrival(w) == StartAdd(w) \/ StartModify(w) \/ StartRemove(w) \/ StartPut(w)
                  \/ StartLeave(w)

StaffList(w) == Add(w) \/ Modify(w) \/ Load(w) \/ Unstaff(w) \/ SaveUser(w)

Account(w) == DeleteEmails(w) \/ Cascade(w) \/ Reload(w)

Succession(w) ==
    \/ Write(w) \/ Ensure(w) \/ CheckCreator(w) \/ Promote(w)
    \/ AdoptOwner(w) \/ AdoptEditor(w) \/ AdoptStaff(w) \/ Unverify(w)
    \/ SeekEditor(w) \/ SeekStaff(w) \/ SaveHeir(w) \/ CreateOwner(w)
    \/ NewContact(w)

Next == \E w \in Worker :
    Arrival(w) \/ StaffList(w) \/ Account(w) \/ Succession(w)

Spec == Init /\ [][Next]_vars

----------------------------------------------------------------------------
(* Properties. *)

\* Type correctness, and the foreign keys: staff rows and the creator name
\* accounts that exist.
TypeOK ==
    /\ users \subseteq User
    /\ mail \subseteq User
    /\ role \in [User -> Role \cup {None}]
    /\ issuer \in Object
    /\ cache \in Object
    /\ todo \in [Worker -> Seq(Step)]
    /\ obj \in [Worker -> Object]
    /\ target \in [Worker -> User]
    /\ heir \in [Worker -> User]
    /\ given \in [Worker -> Role]
    /\ requests \in 0..MaxRequests
    /\ granted \in [User -> Role \cup {None}]
    /\ creators \subseteq User
    /\ left \subseteq User
    /\ ownerLeft \in BOOLEAN
    /\ Members \subseteq users
    /\ issuer.creator \in users \cup {None}

\* Whatever requests overlap, a member has exactly the role that an owner's
\* request last gave, except that somebody who has been the creator may be an
\* owner (ensure_owner).  So nobody else keeps or regains a role that was
\* taken away, however late a statement of another request comes.
RolesAsGranted == \A u \in User :
    role[u] = granted[u] \/ (role[u] = "owner" /\ u \in creators)

\* One request at a time: the staff is without an owner only after an owner
\* has deleted the account.  No code keeps the last owner on the staff: it is
\* the rule that owners cannot modify their own membership that does.
OwnerKept == Idle /\ Members # {} /\ Owners = {} => ownerLeft

\* One request at a time: a contact that leaves the staff or deletes the
\* account does not stay the contact of an issuer that has an owner.
ContactHandedOver == Idle /\ Owners # {} => issuer.contact \notin left \ Members

\* One request at a time: who becomes the creator after the creator's account
\* was deleted is a member, and nobody on the staff has a higher role.
Above(r) == CASE r = "owner" -> {} [] r = "editor" -> {"owner"}
              [] OTHER -> {"owner", "editor"}

SuccessionByRank ==
    [][issuer.creator = None /\ issuer'.creator # None
       => LET u == issuer'.creator IN
          u \in Members /\ \A v \in Members : role[v] \notin Above(role[u])]_vars

\* The docstring of ensure_owner: it "makes sure the issuer has a staff with
\* role owner".  Whoever the creator is, a call that has ended leaves an owner
\* if there are members.
OwnerEnsured ==
    [][\A w \in Worker :
        /\ todo[w] # <<>> /\ todo'[w] = <<>>
        /\ Head(todo[w]) \in {"ensure", "promote", "saveHeir", "create"}
        /\ Members' # {}
        => Owners' # {}]_vars

================================================================================
