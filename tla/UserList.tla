------------------------------ MODULE UserList ------------------------------
(***************************************************************************)
(* The vendor's list of the administrators of every site, kept at          *)
(* userlist.com (services/userlist/userlist.go) by tasks that requests     *)
(* leave behind (tasks/userlist.go).  A task reads the row again, and      *)
(* pushes what it found; several workers run tasks, a push that fails is   *)
(* not repeated, so the list follows the rows as the tasks happen to end.  *)
(***************************************************************************)
EXTENDS Users

CONSTANTS
  Errands,      \* tasks queued or running
  Addresses,    \* names and e-mail addresses of a user
  Titles,       \* names of the site
  Unlisted, NoErrand, NoTitle

VARIABLES
  title,        \* tenants.name; NoTitle: the site is not there yet
  address,      \* address[p] (users.name, users.email)
  errand,       \* errand[t]: the task and how far it is
  company,      \* the name userlist.com has for the site
  listed        \* listed[p]: what it has of p

userListVars == <<title, address, errand, company, listed>>

UserListTypeOK ==
  /\ title \in Titles \cup {NoTitle}
  /\ company \in Titles \cup {NoTitle}
  /\ address \in [People -> Addresses]
  /\ listed \in [People -> Addresses \cup {Unlisted}]
  /\ errand \in [Errands -> {NoErrand} \cup
       [kind : {"create", "rename", "add", "remove", "update"}, who : People,
        mail : Addresses, name : Titles \cup {NoTitle},
        at : {"queued", "read", "pushing"}]]

UserListInit ==
  /\ title = NoTitle /\ company = NoTitle
  /\ address \in [People -> Addresses]
  /\ errand = [t \in Errands |-> NoErrand]
  /\ listed = [p \in People |-> Unlisted]

Send(t, kind, p, mail, name) ==
  /\ errand[t] = NoErrand
  /\ errand' = [errand EXCEPT ![t] = [kind |-> kind, who |-> p, mail |-> mail, name |-> name, at |-> "queued"]]

-----------------------------------------------------------------------------
\* The requests: what they commit, and the task they leave.
SiteCreated(t, p, n) ==
  /\ title = NoTitle
  /\ role[p] = Administrator
  /\ title' = n
  /\ Send(t, "create", p, address[p], n)
  /\ UNCHANGED <<userVars, address, company, listed>>

UpdateSettings(t, admin, n) ==
  /\ AdminActs(admin)
  /\ title' = n
  /\ Send(t, "rename", admin, address[admin], n)
  /\ UNCHANGED <<userVars, address, company, listed>>

RoleChanged(t, admin, p, r) ==
  /\ ChangeUserRole(admin, p, r)
  /\ Send(t, IF r = Administrator THEN "add" ELSE "remove", p, address[p], NoTitle)
  /\ UNCHANGED <<title, address, company, listed>>

UserDeleted(t, p) ==
  /\ DeleteCurrentUser(p)
  /\ Send(t, "remove", p, address[p], NoTitle)
  /\ UNCHANGED <<title, address, company, listed>>

UserUpdated(t, p, a) ==
  /\ status[p] = "active"
  /\ address' = [address EXCEPT ![p] = a]
  /\ Send(t, "update", p, a, NoTitle)
  /\ UNCHANGED <<userVars, title, company, listed>>

-----------------------------------------------------------------------------
To(t, stage) == errand' = [errand EXCEPT ![t].at = stage]
Settled(t) == errand' = [errand EXCEPT ![t] = NoErrand]
Doing(t, kind, stage) == errand[t] # NoErrand /\ errand[t].kind = kind /\ errand[t].at = stage

\* addOrRemoveUserListUser looks up what to say of a new administrator, and
\* updateUserListUser looks up whether it still is one.
LookUp(t) ==
  /\ Doing(t, "add", "queued")
  /\ Found(errand[t].who)
  /\ errand' = [errand EXCEPT ![t].mail = address[errand[t].who], ![t].at = "read"]
  /\ UNCHANGED <<userVars, title, address, company, listed>>

CheckRole(t) ==
  /\ Doing(t, "add", "read")
  /\ Found(errand[t].who)
  /\ IF role[errand[t].who] = Administrator THEN To(t, "pushing") ELSE Settled(t)
  /\ UNCHANGED <<userVars, title, address, company, listed>>

\* "update" comes without its tenant and finds nobody; otherwise the user is
\* not found, or the push failed.
ErrandFails(t) ==
  /\ errand[t] # NoErrand
  /\ Settled(t)
  /\ UNCHANGED <<userVars, title, address, company, listed>>

PushCompany(t) ==
  /\ Doing(t, "create", "queued") \/ Doing(t, "rename", "queued")
  /\ company' = errand[t].name
  /\ listed' = IF errand[t].kind = "create"
                 THEN [listed EXCEPT ![errand[t].who] = errand[t].mail] ELSE listed
  /\ Settled(t)
  /\ UNCHANGED <<userVars, title, address>>

PushUser(t) ==
  /\ Doing(t, "add", "pushing") \/ Doing(t, "remove", "queued")
  /\ listed' = [listed EXCEPT ![errand[t].who] =
                  IF errand[t].kind = "add" THEN errand[t].mail ELSE Unlisted]
  /\ Settled(t)
  /\ UNCHANGED <<userVars, title, address, company>>

UserListStep ==
  \E t \in Errands :
    \/ LookUp(t) \/ CheckRole(t) \/ ErrandFails(t) \/ PushCompany(t) \/ PushUser(t)
    \/ \E p \in People, n \in Titles : SiteCreated(t, p, n)
    \/ title # NoTitle /\ \/ \E admin \in People, n \in Titles : UpdateSettings(t, admin, n)
                          \/ \E p \in Followed : \/ UserDeleted(t, p)
                                                 \/ \E a \in Addresses : UserUpdated(t, p, a)
                                                 \/ \E admin \in People, r \in {Visitor, Administrator} : RoleChanged(t, admin, p, r)

UserListSpec ==
  /\ \E admins \in SUBSET People : UsersInit(admins)
  /\ UserListInit
  /\ [][UserListStep \/ (UsersStep /\ UNCHANGED userListVars)]_<<userVars, userListVars>>
=============================================================================
