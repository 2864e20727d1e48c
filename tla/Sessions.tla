------------------------------ MODULE Sessions ------------------------------
(***************************************************************************)
(* What lets a browser in: the session cookie (pkg/web/util/webutil.go)    *)
(* and the middleware that judges it on every request                      *)
(* (middlewares/user.go).  The cookie is good for a year and holds the     *)
(* user's id and stamp; everything else is looked up.                      *)
(***************************************************************************)
EXTENDS Users

CONSTANTS
  RoleLists,  \* what allowed_roles of the custom provider may be; "" for no check
  Browsers,   \* each keeps one session cookie
  NoCookie

NoStamp == MaxStamp + 1

\* A user's row as it was read for a cookie, or no stamp in one made before
\* there were any; the list of roles he was let in under; and whether that may
\* have been another one by then (history).
SessionRows == [user : People, stamp : 0..NoStamp, role : Visitor..Administrator,
                status : {"active", "blocked"}, allowed : RoleLists, overtaken : BOOLEAN]

\* A transaction that saves the provider: the list it read and the one it
\* saves, for which administrator, and whom it has signed out.
NoSaving == [at |-> "none", by |-> NoCookie, found |-> "", list |-> "", out |-> {}]
Savings == [at : {"none", "read", "written"}, by : People \cup {NoCookie},
            found : RoleLists, list : RoleLists, out : SUBSET People]

ASSUME SessionsAssumption == "" \in RoleLists /\ NoCookie \notin SessionRows

VARIABLES
  allowed,    \* oauth_providers.allowed_roles, "" also if no path to the roles is set
  saving,     \* saving[r]: a transaction that saves it
  misread,    \* history: the one that saved it last had found another one than it replaced
  cookie      \* cookie[b], with its user's row as it was read for it

listVars == <<allowed, saving, misread>>
sessionVars == <<listVars, cookie>>

SessionsTypeOK ==
  /\ allowed \in RoleLists
  /\ saving \in [Requests -> Savings]
  /\ misread \in BOOLEAN
  /\ cookie \in [Browsers -> SessionRows \cup {NoCookie}]

\* Cookies that are left from before users had stamps.
OldCookies == {[user |-> p, stamp |-> NoStamp, role |-> Visitor, status |-> "active",
                allowed |-> "", overtaken |-> FALSE] : p \in People}

SessionsInit ==
  /\ allowed = ""
  /\ saving = [r \in Requests |-> NoSaving]
  /\ misread = FALSE
  /\ cookie \in [Browsers -> OldCookies \cup {NoCookie}]

\* History: a saving at work will not sign p out, who is its administrator or
\* was not there when it signed out the others.
SignsOut(s) == s.list # "" /\ s.list # s.found

Spares(s, p) == p = s.by \/ (s.at = "written" /\ SignsOut(s) /\ p \notin s.out)

SparedByOne(p) == \E r \in Requests : saving[r].at # "none" /\ Spares(saving[r], p)

\* The row of p as a request finds it.
RowUnder(p, list, unsure) ==
  [user |-> p, stamp |-> stamp[p], role |-> role[p], status |-> status[p], allowed |-> list, overtaken |-> unsure]

RowOf(p) == RowUnder(p, allowed, SparedByOne(p))

\* AddAuthUserCookie puts the stamp of the row that was read into the cookie.
AddAuthUserCookie(row) == \E b \in Browsers : cookie' = [cookie EXCEPT ![b] = row]

Recognized(b) ==
  /\ cookie[b] # NoCookie
  /\ Found(cookie[b].user)
  /\ cookie[b].stamp \in {NoStamp, stamp[cookie[b].user]}

\* User: a cookie whose user is not found, whose stamp is another one or
\* whose user is blocked is removed; any other one lets its user in.
Refuse(b) ==
  /\ cookie[b] # NoCookie
  /\ ~Recognized(b) \/ status[cookie[b].user] = "blocked"
  /\ cookie' = [cookie EXCEPT ![b] = NoCookie]
  /\ UNCHANGED <<listVars, userVars>>

SignOut(b) ==
  /\ cookie[b] # NoCookie
  /\ cookie' = [cookie EXCEPT ![b] = NoCookie]
  /\ UNCHANGED <<listVars, userVars>>

-----------------------------------------------------------------------------
(* saveCustomOAuthConfig, statement by statement                           *)

\* The list as it is now; the row is not locked.
ReadRoles(r, admin, list) ==
  /\ saving[r].at = "none"
  /\ AdminActs(admin)
  /\ saving' = [saving EXCEPT ![r] = [at |-> "read", by |-> admin, found |-> allowed, list |-> list, out |-> {}]]
  /\ UNCHANGED <<allowed, misread, cookie, userVars>>

\* The UPDATE of the provider's row, which waits for another's, and of the
\* users': a list that is another one, and is one, signs out everybody else.
WriteRoles(r) ==
  LET s == saving[r]
  IN /\ s.at = "read"
     /\ \A q \in Requests : saving[q].at # "written"
     /\ saving' = [saving EXCEPT ![r].at = "written",
                                 ![r].out = IF SignsOut(s) THEN {p \in People \ {s.by} : Found(p)} ELSE {}]
     /\ UNCHANGED <<allowed, misread, cookie, userVars>>

CommitRolesOnly(r) ==
  /\ saving[r].at = "written"
  /\ allowed' = saving[r].list
  /\ saving' = [saving EXCEPT ![r] = NoSaving]
  /\ UNCHANGED <<misread, cookie, userVars>>

CommitRoles(r) ==
  LET s == saving[r]
  IN /\ s.at = "written"
     /\ \A p \in s.out : stamp[p] < MaxStamp
     /\ stamp' = [p \in People |-> IF p \in s.out THEN stamp[p] + 1 ELSE stamp[p]]
     /\ allowed' = s.list
     /\ misread' = (~SignsOut(s) /\ s.list # "" /\ (misread \/ s.list # allowed))
     /\ saving' = [saving EXCEPT ![r] = NoSaving]
     /\ UNCHANGED <<role, status, cookie>>

SavingFails(r) ==
  /\ saving[r].at # "none"
  /\ saving' = [saving EXCEPT ![r] = NoSaving]
  /\ UNCHANGED <<allowed, misread, cookie, userVars>>

\* Whoever changes a row that has been updated waits for the commit.
RowsWait == \A r \in Requests : \A p \in saving[r].out : stamp'[p] = stamp[p] /\ status'[p] = status[p]

SessionsStep ==
  \/ \E b \in Browsers : Refuse(b) \/ SignOut(b)
  \/ \E r \in Requests : \/ \E admin \in People, list \in RoleLists : ReadRoles(r, admin, list)
                         \/ WriteRoles(r) \/ CommitRoles(r) \/ SavingFails(r)
  \/ UsersStep /\ RowsWait /\ UNCHANGED sessionVars

-----------------------------------------------------------------------------
\* Signing in reads the list of roles, then a row, and hands out a cookie
\* later; an administrator may block, unblock, promote or demote the user, or
\* change whom the provider lets in, before, between and after: a cookie with
\* a stamp that is recognized was handed out to the user as he is now and,
\* unless he is trusted anyway, under the list that holds now.  What gets past
\* that is a sign-in that another list overtook between its reading of the
\* list and of the row, or while everybody was being signed out, and a list
\* that two administrators changed at once.
WorkingSessionsAreCurrent ==
  \A b \in Browsers :
    Recognized(b) /\ cookie[b].stamp # NoStamp => LET s == cookie[b] IN
      /\ s.role = role[s.user]
      /\ s.status = status[s.user]
      /\ role[s.user] = Visitor /\ allowed # "" => s.allowed = allowed \/ s.overtaken \/ misread
=============================================================================
