------------------------------- MODULE Users -------------------------------
(***************************************************************************)
(* The user rows of one tenant, as far as signing in and authorizing look  *)
(* at them (services/sqlstore/postgres/user.go, handlers/user.go,          *)
(* handlers/settings.go).                                                  *)
(*                                                                         *)
(* Whatever was handed out in a user's name, a session cookie, an          *)
(* authorization code, a refresh or an access token, carries the security  *)
(* stamp the user had; changing the stamp is how it is all taken back.     *)
(***************************************************************************)
EXTENDS Naturals, FiniteSets

CONSTANTS
  People,     \* the users
  Requests,   \* requests in flight
  Followed,   \* bound: those whose rows change
  MaxStamp    \* bound: how often a user's stamp changes

ASSUME UsersAssumption == Followed \subseteq People /\ MaxStamp \in Nat

VARIABLES
  role,       \* role[p] (users.role)
  status,     \* status[p] (users.status)
  stamp       \* stamp[p] (users.security_stamp): each one is generated once

userVars == <<role, status, stamp>>

\* enum.Role
Visitor == 1
Collaborator == 2
Administrator == 3

UsersTypeOK ==
  /\ role \in [People -> Visitor..Administrator]
  /\ status \in [People -> {"active", "blocked", "deleted"}]
  /\ stamp \in [People -> 0..MaxStamp]

UsersInit(admins) ==
  /\ role = [p \in People |-> IF p \in admins THEN Administrator ELSE Visitor]
  /\ status = [p \in People |-> "active"]
  /\ stamp = [p \in People |-> 0]

\* queryUser: a deleted user is not found.
Found(p) == status[p] # "deleted"

\* The middleware let an administrator through.
AdminActs(p) == Found(p) /\ status[p] = "active" /\ role[p] = Administrator

NewStamp(p) ==
  /\ stamp[p] < MaxStamp
  /\ stamp' = [stamp EXCEPT ![p] = @ + 1]

-----------------------------------------------------------------------------
\* Neither of the next two looks at the status it overwrites.
BlockUser(admin, p) ==
  /\ AdminActs(admin)
  /\ status' = [status EXCEPT ![p] = "blocked"]
  /\ NewStamp(p)
  /\ UNCHANGED role

UnblockUser(admin, p) ==
  /\ AdminActs(admin)
  /\ status' = [status EXCEPT ![p] = "active"]
  /\ NewStamp(p)
  /\ UNCHANGED role

\* actions.ChangeUserRole: another user, who is found.
MayChangeRole(admin, p) == AdminActs(admin) /\ admin # p /\ Found(p)

ChangeUserRole(admin, p, r) ==
  /\ MayChangeRole(admin, p)
  /\ role' = [role EXCEPT ![p] = r]
  /\ NewStamp(p)
  /\ UNCHANGED status

\* The stamp stays: from now on the user is not found any more.
DeleteCurrentUser(p) ==
  /\ status[p] = "active"
  /\ role' = [role EXCEPT ![p] = Visitor]
  /\ status' = [status EXCEPT ![p] = "deleted"]
  /\ UNCHANGED stamp

UsersStep ==
  \E p \in Followed :
    \/ \E admin \in People : \/ BlockUser(admin, p) \/ UnblockUser(admin, p)
                             \/ \E r \in Visitor..Administrator : ChangeUserRole(admin, p, r)
    \/ DeleteCurrentUser(p)
=============================================================================
