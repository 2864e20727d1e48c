--------------------------- MODULE ProviderSignIn ---------------------------
(***************************************************************************)
(* Signing in through an OAuth provider (handlers/oauth.go,                *)
(* services/oauth/oauth.go): from the board to the provider, back to the   *)
(* callback on the login address and on to the board again, where the code *)
(* is exchanged for a profile and the profile for a user.                  *)
(*                                                                         *)
(* Nothing of a sign-in is stored on the way: the addresses a browser is   *)
(* sent to carry it, and any other browser may be given them.              *)
(***************************************************************************)
EXTENDS Sessions

VARIABLES
  enabled,    \* oauth_providers.status
  signUp,     \* whether the tenant lets unknown users in (isSignUpAllowed)
  flow        \* flow[r]: a sign-in under way

providerVars == <<enabled, signUp, flow>>

NoFlow == [at |-> "none", from |-> NoCookie, in |-> NoCookie, who |-> NoCookie, group |-> "",
           list |-> "", may |-> FALSE, row |-> NoCookie]

Flows == [at : {"none", "asked", "authorized", "handed", "profile", "checking", "welcome"},
          from : Browsers \cup {NoCookie}, in : Browsers \cup {NoCookie}, who : People \cup {NoCookie},
          group : RoleLists, list : RoleLists, may : BOOLEAN, row : SessionRows \cup {NoCookie}]

ProviderTypeOK ==
  /\ SessionsTypeOK
  /\ enabled \in BOOLEAN /\ signUp \in BOOLEAN
  /\ flow \in [Requests -> Flows]

ProviderInit == enabled = TRUE /\ signUp = TRUE /\ flow = [r \in Requests |-> NoFlow]

Continue(r, new) == flow' = [flow EXCEPT ![r] = new]
Unchanged == UNCHANGED <<enabled, signUp, sessionVars, userVars>>

-----------------------------------------------------------------------------
(* To the provider and back                                                *)

\* SignInByOAuth: the state carries the session the browser has before it is
\* signed in.
SignInByOAuth(r, b) ==
  /\ flow[r].at = "none"
  /\ enabled
  /\ ~Recognized(b)
  /\ Continue(r, [NoFlow EXCEPT !.at = "asked", !.from = b])
  /\ Unchanged

\* The provider asks whoever sits there; group is what it says of the user.
Authorize(r, p, group) ==
  /\ flow[r].at = "asked"
  /\ Continue(r, [flow[r] EXCEPT !.at = "authorized", !.who = p, !.group = group])
  /\ Unchanged

\* OAuthCallback: the handoff is bound to the session in the state, which is
\* that of the browser it started in, whoever calls.
OAuthCallback(r) ==
  /\ flow[r].at = "authorized"
  /\ Continue(r, [flow[r] EXCEPT !.at = "handed"])
  /\ Unchanged

-----------------------------------------------------------------------------
(* OAuthToken, in browser b                                                *)

\* getOAuthProfile exchanges the code, which the provider does once.
AnyBrowser(r, b) ==
  /\ flow[r].at = "handed"
  /\ enabled
  /\ Continue(r, [flow[r] EXCEPT !.at = "profile", !.in = b, !.may = signUp])
  /\ Unchanged

\* isValidOAuthHandoff comes first.
GetOAuthProfile(r, b) == flow[r].from = b /\ AnyBrowser(r, b)

\* The config is read before the user is.
GetCustomOAuthConfig(r) ==
  /\ flow[r].at = "profile"
  /\ Continue(r, [flow[r] EXCEPT !.at = "checking", !.list = allowed])
  /\ Unchanged

HasAllowedRole(r) == flow[r].list = "" \/ flow[r].group = flow[r].list

\* The row of p for the cookie, with the list that was read before it.
CheckedRow(r, p) == RowUnder(p, flow[r].list, SparedByOne(p) \/ flow[r].list # allowed)

\* By the provider's id, then by e-mail; staff is let in whatever its group.
FindByProvider(r) ==
  LET p == flow[r].who
  IN /\ flow[r].at = "checking"
     /\ Found(p)
     /\ role[p] > Visitor \/ HasAllowedRole(r)
     /\ Continue(r, [flow[r] EXCEPT !.at = "welcome", !.row = CheckedRow(r, p)])
     /\ Unchanged

\* The provider is linked to the user, unless it was, and the cookie is set.
WelcomeBack(r) ==
  /\ flow[r].at = "welcome"
  /\ cookie' = [cookie EXCEPT ![flow[r].in] = flow[r].row]
  /\ Continue(r, NoFlow)
  /\ UNCHANGED <<enabled, signUp, listVars, userVars>>

\* A new account, unless somebody else just made it.
RegisterByProvider(r) ==
  LET p == flow[r].who
  IN /\ flow[r].at = "checking"
     /\ ~Found(p)
     /\ HasAllowedRole(r) /\ flow[r].may
     /\ NewStamp(p)
     /\ role' = [role EXCEPT ![p] = Visitor]
     /\ status' = [status EXCEPT ![p] = "active"]
     /\ cookie' = [cookie EXCEPT ![flow[r].in] =
                     [CheckedRow(r, p) EXCEPT !.stamp = stamp[p] + 1, !.role = Visitor, !.status = "active"]]
     /\ Continue(r, NoFlow)
     /\ UNCHANGED <<enabled, signUp, listVars>>

\* Refused at the provider or here, expired, failed, or never continued.
Drop(r) ==
  /\ flow[r].at # "none"
  /\ Continue(r, NoFlow)
  /\ Unchanged

-----------------------------------------------------------------------------
\* SetSystemProviderStatus, CreateEditOAuthConfig; with another way to sign in
\* left, which is looked up before and not locked.
SetProviderStatus(admin, on) ==
  /\ AdminActs(admin)
  /\ enabled' = on
  /\ UNCHANGED <<signUp, flow, sessionVars, userVars>>

ChangeSignUp(admin, on) ==
  /\ AdminActs(admin)
  /\ signUp' = on
  /\ UNCHANGED <<enabled, flow, sessionVars, userVars>>

ProviderStep ==
  \/ \E r \in Requests, b \in Browsers : SignInByOAuth(r, b) \/ GetOAuthProfile(r, b)
  \/ \E r \in Requests, p \in Followed, group \in RoleLists : Authorize(r, p, group)
  \/ \E r \in Requests : \/ OAuthCallback(r) \/ GetCustomOAuthConfig(r) \/ FindByProvider(r)
                         \/ WelcomeBack(r) \/ RegisterByProvider(r) \/ Drop(r)
  \/ \E admin \in People, on \in BOOLEAN : SetProviderStatus(admin, on) \/ ChangeSignUp(admin, on)

ProviderNext == ProviderStep \/ (SessionsStep /\ UNCHANGED providerVars)

=============================================================================
