---------------------------- MODULE OAuthGrants ----------------------------
(***************************************************************************)
(* The authorization server for MCP clients (handlers/oauthas.go,          *)
(* services/sqlstore/postgres/oauth_as.go): codes that are exchanged once, *)
(* refresh tokens that are rotated at every use, and what is revoked when  *)
(* one of them is presented again.                                         *)
(*                                                                         *)
(* Every request runs in one transaction at READ COMMITTED: what it wrote  *)
(* is seen by others when it commits, a row it updated is locked until     *)
(* then, and a statement that waited for the lock looks at the row again,  *)
(* but not at rows that were inserted after the statement started.         *)
(***************************************************************************)
EXTENDS Users

CONSTANTS
  Codes, Tokens,  \* hashes of codes and refresh tokens, each generated once
  Origins,        \* "board", and the MCP-only address "mcp" if there is one
  MinRole,        \* the tenant's mcp_min_role
  NoRow           \* no code, no token, no stamp

ASSUME GrantsAssumption ==
  /\ Origins \subseteq {"board", "mcp"}
  /\ NoRow \notin Codes \cup Tokens \cup Nat \cup People \cup Requests
  /\ Codes \cap Tokens = {}

VARIABLES
  client,     \* the client's row (oauth_clients): who registered it
  codes,      \* codes[c] (oauth_codes)
  tokens,     \* tokens[t] (oauth_refresh_tokens)
  handoff,    \* handoff[p]: the stamp in the handoff that waits at the MCP-only address
  consent,    \* consent[p]: the stamp in the consent-step cookie there
  req         \* req[r]: the request at work

grantVars == <<client, codes, tokens, handoff, consent, req>>

NoCode == [state |-> "none", user |-> NoRow, stamp |-> 0, origin |-> "board", family |-> NoRow]
NoToken == [state |-> "none", user |-> NoRow, stamp |-> 0, origin |-> "board",
            family |-> NoRow, from |-> NoRow]
IdleRequest == [at |-> "idle", user |-> NoRow, stamp |-> 0, origin |-> "board",
                row |-> NoRow, heir |-> NoRow, seen |-> {}]

CodeRows == [state : {"none", "fresh", "used", "expired", "gone"},
             user : People \cup {NoRow}, stamp : Nat, origin : {"board", "mcp"},
             family : Tokens \cup {NoRow}]
TokenRows == [state : {"none", "live", "rotated", "revoked", "expired", "gone"},
              user : People \cup {NoRow}, stamp : Nat, origin : {"board", "mcp"},
              family : Tokens \cup {NoRow}, from : Codes \cup {NoRow}]
RequestStates == [at : {"idle", "approved", "consumed", "checked", "saved", "rotated",
                        "revoking", "deleting"},
                  user : People \cup {NoRow}, stamp : Nat, origin : {"board", "mcp"},
                  row : Codes \cup Tokens \cup {NoRow}, heir : Tokens \cup {NoRow},
                  seen : SUBSET (Codes \cup Tokens)]

GrantsTypeOK ==
  /\ UsersTypeOK
  /\ client \in {"none", "self", "admin"}
  /\ codes \in [Codes -> CodeRows]
  /\ tokens \in [Tokens -> TokenRows]
  /\ handoff \in [People -> Nat \cup {NoRow}]
  /\ consent \in [People -> Nat \cup {NoRow}]
  /\ req \in [Requests -> RequestStates]

GrantsInit ==
  /\ client = "none"
  /\ codes = [c \in Codes |-> NoCode]
  /\ tokens = [t \in Tokens |-> NoToken]
  /\ handoff = [p \in People |-> NoRow]
  /\ consent = [p \in People |-> NoRow]
  /\ req = [r \in Requests |-> IdleRequest]

-----------------------------------------------------------------------------
(* Rows, locks and conditions                                              *)

\* The rows that requests other than r have updated and not committed.
Locked(r) ==
  UNION {IF req[q].at \in {"consumed", "checked", "saved", "rotated"} THEN {req[q].row}
         ELSE IF req[q].at = "deleting" THEN req[q].seen ELSE {} : q \in Requests \ {r}}

Stored(t) == tokens[t].state \notin {"none", "gone"}
Members(f) == {t \in Tokens : Stored(t) /\ tokens[t].family = f}
Unused(t) == tokens[t].state = "none" /\ \A q \in Requests : req[q].heir # t

\* security_stamp = (SELECT ... FROM users): a stale grant matches nothing.
StampMatches(row) == row.stamp = stamp[row.user]

\* The user is read again before tokens are given out.
MayUseMCP(p) == Found(p) /\ status[p] = "active" /\ role[p] >= MinRole

Do(r, new) == req' = [req EXCEPT ![r] = new]
Done(r) == Do(r, IdleRequest)

-----------------------------------------------------------------------------
(* Clients                                                                 *)

\* OAuthRegister, CreateMCPClient
RegisterOAuthClient(by) ==
  /\ client = "none"
  /\ client' = by
  /\ UNCHANGED <<codes, tokens, handoff, consent, req, userVars>>

\* DeleteMCPClient: codes, tokens and client in three statements; the rows
\* that are there when it starts are locked one after the other.
DeleteOAuthClient(r) ==
  LET stored == {c \in Codes : codes[c].state \notin {"none", "gone"}}
  IN /\ req[r].at = "idle"
     /\ client # "none"
     /\ stored \cap Locked(r) = {}
     /\ Do(r, [IdleRequest EXCEPT !.at = "deleting", !.seen = stored \cup {t \in Tokens : Stored(t)}])
     /\ UNCHANGED <<client, codes, tokens, handoff, consent, userVars>>

ClientDeleted(r) ==
  LET Gone(rows) == [x \in DOMAIN rows |->
                             IF x \in req[r].seen THEN [rows[x] EXCEPT !.state = "gone"] ELSE rows[x]]
  IN /\ req[r].at = "deleting"
     /\ req[r].seen \cap Locked(r) = {}
     /\ client' = "none"
     /\ codes' = Gone(codes)
     /\ tokens' = Gone(tokens)
     /\ Done(r)
     /\ UNCHANGED <<handoff, consent, userVars>>

-----------------------------------------------------------------------------
(* Signing in for an MCP-only address, and the decision                    *)

\* OAuthSignInContinue, on the board, for a user who is signed in there.
SignInContinue(p) ==
  /\ "mcp" \in Origins
  /\ status[p] = "active"
  /\ handoff[p] = NoRow
  /\ handoff' = [handoff EXCEPT ![p] = stamp[p]]
  /\ UNCHANGED <<client, codes, tokens, consent, req, userVars>>

\* OAuthResume: the handoff is spent; the cookie identifies the user as of now.
Resume(p) ==
  /\ handoff[p] # NoRow
  /\ handoff' = [handoff EXCEPT ![p] = NoRow]
  /\ consent' = IF handoff[p] = stamp[p] /\ status[p] = "active"
                  THEN [consent EXCEPT ![p] = stamp[p]] ELSE consent
  /\ UNCHANGED <<client, codes, tokens, req, userVars>>

\* OAuthAuthorizeDecision up to checkAuthorize: the middleware knows the user
\* by the session or, on the MCP-only address, by the consent-step cookie.
Approve(r, p, o) ==
  /\ req[r].at = "idle"
  /\ client # "none"
  /\ MayUseMCP(p)
  /\ o = "mcp" => consent[p] = stamp[p]
  /\ consent' = IF o = "mcp" THEN [consent EXCEPT ![p] = NoRow] ELSE consent
  /\ Do(r, [IdleRequest EXCEPT !.at = "approved", !.user = p, !.stamp = stamp[p], !.origin = o])
  /\ UNCHANGED <<client, codes, tokens, handoff, userVars>>

SaveOAuthCode(r, c) ==
  /\ req[r].at = "approved"
  /\ codes[c].state = "none"
  /\ codes' = [codes EXCEPT ![c] = [NoCode EXCEPT !.state = "fresh", !.user = req[r].user,
                                                  !.stamp = req[r].stamp, !.origin = req[r].origin]]
  /\ Done(r)
  /\ UNCHANGED <<client, tokens, handoff, consent, userVars>>

-----------------------------------------------------------------------------
(* OAuthTokenEndpoint: authorization_code                                  *)

\* consumeOAuthCode: one UPDATE, so that a concurrent replay waits for it.
ConsumeUnlocked(r, c, o) ==
  /\ req[r].at = "idle"
  /\ client # "none"
  /\ codes[c].state = "fresh"
  /\ codes[c].origin = o
  /\ StampMatches(codes[c])
  /\ Do(r, [IdleRequest EXCEPT !.at = "consumed", !.user = codes[c].user, !.origin = o, !.row = c])
  /\ UNCHANGED <<client, codes, tokens, handoff, consent, userVars>>

ConsumeOAuthCode(r, c, o) == c \notin Locked(r) /\ ConsumeUnlocked(r, c, o)

\* A wrong redirect URI or verifier, or a user who may not use MCP any more:
\* the code is burned, and nothing is issued.
Burn(r) ==
  /\ req[r].at = "consumed"
  /\ codes' = [codes EXCEPT ![req[r].row].state = "used"]
  /\ Done(r)
  /\ UNCHANGED <<client, tokens, handoff, consent, userVars>>

\* getUserByID: the stamp that is read now goes into the token.
ReadGrantUser(r) ==
  /\ req[r].at = "consumed"
  /\ MayUseMCP(req[r].user)
  /\ Do(r, [req[r] EXCEPT !.at = "checked", !.stamp = stamp[req[r].user]])
  /\ UNCHANGED <<client, codes, tokens, handoff, consent, userVars>>

\* saveOAuthRefreshToken starts a family and links the code to it.
SaveOAuthRefreshToken(r, t) ==
  /\ req[r].at = "checked"
  /\ Unused(t)
  /\ Do(r, [req[r] EXCEPT !.at = "saved", !.heir = t])
  /\ UNCHANGED <<client, codes, tokens, handoff, consent, userVars>>

FirstToken(r) == [state |-> "live", user |-> req[r].user, stamp |-> req[r].stamp,
                  origin |-> req[r].origin, family |-> req[r].heir, from |-> req[r].row]

ExchangeUnlinked(r) ==
  /\ req[r].at = "saved"
  /\ codes' = [codes EXCEPT ![req[r].row].state = "used"]
  /\ tokens' = [tokens EXCEPT ![req[r].heir] = FirstToken(r)]
  /\ Done(r)
  /\ UNCHANGED <<client, handoff, consent, userVars>>

Exchange(r) ==
  /\ req[r].at = "saved"
  /\ codes' = [codes EXCEPT ![req[r].row].state = "used", ![req[r].row].family = req[r].heir]
  /\ tokens' = [tokens EXCEPT ![req[r].heir] = FirstToken(r)]
  /\ Done(r)
  /\ UNCHANGED <<client, handoff, consent, userVars>>

-----------------------------------------------------------------------------
(* OAuthTokenEndpoint: refresh_token                                       *)

\* rotateOAuthRefreshToken
RotateUnlocked(r, t, h, o) ==
  /\ req[r].at = "idle"
  /\ client # "none"
  /\ tokens[t].state = "live"
  /\ tokens[t].origin = o
  /\ StampMatches(tokens[t])
  /\ Unused(h)
  /\ Do(r, [IdleRequest EXCEPT !.at = "rotated", !.row = t, !.heir = h])
  /\ UNCHANGED <<client, codes, tokens, handoff, consent, userVars>>

RotateOAuthRefreshToken(r, t, h, o) == t \notin Locked(r) /\ RotateUnlocked(r, t, h, o)

HeirBesideToken(r) ==
  /\ req[r].at = "rotated"
  /\ tokens' = [tokens EXCEPT ![req[r].heir] = tokens[req[r].row]]
  /\ Done(r)
  /\ UNCHANGED <<client, codes, handoff, consent, userVars>>

\* The request commits whether or not the user may still use MCP: if not, the
\* heir is kept but handed to nobody.
Rotated(r) ==
  LET t == req[r].row IN
  /\ req[r].at = "rotated"
  /\ tokens' = [tokens EXCEPT ![t].state = "rotated",
                              ![req[r].heir] = [tokens[t] EXCEPT !.state = "live"]]
  /\ Done(r)
  /\ UNCHANGED <<client, codes, handoff, consent, userVars>>

-----------------------------------------------------------------------------
(* Something presented again                                               *)

\* The UPDATE that found nothing is followed by one that revokes the family,
\* of which the rows stored by then are seen.
Revoke(r, f) ==
  /\ f # NoRow
  /\ Do(r, [IdleRequest EXCEPT !.at = "revoking", !.seen = {t \in Members(f) : tokens[t].state # "revoked"}])
  /\ UNCHANGED <<client, codes, tokens, handoff, consent, userVars>>

ReplayCode(r, c, o) ==
  /\ req[r].at = "idle" /\ client # "none"
  /\ c \notin Locked(r)
  /\ codes[c].state = "used" /\ codes[c].origin = o
  /\ Revoke(r, codes[c].family)

ReuseToken(r, t, o) ==
  /\ req[r].at = "idle" /\ client # "none"
  /\ t \notin Locked(r)
  /\ Stored(t) /\ tokens[t].origin = o
  /\ tokens[t].state # "live" \/ ~StampMatches(tokens[t])
  /\ Revoke(r, tokens[t].family)

FamilyRevoked(r) ==
  /\ req[r].at = "revoking"
  /\ req[r].seen \cap Locked(r) = {}
  /\ tokens' = [t \in Tokens |-> IF t \in req[r].seen /\ Stored(t)
                                   THEN [tokens[t] EXCEPT !.state = "revoked"] ELSE tokens[t]]
  /\ Done(r)
  /\ UNCHANGED <<client, codes, handoff, consent, userVars>>

\* The request fails, or its connection or process dies: rolled back.
Abandon(r) ==
  /\ req[r].at # "idle"
  /\ Done(r)
  /\ UNCHANGED <<client, codes, tokens, handoff, consent, userVars>>

-----------------------------------------------------------------------------
(* Time, and purgeStaleOAuthData                                           *)

Expire(x) ==
  /\ \/ /\ x \in Codes /\ codes[x].state = "fresh"
        /\ codes' = [codes EXCEPT ![x].state = "expired"]
        /\ UNCHANGED tokens
     \/ /\ x \in Tokens /\ tokens[x].state = "live"
        /\ tokens' = [tokens EXCEPT ![x].state = "expired"]
        /\ UNCHANGED codes
  /\ x \notin Locked(NoRow)
  /\ UNCHANGED <<client, handoff, consent, req, userVars>>

\* A code a day after it expired, a token a week after it expired, was rotated
\* or revoked, a self-registered client without either after a week.
Purge(x) ==
  /\ \/ /\ x \in Codes /\ codes[x].state \in {"used", "expired"}
        /\ codes' = [codes EXCEPT ![x].state = "gone"]
        /\ UNCHANGED <<client, tokens>>
     \/ /\ x \in Tokens /\ tokens[x].state \in {"expired", "rotated", "revoked"}
        /\ tokens' = [tokens EXCEPT ![x].state = "gone"]
        /\ UNCHANGED <<client, codes>>
     \/ /\ x = NoRow /\ client = "self"
        /\ \A c \in Codes : codes[c].state \in {"none", "gone"}
        /\ \A t \in Tokens : ~Stored(t)
        /\ client' = "none"
        /\ UNCHANGED <<codes, tokens>>
  /\ x \notin Locked(NoRow)
  /\ UNCHANGED <<handoff, consent, req, userVars>>

-----------------------------------------------------------------------------
TokenStep(r) ==
  \/ \E o \in Origins, c \in Codes : ConsumeOAuthCode(r, c, o) \/ ReplayCode(r, c, o)
  \/ \E o \in Origins, t \in Tokens : \/ ReuseToken(r, t, o)
                                      \/ \E h \in Tokens : RotateOAuthRefreshToken(r, t, h, o)
  \/ Burn(r) \/ ReadGrantUser(r) \/ Exchange(r) \/ Rotated(r) \/ FamilyRevoked(r) \/ Abandon(r)
  \/ \E t \in Tokens : SaveOAuthRefreshToken(r, t)

GrantsNext ==
  \/ \E r \in Requests : \/ TokenStep(r) \/ DeleteOAuthClient(r) \/ ClientDeleted(r)
                         \/ \E p \in Followed, o \in Origins : Approve(r, p, o)
                         \/ \E c \in Codes : SaveOAuthCode(r, c)
  \/ \E by \in {"self", "admin"} : RegisterOAuthClient(by)
  \/ \E p \in Followed : SignInContinue(p) \/ Resume(p)
  \/ \E x \in Codes \cup Tokens \cup {NoRow} : Expire(x) \/ Purge(x)
  \/ UsersStep /\ UNCHANGED grantVars

\* Whoever the first administrators are.
GrantsSpec ==
  /\ GrantsInit /\ \E admins \in SUBSET People : UsersInit(admins)
  /\ [][GrantsNext]_<<userVars, grantVars>>

-----------------------------------------------------------------------------
(* Properties                                                              *)

\* However a code is presented, twice at once, again after a rollback, or
\* after its row is long gone: it starts at most one family of tokens.
SpentOnce ==
  \A c \in Codes :
    Cardinality({t \in Tokens : tokens[t].from = c /\ tokens[t].family = t}) <= 1

\* A token works if rotating it hands out its heir: its user is found, and has
\* the stamp that the token carries.
Works(t) == tokens[t].state = "live" /\ Found(tokens[t].user) /\ StampMatches(tokens[t])

Grant(row) == [user |-> row.user, origin |-> row.origin]

Approvals == [c \in {d \in Codes : codes[d].state # "none"} |-> Grant(codes[c])]
Descent == [t \in {u \in Tokens : tokens[u].state # "none"} |->
              [code |-> tokens[t].from, grant |-> Grant(tokens[t])]]
Working == {t \in Tokens : Works(t)}
Entitled == {p \in People : MayUseMCP(p)}

Families == INSTANCE TokenFamilies WITH
  Origins <- {"board", "mcp"},
  approved <- Approvals, issued <- Descent, working <- Working, entitled <- Entitled

\* The server keeps the promise of TokenFamilies: nothing that is done at once,
\* between two statements of a request, or to a user meanwhile, yields a second
\* token that works, or one that works for somebody who may not use MCP.
KeepsFamilies == Families!TFSpec

\* A refresh token is replaced by its heir: at no time do two tokens of a
\* family work, whatever is presented twice, at once or late.
OneLiveTokenPerFamily ==
  \A t, u \in Tokens :
    tokens[t].state = "live" /\ tokens[u].state = "live" /\ tokens[t].family = tokens[u].family => t = u

\* As long as a spent code is remembered, presenting it again finds all that
\* was issued from it, however often that has been rotated since.
LiveTokensAreTraceable ==
  \A t \in Tokens :
    tokens[t].state = "live" /\ codes[tokens[t].from].state = "used"
      => codes[tokens[t].from].family = tokens[t].family
=============================================================================
