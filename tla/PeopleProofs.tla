---------------------------- MODULE PeopleProofs ----------------------------
(***************************************************************************)
(* Proofs about what lets somebody in: the grants of OAuthGrants, the      *)
(* cookies and codes of SigningIn and the founding of a tenant in SignUp,  *)
(* for any number of people, requests, browsers, codes, mails and tokens;  *)
(* and that the grants implement TokenFamilies.                            *)
(***************************************************************************)
EXTENDS SigningIn, OAuthGrants, SignUp, FiniteSetTheorems, WellFoundedInduction, TLAPS

-----------------------------------------------------------------------------
(* OAuthGrants: codes that start one family, families with one live token  *)

Exchanging == {"consumed", "checked", "saved"}   \* the steps of a request that holds a code
Holding == Exchanging \cup {"rotated"}

\* Those that are in a request or a row are users.
UsersAreKnown ==
  /\ \A r \in Requests : req[r].at \in Exchanging \cup {"approved"} => req[r].user \in People
  /\ \A c \in Codes : codes[c].state # "none" => codes[c].user \in People

\* What a request has locked is as it was when it was locked.
LockedRowsStay ==
  /\ \A r \in Requests : req[r].at \in Exchanging => req[r].row \in Codes /\ codes[req[r].row].state = "fresh"
  /\ \A r \in Requests : req[r].at = "rotated" => req[r].row \in Tokens /\ tokens[req[r].row].state = "live"
  /\ \A r, q \in Requests : req[r].at \in Holding /\ req[q].at \in Holding /\ req[r].row = req[q].row => r = q

\* A token that was generated is stored by one request, once.
HeirsAreNew ==
  /\ \A r \in Requests : IF req[r].at \in {"saved", "rotated"}
                           THEN req[r].heir \in Tokens /\ tokens[req[r].heir].state = "none"
                           ELSE req[r].heir = NoRow
  /\ \A r, q \in Requests : req[r].heir \in Tokens /\ req[r].heir = req[q].heir => r = q

\* The rows a statement has listed were there.
ListedRowsExist ==
  \A r \in Requests : /\ \A c \in Codes \cap req[r].seen : codes[c].state # "none"
                      /\ \A t \in Tokens \cap req[r].seen : tokens[t].state # "none"

\* A token comes from a code that is spent, and belongs to the family that was
\* started then.
LineageIsKept ==
  \A t \in Tokens :
    IF tokens[t].state = "none"
      THEN tokens[t].from = NoRow
      ELSE LET c == tokens[t].from IN
           /\ tokens[t].family \in Tokens /\ tokens[tokens[t].family].state # "none"
           /\ c \in Codes /\ codes[c].state \in {"used", "gone"}
           /\ codes[c].state = "used" => codes[c].family = tokens[t].family

OneRootPerCode ==
  \A t, u \in Tokens :
    tokens[t].from \in Codes /\ tokens[t].from = tokens[u].from
      /\ tokens[t].family = t /\ tokens[u].family = u => t = u

RowsInv ==
  /\ UsersAreKnown /\ LockedRowsStay /\ HeirsAreNew /\ ListedRowsExist
  /\ LineageIsKept /\ OneRootPerCode /\ OneLiveTokenPerFamily

GrantsInv == GrantsTypeOK /\ RowsInv

LEMMA InitGrants == GrantsInit /\ (\E admins \in SUBSET People : UsersInit(admins)) => GrantsInv
<1> SUFFICES ASSUME GrantsInit, NEW admins \in SUBSET People, UsersInit(admins) PROVE GrantsInv
  OBVIOUS
<1>1. GrantsTypeOK
  <2>1. UsersTypeOK
    BY UsersAssumption DEF UsersInit, UsersTypeOK, Visitor, Administrator
  <2> QED
    BY <2>1 DEF GrantsInit, GrantsTypeOK, CodeRows, TokenRows, RequestStates, NoCode, NoToken, IdleRequest
<1>2. UsersAreKnown /\ LockedRowsStay /\ HeirsAreNew /\ ListedRowsExist
  BY GrantsAssumption DEF GrantsInit, UsersAreKnown, LockedRowsStay, HeirsAreNew, ListedRowsExist,
     Exchanging, Holding, NoCode, NoToken, IdleRequest
<1>3. LineageIsKept /\ OneRootPerCode /\ OneLiveTokenPerFamily
  BY GrantsAssumption DEF GrantsInit, LineageIsKept, OneRootPerCode, OneLiveTokenPerFamily, NoToken
<1> QED
  BY <1>1, <1>2, <1>3 DEF GrantsInv, RowsInv

\* The rows of the users keep their types.
LEMMA UserTypes == UsersTypeOK /\ [UsersStep]_userVars => UsersTypeOK'
<1> SUFFICES ASSUME UsersTypeOK, [UsersStep]_userVars PROVE UsersTypeOK'
  OBVIOUS
<1> USE UsersAssumption DEF UsersTypeOK, NewStamp, Visitor, Administrator
<1>1. ASSUME NEW admin, NEW p \in Followed, BlockUser(admin, p) \/ UnblockUser(admin, p) PROVE UsersTypeOK'
  BY <1>1 DEF BlockUser, UnblockUser
<1>2. ASSUME NEW admin, NEW p \in Followed, NEW r \in Visitor..Administrator, ChangeUserRole(admin, p, r)
      PROVE UsersTypeOK'
  BY <1>2 DEF ChangeUserRole
<1>3. ASSUME NEW p \in Followed, DeleteCurrentUser(p) PROVE UsersTypeOK'
  BY <1>3 DEF DeleteCurrentUser
<1>4. CASE UNCHANGED userVars
  BY <1>4 DEF userVars
<1> QED
  BY <1>1, <1>2, <1>3, <1>4 DEF UsersStep

\* A step that gives one request something else in hand, and writes no row.
LEMMA RequestTypes ==
  ASSUME GrantsTypeOK, NEW r \in Requests, NEW new \in RequestStates, Do(r, new),
         UNCHANGED <<client, codes, tokens, handoff, userVars>>,
         consent' \in [People -> Nat \cup {NoRow}]
  PROVE  GrantsTypeOK'
BY DEF GrantsTypeOK, UsersTypeOK, userVars, Do

\* A step that ends a request, or is none of a request, and writes rows.
LEMMA RowTypes ==
  ASSUME GrantsTypeOK,
         req' = req \/ (\E r \in Requests : Done(r)),
         client' \in {"none", "self", "admin"},
         codes' \in [Codes -> CodeRows], tokens' \in [Tokens -> TokenRows],
         UNCHANGED <<handoff, consent, userVars>>
  PROVE  GrantsTypeOK'
<1>1. IdleRequest \in RequestStates
  BY DEF IdleRequest, RequestStates
<1> QED
  BY <1>1 DEF GrantsTypeOK, UsersTypeOK, userVars, Done, Do

LEMMA GrantsTypes == GrantsInv /\ [GrantsNext]_<<userVars, grantVars>> => GrantsTypeOK'
<1> SUFFICES ASSUME GrantsInv, [GrantsNext]_<<userVars, grantVars>> PROVE GrantsTypeOK'
  OBVIOUS
<1>t. GrantsTypeOK /\ consent \in [People -> Nat \cup {NoRow}]
  BY DEF GrantsInv, GrantsTypeOK
<1> USE UsersAssumption, GrantsAssumption
<1>1. ASSUME NEW r \in Requests, DeleteOAuthClient(r) PROVE GrantsTypeOK'
  <2> DEFINE seen == {c \in Codes : codes[c].state \notin {"none", "gone"}} \cup {t \in Tokens : Stored(t)}
  <2>1. [IdleRequest EXCEPT !.at = "deleting", !.seen = seen] \in RequestStates
    BY DEF IdleRequest, RequestStates
  <2> QED
    BY <1>t, <1>1, <2>1, RequestTypes DEF DeleteOAuthClient
<1>2. ASSUME NEW r \in Requests, NEW p \in Followed, NEW o \in Origins, Approve(r, p, o) PROVE GrantsTypeOK'
  <2>1. stamp[p] \in Nat
    BY <1>t DEF GrantsTypeOK, UsersTypeOK
  <2>2. [IdleRequest EXCEPT !.at = "approved", !.user = p, !.stamp = stamp[p], !.origin = o] \in RequestStates
    BY <2>1 DEF IdleRequest, RequestStates
  <2> QED
    BY <1>t, <1>2, <2>2, RequestTypes DEF Approve
<1>3. ASSUME NEW r \in Requests, NEW o \in Origins, NEW c \in Codes, ConsumeOAuthCode(r, c, o) PROVE GrantsTypeOK'
  <2>1. codes[c].user \in People \cup {NoRow}
    BY <1>t DEF GrantsTypeOK, CodeRows
  <2>2. [IdleRequest EXCEPT !.at = "consumed", !.user = codes[c].user, !.origin = o, !.row = c] \in RequestStates
    BY <2>1 DEF IdleRequest, RequestStates
  <2> QED
    BY <1>t, <1>3, <2>2, RequestTypes DEF ConsumeOAuthCode, ConsumeUnlocked
<1>4. ASSUME NEW r \in Requests, NEW f, Revoke(r, f) PROVE GrantsTypeOK'
  <2> DEFINE seen == {t \in Members(f) : tokens[t].state # "revoked"}
  <2>1. [IdleRequest EXCEPT !.at = "revoking", !.seen = seen] \in RequestStates
    BY DEF IdleRequest, RequestStates, Members
  <2> QED
    BY <1>t, <1>4, <2>1, RequestTypes DEF Revoke
<1>5. ASSUME NEW r \in Requests, NEW o \in Origins, NEW t \in Tokens, NEW h \in Tokens,
             RotateOAuthRefreshToken(r, t, h, o)
      PROVE GrantsTypeOK'
  <2>1. [IdleRequest EXCEPT !.at = "rotated", !.row = t, !.heir = h] \in RequestStates
    BY DEF IdleRequest, RequestStates
  <2> QED
    BY <1>t, <1>5, <2>1, RequestTypes DEF RotateOAuthRefreshToken, RotateUnlocked
<1>6. ASSUME NEW r \in Requests, ReadGrantUser(r) PROVE GrantsTypeOK'
  <2>1. req[r] \in RequestStates /\ stamp[req[r].user] \in Nat
    BY <1>6 DEF ReadGrantUser, GrantsInv, RowsInv, GrantsTypeOK, UsersTypeOK, UsersAreKnown, Exchanging
  <2>2. [req[r] EXCEPT !.at = "checked", !.stamp = stamp[req[r].user]] \in RequestStates
    BY <2>1 DEF RequestStates
  <2> QED
    BY <1>t, <1>6, <2>2, RequestTypes DEF ReadGrantUser
<1>7. ASSUME NEW r \in Requests, NEW t \in Tokens, SaveOAuthRefreshToken(r, t) PROVE GrantsTypeOK'
  <2>1. req[r] \in RequestStates
    BY <1>t DEF GrantsTypeOK
  <2>2. [req[r] EXCEPT !.at = "saved", !.heir = t] \in RequestStates
    BY <2>1 DEF RequestStates
  <2> QED
    BY <1>t, <1>7, <2>2, RequestTypes DEF SaveOAuthRefreshToken
<1>8. ASSUME NEW r \in Requests, ClientDeleted(r) \/ Burn(r) \/ FamilyRevoked(r) \/ Abandon(r) PROVE GrantsTypeOK'
  <2>1. codes' \in [Codes -> CodeRows]
    <3>1. CASE ClientDeleted(r)
      BY <1>t, <3>1 DEF ClientDeleted, GrantsTypeOK, CodeRows
    <3>2. CASE Burn(r)
      <4>1. req[r].row \in Codes
        BY <3>2 DEF Burn, GrantsInv, RowsInv, LockedRowsStay, Exchanging
      <4> QED
        BY <1>t, <3>2, <4>1 DEF Burn, GrantsTypeOK, CodeRows
    <3> QED
      BY <1>t, <1>8, <3>1, <3>2 DEF FamilyRevoked, Abandon, GrantsTypeOK
  <2>2. tokens' \in [Tokens -> TokenRows]
    <3>1. CASE ClientDeleted(r)
      BY <1>t, <3>1 DEF ClientDeleted, GrantsTypeOK, TokenRows
    <3>2. CASE FamilyRevoked(r)
      BY <1>t, <3>2 DEF FamilyRevoked, GrantsTypeOK, TokenRows
    <3> QED
      BY <1>t, <1>8, <3>1, <3>2 DEF Burn, Abandon, GrantsTypeOK
  <2>3. Done(r) /\ client' \in {"none", "self", "admin"} /\ UNCHANGED <<handoff, consent, userVars>>
    BY <1>t, <1>8 DEF ClientDeleted, Burn, FamilyRevoked, Abandon, GrantsTypeOK
  <2> QED
    BY <1>t, <2>1, <2>2, <2>3, RowTypes
<1>9. ASSUME NEW r \in Requests, Exchange(r) PROVE GrantsTypeOK'
  <2>1. req[r] \in RequestStates /\ req[r].heir \in Tokens /\ req[r].row \in Codes
    BY <1>9 DEF Exchange, GrantsInv, RowsInv, GrantsTypeOK, LockedRowsStay, HeirsAreNew, Exchanging
  <2>2. FirstToken(r) \in TokenRows
    BY <2>1 DEF FirstToken, TokenRows, RequestStates
  <2>3. codes' \in [Codes -> CodeRows]
    BY <1>t, <1>9, <2>1 DEF Exchange, GrantsTypeOK, CodeRows
  <2> QED
    BY <1>t, <1>9, <2>2, <2>3, RowTypes DEF Exchange, GrantsTypeOK
<1>10. ASSUME NEW r \in Requests, Rotated(r) PROVE GrantsTypeOK'
  <2>1. req[r].heir \in Tokens /\ req[r].row \in Tokens
    BY <1>10 DEF Rotated, GrantsInv, RowsInv, LockedRowsStay, HeirsAreNew
  <2> QED
    BY <1>t, <1>10, <2>1, RowTypes DEF Rotated, GrantsTypeOK, TokenRows
<1>11. ASSUME NEW r \in Requests, NEW c \in Codes, SaveOAuthCode(r, c) PROVE GrantsTypeOK'
  <2>1. req[r] \in RequestStates
    BY <1>t DEF GrantsTypeOK
  <2>2. [NoCode EXCEPT !.state = "fresh", !.user = req[r].user,
                       !.stamp = req[r].stamp, !.origin = req[r].origin] \in CodeRows
    BY <2>1 DEF NoCode, CodeRows, RequestStates
  <2> QED
    BY <1>t, <1>11, <2>2, RowTypes DEF SaveOAuthCode, GrantsTypeOK
<1>12. ASSUME NEW x, Expire(x) \/ Purge(x) PROVE GrantsTypeOK'
  <2>1. \/ codes' = codes
        \/ \E y \in {"expired", "gone"} : x \in Codes /\ codes' = [codes EXCEPT ![x].state = y]
    BY <1>12 DEF Expire, Purge
  <2>2. \/ tokens' = tokens
        \/ \E y \in {"expired", "gone"} : x \in Tokens /\ tokens' = [tokens EXCEPT ![x].state = y]
    BY <1>12 DEF Expire, Purge
  <2>3. codes' \in [Codes -> CodeRows]
    BY <1>t, <2>1 DEF GrantsTypeOK, CodeRows
  <2>4. tokens' \in [Tokens -> TokenRows]
    BY <1>t, <2>2 DEF GrantsTypeOK, TokenRows
  <2>5. client' \in {"none", "self", "admin"} /\ UNCHANGED <<handoff, consent, req, userVars>>
    BY <1>t, <1>12 DEF Expire, Purge, GrantsTypeOK
  <2> QED
    BY <1>t, <2>3, <2>4, <2>5, RowTypes
<1>13. ASSUME NEW by \in {"self", "admin"}, RegisterOAuthClient(by) PROVE GrantsTypeOK'
  BY <1>t, <1>13, RowTypes DEF RegisterOAuthClient, GrantsTypeOK
<1>14. ASSUME NEW p \in Followed, SignInContinue(p) \/ Resume(p) PROVE GrantsTypeOK'
  BY <1>t, <1>14 DEF SignInContinue, Resume, GrantsTypeOK, UsersTypeOK, userVars
<1>15. CASE [UsersStep]_userVars /\ UNCHANGED grantVars
  BY <1>t, <1>15, UserTypes DEF GrantsTypeOK, grantVars
<1> QED
  BY <1>1, <1>2, <1>3, <1>4, <1>5, <1>6, <1>7, <1>8, <1>9, <1>10, <1>11, <1>12, <1>13, <1>14, <1>15
     DEF GrantsNext, TokenStep, ReplayCode, ReuseToken

\* Whoever finds a row unlocked knows that nobody else is about to write it.
LEMMA NotLocked ==
  ASSUME NEW r, NEW x, x \notin Locked(r), NEW q \in Requests, q # r
  PROVE  /\ req[q].at \in Holding => req[q].row # x
         /\ req[q].at = "deleting" => x \notin req[q].seen
BY DEF Locked, Holding, Exchanging

\* Steps that write rows by their states, and none that is another's to write,
\* for a request that is done, or for none.
LEMMA StatesWritten ==
  ASSUME GrantsInv, GrantsTypeOK',
         \A q \in Requests : \/ req'[q] = IdleRequest
                             \/ /\ req'[q] = req[q]
                                /\ req[q].at \in Exchanging => codes'[req[q].row].state = codes[req[q].row].state
                                /\ req[q].at = "rotated" => tokens'[req[q].row].state = tokens[req[q].row].state,
         \A c \in Codes : /\ codes'[c].user = codes[c].user /\ codes'[c].family = codes[c].family
                          /\ codes'[c].state = "none" <=> codes[c].state = "none"
                          /\ codes[c].state \in {"used", "gone"} => codes'[c].state \in {"used", "gone"}
                          /\ codes'[c].state = "used" => codes[c].state \in {"fresh", "used"},
         \A t \in Tokens : /\ tokens'[t].from = tokens[t].from /\ tokens'[t].family = tokens[t].family
                           /\ tokens'[t].state = "none" <=> tokens[t].state = "none"
                           /\ tokens'[t].state = "live" => tokens[t].state = "live"
  PROVE  RowsInv'
<1> USE GrantsAssumption DEF GrantsInv, RowsInv
<1>1. UsersAreKnown'
  BY DEF UsersAreKnown, IdleRequest, Exchanging
<1>2. LockedRowsStay'
  BY DEF LockedRowsStay, IdleRequest, Exchanging, Holding
<1>3. HeirsAreNew'
  BY DEF HeirsAreNew, IdleRequest
<1>4. ListedRowsExist'
  BY DEF ListedRowsExist, IdleRequest
<1>5. LineageIsKept'
  BY DEF LineageIsKept
<1>6. OneRootPerCode' /\ OneLiveTokenPerFamily'
  BY DEF OneRootPerCode, OneLiveTokenPerFamily
<1> QED
  BY <1>1, <1>2, <1>3, <1>4, <1>5, <1>6

\* Steps of a request that write nothing yet.
LEMMA NothingWritten ==
  ASSUME GrantsInv, NEW r \in Requests, NEW new, Do(r, new), UNCHANGED <<codes, tokens>>,
         new.at \in Exchanging \cup {"approved"} => new.user \in People,
         new.at \in Exchanging => new.row \in Codes /\ codes[new.row].state = "fresh",
         new.at = "rotated" => new.row \in Tokens /\ tokens[new.row].state = "live",
         new.at \in Holding => \A q \in Requests \ {r} : req[q].at \in Holding => req[q].row # new.row,
         IF new.at \in {"saved", "rotated"} THEN new.heir \in Tokens /\ Unused(new.heir) ELSE new.heir = NoRow,
         \A c \in Codes \cap new.seen : codes[c].state # "none",
         \A t \in Tokens \cap new.seen : tokens[t].state # "none"
  PROVE  RowsInv'
<1> USE GrantsAssumption DEF GrantsInv, RowsInv
<1>r. \A q \in Requests : req'[q] = IF q = r THEN new ELSE req[q]
  BY DEF Do, GrantsTypeOK
<1>1. UsersAreKnown'
  BY <1>r DEF UsersAreKnown
<1>2. LockedRowsStay'
  BY <1>r DEF LockedRowsStay, Exchanging, Holding
<1>3. HeirsAreNew'
  BY <1>r DEF HeirsAreNew, Unused
<1>4. ListedRowsExist'
  BY <1>r DEF ListedRowsExist
<1>5. LineageIsKept' /\ OneRootPerCode' /\ OneLiveTokenPerFamily'
  BY DEF LineageIsKept, OneRootPerCode, OneLiveTokenPerFamily
<1> QED
  BY <1>1, <1>2, <1>3, <1>4, <1>5

\* The code is spent, and its first token is stored.
LEMMA ExchangeKeeps ==
  ASSUME GrantsInv, GrantsTypeOK', NEW r \in Requests, Exchange(r)
  PROVE  RowsInv'
<1> DEFINE c == req[r].row
           t == req[r].heir
<1> USE GrantsAssumption DEF GrantsInv, RowsInv
<1>1. /\ c \in Codes /\ codes[c].state = "fresh" /\ req[r].user \in People
      /\ t \in Tokens /\ tokens[t].state = "none"
      /\ \A q \in Requests \ {r} : req[q].at \in Holding => req[q].row # c
      /\ \A q \in Requests \ {r} : req[q].heir # t
  BY DEF Exchange, UsersAreKnown, LockedRowsStay, HeirsAreNew, Exchanging, Holding
<1>2. /\ \A q \in Requests : req'[q] = IF q = r THEN IdleRequest ELSE req[q]
      /\ \A d \in Codes : d # c => codes'[d] = codes[d]
      /\ codes'[c].state = "used" /\ codes'[c].family = t /\ codes'[c].user = codes[c].user
      /\ \A u \in Tokens : u # t => tokens'[u] = tokens[u]
      /\ tokens'[t].state = "live" /\ tokens'[t].family = t /\ tokens'[t].from = c
  BY <1>1 DEF Exchange, FirstToken, Done, Do, GrantsTypeOK, CodeRows
<1> HIDE DEF c, t
<1>3. UsersAreKnown'
  BY <1>1, <1>2 DEF UsersAreKnown, IdleRequest, Exchanging
<1>4. LockedRowsStay'
  BY <1>1, <1>2 DEF LockedRowsStay, IdleRequest, Exchanging, Holding
<1>5. HeirsAreNew'
  BY <1>1, <1>2 DEF HeirsAreNew, IdleRequest
<1>6. ListedRowsExist'
  BY <1>1, <1>2 DEF ListedRowsExist, IdleRequest
<1>7. LineageIsKept'
  BY <1>1, <1>2 DEF LineageIsKept
<1>8. OneRootPerCode'
  BY <1>1, <1>2 DEF OneRootPerCode, LineageIsKept
<1>9. OneLiveTokenPerFamily'
  BY <1>1, <1>2 DEF OneLiveTokenPerFamily, LineageIsKept
<1> QED
  BY <1>3, <1>4, <1>5, <1>6, <1>7, <1>8, <1>9

\* The token is rotated out, and its heir takes its place in the family.
LEMMA RotatedKeeps ==
  ASSUME GrantsInv, GrantsTypeOK', NEW r \in Requests, Rotated(r)
  PROVE  RowsInv'
<1> DEFINE t == req[r].row
           h == req[r].heir
<1> USE GrantsAssumption DEF GrantsInv, RowsInv
<1>1. /\ t \in Tokens /\ tokens[t].state = "live"
      /\ h \in Tokens /\ tokens[h].state = "none"
      /\ \A q \in Requests \ {r} : req[q].at \in Holding => req[q].row # t
      /\ \A q \in Requests \ {r} : req[q].heir # h
  BY DEF Rotated, LockedRowsStay, HeirsAreNew, Holding
<1>2. /\ \A q \in Requests : req'[q] = IF q = r THEN IdleRequest ELSE req[q]
      /\ codes' = codes
      /\ \A u \in Tokens : u # t /\ u # h => tokens'[u] = tokens[u]
      /\ tokens'[t].state = "rotated" /\ tokens'[t].family = tokens[t].family /\ tokens'[t].from = tokens[t].from
      /\ tokens'[h].state = "live" /\ tokens'[h].family = tokens[t].family /\ tokens'[h].from = tokens[t].from
  BY <1>1 DEF Rotated, Done, Do, GrantsTypeOK, TokenRows
<1> HIDE DEF t, h
<1>3. UsersAreKnown' /\ LockedRowsStay'
  BY <1>1, <1>2 DEF UsersAreKnown, LockedRowsStay, IdleRequest, Exchanging, Holding
<1>4. HeirsAreNew' /\ ListedRowsExist'
  BY <1>1, <1>2 DEF HeirsAreNew, ListedRowsExist, IdleRequest
<1>5. LineageIsKept'
  BY <1>1, <1>2 DEF LineageIsKept
<1>6. OneRootPerCode'
  BY <1>1, <1>2 DEF OneRootPerCode, LineageIsKept
<1>7. OneLiveTokenPerFamily'
  BY <1>1, <1>2 DEF OneLiveTokenPerFamily, LineageIsKept
<1> QED
  BY <1>3, <1>4, <1>5, <1>6, <1>7

\* A code of its own, for a user who has approved.
LEMMA SaveCodeKeeps ==
  ASSUME GrantsInv, GrantsTypeOK', NEW r \in Requests, NEW c \in Codes, SaveOAuthCode(r, c)
  PROVE  RowsInv'
<1> USE GrantsAssumption DEF GrantsInv, RowsInv
<1>1. /\ \A q \in Requests : req'[q] = IF q = r THEN IdleRequest ELSE req[q]
      /\ tokens' = tokens /\ codes[c].state = "none" /\ req[r].user \in People
      /\ \A d \in Codes : d # c => codes'[d] = codes[d]
      /\ codes'[c].state = "fresh" /\ codes'[c].user = req[r].user
  BY DEF SaveOAuthCode, NoCode, Done, Do, UsersAreKnown, GrantsTypeOK
<1>2. UsersAreKnown' /\ ListedRowsExist'
  BY <1>1 DEF UsersAreKnown, ListedRowsExist, IdleRequest, Exchanging
<1>3. LockedRowsStay' /\ HeirsAreNew'
  BY <1>1 DEF LockedRowsStay, HeirsAreNew, IdleRequest, Exchanging, Holding
<1>4. LineageIsKept' /\ OneRootPerCode' /\ OneLiveTokenPerFamily'
  BY <1>1 DEF LineageIsKept, OneRootPerCode, OneLiveTokenPerFamily
<1> QED
  BY <1>2, <1>3, <1>4

LEMMA StepGrants == GrantsInv /\ [GrantsNext]_<<userVars, grantVars>> => GrantsInv'
<1> SUFFICES ASSUME GrantsInv, [GrantsNext]_<<userVars, grantVars>> PROVE RowsInv'
  BY GrantsTypes DEF GrantsInv
<1>t. GrantsTypeOK /\ GrantsTypeOK' /\ NoRow \notin Requests
  BY GrantsTypes, GrantsAssumption DEF GrantsInv
<1>i. /\ IdleRequest.at \notin Holding \cup {"approved"} /\ IdleRequest.heir = NoRow /\ IdleRequest.seen = {}
      /\ IdleRequest \in RequestStates
  BY DEF IdleRequest, RequestStates, Holding, Exchanging
<1>1. ASSUME NEW r \in Requests, DeleteOAuthClient(r) PROVE RowsInv'
  BY <1>1, NothingWritten, GrantsAssumption DEF DeleteOAuthClient, Stored, IdleRequest, Holding, Exchanging
<1>2. ASSUME NEW r \in Requests, NEW p \in Followed, NEW o \in Origins, Approve(r, p, o) PROVE RowsInv'
  BY <1>2, NothingWritten, UsersAssumption DEF Approve, IdleRequest, Holding, Exchanging
<1>3. ASSUME NEW r \in Requests, NEW o \in Origins, NEW c \in Codes, ConsumeOAuthCode(r, c, o) PROVE RowsInv'
  <2>1. codes[c].user \in People
    BY <1>3 DEF ConsumeOAuthCode, ConsumeUnlocked, GrantsInv, RowsInv, UsersAreKnown
  <2>2. \A q \in Requests \ {r} : req[q].at \in Holding => req[q].row # c
    BY <1>3, NotLocked DEF ConsumeOAuthCode
  <2> QED
    BY <1>3, <2>1, <2>2, NothingWritten DEF ConsumeOAuthCode, ConsumeUnlocked, IdleRequest, Holding, Exchanging
<1>4. ASSUME NEW r \in Requests, NEW f, Revoke(r, f) PROVE RowsInv'
  BY <1>4, NothingWritten, GrantsAssumption DEF Revoke, Members, Stored, IdleRequest, Holding, Exchanging
<1>5. ASSUME NEW r \in Requests, NEW o \in Origins, NEW t \in Tokens, NEW h \in Tokens,
             RotateOAuthRefreshToken(r, t, h, o)
      PROVE RowsInv'
  <2>1. \A q \in Requests \ {r} : req[q].at \in Holding => req[q].row # t
    BY <1>5, NotLocked DEF RotateOAuthRefreshToken
  <2> QED
    BY <1>5, <2>1, NothingWritten DEF RotateOAuthRefreshToken, RotateUnlocked, IdleRequest, Holding, Exchanging
<1>6. ASSUME NEW r \in Requests, ReadGrantUser(r) PROVE RowsInv'
  <2> DEFINE new == [req[r] EXCEPT !.at = "checked", !.stamp = stamp[req[r].user]]
  <2>1. /\ req[r] \in RequestStates /\ req[r].at = "consumed"
        /\ new.at = "checked" /\ new.user = req[r].user /\ new.row = req[r].row
        /\ new.heir = req[r].heir /\ new.seen = req[r].seen
    BY <1>t, <1>6 DEF ReadGrantUser, GrantsTypeOK, RequestStates
  <2>2. Do(r, new) /\ UNCHANGED <<codes, tokens>>
    BY <1>6 DEF ReadGrantUser
  <2> HIDE DEF new
  <2> QED
    BY <2>1, <2>2, NothingWritten DEF GrantsInv, RowsInv, UsersAreKnown, LockedRowsStay, HeirsAreNew,
       ListedRowsExist, Holding, Exchanging
<1>7. ASSUME NEW r \in Requests, NEW t \in Tokens, SaveOAuthRefreshToken(r, t) PROVE RowsInv'
  <2> DEFINE new == [req[r] EXCEPT !.at = "saved", !.heir = t]
  <2>1. /\ req[r] \in RequestStates /\ req[r].at = "checked"
        /\ new.at = "saved" /\ new.user = req[r].user /\ new.row = req[r].row
        /\ new.heir = t /\ new.seen = req[r].seen
    BY <1>t, <1>7 DEF SaveOAuthRefreshToken, GrantsTypeOK, RequestStates
  <2>2. Do(r, new) /\ UNCHANGED <<codes, tokens>> /\ Unused(t)
    BY <1>7 DEF SaveOAuthRefreshToken
  <2> HIDE DEF new
  <2> QED
    BY <2>1, <2>2, NothingWritten DEF GrantsInv, RowsInv, UsersAreKnown, LockedRowsStay,
       ListedRowsExist, Holding, Exchanging
<1>8. ASSUME NEW r \in Requests, Abandon(r) PROVE RowsInv'
  BY <1>i, <1>8, NothingWritten DEF Abandon, Done, Holding, Exchanging
<1>9. ASSUME NEW r \in Requests, ClientDeleted(r) PROVE RowsInv'
  <2>1. \A q \in Requests : req'[q] = IF q = r THEN IdleRequest ELSE req[q]
    BY <1>t, <1>9 DEF ClientDeleted, Done, Do, GrantsTypeOK
  <2>2. \A q \in Requests \ {r} : req[q].at \in Holding => req[q].row \notin req[r].seen
    BY <1>9, NotLocked DEF ClientDeleted
  <2>3. \A c \in Codes : codes'[c] = IF c \in req[r].seen THEN [codes[c] EXCEPT !.state = "gone"] ELSE codes[c]
    BY <1>t, <1>9 DEF ClientDeleted, GrantsTypeOK
  <2>4. \A t \in Tokens : tokens'[t] = IF t \in req[r].seen THEN [tokens[t] EXCEPT !.state = "gone"] ELSE tokens[t]
    BY <1>t, <1>9 DEF ClientDeleted, GrantsTypeOK
  <2>5. \A x \in req[r].seen : /\ x \in Codes => codes[x].state # "none"
                               /\ x \in Tokens => tokens[x].state # "none"
    BY DEF GrantsInv, RowsInv, ListedRowsExist
  <2>6. \A c \in Codes : /\ codes'[c].user = codes[c].user /\ codes'[c].family = codes[c].family
                         /\ codes'[c].state = IF c \in req[r].seen THEN "gone" ELSE codes[c].state
    BY <1>t, <2>3 DEF GrantsTypeOK, CodeRows
  <2>7. \A t \in Tokens : /\ tokens'[t].from = tokens[t].from /\ tokens'[t].family = tokens[t].family
                          /\ tokens'[t].state = IF t \in req[r].seen THEN "gone" ELSE tokens[t].state
    BY <1>t, <2>4 DEF GrantsTypeOK, TokenRows
  <2>8. \A q \in Requests \ {r} : /\ req[q].at \in Exchanging => codes'[req[q].row].state = codes[req[q].row].state
                                  /\ req[q].at = "rotated" => tokens'[req[q].row].state = tokens[req[q].row].state
    BY <2>2, <2>6, <2>7 DEF GrantsInv, RowsInv, LockedRowsStay, Holding
  <2> QED
    BY <1>t, <2>1, <2>5, <2>6, <2>7, <2>8, StatesWritten
<1>10. ASSUME NEW r \in Requests, Burn(r) PROVE RowsInv'
  <2>1. \A q \in Requests : req'[q] = IF q = r THEN IdleRequest ELSE req[q]
    BY <1>t, <1>10 DEF Burn, Done, Do, GrantsTypeOK
  <2>2. req[r].row \in Codes /\ codes[req[r].row].state = "fresh"
    BY <1>10 DEF Burn, GrantsInv, RowsInv, LockedRowsStay, Exchanging
  <2>3. /\ tokens' = tokens
        /\ \A c \in Codes : /\ codes'[c].user = codes[c].user /\ codes'[c].family = codes[c].family
                            /\ codes'[c].state = IF c = req[r].row THEN "used" ELSE codes[c].state
    BY <1>t, <1>10, <2>2 DEF Burn, GrantsTypeOK, CodeRows
  <2>4. \A q \in Requests \ {r} : req[q].at \in Exchanging => codes'[req[q].row].state = codes[req[q].row].state
    BY <1>10, <2>3 DEF Burn, GrantsInv, RowsInv, LockedRowsStay, Holding, Exchanging
  <2> QED
    BY <1>t, <2>1, <2>2, <2>3, <2>4, StatesWritten
<1>11. ASSUME NEW r \in Requests, FamilyRevoked(r) PROVE RowsInv'
  <2>1. \A q \in Requests : req'[q] = IF q = r THEN IdleRequest ELSE req[q]
    BY <1>t, <1>11 DEF FamilyRevoked, Done, Do, GrantsTypeOK
  <2>2. \A q \in Requests \ {r} : req[q].at \in Holding => req[q].row \notin req[r].seen
    BY <1>11, NotLocked DEF FamilyRevoked
  <2>3. /\ codes' = codes
        /\ \A t \in Tokens : /\ tokens'[t].from = tokens[t].from /\ tokens'[t].family = tokens[t].family
                             /\ \/ tokens'[t].state = tokens[t].state
                                \/ t \in req[r].seen /\ tokens'[t].state = "revoked" /\ tokens[t].state # "none"
    BY <1>t, <1>11 DEF FamilyRevoked, Stored, GrantsTypeOK, TokenRows
  <2>4. \A q \in Requests \ {r} : req[q].at = "rotated" => tokens'[req[q].row].state = tokens[req[q].row].state
    BY <2>2, <2>3 DEF GrantsInv, RowsInv, LockedRowsStay, Holding
  <2> QED
    BY <1>t, <2>1, <2>3, <2>4, StatesWritten
<1>12. ASSUME NEW x, Expire(x) \/ Purge(x) PROVE RowsInv'
  <2>1. \A q \in Requests : req[q].at \in Holding => req[q].row # x
    BY <1>t, <1>12, NotLocked DEF Expire, Purge
  <2>2. \A c \in Codes : /\ codes'[c].user = codes[c].user /\ codes'[c].family = codes[c].family
                         /\ \/ codes'[c].state = codes[c].state
                            \/ c = x /\ codes[c].state = "fresh" /\ codes'[c].state = "expired"
                            \/ c = x /\ codes[c].state # "none" /\ codes'[c].state = "gone"
    BY <1>t, <1>12 DEF Expire, Purge, GrantsTypeOK, CodeRows
  <2>3. \A t \in Tokens : /\ tokens'[t].from = tokens[t].from /\ tokens'[t].family = tokens[t].family
                          /\ \/ tokens'[t].state = tokens[t].state
                             \/ t = x /\ tokens[t].state # "none" /\ tokens'[t].state \in {"expired", "gone"}
    BY <1>t, <1>12 DEF Expire, Purge, GrantsTypeOK, TokenRows
  <2>4. req' = req
    BY <1>12 DEF Expire, Purge
  <2>5. \A q \in Requests : /\ req[q].at \in Exchanging => codes'[req[q].row].state = codes[req[q].row].state
                            /\ req[q].at = "rotated" => tokens'[req[q].row].state = tokens[req[q].row].state
    BY <2>1, <2>2, <2>3 DEF GrantsInv, RowsInv, LockedRowsStay, Holding
  <2> QED
    BY <1>t, <2>2, <2>3, <2>4, <2>5, StatesWritten
<1>13. CASE UNCHANGED <<codes, tokens, req>>
  BY <1>13 DEF GrantsInv, RowsInv, UsersAreKnown, LockedRowsStay, HeirsAreNew, ListedRowsExist,
     LineageIsKept, OneRootPerCode, OneLiveTokenPerFamily
<1>14. ASSUME \/ \E by \in {"self", "admin"} : RegisterOAuthClient(by)
              \/ \E p \in Followed : SignInContinue(p) \/ Resume(p)
              \/ UNCHANGED grantVars
       PROVE  UNCHANGED <<codes, tokens, req>>
  BY <1>14 DEF RegisterOAuthClient, SignInContinue, Resume, grantVars
<1> QED
  BY <1>1, <1>2, <1>3, <1>4, <1>5, <1>6, <1>7, <1>8, <1>9, <1>10, <1>11, <1>12, <1>13, <1>14,
     ExchangeKeeps, RotatedKeeps, SaveCodeKeeps, <1>t
     DEF GrantsNext, TokenStep, ReplayCode, ReuseToken

LEMMA GrantsAlwaysInv == GrantsSpec => []GrantsInv
BY InitGrants, StepGrants, PTL DEF GrantsSpec

\* A set in which no two differ has one element at most.
LEMMA AtMostOne ==
  ASSUME NEW S, \A x, y \in S : x = y
  PROVE  Cardinality(S) <= 1
<1>1. CASE S = {}
  BY <1>1, FS_EmptySet
<1>2. CASE S # {}
  <2>1. PICK x \in S : TRUE
    BY <1>2
  <2>2. S = {x}
    BY <2>1
  <2> QED
    BY <2>2, FS_Singleton
<1> QED
  BY <1>1, <1>2

\* Whatever is presented twice, at once or late: no code starts two families.
THEOREM CodesAreSpentOnce == GrantsSpec => []SpentOnce
<1>1. GrantsInv => SpentOnce
  BY AtMostOne DEF GrantsInv, RowsInv, OneRootPerCode, SpentOnce
<1> QED
  BY <1>1, GrantsAlwaysInv, PTL

\* However rotations, reuse and revocations of it interleave: no family has
\* two tokens that work.
THEOREM FamiliesHaveOneLiveToken == GrantsSpec => []OneLiveTokenPerFamily
<1>1. GrantsInv => OneLiveTokenPerFamily
  BY DEF GrantsInv, RowsInv
<1> QED
  BY <1>1, GrantsAlwaysInv, PTL

\* A token that works is in the family that a replay of its code revokes.
THEOREM LiveTokensAlwaysTraceable == GrantsSpec => []LiveTokensAreTraceable
<1>1. GrantsInv => LiveTokensAreTraceable
  BY DEF GrantsInv, RowsInv, LineageIsKept, LiveTokensAreTraceable
<1> QED
  BY <1>1, GrantsAlwaysInv, PTL

-----------------------------------------------------------------------------
(* OAuthGrants implements TokenFamilies                                    *)

\* A row, or a request that goes on to one, that either does not match the user
\* as he is (and never will again: stamps grow), or is of one who may use MCP.
Backed(x) ==
  /\ x.user \in People /\ x.stamp \in Nat /\ x.stamp <= stamp[x.user]
  /\ Found(x.user) /\ StampMatches(x) => MayUseMCP(x.user)

GrantsAreBacked ==
  /\ \A t \in Tokens : tokens[t].state # "none" => Backed(tokens[t])
  /\ \A r \in Requests : req[r].at \in {"checked", "saved"} => Backed(req[r])

\* A request has its user and origin from the code it has locked.
GrantsAreCarried ==
  \A r \in Requests : req[r].at \in Exchanging =>
    req[r].user = codes[req[r].row].user /\ req[r].origin = codes[req[r].row].origin

FamiliesInv == GrantsInv /\ GrantsAreBacked /\ GrantsAreCarried

\* A new stamp leaves nothing backed by the user's former ones.
LEMMA ChangeBacks ==
  ASSUME UsersTypeOK, NEW p \in People,
         \A q \in People : q # p => role'[q] = role[q] /\ status'[q] = status[q] /\ stamp'[q] = stamp[q],
         (stamp'[p] \in Nat /\ stamp[p] < stamp'[p]) \/ (status'[p] = "deleted" /\ stamp'[p] = stamp[p])
  PROVE  \A x : Backed(x) => Backed(x)'
<1> SUFFICES ASSUME NEW x, Backed(x) PROVE Backed(x)'
  OBVIOUS
<1>1. stamp[p] \in Nat
  BY UsersAssumption DEF UsersTypeOK
<1>2. CASE x.user # p
  BY <1>2 DEF Backed, Found, StampMatches, MayUseMCP
<1>3. CASE x.user = p
  BY <1>1, <1>3 DEF Backed, Found, StampMatches
<1> QED
  BY <1>2, <1>3

\* A change of a user gives a new stamp, or the user is gone.
LEMMA UserChanges ==
  ASSUME UsersTypeOK, UsersStep
  PROVE  \E p \in People :
           /\ \A q \in People : q # p => role'[q] = role[q] /\ status'[q] = status[q] /\ stamp'[q] = stamp[q]
           /\ (stamp'[p] \in Nat /\ stamp[p] < stamp'[p]) \/ (status'[p] = "deleted" /\ stamp'[p] = stamp[p])
<1>p. Followed \subseteq People /\ \A q \in People : stamp[q] \in Nat
  BY UsersAssumption DEF UsersTypeOK
<1>1. ASSUME NEW p \in Followed, NEW admin, NEW r, BlockUser(admin, p) \/ UnblockUser(admin, p) \/ ChangeUserRole(admin, p, r)
      PROVE  /\ \A q \in People : q # p => role'[q] = role[q] /\ status'[q] = status[q] /\ stamp'[q] = stamp[q]
             /\ stamp'[p] \in Nat /\ stamp[p] < stamp'[p]
  BY <1>p, <1>1 DEF BlockUser, UnblockUser, ChangeUserRole, NewStamp, UsersTypeOK
<1>2. ASSUME NEW p \in Followed, DeleteCurrentUser(p)
      PROVE  /\ \A q \in People : q # p => role'[q] = role[q] /\ status'[q] = status[q] /\ stamp'[q] = stamp[q]
             /\ status'[p] = "deleted" /\ stamp'[p] = stamp[p]
  BY <1>p, <1>2 DEF DeleteCurrentUser, UsersTypeOK
<1> QED
  BY <1>p, <1>1, <1>2 DEF UsersStep

\* What a step does to the rows and the users.
StatesOnly ==
  /\ UNCHANGED userVars
  /\ \A c \in Codes : /\ codes'[c].user = codes[c].user /\ codes'[c].origin = codes[c].origin
                      /\ codes'[c].state = "none" <=> codes[c].state = "none"
  /\ \A t \in Tokens : /\ tokens'[t].user = tokens[t].user /\ tokens'[t].origin = tokens[t].origin
                       /\ tokens'[t].stamp = tokens[t].stamp /\ tokens'[t].from = tokens[t].from
                       /\ tokens'[t].state = "none" <=> tokens[t].state = "none"
                       /\ tokens'[t].state = "live" => tokens[t].state = "live"

LEMMA StepKinds ==
  ASSUME GrantsInv, [GrantsNext]_<<userVars, grantVars>>
  PROVE  \/ StatesOnly
         \/ \E r \in Requests, c \in Codes : SaveOAuthCode(r, c)
         \/ \E r \in Requests : Exchange(r) \/ Rotated(r)
         \/ UsersStep /\ UNCHANGED grantVars
<1>t. codes \in [Codes -> CodeRows] /\ tokens \in [Tokens -> TokenRows]
  BY DEF GrantsInv, GrantsTypeOK
<1>1. ASSUME UNCHANGED <<codes, tokens, userVars>> PROVE StatesOnly
  BY <1>1 DEF StatesOnly
<1>2. ASSUME NEW r \in Requests, Burn(r) PROVE StatesOnly
  <2>1. req[r].row \in Codes /\ codes[req[r].row].state = "fresh"
    BY <1>2 DEF Burn, GrantsInv, RowsInv, LockedRowsStay, Exchanging
  <2> QED
    BY <1>t, <1>2, <2>1 DEF Burn, StatesOnly, CodeRows
<1>3. ASSUME NEW r \in Requests, ClientDeleted(r) PROVE StatesOnly
  <2>1. \A c \in Codes : c \in req[r].seen => codes[c].state # "none"
    BY DEF GrantsInv, RowsInv, ListedRowsExist
  <2>2. \A t \in Tokens : t \in req[r].seen => tokens[t].state # "none"
    BY DEF GrantsInv, RowsInv, ListedRowsExist
  <2>3. /\ UNCHANGED userVars
        /\ \A c \in Codes : codes'[c] = IF c \in req[r].seen THEN [codes[c] EXCEPT !.state = "gone"] ELSE codes[c]
        /\ \A t \in Tokens : tokens'[t] = IF t \in req[r].seen THEN [tokens[t] EXCEPT !.state = "gone"] ELSE tokens[t]
    BY <1>t, <1>3 DEF ClientDeleted
  <2>4. ASSUME NEW c \in Codes
        PROVE  /\ codes'[c].user = codes[c].user /\ codes'[c].origin = codes[c].origin
               /\ codes'[c].state = "none" <=> codes[c].state = "none"
    <3>1. codes[c] \in CodeRows
      BY <1>t
    <3>2. CASE c \in req[r].seen
      <4>1. codes'[c] = [codes[c] EXCEPT !.state = "gone"] /\ codes[c].state # "none"
        BY <2>1, <2>3, <3>2
      <4> QED
        BY <3>1, <4>1 DEF CodeRows
    <3>3. CASE c \notin req[r].seen
      BY <2>3, <3>3
    <3> QED
      BY <3>2, <3>3
  <2>5. ASSUME NEW t \in Tokens
        PROVE  /\ tokens'[t].user = tokens[t].user /\ tokens'[t].origin = tokens[t].origin
               /\ tokens'[t].stamp = tokens[t].stamp /\ tokens'[t].from = tokens[t].from
               /\ tokens'[t].state = "none" <=> tokens[t].state = "none"
               /\ tokens'[t].state = "live" => tokens[t].state = "live"
    <3>1. tokens[t] \in TokenRows
      BY <1>t
    <3>2. CASE t \in req[r].seen
      <4>1. tokens'[t] = [tokens[t] EXCEPT !.state = "gone"] /\ tokens[t].state # "none"
        BY <2>2, <2>3, <3>2
      <4> QED
        BY <3>1, <4>1 DEF TokenRows
    <3>3. CASE t \notin req[r].seen
      BY <2>3, <3>3
    <3> QED
      BY <3>2, <3>3
  <2> QED
    BY <2>3, <2>4, <2>5 DEF StatesOnly
<1>4. ASSUME NEW r \in Requests, FamilyRevoked(r) PROVE StatesOnly
  BY <1>t, <1>4 DEF FamilyRevoked, StatesOnly, TokenRows, Stored
<1>5. ASSUME NEW x, Expire(x) \/ Purge(x) PROVE StatesOnly
  <2>1. CASE x \in Codes
    <3>1. x \notin Tokens /\ x # NoRow
      BY <2>1, GrantsAssumption
    <3> QED
      BY <1>t, <1>5, <2>1, <3>1 DEF Expire, Purge, StatesOnly, CodeRows
  <2>2. CASE x \in Tokens
    <3>1. x \notin Codes /\ x # NoRow
      BY <2>2, GrantsAssumption
    <3> QED
      BY <1>t, <1>5, <2>2, <3>1 DEF Expire, Purge, StatesOnly, TokenRows
  <2>3. CASE x \notin Codes \cup Tokens
    BY <1>1, <1>5, <2>3 DEF Expire, Purge
  <2> QED
    BY <2>1, <2>2, <2>3
<1>6. ASSUME NEW r \in Requests, NEW p, NEW o, NEW c, NEW t, NEW h,
             \/ ConsumeOAuthCode(r, c, o) \/ ReplayCode(r, c, o) \/ ReuseToken(r, t, o) \/ RotateOAuthRefreshToken(r, t, h, o)
             \/ ReadGrantUser(r) \/ Abandon(r) \/ SaveOAuthRefreshToken(r, t) \/ DeleteOAuthClient(r) \/ Approve(r, p, o)
      PROVE  UNCHANGED <<codes, tokens, userVars>>
  BY <1>6 DEF ConsumeOAuthCode, ConsumeUnlocked, ReplayCode, ReuseToken, Revoke, RotateOAuthRefreshToken, RotateUnlocked,
       ReadGrantUser, Abandon, SaveOAuthRefreshToken, DeleteOAuthClient, Approve
<1>7. ASSUME NEW p, NEW by, RegisterOAuthClient(by) \/ SignInContinue(p) \/ Resume(p) PROVE UNCHANGED <<codes, tokens, userVars>>
  BY <1>7 DEF RegisterOAuthClient, SignInContinue, Resume
<1>8. ASSUME UNCHANGED <<userVars, grantVars>> PROVE UNCHANGED <<codes, tokens, userVars>>
  BY <1>8 DEF grantVars
<1>9. ASSUME NEW r \in Requests, TokenStep(r), ~Exchange(r), ~Rotated(r) PROVE StatesOnly
  BY <1>1, <1>2, <1>4, <1>6, <1>9 DEF TokenStep
<1> QED
  BY <1>1, <1>3, <1>5, <1>6, <1>7, <1>8, <1>9 DEF GrantsNext

\* How a request comes to hold a code, and what it goes on with.
HoldsCode(r) ==
  \/ req'[r] = req[r]
  \/ /\ req'[r].at = "consumed" /\ UNCHANGED <<codes, userVars>>
     /\ req'[r].user = codes[req'[r].row].user /\ req'[r].origin = codes[req'[r].row].origin
  \/ /\ req[r].at \in Exchanging /\ UNCHANGED <<codes, userVars>>
     /\ req'[r].user = req[r].user /\ req'[r].origin = req[r].origin /\ req'[r].row = req[r].row
     /\ \/ req'[r].at = "checked" /\ MayUseMCP(req[r].user) /\ req'[r].stamp = stamp[req[r].user]
        \/ req'[r].at = "saved" /\ req[r].at = "checked" /\ req'[r].stamp = req[r].stamp

LEMMA RequestKinds ==
  ASSUME GrantsInv, [GrantsNext]_<<userVars, grantVars>>, NEW r \in Requests, req'[r].at \in Exchanging
  PROVE  HoldsCode(r)
<1>t. req \in [Requests -> RequestStates]
  BY DEF GrantsInv, GrantsTypeOK
<1>0. ASSUME UNCHANGED req PROVE HoldsCode(r)
  BY <1>0 DEF HoldsCode
<1>1. ASSUME NEW q \in Requests, NEW new, Do(q, new), q = r => new.at \notin Exchanging PROVE HoldsCode(r)
  <2>1. req'[r] = IF q = r THEN new ELSE req[r]
    BY <1>t, <1>1 DEF Do
  <2> QED
    BY <1>1, <2>1 DEF HoldsCode
<1>2. ASSUME NEW q \in Requests, Done(q) PROVE HoldsCode(r)
  BY <1>1, <1>2 DEF Done, IdleRequest, Exchanging
<1>3. ASSUME NEW q \in Requests, NEW c, NEW o, ConsumeOAuthCode(q, c, o) PROVE HoldsCode(r)
  <2> DEFINE new == [IdleRequest EXCEPT !.at = "consumed", !.user = codes[c].user, !.origin = o, !.row = c]
  <2>1. /\ new.at = "consumed" /\ new.user = codes[c].user /\ new.origin = o /\ new.row = c
    BY DEF IdleRequest
  <2>2. Do(q, new) /\ codes[c].origin = o /\ UNCHANGED <<codes, userVars>>
    BY <1>3 DEF ConsumeOAuthCode, ConsumeUnlocked
  <2> HIDE DEF new
  <2>3. req'[r] = IF q = r THEN new ELSE req[r]
    BY <1>t, <2>2 DEF Do
  <2> QED
    BY <2>1, <2>2, <2>3 DEF HoldsCode
<1>4. ASSUME NEW q \in Requests, ReadGrantUser(q) PROVE HoldsCode(r)
  <2> DEFINE new == [req[q] EXCEPT !.at = "checked", !.stamp = stamp[req[q].user]]
  <2>1. /\ new.at = "checked" /\ new.user = req[q].user /\ new.origin = req[q].origin /\ new.row = req[q].row
        /\ new.stamp = stamp[req[q].user]
    BY <1>t DEF RequestStates
  <2>2. Do(q, new) /\ req[q].at = "consumed" /\ MayUseMCP(req[q].user) /\ UNCHANGED <<codes, userVars>>
    BY <1>4 DEF ReadGrantUser
  <2> HIDE DEF new
  <2>3. req'[r] = IF q = r THEN new ELSE req[r]
    BY <1>t, <2>2 DEF Do
  <2> QED
    BY <2>1, <2>2, <2>3 DEF Exchanging, HoldsCode
<1>5. ASSUME NEW q \in Requests, NEW t, SaveOAuthRefreshToken(q, t) PROVE HoldsCode(r)
  <2> DEFINE new == [req[q] EXCEPT !.at = "saved", !.heir = t]
  <2>1. /\ new.at = "saved" /\ new.user = req[q].user /\ new.origin = req[q].origin /\ new.row = req[q].row
        /\ new.stamp = req[q].stamp
    BY <1>t DEF RequestStates
  <2>2. Do(q, new) /\ req[q].at = "checked" /\ UNCHANGED <<codes, userVars>>
    BY <1>5 DEF SaveOAuthRefreshToken
  <2> HIDE DEF new
  <2>3. req'[r] = IF q = r THEN new ELSE req[r]
    BY <1>t, <2>2 DEF Do
  <2> QED
    BY <2>1, <2>2, <2>3 DEF Exchanging, HoldsCode
<1>6. ASSUME NEW q \in Requests, Burn(q) \/ Exchange(q) \/ Rotated(q) \/ FamilyRevoked(q) \/ Abandon(q) \/ ClientDeleted(q)
             \/ \E c \in Codes : SaveOAuthCode(q, c)
      PROVE  Done(q)
  BY <1>6 DEF Burn, Exchange, Rotated, FamilyRevoked, Abandon, ClientDeleted, SaveOAuthCode
<1>7. ASSUME NEW q \in Requests, NEW f, Revoke(q, f) PROVE HoldsCode(r)
  BY <1>1, <1>7 DEF Revoke, IdleRequest, Exchanging
<1>8. ASSUME NEW q \in Requests, NEW t, NEW h, NEW o, RotateOAuthRefreshToken(q, t, h, o) PROVE HoldsCode(r)
  BY <1>1, <1>8 DEF RotateOAuthRefreshToken, RotateUnlocked, IdleRequest, Exchanging
<1>9. ASSUME NEW q \in Requests, NEW p, NEW o, DeleteOAuthClient(q) \/ Approve(q, p, o) PROVE HoldsCode(r)
  BY <1>1, <1>9 DEF DeleteOAuthClient, Approve, IdleRequest, Exchanging
<1>10. ASSUME NEW p, NEW by, NEW x, RegisterOAuthClient(by) \/ SignInContinue(p) \/ Resume(p) \/ Expire(x) \/ Purge(x)
       PROVE  UNCHANGED req
  BY <1>10 DEF RegisterOAuthClient, SignInContinue, Resume, Expire, Purge
<1>11. ASSUME UNCHANGED grantVars PROVE UNCHANGED req
  BY <1>11 DEF grantVars
<1>12. ASSUME NEW q \in Requests, TokenStep(q) PROVE HoldsCode(r)
  BY <1>2, <1>3, <1>4, <1>5, <1>6, <1>7, <1>8, <1>12 DEF TokenStep, ReplayCode, ReuseToken
<1> QED
  BY <1>0, <1>2, <1>6, <1>9, <1>10, <1>11, <1>12 DEF GrantsNext

LEMMA StepCarried ==
  ASSUME GrantsInv, GrantsInv', GrantsAreCarried, [GrantsNext]_<<userVars, grantVars>>
  PROVE  GrantsAreCarried'
<1> SUFFICES ASSUME NEW r \in Requests, req'[r].at \in Exchanging
             PROVE  req'[r].user = codes'[req'[r].row].user /\ req'[r].origin = codes'[req'[r].row].origin
  BY DEF GrantsAreCarried
<1>1. CASE req'[r] = req[r]
  <2>1. req[r].row \in Codes /\ codes[req[r].row].state = "fresh"
    BY <1>1 DEF GrantsInv, RowsInv, LockedRowsStay
  <2>2. codes'[req[r].row].user = codes[req[r].row].user /\ codes'[req[r].row].origin = codes[req[r].row].origin
    <3>1. CASE StatesOnly
      BY <2>1, <3>1 DEF StatesOnly
    <3>2. ASSUME NEW q \in Requests, NEW c \in Codes, SaveOAuthCode(q, c) PROVE codes'[req[r].row] = codes[req[r].row]
      BY <2>1, <3>2 DEF SaveOAuthCode, GrantsInv, GrantsTypeOK
    <3>3. ASSUME NEW q \in Requests, Exchange(q)
          PROVE  codes'[req[r].row].user = codes[req[r].row].user /\ codes'[req[r].row].origin = codes[req[r].row].origin
      BY <2>1, <3>3 DEF Exchange, GrantsInv, GrantsTypeOK, CodeRows
    <3>4. ASSUME NEW q \in Requests, Rotated(q) PROVE codes' = codes
      BY <3>4 DEF Rotated
    <3>5. UNCHANGED grantVars => codes' = codes
      BY DEF grantVars
    <3> QED
      BY <3>1, <3>2, <3>3, <3>4, <3>5, StepKinds
  <2> QED
    BY <1>1, <2>2 DEF GrantsAreCarried
<1>2. CASE req'[r] # req[r]
  BY <1>2, RequestKinds DEF GrantsAreCarried, HoldsCode
<1> QED
  BY <1>1, <1>2

LEMMA StepBacked ==
  ASSUME GrantsInv, GrantsAreBacked, [GrantsNext]_<<userVars, grantVars>>
  PROVE  GrantsAreBacked'
<1>t. UsersTypeOK /\ tokens \in [Tokens -> TokenRows] /\ req \in [Requests -> RequestStates]
  BY DEF GrantsInv, GrantsTypeOK
<1>1. \A x : Backed(x) => Backed(x)'
  <2>1. CASE UNCHANGED userVars
    BY <2>1 DEF Backed, Found, StampMatches, MayUseMCP, userVars
  <2>2. CASE UsersStep
    BY <1>t, <2>2, UserChanges, ChangeBacks
  <2>3. ASSUME NEW r \in Requests, NEW c, SaveOAuthCode(r, c) \/ Exchange(r) \/ Rotated(r) PROVE UNCHANGED userVars
    BY <2>3 DEF SaveOAuthCode, Exchange, Rotated
  <2> QED
    BY <2>1, <2>2, <2>3, StepKinds DEF StatesOnly
<1>3. ASSUME NEW r \in Requests, req'[r].at \in {"checked", "saved"} PROVE Backed(req[r])'
  <2>0. HoldsCode(r)
    BY <1>3, RequestKinds DEF Exchanging
  <2>1. CASE req'[r] = req[r]
    BY <1>1, <1>3, <2>1 DEF GrantsAreBacked
  <2>2. CASE req'[r].at = "checked" /\ MayUseMCP(req[r].user) /\ req'[r].stamp = stamp[req[r].user]
               /\ req'[r].user = req[r].user /\ req[r].at \in Exchanging /\ UNCHANGED userVars
    <3>1. req[r].user \in People
      BY <2>2 DEF GrantsInv, RowsInv, UsersAreKnown
    <3> QED
      BY <1>t, <2>2, <3>1, UsersAssumption DEF Backed, MayUseMCP, Found, userVars, UsersTypeOK
  <2>3. CASE req'[r].at = "saved" /\ req[r].at = "checked" /\ req'[r].stamp = req[r].stamp /\ req'[r].user = req[r].user
    <3>1. Backed(req[r])
      BY <2>3 DEF GrantsAreBacked
    <3>2. \A y : Backed(y) /\ y.user = req'[r].user /\ y.stamp = req'[r].stamp => Backed(req[r])'
      BY <1>1 DEF Backed, StampMatches
    <3> QED
      BY <2>3, <3>1, <3>2
  <2> QED
    BY <1>3, <2>0, <2>1, <2>2, <2>3 DEF HoldsCode
<1>4. ASSUME NEW t \in Tokens, tokens'[t].state # "none" PROVE Backed(tokens[t])'
  <2>0. \A y : Backed(y) /\ y.user = tokens'[t].user /\ y.stamp = tokens'[t].stamp => Backed(tokens[t])'
    BY <1>1 DEF Backed, StampMatches
  <2>1. CASE StatesOnly
    <3>1. Backed(tokens[t])
      BY <1>4, <2>1 DEF GrantsAreBacked, StatesOnly
    <3> QED
      BY <2>0, <2>1, <3>1 DEF StatesOnly
  <2>2. CASE tokens' = tokens
    BY <1>4, <2>0, <2>2 DEF GrantsAreBacked
  <2>3. ASSUME NEW r \in Requests, Exchange(r) PROVE Backed(tokens[t])'
    <3>1. Backed(req[r])
      BY <2>3 DEF Exchange, GrantsAreBacked
    <3>2. tokens'[t] = tokens[t] \/ (tokens'[t].user = req[r].user /\ tokens'[t].stamp = req[r].stamp)
      BY <1>t, <2>3 DEF Exchange, FirstToken
    <3> QED
      BY <1>4, <2>0, <3>1, <3>2 DEF GrantsAreBacked
  <2>4. ASSUME NEW r \in Requests, Rotated(r) PROVE Backed(tokens[t])'
    <3>1. req[r].row \in Tokens /\ tokens[req[r].row].state = "live"
      BY <2>4 DEF Rotated, GrantsInv, RowsInv, LockedRowsStay
    <3>2. \/ tokens'[t] = tokens[t]
          \/ tokens'[t].user = tokens[req[r].row].user /\ tokens'[t].stamp = tokens[req[r].row].stamp
      BY <1>t, <2>4, <3>1 DEF Rotated, TokenRows
    <3>3. Backed(tokens[req[r].row])
      BY <3>1 DEF GrantsAreBacked
    <3> QED
      BY <1>4, <2>0, <3>2, <3>3 DEF GrantsAreBacked
  <2>5. ASSUME NEW r \in Requests, NEW c, SaveOAuthCode(r, c) PROVE tokens' = tokens
    BY <2>5 DEF SaveOAuthCode
  <2>6. UNCHANGED grantVars => tokens' = tokens
    BY DEF grantVars
  <2> QED
    BY <2>1, <2>2, <2>3, <2>4, <2>5, <2>6, StepKinds
<1> QED
  BY <1>3, <1>4 DEF GrantsAreBacked

LEMMA InitFamilies ==
  ASSUME GrantsInit, \E admins \in SUBSET People : UsersInit(admins)
  PROVE  FamiliesInv /\ Families!TFInit
<1>1. GrantsInv
  BY InitGrants
<1>2. GrantsAreBacked /\ GrantsAreCarried
  BY DEF GrantsInit, GrantsAreBacked, GrantsAreCarried, NoToken, IdleRequest, Exchanging
<1>3. Approvals = [c \in {} |-> c] /\ Descent = [t \in {} |-> t]
  BY DEF GrantsInit, Approvals, Descent, NoCode, NoToken
<1>4. Working = {} /\ Entitled \subseteq People
  BY DEF GrantsInit, Working, Works, NoToken, Entitled
<1> QED
  BY <1>1, <1>2, <1>3, <1>4 DEF FamiliesInv, Families!TFInit

LEMMA DomainsAre ==
  /\ DOMAIN Approvals = {c \in Codes : codes[c].state # "none"}
  /\ \A c \in DOMAIN Approvals : Approvals[c] = Grant(codes[c])
  /\ DOMAIN Descent = {t \in Tokens : tokens[t].state # "none"}
  /\ \A t \in DOMAIN Descent : Descent[t].code = tokens[t].from /\ Descent[t].grant = Grant(tokens[t])
BY DEF Approvals, Descent

LEMMA SameMeaning ==
  ASSUME UNCHANGED userVars
  PROVE  UNCHANGED Entitled
         /\ \A t : tokens'[t].user = tokens[t].user /\ tokens'[t].stamp = tokens[t].stamp
                    => (Works(t)' <=> tokens'[t].state = "live" /\ Found(tokens[t].user) /\ StampMatches(tokens[t]))
BY DEF Entitled, MayUseMCP, Works, Found, StampMatches, userVars

\* Steps that only write states withdraw tokens.
LEMMA StatesWithdraw ==
  ASSUME StatesOnly
  PROVE  \E ts \in SUBSET Tokens : Families!Withdraw(ts)
<1>1. UNCHANGED Approvals
  BY DEF Approvals, StatesOnly, Grant
<1>2. UNCHANGED Descent
  BY DEF Descent, StatesOnly, Grant
<1>3. Working' \subseteq Working
  BY SameMeaning DEF Working, StatesOnly, Works
<1>4. UNCHANGED Entitled
  BY SameMeaning DEF StatesOnly
<1>5. Tokens \ Working' \in SUBSET Tokens /\ Working' = Working \ (Tokens \ Working')
  BY <1>3 DEF Working
<1> QED
  BY <1>1, <1>2, <1>4, <1>5 DEF Families!Withdraw

LEMMA CodeApproves ==
  ASSUME GrantsInv, NEW r \in Requests, NEW c \in Codes, SaveOAuthCode(r, c)
  PROVE  \E g \in Families!Grants : Families!Approve(c, g)
<1> DEFINE g == Grant(req[r])
<1>1. g \in Families!Grants
  <2>1. req[r].user \in People /\ req[r].origin \in {"board", "mcp"}
    BY DEF SaveOAuthCode, GrantsInv, RowsInv, UsersAreKnown, GrantsTypeOK, RequestStates
  <2> QED
    BY <2>1 DEF Grant, Families!Grants
<1>2. /\ codes[c].state = "none" /\ UNCHANGED <<tokens, userVars>>
      /\ \A d \in Codes : d # c => codes'[d] = codes[d]
      /\ codes'[c].state = "fresh" /\ codes'[c].user = req[r].user /\ codes'[c].origin = req[r].origin
  BY DEF SaveOAuthCode, NoCode, GrantsInv, GrantsTypeOK
<1>3. Approvals' = Families!Put(Approvals, c, g)
  <2>1. DOMAIN Approvals' = DOMAIN Approvals \cup {c}
    BY <1>2 DEF Approvals
  <2>2. \A d \in DOMAIN Approvals' : Approvals'[d] = IF d = c THEN g ELSE Approvals[d]
    BY <1>2 DEF Approvals, Grant
  <2>3. Approvals' = [d \in DOMAIN Approvals' |-> Approvals'[d]]
    BY DEF Approvals
  <2> HIDE DEF g
  <2> QED
    BY <2>1, <2>2, <2>3 DEF Families!Put
<1>4. UNCHANGED <<Descent, Working, Entitled>>
  <2>1. UNCHANGED Descent
    BY <1>2 DEF Descent
  <2>2. UNCHANGED Working
    BY <1>2 DEF Working, Works, Found, StampMatches, userVars
  <2> QED
    BY <1>2, <2>1, <2>2, SameMeaning
<1>5. c \notin DOMAIN Approvals
  BY <1>2, DomainsAre
<1> QED
  BY <1>1, <1>3, <1>4, <1>5 DEF Families!Approve

LEMMA ExchangeStarts ==
  ASSUME FamiliesInv, NEW r \in Requests, Exchange(r)
  PROVE  \E c \in Codes, t \in Tokens, works \in BOOLEAN : Families!Start(c, t, works)
<1>t. codes \in [Codes -> CodeRows] /\ tokens \in [Tokens -> TokenRows]
  BY DEF FamiliesInv, GrantsInv, GrantsTypeOK
<1>1. PICK c \in Codes, t \in Tokens :
        /\ c = req[r].row /\ codes[c].state = "fresh"
        /\ t = req[r].heir /\ tokens[t].state = "none" /\ Backed(req[r])
        /\ req[r].user = codes[c].user /\ req[r].origin = codes[c].origin
  BY DEF Exchange, FamiliesInv, GrantsInv, RowsInv, LockedRowsStay, HeirsAreNew, Exchanging, GrantsAreBacked, GrantsAreCarried
<1>2. /\ \A d \in Codes : /\ codes'[d].user = codes[d].user /\ codes'[d].origin = codes[d].origin
                          /\ codes'[d].state = "none" <=> codes[d].state = "none"
      /\ \A u \in Tokens : u # t => tokens'[u] = tokens[u]
      /\ tokens'[t].state = "live" /\ tokens'[t].from = c /\ tokens'[t].stamp = req[r].stamp
      /\ tokens'[t].user = req[r].user /\ tokens'[t].origin = req[r].origin
      /\ UNCHANGED userVars
  BY <1>t, <1>1 DEF Exchange, FirstToken, CodeRows
<1> DEFINE works == Works(t)'
<1>3. UNCHANGED Approvals /\ UNCHANGED Entitled
  <2>1. UNCHANGED Approvals
    BY <1>2 DEF Approvals, Grant
  <2> QED
    BY <1>2, <2>1, SameMeaning
<1>4. c \in DOMAIN Approvals /\ t \notin DOMAIN Descent /\ Approvals[c] = Grant(req[r])
  BY <1>1, DomainsAre DEF Grant
<1>5. \A u \in DOMAIN Descent : Descent[u].code # c
  BY <1>1, DomainsAre DEF FamiliesInv, GrantsInv, RowsInv, LineageIsKept
<1>6. Descent' = Families!Put(Descent, t, [code |-> c, grant |-> Approvals[c]])
  <2>1. DOMAIN Descent' = DOMAIN Descent \cup {t}
    BY <1>1, <1>2 DEF Descent
  <2>2. \A u \in DOMAIN Descent' : Descent'[u] = IF u = t THEN [code |-> c, grant |-> Approvals[c]] ELSE Descent[u]
    <3>1. \A u \in DOMAIN Descent' : Descent'[u] = [code |-> tokens'[u].from, grant |-> Grant(tokens'[u])]
      BY DEF Descent, Grant
    <3>2. \A u \in DOMAIN Descent : Descent[u] = [code |-> tokens[u].from, grant |-> Grant(tokens[u])] /\ u \in Tokens
      BY DEF Descent
    <3>3. Grant(tokens'[t]) = Approvals[c]
      BY <1>2, <1>4 DEF Grant
    <3> QED
      BY <1>2, <2>1, <3>1, <3>2, <3>3
  <2>3. Descent' = [u \in DOMAIN Descent' |-> Descent'[u]]
    BY DEF Descent
  <2> QED
    BY <2>1, <2>2, <2>3 DEF Families!Put
<1>7. Working' = IF works THEN Working \cup {t} ELSE Working
  <2>1. ASSUME NEW u \in Tokens, u # t PROVE u \in Working' <=> u \in Working
    BY <1>2, <2>1 DEF Working, Works, Found, StampMatches, userVars
  <2>2. t \notin Working /\ Working \subseteq Tokens /\ Working' \subseteq Tokens
    BY <1>1 DEF Working, Works
  <2>3. works <=> t \in Working'
    BY DEF Working
  <2> HIDE DEF works
  <2> QED
    BY <2>1, <2>2, <2>3
<1>8. works => Approvals[c].user \in Entitled
  <2>1. works => Found(req[r].user) /\ StampMatches(req[r])
    BY <1>2 DEF Works, Found, StampMatches, userVars
  <2> QED
    BY <1>1, <1>4, <2>1 DEF Backed, Entitled, Grant
<1>9. works \in BOOLEAN
  BY DEF Works
<1> HIDE DEF works
<1> QED
  BY <1>1, <1>3, <1>4, <1>5, <1>6, <1>7, <1>8, <1>9 DEF Families!Start

LEMMA RotatedReplaces ==
  ASSUME FamiliesInv, NEW r \in Requests, Rotated(r)
  PROVE  \E t, heir \in Tokens : Families!Replace(t, heir)
<1>t. tokens \in [Tokens -> TokenRows]
  BY DEF FamiliesInv, GrantsInv, GrantsTypeOK
<1>1. PICK t \in Tokens, h \in Tokens :
        /\ t = req[r].row /\ tokens[t].state = "live"
        /\ h = req[r].heir /\ tokens[h].state = "none" /\ t # h
  BY DEF Rotated, FamiliesInv, GrantsInv, RowsInv, LockedRowsStay, HeirsAreNew
<1>2. /\ \A u \in Tokens : u # t /\ u # h => tokens'[u] = tokens[u]
      /\ tokens'[t].state = "rotated" /\ tokens'[h].state = "live"
      /\ \A u \in {t, h} : /\ tokens'[u].from = tokens[t].from /\ tokens'[u].stamp = tokens[t].stamp
                           /\ tokens'[u].user = tokens[t].user /\ tokens'[u].origin = tokens[t].origin
      /\ UNCHANGED <<codes, userVars>>
  BY <1>t, <1>1 DEF Rotated, TokenRows
<1>3. UNCHANGED Approvals /\ UNCHANGED Entitled
  <2>1. UNCHANGED Approvals
    BY <1>2 DEF Approvals, Grant
  <2> QED
    BY <1>2, <2>1, SameMeaning
<1>4. t \in DOMAIN Descent /\ h \notin DOMAIN Descent
  BY <1>1, DomainsAre
<1>5. Descent' = Families!Put(Descent, h, Descent[t])
  <2>1. DOMAIN Descent' = DOMAIN Descent \cup {h}
    BY <1>1, <1>2 DEF Descent
  <2>2. \A u \in DOMAIN Descent' : Descent'[u] = IF u = h THEN Descent[t] ELSE Descent[u]
    <3>1. \A u \in DOMAIN Descent' : Descent'[u] = [code |-> tokens'[u].from, grant |-> Grant(tokens'[u])]
      BY DEF Descent, Grant
    <3>2. \A u \in DOMAIN Descent : Descent[u] = [code |-> tokens[u].from, grant |-> Grant(tokens[u])] /\ u \in Tokens
      BY DEF Descent
    <3>3. Grant(tokens'[t]) = Grant(tokens[t]) /\ Grant(tokens'[h]) = Grant(tokens[t])
      BY <1>2 DEF Grant
    <3> QED
      BY <1>2, <1>4, <2>1, <3>1, <3>2, <3>3
  <2>3. Descent' = [u \in DOMAIN Descent' |-> Descent'[u]]
    BY DEF Descent
  <2> QED
    BY <2>1, <2>2, <2>3 DEF Families!Put
<1>6. Working' = IF t \in Working THEN (Working \ {t}) \cup {h} ELSE Working
  <2>1. ASSUME NEW u \in Tokens, u # t, u # h PROVE u \in Working' <=> u \in Working
    BY <1>2, <2>1 DEF Working, Works, Found, StampMatches, userVars
  <2>2. h \notin Working /\ t \notin Working' /\ Working \subseteq Tokens /\ Working' \subseteq Tokens
    BY <1>1, <1>2 DEF Working, Works
  <2>3. h \in Working' <=> t \in Working
    BY <1>1, <1>2 DEF Working, Works, Found, StampMatches, userVars
  <2> QED
    BY <1>1, <2>1, <2>2, <2>3
<1> QED
  BY <1>1, <1>3, <1>4, <1>5, <1>6 DEF Families!Replace

LEMMA UserChangeEnds ==
  ASSUME FamiliesInv, UsersStep, UNCHANGED grantVars
  PROVE  \E p \in People, may \in BOOLEAN : Families!Change(p, may)
<1>1. PICK p \in People :
        /\ \A q \in People : q # p => role'[q] = role[q] /\ status'[q] = status[q] /\ stamp'[q] = stamp[q]
        /\ (stamp'[p] \in Nat /\ stamp[p] < stamp'[p]) \/ (status'[p] = "deleted" /\ stamp'[p] = stamp[p])
  BY UserChanges DEF FamiliesInv, GrantsInv, GrantsTypeOK
<1> DEFINE may == MayUseMCP(p)'
<1>2. UNCHANGED <<codes, tokens>> /\ UNCHANGED Approvals /\ UNCHANGED Descent
  BY DEF grantVars, Approvals, Descent
<1>3. Entitled' = IF may THEN Entitled \cup {p} ELSE Entitled \ {p}
  <2>1. \A q \in People : q # p => (MayUseMCP(q)' <=> MayUseMCP(q))
    BY <1>1 DEF MayUseMCP, Found
  <2>2. may <=> MayUseMCP(p)'
    OBVIOUS
  <2> HIDE DEF may
  <2> QED
    BY <2>1, <2>2 DEF Entitled
<1>4. Working' = {t \in Working : Descent[t].grant.user # p}
  <2>1. ASSUME NEW t \in Tokens PROVE Works(t)' <=> Works(t) /\ tokens[t].user # p
    <3>1. CASE tokens[t].state # "live"
      BY <1>2, <3>1 DEF Works
    <3>2. CASE tokens[t].state = "live"
      <4>1. Backed(tokens[t])
        BY <3>2 DEF FamiliesInv, GrantsAreBacked
      <4>2. CASE tokens[t].user = p
        <5>1. ~Works(t)'
          BY <1>1, <1>2, <4>1, <4>2 DEF Works, Found, StampMatches, Backed, FamiliesInv, GrantsInv, GrantsTypeOK, UsersTypeOK
        <5> QED
          BY <4>2, <5>1
      <4>3. CASE tokens[t].user # p
        BY <1>1, <1>2, <4>1, <4>3 DEF Works, Found, StampMatches, Backed
      <4> QED
        BY <4>2, <4>3
    <3> QED
      BY <3>1, <3>2
  <2>2. ASSUME NEW t \in Working PROVE t \in Tokens /\ Descent[t].grant.user = tokens[t].user
    <3>1. t \in Tokens /\ tokens[t].state # "none"
      BY DEF Working, Works
    <3>2. t \in DOMAIN Descent /\ Descent[t].grant = Grant(tokens[t])
      BY <3>1, DomainsAre
    <3>3. Grant(tokens[t]).user = tokens[t].user
      BY DEF Grant
    <3> QED
      BY <3>1, <3>2, <3>3
  <2> QED
    BY <2>1, <2>2 DEF Working
<1>5. may \in BOOLEAN
  BY DEF MayUseMCP
<1> HIDE DEF may
<1> QED
  BY <1>2, <1>3, <1>4, <1>5 DEF Families!Change

LEMMA StepFamilies ==
  ASSUME FamiliesInv, [GrantsNext]_<<userVars, grantVars>>
  PROVE  Families!TFNext
<1>1. GrantsInv
  BY DEF FamiliesInv
<1>2. CASE StatesOnly
  BY <1>2, StatesWithdraw DEF Families!TFNext
<1>3. ASSUME NEW r \in Requests, NEW c \in Codes, SaveOAuthCode(r, c) PROVE Families!TFNext
  BY <1>1, <1>3, CodeApproves DEF Families!TFNext
<1>4. ASSUME NEW r \in Requests, Exchange(r) \/ Rotated(r) PROVE Families!TFNext
  BY <1>4, ExchangeStarts, RotatedReplaces DEF Families!TFNext
<1>5. CASE UsersStep /\ UNCHANGED grantVars
  BY <1>5, UserChangeEnds DEF Families!TFNext
<1> QED
  BY <1>1, <1>2, <1>3, <1>4, <1>5, StepKinds

\* The authorization server implements TokenFamilies: an approval becomes
\* tokens once, one of them works at a time, for whom it was approved, while he
\* may use MCP, and never again once he was changed.
THEOREM ServerKeepsFamilies == GrantsSpec => KeepsFamilies
<1>1. FamiliesInv /\ [GrantsNext]_<<userVars, grantVars>> => FamiliesInv' /\ Families!TFNext
  BY StepGrants, StepBacked, StepCarried, StepFamilies DEF FamiliesInv
<1> QED
  BY <1>1, InitFamilies, PTL DEF GrantsSpec, KeepsFamilies, Families!TFSpec

\* As it is for sessions: a token that works is that of somebody who may use
\* MCP as of now, however long ago he was asked.
THEOREM TokensAlwaysEntitled == GrantsSpec => [](\A t \in Tokens : Works(t) => MayUseMCP(tokens[t].user))
<1>1. FamiliesInv /\ [GrantsNext]_<<userVars, grantVars>> => FamiliesInv'
  BY StepGrants, StepBacked, StepCarried DEF FamiliesInv
<1>2. FamiliesInv => \A t \in Tokens : Works(t) => MayUseMCP(tokens[t].user)
  BY DEF FamiliesInv, GrantsAreBacked, Backed, Works
<1> QED
  BY <1>1, <1>2, InitFamilies, PTL DEF GrantsSpec

-----------------------------------------------------------------------------
(* SigningIn: cookies that work are current                                *)

\* The list x was let in under holds, and whoever saves another one now will
\* sign him out.
UnderTheList(x) ==
  /\ allowed # "" => x.allowed = allowed \/ misread
  /\ \A r \in Requests : saving[r].at # "none" => ~Spares(saving[r], x.user)

\* A row that was read for a cookie: it shows the user as he is, or he is not
\* found, or its stamp will never be the user's again.
Current(x) ==
  /\ x \in SessionRows
  /\ x.stamp # NoStamp =>
       /\ x.stamp <= stamp[x.user]
       /\ Found(x.user) /\ x.stamp = stamp[x.user] =>
            /\ x.role = role[x.user] /\ x.status = status[x.user]
            /\ role[x.user] = Visitor /\ ~x.overtaken => UnderTheList(x)

\* In a browser, or on its way there.
RowsAreCurrent ==
  /\ \A b \in Browsers : cookie[b] # NoCookie => Current(cookie[b])
  /\ \A r \in Requests : entry[r].at = "found" => Current(entry[r].row)
  /\ \A r \in Requests : flow[r].at = "welcome" => Current(flow[r].row)

RecipientsAreKnown ==
  /\ \A m \in Mails : mails[m].state \in {"active", "verified"} => mails[m].to \in People
  /\ \A r \in Requests : entry[r].at # "idle" => entry[r].to \in People
  /\ \A r \in Requests : entry[r].at \in {"read", "proven", "found"} => entry[r].mail \in Mails
  /\ \A r \in Requests : flow[r].at \in {"authorized", "handed", "profile", "checking", "welcome"} => flow[r].who \in People
  /\ \A r \in Requests : flow[r].at \in {"profile", "checking", "welcome"} => flow[r].in \in Browsers

\* The requests that may still compare a code with that of m.
Guessing(m) == {r \in Requests : entry[r].at = "read" /\ entry[r].mail = m}

GuessesAreCounted ==
  /\ \A m \in Mails : guesses[m] <= mails[m].tries /\ (mails[m].state = "none" => guesses[m] = 0)
  /\ \A r \in Requests : entry[r].at = "read" => mails[entry[r].mail].state # "none"
  /\ \A m \in Mails : guesses[m] + Cardinality(Guessing(m)) < MaxTries + Cardinality(Requests)

SigningTypes == UsersTypeOK /\ SignInTypeOK /\ ProviderTypeOK

SigningInv == SigningTypes /\ RecipientsAreKnown /\ RowsAreCurrent /\ GuessesAreCounted

-----------------------------------------------------------------------------
LEMMA StampsAreNumbers ==
  /\ \A x : Current(x) => x.user \in People /\ x.stamp \in Nat
  /\ UsersTypeOK => \A p \in People : stamp[p] \in Nat /\ stamp[p] # NoStamp
<1>1. \A n \in 0..NoStamp : n \in Nat
  BY UsersAssumption DEF NoStamp
<1>2. \A n \in 0..MaxStamp : n \in Nat /\ n # NoStamp
  BY UsersAssumption DEF NoStamp
<1> QED
  BY <1>1, <1>2 DEF Current, SessionRows, UsersTypeOK

\* The row of p, which tells whether somebody who saves a list spares him.
LEMMA RowFields ==
  ASSUME NEW p \in People
  PROVE  \E over \in BOOLEAN :
           /\ ~over => \A r \in Requests : saving[r].at # "none" => ~Spares(saving[r], p)
           /\ RowOf(p) = RowUnder(p, allowed, over)
<1>1. SparedByOne(p) \in BOOLEAN /\ (~SparedByOne(p) => \A r \in Requests : saving[r].at # "none" => ~Spares(saving[r], p))
  BY DEF SparedByOne
<1>2. RowOf(p) = RowUnder(p, allowed, SparedByOne(p))
  BY Zenon DEF RowOf
<1> QED
  BY <1>1, <1>2, Zenon

\* A row that is read is current.
LEMMA RowIsCurrent ==
  ASSUME UsersTypeOK, allowed \in RoleLists, NEW p \in People, Found(p),
         NEW list \in RoleLists, NEW over \in BOOLEAN,
         ~over => list = allowed /\ \A r \in Requests : saving[r].at # "none" => ~Spares(saving[r], p),
         NEW x, x = RowUnder(p, list, over)
  PROVE  Current(x)
<1> USE DEF RowUnder
<1>1. stamp[p] \in Nat /\ stamp[p] \in 0..NoStamp
  BY UsersAssumption DEF UsersTypeOK, NoStamp
<1>2. x \in SessionRows
  BY <1>1 DEF UsersTypeOK, SessionRows, Found
<1>3. ~x.overtaken => UnderTheList(x)
  BY DEF UnderTheList
<1> QED
  BY <1>1, <1>2, <1>3 DEF Current

\* A user who is changed gets a new stamp, or is not found any more.
LEMMA StampKeeps ==
  ASSUME UsersTypeOK, UNCHANGED listVars, NEW p \in People, NewStamp(p),
         \A q \in People \ {p} : role'[q] = role[q] /\ status'[q] = status[q],
         NEW x, Current(x)
  PROVE  Current(x)'
<1>1. x.user \in People /\ x.stamp \in Nat
  BY StampsAreNumbers
<1>2. stamp'[p] = stamp[p] + 1 /\ \A q \in People \ {p} : stamp'[q] = stamp[q]
  BY DEF UsersTypeOK, NewStamp
<1>3. \A q \in People : stamp[q] \in Nat
  BY StampsAreNumbers
<1>4. CASE x.user = p
  <2>1. x.stamp # NoStamp => x.stamp <= stamp[x.user]
    BY DEF Current
  <2>2. x.stamp # NoStamp => x.stamp <= stamp'[x.user] /\ x.stamp # stamp'[x.user]
    BY <1>1, <1>2, <1>3, <1>4, <2>1
  <2> QED
    BY <2>2 DEF Current
<1>5. CASE x.user # p
  BY <1>1, <1>2, <1>5 DEF Current, Found, UnderTheList, listVars
<1> QED
  BY <1>4, <1>5

LEMMA UsersStepKeeps ==
  ASSUME UsersTypeOK, UsersStep, UNCHANGED listVars, NEW x, Current(x)
  PROVE  Current(x)'
<1>p. Followed \subseteq People
  BY UsersAssumption
<1>1. ASSUME NEW p \in Followed, NEW admin, BlockUser(admin, p) \/ UnblockUser(admin, p) PROVE Current(x)'
  BY <1>p, <1>1, StampKeeps DEF BlockUser, UnblockUser, UsersTypeOK
<1>2. ASSUME NEW p \in Followed, NEW admin, NEW r \in Visitor..Administrator, ChangeUserRole(admin, p, r) PROVE Current(x)'
  BY <1>p, <1>2, StampKeeps DEF ChangeUserRole, UsersTypeOK
<1>3. ASSUME NEW p \in Followed, DeleteCurrentUser(p) PROVE Current(x)'
  <2>1. status'[p] = "deleted" /\ stamp' = stamp
        /\ \A q \in People \ {p} : role'[q] = role[q] /\ status'[q] = status[q]
    BY <1>p, <1>3 DEF DeleteCurrentUser, UsersTypeOK
  <2>2. x.user \in People /\ (UnderTheList(x) => UnderTheList(x)')
    BY DEF Current, SessionRows, UnderTheList, listVars
  <2> QED
    BY <2>1, <2>2 DEF Current, Found
<1> QED
  BY <1>1, <1>2, <1>3 DEF UsersStep

\* A list that is saved is no row's business before the commit.
LEMMA SavingKeeps ==
  ASSUME UsersTypeOK, saving \in [Requests -> Savings], NEW r \in Requests,
         (\E admin, list : ReadRoles(r, admin, list)) \/ WriteRoles(r) \/ SavingFails(r),
         NEW x, Current(x)
  PROVE  Current(x)'
<1>1. UNCHANGED <<allowed, misread, userVars>> /\ x.user \in People
  BY StampsAreNumbers DEF ReadRoles, WriteRoles, SavingFails
<1>2. \A q \in Requests \ {r} : saving'[q] = saving[q]
  BY DEF ReadRoles, WriteRoles, SavingFails
<1>3. ASSUME role[x.user] = Visitor, Found(x.user),
             saving[r].at # "none" => ~Spares(saving[r], x.user), saving'[r].at # "none"
      PROVE  ~Spares(saving'[r], x.user)
  <2>1. ASSUME NEW admin, NEW list, ReadRoles(r, admin, list) PROVE ~Spares(saving'[r], x.user)
    <3>1. role[admin] = Administrator /\ saving'[r].by = admin /\ saving'[r].at = "read"
      BY <2>1 DEF ReadRoles, AdminActs
    <3>2. admin # x.user
      BY <1>3, <3>1 DEF Visitor, Administrator
    <3> QED
      BY <3>1, <3>2 DEF Spares
  <2>2. CASE WriteRoles(r)
    <3>1. /\ saving[r].at = "read" /\ saving'[r].by = saving[r].by
          /\ saving'[r].out = IF SignsOut(saving[r]) THEN {p \in People \ {saving[r].by} : Found(p)} ELSE {}
          /\ saving'[r].list = saving[r].list /\ saving'[r].found = saving[r].found
      BY <2>2 DEF WriteRoles, Savings
    <3>2. x.user # saving[r].by
      BY <1>3, <3>1 DEF Spares
    <3>3. SignsOut(saving'[r]) => x.user \in saving'[r].out
      BY <1>1, <1>3, <3>1, <3>2 DEF SignsOut
    <3> QED
      BY <3>1, <3>2, <3>3 DEF Spares
  <2>3. CASE SavingFails(r)
    BY <1>3, <2>3 DEF SavingFails, NoSaving
  <2> QED
    BY <2>1, <2>2, <2>3
<1>4. ASSUME role[x.user] = Visitor, Found(x.user), UnderTheList(x) PROVE UnderTheList(x)'
  BY <1>1, <1>2, <1>3, <1>4 DEF UnderTheList
<1> QED
  BY <1>1, <1>4 DEF Current, userVars, Found

\* A new list of roles is a new stamp for all but those who are spared.
LEMMA RolesKeep ==
  ASSUME UsersTypeOK, saving \in [Requests -> Savings], NEW r \in Requests, CommitRoles(r),
         NEW x, Current(x)
  PROVE  Current(x)'
<1>1. x.user \in People /\ x.stamp \in Nat /\ \A q \in People : stamp[q] \in Nat
  BY StampsAreNumbers
<1>2. UNCHANGED <<role, status>> /\ allowed' = saving[r].list /\ saving'[r].at = "none"
      /\ \A q \in Requests \ {r} : saving'[q] = saving[q]
  BY DEF CommitRoles, NoSaving
<1>3. CASE x.user \in saving[r].out
  <2>1. stamp'[x.user] = stamp[x.user] + 1 /\ (x.stamp # NoStamp => x.stamp <= stamp[x.user])
    BY <1>1, <1>3 DEF CommitRoles, Current
  <2>2. x.stamp # NoStamp => x.stamp <= stamp'[x.user] /\ x.stamp # stamp'[x.user]
    BY <1>1, <2>1
  <2> QED
    BY <2>2 DEF Current
<1>4. CASE x.user \notin saving[r].out
  <2>1. stamp'[x.user] = stamp[x.user]
    BY <1>1, <1>4 DEF CommitRoles
  <2>2. ASSUME UnderTheList(x) PROVE UnderTheList(x)'
    <3>1. saving[r].at = "written" /\ ~Spares(saving[r], x.user)
      BY <2>2 DEF CommitRoles, UnderTheList
    <3>2. ~SignsOut(saving[r])
      BY <1>4, <3>1 DEF Spares
    <3>3. saving[r].list # "" => misread' \/ (~misread /\ saving[r].list = allowed)
      BY <3>2 DEF CommitRoles
    <3> QED
      BY <1>2, <2>2, <3>3 DEF UnderTheList
  <2> QED
    BY <1>2, <2>1, <2>2 DEF Current, Found
<1> QED
  BY <1>3, <1>4

\* The row of somebody who registers is his row.
LEMMA RegisteredIsCurrent ==
  ASSUME UsersTypeOK, UsersTypeOK', UNCHANGED listVars, NEW p \in People, NewStamp(p),
         role' = [role EXCEPT ![p] = Visitor], status' = [status EXCEPT ![p] = "active"],
         NEW list \in RoleLists, NEW over \in BOOLEAN,
         ~over => list = allowed /\ \A r \in Requests : saving[r].at # "none" => ~Spares(saving[r], p),
         NEW x, x = [user |-> p, stamp |-> stamp[p] + 1, role |-> Visitor, status |-> "active",
                     allowed |-> list, overtaken |-> over]
  PROVE  Current(x)'
<1>1. stamp'[p] = stamp[p] + 1 /\ role'[p] = Visitor /\ status'[p] = "active" /\ stamp'[p] \in 0..MaxStamp
  BY DEF UsersTypeOK, NewStamp
<1>2. stamp[p] + 1 \in 0..NoStamp /\ stamp[p] + 1 \in Nat /\ Visitor \in Visitor..Administrator
  BY <1>1, UsersAssumption DEF NoStamp, Visitor, Administrator
<1>3. x \in SessionRows
  BY <1>2 DEF SessionRows
<1>4. x.stamp <= stamp'[x.user]
  BY <1>1, <1>2
<1>5. ~over => UnderTheList(x)
  BY DEF UnderTheList
<1>6. ~over => UnderTheList(x)'
  BY <1>5 DEF UnderTheList, listVars
<1> QED
  BY <1>1, <1>3, <1>4, <1>6 DEF Current

-----------------------------------------------------------------------------
(* What steps may do to each of the conjuncts                              *)

LEMMA UsersStay ==
  ASSUME UNCHANGED <<userVars, listVars>>
  PROVE  \A x : Current(x) => Current(x)'
BY DEF userVars, listVars, Current, UnderTheList, Found

LEMMA RowsKeep ==
  ASSUME RowsAreCurrent, \A x : Current(x) => Current(x)',
         \A b \in Browsers : cookie'[b] \in {cookie[b], NoCookie} \/ Current(cookie[b])',
         \A r \in Requests : entry'[r].at = "found" => entry'[r] = entry[r] \/ Current(entry[r].row)',
         \A r \in Requests : flow'[r].at = "welcome" => flow'[r] = flow[r] \/ Current(flow[r].row)'
  PROVE  RowsAreCurrent'
<1>1. ASSUME NEW b \in Browsers, cookie'[b] # NoCookie PROVE Current(cookie[b])'
  <2>1. CASE cookie'[b] = cookie[b]
    <3>1. PICK x : x = cookie[b]
      OBVIOUS
    <3>2. Current(x)'
      BY <1>1, <2>1, <3>1 DEF RowsAreCurrent
    <3> QED
      BY <2>1, <3>1, <3>2
  <2> QED
    BY <1>1, <2>1
<1>2. ASSUME NEW r \in Requests, entry'[r].at = "found" PROVE Current(entry[r].row)'
  <2>1. CASE entry'[r] = entry[r]
    <3>1. PICK x : x = entry[r].row
      OBVIOUS
    <3>2. Current(x)'
      BY <1>2, <2>1, <3>1 DEF RowsAreCurrent
    <3> QED
      BY <2>1, <3>1, <3>2
  <2> QED
    BY <1>2, <2>1
<1>3. ASSUME NEW r \in Requests, flow'[r].at = "welcome" PROVE Current(flow[r].row)'
  <2>1. CASE flow'[r] = flow[r]
    <3>1. PICK x : x = flow[r].row
      OBVIOUS
    <3>2. Current(x)'
      BY <1>3, <2>1, <3>1 DEF RowsAreCurrent
    <3> QED
      BY <2>1, <3>1, <3>2
  <2> QED
    BY <1>3, <2>1
<1> QED
  BY <1>1, <1>2, <1>3 DEF RowsAreCurrent

LEMMA GuessingIsFinite ==
  \A m : /\ IsFiniteSet(Guessing(m)) /\ Cardinality(Guessing(m)) \in Nat
         /\ Cardinality(Guessing(m)) <= Cardinality(Requests) /\ Cardinality(Requests) \in Nat
<1> SUFFICES ASSUME NEW m
             PROVE  /\ IsFiniteSet(Guessing(m)) /\ Cardinality(Guessing(m)) \in Nat
                    /\ Cardinality(Guessing(m)) <= Cardinality(Requests) /\ Cardinality(Requests) \in Nat
  OBVIOUS
<1>1. IsFiniteSet(Requests) /\ Guessing(m) \in SUBSET Requests
  BY SignInAssumption DEF Guessing
<1> QED
  BY <1>1, FS_Subset, FS_CardinalityType

\* Of any set of requests that may still guess.
LEMMA FewerGuess ==
  ASSUME NEW m, NEW S \in SUBSET Guessing(m)
  PROVE  IsFiniteSet(S) /\ Cardinality(S) \in Nat /\ Cardinality(S) <= Cardinality(Guessing(m))
BY GuessingIsFinite, FS_Subset, FS_CardinalityType

LEMMA CountsAreNumbers ==
  ASSUME SignInTypeOK
  PROVE  \A m \in Mails : guesses[m] \in Nat /\ mails[m].tries \in Nat /\ MaxTries \in Nat
BY SignInAssumption DEF SignInTypeOK, MailRows

\* Nobody guesses, and nobody starts to.
LEMMA CountsKeep ==
  ASSUME SignInTypeOK, GuessesAreCounted, guesses' = guesses,
         \A m \in Mails : /\ mails'[m].state = "none" => mails[m].state = "none"
                          /\ guesses[m] <= mails'[m].tries,
         \A r \in Requests : entry'[r].at = "read" => entry'[r] = entry[r] /\ entry[r].mail \in Mails
  PROVE  GuessesAreCounted'
<1>1. ASSUME NEW m \in Mails PROVE guesses'[m] + Cardinality(Guessing(m))' < MaxTries + Cardinality(Requests)
  <2>1. Guessing(m)' \in SUBSET Guessing(m)
    BY DEF Guessing
  <2>2. PICK S \in SUBSET Guessing(m) : S = Guessing(m)'
    BY <2>1
  <2> QED
    BY <1>1, <2>2, FewerGuess, GuessingIsFinite, CountsAreNumbers DEF GuessesAreCounted
<1> QED
  BY <1>1 DEF GuessesAreCounted

\* One more reads the code of m, which is not used up.
LEMMA ReadingCounts ==
  ASSUME SignInTypeOK, GuessesAreCounted, UNCHANGED <<mails, guesses>>,
         NEW m \in Mails, mails[m].state = "active", mails[m].tries < MaxTries,
         \A r \in Requests : entry'[r].at = "read" =>
           \/ entry'[r] = entry[r] /\ entry[r].mail \in Mails
           \/ entry'[r].mail = m
  PROVE  GuessesAreCounted'
<1>1. ASSUME NEW k \in Mails, k # m PROVE guesses'[k] + Cardinality(Guessing(k))' < MaxTries + Cardinality(Requests)
  <2>1. Guessing(k)' \in SUBSET Guessing(k)
    BY <1>1 DEF Guessing
  <2>2. PICK S \in SUBSET Guessing(k) : S = Guessing(k)'
    BY <2>1
  <2> QED
    BY <1>1, <2>2, FewerGuess, GuessingIsFinite, CountsAreNumbers DEF GuessesAreCounted
<1>2. guesses'[m] + Cardinality(Guessing(m))' < MaxTries + Cardinality(Requests)
  <2>1. guesses[m] < MaxTries
    BY CountsAreNumbers DEF GuessesAreCounted
  <2>2. IsFiniteSet(Requests) /\ Guessing(m)' \in SUBSET Requests
    BY SignInAssumption DEF Guessing
  <2>3. PICK S \in SUBSET Requests : S = Guessing(m)'
    BY <2>2
  <2>4. Cardinality(S) <= Cardinality(Requests) /\ Cardinality(S) \in Nat /\ Cardinality(Requests) \in Nat
    BY <2>2, FS_Subset, FS_CardinalityType
  <2> QED
    BY <2>1, <2>3, <2>4, CountsAreNumbers
<1>3. \A r \in Requests : entry'[r].at = "read" => mails'[entry'[r].mail].state # "none"
  BY DEF GuessesAreCounted
<1>4. \A k \in Mails : guesses'[k] + Cardinality(Guessing(k))' < MaxTries + Cardinality(Requests)
  BY <1>1, <1>2
<1> QED
  BY <1>3, <1>4 DEF GuessesAreCounted

\* A wrong code: one more guess, one request less that may.
LEMMA WrongCounts ==
  ASSUME SignInTypeOK, GuessesAreCounted, NEW r \in Requests, WrongCode(r), entry[r].mail \in Mails,
         \A q \in Requests : entry[q].at = "read" => entry[q].mail \in Mails
  PROVE  GuessesAreCounted'
<1> DEFINE m == entry[r].mail
<1>1. PICK k \in Mails : k = m
  OBVIOUS
<1>t. mails \in [Mails -> MailRows] /\ guesses \in [Mails -> Nat]
  BY DEF SignInTypeOK
<1>2. mails'[k].tries = mails[k].tries + 1 /\ guesses'[k] = guesses[k] + 1
      /\ \A n \in Mails \ {k} : mails'[n] = mails[n] /\ guesses'[n] = guesses[n]
  BY <1>1, <1>t DEF WrongCode, MailRows
<1>3. mails[k].state # "none" /\ entry[r].at = "read"
  BY <1>1 DEF WrongCode, GuessesAreCounted
<1>4. mails'[k].state # "none"
  BY <1>1, <1>t, <1>3 DEF WrongCode, MailRows, UsedUp
<1>5. entry'[r].at = "idle" /\ \A q \in Requests \ {r} : entry'[q] = entry[q]
  BY DEF WrongCode, Leave, Enter, NoEntry, SignInTypeOK
<1>6. \A n : Guessing(n)' = Guessing(n) \ {r}
  BY <1>5 DEF Guessing
<1>7. r \in Guessing(k)
  BY <1>1, <1>3 DEF Guessing
<1>8. Cardinality(Guessing(k)') = Cardinality(Guessing(k)) - 1
  BY <1>6, <1>7, GuessingIsFinite, FS_RemoveElement
<1>9. \A n \in Mails \ {k} : Guessing(n)' = Guessing(n)
  BY <1>1, <1>6 DEF Guessing
<1>10. \A n \in Mails : guesses'[n] + Cardinality(Guessing(n)') < MaxTries + Cardinality(Requests)
  <2>1. guesses'[k] + Cardinality(Guessing(k)') < MaxTries + Cardinality(Requests)
    BY <1>2, <1>8, GuessingIsFinite, CountsAreNumbers DEF GuessesAreCounted
  <2>2. \A n \in Mails \ {k} : guesses'[n] + Cardinality(Guessing(n)') < MaxTries + Cardinality(Requests)
    BY <1>2, <1>9 DEF GuessesAreCounted
  <2> QED
    BY <2>1, <2>2
<1>11. \A n \in Mails : guesses'[n] <= mails'[n].tries /\ (mails'[n].state = "none" => guesses'[n] = 0)
  BY <1>2, <1>4, CountsAreNumbers DEF GuessesAreCounted
<1>12. \A q \in Requests : entry'[q].at = "read" => mails'[entry'[q].mail].state # "none"
  BY <1>2, <1>4, <1>5 DEF GuessesAreCounted
<1> QED
  BY <1>10, <1>11, <1>12 DEF GuessesAreCounted

-----------------------------------------------------------------------------
LEMMA LeastElement ==
  ASSUME NEW S, S \subseteq Nat, S # {}
  PROVE  \E m \in S : \A n \in S : m <= n
<1>1. PICK x \in S : \A y \in S : <<y, x>> \notin OpToRel(<, Nat)
  BY NatLessThanWellFounded, WFMin
<1>2. \A y \in S : ~(y < x)
  BY <1>1 DEF OpToRel
<1> QED
  BY <1>2

LEMMA NextIsUnsent ==
  ASSUME Unsent # {}
  PROVE  NextMail \in Mails /\ mails[NextMail].state = "none"
<1>1. Unsent \subseteq Nat /\ Mails \subseteq Nat
  BY DEF Unsent, Mails
<1>2. PICK m \in Unsent : \A n \in Unsent : m <= n
  BY <1>1, LeastElement
<1>3. m \in Mails /\ mails[m].state = "none" /\ \A n \in 1..(m - 1) : mails[n].state # "none"
  <2>1. ASSUME NEW n \in 1..(m - 1), mails[n].state = "none" PROVE FALSE
    <3>1. n \in Unsent /\ n < m
      BY <1>1, <1>2, <2>1, SignInAssumption DEF Unsent, Mails
    <3> QED
      BY <1>1, <1>2, <3>1
  <2> QED
    BY <1>2, <2>1 DEF Unsent
<1> QED
  BY <1>3 DEF NextMail

LEMMA EmptyEntries == NoEntry \in Entries /\ NoEntry.at = "idle" /\ NoFlow \in Flows /\ NoFlow.at = "none"
<1>1. 0 \in 0..MaxMails /\ {} \in SUBSET Mails
  BY SignInAssumption
<1>2. NoEntry \in Entries /\ NoEntry.at = "idle"
  BY <1>1 DEF NoEntry, Entries
<1>3. NoFlow \in Flows /\ NoFlow.at = "none"
  BY SessionsAssumption DEF NoFlow, Flows
<1> QED
  BY <1>2, <1>3

\* Nothing happens to users, roles and cookies.
SessionsStay == UNCHANGED <<userVars, sessionVars>>

LEMMA TypesStay ==
  ASSUME SigningTypes, SessionsStay
  PROVE  UsersTypeOK' /\ SessionsTypeOK'
BY DEF SigningTypes, SignInTypeOK, SessionsStay, UsersTypeOK, SessionsTypeOK, userVars, sessionVars, listVars

\* A request by mail goes on, or ends, and writes nothing.
LEMMA EntryGoesOn ==
  ASSUME SigningInv, SessionsStay, UNCHANGED <<policy, mails, guesses, providerVars>>,
         NEW r \in Requests, NEW new \in Entries, Enter(r, new),
         new.at # "idle" => new.to \in People,
         new.at \in {"read", "proven", "found"} => new.mail \in Mails,
         new.at = "found" => Current(new.row),
         new.at = "read" => mails[new.mail].state = "active" /\ mails[new.mail].tries < MaxTries
  PROVE  SigningInv'
<1>t. SigningTypes /\ SignInTypeOK /\ ProviderTypeOK
  BY DEF SigningInv, SigningTypes
<1>1. entry'[r] = new /\ \A q \in Requests \ {r} : entry'[q] = entry[q]
  BY <1>t DEF Enter, SignInTypeOK
<1>2. SigningTypes'
  BY <1>t, TypesStay DEF SigningTypes, SignInTypeOK, ProviderTypeOK, Enter, providerVars
<1>3. RecipientsAreKnown'
  BY <1>1 DEF SigningInv, RecipientsAreKnown, providerVars
<1>4. RowsAreCurrent'
  <2>1. \A x : Current(x) => Current(x)'
    BY UsersStay DEF SessionsStay, sessionVars
  <2>2. ASSUME NEW q \in Requests, entry'[q].at = "found" PROVE entry'[q] = entry[q] \/ Current(entry[q].row)'
    <3>1. CASE q = r
      <4>1. new.at = "found" /\ entry'[q].row = new.row
        BY <1>1, <2>2, <3>1
      <4>2. Current(new.row)'
        BY <2>1, <4>1
      <4> QED
        BY <4>1, <4>2
    <3> QED
      BY <1>1, <3>1
  <2> QED
    BY <2>1, <2>2, RowsKeep DEF SigningInv, SessionsStay, sessionVars, providerVars
<1>5. GuessesAreCounted'
  <2>1. \A q \in Requests : entry[q].at = "read" => entry[q].mail \in Mails
    BY DEF SigningInv, RecipientsAreKnown
  <2>2. CASE new.at = "read"
    BY <1>t, <1>1, <2>1, <2>2, ReadingCounts DEF SigningInv
  <2>3. CASE new.at # "read"
    BY <1>t, <1>1, <2>1, <2>3, CountsKeep DEF SigningInv, GuessesAreCounted
  <2> QED
    BY <2>2, <2>3
<1> QED
  BY <1>2, <1>3, <1>4, <1>5 DEF SigningInv

\* A request through a provider goes on, or ends, and writes nothing.
LEMMA FlowGoesOn ==
  ASSUME SigningInv, SessionsStay, UNCHANGED signInVars, enabled' \in BOOLEAN, signUp' \in BOOLEAN,
         NEW r \in Requests, NEW new \in Flows, Continue(r, new),
         new.at \in {"authorized", "handed", "profile", "checking", "welcome"} => new.who \in People,
         new.at \in {"profile", "checking", "welcome"} => new.in \in Browsers,
         new.at = "welcome" => Current(new.row)
  PROVE  SigningInv'
<1>t. SigningTypes /\ SignInTypeOK /\ ProviderTypeOK
  BY DEF SigningInv, SigningTypes
<1>1. flow'[r] = new /\ \A q \in Requests \ {r} : flow'[q] = flow[q]
  BY <1>t DEF Continue, ProviderTypeOK
<1>2. SigningTypes'
  BY <1>t, TypesStay DEF SigningTypes, SignInTypeOK, ProviderTypeOK, Continue, signInVars
<1>3. RecipientsAreKnown'
  BY <1>1 DEF SigningInv, RecipientsAreKnown, signInVars
<1>4. RowsAreCurrent'
  <2>1. \A x : Current(x) => Current(x)'
    BY UsersStay DEF SessionsStay, sessionVars
  <2>2. ASSUME NEW q \in Requests, flow'[q].at = "welcome" PROVE flow'[q] = flow[q] \/ Current(flow[q].row)'
    <3>1. CASE q = r
      <4>1. new.at = "welcome" /\ flow'[q].row = new.row
        BY <1>1, <2>2, <3>1
      <4>2. Current(new.row)'
        BY <2>1, <4>1
      <4> QED
        BY <4>1, <4>2
    <3> QED
      BY <1>1, <3>1
  <2> QED
    BY <2>1, <2>2, RowsKeep DEF SigningInv, SessionsStay, sessionVars, signInVars
<1>5. GuessesAreCounted'
  <2>1. \A q \in Requests : entry[q].at = "read" => entry[q].mail \in Mails
    BY DEF SigningInv, RecipientsAreKnown
  <2> QED
    BY <1>t, <2>1, CountsKeep DEF SigningInv, GuessesAreCounted, signInVars
<1> QED
  BY <1>2, <1>3, <1>4, <1>5 DEF SigningInv

\* Mails are sent, used and expire; at most one request, which ends, has to
\* do with it.
LEMMA MailsGoOn ==
  ASSUME SigningInv, UNCHANGED <<policy, guesses>>,
         mails' \in [Mails -> MailRows],
         \A m \in Mails : /\ mails'[m].state = "none" => mails[m].state = "none"
                          /\ guesses[m] <= mails'[m].tries
                          /\ mails'[m].state \in {"active", "verified"} => mails'[m].to \in People,
         entry' = entry \/ \E r \in Requests : Leave(r)
  PROVE  /\ policy' \in Policies /\ mails' \in [Mails -> MailRows] /\ guesses' \in [Mails -> Nat]
         /\ entry' \in [Requests -> Entries]
         /\ \A r \in Requests : entry'[r] = entry[r] \/ entry'[r].at = "idle"
         /\ flow' = flow => RecipientsAreKnown'
         /\ GuessesAreCounted'
<1>t. SignInTypeOK
  BY DEF SigningInv, SigningTypes
<1>1. entry' \in [Requests -> Entries] /\ \A r \in Requests : entry'[r] = entry[r] \/ entry'[r].at = "idle"
  BY <1>t, EmptyEntries DEF Leave, Enter, SignInTypeOK
<1>2. flow' = flow => RecipientsAreKnown'
  BY <1>1 DEF SigningInv, RecipientsAreKnown
<1>3. GuessesAreCounted'
  <2>1. \A q \in Requests : entry'[q].at = "read" => entry'[q] = entry[q] /\ entry[q].mail \in Mails
    BY <1>1 DEF SigningInv, RecipientsAreKnown
  <2> QED
    BY <1>t, <2>1, CountsKeep DEF SigningInv
<1> QED
  BY <1>t, <1>1, <1>2, <1>3 DEF SignInTypeOK

\* ... and nothing else happens.
LEMMA OnlyMails ==
  ASSUME SigningInv, SessionsStay, UNCHANGED <<policy, guesses, providerVars>>,
         mails' \in [Mails -> MailRows],
         \A m \in Mails : /\ mails'[m].state = "none" => mails[m].state = "none"
                          /\ guesses[m] <= mails'[m].tries
                          /\ mails'[m].state \in {"active", "verified"} => mails'[m].to \in People,
         entry' = entry \/ \E r \in Requests : Leave(r)
  PROVE  SigningInv'
<1>t. SigningTypes /\ ProviderTypeOK
  BY DEF SigningInv, SigningTypes
<1>1. /\ policy' \in Policies /\ mails' \in [Mails -> MailRows] /\ guesses' \in [Mails -> Nat]
      /\ entry' \in [Requests -> Entries]
      /\ \A r \in Requests : entry'[r] = entry[r] \/ entry'[r].at = "idle"
      /\ RecipientsAreKnown' /\ GuessesAreCounted'
  BY MailsGoOn DEF providerVars
<1>2. SigningTypes'
  BY <1>t, <1>1, TypesStay DEF SigningTypes, SignInTypeOK, ProviderTypeOK, providerVars
<1>3. RowsAreCurrent'
  <2>1. \A x : Current(x) => Current(x)'
    BY UsersStay DEF SessionsStay, sessionVars
  <2> QED
    BY <1>1, <2>1, RowsKeep DEF SigningInv, SessionsStay, sessionVars, providerVars
<1> QED
  BY <1>1, <1>2, <1>3 DEF SigningInv

\* A mail is used, and its request ends with a cookie.
LEMMA CookieGiven ==
  ASSUME SigningInv, UNCHANGED <<policy, guesses, listVars, providerVars>>,
         NEW r \in Requests, Verified(r), Leave(r), entry[r].at \in {"proven", "found"},
         NEW b \in Browsers, NEW x, cookie' = [cookie EXCEPT ![b] = x], Current(x)',
         UsersTypeOK', SessionsTypeOK', \A y : Current(y) => Current(y)'
  PROVE  SigningInv'
<1>t. SigningTypes /\ ProviderTypeOK /\ mails \in [Mails -> MailRows] /\ entry[r].mail \in Mails
      /\ cookie \in [Browsers -> SessionRows \cup {NoCookie}]
  BY DEF SigningInv, SigningTypes, SignInTypeOK, SessionsTypeOK, RecipientsAreKnown
<1>1. mails' \in [Mails -> MailRows]
  BY <1>t DEF Verified, MailRows, UsedUp
<1>2. \A m \in Mails : m # entry[r].mail => mails'[m] = mails[m]
  BY <1>t DEF Verified, MailRows
<1>3. LET m == entry[r].mail IN
      mails'[m].state = UsedUp(mails[m].state) /\ mails'[m].to = mails[m].to
        /\ mails'[m].tries \in {mails[m].tries, mails[m].tries + 1}
  BY <1>t DEF Verified, MailRows
<1>4. \A m \in Mails : /\ mails'[m].state = "none" => mails[m].state = "none"
                       /\ guesses[m] <= mails'[m].tries
                       /\ mails'[m].state \in {"active", "verified"} => mails'[m].to \in People
  <2>1. \A m \in Mails : guesses[m] \in Nat /\ mails[m].tries \in Nat
    BY CountsAreNumbers DEF SigningInv, SigningTypes
  <2> QED
    BY <1>2, <1>3, <2>1 DEF UsedUp, SigningInv, RecipientsAreKnown, GuessesAreCounted
<1>5. /\ policy' \in Policies /\ guesses' \in [Mails -> Nat] /\ entry' \in [Requests -> Entries]
      /\ \A q \in Requests : entry'[q] = entry[q] \/ entry'[q].at = "idle"
      /\ RecipientsAreKnown' /\ GuessesAreCounted'
  BY <1>1, <1>4, MailsGoOn DEF providerVars
<1>6. SigningTypes'
  BY <1>t, <1>1, <1>5 DEF SigningTypes, SignInTypeOK, ProviderTypeOK, providerVars
<1>7. RowsAreCurrent'
  <2>1. cookie'[b] = x /\ \A c \in Browsers : c # b => cookie'[c] = cookie[c]
    BY <1>t
  <2>2. \A c \in Browsers : cookie'[c] \in {cookie[c], NoCookie} \/ Current(cookie[c])'
    BY <2>1
  <2> QED
    BY <1>5, <2>2, RowsKeep DEF SigningInv, providerVars
<1> QED
  BY <1>5, <1>6, <1>7 DEF SigningInv

\* A sign-in through a provider ends with a cookie.
LEMMA FlowEnds ==
  ASSUME SigningInv, UNCHANGED <<signInVars, enabled, signUp, listVars>>,
         NEW r \in Requests, Continue(r, NoFlow),
         NEW b \in Browsers, NEW x, cookie' = [cookie EXCEPT ![b] = x], Current(x)',
         UsersTypeOK', \A y : Current(y) => Current(y)'
  PROVE  SigningInv'
<1>t. SigningTypes /\ SignInTypeOK /\ ProviderTypeOK /\ SessionsTypeOK /\ flow \in [Requests -> Flows]
      /\ cookie \in [Browsers -> SessionRows \cup {NoCookie}]
  BY DEF SigningInv, SigningTypes, SignInTypeOK, ProviderTypeOK, SessionsTypeOK
<1>1. flow' \in [Requests -> Flows] /\ \A q \in Requests : flow'[q] = flow[q] \/ flow'[q].at = "none"
  BY <1>t, EmptyEntries DEF Continue
<1>2. x \in SessionRows
  BY DEF Current
<1>3. SessionsTypeOK'
  BY <1>t, <1>2 DEF SessionsTypeOK, listVars
<1>4. SigningTypes'
  BY <1>t, <1>1, <1>3 DEF SigningTypes, SignInTypeOK, ProviderTypeOK, signInVars
<1>5. RecipientsAreKnown' /\ GuessesAreCounted'
  <2>1. RecipientsAreKnown'
    BY <1>1 DEF SigningInv, RecipientsAreKnown, signInVars
  <2>2. GuessesAreCounted'
    BY DEF SigningInv, GuessesAreCounted, Guessing, signInVars
  <2> QED
    BY <2>1, <2>2
<1>6. RowsAreCurrent'
  <2>1. \A c \in Browsers : cookie'[c] \in {cookie[c], NoCookie} \/ Current(cookie[c])'
    <3>1. cookie'[b] = x /\ \A c \in Browsers : c # b => cookie'[c] = cookie[c]
      BY <1>t
    <3> QED
      BY <3>1
  <2> QED
    BY <1>1, <2>1, RowsKeep DEF SigningInv, signInVars
<1> QED
  BY <1>4, <1>5, <1>6 DEF SigningInv

LEMMA RegisteredTypes ==
  ASSUME UsersTypeOK, NEW p \in People, NewStamp(p),
         role' = [role EXCEPT ![p] = Visitor], status' = [status EXCEPT ![p] = "active"]
  PROVE  UsersTypeOK'
BY UsersAssumption DEF UsersTypeOK, NewStamp, Visitor, Administrator

LEMMA GreatestMail ==
  ASSUME NEW S, S \subseteq Mails, S # {}
  PROVE  \E m \in S : \A n \in S : n <= m
<1> DEFINE T == {MaxMails - n : n \in S}
<1>1. T \subseteq Nat /\ T # {}
  <2>1. \A n \in 1..MaxMails : MaxMails - n \in Nat
    BY SignInAssumption
  <2>2. \A n \in S : MaxMails - n \in T
    OBVIOUS
  <2> QED
    BY <2>1, <2>2 DEF Mails
<1>2. PICK t \in T : \A u \in T : t <= u
  <2> HIDE DEF T
  <2> QED
    BY <1>1, LeastElement
<1>3. PICK m \in S : t = MaxMails - m
  BY <1>2
<1>4. \A n \in S : MaxMails - m <= MaxMails - n
  BY <1>2, <1>3
<1> QED
  BY <1>4, SignInAssumption DEF Mails

-----------------------------------------------------------------------------
LEMMA InitSigning == SigningInit => SigningInv
<1> SUFFICES ASSUME NEW admins \in SUBSET People, UsersInit(admins), SessionsInit,
                    NEW used \in SUBSET Mails, SignInInit(used), ProviderInit
             PROVE  SigningInv
  BY DEF SigningInit
<1>1. UsersTypeOK
  BY UsersAssumption DEF UsersInit, UsersTypeOK, Visitor, Administrator
<1>2. SessionsTypeOK /\ \A b \in Browsers : cookie[b] # NoCookie => Current(cookie[b])
  <2>1. 0 \in 0..NoStamp /\ NoStamp \in 0..NoStamp /\ Visitor \in Visitor..Administrator
    BY UsersAssumption DEF NoStamp, Visitor, Administrator
  <2>2. ASSUME NEW x \in OldCookies PROVE x \in SessionRows /\ x.stamp = NoStamp
    <3>1. PICK p \in People : x = [user |-> p, stamp |-> NoStamp, role |-> Visitor, status |-> "active",
                                  allowed |-> "", overtaken |-> FALSE]
      BY DEF OldCookies
    <3> QED
      BY <2>1, <3>1, SessionsAssumption DEF SessionRows
  <2>3. NoSaving \in Savings
    BY SessionsAssumption DEF NoSaving, Savings
  <2> QED
    BY <2>2, <2>3, SessionsAssumption DEF SessionsInit, SessionsTypeOK, Current
<1>3. mails \in [Mails -> MailRows] /\ \A m \in Mails : mails[m].state \in {"none", "over"} /\ mails[m].tries = 0
  BY DEF SignInInit, MailRows, NoMail
<1>4. SigningTypes
  BY <1>1, <1>2, <1>3, EmptyEntries, SignInAssumption
     DEF SigningTypes, SignInTypeOK, ProviderTypeOK, SignInInit, ProviderInit
<1>5. RecipientsAreKnown
  BY <1>3, EmptyEntries DEF RecipientsAreKnown, SignInInit, ProviderInit
<1>6. RowsAreCurrent
  BY <1>2, EmptyEntries DEF RowsAreCurrent, SignInInit, ProviderInit
<1>7. GuessesAreCounted
  <2>1. \A m : Guessing(m) = {}
    BY EmptyEntries DEF Guessing, SignInInit
  <2>2. Cardinality({}) = 0 /\ Cardinality(Requests) \in Nat
    BY FS_EmptySet, GuessingIsFinite
  <2>3. \A m \in Mails : guesses[m] = 0 /\ mails[m].tries = 0
    BY <1>3 DEF SignInInit
  <2>4. \A r \in Requests : entry[r].at # "read"
    BY EmptyEntries DEF SignInInit
  <2>5. \A m \in Mails : guesses[m] + Cardinality(Guessing(m)) < MaxTries + Cardinality(Requests)
    <3>1. 0 + 0 < MaxTries + Cardinality(Requests)
      BY <2>2, SignInAssumption
    <3> QED
      BY <2>1, <2>2, <2>3, <3>1
  <2> QED
    BY <2>3, <2>4, <2>5 DEF GuessesAreCounted
<1> QED
  BY <1>4, <1>5, <1>6, <1>7 DEF SigningInv

\* The steps of signing in by mail.
LEMMA MailStepKeeps ==
  ASSUME SigningInv, SignInStep, UNCHANGED providerVars
  PROVE  SigningInv'
<1>t. /\ SigningTypes /\ SignInTypeOK /\ ProviderTypeOK /\ SessionsTypeOK /\ UsersTypeOK
      /\ entry \in [Requests -> Entries] /\ mails \in [Mails -> MailRows] /\ Followed \subseteq People
  BY UsersAssumption DEF SigningInv, SigningTypes, SignInTypeOK
<1>r. /\ RecipientsAreKnown /\ \A r \in Requests : entry[r] \in Entries
      /\ \A m \in Mails : mails[m] \in MailRows
  BY <1>t DEF SigningInv
<1>n. NoEntry \in Entries
  BY EmptyEntries
<1> USE DEF SessionsStay
<1>1. ASSUME NEW r \in Requests, NEW p \in Followed, NEW named \in BOOLEAN, AskForCode(r, p, named) PROVE SigningInv'
  <2>1. PICK new : new = [NoEntry EXCEPT !.at = "sending", !.to = p, !.seen = CodesFor(p), !.may = named]
    OBVIOUS
  <2>2. CodesFor(p) \in SUBSET Mails
    BY DEF CodesFor
  <2>3. new \in Entries /\ new.at = "sending" /\ new.to = p
    BY <1>t, <1>n, <2>1, <2>2 DEF Entries
  <2> QED
    BY <1>t, <1>1, <2>1, <2>3, EntryGoesOn DEF AskForCode
<1>2. ASSUME NEW r \in Requests, NEW p \in Followed, ReadActiveVerification(r, p) PROVE SigningInv'
  <2> DEFINE m == CHOOSE m \in CodesFor(p) : \A n \in CodesFor(p) : n <= m
  <2>1. m \in CodesFor(p)
    <3>1. CodesFor(p) \subseteq Mails /\ CodesFor(p) # {}
      BY <1>2 DEF ReadActiveVerification, CodesFor
    <3> QED
      BY <3>1, GreatestMail
  <2>2. PICK k : k = m
    OBVIOUS
  <2>3. k \in Mails /\ mails[k].state = "active" /\ mails[k].tries < MaxTries /\ k \in 0..MaxMails /\ mails[k].tries \in Nat
    <3>1. k \in Mails /\ mails[k].state = "active"
      BY <2>1, <2>2 DEF CodesFor
    <3>2. mails[k].tries < MaxTries
      BY <1>2, <2>2 DEF ReadActiveVerification
    <3>3. k \in 0..MaxMails
      BY <3>1, SignInAssumption DEF Mails
    <3>4. mails[k].tries \in Nat
      BY <1>r, <3>1 DEF MailRows
    <3> QED
      BY <3>1, <3>2, <3>3, <3>4
  <2>4. PICK new : new = [NoEntry EXCEPT !.at = "read", !.mail = k, !.tries = mails[k].tries,
                                         !.may = MayCreateAccount("signin"), !.to = p]
    OBVIOUS
  <2>5. MayCreateAccount("signin") \in BOOLEAN
    BY DEF MayCreateAccount
  <2>6. new \in Entries /\ new.at = "read" /\ new.to = p /\ new.mail = k
    BY <1>t, <1>n, <2>3, <2>4, <2>5 DEF Entries
  <2>7. Enter(r, new) /\ SessionsStay /\ UNCHANGED <<policy, mails, guesses>>
    BY <1>2, <2>2, <2>4 DEF ReadActiveVerification
  <2> QED
    BY <1>t, <2>3, <2>6, <2>7, EntryGoesOn
<1>3. ASSUME NEW r \in Requests, RightCode(r) PROVE SigningInv'
  <2>1. PICK new : new = [entry[r] EXCEPT !.at = "proven"]
    OBVIOUS
  <2>2. new \in Entries /\ new.at = "proven" /\ new.to = entry[r].to /\ new.mail = entry[r].mail
    BY <1>r, <2>1 DEF Entries
  <2>3. entry[r].to \in People /\ entry[r].mail \in Mails
    BY <1>3, <1>r DEF RightCode, RecipientsAreKnown
  <2> QED
    BY <1>3, <2>1, <2>2, <2>3, EntryGoesOn DEF RightCode
<1>4. ASSUME NEW r \in Requests, NEW m \in Mails, NEW how \in {"link", "profile"}, FollowLink(r, m, how) PROVE SigningInv'
  <2>1. PICK new : new = [NoEntry EXCEPT !.at = "proven", !.mail = m, !.how = how,
                                         !.may = MayCreateAccount(mails[m].kind), !.to = mails[m].to]
    OBVIOUS
  <2>2. mails[m].to \in People /\ MayCreateAccount(mails[m].kind) \in BOOLEAN /\ m \in 0..MaxMails
    BY <1>4, <1>r, SignInAssumption DEF FollowLink, RecipientsAreKnown, MayCreateAccount, Mails
  <2>3. new \in Entries /\ new.at = "proven" /\ new.to = mails[m].to /\ new.mail = m
    BY <1>n, <2>1, <2>2 DEF Entries
  <2> QED
    BY <1>4, <2>1, <2>2, <2>3, EntryGoesOn DEF FollowLink
<1>5. ASSUME NEW r \in Requests, FindUser(r) PROVE SigningInv'
  <2>1. PICK x : x = RowOf(entry[r].to)
    OBVIOUS
  <2>2. PICK new : new = [entry[r] EXCEPT !.at = "found", !.row = x]
    OBVIOUS
  <2>3. entry[r].to \in People /\ entry[r].mail \in Mails
    BY <1>5, <1>r DEF FindUser, RecipientsAreKnown
  <2>4. Current(x)
    <3>1. PICK over \in BOOLEAN :
            /\ ~over => \A q \in Requests : saving[q].at # "none" => ~Spares(saving[q], entry[r].to)
            /\ RowOf(entry[r].to) = RowUnder(entry[r].to, allowed, over)
      BY <2>3, RowFields
    <3> QED
      BY <1>t, <1>5, <2>1, <2>3, <3>1, RowIsCurrent DEF FindUser, SessionsTypeOK
  <2>5. new \in Entries /\ new.at = "found" /\ new.to = entry[r].to /\ new.mail = entry[r].mail /\ new.row = x
    BY <1>r, <2>2, <2>4 DEF Entries, Current
  <2> QED
    BY <1>5, <2>1, <2>2, <2>3, <2>4, <2>5, EntryGoesOn DEF FindUser
<1>6. ASSUME NEW r \in Requests, GiveUp(r) PROVE SigningInv'
  BY <1>6, EmptyEntries, EntryGoesOn DEF GiveUp, Leave
<1>7. ASSUME NEW r \in Requests, SendCode(r) PROVE SigningInv'
  <2>1. entry[r].to \in People /\ entry[r].may \in BOOLEAN
    BY <1>7, <1>r DEF SendCode, RecipientsAreKnown, Entries
  <2>2. NextMail \in Mails /\ mails[NextMail].state = "none"
    BY <1>7, NextIsUnsent DEF SendCode
  <2>3. PICK sent : sent = [NoMail EXCEPT !.state = "active", !.to = entry[r].to, !.named = entry[r].may]
    OBVIOUS
  <2>4. sent \in MailRows /\ sent.to = entry[r].to /\ sent.state = "active" /\ sent.tries = 0
    BY <2>1, <2>3 DEF MailRows, NoMail
  <2>5. /\ mails' \in [Mails -> MailRows]
        /\ \A m \in Mails : \/ m = NextMail /\ mails'[m] = sent
                            \/ mails'[m] = mails[m]
                            \/ mails[m].state = "active" /\ mails'[m] = [mails[m] EXCEPT !.state = "verified"]
    <3>1. \A m \in Mails : mails'[m] = CASE m = NextMail -> sent
                                         [] m \in entry[r].seen /\ mails[m].state = "active" -> [mails[m] EXCEPT !.state = "verified"]
                                         [] OTHER -> mails[m]
      BY <1>7, <2>3 DEF SendCode
    <3>2. \A m \in Mails : [mails[m] EXCEPT !.state = "verified"] \in MailRows
      BY <1>r DEF MailRows
    <3>3. DOMAIN mails' = Mails /\ mails' = [m \in Mails |-> mails'[m]]
      BY <1>7 DEF SendCode
    <3>4. \A m \in Mails :  \/ m = NextMail /\ mails'[m] = sent
                            \/ mails'[m] = mails[m]
                            \/ mails[m].state = "active" /\ mails'[m] = [mails[m] EXCEPT !.state = "verified"]
      <4> SUFFICES ASSUME NEW m \in Mails
                   PROVE  \/ m = NextMail /\ mails'[m] = sent
                          \/ mails'[m] = mails[m]
                          \/ mails[m].state = "active" /\ mails'[m] = [mails[m] EXCEPT !.state = "verified"]
        OBVIOUS
      <4>1. CASE m = NextMail
        BY <3>1, <4>1
      <4>2. CASE m # NextMail /\ m \in entry[r].seen /\ mails[m].state = "active"
        BY <3>1, <4>2
      <4>3. CASE m # NextMail /\ ~(m \in entry[r].seen /\ mails[m].state = "active")
        BY <3>1, <4>3
      <4> QED
        BY <4>1, <4>2, <4>3
    <3> QED
      BY <1>r, <2>4, <3>2, <3>3, <3>4
  <2>6. \A m \in Mails : /\ mails'[m].state = "none" => mails[m].state = "none"
                         /\ guesses[m] <= mails'[m].tries
                         /\ mails'[m].state \in {"active", "verified"} => mails'[m].to \in People
    <3> SUFFICES ASSUME NEW m \in Mails
                 PROVE  /\ mails'[m].state = "none" => mails[m].state = "none"
                        /\ guesses[m] <= mails'[m].tries
                        /\ mails'[m].state \in {"active", "verified"} => mails'[m].to \in People
      OBVIOUS
    <3>1. guesses[m] <= mails[m].tries /\ (mails[m].state = "none" => guesses[m] = 0)
          /\ (mails[m].state \in {"active", "verified"} => mails[m].to \in People) /\ mails[m] \in MailRows
      BY <1>r DEF SigningInv, GuessesAreCounted, RecipientsAreKnown
    <3>2. CASE m = NextMail /\ mails'[m] = sent
      BY <2>1, <2>2, <2>4, <3>1, <3>2
    <3>3. CASE mails[m].state = "active" /\ mails'[m] = [mails[m] EXCEPT !.state = "verified"]
      BY <3>1, <3>3 DEF MailRows
    <3> QED
      BY <2>5, <3>1, <3>2, <3>3
  <2> QED
    BY <1>7, <2>5, <2>6, OnlyMails DEF SendCode
<1>8. ASSUME NEW p \in Followed, SendInvite(p) PROVE SigningInv'
  <2>2. NextMail \in Mails /\ mails[NextMail].state = "none"
    BY <1>8, NextIsUnsent DEF SendInvite
  <2>3. PICK sent : sent = [NoMail EXCEPT !.state = "active", !.to = p, !.kind = "invite"]
    OBVIOUS
  <2>4. sent \in MailRows /\ sent.to = p /\ sent.state = "active" /\ sent.tries = 0
    BY <1>t, <2>3 DEF MailRows, NoMail
  <2>5. mails' = [mails EXCEPT ![NextMail] = sent]
    BY <1>8, <2>3 DEF SendInvite
  <2>6. \A m \in Mails : /\ mails'[m].state = "none" => mails[m].state = "none"
                         /\ guesses[m] <= mails'[m].tries
                         /\ mails'[m].state \in {"active", "verified"} => mails'[m].to \in People
    BY <1>t, <2>2, <2>4, <2>5 DEF SigningInv, GuessesAreCounted, RecipientsAreKnown
  <2> QED
    BY <1>t, <1>8, <2>4, <2>5, <2>6, OnlyMails DEF SendInvite
<1>9. ASSUME NEW m \in Mails, RunsOut(m) PROVE SigningInv'
  <2>1. mails' \in [Mails -> MailRows]
    BY <1>t, <1>9 DEF RunsOut, MailRows
  <2>2. \A n \in Mails : mails'[n] = mails[n] \/ (mails'[n].state = "over" /\ mails'[n].tries = mails[n].tries)
    BY <1>t, <1>9 DEF RunsOut, MailRows
  <2>3. \A n \in Mails : /\ mails'[n].state = "none" => mails[n].state = "none"
                         /\ guesses[n] <= mails'[n].tries
                         /\ mails'[n].state \in {"active", "verified"} => mails'[n].to \in People
    BY <2>2 DEF SigningInv, GuessesAreCounted, RecipientsAreKnown
  <2> QED
    BY <1>9, <2>1, <2>3, OnlyMails DEF RunsOut
<1>10. ASSUME NEW r \in Requests, WrongCode(r) PROVE SigningInv'
  <2>1. entry[r].mail \in Mails /\ \A q \in Requests : entry[q].at = "read" => entry[q].mail \in Mails
    BY <1>10 DEF WrongCode, SigningInv, RecipientsAreKnown
  <2>2. GuessesAreCounted'
    BY <1>t, <1>10, <2>1, WrongCounts DEF SigningInv
  <2>3. mails' \in [Mails -> MailRows]
    BY <1>t, <1>10, <2>1 DEF WrongCode, MailRows, UsedUp
  <2>4. \A n \in Mails : mails'[n].state \in {"active", "verified"} => (mails[n].state \in {"active", "verified"} \/ n = entry[r].mail)
    BY <1>t, <1>10, <2>1 DEF WrongCode, MailRows
  <2>5. \A n \in Mails : mails'[n].to = mails[n].to
    BY <1>t, <1>10, <2>1 DEF WrongCode, MailRows
  <2>6. mails'[entry[r].mail].state \in {"active", "verified"} => mails[entry[r].mail].state \in {"active", "verified"}
    BY <1>t, <1>10, <2>1 DEF WrongCode, MailRows, UsedUp
  <2>7. \A n \in Mails : mails'[n].state \in {"active", "verified"} => mails'[n].to \in People
    BY <1>r, <2>4, <2>5, <2>6 DEF RecipientsAreKnown
  <2>8. guesses' \in [Mails -> Nat]
    <3>1. PICK k \in Mails : k = entry[r].mail
      BY <2>1
    <3>2. guesses \in [Mails -> Nat] /\ guesses' = [guesses EXCEPT ![k] = @ + 1]
      BY <1>t, <1>10, <3>1 DEF WrongCode, SignInTypeOK
    <3> QED
      BY <3>2
  <2>9. entry' \in [Requests -> Entries] /\ \A q \in Requests : entry'[q] = entry[q] \/ entry'[q].at = "idle"
    BY <1>t, <1>10, EmptyEntries DEF WrongCode, Leave, Enter
  <2>10. SigningTypes'
    BY <1>t, <1>10, <2>3, <2>8, <2>9, TypesStay DEF WrongCode, SigningTypes, SignInTypeOK, ProviderTypeOK, providerVars
  <2>11. RecipientsAreKnown'
    BY <1>r, <2>7, <2>9 DEF RecipientsAreKnown, providerVars
  <2>12. RowsAreCurrent'
    <3>1. \A x : Current(x) => Current(x)'
      BY <1>10, UsersStay DEF WrongCode, sessionVars
    <3> QED
      BY <1>10, <2>9, <3>1, RowsKeep DEF WrongCode, SigningInv, sessionVars, providerVars
  <2> QED
    BY <2>2, <2>10, <2>11, <2>12 DEF SigningInv
<1>11. ASSUME NEW r \in Requests, SignUserIn(r) PROVE SigningInv'
  <2>1. PICK b \in Browsers : cookie' = [cookie EXCEPT ![b] = entry[r].row]
    BY <1>11 DEF SignUserIn, AddAuthUserCookie
  <2>2. PICK x : x = entry[r].row
    OBVIOUS
  <2>3. Current(x)
    BY <1>11, <2>2 DEF SignUserIn, SigningInv, RowsAreCurrent
  <2>4. \A y : Current(y) => Current(y)'
    BY <1>11, UsersStay DEF SignUserIn
  <2>5. SessionsTypeOK'
    BY <1>t, <1>11, <2>1, <2>2, <2>3 DEF SignUserIn, SessionsTypeOK, Current, listVars
  <2>6. UsersTypeOK'
    BY <1>t, <1>11 DEF SignUserIn, UsersTypeOK, userVars
  <2>7. Current(x)' /\ cookie' = [cookie EXCEPT ![b] = x]
    BY <2>1, <2>2, <2>3, <2>4
  <2> QED
    BY <1>t, <1>11, <2>4, <2>5, <2>6, <2>7, CookieGiven DEF SignUserIn
<1>12. ASSUME NEW r \in Requests, RegisterUser(r) PROVE SigningInv'
  <2> DEFINE p == entry[r].to
  <2>1. PICK x : x = [RowOf(p) EXCEPT !.stamp = stamp[p] + 1, !.role = Visitor, !.status = "active"]
    OBVIOUS
  <2>2. PICK b \in Browsers : cookie' = [cookie EXCEPT ![b] = x]
    BY <1>12, <2>1 DEF RegisterUser, AddAuthUserCookie
  <2>3. p \in People
    BY <1>12, <1>r DEF RegisterUser, RecipientsAreKnown
  <2>4. /\ NewStamp(p) /\ role' = [role EXCEPT ![p] = Visitor] /\ status' = [status EXCEPT ![p] = "active"]
        /\ UNCHANGED listVars
    BY <1>12 DEF RegisterUser
  <2> HIDE DEF p
  <2>5. UsersTypeOK'
    BY <1>t, <2>3, <2>4, RegisteredTypes
  <2>6. Current(x)'
    <3>1. x = [RowOf(p) EXCEPT !.stamp = stamp[p] + 1, !.role = Visitor, !.status = "active"]
      BY <2>1 DEF p
    <3>2. PICK over :
            /\ over \in BOOLEAN
            /\ ~over => \A q \in Requests : saving[q].at # "none" => ~Spares(saving[q], p)
            /\ RowOf(p) = RowUnder(p, allowed, over)
      BY <2>3, RowFields
    <3>r. x = [RowUnder(p, allowed, over) EXCEPT !.stamp = stamp[p] + 1, !.role = Visitor, !.status = "active"]
      BY <3>1, <3>2, Zenon
    <3>3. x = [user |-> p, stamp |-> stamp[p] + 1, role |-> Visitor, status |-> "active",
               allowed |-> allowed, overtaken |-> over]
      BY <3>r DEF RowUnder
    <3>4. allowed \in RoleLists
      BY <1>t DEF SessionsTypeOK
    <3> QED
      BY <1>t, <2>3, <2>4, <2>5, <3>2, <3>3, <3>4, RegisteredIsCurrent
  <2>7. \A y : Current(y) => Current(y)'
    BY <1>t, <2>3, <2>4, StampKeeps DEF UsersTypeOK
  <2>8. x \in SessionRows
    BY <2>6 DEF Current
  <2>9. SessionsTypeOK'
    BY <1>t, <2>2, <2>4, <2>8 DEF SessionsTypeOK, listVars
  <2> QED
    BY <1>t, <1>12, <2>2, <2>5, <2>6, <2>7, <2>9, CookieGiven DEF RegisterUser
<1>13. ASSUME NEW x \in Policies, ChangePolicy(x) PROVE SigningInv'
  <2>1. UNCHANGED <<mails, guesses, entry>> /\ SessionsStay /\ policy' \in Policies
    BY <1>13 DEF ChangePolicy
  <2>2. SigningTypes'
    BY <1>t, <2>1, TypesStay DEF SigningTypes, SignInTypeOK, ProviderTypeOK, providerVars
  <2>3. RecipientsAreKnown' /\ GuessesAreCounted'
    BY <2>1 DEF SigningInv, RecipientsAreKnown, GuessesAreCounted, Guessing, providerVars
  <2>4. RowsAreCurrent'
    <3>1. \A y : Current(y) => Current(y)'
      BY <2>1, UsersStay DEF sessionVars
    <3> QED
      BY <2>1, <3>1, RowsKeep DEF SigningInv, sessionVars, providerVars
  <2> QED
    BY <2>2, <2>3, <2>4 DEF SigningInv
<1> QED
  BY <1>1, <1>2, <1>3, <1>4, <1>5, <1>6, <1>7, <1>8, <1>9, <1>10, <1>11, <1>12, <1>13 DEF SignInStep

\* A row with the list that was read before it tells whether it is another one.
LEMMA CheckedRowFields ==
  ASSUME NEW r \in Requests, flow[r] \in Flows, NEW p \in People
  PROVE  \E list \in RoleLists, over \in BOOLEAN :
           /\ ~over => list = allowed /\ \A q \in Requests : saving[q].at # "none" => ~Spares(saving[q], p)
           /\ CheckedRow(r, p) = RowUnder(p, list, over)
<1> DEFINE Over == SparedByOne(p) \/ flow[r].list # allowed
<1>1. Over \in BOOLEAN
  BY DEF SparedByOne
<1>2. ~Over => flow[r].list = allowed /\ \A q \in Requests : saving[q].at # "none" => ~Spares(saving[q], p)
  BY DEF SparedByOne
<1>3. CheckedRow(r, p) = RowUnder(p, flow[r].list, Over)
  BY Zenon DEF CheckedRow
<1>4. flow[r].list \in RoleLists
  BY DEF Flows
<1> HIDE DEF Over
<1> QED
  BY <1>1, <1>2, <1>3, <1>4, Zenon

\* The steps of signing in through a provider.
LEMMA ProviderStepKeeps ==
  ASSUME SigningInv, ProviderStep, UNCHANGED signInVars
  PROVE  SigningInv'
<1>t. /\ SigningTypes /\ SignInTypeOK /\ ProviderTypeOK /\ SessionsTypeOK /\ UsersTypeOK
      /\ enabled \in BOOLEAN /\ signUp \in BOOLEAN /\ allowed \in RoleLists
      /\ flow \in [Requests -> Flows] /\ Followed \subseteq People
      /\ cookie \in [Browsers -> SessionRows \cup {NoCookie}]
  BY UsersAssumption DEF SigningInv, SigningTypes, ProviderTypeOK, SessionsTypeOK
<1>r. /\ RecipientsAreKnown /\ \A r \in Requests : flow[r] \in Flows
  BY <1>t DEF SigningInv
<1>n. NoFlow \in Flows /\ NoFlow.at = "none"
  BY EmptyEntries
<1>u. Unchanged => SessionsStay /\ UNCHANGED <<enabled, signUp>>
  BY DEF Unchanged, SessionsStay
<1>1. ASSUME NEW r \in Requests, NEW b \in Browsers, SignInByOAuth(r, b) PROVE SigningInv'
  <2>1. PICK new : new = [NoFlow EXCEPT !.at = "asked", !.from = b]
    OBVIOUS
  <2>2. new \in Flows /\ new.at = "asked"
    BY <1>n, <2>1 DEF Flows
  <2> QED
    BY <1>t, <1>u, <1>1, <2>1, <2>2, FlowGoesOn DEF SignInByOAuth
<1>2. ASSUME NEW r \in Requests, NEW p \in Followed, NEW group \in RoleLists, Authorize(r, p, group) PROVE SigningInv'
  <2>1. PICK new : new = [flow[r] EXCEPT !.at = "authorized", !.who = p, !.group = group]
    OBVIOUS
  <2>2. new \in Flows /\ new.at = "authorized" /\ new.who = p
    BY <1>t, <1>r, <2>1 DEF Flows
  <2> QED
    BY <1>t, <1>u, <1>2, <2>1, <2>2, FlowGoesOn DEF Authorize
<1>3. ASSUME NEW r \in Requests, OAuthCallback(r) PROVE SigningInv'
  <2>1. PICK new : new = [flow[r] EXCEPT !.at = "handed"]
    OBVIOUS
  <2>2. new \in Flows /\ new.at = "handed" /\ new.who = flow[r].who
    BY <1>r, <2>1 DEF Flows
  <2>3. flow[r].who \in People
    BY <1>3, <1>r DEF OAuthCallback, RecipientsAreKnown
  <2> QED
    BY <1>t, <1>u, <1>3, <2>1, <2>2, <2>3, FlowGoesOn DEF OAuthCallback
<1>4. ASSUME NEW r \in Requests, NEW b \in Browsers, GetOAuthProfile(r, b) PROVE SigningInv'
  <2>1. PICK new : new = [flow[r] EXCEPT !.at = "profile", !.in = b, !.may = signUp]
    OBVIOUS
  <2>2. new \in Flows /\ new.at = "profile" /\ new.who = flow[r].who /\ new.in = b
    BY <1>t, <1>r, <2>1 DEF Flows
  <2>3. flow[r].who \in People
    BY <1>4, <1>r DEF GetOAuthProfile, AnyBrowser, RecipientsAreKnown
  <2> QED
    BY <1>t, <1>u, <1>4, <2>1, <2>2, <2>3, FlowGoesOn DEF GetOAuthProfile, AnyBrowser
<1>5. ASSUME NEW r \in Requests, GetCustomOAuthConfig(r) PROVE SigningInv'
  <2>1. PICK new : new = [flow[r] EXCEPT !.at = "checking", !.list = allowed]
    OBVIOUS
  <2>2. new \in Flows /\ new.at = "checking" /\ new.who = flow[r].who /\ new.in = flow[r].in
    BY <1>t, <1>r, <2>1 DEF Flows
  <2>3. flow[r].who \in People /\ flow[r].in \in Browsers
    BY <1>5, <1>r DEF GetCustomOAuthConfig, RecipientsAreKnown
  <2> QED
    BY <1>t, <1>u, <1>5, <2>1, <2>2, <2>3, FlowGoesOn DEF GetCustomOAuthConfig
<1>6. ASSUME NEW r \in Requests, FindByProvider(r) PROVE SigningInv'
  <2>1. PICK x : x = CheckedRow(r, flow[r].who)
    OBVIOUS
  <2>2. PICK new : new = [flow[r] EXCEPT !.at = "welcome", !.row = x]
    OBVIOUS
  <2>3. flow[r].who \in People /\ flow[r].in \in Browsers
    BY <1>6, <1>r DEF FindByProvider, RecipientsAreKnown
  <2>4. Current(x)
    <3> DEFINE p == flow[r].who
    <3>1. PICK list \in RoleLists, over \in BOOLEAN :
            /\ ~over => list = allowed /\ \A q \in Requests : saving[q].at # "none" => ~Spares(saving[q], p)
            /\ CheckedRow(r, p) = RowUnder(p, list, over)
      BY <1>r, <2>3, CheckedRowFields
    <3> QED
      BY <1>t, <1>6, <2>1, <2>3, <3>1, RowIsCurrent DEF FindByProvider
  <2>5. new \in Flows /\ new.at = "welcome" /\ new.who = flow[r].who /\ new.in = flow[r].in /\ new.row = x
    BY <1>r, <2>2, <2>4 DEF Flows, Current
  <2> QED
    BY <1>t, <1>u, <1>6, <2>1, <2>2, <2>3, <2>4, <2>5, FlowGoesOn DEF FindByProvider
<1>7. ASSUME NEW r \in Requests, Drop(r) PROVE SigningInv'
  BY <1>t, <1>u, <1>n, <1>7, FlowGoesOn DEF Drop
<1>8. ASSUME NEW r \in Requests, WelcomeBack(r) PROVE SigningInv'
  <2>1. PICK x : x = flow[r].row
    OBVIOUS
  <2>2. Current(x) /\ flow[r].in \in Browsers
    BY <1>8, <1>r, <2>1 DEF WelcomeBack, SigningInv, RowsAreCurrent, RecipientsAreKnown
  <2>3. cookie' = [cookie EXCEPT ![flow[r].in] = x] /\ UNCHANGED <<enabled, signUp, listVars, userVars>>
    BY <1>8, <2>1 DEF WelcomeBack
  <2>4. \A y : Current(y) => Current(y)'
    BY <2>3, UsersStay
  <2>5. UsersTypeOK'
    BY <1>t, <2>3 DEF UsersTypeOK, userVars
  <2>6. Continue(r, NoFlow) /\ Current(x)'
    BY <1>8, <2>2, <2>4 DEF WelcomeBack
  <2> QED
    BY <1>t, <2>2, <2>3, <2>4, <2>5, <2>6, FlowEnds
<1>9. ASSUME NEW r \in Requests, RegisterByProvider(r) PROVE SigningInv'
  <2> DEFINE p == flow[r].who
  <2>1. PICK x : x = [CheckedRow(r, p) EXCEPT !.stamp = stamp[p] + 1, !.role = Visitor, !.status = "active"]
    OBVIOUS
  <2>2. cookie' = [cookie EXCEPT ![flow[r].in] = x] /\ Continue(r, NoFlow) /\ UNCHANGED <<enabled, signUp>>
    BY <1>9, <2>1 DEF RegisterByProvider
  <2>3. p \in People /\ flow[r].in \in Browsers
    BY <1>9, <1>r DEF RegisterByProvider, RecipientsAreKnown
  <2>4. /\ NewStamp(p) /\ role' = [role EXCEPT ![p] = Visitor] /\ status' = [status EXCEPT ![p] = "active"]
        /\ UNCHANGED listVars
    BY <1>9 DEF RegisterByProvider
  <2> HIDE DEF p
  <2>5. UsersTypeOK'
    BY <1>t, <2>3, <2>4, RegisteredTypes
  <2>6. Current(x)'
    <3>1. x = [CheckedRow(r, p) EXCEPT !.stamp = stamp[p] + 1, !.role = Visitor, !.status = "active"]
      BY <2>1 DEF p
    <3>2. PICK list \in RoleLists, over \in BOOLEAN :
            /\ ~over => list = allowed /\ \A q \in Requests : saving[q].at # "none" => ~Spares(saving[q], p)
            /\ CheckedRow(r, p) = RowUnder(p, list, over)
      BY <1>r, <2>3, CheckedRowFields
    <3>r. x = [RowUnder(p, list, over) EXCEPT !.stamp = stamp[p] + 1, !.role = Visitor, !.status = "active"]
      BY <3>1, <3>2, Zenon
    <3>3. x = [user |-> p, stamp |-> stamp[p] + 1, role |-> Visitor, status |-> "active",
               allowed |-> list, overtaken |-> over]
      BY <3>r DEF RowUnder
    <3> QED
      BY <1>t, <2>3, <2>4, <2>5, <3>2, <3>3, RegisteredIsCurrent
  <2>7. \A y : Current(y) => Current(y)'
    BY <1>t, <2>3, <2>4, StampKeeps DEF UsersTypeOK
  <2> QED
    BY <1>t, <2>2, <2>3, <2>4, <2>5, <2>6, <2>7, FlowEnds
<1>10. ASSUME NEW admin \in People, NEW on \in BOOLEAN, SetProviderStatus(admin, on) \/ ChangeSignUp(admin, on)
       PROVE SigningInv'
  <2>1. SessionsStay /\ flow' = flow /\ enabled' \in BOOLEAN /\ signUp' \in BOOLEAN
    BY <1>t, <1>10 DEF SetProviderStatus, ChangeSignUp, SessionsStay
  <2>2. SigningTypes'
    BY <1>t, <2>1, TypesStay DEF SigningTypes, SignInTypeOK, ProviderTypeOK, signInVars
  <2>3. RecipientsAreKnown' /\ GuessesAreCounted'
    BY <2>1 DEF SigningInv, RecipientsAreKnown, GuessesAreCounted, Guessing, signInVars
  <2>4. RowsAreCurrent'
    <3>1. \A y : Current(y) => Current(y)'
      BY <2>1, UsersStay DEF SessionsStay, sessionVars
    <3> QED
      BY <2>1, <3>1, RowsKeep DEF SigningInv, SessionsStay, sessionVars, signInVars
  <2> QED
    BY <2>2, <2>3, <2>4 DEF SigningInv
<1> QED
  BY <1>1, <1>2, <1>3, <1>4, <1>5, <1>6, <1>7, <1>8, <1>9, <1>10 DEF ProviderStep

\* Cookies are removed, sessions ended by a new list of roles, users changed.
LEMMA SessionsStepKeeps ==
  ASSUME SigningInv, SessionsStep, UNCHANGED <<signInVars, providerVars>>
  PROVE  SigningInv'
<1>t. /\ SigningTypes /\ SignInTypeOK /\ ProviderTypeOK /\ SessionsTypeOK /\ UsersTypeOK
      /\ allowed \in RoleLists /\ misread \in BOOLEAN /\ saving \in [Requests -> Savings]
      /\ cookie \in [Browsers -> SessionRows \cup {NoCookie}] /\ NoSaving \in Savings
  BY SessionsAssumption DEF SigningInv, SigningTypes, ProviderTypeOK, SessionsTypeOK, NoSaving, Savings
<1>1. ASSUME UsersTypeOK', allowed' \in RoleLists, misread' \in BOOLEAN, saving' \in [Requests -> Savings],
             cookie' \in [Browsers -> SessionRows \cup {NoCookie}],
             \A b \in Browsers : cookie'[b] \in {cookie[b], NoCookie},
             \A y : Current(y) => Current(y)'
      PROVE  SigningInv'
  <2>1. SigningTypes'
    BY <1>t, <1>1 DEF SigningTypes, SignInTypeOK, ProviderTypeOK, SessionsTypeOK, signInVars, providerVars
  <2>2. RecipientsAreKnown' /\ GuessesAreCounted'
    BY DEF SigningInv, RecipientsAreKnown, GuessesAreCounted, Guessing, signInVars, providerVars
  <2>3. RowsAreCurrent'
    BY <1>1, RowsKeep DEF SigningInv, signInVars, providerVars
  <2> QED
    BY <2>1, <2>2, <2>3 DEF SigningInv
<1>2. ASSUME NEW b \in Browsers, Refuse(b) \/ SignOut(b) PROVE SigningInv'
  <2>1. UNCHANGED <<listVars, userVars>> /\ cookie' = [cookie EXCEPT ![b] = NoCookie]
    BY <1>2 DEF Refuse, SignOut
  <2>2. UsersTypeOK' /\ UNCHANGED <<allowed, misread, saving>>
    BY <1>t, <2>1 DEF UsersTypeOK, userVars, listVars
  <2>3. \A y : Current(y) => Current(y)'
    BY <2>1, UsersStay
  <2> QED
    BY <1>t, <1>1, <2>1, <2>2, <2>3
<1>3. ASSUME NEW r \in Requests,
             \/ \E admin \in People, list \in RoleLists : ReadRoles(r, admin, list)
             \/ WriteRoles(r) \/ SavingFails(r)
      PROVE  SigningInv'
  <2>1. UNCHANGED <<allowed, misread, cookie, userVars>>
    BY <1>3 DEF ReadRoles, WriteRoles, SavingFails
  <2>2. saving' \in [Requests -> Savings]
    <3>1. ASSUME NEW admin \in People, NEW list \in RoleLists, ReadRoles(r, admin, list)
          PROVE  saving' \in [Requests -> Savings]
      BY <1>t, <3>1 DEF ReadRoles, Savings
    <3>2. CASE WriteRoles(r)
      <4>1. PICK out \in SUBSET People : saving' = [saving EXCEPT ![r].at = "written", ![r].out = out]
        BY <3>2 DEF WriteRoles
      <4> QED
        BY <1>t, <4>1 DEF Savings
    <3>3. CASE SavingFails(r)
      BY <1>t, <3>3 DEF SavingFails
    <3> QED
      BY <1>3, <3>1, <3>2, <3>3
  <2>3. UsersTypeOK'
    BY <1>t, <2>1 DEF UsersTypeOK, userVars
  <2>4. \A y : Current(y) => Current(y)'
    BY <1>t, <1>3, SavingKeeps
  <2> QED
    BY <1>t, <1>1, <2>1, <2>2, <2>3, <2>4
<1>4. ASSUME NEW r \in Requests, CommitRoles(r) PROVE SigningInv'
  <2>1. UNCHANGED <<role, status, cookie>> /\ saving' = [saving EXCEPT ![r] = NoSaving]
        /\ allowed' = saving[r].list
    BY <1>4 DEF CommitRoles
  <2>2. misread' \in BOOLEAN
    BY <1>4, Zenon DEF CommitRoles
  <2>3. stamp' \in [People -> 0..MaxStamp]
    <3>1. \A p \in People : stamp[p] \in 0..MaxStamp
      BY <1>t DEF UsersTypeOK
    <3>2. ASSUME NEW p \in People
          PROVE  (IF p \in saving[r].out THEN stamp[p] + 1 ELSE stamp[p]) \in 0..MaxStamp
      <4>1. p \in saving[r].out => stamp[p] < MaxStamp
        BY <1>4 DEF CommitRoles
      <4>2. stamp[p] \in 0..MaxStamp
        BY <3>1
      <4> QED
        BY <4>1, <4>2, UsersAssumption
    <3> QED
      BY <1>4, <3>2 DEF CommitRoles
  <2>4. UsersTypeOK'
    BY <1>t, <2>1, <2>3 DEF UsersTypeOK
  <2>5. \A y : Current(y) => Current(y)'
    BY <1>t, <1>4, RolesKeep
  <2>6. saving' \in [Requests -> Savings] /\ allowed' \in RoleLists
    BY <1>t, <2>1 DEF Savings
  <2> QED
    BY <1>t, <1>1, <2>1, <2>2, <2>4, <2>5, <2>6
<1>5. ASSUME UsersStep, UNCHANGED sessionVars PROVE SigningInv'
  <2>1. UsersTypeOK'
    BY <1>t, <1>5, UserTypes
  <2>2. UNCHANGED <<allowed, misread, saving, cookie, listVars>>
    BY <1>5 DEF sessionVars, listVars
  <2>3. \A y : Current(y) => Current(y)'
    BY <1>t, <1>5, <2>2, UsersStepKeeps
  <2>4. misread' \in BOOLEAN
    BY <1>t, <2>2, Zenon
  <2> QED
    BY <1>t, <1>1, <2>1, <2>2, <2>3, <2>4
<1> QED
  BY <1>2, <1>3, <1>4, <1>5 DEF SessionsStep

LEMMA StepSigning == SigningInv /\ [SigningNext]_signingVars => SigningInv'
<1> SUFFICES ASSUME SigningInv, [SigningNext]_signingVars PROVE SigningInv'
  OBVIOUS
<1>1. CASE UNCHANGED signingVars
  <2>1. UNCHANGED <<userVars, sessionVars, signInVars, providerVars>>
    BY <1>1 DEF signingVars
  <2>2. SessionsStay
    BY <2>1 DEF SessionsStay
  <2>3. SigningTypes'
    BY <2>1, <2>2, TypesStay DEF SigningInv, SigningTypes, SignInTypeOK, ProviderTypeOK, signInVars, providerVars
  <2>4. RecipientsAreKnown' /\ GuessesAreCounted'
    BY <2>1 DEF SigningInv, RecipientsAreKnown, GuessesAreCounted, Guessing, signInVars, providerVars
  <2>5. RowsAreCurrent'
    <3>1. \A y : Current(y) => Current(y)'
      BY <2>1, UsersStay DEF sessionVars
    <3> QED
      BY <2>1, <3>1, RowsKeep DEF SigningInv, sessionVars, signInVars, providerVars
  <2> QED
    BY <2>3, <2>4, <2>5 DEF SigningInv
<1> QED
  BY <1>1, MailStepKeeps, ProviderStepKeeps, SessionsStepKeeps DEF SigningNext

\* WorkingSessionsAreCurrent: whoever is let in by a cookie with a stamp has the
\* role he had when it was made for him and, unless a change of the list overtook
\* his sign-in or another change, was let in under the list of roles that holds
\* now, whatever administrators did meanwhile.
THEOREM WorkingSessionsAlwaysCurrent == SigningSpec => []WorkingSessionsAreCurrent
<1>1. SigningInv => WorkingSessionsAreCurrent
  <2> SUFFICES ASSUME SigningInv, NEW b \in Browsers, Recognized(b), cookie[b].stamp # NoStamp
               PROVE  LET s == cookie[b] IN
                        /\ s.role = role[s.user]
                        /\ s.status = status[s.user]
                        /\ role[s.user] = Visitor /\ allowed # "" => s.allowed = allowed \/ s.overtaken \/ misread
    BY DEF WorkingSessionsAreCurrent
  <2>1. Current(cookie[b]) /\ Found(cookie[b].user) /\ cookie[b].stamp = stamp[cookie[b].user]
    BY DEF SigningInv, RowsAreCurrent, Recognized
  <2> QED
    BY <2>1 DEF Current, UnderTheList
<1> QED
  BY <1>1, InitSigning, StepSigning, PTL DEF SigningSpec

\* GuessesBounded: however many requests guess at once, a code is compared
\* with fewer wrong ones than the attempts allowed and the requests at work.
THEOREM GuessesAlwaysBounded == SigningSpec => []GuessesBounded
<1>1. SigningInv => GuessesBounded
  <2> SUFFICES ASSUME SigningInv, NEW m \in Mails PROVE guesses[m] < MaxTries + Cardinality(Requests)
    BY DEF GuessesBounded
  <2>1. guesses[m] + Cardinality(Guessing(m)) < MaxTries + Cardinality(Requests)
    BY DEF SigningInv, GuessesAreCounted
  <2>2. guesses[m] \in Nat /\ MaxTries \in Nat
    BY CountsAreNumbers DEF SigningInv, SigningTypes
  <2> QED
    BY <2>1, <2>2, GuessingIsFinite
<1> QED
  BY <1>1, InitSigning, StepSigning, PTL DEF SigningSpec

-----------------------------------------------------------------------------
(* SignUp: the site's first administrator                                  *)

VisitsAreKnown ==
  \A r \in Requests : /\ visit[r].at = "claiming" => visit[r].who \in People
                      /\ visit[r].at = "following" => site # "none"

FounderIsKnown ==
  IF site = "none" THEN creator = {} /\ \A p \in People : joined[p] = <<>>
                   ELSE \E p \in People : creator = {p}

\* The unique index: one row for an address.
RowsAreSingle == \A p \in People : joined[p] \in {<<>>, <<Visitor>>, <<Administrator>>}

AdministratorFounded ==
  \A p \in People : joined[p] = <<Administrator>> <=> site = "active" /\ p \in creator

FoundingInv == SignUpTypeOK /\ VisitsAreKnown /\ FounderIsKnown /\ RowsAreSingle /\ AdministratorFounded

LEMMA OneFounder == \A p : Cardinality({p}) <= 1
<1>1. \A p : Cardinality({p}) = 1
  BY FS_Singleton
<1> QED
  BY <1>1

LEMMA DifferentRows ==
  /\ <<Visitor>> # <<Administrator>> /\ <<Visitor>> # <<>> /\ <<Administrator>> # <<>>
  /\ Append(<<>>, Visitor) = <<Visitor>> /\ Append(<<>>, Administrator) = <<Administrator>>
  /\ {<<>>, <<Visitor>>, <<Administrator>>} \subseteq Seq({Visitor, Administrator})
<1>1. Len(<<>>) = 0 /\ Len(<<Visitor>>) = 1 /\ Len(<<Administrator>>) = 1
  OBVIOUS
<1>2. <<Visitor>>[1] # <<Administrator>>[1]
  BY DEF Visitor, Administrator
<1> QED
  BY <1>1, <1>2

LEMMA InitFounding == SignUpInit => FoundingInv
<1> SUFFICES ASSUME SignUpInit PROVE FoundingInv
  OBVIOUS
<1>1. SignUpTypeOK
  BY FS_EmptySet, DifferentRows DEF SignUpInit, SignUpTypeOK, Visits, NoVisit
<1>2. VisitsAreKnown
  BY DEF SignUpInit, VisitsAreKnown, NoVisit
<1>3. FounderIsKnown /\ RowsAreSingle /\ AdministratorFounded
  BY DifferentRows DEF SignUpInit, FounderIsKnown, RowsAreSingle, AdministratorFounded
<1> QED
  BY <1>1, <1>2, <1>3 DEF FoundingInv

\* A visit that begins or ends, or a link that changes, founds nothing.
LEMMA NothingFounded ==
  ASSUME FoundingInv, UNCHANGED <<site, creator, joined>>,
         links' \in [Links -> {"none", "sent", "expired", "verified", "over"}],
         \/ visit' = visit
         \/ \E r \in Requests, v \in Visits :
              /\ visit' = [visit EXCEPT ![r] = v]
              /\ v.at = "claiming" => v.who \in People
              /\ v.at = "following" => site # "none"
  PROVE  FoundingInv'
<1>1. SignUpTypeOK'
  BY DEF FoundingInv, SignUpTypeOK
<1>2. VisitsAreKnown'
  BY DEF FoundingInv, SignUpTypeOK, VisitsAreKnown
<1>3. FounderIsKnown' /\ RowsAreSingle' /\ AdministratorFounded'
  BY DEF FoundingInv, FounderIsKnown, RowsAreSingle, AdministratorFounded
<1> QED
  BY <1>1, <1>2, <1>3 DEF FoundingInv

LEMMA VisitEnds == NoVisit \in Visits /\ NoVisit.at = "idle"
BY DEF NoVisit, Visits

LEMMA StepFounding == FoundingInv /\ [SignUpStep]_signUpVars => FoundingInv'
<1> SUFFICES ASSUME FoundingInv, [SignUpStep]_signUpVars PROVE FoundingInv'
  OBVIOUS
<1>t. SignUpTypeOK
  BY DEF FoundingInv
<1> USE DEF EndVisit, Visit
<1>1. ASSUME NEW r \in Requests, NEW p \in People, ClaimAddress(r, p) PROVE FoundingInv'
  <2>1. [at |-> "claiming", who |-> p, link |-> 0] \in Visits
    BY DEF Visits
  <2> QED
    BY <1>t, <1>1, <2>1, NothingFounded DEF ClaimAddress, SignUpTypeOK
<1>2. ASSUME NEW r \in Requests, CreateActiveTenant(r) PROVE FoundingInv'
  <2> DEFINE p == visit[r].who
  <2>1. p \in People /\ site = "none" /\ creator = {} /\ \A q \in People : joined[q] = <<>>
    BY <1>2 DEF CreateActiveTenant, FoundingInv, VisitsAreKnown, FounderIsKnown
  <2>2. site' = "active" /\ creator' = {p} /\ links' = links /\ visit' = [visit EXCEPT ![r] = NoVisit]
    BY <1>2 DEF CreateActiveTenant
  <2>3. joined' = [joined EXCEPT ![p] = <<Administrator>>]
    BY <1>2, <2>1, DifferentRows DEF CreateActiveTenant, Register, RegisterAgain
  <2> HIDE DEF p
  <2>4. SignUpTypeOK'
    BY <1>t, <2>1, <2>2, <2>3, OneFounder, VisitEnds, DifferentRows DEF SignUpTypeOK
  <2>5. VisitsAreKnown'
    BY <1>t, <2>2, VisitEnds DEF FoundingInv, SignUpTypeOK, VisitsAreKnown
  <2>6. FounderIsKnown' /\ RowsAreSingle' /\ AdministratorFounded'
    BY <1>t, <2>1, <2>2, <2>3, DifferentRows DEF SignUpTypeOK, FounderIsKnown, RowsAreSingle, AdministratorFounded
  <2> QED
    BY <2>4, <2>5, <2>6 DEF FoundingInv
<1>3. ASSUME NEW r \in Requests, CreatePendingTenant(r) PROVE FoundingInv'
  <2> DEFINE p == visit[r].who
  <2>1. p \in People /\ site = "none" /\ \A q \in People : joined[q] = <<>>
    BY <1>3 DEF CreatePendingTenant, FoundingInv, VisitsAreKnown, FounderIsKnown
  <2>2. site' = "pending" /\ creator' = {p} /\ joined' = joined /\ visit' = [visit EXCEPT ![r] = NoVisit]
        /\ links' \in [Links -> {"none", "sent", "expired", "verified", "over"}]
    BY <1>t, <1>3 DEF CreatePendingTenant, SignUpTypeOK
  <2> HIDE DEF p
  <2>4. SignUpTypeOK'
    BY <1>t, <2>1, <2>2, OneFounder, VisitEnds DEF SignUpTypeOK
  <2>5. VisitsAreKnown'
    BY <1>t, <2>2, VisitEnds DEF FoundingInv, SignUpTypeOK, VisitsAreKnown
  <2>6. FounderIsKnown' /\ RowsAreSingle' /\ AdministratorFounded'
    BY <2>1, <2>2, DifferentRows DEF FounderIsKnown, RowsAreSingle, AdministratorFounded
  <2> QED
    BY <2>4, <2>5, <2>6 DEF FoundingInv
<1>4. ASSUME NEW r \in Requests, NEW k \in Links, FollowSignUpLink(r, k) PROVE FoundingInv'
  <2>1. [at |-> "following", who |-> 0, link |-> k] \in Visits
    BY DEF Visits
  <2> QED
    BY <1>t, <1>4, <2>1, NothingFounded DEF FollowSignUpLink, SignUpTypeOK
<1>5. ASSUME NEW r \in Requests, AskForSignUpLink(r) PROVE FoundingInv'
  <2>1. [at |-> "resending", who |-> 0, link |-> 0] \in Visits
    BY DEF Visits
  <2> QED
    BY <1>t, <1>5, <2>1, NothingFounded DEF AskForSignUpLink, SignUpTypeOK
<1>6. ASSUME NEW r \in Requests, ActivateTenant(r) PROVE FoundingInv'
  <2>1. PICK p \in People : creator = {p} /\ site # "none"
    BY <1>6 DEF ActivateTenant, FoundingInv, VisitsAreKnown, FounderIsKnown
  <2>2. Founder = p
    BY <2>1 DEF Founder
  <2>3. joined[p] = <<>> /\ joined' = [joined EXCEPT ![p] = <<Administrator>>]
    BY <1>6, <2>2, DifferentRows DEF ActivateTenant, Register, RegisterAgain
  <2>4. site' = "active" /\ creator' = creator /\ visit' = [visit EXCEPT ![r] = NoVisit]
        /\ links' \in [Links -> {"none", "sent", "expired", "verified", "over"}]
    BY <1>t, <1>6 DEF ActivateTenant, SignUpTypeOK
  <2>5. SignUpTypeOK'
    BY <1>t, <2>3, <2>4, VisitEnds, DifferentRows DEF SignUpTypeOK
  <2>6. VisitsAreKnown'
    BY <1>t, <2>4, VisitEnds DEF FoundingInv, SignUpTypeOK, VisitsAreKnown
  <2>7. FounderIsKnown' /\ RowsAreSingle'
    BY <1>t, <2>1, <2>3, <2>4 DEF FoundingInv, SignUpTypeOK, FounderIsKnown, RowsAreSingle
  <2>8. AdministratorFounded'
    BY <1>t, <2>1, <2>3, <2>4 DEF FoundingInv, SignUpTypeOK, AdministratorFounded
  <2> QED
    BY <2>5, <2>6, <2>7, <2>8 DEF FoundingInv
<1>7. ASSUME NEW r \in Requests, ResendSignUpEmail(r) \/ VisitFails(r) PROVE FoundingInv'
  <2>1. links' \in [Links -> {"none", "sent", "expired", "verified", "over"}]
    BY <1>t, <1>7 DEF ResendSignUpEmail, VisitFails, SignUpTypeOK
  <2> QED
    BY <1>7, <2>1, VisitEnds, NothingFounded DEF ResendSignUpEmail, VisitFails
<1>8. ASSUME NEW k \in Links, FollowExpiredLink(k) \/ LinkRunsOut(k) PROVE FoundingInv'
  <2>1. links' \in [Links -> {"none", "sent", "expired", "verified", "over"}]
    BY <1>t, <1>8 DEF FollowExpiredLink, LinkRunsOut, SignUpTypeOK
  <2> QED
    BY <1>8, <2>1, NothingFounded DEF FollowExpiredLink, LinkRunsOut
<1>9. ASSUME NEW p \in People, JoinByProvider(p) PROVE FoundingInv'
  <2>1. joined[p] = <<>> /\ joined' = [joined EXCEPT ![p] = <<Visitor>>] /\ UNCHANGED <<site, creator, links, visit>>
    BY <1>9, DifferentRows DEF JoinByProvider, Register, RegisterAgain
  <2>2. SignUpTypeOK' /\ VisitsAreKnown' /\ RowsAreSingle'
    BY <1>t, <2>1, DifferentRows DEF FoundingInv, SignUpTypeOK, VisitsAreKnown, RowsAreSingle
  <2>3. FounderIsKnown'
    BY <1>9, <2>1 DEF FoundingInv, FounderIsKnown, JoinByProvider
  <2>4. AdministratorFounded'
    BY <1>t, <2>1, DifferentRows DEF FoundingInv, SignUpTypeOK, AdministratorFounded
  <2> QED
    BY <2>2, <2>3, <2>4 DEF FoundingInv
<1>10. ASSUME UNCHANGED signUpVars PROVE FoundingInv'
  BY <1>t, <1>10, NothingFounded DEF signUpVars, SignUpTypeOK
<1> QED
  BY <1>1, <1>2, <1>3, <1>4, <1>5, <1>6, <1>7, <1>8, <1>9, <1>10 DEF SignUpStep

\* A site that is active has its founder for an administrator, once, and
\* nobody else by signing up, whichever links of however many mails are
\* followed and whoever joins meanwhile.
THEOREM AlwaysActiveWithItsFounder == SignUpSpec => []ActiveWithItsFounder
<1>1. FoundingInv => ActiveWithItsFounder
  <2> SUFFICES ASSUME FoundingInv PROVE ActiveWithItsFounder
    OBVIOUS
  <2>1. /\ {i \in 1..Len(<<>>) : <<>>[i] = Administrator} = {}
        /\ {i \in 1..Len(<<Visitor>>) : <<Visitor>>[i] = Administrator} = {}
        /\ {i \in 1..Len(<<Administrator>>) : <<Administrator>>[i] = Administrator} = {1}
    BY DEF Visitor, Administrator
  <2>2. Cardinality({}) = 0 /\ Cardinality({1}) = 1
    BY FS_EmptySet, FS_Singleton
  <2>3. ASSUME NEW p \in creator
        PROVE  Cardinality({i \in 1..Len(joined[p]) : joined[p][i] = Administrator}) = IF site = "active" THEN 1 ELSE 0
    <3>1. p \in People /\ joined[p] \in {<<>>, <<Visitor>>, <<Administrator>>}
          /\ (joined[p] = <<Administrator>> <=> site = "active")
      BY <2>3 DEF FoundingInv, SignUpTypeOK, RowsAreSingle, AdministratorFounded
    <3>2. CASE joined[p] = <<Administrator>>
      BY <2>1, <2>2, <3>1, <3>2
    <3>3. CASE joined[p] = <<>> \/ joined[p] = <<Visitor>>
      <4>1. site # "active"
        BY <3>1, <3>3, DifferentRows
      <4>2. {i \in 1..Len(joined[p]) : joined[p][i] = Administrator} = {}
        BY <2>1, <3>3
      <4> QED
        BY <2>2, <4>1, <4>2
    <3> QED
      BY <3>1, <3>2, <3>3
  <2>4. ASSUME NEW p \in People \ creator PROVE Administrator \notin {joined[p][i] : i \in 1..Len(joined[p])}
    <3>1. joined[p] \in {<<>>, <<Visitor>>}
      BY DEF FoundingInv, RowsAreSingle, AdministratorFounded
    <3> QED
      BY <3>1 DEF Visitor, Administrator
  <2> QED
    BY <2>3, <2>4 DEF ActiveWithItsFounder
<1> QED
  BY <1>1, InitFounding, StepFounding, PTL DEF SignUpSpec
=============================================================================
