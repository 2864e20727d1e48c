------------------------------- MODULE SignIn -------------------------------
(***************************************************************************)
(* Signing in by mail (handlers/signin.go): a mail carries a code of six   *)
(* digits to type in and a link to follow; an invitation has a link only.  *)
(*                                                                         *)
(* A request commits even if it is answered with "bad request", and so do  *)
(* the attempts it counts.  What it read before it updated a row may be    *)
(* stale by the time it has the row's lock.                                *)
(***************************************************************************)
EXTENDS Sessions

CONSTANTS
  MaxMails,   \* bound: how many mails are sent
  MaxTries,   \* maxAttempts
  Policies,   \* bound: the policies among "open", "members" (no sign-up), "admins" (no e-mail login)
  Nowhere     \* no mail, nobody

ASSUME SignInAssumption ==
  /\ MaxMails \in Nat \ {0} /\ MaxTries \in Nat \ {0}
  /\ Nowhere \notin People /\ IsFiniteSet(Requests)
  /\ "open" \in Policies /\ Policies \subseteq {"open", "members", "admins"}

VARIABLES
  policy,     \* who may sign in by mail, and up
  mails,      \* mails[m] (email_verifications), in the order of created_at
  guesses,    \* history, guesses[m]: the wrong codes that were compared with the one of m
  entry       \* entry[r]: the request at work

signInVars == <<policy, mails, guesses, entry>>

Mails == 1..MaxMails
MailRows == [state : {"none", "active", "verified", "over"}, to : People \cup {Nowhere},
             kind : {"signin", "invite"}, named : BOOLEAN, tries : Nat]
Entries == [at : {"idle", "sending", "read", "proven", "found"}, mail : 0..MaxMails, tries : Nat,
            how : {"code", "link", "profile"}, may : BOOLEAN, to : People \cup {Nowhere},
            seen : SUBSET Mails, row : SessionRows \cup {Nowhere}]
NoMail == [state |-> "none", to |-> Nowhere, kind |-> "signin", named |-> FALSE, tries |-> 0]
NoEntry == [at |-> "idle", mail |-> 0, tries |-> 0, how |-> "code", may |-> FALSE,
            to |-> Nowhere, seen |-> {}, row |-> Nowhere]

SignInTypeOK ==
  /\ SessionsTypeOK
  /\ policy \in Policies
  /\ mails \in [Mails -> MailRows]
  /\ guesses \in [Mails -> Nat]
  /\ entry \in [Requests -> Entries]

\* Of the mails in use.
SignInInit(used) ==
  /\ policy = "open"
  /\ mails = [m \in Mails |-> IF m \in used THEN NoMail ELSE [NoMail EXCEPT !.state = "over"]]
  /\ guesses = [m \in Mails |-> 0]
  /\ entry = [r \in Requests |-> NoEntry]

Enter(r, new) == entry' = [entry EXCEPT ![r] = new]
Leave(r) == Enter(r, NoEntry)

\* verified_at is set, unless it was.
UsedUp(state) == IF state = "active" THEN "verified" ELSE state

CodesFor(p) == {m \in Mails : mails[m].state = "active" /\ mails[m].kind = "signin" /\ mails[m].to = p}
NextMail == CHOOSE m \in Mails : mails[m].state = "none" /\ \A n \in 1..(m - 1) : mails[n].state # "none"
Unsent == {m \in Mails : mails[m].state = "none"}

\* Rows of mails that a request other than r has updated and not committed.
Held(r) == UNION {CASE entry[q].at = "sending" -> entry[q].seen
                    [] entry[q].at \in {"proven", "found"} /\ entry[q].how = "code" -> {entry[q].mail}
                    [] OTHER -> {} : q \in Requests \ {r}}

\* CanCreateAccountByEmail, of the tenant as it was loaded for the request.
MayCreateAccount(kind) == kind = "invite" \/ policy = "open"

-----------------------------------------------------------------------------
(* Mails                                                                   *)

\* SignInByEmail and ResendSignInCode for whoever has an account, and the
\* latter for others while sign-up is open; SignInByEmailWithName for others.
\* The codes that were sent before are invalidated.
AskForCode(r, p, named) ==
  /\ entry[r].at = "idle"
  /\ Unsent # {}
  /\ IF named THEN policy = "open" /\ ~Found(p)
              ELSE /\ policy # "admins" \/ (Found(p) /\ role[p] = Administrator)
                   /\ policy = "open" \/ Found(p)
  /\ CodesFor(p) \cap Held(r) = {}
  /\ Enter(r, [NoEntry EXCEPT !.at = "sending", !.to = p, !.seen = CodesFor(p), !.may = named])
  /\ UNCHANGED <<policy, mails, guesses, sessionVars, userVars>>

\* SaveVerificationKey, and the mail.
SendCode(r) ==
  /\ entry[r].at = "sending"
  /\ Unsent # {}
  /\ mails' = [m \in Mails |->
       CASE m = NextMail -> [NoMail EXCEPT !.state = "active", !.to = entry[r].to, !.named = entry[r].may]
         [] m \in entry[r].seen /\ mails[m].state = "active" -> [mails[m] EXCEPT !.state = "verified"]
         [] OTHER -> mails[m]]
  /\ Leave(r)
  /\ UNCHANGED <<policy, guesses, sessionVars, userVars>>

\* SendInvites, to those who had no account when it was asked for.
SendInvite(p) ==
  /\ Unsent # {}
  /\ ~Found(p)
  /\ mails' = [mails EXCEPT ![NextMail] = [NoMail EXCEPT !.state = "active", !.to = p, !.kind = "invite"]]
  /\ UNCHANGED <<policy, guesses, entry, sessionVars, userVars>>

\* A code or a link expires; a verified link works for five more minutes.
RunsOut(m) ==
  /\ mails[m].state \in {"active", "verified"}
  /\ mails' = [mails EXCEPT ![m].state = "over"]
  /\ UNCHANGED <<policy, guesses, entry, sessionVars, userVars>>

-----------------------------------------------------------------------------
(* VerifySignInCode                                                        *)

\* getActiveVerificationByEmail: the newest, with the attempts up to now.
ReadActiveVerification(r, p) ==
  LET m == CHOOSE m \in CodesFor(p) : \A n \in CodesFor(p) : n <= m
  IN /\ entry[r].at = "idle"
     /\ CodesFor(p) # {}
     /\ mails[m].tries < MaxTries
     /\ Enter(r, [NoEntry EXCEPT !.at = "read", !.mail = m, !.tries = mails[m].tries,
                                 !.may = MayCreateAccount("signin"), !.to = p])
     /\ UNCHANGED <<policy, mails, guesses, sessionVars, userVars>>

WrongCodeUncounted(r) ==
  LET m == entry[r].mail
  IN /\ entry[r].at = "read"
     /\ m \notin Held(r)
     /\ guesses' = [guesses EXCEPT ![m] = @ + 1]
     /\ mails' = IF entry[r].tries + 1 >= MaxTries /\ mails[m].state = "active"
                   THEN [mails EXCEPT ![m].state = "verified"] ELSE mails
     /\ Leave(r)
     /\ UNCHANGED <<policy, sessionVars, userVars>>

\* The attempt is counted; the last one invalidates the code.
WrongCode(r) ==
  LET m == entry[r].mail
  IN /\ entry[r].at = "read"
     /\ m \notin Held(r)
     /\ guesses' = [guesses EXCEPT ![m] = @ + 1]
     /\ mails' = [mails EXCEPT ![m].tries = @ + 1,
                               ![m].state = IF entry[r].tries + 1 >= MaxTries THEN UsedUp(@) ELSE @]
     /\ Leave(r)
     /\ UNCHANGED <<policy, sessionVars, userVars>>

RightCode(r) ==
  /\ entry[r].at = "read"
  /\ entry[r].mail \notin Held(r)
  /\ Enter(r, [entry[r] EXCEPT !.at = "proven"])
  /\ UNCHANGED <<policy, mails, guesses, sessionVars, userVars>>

-----------------------------------------------------------------------------
(* VerifySignInKey, CompleteSignInProfile                                  *)

\* validateKey; how: "link", or "profile" with a name that is typed in now.
FollowLink(r, m, how) ==
  /\ entry[r].at = "idle"
  /\ mails[m].state \in {"active", "verified"}
  /\ Enter(r, [NoEntry EXCEPT !.at = "proven", !.mail = m, !.how = how,
                              !.may = MayCreateAccount(mails[m].kind), !.to = mails[m].to])
  /\ UNCHANGED <<policy, mails, guesses, sessionVars, userVars>>

-----------------------------------------------------------------------------
(* In all of them                                                          *)

FindUser(r) ==
  /\ entry[r].at = "proven"
  /\ entry[r].how # "profile"
  /\ Found(entry[r].to)
  /\ Enter(r, [entry[r] EXCEPT !.at = "found", !.row = RowOf(entry[r].to)])
  /\ UNCHANGED <<policy, mails, guesses, sessionVars, userVars>>

\* setKeyAsVerified and, for a code, the attempt that was counted.
Verified(r) ==
  LET m == entry[r].mail
  IN /\ m \notin Held(r)
     /\ mails' = [mails EXCEPT ![m].tries = IF entry[r].how = "code" THEN @ + 1 ELSE @,
                               ![m].state = UsedUp(@)]

SignUserIn(r) ==
  /\ entry[r].at = "found"
  /\ Verified(r)
  /\ AddAuthUserCookie(entry[r].row)
  /\ Leave(r)
  /\ UNCHANGED <<policy, guesses, listVars, userVars>>

\* Nobody has the address: a new account, unless somebody else just made it.
RegisterUser(r) ==
  LET p == entry[r].to
  IN /\ entry[r].at = "proven"
     /\ entry[r].may
     /\ mails[entry[r].mail].named \/ entry[r].how = "profile"
     /\ ~Found(p)
     /\ NewStamp(p)
     /\ role' = [role EXCEPT ![p] = Visitor]
     /\ status' = [status EXCEPT ![p] = "active"]
     /\ Verified(r)
     /\ AddAuthUserCookie([RowOf(p) EXCEPT !.stamp = stamp[p] + 1, !.role = Visitor, !.status = "active"])
     /\ Leave(r)
     /\ UNCHANGED <<policy, guesses, listVars>>

\* Refused, not invited, shown the profile page, failed or died.
GiveUp(r) ==
  /\ entry[r].at # "idle"
  /\ Leave(r)
  /\ UNCHANGED <<policy, mails, guesses, sessionVars, userVars>>

ChangePolicy(x) ==
  /\ policy' = x
  /\ UNCHANGED <<mails, guesses, entry, sessionVars, userVars>>

SignInStep ==
  \/ \E r \in Requests : \/ SendCode(r) \/ WrongCode(r) \/ RightCode(r)
                         \/ FindUser(r) \/ SignUserIn(r) \/ RegisterUser(r) \/ GiveUp(r)
  \/ \E r \in Requests, p \in Followed : \/ ReadActiveVerification(r, p)
                                         \/ \E named \in BOOLEAN : AskForCode(r, p, named)
  \/ \E r \in Requests, m \in Mails, how \in {"link", "profile"} : FollowLink(r, m, how)
  \/ \E p \in Followed : SendInvite(p)
  \/ \E m \in Mails : RunsOut(m)
  \/ \E x \in Policies : ChangePolicy(x)

SignInNext == SignInStep \/ (SessionsStep /\ UNCHANGED signInVars)

-----------------------------------------------------------------------------
\* "Too many attempts": the attempts are read before they are counted, so
\* that requests at the same time get past the limit together; but never
\* more of them than are at work at once, and never again afterwards.
GuessesBounded == \A m \in Mails : guesses[m] < MaxTries + Cardinality(Requests)
=============================================================================
