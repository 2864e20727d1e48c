------------------------------- MODULE SignUp -------------------------------
(***************************************************************************)
(* How one site comes to be (handlers/signup.go,                           *)
(* services/sqlstore/postgres/tenant.go): its address is claimed, by       *)
(* somebody known from a provider, or by mail, in which case it is pending *)
(* until a link is followed; that activates it and makes the recipient its *)
(* first administrator.                                                    *)
(*                                                                         *)
(* Links come in several mails, are followed twice (mail programs preview  *)
(* them) and at once, and the site's status is read when a request begins. *)
(* Unique indexes on tenants.subdomain and on users(tenant_id, email)      *)
(* decide what of that can happen.                                         *)
(***************************************************************************)
EXTENDS Users, Sequences

CONSTANT MaxLinks   \* bound: how many mails with a link are sent

ASSUME SignUpAssumption == MaxLinks \in Nat \ {0}

VARIABLES
  site,       \* "none", "pending" or "active" (tenants.status)
  creator,    \* whose address its mails go to
  links,      \* links[k] (email_verifications), in the order of created_at
  joined,     \* joined[p]: roles of the site's user rows with p's address, in their order
  visit       \* visit[r]: the request at work

signUpVars == <<site, creator, links, joined, visit>>

Links == 1..MaxLinks
NoVisit == [at |-> "idle", who |-> 0, link |-> 0]

Visits == [at : {"idle", "claiming", "following", "resending"}, who : People \cup {0}, link : Links \cup {0}]

SignUpTypeOK ==
  /\ site \in {"none", "pending", "active"}
  /\ creator \in SUBSET People /\ Cardinality(creator) <= 1
  /\ links \in [Links -> {"none", "sent", "expired", "verified", "over"}]
  /\ joined \in [People -> Seq({Visitor, Administrator})]
  /\ visit \in [Requests -> Visits]

SignUpInit ==
  /\ site = "none"
  /\ creator = {}
  /\ links = [k \in Links |-> "none"]
  /\ joined = [p \in People |-> <<>>]
  /\ visit = [r \in Requests |-> NoVisit]

Visit(r, new) == visit' = [visit EXCEPT ![r] = new]
EndVisit(r) == Visit(r, NoVisit)
UnsentLinks == {k \in Links : links[k] = "none"}
NextLink == CHOOSE k \in UnsentLinks : \A l \in UnsentLinks : k <= l

\* getPendingSignUpVerification: the newest one that is not verified.
PendingVerification == {k \in Links : links[k] \in {"sent", "expired"}}

Founder == CHOOSE p \in creator : TRUE

\* registerUser: one row for an address.
RegisterAgain(p, as) == joined' = [joined EXCEPT ![p] = Append(@, as)]
Register(p, as) == joined[p] = <<>> /\ RegisterAgain(p, as)

-----------------------------------------------------------------------------
\* CreateTenant, once validate.Subdomain found the address free.
ClaimAddress(r, p) ==
  /\ visit[r].at = "idle"
  /\ site = "none"
  /\ Visit(r, [at |-> "claiming", who |-> p, link |-> 0])
  /\ UNCHANGED <<site, creator, links, joined>>

\* With a token of a provider: active, and with its administrator, at once.
CreateActiveTenant(r) ==
  /\ visit[r].at = "claiming"
  /\ site = "none"
  /\ site' = "active"
  /\ creator' = {visit[r].who}
  /\ Register(visit[r].who, Administrator)
  /\ EndVisit(r)
  /\ UNCHANGED links

CreatePendingTenant(r) ==
  /\ visit[r].at = "claiming"
  /\ site = "none"
  /\ site' = "pending"
  /\ creator' = {visit[r].who}
  /\ links' = [links EXCEPT ![NextLink] = "sent"]
  /\ EndVisit(r)
  /\ UNCHANGED joined

-----------------------------------------------------------------------------
\* VerifySignUpKey with validateKey.  A link works until it expires, and five
\* minutes on after it was verified.
FollowSignUpLink(r, k) ==
  /\ visit[r].at = "idle"
  /\ site = "pending"
  /\ links[k] \in {"sent", "verified"}
  /\ Visit(r, [at |-> "following", who |-> 0, link |-> k])
  /\ UNCHANGED <<site, creator, links, joined>>

\* "deny usage", and never ask for it again.
FollowExpiredLink(k) ==
  /\ site = "pending"
  /\ links[k] = "expired"
  /\ links' = [links EXCEPT ![k] = "over"]
  /\ UNCHANGED <<site, creator, joined, visit>>

ActivateRegardless(r) ==
  /\ visit[r].at = "following"
  /\ RegisterAgain(Founder, Administrator)
  /\ site' = "active"
  /\ links' = [links EXCEPT ![visit[r].link] = "verified"]
  /\ EndVisit(r)
  /\ UNCHANGED creator

\* ActivateTenant, RegisterUser and SetKeyAsVerified commit together.
ActivateTenant(r) ==
  /\ visit[r].at = "following"
  /\ Register(Founder, Administrator)
  /\ site' = "active"
  /\ links' = [links EXCEPT ![visit[r].link] = "verified"]
  /\ EndVisit(r)
  /\ UNCHANGED creator

\* ResendSignUpEmail
AskForSignUpLink(r) ==
  /\ visit[r].at = "idle"
  /\ site = "pending"
  /\ PendingVerification # {}
  /\ Visit(r, [at |-> "resending", who |-> 0, link |-> 0])
  /\ UNCHANGED <<site, creator, links, joined>>

ResendSignUpEmail(r) ==
  /\ visit[r].at = "resending"
  /\ UnsentLinks # {}
  /\ links' = [k \in Links |-> CASE k = NextLink -> "sent"
                                 [] links[k] = "sent" -> "expired"
                                 [] OTHER -> links[k]]
  /\ EndVisit(r)
  /\ UNCHANGED <<site, creator, joined>>

\* The address or the row was there already, or anything else failed.
VisitFails(r) ==
  /\ visit[r].at # "idle"
  /\ EndVisit(r)
  /\ UNCHANGED <<site, creator, links, joined>>

-----------------------------------------------------------------------------
\* OAuthToken comes before BlockPendingTenants in the routes: whoever signs
\* in through a provider becomes a visitor of a site that is pending, too.
JoinByProvider(p) ==
  /\ site # "none"
  /\ Register(p, Visitor)
  /\ UNCHANGED <<site, creator, links, visit>>

LinkRunsOut(k) ==
  /\ links[k] \in {"sent", "verified"}
  /\ links' = [links EXCEPT ![k] = IF @ = "sent" THEN "expired" ELSE "over"]
  /\ UNCHANGED <<site, creator, joined, visit>>

SignUpStep ==
  \/ \E r \in Requests : \/ CreateActiveTenant(r) \/ CreatePendingTenant(r) \/ ActivateTenant(r)
                         \/ AskForSignUpLink(r) \/ ResendSignUpEmail(r) \/ VisitFails(r)
                         \/ \E p \in People : ClaimAddress(r, p)
                         \/ \E k \in Links : FollowSignUpLink(r, k)
  \/ \E k \in Links : FollowExpiredLink(k) \/ LinkRunsOut(k)
  \/ \E p \in People : JoinByProvider(p)

SignUpSpec == SignUpInit /\ [][SignUpStep]_signUpVars

-----------------------------------------------------------------------------
\* However many mails were sent and whichever of their links are followed, at
\* once, again or late: the site has an administrator from the moment it is
\* active, the one who claimed it, once, and none before.
ActiveWithItsFounder ==
  /\ \A p \in creator : Cardinality({i \in 1..Len(joined[p]) : joined[p][i] = Administrator})
                          = IF site = "active" THEN 1 ELSE 0
  /\ \A p \in People \ creator : Administrator \notin {joined[p][i] : i \in 1..Len(joined[p])}
=============================================================================
