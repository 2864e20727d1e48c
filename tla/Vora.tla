-------------------------------- MODULE Vora --------------------------------
(***************************************************************************)
(* The ideation agent (handlers/ai.go, services/ai/ai.go): turns of a      *)
(* conversation that are relayed to a model, each of up to three calls     *)
(* with web searches between them, and the final turn that yields a brief  *)
(* with a token vouching for it.                                           *)
(*                                                                         *)
(* The provider's key is the site's: every call is charged to the site's   *)
(* hourly budget first, whichever of its users makes it.                   *)
(***************************************************************************)
EXTENDS RateLimit, Users

CONSTANTS
  Sites,          \* the tenants of the process, which share the limiters
  UserBudget,     \* calls per user and window (60)
  SiteBudget,     \* calls per site and window (300)
  MaxRounds,      \* maxSearchRounds
  LastMoment      \* bound: where the clock stops

ASSUME VoraAssumption ==
  /\ UserBudget \in Nat \ {0} /\ SiteBudget \in Nat \ {0}
  /\ MaxRounds \in Nat /\ LastMoment \in Nat

VARIABLES
  moment,     \* the clock
  provider,   \* tenants.ai_provider, "hosted" for claude and openai, "off" without
              \* ai_enabled, a key or an agent
  userHits,   \* aiRate
  siteHits,   \* aiSiteRate
  turn,       \* turn[r]: a request at work
  charged,    \* history, charged[s]: the calls charged to site s, in the window that ends now
  unpaid,     \* history: the sites that had a call answered that was not charged
  forgot      \* history: the limiter had to forget events that still counted

voraVars == <<moment, provider, userHits, siteHits, turn, charged, unpaid, forgot>>

NoTurn == [at |-> "idle", site |-> "none", round |-> 0, custom |-> FALSE, paid |-> FALSE]

VoraTypeOK ==
  /\ moment \in 0..LastMoment
  /\ provider \in {"off", "hosted", "custom"}
  /\ DOMAIN userHits \subseteq Sites \X People /\ DOMAIN siteHits \subseteq Sites
  /\ \A r \in Requests : /\ turn[r].at \in {"idle", "charged", "plain", "called", "search"}
                         /\ turn[r].round \in 0..MaxRounds
  /\ charged \in [Sites -> SUBSET ((0..LastMoment) \X Nat)]
  /\ unpaid \subseteq Sites
  /\ forgot \in BOOLEAN

VoraInit ==
  /\ moment = 0
  /\ provider = "hosted"
  /\ userHits = NoHits /\ siteHits = NoHits
  /\ turn = [r \in Requests |-> NoTurn]
  /\ charged = [s \in Sites |-> {}]
  /\ unpaid = {}
  /\ forgot = FALSE

GoOn(r, new) == turn' = [turn EXCEPT ![r] = new]

\* AISiteRateAllow records the call if it is within the budget.
SiteAllows(s) == Allowed(siteHits, s, SiteBudget, moment)
ChargeSite(s) ==
  /\ siteHits' = AfterAllow(siteHits, s, SiteBudget, moment)
  /\ charged' = IF SiteAllows(s) THEN [charged EXCEPT ![s] = Recorded(@, moment)] ELSE charged
  /\ forgot' = (forgot \/ Forgets(siteHits, moment))

-----------------------------------------------------------------------------
(* AIIdeate, AIFinalize                                                    *)

\* aiRateAllow first: the user's budget is charged even if the site's is used
\* up.  AIIdeate may go through all rounds, AIFinalize has one call.
StartTurn(r, s, p, kind) ==
  LET u == <<s, p>>
  IN /\ turn[r].at = "idle"
     /\ provider # "off"
     /\ userHits' = AfterHit(userHits, u, UserBudget, moment)
     /\ IF Within(userHits, u, UserBudget, moment)
          THEN /\ ChargeSite(s)
               /\ IF SiteAllows(s)
                    THEN GoOn(r, [NoTurn EXCEPT !.at = "charged", !.site = s, !.paid = TRUE,
                                                !.round = IF kind = "finalize" THEN MaxRounds ELSE 0,
                                                !.custom = provider = "custom"])
                    ELSE UNCHANGED turn
          ELSE UNCHANGED <<turn, siteHits, charged, forgot>>
     /\ UNCHANGED <<moment, provider, unpaid, userVars>>

\* chatCompletion with the settings the request came with.
Answered(r) ==
  /\ turn[r].at \in {"charged", "plain"}
  /\ GoOn(r, [turn[r] EXCEPT !.at = "called", !.paid = FALSE])
  /\ unpaid' = IF turn[r].paid THEN unpaid ELSE unpaid \cup {turn[r].site}
  /\ UNCHANGED <<moment, provider, userHits, siteHits, charged, forgot, userVars>>

\* openaiCall: a custom server that refuses the additional fields answered
\* nothing; it is asked once more without them, at no charge.
AskPlain(r) ==
  /\ turn[r].at = "charged"
  /\ turn[r].custom
  /\ GoOn(r, [turn[r] EXCEPT !.at = "plain"])
  /\ UNCHANGED <<moment, provider, userHits, siteHits, charged, unpaid, forgot, userVars>>

\* The reply asks for a search; with results or without, the model goes on.
Search(r) ==
  /\ turn[r].at = "called"
  /\ turn[r].round < MaxRounds
  /\ GoOn(r, [turn[r] EXCEPT !.at = "search", !.round = @ + 1])
  /\ UNCHANGED <<moment, provider, userHits, siteHits, charged, unpaid, forgot, userVars>>

NextRoundFree(r) ==
  /\ turn[r].at = "search"
  /\ GoOn(r, [turn[r] EXCEPT !.at = "charged"])
  /\ UNCHANGED <<moment, provider, userHits, siteHits, charged, unpaid, forgot, userVars>>

\* Every round after the first is another call, and errSiteBudget ends the turn.
NextRound(r) ==
  LET s == turn[r].site
  IN /\ turn[r].at = "search"
     /\ ChargeSite(s)
     /\ GoOn(r, IF SiteAllows(s)
                  THEN [turn[r] EXCEPT !.at = "charged", !.paid = TRUE]
                  ELSE NoTurn)
     /\ UNCHANGED <<moment, provider, userHits, unpaid, userVars>>

\* The reply is shown, the summary did not have the right form, or anything
\* failed: a call that was charged is not refunded.
EndTurn(r) ==
  /\ turn[r].at # "idle"
  /\ GoOn(r, NoTurn)
  /\ UNCHANGED <<moment, provider, userHits, siteHits, charged, unpaid, forgot, userVars>>

\* UpdateAISettings, UpsertAIAgentHandler
SetAISettings(admin, x) ==
  /\ AdminActs(admin)
  /\ provider' = x
  /\ UNCHANGED <<moment, userHits, siteHits, turn, charged, unpaid, forgot, userVars>>

TimePasses ==
  /\ moment < LastMoment
  /\ moment' = moment + 1
  /\ charged' = [s \in Sites |-> Since(charged[s], moment')]
  /\ UNCHANGED <<provider, userHits, siteHits, turn, unpaid, forgot, userVars>>

VoraNext ==
  \/ \E r \in Requests : \/ Answered(r) \/ AskPlain(r) \/ Search(r) \/ NextRound(r) \/ EndTurn(r)
                         \/ \E s \in Sites, p \in People, kind \in {"ideate", "finalize"} :
                              StartTurn(r, s, p, kind)
  \/ \E admin \in People, x \in {"off", "hosted", "custom"} : SetAISettings(admin, x)
  \/ TimePasses

VoraSpec ==
  /\ \E admins \in SUBSET People : UsersInit(admins)
  /\ VoraInit
  /\ [][VoraNext \/ (UsersStep /\ UNCHANGED voraVars)]_<<userVars, voraVars>>

-----------------------------------------------------------------------------
\* "caps Vora model calls per site per hour, however many accounts make
\* them": every answer, of whatever round of whatever turn, was charged
\* before, and no window, wherever it starts, holds more charges than the
\* budget, unless more sites were active in it than are kept track of.
CallsWithinBudget ==
  /\ unpaid = {}
  /\ forgot \/ \A s \in Sites : Cardinality(charged[s]) <= SiteBudget
=============================================================================
