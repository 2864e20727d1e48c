----------------------------- MODULE Scorecards -----------------------------
(***************************************************************************)
(* Scorecards (services/sqlstore/postgres/scorecard.go, handlers/          *)
(* scorecard*.go): a card answers the questions of a tenant, its fields,   *)
(* and may belong to an idea; a response may make one.  A card holds its   *)
(* answers by the keys of the fields, in one JSON value that the page      *)
(* saves as a whole.                                                       *)
(***************************************************************************)
EXTENDS Naturals, FiniteSets

CONSTANTS
  Scorers,    \* requests, and the pages that are open in browsers
  Topics,     \* the ideas; bound: cards that are about none are left out
  Keys,       \* bound: the fields there may be; each one is created once
  Seeded,     \* the fields a tenant has from the start
  NoCard, NoForm

ASSUME ScorecardsAssumption == Seeded \subseteq Keys /\ IsFiniteSet(Topics)

VARIABLES
  fields,     \* fields[k]: "none", "active", "inactive" or "gone"
  cards,      \* cards[c]: the fields the card on c has answers to
  forms,      \* forms[r]: what the request or page r has read
  trigger,    \* is_scorecard_enabled, with a status that makes cards
  late        \* history: answers to fields that were deleted, or being so

scorecardVars == <<fields, cards, forms, trigger, late>>

FieldStates == {"none", "active", "inactive", "gone"}

FormRows == [what : {"page", "card", "response"}, about : Topics, seen : SUBSET Keys]
              \cup [what : {"field"}, about : Keys, seen : {{}}]

ScorecardsTypeOK ==
  /\ fields \in [Keys -> FieldStates]
  /\ cards \in [Topics -> (SUBSET Keys) \cup {NoCard}]
  /\ forms \in [Scorers -> FormRows \cup {NoForm}]
  /\ trigger \in BOOLEAN
  /\ late \subseteq Topics \X Keys

\* seedTenantScorecardFields
ScorecardsInit ==
  /\ fields = [k \in Keys |-> IF k \in Seeded THEN "active" ELSE "none"]
  /\ cards = [c \in Topics |-> NoCard]
  /\ forms = [r \in Scorers |-> NoForm]
  /\ trigger = FALSE /\ late = {}

Read(r, what, about, seen) ==
  /\ forms[r] = NoForm
  /\ forms' = [forms EXCEPT ![r] = [what |-> what, about |-> about, seen |-> seen]]

Write(r, what) ==
  /\ forms[r] # NoForm /\ forms[r].what = what
  /\ forms' = [forms EXCEPT ![r] = NoForm]

\* The page is closed, or the request failed.
CloseForm(r) ==
  /\ forms[r] # NoForm
  /\ forms' = [forms EXCEPT ![r] = NoForm]
  /\ UNCHANGED <<fields, cards, trigger, late>>

-----------------------------------------------------------------------------
(* fields                                                                  *)

ActiveFields == {k \in Keys : fields[k] = "active"}
AllFields == {k \in Keys : fields[k] \in {"active", "inactive"}}

SetField(k, row) == fields' = [fields EXCEPT ![k] = row]

\* Also refused by the unique index, if two create it.
NewField(k) == fields[k] = "none"

CreateScorecardField(k) ==
  /\ NewField(k)
  /\ SetField(k, "active")
  /\ UNCHANGED <<cards, forms, trigger, late>>

\* Seeded ones as well.
UpdateScorecardField(k, active) ==
  /\ k \in AllFields
  /\ SetField(k, IF active THEN "active" ELSE "inactive")
  /\ UNCHANGED <<cards, forms, trigger, late>>

\* getScorecardFieldUsage, and what deleteScorecardField counts
Usage(k) == Cardinality({c \in Topics : cards[c] # NoCard /\ k \in cards[c]})

CountNothing(r, k) ==
  /\ k \in AllFields
  /\ Read(r, "field", k, {})
  /\ UNCHANGED <<fields, cards, trigger, late>>

\* Whether it is a seeded one is not looked at.
CountAnswers(r, k) ==
  /\ k \in AllFields
  /\ Usage(k) = 0
  /\ Read(r, "field", k, {})
  /\ UNCHANGED <<fields, cards, trigger, late>>

DeleteScorecardField(r) ==
  /\ Write(r, "field")
  /\ forms[r].about \in AllFields
  /\ SetField(forms[r].about, "gone")
  /\ UNCHANGED <<cards, trigger, late>>

SetTenantScorecardSettings(on) ==
  /\ trigger' = on
  /\ UNCHANGED <<fields, cards, forms, late>>

-----------------------------------------------------------------------------
(* cards                                                                   *)

HasCard(c) == cards[c] # NoCard
SaveCard(c, answers) == cards' = [cards EXCEPT ![c] = answers]

\* The card of an idea that has one is returned as it is.
AskForCard(r, c) ==
  /\ ~HasCard(c)
  /\ Read(r, "card", c, {})
  /\ UNCHANGED <<fields, cards, trigger, late>>

\* SetResponse to the status that makes cards, as the tenant was loaded.
AskForResponse(r, c) ==
  /\ trigger
  /\ Read(r, "response", c, {})
  /\ UNCHANGED <<fields, cards, trigger, late>>

\* A unique index refuses a second card of an idea.
CreateScorecard(r) ==
  LET c == forms[r].about IN
  /\ Write(r, "card")
  /\ ~HasCard(c)
  /\ SaveCard(c, {})
  /\ UNCHANGED <<fields, trigger, late>>

\* The response and, unless there is one, the card; when the card is refused
\* the response is undone with it, though the answer says otherwise.
RespondWithCard(r) ==
  LET c == forms[r].about IN
  /\ Write(r, "response")
  /\ IF HasCard(c) THEN UNCHANGED cards ELSE SaveCard(c, {})
  /\ UNCHANGED <<fields, trigger, late>>

\* The page shows the active fields, and the others that are answered.
ScorecardCardPage(r, c) ==
  /\ HasCard(c)
  /\ Read(r, "page", c, cards[c] \cup ActiveFields)
  /\ UNCHANGED <<fields, cards, trigger, late>>

\* updateScorecardValues: the card as it is on the page, over what others
\* have saved since.
UpdateScorecard(r, answers) ==
  LET c == forms[r].about
      doomed == {k \in answers : fields[k] = "gone" \/ \E q \in Scorers :
                   forms[q] # NoForm /\ forms[q].what = "field" /\ forms[q].about = k}
  IN
  /\ Write(r, "page")
  /\ answers \subseteq forms[r].seen
  /\ HasCard(c)
  /\ SaveCard(c, answers)
  /\ late' = late \cup {<<c, k>> : k \in doomed}
  /\ UNCHANGED <<fields, trigger>>

\* A page that shows it can no longer be saved: the next card of the idea is
\* another one.
DeleteScorecard(c) ==
  /\ HasCard(c)
  /\ SaveCard(c, NoCard)
  /\ late' = {p \in late : p[1] # c}
  /\ forms' = [r \in Scorers |-> IF forms[r] # NoForm /\ forms[r].what = "page" /\ forms[r].about = c
                                   THEN NoForm ELSE forms[r]]
  /\ UNCHANGED <<fields, trigger>>

ScorecardsNext ==
  \/ \E k \in Keys : CreateScorecardField(k) \/ \E active \in BOOLEAN : UpdateScorecardField(k, active)
  \/ \E on \in BOOLEAN : SetTenantScorecardSettings(on)
  \/ \E c \in Topics : DeleteScorecard(c)
  \/ \E r \in Scorers : \/ DeleteScorecardField(r) \/ CreateScorecard(r) \/ RespondWithCard(r) \/ CloseForm(r)
                        \/ \E k \in Keys : CountAnswers(r, k)
                        \/ \E c \in Topics : AskForCard(r, c) \/ AskForResponse(r, c) \/ ScorecardCardPage(r, c)
                        \/ \E answers \in SUBSET Keys : UpdateScorecard(r, answers)

ScorecardsSpec == ScorecardsInit /\ [][ScorecardsNext]_scorecardVars

-----------------------------------------------------------------------------
\* "A question can only be deleted while no card has ever answered it": no
\* answer loses its question, but for one that was saved after the deletion,
\* or the count before it, from a page that still had the question.
AnswersKeepTheirQuestion ==
  \A c \in Topics : cards[c] # NoCard => cards[c] \subseteq AllFields \cup {k \in Keys : <<c, k>> \in late}
=============================================================================
