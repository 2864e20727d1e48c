---------------------------- MODULE ContentProofs ----------------------------
(***************************************************************************)
(* Proofs about what a tenant's pages hold, and whom they tell: Webhooks,  *)
(* Scorecards, Catalogue, Files, Discussion and Mail.                      *)
(*                                                                         *)
(* Marking never deadlocks because of two facts together, neither of which *)
(* the other gives: a caller has marked only hooks that come before those  *)
(* it still has to mark, and the marks that callers wait for are of a      *)
(* finite set, so that one of them is the greatest.                        *)
(***************************************************************************)
EXTENDS Webhooks, Scorecards, Catalogue, Files, Discussion, Mail, FiniteSetTheorems, WellFoundedInduction, TLAPS

-----------------------------------------------------------------------------
(* Webhooks                                                                *)

\* A finite set of naturals has a greatest element: the one with the fewest
\* above it.
LEMMA GreatestElement ==
  ASSUME NEW S, IsFiniteSet(S), S \subseteq Nat, S # {}
  PROVE  \E m \in S : \A n \in S : n <= m
<1> DEFINE Above(m) == {n \in S : n > m}
           T == {Above(m) : m \in S}
<1>1. IsWellFoundedOn(StrictSubsetOrdering(S), SUBSET S)
  BY FS_StrictSubsetOrderingWellFounded, FS_FiniteSubsetsOfFinite
<1>2. T \subseteq SUBSET S /\ T # {}
  OBVIOUS
<1>3. PICK x \in T : \A y \in T : <<y, x>> \notin StrictSubsetOrdering(S)
  <2> HIDE DEF T
  <2> QED
    BY <1>1, <1>2, WFMin
<1>4. PICK m \in S : x = Above(m)
  BY <1>3
<1>5. ASSUME NEW n \in S, n > m PROVE FALSE
  <2>1. Above(n) \subseteq Above(m) /\ n \in Above(m) /\ n \notin Above(n)
    <3>1. \A k \in S : k \in Nat
      OBVIOUS
    <3>2. \A k \in S : k > n => k > m
      BY <1>5, <3>1
    <3>3. n \notin Above(n)
      BY <3>1
    <3> QED
      BY <1>5, <3>2, <3>3
  <2>2. <<Above(n), Above(m)>> \in StrictSubsetOrdering(S)
    BY <2>1 DEF StrictSubsetOrdering
  <2> QED
    BY <1>3, <1>4, <2>2
<1> QED
  BY <1>5

\* r marks in the order of the ids: what it has marked comes before what it
\* is to mark, and both before what it has not called yet.
InOrder(r) ==
  LET c == calls[r] IN
  /\ \A g \in c.marked : c.mark # Nothing => g < c.mark
  /\ \A g \in c.marked \cup {c.mark}, h \in c.todo : g # Nothing => g < h

CallRecords == [todo : SUBSET HookIds, mark : HookIds \cup {Nothing}, marked : SUBSET HookIds]

CallsInv ==
  /\ calls \in [Callers -> CallRecords \cup {NoCalls}]
  /\ \A r \in Callers : Calling(r) => InOrder(r)

LEMMA InitCalls == WebhooksInit => CallsInv
BY DEF WebhooksInit, CallsInv, Calling

\* A step of one caller, seen from its record.
LEMMA CallerStep ==
  ASSUME CallsInv, NEW r \in Callers, NEW c \in CallRecords \cup {NoCalls},
         calls' = [calls EXCEPT ![r] = c],
         c # NoCalls => /\ \A g \in c.marked : c.mark # Nothing => g < c.mark
                        /\ \A g \in c.marked \cup {c.mark}, h \in c.todo : g # Nothing => g < h
  PROVE  CallsInv'
<1>1. \A q \in Callers : calls'[q] = IF q = r THEN c ELSE calls[q]
  BY DEF CallsInv
<1>2. calls' \in [Callers -> CallRecords \cup {NoCalls}]
  BY DEF CallsInv
<1> QED
  BY <1>1, <1>2 DEF CallsInv, Calling, InOrder

LEMMA StepCalls == CallsInv /\ [WebhooksNext]_webhookVars => CallsInv'
<1> SUFFICES ASSUME CallsInv, [WebhooksNext]_webhookVars PROVE CallsInv'
  OBVIOUS
<1> USE WebhooksAssumption
<1>1. ASSUME UNCHANGED calls PROVE CallsInv'
  BY <1>1 DEF CallsInv, Calling, InOrder
<1>2. ASSUME NEW r \in Callers, NEW todo \in SUBSET HookIds, Begin(r, todo) PROVE CallsInv'
  <2> DEFINE c == [todo |-> todo, mark |-> Nothing, marked |-> {}]
  <2>1. c \in CallRecords /\ c.marked = {} /\ c.mark = Nothing
    BY DEF CallRecords
  <2>2. calls' = [calls EXCEPT ![r] = c]
    BY <1>2 DEF Begin
  <2> HIDE DEF c
  <2> QED
    BY <2>1, <2>2, CallerStep
<1>3. ASSUME NEW r \in Callers, NEW h \in HookIds, NEW mark \in {h, Nothing}, Called(r, h, mark) PROVE CallsInv'
  <2>1. calls[r] \in CallRecords /\ InOrder(r)
    BY <1>3 DEF Called, CallsInv, Calling
  <2> DEFINE c == [calls[r] EXCEPT !.todo = @ \ {h}, !.mark = mark]
  <2>2. /\ c \in CallRecords /\ c.todo = calls[r].todo \ {h}
        /\ c.mark = mark /\ c.marked = calls[r].marked
    BY <2>1 DEF CallRecords
  <2>3. calls' = [calls EXCEPT ![r] = c]
    BY <1>3 DEF Called, CallsInv
  <2>4. h \in calls[r].todo /\ \A g \in calls[r].todo : h <= g
    BY <1>3 DEF Called, NextHook
  <2>5. calls[r].todo \subseteq Nat
    BY <2>1 DEF CallRecords
  <2>6. \A g \in c.marked : g < h /\ \A k \in c.todo : g < k
    BY <2>1, <2>2, <2>4 DEF InOrder, CallRecords
  <2>7. \A k \in c.todo : h < k
    BY <2>2, <2>4, <2>5
  <2> HIDE DEF c
  <2> QED
    BY <2>2, <2>3, <2>6, <2>7, CallerStep
<1>4. ASSUME NEW r \in Callers, MarkWebhookAsFailed(r) PROVE CallsInv'
  <2>1. calls[r] \in CallRecords /\ InOrder(r)
    BY <1>4 DEF MarkWebhookAsFailed, CallsInv, Calling
  <2> DEFINE h == calls[r].mark
             c == [calls[r] EXCEPT !.mark = Nothing, !.marked = IF Exists(h) THEN @ \cup {h} ELSE @]
  <2>2. /\ c \in CallRecords /\ c.todo = calls[r].todo
        /\ c.mark = Nothing /\ c.marked \subseteq calls[r].marked \cup {h}
    BY <1>4, <2>1 DEF MarkWebhookAsFailed, CallRecords
  <2>3. calls' = [calls EXCEPT ![r] = c]
    BY <1>4 DEF MarkWebhookAsFailed, CallsInv
  <2>4. \A g \in c.marked, k \in c.todo : g # Nothing => g < k
    BY <2>1, <2>2 DEF InOrder
  <2> HIDE DEF c
  <2> QED
    BY <2>2, <2>3, <2>4, CallerStep
<1>5. ASSUME NEW r \in Callers, calls' = [calls EXCEPT ![r] = NoCalls] PROVE CallsInv'
  BY <1>5, CallerStep
<1>6. ASSUME NEW h \in HookIds, \/ \E status \in HookStatuses, compiles \in BOOLEAN :
                                      CreateWebhook(h, status, compiles) \/ UpdateWebhook(h, status, compiles)
                                \/ DeleteWebhook(h)
      PROVE  CallsInv'
  BY <1>1, <1>6 DEF CreateWebhook, UpdateWebhook, DeleteWebhook
<1>7. ASSUME NEW r \in Callers, TriggerWebhooks(r) PROVE CallsInv'
  BY <1>2, <1>7 DEF TriggerWebhooks, ListActiveWebhooks
<1>8. ASSUME NEW r \in Callers, CommitCalls(r) \/ RollbackCalls(r) PROVE CallsInv'
  BY <1>5, <1>8 DEF CommitCalls, RollbackCalls
<1>9. ASSUME NEW r \in Callers, NEW h \in HookIds, TestWebhook(r, h) PROVE CallsInv'
  BY <1>2, <1>9 DEF TestWebhook
<1>10. ASSUME NEW r \in Callers, NEW h \in HookIds, CallSucceeds(r, h) \/ CallFails(r, h) PROVE CallsInv'
  BY <1>3, <1>10 DEF CallSucceeds, CallFails
<1>11. ASSUME UNCHANGED webhookVars PROVE CallsInv'
  BY <1>1, <1>11 DEF webhookVars
<1> QED
  BY <1>4, <1>6, <1>7, <1>8, <1>9, <1>10, <1>11 DEF WebhooksNext

LEMMA InOrderNeverDeadlocks == CallsInv => MarkingNeverDeadlocks
<1> SUFFICES ASSUME CallsInv, NEW R \in (SUBSET Callers) \ {{}}
             PROVE  \E r \in R : \A q \in R : ~Waits(r, q)
  BY DEF MarkingNeverDeadlocks
<1> USE WebhooksAssumption
<1> DEFINE Marks == {calls[r].mark : r \in R}
<1>1. CASE \E r \in R : ~(Calling(r) /\ calls[r].mark # Nothing)
  BY <1>1 DEF Waits
<1>2. CASE \A r \in R : Calling(r) /\ calls[r].mark # Nothing
  <2>1. \A r \in R : calls[r] \in CallRecords /\ calls[r].mark \in HookIds
    BY <1>2 DEF CallsInv, Calling, CallRecords
  <2>2. Marks \subseteq HookIds /\ Marks # {}
    <3>1. R # {} /\ R \subseteq Callers
      OBVIOUS
    <3>2. PICK r : r \in R
      BY <3>1
    <3>3. calls[r].mark \in Marks
      BY <3>2
    <3> QED
      BY <2>1, <3>3
  <2>3. IsFiniteSet(Marks) /\ Marks \subseteq Nat
    BY <2>2, FS_Subset
  <2>4. PICK m \in Marks : \A n \in Marks : n <= m
    <3> HIDE DEF Marks
    <3> QED
      BY <2>2, <2>3, GreatestElement
  <2>5. PICK r \in R : calls[r].mark = m
    BY <2>4
  <2>6. ASSUME NEW q \in R, Waits(r, q) PROVE FALSE
    <3>1. m \in calls[q].marked
      BY <2>5, <2>6 DEF Waits
    <3>2. m < calls[q].mark
      BY <1>2, <3>1 DEF CallsInv, InOrder
    <3>3. calls[q].mark <= m
      BY <2>4
    <3>4. calls[q].mark \in Nat /\ m \in Nat
      BY <2>1, <2>3
    <3> QED
      BY <3>2, <3>3, <3>4
  <2> QED
    BY <2>6
<1> QED
  BY <1>1, <1>2

\* However tasks and tests interleave, and whatever administrators save
\* meanwhile, among callers that have found hooks failing there is always one
\* that does not wait for another's mark.
THEOREM MarkingNeverEverDeadlocks == WebhooksSpec => []MarkingNeverDeadlocks
<1>1. WebhooksSpec => []CallsInv
  BY InitCalls, StepCalls, PTL DEF WebhooksSpec
<1> QED
  BY <1>1, InOrderNeverDeadlocks, PTL

\* Two callers have not marked the same hook.
MarksAreApart ==
  \A r, q \in Callers : r # q /\ calls[r] # NoCalls /\ calls[q] # NoCalls => calls[r].marked \cap calls[q].marked = {}

HookRows == [status : HookStatuses \cup {"none", "gone"}, compiles : BOOLEAN]

LEMMA WebhookTypes == WebhooksTypeOK <=> (hooks \in [HookIds -> HookRows] /\ calls \in [Callers -> CallRecords \cup {NoCalls}]
                                           /\ MarksAreApart)
BY DEF WebhooksTypeOK, HookRows, CallRecords, MarksAreApart

LEMMA StepHooks ==
  ASSUME hooks \in [HookIds -> HookRows], [WebhooksNext]_webhookVars
  PROVE  hooks' \in [HookIds -> HookRows]
<1>1. ASSUME UNCHANGED hooks PROVE hooks' \in [HookIds -> HookRows]
  BY <1>1
<1>2. ASSUME NEW h \in HookIds, NEW status \in HookStatuses \cup {"gone"}, NEW compiles \in BOOLEAN,
             Save(h, status, compiles)
      PROVE  hooks' \in [HookIds -> HookRows]
  <2>1. [status |-> status, compiles |-> compiles] \in HookRows
    BY DEF HookRows
  <2> QED
    BY <1>2, <2>1 DEF Save
<1>3. ASSUME NEW r \in Callers, CommitCalls(r) PROVE hooks' \in [HookIds -> HookRows]
  <2>1. \A h \in HookIds : [hooks[h] EXCEPT !.status = "failed"] \in HookRows
    BY DEF HookRows, HookStatuses
  <2> QED
    BY <1>3, <2>1 DEF CommitCalls
<1>4. ASSUME NEW r \in Callers, NEW h \in HookIds,
             \/ TriggerWebhooks(r) \/ MarkWebhookAsFailed(r) \/ RollbackCalls(r)
             \/ TestWebhook(r, h) \/ CallSucceeds(r, h) \/ CallFails(r, h)
      PROVE  UNCHANGED hooks
  BY <1>4 DEF TriggerWebhooks, MarkWebhookAsFailed, RollbackCalls, TestWebhook, CallSucceeds, CallFails, Begin, Called
<1>5. ASSUME NEW h \in HookIds,
             \/ \E status \in HookStatuses, compiles \in BOOLEAN :
                  CreateWebhook(h, status, compiles) \/ UpdateWebhook(h, status, compiles)
             \/ DeleteWebhook(h)
      PROVE  \E status \in HookStatuses \cup {"gone"}, compiles \in BOOLEAN : Save(h, status, compiles)
  BY <1>5 DEF CreateWebhook, UpdateWebhook, DeleteWebhook, HookStatuses
<1>6. ASSUME NEW r \in Callers, TriggerWebhooks(r) \/ MarkWebhookAsFailed(r) \/ RollbackCalls(r) PROVE UNCHANGED hooks
  BY <1>6 DEF TriggerWebhooks, MarkWebhookAsFailed, RollbackCalls, Begin
<1> QED
  BY <1>1, <1>2, <1>3, <1>4, <1>5, <1>6 DEF WebhooksNext, webhookVars

\* A mark waits until the hook is free of the others' marks.
LEMMA StepMarks ==
  ASSUME CallsInv, MarksAreApart, [WebhooksNext]_webhookVars
  PROVE  MarksAreApart'
<1>1. ASSUME NEW r \in Callers, NEW c, calls' = [calls EXCEPT ![r] = c],
             c = NoCalls \/ c.marked = {} \/ (Calling(r) /\ c.marked \subseteq calls[r].marked)
      PROVE  MarksAreApart'
  <2>1. \A q \in Callers : calls'[q] = IF q = r THEN c ELSE calls[q]
    BY <1>1 DEF CallsInv
  <2> QED
    BY <1>1, <2>1 DEF MarksAreApart, Calling
<1>2. ASSUME NEW r \in Callers, MarkWebhookAsFailed(r) PROVE MarksAreApart'
  <2> DEFINE c == [calls[r] EXCEPT !.mark = Nothing,
                                   !.marked = IF Exists(calls[r].mark) THEN @ \cup {calls[r].mark} ELSE @]
  <2>1. Calling(r) /\ Free(calls[r].mark, r) /\ calls' = [calls EXCEPT ![r] = c]
    BY <1>2 DEF MarkWebhookAsFailed, CallsInv
  <2>2. calls[r] \in CallRecords
    BY <2>1 DEF CallsInv, Calling
  <2>3. c.marked \subseteq calls[r].marked \cup {calls[r].mark}
    BY <2>2 DEF CallRecords
  <2> HIDE DEF c
  <2>4. \A q \in Callers : calls'[q] = IF q = r THEN c ELSE calls[q]
    BY <2>1 DEF CallsInv
  <2>5. \A q \in Callers \ {r} : Calling(q) => c.marked \cap calls[q].marked = {}
    BY <2>1, <2>3 DEF MarksAreApart, Calling, Free
  <2> QED
    BY <2>4, <2>5 DEF MarksAreApart, Calling
<1>3. ASSUME NEW r \in Callers, CommitCalls(r) \/ RollbackCalls(r) PROVE MarksAreApart'
  BY <1>1, <1>3 DEF CommitCalls, RollbackCalls
<1>4. ASSUME NEW r \in Callers, NEW todo, Begin(r, todo) PROVE MarksAreApart'
  BY <1>1, <1>4 DEF Begin
<1>5. ASSUME NEW r \in Callers, NEW h, NEW mark, Called(r, h, mark) PROVE MarksAreApart'
  <2>1. calls[r] \in CallRecords /\ Calling(r)
    BY <1>5 DEF Called, CallsInv, Calling
  <2> DEFINE c == [calls[r] EXCEPT !.todo = @ \ {h}, !.mark = mark]
  <2>2. c.marked = calls[r].marked
    BY <2>1 DEF CallRecords
  <2>3. calls' = [calls EXCEPT ![r] = c]
    BY <1>5 DEF Called, CallsInv
  <2> HIDE DEF c
  <2> QED
    BY <1>1, <2>1, <2>2, <2>3
<1>6. ASSUME UNCHANGED calls PROVE MarksAreApart'
  BY <1>6 DEF MarksAreApart
<1>7. ASSUME NEW h \in HookIds, \/ \E status \in HookStatuses, compiles \in BOOLEAN :
                                      CreateWebhook(h, status, compiles) \/ UpdateWebhook(h, status, compiles)
                                \/ DeleteWebhook(h)
      PROVE  UNCHANGED calls
  BY <1>7 DEF CreateWebhook, UpdateWebhook, DeleteWebhook
<1>8. ASSUME NEW r \in Callers, NEW h \in HookIds, TestWebhook(r, h) \/ CallSucceeds(r, h) \/ CallFails(r, h)
      PROVE  MarksAreApart'
  BY <1>4, <1>5, <1>8 DEF TestWebhook, CallSucceeds, CallFails
<1>9. ASSUME NEW r \in Callers, TriggerWebhooks(r) PROVE MarksAreApart'
  BY <1>4, <1>9 DEF TriggerWebhooks
<1> QED
  BY <1>2, <1>3, <1>6, <1>7, <1>8, <1>9 DEF WebhooksNext, webhookVars

\* Whatever interleaves: no hook is marked by two transactions at once, a caller
\* runs only hooks that were there, and a row has a status there is.
THEOREM WebhooksKeepTheirTypes == WebhooksSpec => []WebhooksTypeOK
<1>1. WebhooksInit => WebhooksTypeOK
  BY DEF WebhooksInit, WebhooksTypeOK, HookStatuses
<1>2. CallsInv /\ WebhooksTypeOK /\ [WebhooksNext]_webhookVars => WebhooksTypeOK'
  <2> SUFFICES ASSUME CallsInv, WebhooksTypeOK, [WebhooksNext]_webhookVars PROVE WebhooksTypeOK'
    OBVIOUS
  <2>1. hooks' \in [HookIds -> HookRows] /\ MarksAreApart'
    BY StepHooks, StepMarks, WebhookTypes
  <2>2. calls' \in [Callers -> CallRecords \cup {NoCalls}]
    BY StepCalls DEF CallsInv
  <2> QED
    BY <2>1, <2>2, WebhookTypes DEF WebhooksTypeOK, HookRows, CallRecords, MarksAreApart
<1> QED
  BY <1>1, <1>2, InitCalls, StepCalls, PTL DEF WebhooksSpec

-----------------------------------------------------------------------------
(* Scorecards                                                              *)

\* Nothing is answered, or shown on a page, that was never a question.
AnswersWereAsked ==
  /\ \A c \in Topics : HasCard(c) => \A k \in cards[c] : fields[k] # "none"
  /\ \A r \in Scorers : forms[r] # NoForm => \A k \in forms[r].seen : fields[k] # "none"

\* k is about to be deleted: its answers have been counted.
Deleting(r, k) == forms[r] # NoForm /\ forms[r].what = "field" /\ forms[r].about = k

\* What has been answered since its answers were counted is known as late.
CountedOut ==
  \A r \in Scorers, k \in Keys : Deleting(r, k) =>
    \A c \in Topics : HasCard(c) /\ k \in cards[c] => <<c, k>> \in late

CardsInv == ScorecardsTypeOK /\ AnswersWereAsked /\ CountedOut /\ AnswersKeepTheirQuestion

LEMMA InitCards == ScorecardsInit => CardsInv
BY ScorecardsAssumption
   DEF ScorecardsInit, CardsInv, ScorecardsTypeOK, FieldStates, AnswersWereAsked, HasCard, CountedOut, Deleting,
       AnswersKeepTheirQuestion

\* Of a form, what the proofs need to know of it.
LEMMA FormFacts ==
  ASSUME ScorecardsTypeOK, NEW r \in Scorers, forms[r] # NoForm
  PROVE  /\ forms[r].seen \in SUBSET Keys
         /\ forms[r].what = "field" => forms[r].about \in Keys
         /\ forms[r].what # "field" => forms[r].about \in Topics
BY DEF ScorecardsTypeOK, FormRows

\* A step that opens, or closes, one form and changes no question and no card.
LEMMA FillingStep ==
  ASSUME CardsInv, NEW r \in Scorers, NEW f \in FormRows \cup {NoForm},
         forms' = [forms EXCEPT ![r] = f],
         UNCHANGED <<fields, cards, trigger, late>>,
         f # NoForm => /\ \A k \in f.seen : fields[k] # "none"
                       /\ f.what = "field" => \A c \in Topics : HasCard(c) => f.about \notin cards[c]
  PROVE  CardsInv'
<1>1. \A q \in Scorers : forms'[q] = IF q = r THEN f ELSE forms[q]
  BY DEF CardsInv, ScorecardsTypeOK
<1>2. ScorecardsTypeOK'
  BY DEF CardsInv, ScorecardsTypeOK
<1>3. AnswersWereAsked'
  BY <1>1 DEF CardsInv, AnswersWereAsked, HasCard
<1>4. CountedOut'
  BY <1>1 DEF CardsInv, CountedOut, Deleting, HasCard
<1>5. AnswersKeepTheirQuestion'
  BY DEF CardsInv, AnswersKeepTheirQuestion, AllFields
<1> QED
  BY <1>2, <1>3, <1>4, <1>5 DEF CardsInv

\* A step that changes a question that is not, or not the last time, seen.
LEMMA FieldStep ==
  ASSUME CardsInv, NEW k \in Keys, NEW row \in {"active", "inactive"},
         SetField(k, row), UNCHANGED <<cards, forms, trigger, late>>
  PROVE  CardsInv'
<1>1. \A g \in Keys : fields'[g] = IF g = k THEN row ELSE fields[g]
  BY DEF SetField, CardsInv, ScorecardsTypeOK
<1>2. ScorecardsTypeOK'
  BY DEF CardsInv, ScorecardsTypeOK, SetField, FieldStates
<1>3. AnswersWereAsked'
  <2>1. \A c \in Topics : HasCard(c) => cards[c] \subseteq Keys
    BY DEF CardsInv, ScorecardsTypeOK, HasCard
  <2>2. \A r \in Scorers : forms[r] # NoForm => forms[r].seen \subseteq Keys
    BY FormFacts DEF CardsInv
  <2> QED
    BY <1>1, <2>1, <2>2 DEF CardsInv, AnswersWereAsked, HasCard
<1>4. CountedOut'
  BY DEF CardsInv, CountedOut, Deleting, HasCard
<1>5. AllFields \subseteq AllFields'
  BY <1>1 DEF AllFields
<1>6. AnswersKeepTheirQuestion'
  BY <1>5 DEF CardsInv, AnswersKeepTheirQuestion
<1> QED
  BY <1>2, <1>3, <1>4, <1>6 DEF CardsInv

\* A step that saves one card, from a form that it closes.
LEMMA CardStep ==
  ASSUME CardsInv, NEW r \in Scorers, NEW c \in Topics, NEW answers \in SUBSET Keys,
         cards' = [cards EXCEPT ![c] = answers], forms' = [forms EXCEPT ![r] = NoForm],
         UNCHANGED <<fields, trigger>>, late \subseteq late', late' \subseteq Topics \X Keys,
         \A k \in answers : /\ fields[k] # "none"
                            /\ k \in AllFields \/ <<c, k>> \in late'
                            /\ \A q \in Scorers : Deleting(q, k) => <<c, k>> \in late'
  PROVE  CardsInv'
<1>1. \A q \in Scorers : forms'[q] = IF q = r THEN NoForm ELSE forms[q]
  BY DEF CardsInv, ScorecardsTypeOK
<1>2. \A d \in Topics : cards'[d] = IF d = c THEN answers ELSE cards[d]
  BY DEF CardsInv, ScorecardsTypeOK
<1>3. ScorecardsTypeOK'
  BY DEF CardsInv, ScorecardsTypeOK
<1>4. AnswersWereAsked'
  BY <1>1, <1>2 DEF CardsInv, AnswersWereAsked, HasCard
<1>5. CountedOut'
  BY <1>1, <1>2 DEF CardsInv, CountedOut, Deleting, HasCard
<1>6. AllFields' = AllFields
  BY DEF AllFields
<1>7. AnswersKeepTheirQuestion'
  BY <1>2, <1>6 DEF CardsInv, AnswersKeepTheirQuestion
<1> QED
  BY <1>3, <1>4, <1>5, <1>7 DEF CardsInv

LEMMA StepCards == CardsInv /\ [ScorecardsNext]_scorecardVars => CardsInv'
<1> SUFFICES ASSUME CardsInv, [ScorecardsNext]_scorecardVars PROVE CardsInv'
  OBVIOUS
<1>t. ScorecardsTypeOK
  BY DEF CardsInv
<1>1. ASSUME NEW k \in Keys, \/ CreateScorecardField(k)
                             \/ \E active \in BOOLEAN : UpdateScorecardField(k, active)
      PROVE  CardsInv'
  BY <1>1, FieldStep DEF CreateScorecardField, UpdateScorecardField
<1>2. ASSUME NEW on \in BOOLEAN, SetTenantScorecardSettings(on) PROVE CardsInv'
  BY <1>2 DEF SetTenantScorecardSettings, CardsInv, ScorecardsTypeOK, AnswersWereAsked, HasCard, CountedOut,
              Deleting, AnswersKeepTheirQuestion, AllFields
<1>3. ASSUME NEW c \in Topics, DeleteScorecard(c) PROVE CardsInv'
  <2>1. \A d \in Topics : cards'[d] = IF d = c THEN NoCard ELSE cards[d]
    BY <1>t, <1>3 DEF DeleteScorecard, SaveCard, ScorecardsTypeOK
  <2>2. \A d \in Topics \ {c}, k \in Keys : <<d, k>> \in late => <<d, k>> \in late'
    BY <1>3 DEF DeleteScorecard
  <2>3. \A r \in Scorers : forms'[r] \in {forms[r], NoForm}
    BY <1>3 DEF DeleteScorecard
  <2>4. ScorecardsTypeOK'
    <3>1. forms' \in [Scorers -> FormRows \cup {NoForm}]
      BY <1>t, <1>3 DEF DeleteScorecard, ScorecardsTypeOK
    <3>2. cards' \in [Topics -> (SUBSET Keys) \cup {NoCard}]
      BY <1>t, <1>3 DEF DeleteScorecard, SaveCard, ScorecardsTypeOK
    <3>3. late' \subseteq Topics \X Keys
      BY <1>t, <1>3 DEF DeleteScorecard, ScorecardsTypeOK
    <3> QED
      BY <1>t, <1>3, <3>1, <3>2, <3>3 DEF DeleteScorecard, ScorecardsTypeOK
  <2>5. AnswersWereAsked'
    BY <1>3, <2>1, <2>3 DEF DeleteScorecard, CardsInv, AnswersWereAsked, HasCard
  <2>6. CountedOut'
    BY <2>1, <2>2, <2>3 DEF CardsInv, CountedOut, Deleting, HasCard
  <2>7. AllFields' = AllFields
    BY <1>3 DEF DeleteScorecard, AllFields
  <2>8. AnswersKeepTheirQuestion'
    BY <2>1, <2>2, <2>7 DEF CardsInv, AnswersKeepTheirQuestion
  <2> QED
    BY <2>4, <2>5, <2>6, <2>8 DEF CardsInv
<1>4. ASSUME NEW r \in Scorers, DeleteScorecardField(r) PROVE CardsInv'
  <2> DEFINE k == forms[r].about
  <2>1. k \in Keys /\ Deleting(r, k)
    BY <1>t, <1>4, FormFacts DEF DeleteScorecardField, Write, Deleting
  <2>2. \A g \in Keys : fields'[g] = IF g = k THEN "gone" ELSE fields[g]
    BY <1>t, <1>4 DEF DeleteScorecardField, SetField, ScorecardsTypeOK
  <2>3. \A q \in Scorers : forms'[q] = IF q = r THEN NoForm ELSE forms[q]
    BY <1>t, <1>4 DEF DeleteScorecardField, Write, ScorecardsTypeOK
  <2>4. ScorecardsTypeOK'
    BY <1>t, <1>4, <2>1 DEF DeleteScorecardField, Write, SetField, ScorecardsTypeOK, FieldStates
  <2>5. \A c \in Topics : HasCard(c) => cards[c] \subseteq Keys
    BY <1>t DEF ScorecardsTypeOK, HasCard
  <2>6. AnswersWereAsked'
    <3>1. \A q \in Scorers : forms[q] # NoForm => forms[q].seen \subseteq Keys
      BY <1>t, FormFacts
    <3> QED
      BY <1>4, <2>2, <2>3, <2>5, <3>1 DEF DeleteScorecardField, CardsInv, AnswersWereAsked, HasCard
  <2>7. CountedOut'
    BY <1>4, <2>3 DEF DeleteScorecardField, CardsInv, CountedOut, Deleting, HasCard
  <2>8. \A c \in Topics : HasCard(c) /\ k \in cards[c] => <<c, k>> \in late
    BY <2>1 DEF CardsInv, CountedOut
  <2>9. \A g \in AllFields : g = k \/ g \in AllFields'
    BY <2>2 DEF AllFields
  <2>10. AnswersKeepTheirQuestion'
    BY <1>4, <2>5, <2>8, <2>9 DEF DeleteScorecardField, CardsInv, AnswersKeepTheirQuestion, HasCard
  <2> QED
    BY <2>4, <2>6, <2>7, <2>10 DEF CardsInv
<1>5. ASSUME NEW r \in Scorers, CreateScorecard(r) PROVE CardsInv'
  <2>1. forms[r].about \in Topics
    BY <1>t, <1>5, FormFacts DEF CreateScorecard, Write
  <2>2. late \subseteq Topics \X Keys
    BY <1>t DEF ScorecardsTypeOK
  <2>3. /\ cards' = [cards EXCEPT ![forms[r].about] = {}] /\ forms' = [forms EXCEPT ![r] = NoForm]
        /\ UNCHANGED <<fields, trigger, late>>
    BY <1>5 DEF CreateScorecard, Write, SaveCard
  <2>4. {} \in SUBSET Keys /\ late \subseteq late' /\ late' \subseteq Topics \X Keys
    BY <2>2, <2>3
  <2> QED
    BY <2>1, <2>3, <2>4, CardStep
<1>6. ASSUME NEW r \in Scorers, RespondWithCard(r) PROVE CardsInv'
  <2>1. forms[r].about \in Topics
    BY <1>t, <1>6, FormFacts DEF RespondWithCard, Write
  <2>2. late \subseteq Topics \X Keys
    BY <1>t DEF ScorecardsTypeOK
  <2>3. CASE HasCard(forms[r].about)
    BY <1>6, <2>3, FillingStep DEF RespondWithCard, Write
  <2>4. CASE ~HasCard(forms[r].about)
    BY <1>6, <2>1, <2>2, <2>4, CardStep DEF RespondWithCard, Write, SaveCard
  <2> QED
    BY <2>3, <2>4
<1>7. ASSUME NEW r \in Scorers, CloseForm(r) PROVE CardsInv'
  BY <1>7, FillingStep DEF CloseForm
<1>8. ASSUME NEW r \in Scorers, NEW k \in Keys, CountAnswers(r, k) PROVE CardsInv'
  <2> DEFINE f == [what |-> "field", about |-> k, seen |-> {}]
             Answered == {c \in Topics : cards[c] # NoCard /\ k \in cards[c]}
  <2>1. IsFiniteSet(Answered) /\ Cardinality(Answered) = 0
    BY <1>8, ScorecardsAssumption, FS_Subset DEF CountAnswers, Usage
  <2>2. \A c \in Topics : HasCard(c) => k \notin cards[c]
    BY <2>1, FS_EmptySet DEF HasCard
  <2>3. f \in FormRows /\ f.seen = {} /\ f.about = k
    BY DEF FormRows
  <2>4. forms' = [forms EXCEPT ![r] = f] /\ UNCHANGED <<fields, cards, trigger, late>>
    BY <1>8 DEF CountAnswers, Read
  <2> HIDE DEF f
  <2> QED
    BY <2>2, <2>3, <2>4, FillingStep
<1>9. ASSUME NEW r \in Scorers, NEW c \in Topics, NEW what \in {"page", "card", "response"}, NEW seen \in SUBSET Keys,
             Read(r, what, c, seen), UNCHANGED <<fields, cards, trigger, late>>,
             \A k \in seen : fields[k] # "none"
      PROVE  CardsInv'
  <2> DEFINE f == [what |-> what, about |-> c, seen |-> seen]
  <2>1. f \in FormRows /\ f.seen = seen /\ f.what # "field"
    BY DEF FormRows
  <2>2. forms' = [forms EXCEPT ![r] = f]
    BY <1>9 DEF Read
  <2> HIDE DEF f
  <2> QED
    BY <1>9, <2>1, <2>2, FillingStep
<1>10. ASSUME NEW r \in Scorers, NEW c \in Topics, AskForCard(r, c) \/ AskForResponse(r, c) PROVE CardsInv'
  BY <1>9, <1>10 DEF AskForCard, AskForResponse
<1>11. ASSUME NEW r \in Scorers, NEW c \in Topics, ScorecardCardPage(r, c) PROVE CardsInv'
  <2>1. cards[c] \cup ActiveFields \in SUBSET Keys
    BY <1>t, <1>11 DEF ScorecardCardPage, HasCard, ActiveFields, ScorecardsTypeOK
  <2>2. \A k \in cards[c] \cup ActiveFields : fields[k] # "none"
    BY <1>11 DEF ScorecardCardPage, ActiveFields, CardsInv, AnswersWereAsked
  <2> QED
    BY <1>9, <1>11, <2>1, <2>2 DEF ScorecardCardPage
<1>12. ASSUME NEW r \in Scorers, NEW answers \in SUBSET Keys, UpdateScorecard(r, answers) PROVE CardsInv'
  <2> DEFINE c == forms[r].about
             doomed == {k \in answers : fields[k] = "gone" \/ \E q \in Scorers :
                          forms[q] # NoForm /\ forms[q].what = "field" /\ forms[q].about = k}
  <2>1. c \in Topics
    BY <1>t, <1>12, FormFacts DEF UpdateScorecard, Write
  <2>2. \A k \in answers : fields[k] # "none"
    BY <1>12 DEF UpdateScorecard, Write, CardsInv, AnswersWereAsked
  <2>3. late' = late \cup {<<c, k>> : k \in doomed}
    BY <1>12 DEF UpdateScorecard
  <2>4. \A k \in answers : /\ k \in AllFields \/ <<c, k>> \in late'
                           /\ \A q \in Scorers : Deleting(q, k) => <<c, k>> \in late'
    BY <1>t, <2>2, <2>3 DEF AllFields, Deleting, ScorecardsTypeOK, FieldStates
  <2>5. late' \subseteq Topics \X Keys
    BY <1>t, <2>1, <2>3 DEF ScorecardsTypeOK
  <2> HIDE DEF doomed
  <2> QED
    BY <1>12, <2>1, <2>2, <2>3, <2>4, <2>5, CardStep DEF UpdateScorecard, Write, SaveCard
<1>13. ASSUME UNCHANGED scorecardVars PROVE CardsInv'
  BY <1>13 DEF scorecardVars, CardsInv, ScorecardsTypeOK, AnswersWereAsked, HasCard, CountedOut,
               Deleting, AnswersKeepTheirQuestion, AllFields
<1> QED
  BY <1>1, <1>2, <1>3, <1>4, <1>5, <1>6, <1>7, <1>8, <1>10, <1>11, <1>12, <1>13 DEF ScorecardsNext

\* However pages, responses and administrators interleave, a question is only
\* deleted from under answers that were saved after its answers were counted.
THEOREM AnswersAlwaysKeepTheirQuestion == ScorecardsSpec => []AnswersKeepTheirQuestion
<1>1. ScorecardsSpec => []CardsInv
  BY InitCards, StepCards, PTL DEF ScorecardsSpec
<1> QED
  BY <1>1, PTL DEF CardsInv

-----------------------------------------------------------------------------
(* Catalogue                                                               *)

Filed(i, s) == filed[i] # NoIdea /\ filed[i].status = s
StatusKept(s) == GetStatus(s) \/ s \in overtaken

\* What a request has read is still so, or the history knows that it is not:
\* the status it responds with exists, and the one it deletes is on no idea.
\* A built-in status may be on any, and is never deleted.
AskedInv ==
  \A r \in Askers : asked[r] # NoAsk =>
    /\ asked[r].what = "respond" => /\ asked[r].to \in Slugs /\ StatusKept(asked[r].to)
                                   /\ asked[r].on \in Ideas /\ filed[asked[r].on] # NoIdea
    /\ asked[r].what = "delete status" =>
         /\ asked[r].on \in Slugs
         /\ asked[r].on \notin BuiltIn => \A i \in Ideas : Filed(i, asked[r].on) => asked[r].on \in overtaken
    /\ asked[r].what = "file" => asked[r].on \in Ideas /\ filed[asked[r].on] # NoIdea

FiledInv ==
  /\ statuses \in [Slugs -> Rows] /\ DOMAIN asked = Askers
  /\ filed \in [Ideas -> IdeaRows \cup {NoIdea}]
  /\ \A s \in BuiltIn \cap Slugs : GetStatus(s)
  /\ \A i \in Ideas, s \in Slugs : Filed(i, s) => StatusKept(s)
  /\ AskedInv

LEMMA InitFiled == CatalogueInit => FiledInv
BY DEF CatalogueInit, FiledInv, AskedInv, Filed, StatusKept, Rows, GetStatus, BuiltIn

\* A step that opens no request, takes no status away, and gives no idea
\* another one than "deleted".
LEMMA QuietFiling ==
  ASSUME FiledInv, statuses' \in [Slugs -> Rows], DOMAIN asked' = Askers,
         filed' \in [Ideas -> IdeaRows \cup {NoIdea}],
         overtaken' = overtaken,
         \A s \in Slugs : GetStatus(s) => GetStatus(s)',
         \A r \in Askers : asked'[r] = asked[r] \/ asked'[r] = NoAsk,
         \A i \in Ideas : filed[i] # NoIdea => filed'[i] # NoIdea,
         \A i \in Ideas : filed'[i] # NoIdea =>
           filed'[i].status = "deleted" \/ (filed[i] # NoIdea /\ filed'[i].status = filed[i].status)
  PROVE  FiledInv'
<1> USE CatalogueAssumption
<1>1. \A i \in Ideas, s \in Slugs : Filed(i, s)' => Filed(i, s)
  BY DEF Filed
<1>2. \A s \in Slugs : StatusKept(s) => StatusKept(s)'
  BY DEF StatusKept
<1>3. AskedInv'
  BY <1>1, <1>2 DEF FiledInv, AskedInv
<1> QED
  BY <1>1, <1>2, <1>3 DEF FiledInv

\* A step that opens one request.
LEMMA AskStep ==
  ASSUME FiledInv, NEW r \in Askers, NEW what, NEW on, NEW to, Ask(r, what, on, to),
         UNCHANGED <<statuses, filed, overtaken>>,
         what = "respond" => to \in Slugs /\ StatusKept(to) /\ on \in Ideas /\ filed[on] # NoIdea,
         what = "delete status" => on \in Slugs /\ \A i \in Ideas : ~Filed(i, on),
         what = "file" => on \in Ideas /\ filed[on] # NoIdea
  PROVE  FiledInv'
<1> DEFINE f == [what |-> what, on |-> on, to |-> to]
<1>1. /\ DOMAIN asked' = Askers /\ f.what = what /\ f.on = on /\ f.to = to
      /\ \A q \in Askers : asked'[q] = IF q = r THEN f ELSE asked[q]
  BY DEF Ask, FiledInv
<1>2. /\ \A s : GetStatus(s)' = GetStatus(s) /\ StatusKept(s)' = StatusKept(s)
      /\ \A i, s : Filed(i, s)' = Filed(i, s)
  BY DEF GetStatus, StatusKept, Filed
<1> HIDE DEF f
<1>3. AskedInv'
  BY <1>1, <1>2 DEF FiledInv, AskedInv
<1> QED
  BY <1>1, <1>2, <1>3 DEF FiledInv

LEMMA StepFiled == FiledInv /\ [CatalogueNext]_catalogueVars => FiledInv'
<1> SUFFICES ASSUME FiledInv, [CatalogueNext]_catalogueVars PROVE FiledInv'
  OBVIOUS
<1> USE CatalogueAssumption
<1>t. /\ statuses \in [Slugs -> Rows] /\ DOMAIN asked = Askers
      /\ filed \in [Ideas -> IdeaRows \cup {NoIdea}]
  BY DEF FiledInv
\* What no idea's status and no status is touched by.
<1>q. ASSUME DOMAIN asked' = Askers, \A r \in Askers : asked'[r] = asked[r] \/ asked'[r] = NoAsk,
             UNCHANGED <<statuses, filed, overtaken>>
      PROVE  FiledInv'
  BY <1>t, <1>q, QuietFiling DEF GetStatus
<1>1. ASSUME NEW s \in Slugs, \/ CreateStatus(s)
                              \/ \E active \in BOOLEAN : UpdateStatus(s, active)
      PROVE  FiledInv'
  <2>1. PICK row \in {"active", "inactive"} : statuses' = [statuses EXCEPT ![s] = row]
    BY <1>1 DEF CreateStatus, UpdateStatus, SetStatus, ActiveRow
  <2>2. UNCHANGED <<filed, asked, overtaken>>
    BY <1>1 DEF CreateStatus, UpdateStatus
  <2>3. \A g \in Slugs : GetStatus(g) => GetStatus(g)'
    BY <1>t, <2>1 DEF GetStatus
  <2>4. statuses' \in [Slugs -> Rows]
    BY <1>t, <2>1 DEF Rows
  <2> QED
    BY <1>t, <2>2, <2>3, <2>4, QuietFiling
<1>2. ASSUME NEW r \in Askers, DeleteStatus(r) PROVE FiledInv'
  <2>0. PICK s : s = asked[r].on
    OBVIOUS
  <2>1. /\ asked[r] # NoAsk /\ asked[r].what = "delete status" /\ s \notin BuiltIn
        /\ UNCHANGED filed /\ statuses' = [statuses EXCEPT ![s] = "gone"]
        /\ asked' = [asked EXCEPT ![r] = NoAsk]
    BY <1>2, <2>0 DEF DeleteStatus, Carry, SetStatus
  <2>2. s \in Slugs /\ \A i \in Ideas : Filed(i, s) => s \in overtaken
    BY <2>0, <2>1 DEF FiledInv, AskedInv
  <2>3. /\ overtaken \subseteq overtaken'
        /\ \A q \in Askers : asked[q] # NoAsk /\ asked[q].what = "respond" /\ asked[q].to = s => s \in overtaken'
    BY <1>2, <2>0 DEF DeleteStatus, Asking
  <2>4. \A g \in Slugs : statuses'[g] = IF g = s THEN "gone" ELSE statuses[g]
    BY <1>t, <2>1
  <2>5. /\ \A g \in Slugs \ {s} : (GetStatus(g) => GetStatus(g)') /\ (StatusKept(g) => StatusKept(g)')
        /\ s \in overtaken' => StatusKept(s)'
    BY <2>3, <2>4 DEF GetStatus, StatusKept
  <2>6. \A i, g : Filed(i, g)' = Filed(i, g)
    BY <2>1 DEF Filed
  <2>7. DOMAIN asked' = Askers /\ \A q \in Askers : asked'[q] = IF q = r THEN NoAsk ELSE asked[q]
    BY <1>t, <2>1
  <2>8. AskedInv'
    BY <2>1, <2>3, <2>5, <2>6, <2>7 DEF FiledInv, AskedInv
  <2>9. statuses' \in [Slugs -> Rows] /\ filed' \in [Ideas -> IdeaRows \cup {NoIdea}]
    BY <1>t, <2>1 DEF Rows
  <2>10. \A i \in Ideas, g \in Slugs : Filed(i, g)' => StatusKept(g)'
    BY <2>2, <2>3, <2>5, <2>6 DEF FiledInv
  <2>11. \A g \in BuiltIn \cap Slugs : GetStatus(g)'
    BY <2>1, <2>5 DEF FiledInv
  <2> QED
    BY <2>7, <2>8, <2>9, <2>10, <2>11 DEF FiledInv
<1>3. ASSUME NEW r \in Askers, Respond(r) PROVE FiledInv'
  <2> DEFINE s == asked[r].to
             d == asked[r].on
  <2>1. /\ asked[r] # NoAsk /\ asked[r].what = "respond" /\ UNCHANGED statuses
        /\ filed' = [filed EXCEPT ![d].status = s] /\ asked' = [asked EXCEPT ![r] = NoAsk]
    BY <1>3 DEF Respond, Carry
  <2>2. s \in Slugs /\ StatusKept(s) /\ d \in Ideas /\ filed[d] # NoIdea
    BY <2>1 DEF FiledInv, AskedInv
  <2>3. /\ overtaken \subseteq overtaken'
        /\ \A q \in Askers : asked[q] # NoAsk /\ asked[q].what = "delete status" /\ asked[q].on = s => s \in overtaken'
    BY <1>3 DEF Respond, Asking
  <2>4. [filed[d] EXCEPT !.status = s] \in IdeaRows /\ [filed[d] EXCEPT !.status = s].status = s
    BY <1>t, <2>2 DEF IdeaRows
  <2>5. /\ filed' \in [Ideas -> IdeaRows \cup {NoIdea}] /\ filed'[d] # NoIdea /\ filed'[d].status = s
        /\ \A i \in Ideas \ {d} : filed'[i] = filed[i]
    BY <1>t, <2>1, <2>2, <2>4
  <2>6. \A g \in Slugs : GetStatus(g)' = GetStatus(g) /\ (StatusKept(g) => StatusKept(g)')
    BY <2>1, <2>3 DEF GetStatus, StatusKept
  <2>7. \A i \in Ideas, g \in Slugs : Filed(i, g)' => Filed(i, g) \/ (i = d /\ g = s)
    BY <2>5 DEF Filed
  <2>8. DOMAIN asked' = Askers /\ \A q \in Askers : asked'[q] = IF q = r THEN NoAsk ELSE asked[q]
    BY <1>t, <2>1
  <2>9. AskedInv'
    BY <2>2, <2>3, <2>5, <2>6, <2>7, <2>8 DEF FiledInv, AskedInv
  <2>10. \A i \in Ideas, g \in Slugs : Filed(i, g)' => StatusKept(g)'
    BY <2>2, <2>6, <2>7 DEF FiledInv
  <2> QED
    BY <1>t, <2>1, <2>5, <2>6, <2>8, <2>9, <2>10 DEF FiledInv
<1>4. ASSUME NEW r \in Askers, Post(r) PROVE FiledInv'
  <2> DEFINE d == asked[r].on
             row == [status |-> "open", product |-> asked[r].to]
  <2>1. /\ UNCHANGED <<statuses, overtaken>> /\ asked' = [asked EXCEPT ![r] = NoAsk]
        /\ filed[d] = NoIdea /\ filed' = [filed EXCEPT ![d] = row]
        /\ asked[r].to \in Products \cup {General}
    BY <1>4 DEF Post, Carry, Stocked
  <2>2. row \in IdeaRows /\ row.status = "open"
    BY <2>1 DEF IdeaRows
  <2> HIDE DEF row
  <2>3. /\ filed' \in [Ideas -> IdeaRows \cup {NoIdea}]
        /\ \A i \in Ideas : filed'[i] = IF i = d THEN row ELSE filed[i]
    BY <1>t, <2>1, <2>2
  <2>4. \A g : GetStatus(g)' = GetStatus(g) /\ StatusKept(g)' = StatusKept(g)
    BY <2>1 DEF GetStatus, StatusKept
  <2>5. \A i \in Ideas, g \in Slugs : Filed(i, g)' => Filed(i, g) \/ g = "open"
    BY <2>2, <2>3 DEF Filed
  <2>6. "open" \in BuiltIn /\ StatusKept("open")
    BY DEF BuiltIn, FiledInv, StatusKept
  <2>7. DOMAIN asked' = Askers /\ \A q \in Askers : asked'[q] = IF q = r THEN NoAsk ELSE asked[q]
    BY <1>t, <2>1
  <2>8. \A i \in Ideas : filed[i] # NoIdea => filed'[i] # NoIdea
    BY <2>1, <2>3
  <2>9. AskedInv'
    BY <2>1, <2>4, <2>5, <2>6, <2>7, <2>8 DEF FiledInv, AskedInv
  <2> QED
    BY <1>t, <2>1, <2>3, <2>4, <2>5, <2>6, <2>7, <2>9 DEF FiledInv
<1>5. ASSUME NEW i \in Ideas, DeleteIdea(i) PROVE FiledInv'
  <2>1. /\ UNCHANGED <<statuses, asked, overtaken>> /\ filed[i] # NoIdea
        /\ filed' = [filed EXCEPT ![i].status = "deleted"]
    BY <1>5 DEF DeleteIdea, Live
  <2>2. [filed[i] EXCEPT !.status = "deleted"] \in IdeaRows /\ [filed[i] EXCEPT !.status = "deleted"].status = "deleted"
    BY <1>t, <2>1 DEF IdeaRows
  <2>3. /\ filed' \in [Ideas -> IdeaRows \cup {NoIdea}] /\ filed'[i] # NoIdea /\ filed'[i].status = "deleted"
        /\ \A g \in Ideas \ {i} : filed'[g] = filed[g]
    BY <1>t, <2>1, <2>2
  <2> QED
    BY <1>t, <2>1, <2>3, QuietFiling DEF GetStatus
\* Another product, the same status.
<1>6. ASSUME NEW R \in SUBSET Ideas, \A i \in R : filed[i] # NoIdea, NEW x \in Products \cup {General},
             filed' = [i \in Ideas |-> IF i \in R THEN [filed[i] EXCEPT !.product = x] ELSE filed[i]],
             UNCHANGED <<statuses, overtaken>>, DOMAIN asked' = Askers,
             \A r \in Askers : asked'[r] = asked[r] \/ asked'[r] = NoAsk
      PROVE  FiledInv'
  <2>1. \A i \in R : /\ [filed[i] EXCEPT !.product = x] \in IdeaRows
                     /\ [filed[i] EXCEPT !.product = x].status = filed[i].status
    BY <1>t, <1>6 DEF IdeaRows
  <2>2. \A i \in Ideas : filed'[i] = IF i \in R THEN [filed[i] EXCEPT !.product = x] ELSE filed[i]
    BY <1>6
  <2>3. filed' \in [Ideas -> IdeaRows \cup {NoIdea}]
    BY <1>t, <1>6, <2>1
  <2>4. /\ \A i \in Ideas : filed[i] # NoIdea => filed'[i] # NoIdea
        /\ \A i \in Ideas : filed'[i] # NoIdea => filed[i] # NoIdea /\ filed'[i].status = filed[i].status
    BY <1>6, <2>1, <2>2
  <2> QED
    BY <1>t, <1>6, <2>3, <2>4, QuietFiling DEF GetStatus
<1>7. ASSUME NEW x \in Products, \/ CreateProduct(x)
                                 \/ \E active \in BOOLEAN : UpdateProduct(x, active)
      PROVE  FiledInv'
  BY <1>t, <1>q, <1>7 DEF CreateProduct, UpdateProduct
<1>8. ASSUME NEW x \in Products, DeleteProduct(x) PROVE FiledInv'
  <2> DEFINE R == {i \in Ideas : filed[i] # NoIdea /\ filed[i].product = x}
  <2>1. filed' = [i \in Ideas |-> IF i \in R THEN [filed[i] EXCEPT !.product = General] ELSE filed[i]]
    BY <1>8 DEF DeleteProduct, Unfile
  <2>2. UNCHANGED <<statuses, asked, overtaken>> /\ R \in SUBSET Ideas /\ \A i \in R : filed[i] # NoIdea
    BY <1>8 DEF DeleteProduct
  <2> HIDE DEF R
  <2> QED
    BY <1>t, <1>6, <2>1, <2>2
<1>9. ASSUME NEW r \in Askers, File(r) PROVE FiledInv'
  <2> DEFINE R == {asked[r].on}
  <2>1. /\ asked[r] # NoAsk /\ asked[r].what = "file" /\ UNCHANGED <<statuses, overtaken>>
        /\ filed' = [filed EXCEPT ![asked[r].on].product = asked[r].to] /\ asked' = [asked EXCEPT ![r] = NoAsk]
        /\ asked[r].to \in Products \cup {General}
    BY <1>9 DEF File, Carry, Stocked
  <2>2. R \in SUBSET Ideas /\ \A i \in R : filed[i] # NoIdea
    BY <2>1 DEF FiledInv, AskedInv
  <2>3. filed' = [i \in Ideas |-> IF i \in R THEN [filed[i] EXCEPT !.product = asked[r].to] ELSE filed[i]]
    BY <1>t, <2>1
  <2>4. DOMAIN asked' = Askers /\ \A q \in Askers : asked'[q] = asked[q] \/ asked'[q] = NoAsk
    BY <1>t, <2>1
  <2> HIDE DEF R
  <2> QED
    BY <1>6, <2>1, <2>2, <2>3, <2>4
<1>10. ASSUME NEW r \in Askers, NameTag(r) \/ AssignTag(r) \/ DeleteTag(r) \/ ImportTags(r) \/ GiveUpAsking(r)
       PROVE  FiledInv'
  <2>1. UNCHANGED <<statuses, filed, overtaken>> /\ asked' = [asked EXCEPT ![r] = NoAsk]
    BY <1>10 DEF NameTag, AssignTag, DeleteTag, ImportTags, GiveUpAsking, Carry
  <2> QED
    BY <1>t, <1>q, <2>1
<1>11. ASSUME NEW i \in Ideas, NEW t \in Tags, UnassignTag(i, t) PROVE FiledInv'
  BY <1>t, <1>q, <1>11 DEF UnassignTag
<1>12. ASSUME NEW r \in Askers, NEW s \in Slugs, AskToDeleteStatus(r, s) PROVE FiledInv'
  <2> DEFINE With == {i \in Ideas : filed[i] # NoIdea /\ filed[i].status = s}
  <2>1. IsFiniteSet(With) /\ Cardinality(With) = 0
    BY <1>12, FS_Subset DEF AskToDeleteStatus, CountPosts
  <2>2. \A i \in Ideas : ~Filed(i, s)
    BY <2>1, FS_EmptySet DEF Filed
  <2> QED
    BY <1>12, <2>2, AskStep DEF AskToDeleteStatus
<1>13. ASSUME NEW r \in Askers, NEW i \in Ideas, NEW s \in Slugs, AskToRespond(r, i, s) PROVE FiledInv'
  <2>1. StatusKept(s) /\ filed[i] # NoIdea
    BY <1>13 DEF AskToRespond, ListActiveStatuses, GetStatus, StatusKept, Live
  <2> QED
    BY <1>13, <2>1, AskStep DEF AskToRespond
<1>14. ASSUME NEW r \in Askers, NEW i \in Ideas, NEW x \in Products \cup {General}, AskToFile(r, i, x) \/ AskToPost(r, i, x)
       PROVE  FiledInv'
  BY <1>14, AskStep DEF AskToFile, AskToPost, Live
<1>15. ASSUME NEW r \in Askers, NEW t \in Tags,
              \/ \E n \in TagNames : AskToName(r, t, n)
              \/ AskToDeleteTag(r, t)
              \/ \E i \in Ideas : AskToTag(r, i, t)
       PROVE  FiledInv'
  <2>1. CASE \E n \in TagNames : AskToName(r, t, n)
    BY <2>1, AskStep DEF AskToName
  <2>2. CASE AskToDeleteTag(r, t)
    BY <2>2, AskStep DEF AskToDeleteTag
  <2>3. CASE \E i \in Ideas : AskToTag(r, i, t)
    BY <2>3, AskStep DEF AskToTag
  <2> QED
    BY <1>15, <2>1, <2>2, <2>3
<1>16. ASSUME NEW r \in Askers, NEW names, AskToImport(r, names) PROVE FiledInv'
  BY <1>16, AskStep DEF AskToImport
<1>17. ASSUME UNCHANGED catalogueVars PROVE FiledInv'
  BY <1>t, <1>q, <1>17 DEF catalogueVars
<1>18. CASE StatusStep
  BY <1>18, <1>1, <1>2, <1>3, <1>5, <1>12, <1>13 DEF StatusStep
<1>19. CASE ProductStep
  BY <1>19, <1>7, <1>8, <1>9, <1>14 DEF ProductStep
<1>20. CASE TagStep
  BY <1>20, <1>10, <1>11, <1>15, <1>16 DEF TagStep
<1>21. CASE IdeaStep
  BY <1>21, <1>4, <1>10, <1>14 DEF IdeaStep
<1> QED
  BY <1>17, <1>18, <1>19, <1>20, <1>21 DEF CatalogueNext

\* However responses, deletions and everything else in the catalogue
\* interleave, an idea has lost its status only if a response with it was
\* under way when the status was deleted, or was counted.
THEOREM IdeasAlwaysKeepTheirStatus == CatalogueSpec => []IdeasKeepTheirStatus
<1>1. CatalogueSpec => []FiledInv
  BY InitFiled, StepFiled, PTL DEF CatalogueSpec
<1>2. FiledInv => IdeasKeepTheirStatus
  BY DEF FiledInv, IdeasKeepTheirStatus, Filed, StatusKept, IdeaRows
<1> QED
  BY <1>1, <1>2, PTL

\* What a request is about to do is done to, and with, something of the kind.
AskedTypes ==
  \A r \in Askers : asked[r] # NoAsk =>
    /\ asked[r].what \in {"delete status", "respond", "post", "file", "tag", "delete tag", "name", "import"}
    /\ asked[r].what = "tag" => asked[r].on \in Ideas
    /\ asked[r].what = "name" => asked[r].on \in Tags /\ asked[r].to \in TagNames
    /\ asked[r].what = "import" => asked[r].to \subseteq TagNames

\* An idea's product, like its tags, exists: the database sees to it.
ShelvesInv ==
  /\ products \in [Products -> Rows]
  /\ \A i \in Ideas : filed[i] # NoIdea /\ filed[i].product # General
                        => products[filed[i].product] \in {"active", "inactive"}

TagsInv ==
  /\ tags \in [Tags -> TagNames \cup {"none", "gone"}]
  /\ tagged \subseteq Ideas \X Existing

LEMMA CatalogueTypes == FiledInv /\ AskedTypes /\ ShelvesInv /\ TagsInv => CatalogueTypeOK
BY DEF FiledInv, AskedTypes, ShelvesInv, TagsInv, CatalogueTypeOK

LEMMA StepAskedTypes ==
  ASSUME DOMAIN asked = Askers, AskedTypes, [CatalogueNext]_catalogueVars
  PROVE  AskedTypes'
<1>1. ASSUME NEW r \in Askers, asked' = [asked EXCEPT ![r] = NoAsk] PROVE AskedTypes'
  BY <1>1 DEF AskedTypes
<1>2. ASSUME UNCHANGED asked PROVE AskedTypes'
  BY <1>2 DEF AskedTypes
<1>3. ASSUME NEW r \in Askers, NEW on, NEW to,
             NEW what \in {"delete status", "respond", "post", "file", "tag", "delete tag", "name", "import"},
             Ask(r, what, on, to), what = "tag" => on \in Ideas,
             what = "name" => on \in Tags /\ to \in TagNames, what = "import" => to \subseteq TagNames
      PROVE  AskedTypes'
  <2> DEFINE f == [what |-> what, on |-> on, to |-> to]
  <2>1. /\ f.what = what /\ f.on = on /\ f.to = to
        /\ \A q \in Askers : asked'[q] = IF q = r THEN f ELSE asked[q]
    BY <1>3 DEF Ask
  <2> HIDE DEF f
  <2> QED
    BY <1>3, <2>1 DEF AskedTypes
<1>4. CASE StatusStep
  <2>1. ASSUME NEW s \in Slugs, CreateStatus(s) \/ \E active \in BOOLEAN : UpdateStatus(s, active) PROVE UNCHANGED asked
    BY <2>1 DEF CreateStatus, UpdateStatus
  <2>2. ASSUME NEW r \in Askers, DeleteStatus(r) \/ Respond(r) PROVE AskedTypes'
    BY <1>1, <2>2 DEF DeleteStatus, Respond, Carry
  <2>3. ASSUME NEW r \in Askers, NEW s \in Slugs, AskToDeleteStatus(r, s) \/ \E i \in Ideas : AskToRespond(r, i, s)
        PROVE  AskedTypes'
    BY <1>3, <2>3 DEF AskToDeleteStatus, AskToRespond
  <2>4. ASSUME NEW i \in Ideas, DeleteIdea(i) PROVE UNCHANGED asked
    BY <2>4 DEF DeleteIdea
  <2> QED
    BY <1>2, <1>4, <2>1, <2>2, <2>3, <2>4 DEF StatusStep
<1>5. CASE ProductStep
  <2>1. ASSUME NEW x \in Products, CreateProduct(x) \/ DeleteProduct(x) \/ \E active \in BOOLEAN : UpdateProduct(x, active)
        PROVE  UNCHANGED asked
    BY <2>1 DEF CreateProduct, DeleteProduct, UpdateProduct
  <2>2. ASSUME NEW r \in Askers, File(r) PROVE AskedTypes'
    BY <1>1, <2>2 DEF File, Carry
  <2>3. ASSUME NEW r \in Askers, NEW i \in Ideas, NEW x \in Products \cup {General}, AskToFile(r, i, x) PROVE AskedTypes'
    BY <1>3, <2>3 DEF AskToFile
  <2> QED
    BY <1>2, <1>5, <2>1, <2>2, <2>3 DEF ProductStep
<1>6. CASE TagStep
  <2>1. ASSUME NEW r \in Askers, NameTag(r) \/ AssignTag(r) \/ DeleteTag(r) \/ ImportTags(r) PROVE AskedTypes'
    BY <1>1, <2>1 DEF NameTag, AssignTag, DeleteTag, ImportTags, Carry
  <2>2. ASSUME NEW r \in Askers, NEW t \in Tags, NEW n \in TagNames, AskToName(r, t, n) PROVE AskedTypes'
    BY <1>3, <2>2 DEF AskToName
  <2>3. ASSUME NEW r \in Askers, NEW t \in Tags, AskToDeleteTag(r, t) \/ \E i \in Ideas : AskToTag(r, i, t) PROVE AskedTypes'
    BY <1>3, <2>3 DEF AskToDeleteTag, AskToTag
  <2>4. ASSUME NEW r \in Askers, NEW names \in SUBSET TagNames, AskToImport(r, names) PROVE AskedTypes'
    BY <1>3, <2>4 DEF AskToImport
  <2>5. ASSUME NEW i \in Ideas, NEW t \in Tags, UnassignTag(i, t) PROVE UNCHANGED asked
    BY <2>5 DEF UnassignTag
  <2> QED
    BY <1>2, <1>6, <2>1, <2>2, <2>3, <2>4, <2>5 DEF TagStep
<1>7. CASE IdeaStep
  <2>1. ASSUME NEW r \in Askers, Post(r) \/ GiveUpAsking(r) PROVE AskedTypes'
    BY <1>1, <2>1 DEF Post, GiveUpAsking, Carry
  <2>2. ASSUME NEW r \in Askers, NEW i \in Ideas, NEW x \in Products \cup {General}, AskToPost(r, i, x) PROVE AskedTypes'
    BY <1>3, <2>2 DEF AskToPost
  <2> QED
    BY <1>7, <2>1, <2>2 DEF IdeaStep
<1> QED
  BY <1>2, <1>4, <1>5, <1>6, <1>7 DEF CatalogueNext, catalogueVars

\* A product that is deleted takes its ideas to General, and one that ideas
\* are filed under then is still there.
LEMMA StepShelves ==
  ASSUME FiledInv, ShelvesInv, [CatalogueNext]_catalogueVars
  PROVE  ShelvesInv'
<1> USE CatalogueAssumption
<1>t. filed \in [Ideas -> IdeaRows \cup {NoIdea}] /\ products \in [Products -> Rows]
  BY DEF FiledInv, ShelvesInv
<1>1. ASSUME UNCHANGED <<products, filed>> PROVE ShelvesInv'
  BY <1>1 DEF ShelvesInv
\* An idea on another shelf, or with another status
<1>2. ASSUME NEW d \in Ideas, NEW row \in IdeaRows, filed' = [filed EXCEPT ![d] = row], UNCHANGED products,
             row.product # General => products[row.product] \in {"active", "inactive"}
      PROVE  ShelvesInv'
  <2>1. \A i \in Ideas : filed'[i] = IF i = d THEN row ELSE filed[i]
    BY <1>t, <1>2
  <2> QED
    BY <1>2, <2>1 DEF ShelvesInv
<1>3. ASSUME NEW x \in Products, CreateProduct(x) \/ \E active \in BOOLEAN : UpdateProduct(x, active) PROVE ShelvesInv'
  <2>1. PICK row \in {"active", "inactive"} : products' = [products EXCEPT ![x] = row]
    BY <1>3 DEF CreateProduct, UpdateProduct, SetProduct, ActiveRow
  <2>2. UNCHANGED filed
    BY <1>3 DEF CreateProduct, UpdateProduct
  <2>3. products' \in [Products -> Rows] /\ \A y \in Products : products'[y] = IF y = x THEN row ELSE products[y]
    BY <1>t, <2>1 DEF Rows
  <2>4. \A i \in Ideas : filed[i] # NoIdea => filed[i].product \in Products \cup {General}
    BY <1>t DEF IdeaRows
  <2> QED
    BY <2>2, <2>3, <2>4 DEF ShelvesInv
<1>4. ASSUME NEW x \in Products, DeleteProduct(x) PROVE ShelvesInv'
  <2>1. products' = [products EXCEPT ![x] = "gone"] /\ Unfile(x)
    BY <1>4 DEF DeleteProduct, SetProduct
  <2>2. products' \in [Products -> Rows] /\ \A y \in Products : products'[y] = IF y = x THEN "gone" ELSE products[y]
    BY <1>t, <2>1 DEF Rows
  <2>3. \A i \in Ideas : filed[i] # NoIdea => [filed[i] EXCEPT !.product = General].product = General
                                             /\ filed[i].product \in Products \cup {General}
    BY <1>t DEF IdeaRows
  <2>4. ASSUME NEW i \in Ideas, filed'[i] # NoIdea, filed'[i].product # General
        PROVE  products'[filed'[i].product] \in {"active", "inactive"}
    <3>1. filed'[i] = filed[i] /\ filed[i].product # x
      BY <2>1, <2>3, <2>4 DEF Unfile
    <3> QED
      BY <2>2, <2>3, <2>4, <3>1 DEF ShelvesInv
  <2> QED
    BY <2>2, <2>4 DEF ShelvesInv
<1>5. ASSUME NEW r \in Askers, Post(r) PROVE ShelvesInv'
  <2> DEFINE row == [status |-> "open", product |-> asked[r].to]
  <2>1. asked[r].to \in Stocked /\ filed' = [filed EXCEPT ![asked[r].on] = row] /\ UNCHANGED products
    BY <1>5 DEF Post
  <2>2. row \in IdeaRows /\ (row.product # General => products[row.product] \in {"active", "inactive"})
    BY <2>1 DEF Stocked, IdeaRows
  <2> HIDE DEF row
  <2>3. CASE asked[r].on \in Ideas
    BY <1>2, <2>1, <2>2, <2>3
  <2>4. CASE asked[r].on \notin Ideas
    BY <1>t, <1>1, <2>1, <2>4
  <2> QED
    BY <2>3, <2>4
<1>6. ASSUME NEW r \in Askers, File(r) PROVE ShelvesInv'
  <2> DEFINE d == asked[r].on
             row == [filed[d] EXCEPT !.product = asked[r].to]
  <2>1. /\ asked[r] # NoAsk /\ asked[r].what = "file" /\ asked[r].to \in Stocked
        /\ filed' = [filed EXCEPT ![d].product = asked[r].to] /\ UNCHANGED products
    BY <1>6 DEF File, Carry
  <2>2. d \in Ideas /\ filed[d] # NoIdea
    BY <2>1 DEF FiledInv, AskedInv
  <2>3. row \in IdeaRows /\ row.product = asked[r].to /\ filed' = [filed EXCEPT ![d] = row]
    BY <1>t, <2>1, <2>2 DEF IdeaRows, Stocked
  <2>4. row.product # General => products[row.product] \in {"active", "inactive"}
    BY <2>1, <2>3 DEF Stocked
  <2> HIDE DEF row
  <2> QED
    BY <1>2, <2>1, <2>2, <2>3, <2>4
\* Another status, the same product
<1>7. ASSUME NEW d \in Ideas, filed[d] # NoIdea, NEW s \in Slugs \cup {"deleted"},
             filed' = [filed EXCEPT ![d].status = s], UNCHANGED products
      PROVE  ShelvesInv'
  <2> DEFINE row == [filed[d] EXCEPT !.status = s]
  <2>1. row \in IdeaRows /\ row.product = filed[d].product /\ filed' = [filed EXCEPT ![d] = row]
    BY <1>t, <1>7 DEF IdeaRows
  <2>2. row.product # General => products[row.product] \in {"active", "inactive"}
    BY <1>7, <2>1 DEF ShelvesInv
  <2> HIDE DEF row
  <2> QED
    BY <1>2, <1>7, <2>1, <2>2
<1>8. ASSUME NEW r \in Askers, Respond(r) PROVE ShelvesInv'
  <2>1. /\ asked[r] # NoAsk /\ asked[r].what = "respond" /\ UNCHANGED products
        /\ filed' = [filed EXCEPT ![asked[r].on].status = asked[r].to]
    BY <1>8 DEF Respond, Carry
  <2>2. asked[r].to \in Slugs /\ asked[r].on \in Ideas /\ filed[asked[r].on] # NoIdea
    BY <2>1 DEF FiledInv, AskedInv
  <2> QED
    BY <1>7, <2>1, <2>2
<1>9. ASSUME NEW i \in Ideas, DeleteIdea(i) PROVE ShelvesInv'
  BY <1>7, <1>9 DEF DeleteIdea, Live
<1>10. CASE StatusStep
  <2>1. ASSUME NEW s \in Slugs, CreateStatus(s) \/ \E active \in BOOLEAN : UpdateStatus(s, active) PROVE UNCHANGED <<products, filed>>
    BY <2>1 DEF CreateStatus, UpdateStatus
  <2>2. ASSUME NEW r \in Askers, NEW s \in Slugs,
               DeleteStatus(r) \/ AskToDeleteStatus(r, s) \/ \E i \in Ideas : AskToRespond(r, i, s)
        PROVE  UNCHANGED <<products, filed>>
    BY <2>2 DEF DeleteStatus, AskToDeleteStatus, AskToRespond
  <2> QED
    BY <1>1, <1>8, <1>9, <1>10, <2>1, <2>2 DEF StatusStep
<1>11. CASE ProductStep
  <2>1. ASSUME NEW r \in Askers, NEW i \in Ideas, NEW x \in Products \cup {General}, AskToFile(r, i, x)
        PROVE  UNCHANGED <<products, filed>>
    BY <2>1 DEF AskToFile
  <2> QED
    BY <1>1, <1>3, <1>4, <1>6, <1>11, <2>1 DEF ProductStep
<1>12. CASE TagStep
  <2>1. UNCHANGED <<products, filed>>
    BY <1>12 DEF TagStep, NameTag, AssignTag, DeleteTag, ImportTags, AskToName, AskToDeleteTag, AskToTag, AskToImport, UnassignTag
  <2> QED
    BY <1>1, <2>1
<1>13. CASE IdeaStep
  <2>1. ASSUME NEW r \in Askers, NEW i \in Ideas, NEW x \in Products \cup {General}, AskToPost(r, i, x)
        PROVE  UNCHANGED <<products, filed>>
    BY <2>1 DEF AskToPost
  <2>2. ASSUME NEW r \in Askers, GiveUpAsking(r) PROVE UNCHANGED <<products, filed>>
    BY <2>2 DEF GiveUpAsking
  <2> QED
    BY <1>1, <1>5, <1>13, <2>1, <2>2 DEF IdeaStep
<1> QED
  BY <1>1, <1>10, <1>11, <1>12, <1>13 DEF CatalogueNext, catalogueVars

\* A tag that is deleted leaves every idea, and one that is put on an idea
\* exists.
LEMMA StepTags ==
  ASSUME AskedTypes, TagsInv, [CatalogueNext]_catalogueVars
  PROVE  TagsInv'
<1>1. ASSUME UNCHANGED <<tags, tagged>> PROVE TagsInv'
  BY <1>1 DEF TagsInv, Existing
<1>2. ASSUME NEW r \in Askers, NameTag(r) PROVE TagsInv'
  <2>1. /\ asked[r].on \in Tags /\ asked[r].to \in TagNames /\ UNCHANGED tagged
        /\ tags' = [tags EXCEPT ![asked[r].on] = asked[r].to]
    BY <1>2 DEF NameTag, Carry, AskedTypes, SetTag
  <2>2. Existing \subseteq Existing'
    BY <2>1 DEF Existing, TagsInv
  <2> QED
    BY <2>1, <2>2 DEF TagsInv
<1>3. ASSUME NEW r \in Askers, AssignTag(r) PROVE TagsInv'
  <2>1. asked[r].on \in Ideas /\ asked[r].to \in Existing /\ UNCHANGED tags
        /\ tagged' = tagged \cup {<<asked[r].on, asked[r].to>>}
    BY <1>3 DEF AssignTag, Carry, AskedTypes
  <2> QED
    BY <2>1 DEF TagsInv, Existing
<1>4. ASSUME NEW i \in Ideas, NEW t \in Tags, UnassignTag(i, t) PROVE TagsInv'
  BY <1>4 DEF UnassignTag, TagsInv, Existing
<1>5. ASSUME NEW r \in Askers, DeleteTag(r) PROVE TagsInv'
  <2> DEFINE t == asked[r].to
  <2>1. tags' = [tags EXCEPT ![t] = "gone"] /\ tagged' = {p \in tagged : p[2] # t}
    BY <1>5 DEF DeleteTag, SetTag
  <2>2. Existing \ {t} \subseteq Existing' /\ tags' \in [Tags -> TagNames \cup {"none", "gone"}]
    BY <2>1 DEF TagsInv, Existing
  <2> QED
    BY <2>1, <2>2 DEF TagsInv
<1>6. ASSUME NEW r \in Askers, ImportTags(r) PROVE TagsInv'
  <2> DEFINE new == asked[r].to
  <2>1. new \subseteq TagNames /\ UNCHANGED tagged
    BY <1>6 DEF ImportTags, Carry, AskedTypes
  <2>2. CASE UNCHANGED tags
    BY <1>1, <2>1, <2>2
  <2>3. CASE \E ids \in SUBSET NewTags : \E row \in Bijection(ids, new) :
               tags' = [t \in Tags |-> IF t \in ids THEN row[t] ELSE tags[t]]
    <3>0. PICK ids \in SUBSET NewTags :
            \E row \in [ids -> new] : tags' = [t \in Tags |-> IF t \in ids THEN row[t] ELSE tags[t]]
      BY <2>3 DEF Bijection, Injection
    <3>1. PICK row \in [ids -> new] : tags' = [t \in Tags |-> IF t \in ids THEN row[t] ELSE tags[t]]
      BY <3>0
    <3>2. tags' \in [Tags -> TagNames \cup {"none", "gone"}] /\ Existing \subseteq Existing'
      BY <2>1, <3>1 DEF TagsInv, Existing
    <3> QED
      BY <2>1, <3>2 DEF TagsInv
  <2> QED
    BY <1>6, <2>2, <2>3 DEF ImportTags
<1>7. CASE StatusStep
  <2>1. UNCHANGED <<tags, tagged>>
    BY <1>7 DEF StatusStep, CreateStatus, UpdateStatus, DeleteStatus, Respond, AskToDeleteStatus, AskToRespond, DeleteIdea
  <2> QED
    BY <1>1, <2>1
<1>8. CASE ProductStep
  <2>1. UNCHANGED <<tags, tagged>>
    BY <1>8 DEF ProductStep, CreateProduct, UpdateProduct, DeleteProduct, File, AskToFile
  <2> QED
    BY <1>1, <2>1
<1>9. CASE TagStep
  <2>1. ASSUME NEW r \in Askers, NEW t \in Tags,
               \/ \E n \in TagNames : AskToName(r, t, n)
               \/ AskToDeleteTag(r, t) \/ \E i \in Ideas : AskToTag(r, i, t)
        PROVE  UNCHANGED <<tags, tagged>>
    BY <2>1 DEF AskToName, AskToDeleteTag, AskToTag
  <2>2. ASSUME NEW r \in Askers, NEW names, AskToImport(r, names) PROVE UNCHANGED <<tags, tagged>>
    BY <2>2 DEF AskToImport
  <2> QED
    BY <1>1, <1>2, <1>3, <1>4, <1>5, <1>6, <1>9, <2>1, <2>2 DEF TagStep
<1>10. CASE IdeaStep
  <2>1. UNCHANGED <<tags, tagged>>
    BY <1>10 DEF IdeaStep, Post, GiveUpAsking, AskToPost
  <2> QED
    BY <1>1, <2>1
<1> QED
  BY <1>1, <1>7, <1>8, <1>9, <1>10 DEF CatalogueNext, catalogueVars

\* Whatever was checked before and is done only now: an idea never has a product,
\* or a tag, that is gone, for the database sees to it; its status it may lose.
THEOREM CatalogueKeepsItsTypes == CatalogueSpec => []CatalogueTypeOK
<1>1. CatalogueInit => AskedTypes /\ ShelvesInv /\ TagsInv
  BY DEF CatalogueInit, AskedTypes, ShelvesInv, TagsInv, Rows, Existing
<1>2. FiledInv /\ AskedTypes /\ ShelvesInv /\ TagsInv /\ [CatalogueNext]_catalogueVars => AskedTypes' /\ ShelvesInv' /\ TagsInv'
  BY StepAskedTypes, StepShelves, StepTags DEF FiledInv
<1> QED
  BY <1>1, <1>2, InitFiled, StepFiled, CatalogueTypes, PTL DEF CatalogueSpec

-----------------------------------------------------------------------------
(* Files                                                                   *)

\* What the request r is about to attach is its own: unless its key was
\* overlooked, no other request has it, nothing is attached by it yet, and what
\* S3 has been given is still there.
UploadIsOwn(r) ==
  LET u == uploads[r] IN
  /\ u.content.idea = u.idea
  /\ u.isFile => u.key \in FreshKeys
  /\ u.key \notin overlooked =>
       /\ \A q \in Uploaders \ {r} : Uploading(q) => uploads[q].key # u.key
       /\ \A a \in attachments : a.key # u.key
       /\ storage = "s3" /\ u.at = "stored" => InStore(u.key) /\ blobs[u.key].content = u.content

UploadsAreOwn == \A r \in Uploaders : Uploading(r) => UploadIsOwn(r)

AttachedIsStored ==
  \A a \in attachments : \/ a.key \in overlooked
                         \/ InStore(a.key) /\ blobs[a.key].content = a.content

AttachedToItsIdea == \A a \in attachments : a.content.idea = a.idea

FilesAreFresh == \A k \in BlobKeys : InStore(k) /\ blobs[k].isFile => k \in FreshKeys

FilesInv == FilesTypeOK /\ UploadsAreOwn /\ AttachedIsStored /\ AttachedToItsIdea /\ FilesAreFresh

LEMMA InitFiles == FilesInit => FilesInv
BY FilesAssumption
   DEF FilesInit, FilesInv, FilesTypeOK, UploadsAreOwn, Uploading, AttachedIsStored, AttachedToItsIdea, FilesAreFresh, InStore

LEMMA FilesAreKept == FilesInv => AttachmentsKeepTheirContent
<1> SUFFICES ASSUME FilesInv PROVE AttachmentsKeepTheirContent
  OBVIOUS
<1> USE FilesAssumption
<1>1. ASSUME NEW i \in Folders, NEW k \in BlobKeys, MayView(i, k)
      PROVE  access[blobs[k].content.idea] = "public"
  <2>1. PICK a \in attachments : a.idea = i /\ a.key = k
    BY <1>1 DEF MayView, KeysOf
  <2>2. k \in FreshKeys /\ k \notin overlooked
    BY <1>1 DEF MayView, FilesInv, FilesAreFresh, FilesTypeOK
  <2>3. blobs[k].content = a.content /\ a.content.idea = i
    BY <2>1, <2>2 DEF FilesInv, AttachedIsStored, AttachedToItsIdea
  <2> QED
    BY <1>1, <2>3 DEF MayView
<1> QED
  BY <1>1 DEF AttachmentsKeepTheirContent, FilesInv, AttachedIsStored

\* A step that stores nothing and attaches nothing, but may end requests and
\* take attachments away.
LEMMA QuietFiles ==
  ASSUME FilesInv, UNCHANGED <<storage, blobs, lastContent, overlooked>>,
         attachments' \subseteq attachments,
         access' \in [Folders -> {"public", "private", "deleted"}],
         uploads' \in [Uploaders -> UploadRows \cup {NoUpload}],
         \A r \in Uploaders : uploads'[r] = uploads[r] \/ uploads'[r] = NoUpload
  PROVE  FilesInv'
<1>1. FilesTypeOK'
  BY DEF FilesInv, FilesTypeOK
<1>2. UploadsAreOwn'
  BY DEF FilesInv, UploadsAreOwn, UploadIsOwn, Uploading, InStore
<1>3. AttachedIsStored' /\ AttachedToItsIdea' /\ FilesAreFresh'
  BY DEF FilesInv, AttachedIsStored, AttachedToItsIdea, FilesAreFresh, InStore
<1> QED
  BY <1>1, <1>2, <1>3 DEF FilesInv

LEMMA StepFiles == FilesInv /\ [FilesNext]_fileVars => FilesInv'
<1> SUFFICES ASSUME FilesInv, [FilesNext]_fileVars PROVE FilesInv'
  OBVIOUS
<1> USE FilesAssumption
<1>t. FilesTypeOK
  BY DEF FilesInv
<1>u. \A r \in Uploaders : Uploading(r) => uploads[r] \in UploadRows
  BY <1>t DEF FilesTypeOK, Uploading
<1>1. ASSUME NEW r \in Uploaders, NEW i \in Folders, NEW k \in ImageKeys \cup {NoKey}, NEW isFile \in BOOLEAN,
             UploadTo(r, i, k, isFile)
      PROVE  FilesInv'
  <2>1. PICK key \in BlobKeys :
          /\ \/ Keep(k, isFile) /\ key = k
             \/ Replace(k, isFile) /\ key \in Fresh
          /\ uploads' = [uploads EXCEPT ![r] = [idea |-> i, key |-> key, content |-> [number |-> lastContent', idea |-> i],
                                                isFile |-> isFile, at |-> "validated"]]
          /\ overlooked' = IF key \in ImageKeys /\ (Chosen(key) \/ (InStore(key) /\ storage = "s3"))
                             THEN overlooked \cup {key} ELSE overlooked
    BY <1>1 DEF UploadTo
  <2> DEFINE content == [number |-> lastContent + 1, idea |-> i]
             u == [idea |-> i, key |-> key, content |-> content, isFile |-> isFile, at |-> "validated"]
  <2>2. /\ lastContent' = lastContent + 1 /\ lastContent' \in 1..MaxContents
        /\ ~Uploading(r) /\ UNCHANGED <<storage, blobs, attachments, access>>
    BY <1>1, <1>t DEF UploadTo, FilesTypeOK
  <2>3. content \in Contents /\ content.idea = i
    BY <2>2 DEF Contents
  <2>4. /\ u \in UploadRows /\ u.idea = i /\ u.key = key /\ u.content = content /\ u.isFile = isFile
        /\ u.at = "validated"
    BY <2>3 DEF UploadRows
  <2>5. uploads' = [uploads EXCEPT ![r] = u]
    BY <2>1, <2>2
  <2> HIDE DEF u, content
  <2>6. \A q \in Uploaders : uploads'[q] = IF q = r THEN u ELSE uploads[q]
    BY <1>t, <2>5 DEF FilesTypeOK
  <2>7. overlooked \subseteq overlooked' /\ overlooked' \subseteq ImageKeys
    BY <1>t, <2>1 DEF FilesTypeOK
  <2>8. isFile => key \in FreshKeys
    BY <2>1 DEF Keep, Fresh
  <2>9. key \notin overlooked' => /\ ~Chosen(key)
                                 /\ \A a \in attachments : a.key # key
    <3>1. CASE key \in Fresh
      BY <3>1 DEF Fresh
    <3>2. CASE key \in ImageKeys /\ Keep(key, isFile) /\ key \notin overlooked'
      <4>1. ~Chosen(key) /\ ~InStore(key)
        BY <2>1, <3>2 DEF Keep
      <4>2. \A a \in attachments : a.key # key
        BY <2>7, <3>2, <4>1 DEF FilesInv, AttachedIsStored
      <4> QED
        BY <4>1, <4>2
    <3> QED
      BY <2>1, <3>1, <3>2 DEF Keep
  <2>10. \A q \in Uploaders : Uploading(q)' => Uploading(q) \/ q = r
    BY <2>6 DEF Uploading
  <2>11. FilesTypeOK'
    BY <1>t, <2>2, <2>4, <2>5, <2>7 DEF FilesTypeOK
  <2>12. UploadIsOwn(r)'
    <3>1. key \notin overlooked' => \A q \in Uploaders \ {r} : Uploading(q)' => uploads'[q].key # key
      BY <2>6, <2>9 DEF Chosen, Uploading
    <3> QED
      BY <2>2, <2>3, <2>4, <2>6, <2>8, <2>9, <3>1 DEF UploadIsOwn
  <2>13. ASSUME NEW q \in Uploaders \ {r}, Uploading(q)' PROVE UploadIsOwn(q)'
    <3>1. Uploading(q) /\ UploadIsOwn(q) /\ uploads'[q] = uploads[q]
      BY <2>6, <2>13 DEF Uploading, FilesInv, UploadsAreOwn
    <3>2. uploads[q].key \notin overlooked' => uploads[q].key # key
      BY <2>9, <3>1 DEF Chosen
    <3>3. uploads[q].key \notin overlooked' => \A p \in Uploaders \ {q} : Uploading(p)' => uploads'[p].key # uploads[q].key
      BY <2>4, <2>6, <2>7, <3>1, <3>2 DEF UploadIsOwn, Uploading
    <3> QED
      BY <2>2, <2>7, <3>1, <3>3 DEF UploadIsOwn, InStore
  <2>14. AttachedIsStored' /\ AttachedToItsIdea' /\ FilesAreFresh'
    BY <2>2, <2>7 DEF FilesInv, AttachedIsStored, AttachedToItsIdea, FilesAreFresh, InStore
  <2> QED
    BY <2>11, <2>12, <2>13, <2>14 DEF FilesInv, UploadsAreOwn
<1>2. ASSUME NEW r \in Uploaders, StoreBlob(r) PROVE FilesInv'
  <2>0. PICK u : u = uploads[r]
    OBVIOUS
  <2>1. /\ u \in UploadRows /\ Uploading(r) /\ UploadIsOwn(r)
        /\ uploads' = [uploads EXCEPT ![r].at = "stored"]
        /\ UNCHANGED <<storage, attachments, lastContent, access, overlooked>>
    BY <1>2, <1>u, <2>0 DEF StoreBlob, FilesInv, UploadsAreOwn
  <2> DEFINE w == [u EXCEPT !.at = "stored"]
             b == [content |-> u.content, isFile |-> u.isFile]
  <2>2. /\ w \in UploadRows /\ w.idea = u.idea /\ w.key = u.key /\ w.content = u.content /\ w.isFile = u.isFile
        /\ b \in BlobRows /\ b.content = u.content /\ b.isFile = u.isFile /\ b # NoBlob
    BY <2>1 DEF UploadRows, BlobRows
  <2>3. uploads' = [uploads EXCEPT ![r] = w]
    BY <1>t, <2>0, <2>1 DEF FilesTypeOK
  <2>4. blobs' = IF storage = "s3" THEN [blobs EXCEPT ![u.key] = b] ELSE blobs
    BY <1>2, <2>0 DEF StoreBlob
  <2> HIDE DEF w, b
  <2>5. \A q \in Uploaders : uploads'[q] = IF q = r THEN w ELSE uploads[q]
    BY <1>t, <2>3 DEF FilesTypeOK
  <2>6. u.key \in BlobKeys
    BY <2>1 DEF UploadRows
  <2>7. \A k \in BlobKeys : blobs'[k] = IF storage = "s3" /\ k = u.key THEN b ELSE blobs[k]
    BY <1>t, <2>4 DEF FilesTypeOK
  <2>8. FilesTypeOK'
    <3>1. blobs' \in [BlobKeys -> BlobRows \cup {NoBlob}]
      BY <1>t, <2>2, <2>4 DEF FilesTypeOK
    <3>2. uploads' \in [Uploaders -> UploadRows \cup {NoUpload}]
      BY <1>t, <2>2, <2>3 DEF FilesTypeOK
    <3> QED
      BY <1>t, <2>1, <3>1, <3>2 DEF FilesTypeOK
  <2>9. UploadIsOwn(r)'
    <3>1. storage = "s3" => InStore(u.key)' /\ blobs'[u.key].content = u.content
      BY <2>2, <2>6, <2>7 DEF InStore
    <3>2. \A q \in Uploaders \ {r} : Uploading(q)' => Uploading(q) /\ uploads'[q] = uploads[q]
      BY <2>5 DEF Uploading
    <3> QED
      BY <2>0, <2>1, <2>2, <2>5, <3>1, <3>2 DEF UploadIsOwn, InStore
  <2>10. ASSUME NEW q \in Uploaders \ {r}, Uploading(q)' PROVE UploadIsOwn(q)'
    <3>1. Uploading(q) /\ UploadIsOwn(q) /\ uploads'[q] = uploads[q]
      BY <2>5, <2>10 DEF Uploading, FilesInv, UploadsAreOwn
    <3>2. uploads[q].key \notin overlooked => uploads[q].key # u.key
      BY <2>0, <2>1, <3>1 DEF UploadIsOwn
    <3>3. uploads[q].key \notin overlooked => \A p \in Uploaders \ {q} : Uploading(p)' => uploads'[p].key # uploads[q].key
      BY <2>1, <2>2, <2>5, <3>1, <3>2 DEF UploadIsOwn, Uploading
    <3>4. uploads[q].key \in BlobKeys
      BY <1>u, <3>1 DEF UploadRows
    <3> QED
      BY <2>1, <2>7, <3>1, <3>2, <3>3, <3>4 DEF UploadIsOwn, InStore
  <2>11. AttachedIsStored'
    <3>1. \A a \in attachments : a.key \in overlooked \/ a.key # u.key
      BY <2>0, <2>1 DEF UploadIsOwn
    <3> QED
      BY <2>1, <2>7, <3>1 DEF FilesInv, AttachedIsStored, InStore
  <2>12. AttachedToItsIdea' /\ FilesAreFresh'
    BY <2>0, <2>1, <2>2, <2>7 DEF FilesInv, AttachedToItsIdea, FilesAreFresh, InStore, UploadIsOwn
  <2> QED
    BY <2>8, <2>9, <2>10, <2>11, <2>12 DEF FilesInv, UploadsAreOwn
<1>3. ASSUME NEW r \in Uploaders, CommitUpload(r) PROVE FilesInv'
  <2>0. PICK u : u = uploads[r]
    OBVIOUS
  <2>1. /\ u \in UploadRows /\ Uploading(r) /\ UploadIsOwn(r) /\ u.at = "stored"
        /\ uploads' = [uploads EXCEPT ![r] = NoUpload]
        /\ UNCHANGED <<storage, lastContent, access, overlooked>>
    BY <1>3, <1>u, <2>0 DEF CommitUpload, FilesInv, UploadsAreOwn
  <2> DEFINE b == [content |-> u.content, isFile |-> u.isFile]
             n == [idea |-> u.idea, key |-> u.key, content |-> u.content]
  <2>2. /\ b \in BlobRows /\ b.content = u.content /\ b.isFile = u.isFile /\ b # NoBlob
        /\ n \in Attachment /\ n.idea = u.idea /\ n.key = u.key /\ n.content = u.content
    BY <2>1 DEF UploadRows, BlobRows, Attachment
  <2>3. attachments' = attachments \/ attachments' = attachments \cup {n}
    BY <1>3, <2>0 DEF CommitUpload, SetAttachments
  <2>4. blobs' = IF storage = "sql" THEN [blobs EXCEPT ![u.key] = b] ELSE blobs
    BY <1>3, <2>0 DEF CommitUpload
  <2> HIDE DEF b, n
  <2>5. \A q \in Uploaders : uploads'[q] = IF q = r THEN NoUpload ELSE uploads[q]
    BY <1>t, <2>1 DEF FilesTypeOK
  <2>6. u.key \in BlobKeys
    BY <2>1 DEF UploadRows
  <2>7. \A k \in BlobKeys : blobs'[k] = IF storage = "sql" /\ k = u.key THEN b ELSE blobs[k]
    BY <1>t, <2>4 DEF FilesTypeOK
  <2>8. FilesTypeOK'
    <3>1. blobs' \in [BlobKeys -> BlobRows \cup {NoBlob}]
      BY <1>t, <2>2, <2>4 DEF FilesTypeOK
    <3>2. uploads' \in [Uploaders -> UploadRows \cup {NoUpload}]
      BY <1>t, <2>1 DEF FilesTypeOK
    <3>3. attachments' \subseteq Attachment
      BY <1>t, <2>2, <2>3 DEF FilesTypeOK
    <3> QED
      BY <1>t, <2>1, <3>1, <3>2, <3>3 DEF FilesTypeOK
  <2>9. u.key \notin overlooked => InStore(u.key)' /\ blobs'[u.key].content = u.content
    <3>1. CASE storage = "sql"
      BY <2>2, <2>6, <2>7, <3>1 DEF InStore
    <3>2. CASE storage = "s3"
      BY <2>0, <2>1, <2>6, <2>7, <3>2 DEF UploadIsOwn, InStore
    <3> QED
      BY <1>t, <3>1, <3>2 DEF FilesTypeOK
  <2>10. ASSUME NEW q \in Uploaders, Uploading(q)' PROVE UploadIsOwn(q)'
    <3>1. q # r /\ Uploading(q) /\ UploadIsOwn(q) /\ uploads'[q] = uploads[q]
      BY <2>5, <2>10 DEF Uploading, FilesInv, UploadsAreOwn
    <3>2. uploads[q].key \notin overlooked => uploads[q].key # u.key
      BY <2>0, <2>1, <3>1 DEF UploadIsOwn
    <3>3. uploads[q].key \notin overlooked => \A p \in Uploaders \ {q} : Uploading(p)' => uploads'[p].key # uploads[q].key
      BY <2>1, <2>5, <3>1 DEF UploadIsOwn, Uploading
    <3>4. uploads[q].key \notin overlooked => \A a \in attachments' : a.key # uploads[q].key
      BY <2>2, <2>3, <3>1, <3>2 DEF UploadIsOwn
    <3>5. uploads[q].key \in BlobKeys
      BY <1>u, <3>1 DEF UploadRows
    <3> QED
      BY <2>1, <2>7, <3>1, <3>2, <3>3, <3>4, <3>5 DEF UploadIsOwn, InStore
  <2>11. AttachedIsStored'
    <3>1. \A a \in attachments : a.key \in overlooked \/ a.key # u.key
      BY <2>0, <2>1 DEF UploadIsOwn
    <3>2. \A a \in attachments : a.key \in overlooked \/ (InStore(a.key)' /\ blobs'[a.key].content = a.content)
      BY <2>7, <3>1 DEF FilesInv, AttachedIsStored, InStore
    <3> QED
      BY <2>1, <2>2, <2>3, <2>9, <3>2 DEF AttachedIsStored
  <2>12. AttachedToItsIdea'
    BY <2>0, <2>1, <2>2, <2>3 DEF FilesInv, AttachedToItsIdea, UploadIsOwn
  <2>13. FilesAreFresh'
    BY <2>0, <2>1, <2>2, <2>7 DEF FilesInv, FilesAreFresh, InStore, UploadIsOwn
  <2> QED
    BY <2>8, <2>10, <2>11, <2>12, <2>13 DEF FilesInv, UploadsAreOwn
<1>4. ASSUME NEW r \in Uploaders, RollbackUpload(r) PROVE FilesInv'
  BY <1>t, <1>4, QuietFiles DEF RollbackUpload, FilesTypeOK
<1>5. ASSUME NEW i \in Folders, NEW k \in BlobKeys, KeepAttachment(i, k) \/ RemoveAttachment(i, k) PROVE FilesInv'
  BY <1>t, <1>5, QuietFiles DEF KeepAttachment, RemoveAttachment, SetAttachments, FilesTypeOK
<1>6. ASSUME NEW i \in Folders, NEW to \in {"public", "private", "deleted"}, ChangeAccess(i, to) PROVE FilesInv'
  BY <1>t, <1>6, QuietFiles DEF ChangeAccess, FilesTypeOK
<1>7. ASSUME UNCHANGED fileVars PROVE FilesInv'
  BY <1>t, <1>7, QuietFiles DEF fileVars, FilesTypeOK
<1> QED
  BY <1>1, <1>2, <1>3, <1>4, <1>5, <1>6, <1>7 DEF FilesNext

\* With either storage, and however uploads, rollbacks and edits interleave,
\* what was uploaded for an idea is what is at the key it is attached by, and a
\* file is only shown to those who may see the idea it was uploaded for.
THEOREM AttachmentsAlwaysKeepTheirContent == FilesSpec => []AttachmentsKeepTheirContent
<1>1. FilesSpec => []FilesInv
  BY InitFiles, StepFiles, PTL DEF FilesSpec
<1> QED
  BY <1>1, FilesAreKept, PTL

-----------------------------------------------------------------------------
(* Discussion                                                              *)

\* A task that tells of a comment as news is about one that is not internal.
NewsIsPublic ==
  \A j \in Tasks : tasks[j] # NoTask /\ tasks[j].kind # "edit" /\ tasks[j].about \in Comments =>
    said[tasks[j].about] # NoComment /\ ~said[tasks[j].about].internal

\* A task that was queued since the idea was made private knows that it is.
PrivacyIsKnown ==
  \A j \in Tasks : tasks[j] # NoTask =>
    idea.at # "none" /\ (idea.private /\ j \notin outrun => tasks[j].private)

\* Who was told is in the log.
ToldIsLogged == \A s \in Subjects, p \in Talkers : told[s][p] > 0 => <<s, p>> \in logged

AtWork(j, s) == tasks[j] # NoTask /\ tasks[j].at = "mails" /\ tasks[j].about = s

\* What no other task is telling about: whom this one names is not in the log.
AtWorkAlone ==
  \A j \in Tasks, s \in Subjects : AtWork(j, s) /\ s \notin overlapped =>
    /\ \A p \in tasks[j].named : <<s, p>> \notin logged
    /\ \A k \in Tasks \ {j} : ~AtWork(k, s)

TellingTypes ==
  /\ said \in [Comments -> CommentRows \cup {NoComment}]
  /\ told \in [Subjects -> [Talkers -> 0..MaxNaming + 1]]
  /\ namings \in [Subjects -> Mentions]
  /\ tasks \in [Tasks -> TaskRows \cup {NoTask}]

TellingInv ==
  TellingTypes /\ NewsIsPublic /\ PrivacyIsKnown /\ ToldIsLogged /\ AtWorkAlone /\ MentionedOnce /\ ToldWhatTheyMaySee

LEMMA UnnamedIsMentions == Unnamed \in Mentions /\ Unnamed \in [Talkers -> 0..MaxNaming + 1]
BY DiscussionAssumption DEF Unnamed, Mentions

LEMMA InitTelling == (\E moderated \in BOOLEAN : DiscussionInit(moderated)) => TellingInv
<1> SUFFICES ASSUME NEW moderated \in BOOLEAN, DiscussionInit(moderated) PROVE TellingInv
  OBVIOUS
<1>1. TellingTypes
  BY UnnamedIsMentions DEF DiscussionInit, TellingTypes
<1>2. \A s \in Subjects, p \in Talkers : told[s][p] = 0 /\ namings[s][p] = 0
  BY DEF DiscussionInit, Unnamed
<1> QED
  BY <1>1, <1>2 DEF DiscussionInit, TellingInv, NewsIsPublic, PrivacyIsKnown, ToldIsLogged, AtWorkAlone, AtWork,
                    MentionedOnce, ToldWhatTheyMaySee

\* What may happen to the comments: they stay as internal as they were.
SaidOn ==
  /\ said' \in [Comments -> CommentRows \cup {NoComment}]
  /\ \A c \in Comments : said[c] # NoComment => said'[c] # NoComment /\ said'[c].internal = said[c].internal

\* A step that writes, and queues no task.
LEMMA QuietWriting ==
  ASSUME TellingInv, SaidOn, idea'.private = idea.private, idea'.at = "none" => idea.at = "none",
         UNCHANGED <<tellingVars, outrun, tasks>>
  PROVE  TellingInv'
<1> USE DEF tellingVars
<1>1. TellingTypes'
  BY DEF TellingInv, TellingTypes, SaidOn
<1>2. NewsIsPublic'
  BY DEF TellingInv, NewsIsPublic, SaidOn
<1>3. PrivacyIsKnown' /\ ToldIsLogged' /\ AtWorkAlone' /\ MentionedOnce' /\ ToldWhatTheyMaySee'
  BY DEF TellingInv, PrivacyIsKnown, ToldIsLogged, AtWorkAlone, AtWork, MentionedOnce, ToldWhatTheyMaySee
<1> QED
  BY <1>1, <1>2, <1>3 DEF TellingInv

\* A step that writes, and queues the task of it.
LEMMA Writing ==
  ASSUME TellingInv, SaidOn, UNCHANGED <<tellingVars, outrun>>,
         NEW kind \in Kinds, NEW s \in Subjects, NEW p \in Talkers, NEW mentions \in Mentions,
         NEW private \in BOOLEAN, EnqueueTask(kind, s, p, mentions, private),
         idea'.private = private, idea'.at # "none", idea.at # "none" => idea.private = private,
         kind # "edit" /\ s \in Comments => said'[s] # NoComment /\ ~said'[s].internal
  PROVE  TellingInv'
<1> DEFINE t == [at |-> "queued", kind |-> kind, about |-> s, by |-> p, mentions |-> mentions,
                 private |-> private, known |-> {}, named |-> {}]
<1>1. PICK j \in Tasks : tasks' = [tasks EXCEPT ![j] = t]
  BY DEF EnqueueTask
<1>2. t \in TaskRows /\ t.at = "queued" /\ t.kind = kind /\ t.about = s /\ t.private = private
  BY DEF TaskRows
<1> HIDE DEF t
<1>3. \A k \in Tasks : tasks'[k] = IF k = j THEN t ELSE tasks[k]
  BY <1>1 DEF TellingInv, TellingTypes
<1>4. TellingTypes'
  BY <1>1, <1>2 DEF TellingInv, TellingTypes, SaidOn, tellingVars
<1>5. NewsIsPublic'
  BY <1>2, <1>3 DEF TellingInv, NewsIsPublic, SaidOn
<1>p. PrivacyIsKnown'
  BY <1>2, <1>3 DEF TellingInv, PrivacyIsKnown
<1>6. \A k \in Tasks, x \in Subjects : AtWork(k, x)' => AtWork(k, x) /\ tasks'[k] = tasks[k]
  BY <1>2, <1>3 DEF AtWork
<1>7. AtWorkAlone'
  BY <1>6 DEF TellingInv, AtWorkAlone, tellingVars
<1>8. ToldIsLogged' /\ MentionedOnce' /\ ToldWhatTheyMaySee'
  BY DEF TellingInv, ToldIsLogged, MentionedOnce, ToldWhatTheyMaySee, tellingVars
<1> QED
  BY <1>4, <1>5, <1>p, <1>7, <1>8 DEF TellingInv

LEMMA SameSaid == TellingTypes /\ UNCHANGED said => SaidOn
BY DEF TellingTypes, SaidOn

\* One comment is written on, and stays as internal as it was.
LEMMA CommentWritten ==
  ASSUME TellingTypes, NEW c \in Comments, NEW row \in CommentRows, said' = [said EXCEPT ![c] = row],
         said[c] # NoComment => row.internal = said[c].internal
  PROVE  SaidOn /\ said'[c] = row
<1>1. \A d \in Comments : said'[d] = IF d = c THEN row ELSE said[d]
  BY DEF TellingTypes
<1> QED
  BY <1>1, DiscussionAssumption DEF TellingTypes, SaidOn

LEMMA CommentChanged ==
  ASSUME TellingTypes, NEW c \in Comments, said[c] # NoComment,
         \/ said' = [said EXCEPT ![c].deleted = TRUE]
         \/ said' = [said EXCEPT ![c].approved = TRUE]
  PROVE  SaidOn
<1>1. said[c] \in CommentRows
  BY DEF TellingTypes
<1>2. CASE said' = [said EXCEPT ![c].deleted = TRUE]
  <2>1. [said[c] EXCEPT !.deleted = TRUE] \in CommentRows /\ [said[c] EXCEPT !.deleted = TRUE].internal = said[c].internal
    BY <1>1 DEF CommentRows
  <2>2. said' = [said EXCEPT ![c] = [said[c] EXCEPT !.deleted = TRUE]]
    BY <1>2 DEF TellingTypes
  <2> QED
    BY <2>1, <2>2, CommentWritten
<1>3. CASE said' = [said EXCEPT ![c].approved = TRUE]
  <2>1. [said[c] EXCEPT !.approved = TRUE] \in CommentRows /\ [said[c] EXCEPT !.approved = TRUE].internal = said[c].internal
    BY <1>1 DEF CommentRows
  <2>2. said' = [said EXCEPT ![c] = [said[c] EXCEPT !.approved = TRUE]]
    BY <1>3 DEF TellingTypes
  <2> QED
    BY <2>1, <2>2, CommentWritten
<1> QED
  BY <1>2, <1>3

\* Whom a task tells of a mention or as a subscriber is not led astray.
LEMMA NobodyAstray ==
  ASSUME TellingInv, NEW j \in Tasks, tasks[j] # NoTask, NEW wanting, NEW heard
  PROVE  Stray(j, Audience(j, Mentioned(j, wanting, heard) \cup Subscribers(j, wanting))) = {}
<1> DEFINE people == Audience(j, Mentioned(j, wanting, heard) \cup Subscribers(j, wanting))
<1>1. tasks[j] \in TaskRows
  BY DEF TellingInv, TellingTypes
<1>2. j \notin outrun => \A p \in people : ~Private(p)
  <2>1. idea.private /\ j \notin outrun => tasks[j].private
    BY DEF TellingInv, PrivacyIsKnown
  <2> QED
    BY <2>1 DEF Audience, Private
<1>3. Internal(tasks[j].about) => tasks[j].kind = "edit"
  BY DEF TellingInv, NewsIsPublic, Internal
<1>4. tasks[j].kind = "edit" => people \subseteq NamedIn(tasks[j])
  <2>1. tasks[j].kind = "edit" => Subscribers(j, wanting) = {}
    BY DEF Subscribers
  <2> QED
    BY <2>1 DEF Audience, Mentioned
<1>5. astray = {}
  BY DEF TellingInv, ToldWhatTheyMaySee
<1> HIDE DEF people
<1> SUFFICES Stray(j, people) = {}
  BY DEF people
<1> QED
  BY <1>2, <1>3, <1>4, <1>5 DEF Stray

LEMMA TwoAudiences ==
  ASSUME NEW j, NEW A, NEW B
  PROVE  Audience(j, A) \cup Audience(j, B) = Audience(j, A \cup B)
BY DEF Audience

LEMMA AudienceOfTalkers ==
  ASSUME NEW j, NEW A, A \subseteq Talkers
  PROVE  Audience(j, A) \subseteq Talkers
BY DEF Audience

LEMMA StepTellOnSite ==
  ASSUME TellingInv, NEW j \in Tasks, NEW wanting \in Wanting, TellOnSite(j, wanting)
  PROVE  TellingInv'
<1>t. TellingTypes
  BY DEF TellingInv
<1>0. PICK t : t = tasks[j]
  OBVIOUS
<1> DEFINE heard == KnownFor(t.about)
           named == Audience(j, Mentioned(j, wanting, heard))   \* those mentioned
           w == [t EXCEPT !.at = "mails", !.known = heard, !.named = named]
<1>1. /\ t # NoTask /\ t \in TaskRows /\ t.at = "queued" /\ tasks' = [tasks EXCEPT ![j] = w]
      /\ astray' = Stray(j, named \cup Audience(j, Subscribers(j, wanting)))
      /\ overlapped' = overlapped \cup
           {s \in {t.about} : \E k \in Tasks \ {j} : tasks[k] # NoTask /\ tasks[k].about = s /\ tasks[k].at = "mails"}
      /\ UNCHANGED <<writingVars, logged, told, namings, outrun>>
  BY <1>t, <1>0 DEF TellOnSite, TellingTypes
<1>2. Mentioned(j, wanting, heard) \subseteq wanting /\ wanting \subseteq Talkers
  BY DiscussionAssumption DEF Mentioned
<1>3. named \subseteq Talkers /\ heard \subseteq Talkers
  BY <1>2, AudienceOfTalkers DEF KnownFor
<1>4. \A p \in named : p \in Talkers /\ <<t.about, p>> \notin logged
  BY <1>3 DEF Audience, Mentioned, KnownFor
<1>5. astray' = {}
  <2>2. named \cup Audience(j, Subscribers(j, wanting)) = Audience(j, Mentioned(j, wanting, heard) \cup Subscribers(j, wanting))
    BY TwoAudiences
  <2> QED
    BY <1>0, <1>1, <2>2, NobodyAstray
<1> HIDE DEF heard, named
<1>6. w \in TaskRows /\ w.at = "mails" /\ w.about = t.about /\ w.kind = t.kind /\ w.named = named
      /\ w.private = t.private
  BY <1>1, <1>3 DEF TaskRows
<1> HIDE DEF w
<1>7. \A k \in Tasks : tasks'[k] = IF k = j THEN w ELSE tasks[k]
  BY <1>t, <1>1 DEF TellingTypes
<1>8. TellingTypes'
  BY <1>t, <1>1, <1>6 DEF TellingTypes, writingVars
<1>9. NewsIsPublic'
  BY <1>0, <1>1, <1>6, <1>7 DEF TellingInv, NewsIsPublic, writingVars
<1>p. PrivacyIsKnown'
  BY <1>0, <1>1, <1>6, <1>7 DEF TellingInv, PrivacyIsKnown, writingVars
<1>10. AtWorkAlone'
  <2>1. /\ \A s \in Subjects : AtWork(j, s)' => s = t.about
        /\ \A k \in Tasks \ {j}, s \in Subjects : AtWork(k, s)' => AtWork(k, s) /\ tasks'[k] = tasks[k]
    BY <1>6, <1>7 DEF AtWork
  <2>2. overlapped \subseteq overlapped' /\ \A k \in Tasks \ {j} : AtWork(k, t.about) => t.about \in overlapped'
    BY <1>1 DEF AtWork
  <2>3. logged' = logged /\ tasks'[j].named = named
    BY <1>1, <1>6, <1>7
  <2> QED
    BY <1>4, <2>1, <2>2, <2>3 DEF TellingInv, AtWorkAlone
<1>11. ToldIsLogged' /\ MentionedOnce'
  BY <1>1 DEF TellingInv, ToldIsLogged, MentionedOnce
<1> QED
  BY <1>5, <1>8, <1>9, <1>p, <1>10, <1>11 DEF TellingInv, ToldWhatTheyMaySee

\* A task that ends, whatever it adds to the log of what it was about.
LEMMA TaskEnds ==
  ASSUME TellingInv, NEW j \in Tasks, tasks[j] # NoTask, tasks[j].at = "mails",
         tasks' = [tasks EXCEPT ![j] = NoTask], outrun' = outrun \ {j},
         UNCHANGED <<writingVars, overlapped>>, logged \subseteq logged',
         \A s \in Subjects, p \in Talkers : <<s, p>> \in logged' => <<s, p>> \in logged \/ s = tasks[j].about
  PROVE  /\ \A k \in Tasks : tasks'[k] = IF k = j THEN NoTask ELSE tasks[k]
         /\ tasks' \in [Tasks -> TaskRows \cup {NoTask}] /\ said' = said
         /\ NewsIsPublic' /\ PrivacyIsKnown' /\ AtWorkAlone'
<1>1. \A k \in Tasks : tasks'[k] = IF k = j THEN NoTask ELSE tasks[k]
  BY DEF TellingInv, TellingTypes
<1>2. tasks' \in [Tasks -> TaskRows \cup {NoTask}] /\ said' = said /\ overlapped' = overlapped
  BY DEF TellingInv, TellingTypes, writingVars
<1>3. NewsIsPublic' /\ PrivacyIsKnown'
  BY <1>1, <1>2 DEF TellingInv, NewsIsPublic, PrivacyIsKnown, writingVars
<1>4. \A k \in Tasks, s \in Subjects : AtWork(k, s)' => k # j /\ AtWork(k, s) /\ tasks'[k] = tasks[k]
  BY <1>1 DEF AtWork
<1>5. ASSUME NEW k \in Tasks, NEW s \in Subjects, AtWork(k, s)', s \notin overlapped'
      PROVE  /\ \A p \in tasks'[k].named : <<s, p>> \notin logged'
             /\ \A i \in Tasks \ {k} : ~AtWork(i, s)'
  <2>1. k # j /\ AtWork(k, s) /\ tasks'[k] = tasks[k] /\ s \notin overlapped
    BY <1>2, <1>4, <1>5
  <2>2. s # tasks[j].about
    BY <2>1 DEF TellingInv, AtWorkAlone, AtWork
  <2>3. tasks[k].named \subseteq Talkers
    BY <2>1 DEF TellingInv, TellingTypes, AtWork, TaskRows
  <2> QED
    BY <1>4, <2>1, <2>2, <2>3 DEF TellingInv, AtWorkAlone
<1> QED
  BY <1>1, <1>2, <1>3, <1>5 DEF AtWorkAlone

LEMMA StepMailAndCommit ==
  ASSUME TellingInv, NEW j \in Tasks, NEW wanting \in Wanting, MailAndCommit(j, wanting)
  PROVE  TellingInv'
<1>t. TellingTypes
  BY DEF TellingInv
<1>0. PICK t : t = tasks[j]
  OBVIOUS
<1> DEFINE mailed == Audience(j, Mentioned(j, wanting, t.known))
<1>1. /\ t # NoTask /\ t \in TaskRows /\ t.at = "mails" /\ tasks' = [tasks EXCEPT ![j] = NoTask]
      /\ logged' = logged \cup Additions(t, mailed)
      /\ told' = [told EXCEPT ![t.about] =
                    [p \in Talkers |-> IF @[p] + Notified(t, p) > MaxNaming THEN MaxNaming + 1 ELSE @[p] + Notified(t, p)]]
      /\ namings' = [namings EXCEPT ![t.about] =
                       [p \in Talkers |-> IF @[p] < Notified(t, p) THEN Notified(t, p) ELSE @[p]]]
      /\ astray' = Stray(j, mailed \cup Audience(j, Subscribers(j, wanting)))
      /\ outrun' = outrun \ {j} /\ UNCHANGED <<writingVars, overlapped>>
  BY <1>t, <1>0 DEF MailAndCommit, TellingTypes
<1>2. astray' = {}
  <2>2. mailed \cup Audience(j, Subscribers(j, wanting)) = Audience(j, Mentioned(j, wanting, t.known) \cup Subscribers(j, wanting))
    BY TwoAudiences
  <2> QED
    BY <1>0, <1>1, <2>2, NobodyAstray
<1>3. /\ logged \subseteq logged'
      /\ \A p \in t.named : <<t.about, p>> \in logged'
      /\ \A s \in Subjects, p \in Talkers : <<s, p>> \in logged' => <<s, p>> \in logged \/ s = t.about
  <2> HIDE DEF mailed
  <2>1. t.named # {} => Additions(t, mailed) = {t.about} \X t.named \/ Additions(t, mailed) = {t.about} \X (t.named \cup mailed)
    BY DEF Additions, AddedByNew, AddedByEdit
  <2>2. \E people : Additions(t, mailed) = {t.about} \X people
    BY DEF Additions, AddedByNew, AddedByEdit
  <2> QED
    BY <1>1, <2>1, <2>2
<1>4. /\ \A k \in Tasks : tasks'[k] = IF k = j THEN NoTask ELSE tasks[k]
      /\ tasks' \in [Tasks -> TaskRows \cup {NoTask}] /\ said' = said
      /\ NewsIsPublic' /\ PrivacyIsKnown' /\ AtWorkAlone'
  BY <1>0, <1>1, <1>3, TaskEnds
<1>5. t.about \in Subjects /\ t.named \subseteq Talkers
  BY <1>1 DEF TaskRows
<1>6. \A p \in Talkers : Notified(t, p) \in 0..MaxNaming /\ (Notified(t, p) > 0 => p \in t.named)
  BY <1>1, DiscussionAssumption DEF Notified, TaskRows, Mentions
<1> DEFINE row == [p \in Talkers |-> IF told[t.about][p] + Notified(t, p) > MaxNaming THEN MaxNaming + 1
                                     ELSE told[t.about][p] + Notified(t, p)]
           most == [p \in Talkers |-> IF namings[t.about][p] < Notified(t, p) THEN Notified(t, p)
                                      ELSE namings[t.about][p]]
<1>7. told' = [told EXCEPT ![t.about] = row] /\ namings' = [namings EXCEPT ![t.about] = most]
  BY <1>1
<1>8. \A p \in Talkers : told[t.about][p] \in 0..MaxNaming + 1 /\ namings[t.about][p] \in 0..MaxNaming
  BY <1>t, <1>5 DEF TellingTypes, Mentions
<1>9. row \in [Talkers -> 0..MaxNaming + 1] /\ most \in Mentions
  <2>1. ASSUME NEW p \in Talkers PROVE row[p] \in 0..MaxNaming + 1 /\ most[p] \in 0..MaxNaming
    BY <1>6, <1>8, DiscussionAssumption
  <2> QED
    BY <2>1 DEF Mentions
<1>10. ASSUME NEW p \in Talkers
       PROVE  /\ row[p] > 0 => told[t.about][p] > 0 \/ p \in t.named
              /\ row[p] > most[p] => \/ told[t.about][p] > namings[t.about][p]
                                     \/ told[t.about][p] > 0 /\ p \in t.named
  BY <1>6, <1>8, DiscussionAssumption
<1> HIDE DEF row, most, mailed
<1>11. /\ told' \in [Subjects -> [Talkers -> 0..MaxNaming + 1]] /\ namings' \in [Subjects -> Mentions]
       /\ \A s \in Subjects : /\ told'[s] = IF s = t.about THEN row ELSE told[s]
                              /\ namings'[s] = IF s = t.about THEN most ELSE namings[s]
  BY <1>t, <1>5, <1>7, <1>9 DEF TellingTypes
<1>12. TellingTypes'
  BY <1>t, <1>4, <1>11 DEF TellingTypes
<1>13. ToldIsLogged'
  BY <1>3, <1>5, <1>10, <1>11 DEF TellingInv, ToldIsLogged
<1>14. MentionedOnce'
  <2>1. t.about \in overlapped \/ \A p \in t.named : <<t.about, p>> \notin logged
    BY <1>0, <1>1, <1>5 DEF TellingInv, AtWorkAlone, AtWork
  <2>2. t.about \in overlapped \/ \A p \in t.named : ~(told[t.about][p] > 0)
    BY <1>5, <2>1 DEF TellingInv, ToldIsLogged
  <2>3. \A p \in Talkers : row[p] > most[p] => t.about \in overlapped
    BY <1>5, <1>10, <2>2 DEF TellingInv, MentionedOnce
  <2> QED
    BY <1>1, <1>11, <2>3 DEF TellingInv, MentionedOnce
<1> QED
  BY <1>2, <1>4, <1>12, <1>13, <1>14 DEF TellingInv, ToldWhatTheyMaySee

LEMMA StepTaskFails ==
  ASSUME TellingInv, NEW j \in Tasks, NEW wanting \in Wanting, TaskFails(j, wanting)
  PROVE  TellingInv'
<1>t. TellingTypes
  BY DEF TellingInv
<1>1. /\ tasks[j] # NoTask /\ tasks[j].at = "mails" /\ tasks' = [tasks EXCEPT ![j] = NoTask]
      /\ outrun' = outrun \ {j} /\ UNCHANGED <<writingVars, logged, told, namings, overlapped>>
  BY DEF TaskFails
<1>2. astray' = {}
  BY <1>1, NobodyAstray DEF TaskFails
<1>3. tasks' \in [Tasks -> TaskRows \cup {NoTask}] /\ said' = said /\ NewsIsPublic' /\ PrivacyIsKnown' /\ AtWorkAlone'
  BY <1>1, TaskEnds
<1>4. TellingTypes' /\ ToldIsLogged' /\ MentionedOnce'
  BY <1>t, <1>1, <1>3 DEF TellingInv, TellingTypes, ToldIsLogged, MentionedOnce
<1> QED
  BY <1>2, <1>3, <1>4 DEF TellingInv, ToldWhatTheyMaySee

LEMMA StepIdea ==
  ASSUME idea \in IdeaStates, [DiscussionNext]_discussionVars
  PROVE  idea' \in IdeaStates
<1>1. ASSUME UNCHANGED idea PROVE idea' \in IdeaStates
  BY <1>1
<1>2. CASE TaskStep(Wanting)
  BY <1>1, <1>2 DEF TaskStep, TellOnSite, MailAndCommit, TaskFails, writingVars
<1>3. ASSUME NEW mentions \in Mentions, WritingStep(mentions) PROVE idea' \in IdeaStates
  <2>1. ASSUME NEW private \in BOOLEAN, CreatePost(private, mentions) PROVE idea' \in IdeaStates
    BY <2>1 DEF CreatePost, ApprovedAtOnce, IdeaStates
  <2> QED
    BY <1>1, <1>3, <2>1 DEF WritingStep, UpdatePost, PostComment, UpdateComment, writingVars
<1>4. CASE PrivacyStep
  BY <1>4 DEF PrivacyStep, SetPostPrivacy, IdeaStates
<1>5. CASE StaffStep
  BY <1>1, <1>5 DEF StaffStep, SetResponse, DeletePost, DeleteComment, IdeaStates, writingVars
<1>6. CASE ModerationStep
  BY <1>1, <1>6 DEF ModerationStep, ApprovePost, ApproveComment, DeclinePost, DeclineComment, SetModeration, Subscribe,
                    IdeaStates
<1> QED
  BY <1>1, <1>2, <1>3, <1>4, <1>5, <1>6 DEF DiscussionNext, discussionVars, writingVars

LEMMA StepTelling ==
  ASSUME idea \in IdeaStates, TellingInv, [DiscussionNext]_discussionVars
  PROVE  TellingInv'
<1>t. TellingTypes
  BY DEF TellingInv
<1>i. idea.private \in BOOLEAN
  BY DEF IdeaStates
<1>o. \A p : CanOpen(p) => idea.at # "none"
  BY DEF CanOpen
<1>s. UNCHANGED said => SaidOn
  BY <1>t, SameSaid
<1>0. Idea \in Subjects /\ Idea \notin Comments /\ Comments \subseteq Subjects /\ Author \in Talkers /\ Team \subseteq Talkers
  BY DiscussionAssumption DEF Subjects
<1>1. ASSUME NEW private \in BOOLEAN, NEW mentions \in Mentions, CreatePost(private, mentions) PROVE TellingInv'
  <2>1. EnqueueTask("new", Idea, Author, mentions, private) /\ idea.at = "none"
        /\ idea'.private = private /\ idea'.at # "none"
    BY <1>1 DEF CreatePost, Missing
  <2>2. UNCHANGED <<said, tellingVars, outrun>> /\ "new" \in Kinds
    BY <1>1 DEF CreatePost, Kinds
  <2> QED
    BY <1>s, <1>0, <2>1, <2>2, Writing
<1>2. ASSUME NEW p \in Talkers, NEW mentions \in Mentions, UpdatePost(p, mentions) PROVE TellingInv'
  <2>1. EnqueueTask("edit", Idea, p, mentions, idea.private) /\ UNCHANGED <<said, idea, tellingVars, outrun>> /\ "edit" \in Kinds
        /\ idea.at # "none"
    BY <1>o, <1>2 DEF UpdatePost, writingVars, Kinds
  <2> QED
    BY <1>i, <1>s, <1>0, <2>1, Writing
<1>3. ASSUME NEW p \in Talkers, NEW c \in Comments, NEW internal \in BOOLEAN, NEW mentions \in Mentions,
             PostComment(p, c, internal, mentions)
      PROVE  TellingInv'
  <2>1. PICK row : row = [by |-> p, internal |-> internal, approved |-> ApprovedAtOnce(p), deleted |-> FALSE]
    OBVIOUS
  <2>2. row \in CommentRows /\ row.internal = internal /\ "new" \in Kinds
    BY <2>1 DEF CommentRows, Kinds, ApprovedAtOnce
  <2>3. /\ said[c] = NoComment /\ said' = [said EXCEPT ![c] = row] /\ idea.at # "none"
        /\ UNCHANGED <<idea, tellingVars, outrun>>
    BY <1>o, <1>3, <2>1 DEF PostComment
  <2>4. SaidOn /\ said'[c] = row /\ row # NoComment
    BY <1>t, <2>2, <2>3, CommentWritten, DiscussionAssumption
  <2>5. CASE ~internal
    <3>1. EnqueueTask("new", c, p, mentions, idea.private)
      BY <1>3, <2>5 DEF PostComment
    <3> QED
      BY <1>i, <1>0, <2>2, <2>3, <2>4, <2>5, <3>1, Writing
  <2>6. CASE internal
    <3>1. UNCHANGED tasks
      BY <1>3, <2>6 DEF PostComment
    <3> QED
      BY <2>3, <2>4, <3>1, QuietWriting
  <2> QED
    BY <2>5, <2>6
<1>4. ASSUME NEW p \in Talkers, NEW c \in Comments, NEW mentions \in Mentions, UpdateComment(p, c, mentions) PROVE TellingInv'
  <2>1. EnqueueTask("edit", c, p, mentions, idea.private) /\ UNCHANGED <<said, idea, tellingVars, outrun>> /\ "edit" \in Kinds
        /\ idea.at # "none"
    BY <1>o, <1>4 DEF UpdateComment, MayEditComment, CanGetComment, writingVars, Kinds
  <2> QED
    BY <1>i, <1>s, <1>0, <2>1, Writing
<1>5. ASSUME NEW p \in Talkers, SetResponse(p) PROVE TellingInv'
  <2>1. EnqueueTask("status", Idea, p, Unnamed, idea.private) /\ UNCHANGED <<said, idea, tellingVars, outrun>>
        /\ "status" \in Kinds /\ idea.at # "none"
    BY <1>o, <1>5 DEF SetResponse, writingVars, Kinds
  <2> QED
    BY <1>i, <1>s, <1>0, <2>1, UnnamedIsMentions, Writing
<1>6. ASSUME NEW p \in Talkers, NEW hasText \in BOOLEAN, DeletePost(p, hasText) PROVE TellingInv'
  <2>1. UNCHANGED <<said, tellingVars, outrun>> /\ "deleted" \in Kinds /\ idea.at # "none"
    BY <1>o, <1>6 DEF DeletePost, Kinds
  <2>2. idea'.private = idea.private /\ idea'.at = "deleted"
    BY <1>6 DEF DeletePost, IdeaStates
  <2>3. EnqueueTask("deleted", Idea, p, Unnamed, idea.private) \/ UNCHANGED tasks
    BY <1>6 DEF DeletePost
  <2>4. CASE EnqueueTask("deleted", Idea, p, Unnamed, idea.private)
    BY <1>i, <1>s, <1>0, <2>1, <2>2, <2>4, UnnamedIsMentions, Writing
  <2>5. CASE UNCHANGED tasks
    BY <1>s, <2>1, <2>2, <2>5, QuietWriting
  <2> QED
    BY <2>3, <2>4, <2>5
<1>7. ASSUME NEW c \in Comments, \/ \E p \in Talkers : DeleteComment(p, c)
                                \/ DeclineComment(c)
                                \/ \E verify \in BOOLEAN : ApproveComment(c, verify)
      PROVE  TellingInv'
  <2>1. /\ said[c] # NoComment /\ UNCHANGED <<idea, tellingVars, outrun, tasks>>
        /\ \/ said' = [said EXCEPT ![c].deleted = TRUE]
           \/ said' = [said EXCEPT ![c].approved = TRUE]
    BY <1>7 DEF DeleteComment, DeclineComment, ApproveComment, MayEditComment, CanGetComment
  <2> QED
    BY <1>t, <2>1, CommentChanged, QuietWriting
<1>8. ASSUME UNCHANGED <<said, tellingVars, outrun, tasks>>, idea'.private = idea.private, idea'.at = "none" => idea.at = "none"
      PROVE  TellingInv'
  BY <1>s, <1>8, QuietWriting
<1>9. CASE TaskStep(Wanting)
  BY <1>9, StepTellOnSite, StepMailAndCommit, StepTaskFails DEF TaskStep
<1>10. ASSUME NEW mentions \in Mentions, WritingStep(mentions) PROVE TellingInv'
  BY <1>1, <1>2, <1>3, <1>4, <1>10 DEF WritingStep
<1>11. ASSUME NEW p \in Talkers, NEW private \in BOOLEAN, SetPostPrivacy(p, private) PROVE TellingInv'
  <2>1. idea'.private = private /\ idea'.at = idea.at /\ UNCHANGED <<said, tellingVars, tasks>>
        /\ outrun' = IF ~private THEN {} ELSE IF idea.private THEN outrun ELSE {j \in Tasks : tasks[j] # NoTask}
    BY <1>11 DEF SetPostPrivacy, IdeaStates
  <2>2. PrivacyIsKnown'
    BY <2>1 DEF TellingInv, PrivacyIsKnown
  <2>3. TellingTypes' /\ NewsIsPublic' /\ ToldIsLogged' /\ AtWorkAlone' /\ MentionedOnce' /\ ToldWhatTheyMaySee'
    BY <2>1 DEF TellingInv, TellingTypes, NewsIsPublic, ToldIsLogged, AtWorkAlone, AtWork, MentionedOnce, ToldWhatTheyMaySee,
                tellingVars
  <2> QED
    BY <2>2, <2>3 DEF TellingInv
<1>12. CASE StaffStep
  BY <1>5, <1>6, <1>7, <1>12 DEF StaffStep
<1>13. CASE ModerationStep
  BY <1>7, <1>8, <1>13 DEF ModerationStep, ApprovePost, DeclinePost, SetModeration, Subscribe, IdeaStates
<1>14. CASE UNCHANGED discussionVars
  BY <1>8, <1>14 DEF discussionVars, writingVars
<1> QED
  BY <1>9, <1>10, <1>11, <1>12, <1>13, <1>14 DEF DiscussionNext, PrivacyStep

LEMMA AlwaysTelling == DiscussionSpec => []TellingInv
<1>1. (\E moderated \in BOOLEAN : DiscussionInit(moderated)) => idea \in IdeaStates
  BY DEF DiscussionInit, Missing, IdeaStates
<1>2. idea \in IdeaStates /\ TellingInv /\ [DiscussionNext]_discussionVars => (idea \in IdeaStates)' /\ TellingInv'
  BY StepIdea, StepTelling
<1> QED
  BY <1>1, <1>2, InitTelling, PTL DEF DiscussionSpec

\* However often an idea or a comment is edited, and whichever of its tasks
\* fail or overtake each other, nobody is notified of it more often than one
\* text names him unless two of its tasks were at work together.
THEOREM MentionedOnlyOnce == DiscussionSpec => []MentionedOnce
<1>1. TellingInv => MentionedOnce
  BY DEF TellingInv
<1> QED
  BY <1>1, AlwaysTelling, PTL

\* Whatever becomes of the idea, of the comment and of the subscriptions, no
\* task that was queued since the idea was made private tells anybody who cannot
\* see it, and none but that of an edit, of an internal comment.
THEOREM AlwaysToldWhatTheyMaySee == DiscussionSpec => []ToldWhatTheyMaySee
<1>1. TellingInv => ToldWhatTheyMaySee
  BY DEF TellingInv
<1> QED
  BY <1>1, AlwaysTelling, PTL

\* The rest of the types: who follows, is trusted, and is in the log.
CircleTypes ==
  /\ following \in [Talkers -> {"none", "active", "inactive"}]
  /\ trusted \subseteq Talkers /\ moderation \in BOOLEAN
  /\ logged \subseteq Subjects \X Talkers
  /\ overlapped \subseteq Subjects /\ outrun \subseteq Tasks

LEMMA DiscussionTypes == idea \in IdeaStates /\ TellingInv /\ CircleTypes => DiscussionTypeOK
BY DEF TellingInv, TellingTypes, CircleTypes, ToldWhatTheyMaySee, DiscussionTypeOK

LEMMA StepCircle ==
  ASSUME TellingTypes, CircleTypes, [DiscussionNext]_discussionVars
  PROVE  CircleTypes'
<1>0. /\ Author \in Talkers /\ Subscribing \subseteq Talkers
      /\ \A c \in Comments : said[c] # NoComment => said[c].by \in Talkers
  BY DiscussionAssumption DEF TellingTypes, CommentRows
<1>1. ASSUME UNCHANGED <<following, trusted, moderation, logged, overlapped>>, outrun' \subseteq Tasks PROVE CircleTypes'
  BY <1>1 DEF CircleTypes
<1>o. outrun \subseteq Tasks
  BY DEF CircleTypes
<1>2. CASE TaskStep(Wanting)
  <2>1. ASSUME NEW j \in Tasks, NEW wanting \in Wanting, TellOnSite(j, wanting) PROVE CircleTypes'
    <3>1. tasks[j].about \in Subjects
      BY <2>1 DEF TellOnSite, TellingTypes, TaskRows
    <3> QED
      BY <2>1, <3>1 DEF TellOnSite, CircleTypes, writingVars
  <2>2. ASSUME NEW j \in Tasks, NEW wanting \in Wanting, MailAndCommit(j, wanting) PROVE CircleTypes'
    <3>1. tasks[j] \in TaskRows
      BY <2>2 DEF MailAndCommit, TellingTypes
    <3> DEFINE mailed == Audience(j, Mentioned(j, wanting, tasks[j].known))
    <3>2. mailed \subseteq Talkers
      BY <3>1, DiscussionAssumption DEF Audience, Mentioned, TaskRows
    <3>3. logged' = logged \cup Additions(tasks[j], mailed) /\ UNCHANGED <<following, trusted, moderation, overlapped>>
          /\ outrun' \subseteq Tasks
      BY <1>o, <2>2 DEF MailAndCommit, writingVars
    <3> HIDE DEF mailed
    <3>4. Additions(tasks[j], mailed) \subseteq Subjects \X Talkers
      BY <3>1, <3>2 DEF Additions, AddedByNew, AddedByEdit, TaskRows
    <3> QED
      BY <3>3, <3>4 DEF CircleTypes
  <2>3. ASSUME NEW j \in Tasks, NEW wanting \in Wanting, TaskFails(j, wanting) PROVE CircleTypes'
    BY <1>1, <1>o, <2>3 DEF TaskFails, writingVars
  <2> QED
    BY <1>2, <2>1, <2>2, <2>3 DEF TaskStep
<1>3. ASSUME NEW mentions, WritingStep(mentions) PROVE CircleTypes'
  <2>1. ASSUME NEW private \in BOOLEAN, CreatePost(private, mentions) PROVE CircleTypes'
    BY <1>0, <2>1 DEF CreatePost, CircleTypes, tellingVars
  <2>2. ASSUME NEW p, UpdatePost(p, mentions) PROVE CircleTypes'
    BY <1>1, <1>o, <2>2 DEF UpdatePost, writingVars, tellingVars
  <2>3. ASSUME NEW p, NEW c, NEW internal \in BOOLEAN, PostComment(p, c, internal, mentions) PROVE CircleTypes'
    BY <1>1, <1>o, <2>3 DEF PostComment, tellingVars
  <2>4. ASSUME NEW p, NEW c, UpdateComment(p, c, mentions) PROVE CircleTypes'
    BY <1>1, <1>o, <2>4 DEF UpdateComment, writingVars, tellingVars
  <2> QED
    BY <1>3, <2>1, <2>2, <2>3, <2>4 DEF WritingStep
<1>4. CASE PrivacyStep
  BY <1>1, <1>o, <1>4 DEF PrivacyStep, SetPostPrivacy, tellingVars
<1>5. CASE StaffStep
  <2>1. ASSUME NEW p, SetResponse(p) PROVE CircleTypes'
    BY <1>1, <1>o, <2>1 DEF SetResponse, writingVars, tellingVars
  <2>2. ASSUME NEW p, NEW hasText, DeletePost(p, hasText) PROVE CircleTypes'
    BY <1>1, <1>o, <2>2 DEF DeletePost, tellingVars
  <2>3. ASSUME NEW p, NEW c, DeleteComment(p, c) PROVE CircleTypes'
    BY <1>1, <1>o, <2>3 DEF DeleteComment, tellingVars
  <2> QED
    BY <1>5, <2>1, <2>2, <2>3 DEF StaffStep
<1>6. CASE ModerationStep
  <2>1. ASSUME NEW verify \in BOOLEAN, ApprovePost(verify) PROVE CircleTypes'
    BY <1>0, <2>1 DEF ApprovePost, Trust, CircleTypes, tellingVars
  <2>2. ASSUME NEW verify \in BOOLEAN, NEW c \in Comments, ApproveComment(c, verify) PROVE CircleTypes'
    BY <1>0, <2>2 DEF ApproveComment, Trust, CircleTypes, tellingVars
  <2>3. ASSUME DeclinePost \/ \E c \in Comments : DeclineComment(c) PROVE CircleTypes'
    BY <1>1, <1>o, <2>3 DEF DeclinePost, DeclineComment, tellingVars
  <2>4. ASSUME SetModeration PROVE CircleTypes'
    BY <2>4 DEF SetModeration, CircleTypes, tellingVars
  <2>5. ASSUME NEW p \in Subscribing, NEW status \in {"active", "inactive"}, Subscribe(p, status) PROVE CircleTypes'
    BY <2>5 DEF Subscribe, CircleTypes, tellingVars
  <2> QED
    BY <1>6, <2>1, <2>2, <2>3, <2>4, <2>5 DEF ModerationStep
<1> QED
  BY <1>o, <1>1, <1>2, <1>3, <1>4, <1>5, <1>6 DEF DiscussionNext, discussionVars, writingVars, tellingVars

\* Comments, tasks, notifications and subscriptions, and the log of mentions, are
\* of those who talk, and of what is talked about.
THEOREM DiscussionKeepsItsTypes == DiscussionSpec => []DiscussionTypeOK
<1>1. (\E moderated \in BOOLEAN : DiscussionInit(moderated)) => idea \in IdeaStates /\ CircleTypes
  BY DEF DiscussionInit, Missing, IdeaStates, CircleTypes
<1>2. idea \in IdeaStates /\ TellingInv /\ CircleTypes /\ [DiscussionNext]_discussionVars
        => (idea \in IdeaStates)' /\ TellingInv' /\ CircleTypes'
  <2>1. TellingInv => TellingTypes
    BY DEF TellingInv
  <2> QED
    BY <2>1, StepIdea, StepTelling, StepCircle
<1> QED
  BY <1>1, <1>2, InitTelling, DiscussionTypes, PTL DEF DiscussionSpec

-----------------------------------------------------------------------------
(* Mail: one copy for everybody                                            *)

\* A copy is with somebody something was done about; Resend has one exactly
\* of those whose key it has seen; and a request is made for one recipient
\* that is not skipped, through Resend only.
CopiesAreKnown ==
  /\ \A m \in Mailboxes : box[m] = 1 => m \in tried \ Skipped
  /\ mailer = "resend" => \A m \in Mailboxes : box[m] = 1 <=> m \in known
  /\ current # NoMessage => mailer = "resend" /\ current \in tried \ Skipped

MailInv == MailTypeOK /\ CopiesAreKnown

LEMMA Delivered ==
  ASSUME NEW M, M \subseteq Mailboxes \ Skipped, MailTypeOK, Deliver(M), \A m \in M : box[m] = 0
  PROVE  /\ box' \in [Mailboxes -> 0..1] /\ \A m \in Skipped : box'[m] = 0
         /\ \A m \in Mailboxes : box'[m] = IF m \in M THEN 1 ELSE box[m]
BY MailAssumption DEF MailTypeOK, Deliver

LEMMA StepMail == MailInv /\ [MailNext]_mailVars => MailInv'
<1> SUFFICES ASSUME MailInv, [MailNext]_mailVars PROVE MailInv'
  OBVIOUS
<1>t. MailTypeOK /\ CopiesAreKnown /\ Skipped \subseteq Mailboxes /\ NoMessage \notin Mailboxes
      /\ MaxAttempts \in Nat \ {0} /\ \A m \in Mailboxes : box[m] \in 0..1
  BY MailAssumption DEF MailInv, MailTypeOK
<1>1. CASE PublishMail
  BY <1>t, <1>1 DEF PublishMail, MailInv, MailTypeOK, CopiesAreKnown
<1>2. CASE MailSent
  BY <1>t, <1>2 DEF MailSent, MailInv, MailTypeOK, CopiesAreKnown
<1>3. ASSUME NEW m \in Mailboxes, SmtpSendMail(m) PROVE MailInv'
  <2>1. /\ tried' = tried \cup {m} /\ m \notin tried /\ mailer \in {"smtp", "ses"} /\ current = NoMessage
        /\ UNCHANGED <<mailer, current, attempt, known>> /\ sending' \in {"sending", "sent"}
    BY <1>3 DEF SmtpSendMail, NextRecipient, OneByOne
  <2>2. CASE m \notin Skipped
    <3>1. Deliver({m}) /\ box[m] = 0
      BY <1>3, <1>t, <2>1, <2>2 DEF SmtpSendMail, CanSendTo, CopiesAreKnown
    <3>2. /\ box' \in [Mailboxes -> 0..1] /\ \A k \in Skipped : box'[k] = 0
          /\ \A k \in Mailboxes : box'[k] = IF k = m THEN 1 ELSE box[k]
      BY <1>t, <2>2, <3>1, Delivered
    <3> QED
      BY <1>t, <2>1, <2>2, <3>2 DEF MailInv, MailTypeOK, CopiesAreKnown
  <2>3. CASE m \in Skipped
    <3>1. box' = box
      BY <1>3, <2>3 DEF SmtpSendMail, CanSendTo
    <3> QED
      BY <1>t, <2>1, <3>1 DEF MailInv, MailTypeOK, CopiesAreKnown
  <2> QED
    BY <2>2, <2>3
<1>4. ASSUME NEW m \in Mailboxes, SmtpSendFails(m) PROVE MailInv'
  <2>1. /\ tried' = tried \cup {m} /\ m \notin tried /\ m \notin Skipped /\ mailer \in {"smtp", "ses"}
        /\ UNCHANGED <<mailer, current, attempt, known>> /\ sending' = "panicked" /\ current = NoMessage
    BY <1>4 DEF SmtpSendFails, NextRecipient, OneByOne, CanSendTo
  <2>2. PICK M \in SUBSET {m} : Deliver(M)
    BY <1>4 DEF SmtpSendFails
  <2>3. box[m] = 0
    BY <1>t, <2>1 DEF CopiesAreKnown
  <2>4. /\ box' \in [Mailboxes -> 0..1] /\ \A k \in Skipped : box'[k] = 0
        /\ \A k \in Mailboxes : box'[k] = IF k \in M THEN 1 ELSE box[k]
    BY <1>t, <2>1, <2>2, <2>3, Delivered
  <2> QED
    BY <1>t, <2>1, <2>2, <2>4 DEF MailInv, MailTypeOK, CopiesAreKnown
<1>5. CASE MailgunSendMail
  <2>1. /\ mailer = "mailgun" /\ tried = {} /\ tried' = Mailboxes
        /\ UNCHANGED <<mailer, current, attempt, known>> /\ sending' \in {"sent", "panicked"}
    BY <1>5 DEF MailgunSendMail
  <2>2. PICK accepted \in BOOLEAN : Deliver(IF accepted THEN Mailboxes \ Skipped ELSE {})
    BY <1>5 DEF MailgunSendMail
  <2>3. PICK M : M = IF accepted THEN Mailboxes \ Skipped ELSE {}
    OBVIOUS
  <2>4. M \subseteq Mailboxes \ Skipped /\ \A m \in M : box[m] = 0
    BY <1>t, <2>1, <2>3 DEF CopiesAreKnown
  <2>5. /\ box' \in [Mailboxes -> 0..1] /\ \A k \in Skipped : box'[k] = 0
        /\ \A k \in Mailboxes : box'[k] = IF k \in M THEN 1 ELSE box[k]
    BY <1>t, <2>2, <2>3, <2>4, Delivered
  <2> QED
    BY <1>t, <2>1, <2>4, <2>5 DEF MailInv, MailTypeOK, CopiesAreKnown
<1>6. ASSUME NEW m \in Mailboxes, ResendSendMail(m) PROVE MailInv'
  <2>1. /\ tried' = tried \cup {m} /\ mailer = "resend" /\ UNCHANGED <<mailer, sending, known, box>>
        /\ sending = "sending"
    BY <1>6 DEF ResendSendMail, NextRecipient
  <2>2. \/ m \notin Skipped /\ current' = m /\ attempt' = 1
        \/ UNCHANGED <<current, attempt>>
    BY <1>6 DEF ResendSendMail, CanSendTo
  <2>3. 1 \in 0..MaxAttempts
    BY <1>t
  <2> QED
    BY <1>t, <2>1, <2>2, <2>3 DEF MailInv, MailTypeOK, CopiesAreKnown
\* Resend's answers, and failures after which it may have accepted.
<1>7. CASE ResendAnswers \/ ResendGivesUp \/ ResendTransientFailure
  <2>1. /\ mailer = "resend" /\ current \in tried \ Skipped /\ current \in Mailboxes
        /\ UNCHANGED <<mailer, sending, tried>>
    BY <1>t, <1>7 DEF ResendAnswers, ResendGivesUp, ResendTransientFailure, Requesting, NextOne, CopiesAreKnown, MailTypeOK
  <2>2. Accept \/ UNCHANGED <<known, box>>
    BY <1>7 DEF ResendAnswers, ResendGivesUp, ResendTransientFailure
  <2>3. /\ \/ current' = NoMessage /\ attempt' = 0
           \/ current' = current /\ attempt' \in 0..MaxAttempts
    <3>1. attempt < MaxAttempts => attempt + 1 \in 0..MaxAttempts
      BY <1>t DEF MailTypeOK
    <3> QED
      BY <1>7, <3>1 DEF ResendAnswers, ResendGivesUp, ResendTransientFailure, NextOne
  <2>4. CASE Accept
    <3>1. PICK M : M = IF current \in known THEN {} ELSE {current}
      OBVIOUS
    <3>2. M \subseteq Mailboxes \ Skipped /\ \A m \in M : box[m] = 0
      BY <1>t, <2>1, <3>1 DEF CopiesAreKnown
    <3>3. Deliver(M) /\ known' = known \cup {current}
      BY <2>4, <3>1 DEF Accept
    <3>4. /\ box' \in [Mailboxes -> 0..1] /\ \A k \in Skipped : box'[k] = 0
          /\ \A k \in Mailboxes : box'[k] = IF k \in M THEN 1 ELSE box[k]
      BY <1>t, <3>2, <3>3, Delivered
    <3> QED
      BY <1>t, <2>1, <2>3, <3>1, <3>3, <3>4 DEF MailInv, MailTypeOK, CopiesAreKnown
  <2>5. CASE UNCHANGED <<known, box>>
    BY <1>t, <2>1, <2>3, <2>5 DEF MailInv, MailTypeOK, CopiesAreKnown
  <2> QED
    BY <2>2, <2>4, <2>5
<1>8. CASE UNCHANGED mailVars
  BY <1>t, <1>8 DEF mailVars, MailInv, MailTypeOK, CopiesAreKnown
<1> QED
  BY <1>1, <1>2, <1>3, <1>4, <1>5, <1>6, <1>7, <1>8 DEF MailNext

\* Whatever provider sends it, however often a request is repeated that may
\* have been accepted, nobody gets a second copy of a message and those who
\* are skipped get none; what Mailgun or Resend report as sent was tried for
\* every recipient.
THEOREM OneCopyForEverybody == MailSpec => []MailTypeOK
<1>1. MailInit => MailInv
  BY MailAssumption DEF MailInit, MailInv, MailTypeOK, CopiesAreKnown
<1>2. MailInv => MailTypeOK
  BY DEF MailInv
<1> QED
  BY <1>1, <1>2, StepMail, PTL DEF MailSpec
=============================================================================
