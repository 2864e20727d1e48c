------------------------------ MODULE Webhooks ------------------------------
(***************************************************************************)
(* Outgoing webhooks (services/webhook/webhook.go, handlers/webhook.go,    *)
(* services/sqlstore/postgres/webhook.go).  A task, or an administrator's  *)
(* test, calls hooks one after the other within its own transaction and    *)
(* marks each one that fails.  A mark locks the hook's row until that      *)
(* transaction ends, however long the calls that follow take: whoever      *)
(* wants to write the row waits.                                           *)
(***************************************************************************)
EXTENDS Naturals, FiniteSets

CONSTANTS
  Callers,            \* the tasks and tests that call hooks
  HookIds,            \* bound: the hooks there may be, in the order of their ids
  DisableOnFailure,   \* WEBHOOK_DISABLE_ON_FAILURE
  NoCalls, Nothing

ASSUME WebhooksAssumption ==
  /\ HookIds \subseteq Nat /\ IsFiniteSet(HookIds)
  /\ DisableOnFailure \in BOOLEAN /\ Nothing \notin HookIds

VARIABLES
  hooks,   \* hooks[h]: its status, "none" yet or "gone", and whether its
           \* templates compile; all are of one type
  calls    \* calls[r]: the hooks r has listed and not called yet, the one it
           \* is to mark, and those it has marked

webhookVars == <<hooks, calls>>

HookStatuses == {"enabled", "disabled", "failed"}

WebhooksTypeOK ==
  /\ hooks \in [HookIds -> [status : HookStatuses \cup {"none", "gone"}, compiles : BOOLEAN]]
  /\ calls \in [Callers -> [todo : SUBSET HookIds, mark : HookIds \cup {Nothing}, marked : SUBSET HookIds] \cup {NoCalls}]
  /\ \A r, q \in Callers : r # q /\ calls[r] # NoCalls /\ calls[q] # NoCalls => calls[r].marked \cap calls[q].marked = {}

WebhooksInit ==
  /\ hooks = [h \in HookIds |-> [status |-> "none", compiles |-> FALSE]]
  /\ calls = [r \in Callers |-> NoCalls]

Calling(r) == calls[r] # NoCalls
Exists(h) == hooks[h].status \in HookStatuses
\* The row of h is free for r to write.
Free(h, r) == \A q \in Callers \ {r} : Calling(q) => h \notin calls[q].marked
Unlocked(h) == \A q \in Callers : Calling(q) => h \notin calls[q].marked

-----------------------------------------------------------------------------
(* the administrators                                                      *)

\* CreateEditWebhook.Validate: one that is not enabled may be anything.
MaySave(status, compiles) == status = "enabled" => compiles

Save(h, status, compiles) == hooks' = [hooks EXCEPT ![h] = [status |-> status, compiles |-> compiles]]

\* Any status goes for a new one.
CreateWebhook(h, status, compiles) ==
  /\ hooks[h].status = "none" /\ MaySave(status, compiles)
  /\ Save(h, status, compiles)
  /\ UNCHANGED calls

\* Whatever its status has become since the page was shown; "failed" is saved
\* as "disabled".
UpdateWebhook(h, status, compiles) ==
  /\ Exists(h) /\ Unlocked(h) /\ MaySave(status, compiles)
  /\ Save(h, IF status = "failed" THEN "disabled" ELSE status, compiles)
  /\ UNCHANGED calls

DeleteWebhook(h) ==
  /\ Exists(h) /\ Unlocked(h)
  /\ Save(h, "gone", FALSE)
  /\ UNCHANGED calls

-----------------------------------------------------------------------------
(* the calls                                                               *)

Begin(r, todo) ==
  /\ ~Calling(r) /\ todo # {}
  /\ calls' = [calls EXCEPT ![r] = [todo |-> todo, mark |-> Nothing, marked |-> {}]]
  /\ UNCHANGED hooks

ListActiveWebhooks == {h \in HookIds : hooks[h].status = "enabled"}

\* All of a task's calls rest on one listing.
TriggerWebhooks(r) == Begin(r, ListActiveWebhooks)

\* Whatever its status
TestWebhook(r, h) == Exists(h) /\ Begin(r, {h})

AnyHook(r, h) == h \in calls[r].todo

\* ORDER BY id
NextHook(r, h) == h \in calls[r].todo /\ \A g \in calls[r].todo : h <= g

Called(r, h, mark) ==
  /\ Calling(r) /\ calls[r].mark = Nothing /\ NextHook(r, h)
  /\ calls' = [calls EXCEPT ![r].todo = @ \ {h}, ![r].mark = mark]
  /\ UNCHANGED hooks

CallSucceeds(r, h) == Called(r, h, Nothing)

\* A template that does not fit, an address that is refused, no answer, or an
\* answer from 400 on
CallFails(r, h) == Called(r, h, IF DisableOnFailure THEN h ELSE Nothing)

\* markWebhookAsFailed: whatever has been saved since the listing, and of no
\* effect on a hook that was deleted.
MarkWebhookAsFailed(r) ==
  LET h == calls[r].mark IN
  /\ Calling(r) /\ h # Nothing /\ Free(h, r)
  /\ calls' = [calls EXCEPT ![r].mark = Nothing,
                            ![r].marked = IF Exists(h) THEN @ \cup {h} ELSE @]
  /\ UNCHANGED hooks

CommitCalls(r) ==
  /\ Calling(r) /\ calls[r].todo = {} /\ calls[r].mark = Nothing
  /\ hooks' = [h \in HookIds |-> IF h \in calls[r].marked THEN [hooks[h] EXCEPT !.status = "failed"] ELSE hooks[h]]
  /\ calls' = [calls EXCEPT ![r] = NoCalls]

\* An error of the database ends the calls; that, or an error of what follows,
\* undoes the marks.
RollbackCalls(r) ==
  /\ Calling(r)
  /\ calls' = [calls EXCEPT ![r] = NoCalls]
  /\ UNCHANGED hooks

WebhooksNext ==
  \/ \E h \in HookIds : \/ \E status \in HookStatuses, compiles \in BOOLEAN :
                             CreateWebhook(h, status, compiles) \/ UpdateWebhook(h, status, compiles)
                        \/ DeleteWebhook(h)
  \/ \E r \in Callers : \/ TriggerWebhooks(r) \/ MarkWebhookAsFailed(r) \/ CommitCalls(r) \/ RollbackCalls(r)
                        \/ \E h \in HookIds : TestWebhook(r, h) \/ CallSucceeds(r, h) \/ CallFails(r, h)

WebhooksSpec == WebhooksInit /\ [][WebhooksNext]_webhookVars

-----------------------------------------------------------------------------
Waits(r, q) == /\ Calling(r) /\ Calling(q) /\ r # q
               /\ calls[r].mark # Nothing /\ calls[r].mark \in calls[q].marked

\* Tasks that call the same hooks at the same time, and find them failing, wait
\* for each other's marks, but never in a circle: the database would abort one
\* of them, and what it had done would be lost.  They mark in the order of ids.
MarkingNeverDeadlocks ==
  \A R \in (SUBSET Callers) \ {{}} : \E r \in R : \A q \in R : ~Waits(r, q)
=============================================================================
