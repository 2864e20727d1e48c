------------------------------ MODULE Billing ------------------------------
(***************************************************************************)
(* How a tenant gets and loses the Pro plan (handlers/webhooks/stripe.go,  *)
(* handlers/billing.go, services/sqlstore/postgres/billing.go).            *)
(*                                                                         *)
(* An administrator opens a checkout session at Stripe; when the customer  *)
(* has completed it, Stripe posts an event, and the handler first creates  *)
(* the subscription at Stripe and then records it in the database.  Events *)
(* are delivered at least once, in any order: the handler may fail after   *)
(* it created the subscription, or its answer may get lost, and Stripe     *)
(* then delivers the event again.  Sites that subscribed at Paddle, the    *)
(* payment service before Stripe, keep that record until they move over;   *)
(* nothing in the code adds one or ends one.                               *)
(***************************************************************************)
EXTENDS Naturals, FiniteSets

CONSTANTS
  Tenants,    \* the sites of a hosted instance
  Sessions,   \* the checkout sessions that may be opened
  Paddlers,   \* the tenants that may have a subscription at Paddle
  Busy,       \* bound: the tenants whose checkouts and uploads are followed
  Nobody      \* no tenant, no session

ASSUME BillingAssumption ==
  Nobody \notin Tenants \cup Sessions /\ Busy \subseteq Tenants /\ Paddlers \subseteq Tenants

VARIABLES
  exists,     \* exists[t]: the row of tenant t
  pro,        \* pro[t] (tenants.is_pro)
  billing,    \* billing[t]: the session whose subscription is recorded (tenants_billing.stripe_subscription_id)
  paddle,     \* paddle[t]: a subscription at Paddle is (tenants_billing.paddle_subscription_id)
  payer,      \* Stripe, payer[s]: the tenant_id in session s's metadata, Nobody before it is opened
  made,       \* Stripe, made[s]: how many subscriptions were created for s
  untagged,   \* Stripe: the sessions whose subscription has no tenant_id in its metadata
  born,       \* Stripe, born[s]: the status a subscription of s was created with
  sub,        \* Stripe, sub[s]: the status of that subscription now
  events,     \* Stripe: the events that have not been acknowledged
  activating  \* the deliveries whose subscription exists and is not recorded yet

stripeVars == <<payer, made, untagged, born, sub, events>>
billingVars == <<exists, pro, billing, paddle, activating, stripeVars>>

Completed(s) == [kind |-> "checkout.session.completed", session |-> s]
Deleted(s) == [kind |-> "customer.subscription.deleted", session |-> s]
Events == {Completed(s) : s \in Sessions} \cup {Deleted(s) : s \in Sessions}

BillingTypeOK ==
  /\ exists \in [Tenants -> BOOLEAN]
  /\ pro \in [Tenants -> BOOLEAN]
  /\ billing \in [Tenants -> Sessions \cup {Nobody}]
  /\ paddle \in [Tenants -> BOOLEAN]
  /\ payer \in [Sessions -> Tenants \cup {Nobody}]
  /\ made \in [Sessions -> Nat]
  /\ untagged \subseteq Sessions
  /\ born \in [Sessions -> {"none", "active", "incomplete"}]
  /\ sub \in [Sessions -> {"none", "incomplete", "active", "ended"}]
  /\ events \subseteq Events
  /\ activating \subseteq Sessions

\* The sites as the migrations to is_pro and to Stripe left them: one that
\* subscribed at Paddle is marked Pro if that subscription was active then.
BillingInit ==
  /\ exists = [t \in Tenants |-> TRUE]
  /\ \E subscribers \in SUBSET Paddlers : \E active \in SUBSET subscribers :
       /\ paddle = [t \in Tenants |-> t \in subscribers]
       /\ pro = [t \in Tenants |-> t \in active]
  /\ billing = [t \in Tenants |-> Nobody]
  /\ payer = [s \in Sessions |-> Nobody]
  /\ made = [s \in Sessions |-> 0]
  /\ untagged = {}
  /\ born = [s \in Sessions |-> "none"]
  /\ sub = [s \in Sessions |-> "none"]
  /\ events = {}
  /\ activating = {}

-----------------------------------------------------------------------------
(* Stripe                                                                  *)

\* A checkout in setup mode: the customer's card is known, nothing is paid.
CreateCheckout(t, s) ==
  /\ exists[t]
  /\ payer[s] = Nobody
  /\ payer' = [payer EXCEPT ![s] = t]
  /\ events' = events \cup {Completed(s)}
  /\ UNCHANGED <<exists, pro, billing, paddle, activating, made, untagged, born, sub>>

\* The legacy checkout in subscription mode: Stripe made the subscription
\* itself, tagged with the tenant or not.
LegacyCheckout(t, s, tagged) ==
  /\ exists[t]
  /\ payer[s] = Nobody
  /\ payer' = [payer EXCEPT ![s] = t]
  /\ made' = [made EXCEPT ![s] = 1]
  /\ untagged' = IF tagged THEN untagged ELSE untagged \cup {s}
  /\ born' = [born EXCEPT ![s] = "active"]
  /\ sub' = [sub EXCEPT ![s] = "active"]
  /\ events' = events \cup {Completed(s)}
  /\ UNCHANGED <<exists, pro, billing, paddle, activating>>

\* The customer cancels in the portal, or Stripe gives up on collecting.
SubscriptionEnds(s) ==
  /\ sub[s] \in {"active", "incomplete"}
  /\ sub' = [sub EXCEPT ![s] = "ended"]
  /\ events' = events \cup {Deleted(s)}
  /\ UNCHANGED <<exists, pro, billing, paddle, activating, payer, made, untagged, born>>

\* Collecting for an incomplete subscription succeeds later; no event that
\* the handler looks at says so.
CollectLater(s) ==
  /\ sub[s] = "incomplete"
  /\ sub' = [sub EXCEPT ![s] = "active"]
  /\ UNCHANGED <<exists, pro, billing, paddle, activating, payer, made, untagged, born, events>>

-----------------------------------------------------------------------------
(* IncomingStripeWebhook                                                   *)

\* subscription.New under the session's idempotency key: the first call makes
\* a subscription, and every later one is answered as the first one was.
NewSubscriptionWithoutKey(s, status) ==
  /\ made' = [made EXCEPT ![s] = @ + 1]
  /\ born' = [born EXCEPT ![s] = status]
  /\ sub' = [sub EXCEPT ![s] = status]

NewSubscription(s, status) ==
  IF made[s] > 0
  THEN status = born[s] /\ UNCHANGED <<made, born, sub>>
  ELSE NewSubscriptionWithoutKey(s, status)

\* handleSetupCheckoutCompleted, up to the subscription: a charge that failed
\* leaves it incomplete, and the event is acknowledged without activating.
CreateSubscription(s, status) ==
  /\ Completed(s) \in events
  /\ s \notin activating
  /\ NewSubscription(s, status)
  /\ IF status = "active"
       THEN activating' = activating \cup {s} /\ UNCHANGED events
       ELSE events' = events \ {Completed(s)} /\ UNCHANGED activating
  /\ UNCHANGED <<exists, pro, billing, paddle, payer, untagged>>

\* activateStripeSubscription: billing row (a foreign key to the tenant), which
\* forgets Paddle, and plan in one transaction.  acknowledged says whether the
\* answer gets through.
ActivatePlanOnly(s, acknowledged) ==
  /\ s \in activating
  /\ exists[payer[s]]
  /\ pro' = [pro EXCEPT ![payer[s]] = TRUE]
  /\ activating' = activating \ {s}
  /\ events' = IF acknowledged THEN events \ {Completed(s)} ELSE events
  /\ UNCHANGED <<exists, billing, paddle, payer, made, untagged, born, sub>>

Activate(s, acknowledged) ==
  /\ s \in activating
  /\ exists[payer[s]]
  /\ billing' = [billing EXCEPT ![payer[s]] = s]
  /\ paddle' = [paddle EXCEPT ![payer[s]] = FALSE]
  /\ pro' = [pro EXCEPT ![payer[s]] = TRUE]
  /\ activating' = activating \ {s}
  /\ events' = IF acknowledged THEN events \ {Completed(s)} ELSE events
  /\ UNCHANGED <<exists, payer, made, untagged, born, sub>>

\* The handler fails after the subscription was made, or the tenant is gone:
\* nothing is recorded, and Stripe will deliver the event again or give up.
ActivateFails(s, givesUp) ==
  /\ s \in activating
  /\ activating' = activating \ {s}
  /\ events' = IF givesUp THEN events \ {Completed(s)} ELSE events
  /\ UNCHANGED <<exists, pro, billing, paddle, payer, made, untagged, born, sub>>

\* handleSubscriptionDeleted with cancelStripeSubscription: whichever tagged
\* subscription ended, the tenant's record of one at Stripe is cleared, and
\* the plan is; an untagged one is acknowledged and nothing else.
CancelSubscription(s, acknowledged) ==
  LET t == payer[s]
  IN /\ Deleted(s) \in events
     /\ IF s \in untagged
          THEN UNCHANGED <<billing, pro>>
          ELSE /\ billing' = [billing EXCEPT ![t] = Nobody]
               /\ pro' = [pro EXCEPT ![t] = FALSE]
     /\ events' = IF acknowledged THEN events \ {Deleted(s)} ELSE events
     /\ UNCHANGED <<exists, paddle, activating, payer, made, untagged, born, sub>>

-----------------------------------------------------------------------------
StripeStep ==
  \E s \in Sessions :
    \/ \E t \in Busy : CreateCheckout(t, s) \/ (\E tagged \in BOOLEAN : LegacyCheckout(t, s, tagged))
    \/ SubscriptionEnds(s) \/ CollectLater(s)

WebhookStep ==
  \E s \in Sessions :
    \/ \E status \in {"active", "incomplete"} : CreateSubscription(s, status)
    \/ \E answered \in BOOLEAN : \/ Activate(s, answered) \/ ActivateFails(s, answered)
                                 \/ CancelSubscription(s, answered)

BillingNext == StripeStep \/ WebhookStep

-----------------------------------------------------------------------------
(* Properties                                                              *)

\* However often the event of a checkout is delivered, and wherever its
\* handler failed before, the customer gets one subscription for it.
OneSubscriptionPerCheckout == \A s \in Sessions : made[s] <= 1

\* The plan in effect: the flag, or a subscription at Paddle and none at Stripe
\* (Tenant.ToModel).
OnPro(t) == pro[t] \/ (paddle[t] /\ billing[t] = Nobody)

\* The flag and the two records of who pays for the plan are in two rows,
\* changed by events that may come twice, late, out of order or not at all,
\* while a site moves from Paddle to Stripe: a site is on the Pro plan exactly
\* as long as a subscription is on record, and never two are, so that nobody
\* has the plan with nothing that could be cancelled, and no record stays
\* behind that gives nothing.
ProIsOnRecord ==
  \A t \in Tenants :
    /\ OnPro(t) <=> billing[t] # Nobody \/ paddle[t]
    /\ ~(billing[t] # Nobody /\ paddle[t])
=============================================================================
