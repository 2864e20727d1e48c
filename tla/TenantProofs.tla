---------------------------- MODULE TenantProofs ----------------------------
(***************************************************************************)
(* Proofs about TenantDeletion and the Billing it runs beside, for any     *)
(* number of tenants, checkout sessions, blobs and keys, any blob store,   *)
(* any grace period and any length of a listing.                           *)
(*                                                                         *)
(* What the job takes is only taken from doomed tenants because a tenant   *)
(* that is due is doomed, and one that a run has picked stays doomed,      *)
(* whatever its owner does from then on: these two are the invariant.      *)
(***************************************************************************)
EXTENDS TenantDeletion, TLAPS

DueAreDoomed == \A t \in Tenants : Due(t) => t \in doomed

PickedIsDoomed == job.at # "idle" => job.tenant \in Tenants /\ job.tenant \in doomed

DoomInv == DueAreDoomed /\ PickedIsDoomed /\ OnlyDoomedTenantsLose

BooksInv == OneSubscriptionPerCheckout /\ ProIsOnRecord

TenantInv == DeletionTypeOK /\ BooksInv /\ DoomInv

LEMMA InitTenants == DeletionInit => TenantInv
<1> SUFFICES ASSUME DeletionInit PROVE TenantInv
  OBVIOUS
<1> USE BillingAssumption, DeletionAssumption
<1>1. DeletionTypeOK
  <2>1. BillingTypeOK
    BY DEF DeletionInit, BillingInit, BillingTypeOK
  <2>2. Idle \in [at : JobSteps, tenant : Tenants \cup {Nobody}, left : SUBSET Blobs, mails : BOOLEAN]
    BY DEF Idle, JobSteps
  <2> QED
    BY <2>1, <2>2 DEF DeletionInit, DeletionTypeOK
<1>2. BooksInv
  <2>1. PICK subscribers \in SUBSET Paddlers : \E active \in SUBSET subscribers :
          /\ paddle = [t \in Tenants |-> t \in subscribers]
          /\ pro = [t \in Tenants |-> t \in active]
    BY DEF DeletionInit, BillingInit
  <2>2. PICK active \in SUBSET subscribers : pro = [t \in Tenants |-> t \in active]
    BY <2>1
  <2>3. \A t \in Tenants : billing[t] = Nobody /\ (pro[t] => paddle[t])
    BY <2>1, <2>2 DEF DeletionInit, BillingInit
  <2>4. ProIsOnRecord
    BY <2>3 DEF ProIsOnRecord, OnPro
  <2> QED
    BY <2>4 DEF DeletionInit, BillingInit, BooksInv, OneSubscriptionPerCheckout
<1>3. DoomInv
  BY DEF DeletionInit, DoomInv, DueAreDoomed, PickedIsDoomed, OnlyDoomedTenantsLose, Due, Idle
<1> QED
  BY <1>1, <1>2, <1>3 DEF TenantInv

-----------------------------------------------------------------------------
(* Stripe and its events                                                   *)

\* Stripe answers every call under a session's idempotency key as it answered
\* the first.
LEMMA SubscriptionIsNew ==
  ASSUME BillingTypeOK, NEW s \in Sessions, NEW status \in {"active", "incomplete"},
         OneSubscriptionPerCheckout, NewSubscription(s, status)
  PROVE  /\ made' \in [Sessions -> Nat]
         /\ born' \in [Sessions -> {"none", "active", "incomplete"}]
         /\ sub' \in [Sessions -> {"none", "incomplete", "active", "ended"}]
         /\ OneSubscriptionPerCheckout'
<1>1. CASE made[s] > 0
  BY <1>1 DEF NewSubscription, BillingTypeOK, OneSubscriptionPerCheckout
<1>2. CASE ~(made[s] > 0)
  BY <1>2 DEF NewSubscription, NewSubscriptionWithoutKey, BillingTypeOK, OneSubscriptionPerCheckout
<1> QED
  BY <1>1, <1>2

\* Whatever Stripe, its customers and its events do, in any order.
LEMMA BillingKeeps ==
  ASSUME BillingTypeOK, BooksInv, BillingNext
  PROVE  BillingTypeOK' /\ BooksInv'
<1> USE BillingAssumption DEF BooksInv
<1>e. \A s \in Sessions : Completed(s) \in Events /\ Deleted(s) \in Events
  BY DEF Events
<1>1. ASSUME NEW s \in Sessions, NEW t \in Busy, CreateCheckout(t, s) PROVE BillingTypeOK' /\ BooksInv'
  BY <1>1, <1>e DEF CreateCheckout, BillingTypeOK, OneSubscriptionPerCheckout, ProIsOnRecord, OnPro
<1>2. ASSUME NEW s \in Sessions, NEW t \in Busy, NEW tagged \in BOOLEAN, LegacyCheckout(t, s, tagged)
      PROVE  BillingTypeOK' /\ BooksInv'
  BY <1>2, <1>e DEF LegacyCheckout, BillingTypeOK, OneSubscriptionPerCheckout, ProIsOnRecord, OnPro
<1>3. ASSUME NEW s \in Sessions, SubscriptionEnds(s) \/ CollectLater(s) PROVE BillingTypeOK' /\ BooksInv'
  BY <1>3, <1>e DEF SubscriptionEnds, CollectLater, BillingTypeOK, OneSubscriptionPerCheckout, ProIsOnRecord, OnPro
<1>4. ASSUME NEW s \in Sessions, NEW status \in {"active", "incomplete"}, CreateSubscription(s, status)
      PROVE BillingTypeOK' /\ BooksInv'
  BY <1>4, SubscriptionIsNew DEF CreateSubscription, BillingTypeOK, ProIsOnRecord, OnPro
<1>5. ASSUME NEW s \in Sessions, NEW answered \in BOOLEAN, Activate(s, answered) PROVE BillingTypeOK' /\ BooksInv'
  BY <1>5 DEF Activate, BillingTypeOK, OneSubscriptionPerCheckout, ProIsOnRecord, OnPro
<1>6. ASSUME NEW s \in Sessions, NEW givesUp \in BOOLEAN, ActivateFails(s, givesUp) PROVE BillingTypeOK' /\ BooksInv'
  BY <1>6 DEF ActivateFails, BillingTypeOK, OneSubscriptionPerCheckout, ProIsOnRecord, OnPro
<1>7. ASSUME NEW s \in Sessions, NEW answered \in BOOLEAN, CancelSubscription(s, answered)
      PROVE BillingTypeOK' /\ BooksInv'
  BY <1>7 DEF CancelSubscription, BillingTypeOK, OneSubscriptionPerCheckout, ProIsOnRecord, OnPro
<1> QED
  BY <1>1, <1>2, <1>3, <1>4, <1>5, <1>6, <1>7 DEF BillingNext, StripeStep, WebhookStep

\* Steps that are none of Stripe's.
LEMMA SameBooks ==
  ASSUME BillingTypeOK, BooksInv, UNCHANGED billingVars
  PROVE  BillingTypeOK' /\ BooksInv'
BY DEF billingVars, stripeVars, BillingTypeOK, BooksInv, OneSubscriptionPerCheckout, ProIsOnRecord, OnPro

-----------------------------------------------------------------------------
(* The owners, the uploads and the clock                                   *)

LEMMA OwnerKeeps ==
  ASSUME TenantInv, OwnerStep
  PROVE  TenantInv'
<1> USE DeletionAssumption DEF TenantInv, DoomInv
<1>b. UNCHANGED billingVars => BillingTypeOK' /\ BooksInv'
  BY SameBooks DEF DeletionTypeOK
<1>1. ASSUME NEW t \in Tenants, NEW k \in Keys, RequestTenantDeletion(t, k) PROVE TenantInv'
  <2>1. DeletionTypeOK'
    BY <1>1, <1>b DEF RequestTenantDeletion, DeletionTypeOK, jobVars, Spared
  <2>2. due' = [due EXCEPT ![t] = now + Grace] /\ now \in Nat /\ ~(now + Grace <= now)
    BY <1>1 DEF RequestTenantDeletion, DeletionTypeOK
  <2>3. DueAreDoomed'
    BY <1>1, <2>2 DEF RequestTenantDeletion, DeletionTypeOK, DueAreDoomed, Due, Spared
  <2>4. PickedIsDoomed' /\ OnlyDoomedTenantsLose'
    BY <1>1 DEF RequestTenantDeletion, jobVars, PickedIsDoomed, OnlyDoomedTenantsLose, Spared
  <2> QED
    BY <1>1, <1>b, <2>1, <2>3, <2>4 DEF RequestTenantDeletion
<1>2. ASSUME NEW t \in Tenants, ScheduleByHost(t) PROVE TenantInv'
  <2>1. DeletionTypeOK'
    BY <1>2, <1>b DEF ScheduleByHost, DeletionTypeOK, jobVars
  <2>2. DueAreDoomed' /\ PickedIsDoomed' /\ OnlyDoomedTenantsLose'
    BY <1>2 DEF ScheduleByHost, DeletionTypeOK, jobVars, DueAreDoomed, Due, PickedIsDoomed, OnlyDoomedTenantsLose
  <2> QED
    BY <1>2, <1>b, <2>1, <2>2 DEF ScheduleByHost
<1>3. ASSUME NEW t \in Tenants, Unschedule(t) PROVE TenantInv'
  <2>1. DeletionTypeOK'
    BY <1>3, <1>b DEF Unschedule, DeletionTypeOK, jobVars, Spared
  <2>2. DueAreDoomed' /\ PickedIsDoomed' /\ OnlyDoomedTenantsLose'
    BY <1>3 DEF Unschedule, DeletionTypeOK, jobVars, DueAreDoomed, Due, PickedIsDoomed, OnlyDoomedTenantsLose, Spared
  <2> QED
    BY <1>3, <1>b, <2>1, <2>2 DEF Unschedule
<1> QED
  BY <1>1, <1>2, <1>3 DEF OwnerStep, CancelTenantDeletionByOwner, CancelTenantDeletion

LEMMA UploadKeeps ==
  ASSUME TenantInv, UploadStep
  PROVE  TenantInv'
<1> USE BillingAssumption DEF TenantInv, DoomInv
<1>b. UNCHANGED billingVars => BillingTypeOK' /\ BooksInv'
  BY SameBooks DEF DeletionTypeOK
<1>1. ASSUME NEW t \in Busy, NEW b \in Blobs, BeginUpload(t, b) PROVE TenantInv'
  BY <1>1, <1>b DEF BeginUpload, DeletionTypeOK, jobVars, DueAreDoomed, Due, PickedIsDoomed, OnlyDoomedTenantsLose
<1>2. ASSUME NEW t \in Busy, NEW b \in Blobs, StoreBlob(t, b) PROVE TenantInv'
  <2>1. blobs' \in [Tenants -> SUBSET Blobs]
    BY <1>2 DEF StoreBlob, DeletionTypeOK
  <2> QED
    BY <1>2, <1>b, <2>1 DEF StoreBlob, DeletionTypeOK, jobVars, DueAreDoomed, Due, PickedIsDoomed, OnlyDoomedTenantsLose
<1> QED
  BY <1>1, <1>2 DEF UploadStep

LEMMA TickKeeps ==
  ASSUME TenantInv, Tick
  PROVE  TenantInv'
<1> USE DeletionAssumption DEF TenantInv, DoomInv
<1>b. UNCHANGED billingVars => BillingTypeOK' /\ BooksInv'
  BY SameBooks DEF DeletionTypeOK
<1>1. DeletionTypeOK'
  BY <1>b DEF Tick, DeletionTypeOK, jobVars
<1>2. DueAreDoomed' /\ PickedIsDoomed' /\ OnlyDoomedTenantsLose'
  BY DEF Tick, jobVars, DueAreDoomed, Due, PickedIsDoomed, OnlyDoomedTenantsLose
<1> QED
  BY <1>b, <1>1, <1>2 DEF Tick

-----------------------------------------------------------------------------
(* The job                                                                 *)

LEMMA JobKeeps ==
  ASSUME TenantInv, JobStep \/ RunFails
  PROVE  TenantInv'
<1> USE BillingAssumption, DeletionAssumption DEF TenantInv, DoomInv
<1>b. UNCHANGED billingVars => BillingTypeOK' /\ BooksInv'
  BY SameBooks DEF DeletionTypeOK
<1>d. UNCHANGED <<now, due, doomed>> => DueAreDoomed'
  BY DEF DueAreDoomed, Due
<1>j. job.at # "idle" => /\ job.tenant \in Tenants /\ job.tenant \in doomed
                         /\ blobs[job.tenant] \subseteq Blobs
  BY DEF PickedIsDoomed, DeletionTypeOK
<1>1. ASSUME NEW t \in Tenants, NEW hasOwner \in BOOLEAN, PickTenant(t, hasOwner) PROVE TenantInv'
  <2>1. t \in doomed
    BY <1>1 DEF PickTenant, Pending, DueAreDoomed
  <2>2. DeletionTypeOK'
    BY <1>1, <1>b DEF PickTenant, DeletionTypeOK, JobSteps
  <2>3. PickedIsDoomed' /\ OnlyDoomedTenantsLose'
    BY <1>1, <2>1 DEF PickTenant, PickedIsDoomed, OnlyDoomedTenantsLose
  <2> QED
    BY <1>1, <1>b, <1>d, <2>2, <2>3 DEF PickTenant
<1>2. CASE CancelAtStripe
  <2>1. BillingTypeOK' /\ BooksInv'
    BY <1>2 DEF CancelAtStripe, DeletionTypeOK, BillingTypeOK, BooksInv, OneSubscriptionPerCheckout,
       ProIsOnRecord, OnPro, Events, Deleted
  <2>2. DeletionTypeOK'
    BY <1>2, <1>j, <2>1 DEF CancelAtStripe, DeletionTypeOK, JobSteps
  <2>3. PickedIsDoomed' /\ OnlyDoomedTenantsLose'
    BY <1>2, <1>j DEF CancelAtStripe, DeletionTypeOK, PickedIsDoomed, OnlyDoomedTenantsLose
  <2> QED
    BY <1>2, <1>d, <2>1, <2>2, <2>3 DEF CancelAtStripe
<1>3. CASE ListBlobs
  <2>1. Listed(job.tenant) \subseteq Blobs
    BY <1>3, <1>j DEF ListBlobs, Listed
  <2>2. DeletionTypeOK'
    BY <1>3, <1>b, <2>1 DEF ListBlobs, DeletionTypeOK, JobSteps
  <2>3. PickedIsDoomed' /\ OnlyDoomedTenantsLose'
    BY <1>3, <1>j DEF ListBlobs, DeletionTypeOK, PickedIsDoomed, OnlyDoomedTenantsLose
  <2> QED
    BY <1>3, <1>b, <1>d, <2>2, <2>3 DEF ListBlobs
<1>4. ASSUME NEW b \in Blobs, WipeBlob(b) PROVE TenantInv'
  <2>1. blobs' \in [Tenants -> SUBSET Blobs]
    BY <1>4 DEF WipeBlob, DeletionTypeOK
  <2>2. stripped' \in {stripped, stripped \cup {job.tenant}}
    BY <1>4 DEF WipeBlob
  <2>3. DeletionTypeOK'
    BY <1>4, <1>b, <1>j, <2>1, <2>2 DEF WipeBlob, DeletionTypeOK, JobSteps
  <2>4. PickedIsDoomed' /\ OnlyDoomedTenantsLose'
    BY <1>4, <1>j, <2>2 DEF WipeBlob, DeletionTypeOK, PickedIsDoomed, OnlyDoomedTenantsLose
  <2> QED
    BY <1>4, <1>b, <1>d, <2>3, <2>4 DEF WipeBlob
<1>5. CASE DeleteTenant
  <2>1. DeletionTypeOK'
    BY <1>5, <1>b DEF DeleteTenant, DeletionTypeOK, JobSteps
  <2>2. PickedIsDoomed' /\ OnlyDoomedTenantsLose'
    BY <1>5, <1>j DEF DeleteTenant, DeletionTypeOK, PickedIsDoomed, OnlyDoomedTenantsLose
  <2> QED
    BY <1>5, <1>b, <1>d, <2>1, <2>2 DEF DeleteTenant
<1>6. CASE Commit
  <2>1. BillingTypeOK' /\ BooksInv'
    BY <1>6 DEF Commit, stripeVars, DeletionTypeOK, BillingTypeOK, BooksInv, OneSubscriptionPerCheckout, ProIsOnRecord, OnPro
  <2>2. DeletionTypeOK'
    <3>1. due' \in [Tenants -> Nat \cup {Never}] /\ key' \in [Tenants -> Keys \cup {NoKey}]
      BY <1>6 DEF Commit, DeletionTypeOK
    <3>2. blobs' \in [Tenants -> SUBSET Blobs]
      BY <1>6 DEF Commit, DeletionTypeOK
    <3>3. job' \in [at : JobSteps, tenant : Tenants \cup {Nobody}, left : SUBSET Blobs, mails : BOOLEAN]
      BY <1>6 DEF Commit, Idle, JobSteps
    <3>4. stripped' \subseteq Tenants
      BY <1>6, <1>j DEF Commit, DeletionTypeOK
    <3> QED
      BY <1>6, <2>1, <3>1, <3>2, <3>3, <3>4 DEF Commit, DeletionTypeOK
  <2>3. DueAreDoomed'
    BY <1>6 DEF Commit, DeletionTypeOK, DueAreDoomed, Due
  <2>4. PickedIsDoomed' /\ OnlyDoomedTenantsLose'
    BY <1>6, <1>j DEF Commit, Idle, PickedIsDoomed, OnlyDoomedTenantsLose
  <2> QED
    BY <2>1, <2>2, <2>3, <2>4
<1>7. CASE RunFails
  <2>1. job' \in [at : JobSteps, tenant : Tenants \cup {Nobody}, left : SUBSET Blobs, mails : BOOLEAN]
    BY <1>7 DEF RunFails, Idle, JobSteps
  <2> QED
    BY <1>7, <1>b, <1>d, <2>1 DEF RunFails, DeletionTypeOK, Idle, PickedIsDoomed, OnlyDoomedTenantsLose
<1> QED
  BY <1>1, <1>2, <1>3, <1>4, <1>5, <1>6, <1>7 DEF JobStep

LEMMA StepTenants == TenantInv /\ [DeletionNext]_tenantVars => TenantInv'
<1> SUFFICES ASSUME TenantInv, [DeletionNext]_tenantVars PROVE TenantInv'
  OBVIOUS
<1>1. CASE (BillingNext \/ UNCHANGED billingVars) /\ UNCHANGED deletionVars
  <2>1. BillingTypeOK' /\ BooksInv'
    BY <1>1, BillingKeeps, SameBooks DEF TenantInv, DeletionTypeOK
  <2>2. DeletionTypeOK' /\ DoomInv'
    BY <1>1, <2>1 DEF TenantInv, DeletionTypeOK, DoomInv, DueAreDoomed, Due, PickedIsDoomed,
       OnlyDoomedTenantsLose, deletionVars, jobVars
  <2> QED
    BY <2>1, <2>2 DEF TenantInv
<1> QED
  BY <1>1, OwnerKeeps, UploadKeeps, JobKeeps, TickKeeps DEF DeletionNext, tenantVars

LEMMA TenantsAlwaysInv == DeletionSpec => []TenantInv
BY InitTenants, StepTenants, PTL DEF DeletionSpec

-----------------------------------------------------------------------------
\* Every row, whatever Stripe, the owners, the uploads and the job do to it,
\* keeps its type.
THEOREM TenantsKeepTheirTypes == DeletionSpec => []DeletionTypeOK
<1>1. TenantInv => DeletionTypeOK
  BY DEF TenantInv
<1> QED
  BY <1>1, TenantsAlwaysInv, PTL

\* However often a completed checkout is delivered, and its handler fails:
\* one subscription.
THEOREM CheckoutsSubscribeOnce == DeletionSpec => []OneSubscriptionPerCheckout
<1>1. TenantInv => OneSubscriptionPerCheckout
  BY DEF TenantInv, BooksInv
<1> QED
  BY <1>1, TenantsAlwaysInv, PTL

\* Events that come twice, late or in any order, a move from Paddle to Stripe, and
\* the deletion of a tenant leave no plan in effect without its record, no record
\* without its plan, and never two records.
THEOREM ProIsAlwaysOnRecord == DeletionSpec => []ProIsOnRecord
<1>1. TenantInv => ProIsOnRecord
  BY DEF TenantInv, BooksInv
<1> QED
  BY <1>1, TenantsAlwaysInv, PTL

\* A tenant whose deletion was called off in time loses nothing, wherever the
\* job stands and however often it has failed.
THEOREM OnlyTheDoomedEverLose == DeletionSpec => []OnlyDoomedTenantsLose
<1>1. TenantInv => OnlyDoomedTenantsLose
  BY DEF TenantInv, DoomInv
<1> QED
  BY <1>1, TenantsAlwaysInv, PTL

-----------------------------------------------------------------------------
(* Tenants that are never deleted                                          *)

\* The users are deleted while the scorecards they created still refer to them.
LEMMA ScoringStays == \A t \in Scoring : t \notin Deletable
<1>1. \A populated : "scorecards" \in populated => ~DeletesAllRows(populated)
  <2> SUFFICES ASSUME NEW populated, "scorecards" \in populated, DeletesAllRows(populated) PROVE FALSE
    OBVIOUS
  <2>1. Len(DeletionOrder) = 25 /\ DeletionOrder[23] = "users"
    BY DEF DeletionOrder, TablesInOrder
  <2>2. \A j \in 1..23 : DeletionOrder[j] # "scorecards" /\ DeletionOrder[j] # "tenants"
    BY DEF DeletionOrder, TablesInOrder
  <2>3. "scorecards" \in OtherTables /\ "scorecards" \in Tables
    BY DEF OtherTables, Tables
  <2>4. GoesWith["scorecards"] = {"tenants"} /\ RefersTo["scorecards"] = {"users"}
    BY <2>3 DEF GoesWith, RefersTo, OtherTables
  <2>5. "scorecards" \in RowsLeft(populated, 23)
    BY <2>2, <2>4 DEF RowsLeft
  <2> QED
    BY <2>1, <2>4, <2>5 DEF DeletesAllRows
<1>2. "scorecards" \in Tables
  BY DEF OtherTables, Tables
<1> QED
  BY <1>1, <1>2 DEF Deletable, Populated

\* No run gets as far as a commit for a tenant whose rows cannot be deleted.
DeletableOnly ==
  /\ \A t \in Scoring : exists[t]
  /\ job.at \in {"mail", "commit"} => job.tenant \notin Scoring

LEMMA StepDeletable ==
  ASSUME DeletionTypeOK, DeletableOnly, [DeletionNext]_tenantVars
  PROVE  DeletableOnly'
<1>t. /\ job.at \in JobSteps
      /\ job = [at |-> job.at, tenant |-> job.tenant, left |-> job.left, mails |-> job.mails]
      /\ exists \in [Tenants -> BOOLEAN]
  BY DEF DeletionTypeOK, BillingTypeOK
<1>1. CASE BillingNext /\ UNCHANGED deletionVars
  BY <1>1 DEF BillingNext, StripeStep, WebhookStep, CreateCheckout, LegacyCheckout, SubscriptionEnds, CollectLater,
     CreateSubscription, Activate, ActivateFails, CancelSubscription, deletionVars, jobVars, DeletableOnly
<1>2. CASE OwnerStep \/ UploadStep \/ Tick \/ UNCHANGED tenantVars
  BY <1>2 DEF OwnerStep, RequestTenantDeletion, CancelTenantDeletionByOwner, ScheduleByHost, CancelTenantDeletion,
     Unschedule, UploadStep, BeginUpload, StoreBlob, Tick, jobVars, billingVars, tenantVars, deletionVars, DeletableOnly
<1>3. CASE RunFails
  BY <1>3 DEF RunFails, Idle, billingVars, DeletableOnly
<1>4. ASSUME NEW t \in Tenants, NEW hasOwner \in BOOLEAN, PickTenant(t, hasOwner) PROVE DeletableOnly'
  BY <1>4 DEF PickTenant, billingVars, DeletableOnly
<1>5. CASE CancelAtStripe
  BY <1>t, <1>5 DEF CancelAtStripe, DeletableOnly
<1>6. ASSUME NEW b \in Blobs, ListBlobs \/ WipeBlob(b) PROVE DeletableOnly'
  <2>1. exists' = exists /\ job'.at = "wipe"
    BY <1>t, <1>6 DEF ListBlobs, WipeBlob, billingVars
  <2> QED
    BY <2>1 DEF DeletableOnly
<1>7. CASE ListBlobs
  BY <1>t, <1>7 DEF ListBlobs, billingVars, DeletableOnly
<1>8. CASE DeleteTenant
  <2>1. exists' = exists /\ job'.tenant = job.tenant /\ job.tenant \in Deletable
    BY <1>t, <1>8 DEF DeleteTenant, billingVars
  <2> QED
    BY <2>1, ScoringStays DEF DeletableOnly
<1>9. CASE Commit
  BY <1>t, <1>9 DEF Commit, Idle, DeletableOnly
<1> QED
  BY <1>1, <1>2, <1>3, <1>4, <1>5, <1>6, <1>7, <1>8, <1>9 DEF DeletionNext, JobStep

\* Run tenants_stuck for any instance: a tenant with a scorecard is never deleted.
THEOREM ScoringTenantsStay == DeletionSpec => [](\A t \in Scoring : exists[t])
<1>1. DeletionInit => DeletableOnly
  BY DeletionAssumption DEF DeletionInit, BillingInit, Idle, DeletableOnly
<1>2. DeletableOnly => \A t \in Scoring : exists[t]
  BY DEF DeletableOnly
<1> QED
  BY <1>1, <1>2, StepDeletable, TenantsKeepTheirTypes, PTL DEF DeletionSpec
=============================================================================
