--------------------------- MODULE TenantDeletion ---------------------------
(***************************************************************************)
(* Deleting a whole tenant: the owner's request with its hour of grace,    *)
(* the two ways to change one's mind (handlers/danger_zone.go), and the    *)
(* job that cancels the subscription at Stripe, wipes the blobs and        *)
(* deletes the rows (jobs/delete_scheduled_tenants_job.go,                 *)
(* postgres/tenant_deletion.go), beside the tenant's billing and uploads.  *)
(*                                                                         *)
(* Only the last of the three is undone when the run fails: Stripe and,    *)
(* unless the blobs live in the database, the blob store forget nothing    *)
(* back.  One run works at a time (module Jobs); it may fail or die        *)
(* anywhere, and the next one starts over.                                 *)
(***************************************************************************)
EXTENDS Billing, TenantSchema

CONSTANTS
  Scoring,    \* the tenants that have saved scorecards
  Blobs,      \* keys of blobs a tenant may store
  Backends,   \* the blob stores considered: "fs", "s3", "sql"
  ListLimit,  \* how many blobs one listing of S3 returns (1000)
  Keys,       \* cancel keys, each generated once
  NoKey,
  Never,      \* no time
  Grace,      \* the grace period, in steps of the clock
  MaxTime     \* bound: where the clock stops

ASSUME DeletionAssumption ==
  /\ Scoring \subseteq Tenants
  /\ NoKey \notin Keys
  /\ Never \notin Nat
  /\ Grace \in Nat \ {0} /\ MaxTime \in Nat /\ ListLimit \in Nat

VARIABLES
  now,        \* the clock
  due,        \* due[t] (tenants.scheduled_deletion_at)
  key,        \* key[t] (tenants.deletion_cancel_key)
  mailed,     \* the keys that were mailed to an owner
  backend,    \* the configured blob store
  blobs,      \* blobs[t]: what the store holds for t
  uploads,    \* uploads of requests in flight: <<tenant, blob>>
  job,        \* the run at work
  doomed,     \* history: the tenants whose time came while their deletion was scheduled
  stripped    \* history: the tenants the job took something irreplaceable from

jobVars == <<job, stripped>>
deletionVars == <<now, due, key, mailed, backend, blobs, uploads, doomed, jobVars>>
tenantVars == <<deletionVars, billingVars>>

Idle == [at |-> "idle", tenant |-> Nobody, left |-> {}, mails |-> FALSE]
JobSteps == {"idle", "cancel", "list", "wipe", "mail", "commit"}

DeletionTypeOK ==
  /\ BillingTypeOK
  /\ now \in 0..MaxTime
  /\ due \in [Tenants -> Nat \cup {Never}]
  /\ key \in [Tenants -> Keys \cup {NoKey}]
  /\ mailed \subseteq Keys
  /\ backend \in Backends
  /\ blobs \in [Tenants -> SUBSET Blobs]
  /\ uploads \subseteq Tenants \X Blobs
  /\ job \in [at : JobSteps, tenant : Tenants \cup {Nobody}, left : SUBSET Blobs, mails : BOOLEAN]
  /\ doomed \subseteq Tenants
  /\ stripped \subseteq Tenants

DeletionInit ==
  /\ BillingInit
  /\ now = 0
  /\ due = [t \in Tenants |-> Never]
  /\ key = [t \in Tenants |-> NoKey]
  /\ mailed = {}
  /\ backend \in Backends
  /\ blobs = [t \in Tenants |-> {}]
  /\ uploads = {}
  /\ job = Idle
  /\ doomed = {}
  /\ stripped = {}

Due(t) == due[t] # Never /\ due[t] <= now

-----------------------------------------------------------------------------
(* The danger zone                                                         *)

\* A change of mind spares the tenant, unless a run has taken it, or some of
\* what it had, already.
Spared(t) == IF t \in {job.tenant} \cup stripped THEN doomed ELSE doomed \ {t}

\* RequestTenantDeletion: the owner, on a hosted instance; a second request
\* starts the grace period again and replaces the key that was mailed.
RequestTenantDeletion(t, k) ==
  /\ exists[t]
  /\ k \notin mailed
  /\ now + Grace <= MaxTime
  /\ due' = [due EXCEPT ![t] = now + Grace]
  /\ key' = [key EXCEPT ![t] = k]
  /\ mailed' = mailed \cup {k}
  /\ doomed' = Spared(t)
  /\ UNCHANGED <<now, backend, blobs, uploads, jobVars, billingVars>>

\* An administrator of the hosting service removes a site: no key, no mail.
ScheduleByHost(t) ==
  /\ exists[t]
  /\ due[t] = Never
  /\ due' = [due EXCEPT ![t] = now]
  /\ doomed' = doomed \cup {t}
  /\ UNCHANGED <<now, key, mailed, backend, blobs, uploads, jobVars, billingVars>>

UnscheduleKey(t) ==
  /\ key' = [key EXCEPT ![t] = NoKey]
  /\ doomed' = Spared(t)
  /\ UNCHANGED <<now, due, mailed, backend, blobs, uploads, jobVars, billingVars>>

\* cancelTenantDeletion
Unschedule(t) ==
  /\ due' = [due EXCEPT ![t] = Never]
  /\ key' = [key EXCEPT ![t] = NoKey]
  /\ doomed' = Spared(t)
  /\ UNCHANGED <<now, mailed, backend, blobs, uploads, jobVars, billingVars>>

CancelTenantDeletionByOwner(t) == exists[t] /\ due[t] # Never /\ Unschedule(t)

\* CancelTenantDeletion: whoever has a key that is still on record.
CancelTenantDeletion(k) == \E t \in Tenants : exists[t] /\ key[t] = k /\ Unschedule(t)

-----------------------------------------------------------------------------
(* Uploads (services/blob/{fs,s3,sql}): a request that loaded its tenant   *)
(* stores a blob later; in the database the row needs its tenant.          *)
BeginUpload(t, b) ==
  /\ exists[t]
  /\ b \notin blobs[t]
  /\ uploads' = uploads \cup {<<t, b>>}
  /\ UNCHANGED <<now, due, key, mailed, backend, blobs, doomed, jobVars, billingVars>>

StoreBlob(t, b) ==
  /\ <<t, b>> \in uploads
  /\ uploads' = uploads \ {<<t, b>>}
  /\ blobs' = IF backend = "sql" /\ ~exists[t] THEN blobs ELSE [blobs EXCEPT ![t] = @ \cup {b}]
  /\ UNCHANGED <<now, due, key, mailed, backend, doomed, jobVars, billingVars>>

-----------------------------------------------------------------------------
(* DeleteScheduledTenantsJobHandler                                        *)

\* getTenantsPendingDeletion, and the owner for the mail: the run that died
\* before is forgotten, the tenant whose time came first is taken.
Pending == {t \in Tenants : exists[t] /\ Due(t)}

PickTenant(t, hasOwner) ==
  /\ job.at = "idle"
  /\ t \in Pending
  /\ \A u \in Pending : due[t] <= due[u]
  /\ job' = [at |-> "cancel", tenant |-> t, left |-> {}, mails |-> hasOwner /\ key[t] # NoKey]
  /\ UNCHANGED <<now, due, key, mailed, backend, blobs, uploads, doomed, stripped, billingVars>>

\* cancelStripeSubscription: what is on record at Stripe now; one that is
\* missing there counts as cancelled, and Paddle is not asked.
CancelAtStripe ==
  LET s == billing[job.tenant]
  IN /\ job.at = "cancel"
     /\ job' = [job EXCEPT !.at = "list"]
     /\ IF s \in Sessions /\ sub[s] \in {"active", "incomplete"}
          THEN /\ sub' = [sub EXCEPT ![s] = "ended"]
               /\ events' = events \cup {Deleted(s)}
               /\ stripped' = stripped \cup {job.tenant}
          ELSE UNCHANGED <<sub, events, stripped>>
     /\ UNCHANGED <<now, due, key, mailed, backend, blobs, uploads, doomed,
                    exists, pro, billing, paddle, activating, payer, made, untagged, born>>

\* ListBlobs: a listing that S3 cut off is answered with no error and no keys.
Listed(t) == IF backend = "s3" /\ Cardinality(blobs[t]) > ListLimit THEN {} ELSE blobs[t]

ListBlobs ==
  /\ job.at = "list"
  /\ job' = [job EXCEPT !.at = "wipe", !.left = Listed(job.tenant)]
  /\ UNCHANGED <<now, due, key, mailed, backend, blobs, uploads, doomed, stripped, billingVars>>

\* DeleteBlob for each; in the database it is part of the transaction, and
\* all of them go with the rows.
WipeBlob(b) ==
  /\ job.at = "wipe"
  /\ b \in job.left
  /\ job' = [job EXCEPT !.left = @ \ {b}]
  /\ IF backend = "sql"
       THEN UNCHANGED <<blobs, stripped>>
       ELSE /\ blobs' = [blobs EXCEPT ![job.tenant] = @ \ {b}]
            /\ stripped' = stripped \cup {job.tenant}
  /\ UNCHANGED <<now, due, key, mailed, backend, uploads, doomed, billingVars>>

\* DeleteTenant, not committed yet.
Populated(t) == IF t \in Scoring THEN Tables ELSE Tables \ {"scorecards"}
Deletable == {t \in Tenants : DeletesAllRows(Populated(t))}

DeleteTenant ==
  /\ job.at = "wipe"
  /\ job.left = {}
  /\ job.tenant \in Deletable
  /\ job' = [job EXCEPT !.at = IF job.mails THEN "mail" ELSE "commit"]
  /\ UNCHANGED <<now, due, key, mailed, backend, blobs, uploads, doomed, stripped, billingVars>>

RunLeftOver ==
  /\ job.at # "idle"
  /\ job' = [job EXCEPT !.at = "failed"]
  /\ UNCHANGED <<now, due, key, mailed, backend, blobs, uploads, doomed, stripped, billingVars>>

\* Any of its steps fails, or its server dies: the transaction is rolled back.
\* DeleteTenant fails when its order does not suit the rows, or when a request
\* of the tenant adds a row between two of its statements.
RunFails ==
  /\ job.at # "idle"
  /\ job' = Idle
  /\ UNCHANGED <<now, due, key, mailed, backend, blobs, uploads, doomed, stripped, billingVars>>

\* Committed: at the end of the run, or, when the completion mail panics for
\* want of a request, by the unlock of a run that is recorded as failed.
Commit ==
  LET t == job.tenant
  IN /\ job.at \in {"mail", "commit"}
     /\ job' = Idle
     /\ exists' = [exists EXCEPT ![t] = FALSE]
     /\ pro' = [pro EXCEPT ![t] = FALSE]
     /\ billing' = [billing EXCEPT ![t] = Nobody]
     /\ paddle' = [paddle EXCEPT ![t] = FALSE]
     /\ due' = [due EXCEPT ![t] = Never]
     /\ key' = [key EXCEPT ![t] = NoKey]
     /\ blobs' = IF backend = "sql" THEN [blobs EXCEPT ![t] = {}] ELSE blobs
     /\ stripped' = stripped \cup {t}
     /\ UNCHANGED <<now, mailed, backend, uploads, doomed, activating, stripeVars>>

JobStep ==
  \/ \E t \in Tenants : \E hasOwner \in BOOLEAN : PickTenant(t, hasOwner)
  \/ CancelAtStripe \/ ListBlobs \/ (\E b \in Blobs : WipeBlob(b))
  \/ DeleteTenant \/ Commit

-----------------------------------------------------------------------------
Tick ==
  /\ now < MaxTime
  /\ now' = now + 1
  /\ doomed' = doomed \cup {t \in Tenants : due[t] # Never /\ due[t] <= now + 1}
  /\ UNCHANGED <<due, key, mailed, backend, blobs, uploads, jobVars, billingVars>>

OwnerStep ==
  \/ \E t \in Tenants : \/ \E k \in Keys : RequestTenantDeletion(t, k)
                        \/ CancelTenantDeletionByOwner(t) \/ ScheduleByHost(t)
  \/ \E k \in Keys : CancelTenantDeletion(k)

UploadStep == \E t \in Busy, b \in Blobs : BeginUpload(t, b) \/ StoreBlob(t, b)

DeletionNext ==
  \/ BillingNext /\ UNCHANGED deletionVars
  \/ OwnerStep \/ UploadStep \/ JobStep \/ RunFails \/ Tick

\* The cron starts a run again and again, every run ends, and every step of one
\* that can succeed does if it is tried often enough; nothing is assumed of owners, customers or Stripe.
JobFairness ==
  /\ WF_tenantVars(Tick)
  /\ WF_tenantVars(RunFails)
  /\ WF_tenantVars(\E t \in Tenants, hasOwner \in BOOLEAN : PickTenant(t, hasOwner))
  /\ SF_tenantVars(CancelAtStripe)
  /\ SF_tenantVars(ListBlobs)
  /\ SF_tenantVars(\E b \in Blobs : WipeBlob(b))
  /\ SF_tenantVars(DeleteTenant)
  /\ SF_tenantVars(Commit)

DeletionSpec == DeletionInit /\ [][DeletionNext]_tenantVars /\ JobFairness

-----------------------------------------------------------------------------
(* Properties                                                              *)

\* Both ways to change one's mind write the row that the job reads, and the
\* job takes things that no rollback brings back: only a tenant whose time
\* came, with nobody having called it off by then, ever loses its
\* subscription, a blob or its rows.
OnlyDoomedTenantsLose == stripped \subseteq doomed

\* "permanently deletes tenants whose grace period has elapsed": whatever
\* fails on the way, and whoever is ahead in the queue, a tenant whose time
\* came is deleted, unless it is given more time.
DoomedTenantsGo ==
  \A t \in Tenants : exists[t] /\ Due(t) ~> ~exists[t] \/ ~Due(t)
=============================================================================
