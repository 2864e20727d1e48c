----------------------------- MODULE MCTenants -----------------------------
(***************************************************************************)
(* Two tenants, one checkout session, one blob each and one cancel key.    *)
(* Where the blobs are has no part in who pays, so that the two are looked *)
(* at apart: with S3 nothing is uploaded, and the site that pays may have  *)
(* had a subscription at Paddle, or get one at Stripe that is not tagged   *)
(* with its id; with the other stores there are uploads and none of that.  *)
(***************************************************************************)
EXTENDS TenantDeletion

MCInit == DeletionInit /\ (backend # "s3" => \A t \in Tenants : ~paddle[t])

MCNext == DeletionNext /\ IF backend = "s3" THEN uploads' = {} ELSE untagged' = {}

MCSpec == MCInit /\ [][MCNext]_tenantVars /\ JobFairness
=============================================================================
