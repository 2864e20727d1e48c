---------------------------- MODULE TenantSchema ----------------------------
(***************************************************************************)
(* The tables with rows of a tenant, how they refer to each other, and     *)
(* what cmd.DeleteTenant does to them (postgres/tenant_deletion.go and the *)
(* foreign keys of migrations/).  A table is either populated for the      *)
(* tenant or empty: each statement empties one, or fails.                  *)
(***************************************************************************)
EXTENDS Naturals, Sequences, SequencesExt

\* deleteTenant empties these in order; "reactions" goes first, by its
\* comments, and the tenant's own row last.
TablesInOrder == <<
  "reactions",
  "attachments", "mention_notifications", "notifications", "post_subscribers", "post_votes",
  "post_tags", "comments", "posts", "tags", "email_verifications", "user_providers",
  "user_settings", "webhooks", "events", "blobs", "oauth_providers", "tenant_providers",
  "oauth_signin_handoffs", "oauth_refresh_tokens", "oauth_codes", "oauth_clients", "users",
  "tenants_billing", "tenants">>

\* Tables that came later and are not among them.
OtherTables == {"statuses", "scorecard_fields", "scorecards", "post_internal_notes",
                "products", "ai_agents", "idea_briefs"}

Tables == ToSet(TablesInOrder) \cup OtherTables

\* NO ACTION: a row that is referred to cannot be deleted.
RefersTo ==
  [u \in Tables |->
    CASE u = "reactions" -> {"comments", "users"}
      [] u = "comments" -> {"posts", "users", "tenants"}
      [] u = "attachments" -> {"posts", "comments", "users", "tenants"}
      [] u = "mention_notifications" -> {"comments", "users", "tenants"}
      [] u \in {"notifications", "post_subscribers", "post_votes"} -> {"posts", "users", "tenants"}
      [] u = "post_tags" -> {"posts", "tags", "users", "tenants"}
      [] u \in {"posts", "email_verifications", "user_providers", "user_settings",
                "oauth_signin_handoffs", "oauth_refresh_tokens", "oauth_codes"} -> {"users", "tenants"}
      [] u \in {"tags", "webhooks", "events", "blobs", "oauth_providers", "oauth_clients",
                "users", "tenants_billing"} -> {"tenants"}
      [] u \in {"scorecards", "post_internal_notes", "idea_briefs"} -> {"users"}
      [] OTHER -> {}]

\* ON DELETE CASCADE: these rows go with the row they refer to.
GoesWith ==
  [u \in Tables |->
    CASE u \in {"post_internal_notes", "idea_briefs"} -> {"posts", "tenants"}
      [] u \in OtherTables \cup {"tenant_providers"} -> {"tenants"}
      [] OTHER -> {}]

\* The order of the DELETEs of cmd.DeleteTenant.
ParentsFirst == Reverse(TablesInOrder)

DeletionOrder == TablesInOrder

\* Those of the populated tables that still have rows after i DELETEs.
RowsLeft(populated, i) ==
  {u \in populated : \A j \in 1..i : DeletionOrder[j] # u /\ DeletionOrder[j] \notin GoesWith[u]}

\* cmd.DeleteTenant: no DELETE takes rows that others still refer to, and the
\* last one leaves nothing.
DeletesAllRows(populated) ==
  LET n == Len(DeletionOrder)
  IN /\ \A i \in 1..n : \A u \in RowsLeft(populated, i) : DeletionOrder[i] \notin RefersTo[u]
     /\ RowsLeft(populated, n) = {}
=============================================================================
