----------------------------- MODULE Migrations -----------------------------
(***************************************************************************)
(* The five revisions of backend/alembic/versions and what each one's        *)
(* upgrade() creates, a table by its name and a later column of users as      *)
(* "users.<column>"; what the bootstrap script adds to users, and the         *)
(* revision that api/core/alembic_bootstrap.py reads off a database.          *)
(***************************************************************************)

INITIAL_SCHEMA_REVISION == "1e4c69cd0c11"
TOTP_REVISION == "370e89b14c7c"
HEAD_REVISION == "b9f3a2c1d8e7"
WORKSPACE_REVISION == "5d9f6e2a4c31"
BRANDING_REVISION == "a1b2c3d4e5f6"

Revisions == {INITIAL_SCHEMA_REVISION, TOTP_REVISION, HEAD_REVISION,
              WORKSPACE_REVISION, BRANDING_REVISION}

\* None, as a down_revision and as the answer of select_revision_to_stamp.
NoRevision == "none"

\* down_revision: the workspace and the branding files both name b9f3a2c1d8e7.
Parent == [r \in Revisions |->
    CASE r = INITIAL_SCHEMA_REVISION -> NoRevision
      [] r = TOTP_REVISION -> INITIAL_SCHEMA_REVISION
      [] r = HEAD_REVISION -> TOTP_REVISION
      [] OTHER -> HEAD_REVISION]

\* A revision and those it comes after: in every set that holds it and, with a revision,
\* that revision's parent.
Chain == [r \in Revisions |->
    {x \in Revisions : \A S \in SUBSET Revisions :
        (r \in S /\ \A y \in S : Parent[y] \in S \cup {NoRevision}) => x \in S}]

\* users, with the columns that the bootstrap script can add.
InitialUsers ==
    {"users", "users.full_name", "users.plan", "users.is_active", "users.is_verified",
     "users.is_admin", "users.stripe_customer_id", "users.credits", "users.password_reset_token",
     "users.password_reset_expires", "users.created_at", "users.updated_at"}

InitialSchema == InitialUsers \cup
    {"webhook_events", "audit_logs", "content_clones", "conversations", "credit_ledger",
     "device_sessions", "lead_profiles", "outreach_campaigns", "subscriptions", "team_members",
     "usage_records", "user_notifications", "outreach_messages"}

TotpColumns == {"users.totp_secret", "users.totp_enabled"}

HeadOnlyColumns ==
    {"users.email_verified", "users.email_verification_token", "users.email_verification_expires"}

UserModules == {"user_modules"} \cup HeadOnlyColumns

WorkspaceBilling ==
    {"workspaces", "plans", "plan_features", "addons", "members", "billing_customers",
     "payment_methods", "invoices", "usage_events", "credit_balances"}

BrandingAndCustomModules == {"branding_settings", "custom_modules"}

Creates == [r \in Revisions |->
    CASE r = INITIAL_SCHEMA_REVISION -> InitialSchema
      [] r = TOTP_REVISION -> TotpColumns
      [] r = HEAD_REVISION -> UserModules
      [] r = WORKSPACE_REVISION -> WorkspaceBilling
      [] r = BRANDING_REVISION -> BrandingAndCustomModules]

Objects == UNION {Creates[r] : r \in Revisions}

\* The revisions that a set of recorded revisions stands for, and what they create.
History(revisions) == UNION {Chain[r] : r \in revisions}
Schema(revisions) == UNION {Creates[r] : r \in History(revisions)}

-----------------------------------------------------------------------------
\* _USER_COLUMN_DDL: the columns the script adds to a users table that lacks them.
UserColumnDdl == (InitialUsers \ {"users"}) \cup TotpColumns \cup HeadOnlyColumns

ReconcileUserColumns(objects) ==
    IF "users" \in objects THEN objects \cup UserColumnDdl ELSE objects

ResolveLegacyRevision(objects) ==
    CASE "users" \notin objects -> NoRevision
      [] "users" \in objects /\ UserModules \cap objects # {} -> HEAD_REVISION
      [] "users" \in objects /\ UserModules \cap objects = {} /\ TotpColumns \subseteq objects
            -> TOTP_REVISION
      [] OTHER -> INITIAL_SCHEMA_REVISION

\* The keys of _REVISION_ORDER, in the order of their chain.
KnownRevisions == Chain[HEAD_REVISION]

\* Recorded revisions it does not know count as none.
SelectRevisionToStamp(current, detected) ==
    LET known == current \cap KnownRevisions IN
    IF detected # NoRevision /\ \A r \in known : detected \notin Chain[r]
    THEN detected ELSE NoRevision
=============================================================================
