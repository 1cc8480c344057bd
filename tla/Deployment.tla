----------------------------- MODULE Deployment -----------------------------
(***************************************************************************)
(* The deploy job (.github/workflows/deploy.yml) on one environment: one at *)
(* a time (the concurrency group), against the checkout, the containers and *)
(* the database it shares with the jobs before it; ensure_alembic_state.py   *)
(* and the revisions of Migrations; the schema check of a starting API.    *)
(***************************************************************************)
EXTENDS Naturals, FiniteSets, Migrations

CONSTANTS
    LastCommit,     \* the branch's commits are 1..LastCommit
    HeadsOf         \* [commits -> the heads of its alembic/versions]

Commits == 1..LastCommit

ASSUME DeploymentAssumption ==
    /\ LastCommit \in Nat \ {0}
    /\ HeadsOf \in [Commits -> SUBSET Revisions]
    \* every commit has the script, and the revision it takes for the head
    /\ \A c \in Commits : HEAD_REVISION \in History(HeadsOf[c])

VARIABLES
    version,    \* rows of alembic_version
    objects,    \* tables, and columns of users, that the database has
    checkout,   \* the commit checked out
    tip,        \* the branch on origin
    api,        \* [commit, up]: the API containers
    job,        \* the deploy job
    \* history
    strayed,    \* a job has ended between its pull and the start of its containers, or has
                \* come after one that rolled back: its checkout is not what runs
    stampedBack,\* a managed database has been stamped with an older revision
    skipped     \* a revision whose tables are missing has been stamped

deployVars == <<version, objects, checkout, tip, api, job, strayed, stampedBack, skipped>>

NoJob == [at |-> "none"]

\* An empty database, or one at the bootstrap's head or before it, that Alembic manages or
\* not.
DeployInit ==
    /\ \E v \in {{}} \cup {{r} : r \in KnownRevisions} : objects = Schema(v) /\ version \in {{}, v}
    /\ checkout = 1 /\ tip = 1
    /\ api = [commit |-> 1, up |-> version = HeadsOf[1]]
    /\ job = NoJob /\ strayed = FALSE /\ stampedBack = FALSE /\ skipped = FALSE

Push ==
    /\ tip < LastCommit /\ tip' = tip + 1
    /\ UNCHANGED <<version, objects, checkout, api, job, strayed, stampedBack, skipped>>

\* git checkout and pull: PREV_REF is what the checkout was at.
Start ==
    /\ job.at \in {"none", "succeeded", "failed", "restored", "unhealthy"}
    /\ job' = [at |-> "validate", prev |-> checkout, commit |-> tip, was |-> api]
    /\ checkout' = tip
    /\ strayed' = (strayed \/ job.at \in {"restored", "unhealthy"})
    /\ UNCHANGED <<version, objects, tip, api, stampedBack, skipped>>

Advance(from, to) == job.at = from /\ job' = [job EXCEPT !.at = to]

\* validate_runtime_env.py accepts the file; the trap is armed; images are built.
EnvAccepted ==
    /\ Advance("validate", "bootstrap")
    /\ UNCHANGED <<version, objects, checkout, tip, api, strayed, stampedBack, skipped>>

\* ensure_alembic_state.py, first half, in one transaction: the missing columns of users.
Reconcile ==
    /\ Advance("bootstrap", "stamp")
    /\ objects' = ReconcileUserColumns(objects)
    /\ UNCHANGED <<version, checkout, tip, api, strayed, stampedBack, skipped>>

\* Second half: the revision read off the database, with those columns, is stamped.
Stamp ==
    LET stamp == SelectRevisionToStamp(version, ResolveLegacyRevision(objects)) IN
    /\ Advance("stamp", "upgrade")
    /\ version' = IF stamp = NoRevision THEN version ELSE {stamp}
    /\ stampedBack' = (stampedBack \/ (stamp # NoRevision /\ \E r \in version : stamp \in Chain[r]))
    /\ skipped' = (skipped \/ (stamp # NoRevision /\ ~(Schema({stamp}) \subseteq objects)))
    /\ UNCHANGED <<objects, checkout, tip, api, strayed>>

\* What alembic upgrade runs for the job's commit.
MissingRevisions == History(HeadsOf[job.commit]) \ History(version)

\* "alembic upgrade head" wants one head, knows the recorded revisions, and fails as a whole
\* on a table or a column that exists.
Upgrade ==
    LET created == UNION {Creates[r] : r \in MissingRevisions} IN
    /\ Advance("upgrade", "up")
    /\ Cardinality(HeadsOf[job.commit]) = 1
    /\ version \subseteq History(HeadsOf[job.commit])
    /\ created \cap objects = {}
    /\ objects' = objects \cup created
    /\ version' = HeadsOf[job.commit]
    /\ UNCHANGED <<checkout, tip, api, strayed, stampedBack, skipped>>

\* The API's own check, with the database as it is now: _ensure_expected_schema.
Starts(c) == version = HeadsOf[c]

\* up -d --force-recreate: the containers are replaced, whether or not the API starts.
ComposeUp ==
    /\ Advance("up", "probe")
    /\ api' = [commit |-> job.commit, up |-> Starts(job.commit)]
    /\ UNCHANGED <<version, objects, checkout, tip, strayed, stampedBack, skipped>>

\* Healthy, and the edge answers.
Succeed ==
    /\ Advance("probe", "succeeded")
    /\ api.up
    /\ UNCHANGED <<version, objects, checkout, tip, api, strayed, stampedBack, skipped>>

\* A step fails in one of the ways most of them do: an explicit exit 1, or a command of the
\* compose function, which does not inherit the trap; or the 900 seconds are over.  The
\* ERR trap does not run.
Exit ==
    /\ job.at \in {"validate", "bootstrap", "stamp", "upgrade", "up", "probe", "rollback"}
    /\ job' = [job EXCEPT !.at = "failed"]
    /\ strayed' = (strayed \/ job.at \in {"validate", "bootstrap", "stamp", "upgrade", "up"})
    /\ UNCHANGED <<version, objects, checkout, tip, api, stampedBack, skipped>>

\* A command at the top level of the script fails after the containers are up: compose ps in
\* an assignment, or a probe of staging.  With nothing to go back to the trap just exits.
TrapError ==
    /\ job.at = "probe"
    /\ job' = [job EXCEPT !.at = IF job.prev # job.commit THEN "rollback" ELSE "failed"]
    /\ UNCHANGED <<version, objects, checkout, tip, api, strayed, stampedBack, skipped>>

\* Mutant: the restored API does not look at the schema.
RollbackUnchecked ==
    /\ job.at = "rollback"
    /\ api' = [commit |-> job.prev, up |-> TRUE]
    /\ job' = [job EXCEPT !.at = "restored"]
    /\ UNCHANGED <<version, objects, checkout, tip, strayed, stampedBack, skipped>>

\* rollback_deploy: the previous commit is built and started on the database as it is now,
\* and the checkout goes back to the branch, with the commit that failed.
Rollback ==
    /\ job.at = "rollback"
    /\ api' = [commit |-> job.prev, up |-> Starts(job.prev)]
    /\ \E health \in {"restored", "unhealthy"} :
         /\ health = "restored" => Starts(job.prev)
         /\ job' = [job EXCEPT !.at = health]
    /\ UNCHANGED <<version, objects, checkout, tip, strayed, stampedBack, skipped>>

\* restart: unless-stopped, or a host that boots.
ApiRestarts ==
    /\ api' = [api EXCEPT !.up = Starts(api.commit)]
    /\ UNCHANGED <<version, objects, checkout, tip, job, strayed, stampedBack, skipped>>

DeployNext ==
    \/ Push \/ Start \/ EnvAccepted \/ Reconcile \/ Stamp \/ Upgrade \/ ComposeUp \/ Succeed
    \/ Exit \/ TrapError \/ Rollback \/ ApiRestarts

DeploySpec == DeployInit /\ [][DeployNext]_deployVars

-----------------------------------------------------------------------------
(* Properties.                                                               *)

DeployTypeOK ==
    /\ version \subseteq Revisions /\ objects \subseteq Objects
    /\ checkout \in Commits /\ tip \in Commits
    /\ api \in [commit : Commits, up : BOOLEAN]
    /\ job \in {NoJob} \cup
        [at : {"validate", "bootstrap", "stamp", "upgrade", "up", "probe", "rollback",
               "succeeded", "failed", "restored", "unhealthy"},
         prev : Commits, commit : Commits, was : [commit : Commits, up : BOOLEAN]]
    /\ strayed \in BOOLEAN /\ stampedBack \in BOOLEAN /\ skipped \in BOOLEAN

\* The database claims no revision whose tables it lacks, unless the bootstrap stamped one;
\* a deploy that reports a restored commit leaves the one that ran before it, unless an
\* earlier job stopped after its pull or rolled back: the checkout the script then takes for
\* the previous commit is not the one that runs; and the API survives a restart, unless a job
\* stopped between its migration and its containers, or the bootstrap stamped an older
\* revision.
DeployKept ==
    /\ Schema(version) \subseteq objects \/ skipped
    /\ job.at = "restored" => api.commit = job.was.commit \/ strayed
    /\ api.up => Starts(api.commit) \/ strayed \/ stampedBack \/ job.at = "up"

\* test_select_revision_to_stamp_ignores_current_or_newer_revision: the bootstrap never
\* stamps a managed database with an older revision than the one it is at.
StampNeverGoesBack == ~stampedBack
=============================================================================
