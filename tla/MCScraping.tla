----------------------------- MODULE MCScraping -----------------------------
(***************************************************************************)
(* Instance of the scraping service for TLC.  ScrapeJobs and ScrapeOnce     *)
(* share no state, so their interleavings show nothing: a behaviour of the  *)
(* instance is one of the one or of the other.                              *)
(***************************************************************************)
EXTENDS ScrapeJobs, ScrapeOnce

VARIABLE part   \* the module whose actions this behaviour takes

CONSTANTS t1, t2

Host == [t \in {t1, t2} |-> IF t = t1 THEN Api ELSE Wrk]

MCInit == JobsInit /\ OnceInit /\ part \in {"jobs", "once"}

\* Every identifier has been used for a job and nothing of any is left: the bound ends
\* the behaviour here, not the code.
IdentifiersUsed ==
    /\ part = "jobs"
    /\ ~ENABLED JobsNext
    /\ \A j \in Jobs : made[j] # None /\ jobs[Redis][j] = "none"
    /\ UNCHANGED <<jobVars, onceVars>>

MCNext ==
    \/ part = "jobs" /\ JobsNext /\ UNCHANGED <<onceVars, part>>
    \/ part = "once" /\ OnceNext /\ UNCHANGED <<jobVars, part>>
    \/ IdentifiersUsed /\ UNCHANGED part

MCSpec == MCInit /\ [][MCNext]_<<jobVars, onceVars, part>> /\ JobsFairness

-----------------------------------------------------------------------------
\* Both modules' variables stay in their types: job states are those of ScrapeJobState and
\* every queued job has its request stored with it.
ScrapingTypeOK == JobsTypeOK /\ OnceTypeOK
=============================================================================
