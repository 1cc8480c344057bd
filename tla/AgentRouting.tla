---------------------------- MODULE AgentRouting ----------------------------
(***************************************************************************)
(* Which agent answers a message: the API's scored preview                    *)
(* (services/private_orchestrator_service.py) over a reloadable allowlist, and *)
(* the orchestrator's own choice (infra/docker/orchestrator_main.py), which    *)
(* knows more agents and no allowlist.                                        *)
(***************************************************************************)
EXTENDS Naturals, FiniteSets

CONSTANTS
    Catalog,     \* agents of _DEFAULT_AGENT_CATALOG, "operator" among them
    KeyOrder,    \* [Catalog -> Nat], the order of their names
    MoreAgents,  \* the orchestrator's further agents
    Stranger,    \* a name that is no agent
    Senders,     \* requests
    MaxHits      \* keywords of an agent found in one message

ASSUME AgentRoutingAssumption ==
    /\ "operator" \in Catalog /\ MaxHits \in Nat
    /\ KeyOrder \in [Catalog -> Nat] /\ \A a, b \in Catalog : KeyOrder[a] = KeyOrder[b] => a = b
    /\ Catalog \cap MoreAgents = {} /\ Stranger \notin Catalog \cup MoreAgents

Agents == Catalog \cup MoreAgents
Names == Agents \cup {Stranger}

VARIABLES
    allowlist,   \* PRIVATE_ORCHESTRATOR_ALLOWED_AGENTS of the settings in force
    sender       \* [Senders -> the request: its stage, the keys it read, what it forces, the
                 \*  agent previewed with its keywords found, the agent used or the keys
                 \*  shown, and the keys allowed since it began (history)]

routeVars == <<allowlist, sender>>

\* get_allowed_agent_keys: names of no agent are dropped, and nothing left means all.
AllowedKeys(list) == IF list \cap Catalog = {} THEN Catalog ELSE list \cap Catalog
Allowed == AllowedKeys(allowlist)

AtRest == [at |-> "idle", open |-> {}, force |-> Stranger, agent |-> Stranger, hits |-> 0,
          used |-> {}, since |-> {}]

RouteInit ==
    /\ allowlist = {}
    /\ sender = [s \in Senders |-> AtRest]

-----------------------------------------------------------------------------
\* score_agents, in thousandths.
Least(a, b) == IF a < b THEN a ELSE b
Score(a, hits, force) ==
    IF a = force THEN 1000
    ELSE 200 + Least(500, 120 * hits[a]) + (IF a = "operator" THEN 150 ELSE 0)

\* Mutant: the scores are sorted upwards.
SelectedWorst(hits, force) ==
    CHOOSE a \in Allowed : \A b \in Allowed \ {a} :
        \/ Score(a, hits, force) < Score(b, hits, force)
        \/ Score(a, hits, force) = Score(b, hits, force) /\ KeyOrder[a] < KeyOrder[b]

\* The first candidate: the best score, then the first name.
Selected(hits, force) ==
    CHOOSE a \in Allowed : \A b \in Allowed \ {a} :
        \/ Score(a, hits, force) > Score(b, hits, force)
        \/ Score(a, hits, force) = Score(b, hits, force) /\ KeyOrder[a] < KeyOrder[b]

\* build_route_preview: everything is computed before the upstream's health is awaited.
Preview(s) ==
    /\ sender[s].at = "idle"
    /\ \E hits \in [Catalog -> 0 .. MaxHits], force \in Names :
         LET best == Selected(hits, force)
         IN sender' = [sender EXCEPT ![s] =
                [AtRest EXCEPT !.at = "previewed", !.open = Allowed, !.force = force,
                              !.agent = best, !.hits = hits[best]]]
    /\ UNCHANGED allowlist

\* The orchestrator obeys a forced agent it knows and otherwise what its model answers,
\* the operator when that is no agent.  The preview it is sent is not read.
Routed(s) ==
    /\ sender[s].at = "previewed"
    /\ \E said \in Names :
         LET key == IF sender[s].force \in Agents THEN sender[s].force ELSE said
         IN sender' = [sender EXCEPT ![s].at = "routed",
                         ![s].used = {IF key \in Agents THEN key ELSE "operator"}]
    /\ UNCHANGED allowlist

\* The turn is stored with the agent used, the list is shown; an administrator's preview
\* ends without asking, a call may fail.
EndRequest(s) ==
    /\ sender[s].at # "idle"
    /\ sender' = [sender EXCEPT ![s] = AtRest]
    /\ UNCHANGED allowlist

-----------------------------------------------------------------------------
\* fetch_upstream_agents: the keys are read before the upstream is asked ...
AskAgents(s) ==
    /\ sender[s].at = "idle"
    /\ sender' = [sender EXCEPT ![s].at = "asked", ![s].open = Allowed, ![s].since = Allowed]
    /\ UNCHANGED allowlist

\* ... and read again when its answer has none of them, or it does not answer.
ShowAgents(s) ==
    /\ sender[s].at = "asked"
    /\ \E told \in SUBSET Agents :
         sender' = [sender EXCEPT ![s].at = "shown",
                      ![s].used = IF told \cap sender[s].open = {} THEN Allowed
                                  ELSE told \cap sender[s].open]
    /\ UNCHANGED allowlist

\* The configuration is reloaded (config.py reload_settings).
Reload ==
    \E list \in SUBSET (Catalog \cup {Stranger}) :
        /\ allowlist' = list
        /\ sender' = [s \in Senders |->
              IF sender[s].at = "asked" THEN [sender[s] EXCEPT !.since = @ \cup AllowedKeys(list)]
              ELSE sender[s]]

RouteNext ==
    \/ \E s \in Senders : Preview(s) \/ Routed(s) \/ AskAgents(s) \/ ShowAgents(s) \/ EndRequest(s)
    \/ Reload

-----------------------------------------------------------------------------
\* The variables stay in their types.
RouteTypeOK ==
    /\ allowlist \subseteq Catalog \cup {Stranger}
    /\ sender \in [Senders -> [at : {"idle", "previewed", "routed", "asked", "shown"},
                               open : SUBSET Catalog, force : Names, agent : Names,
                               hits : 0 .. MaxHits, used : SUBSET Agents, since : SUBSET Catalog]]

\* The API and the orchestrator agree on an agent that is forced and allowed, whatever is
\* reloaded between them; a name forced in vain changes nothing; an agent other than the
\* operator is previewed for two of its keywords or more, unless the operator may not be.
RouteAgreed ==
    \A s \in Senders : LET r == sender[s] IN r.at \in {"previewed", "routed"} =>
        /\ r.agent \in r.open
        /\ r.force \in r.open => r.agent = r.force
        /\ r.at = "routed" /\ r.agent = r.force => r.used = {r.agent}
        /\ r.agent \notin {"operator", r.force} /\ "operator" \in r.open => r.hits > 1

\* The agents shown are agents, at least one, and allowed while the list was made.
ShownIsAllowed ==
    \A s \in Senders : sender[s].at = "shown" =>
        sender[s].used # {} /\ sender[s].used \subseteq sender[s].since
=============================================================================
