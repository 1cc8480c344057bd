----------------------------- MODULE MCServices -----------------------------
(***************************************************************************)
(* Instance of the client session, conversation, campaign, routing, browser,   *)
(* proxy and catalogue modules for TLC.  They share no state: a behaviour of   *)
(* the instance is one of one of them.                                        *)
(***************************************************************************)
EXTENDS ClientSession, WebSession, Conversations, BrowserPool, StripeCatalog,
        ProxyFetch, AgentRouting, Campaigns

VARIABLE part   \* the module that moves

\* A plan and the credit pack stand for what is sold, in the order of the script.
MCOrder == <<"plan", "pack">>
MCKindsOf == [i \in {"plan", "pack"} |-> IF i = "plan" THEN {"month"} ELSE {"once"}]

\* Two agents of equal rank beside the operator, in the order of their names.
MCKeyOrder == [a \in {"decision_engine", "ghost_agency", "operator"} |->
                 CASE a = "decision_engine" -> 1 [] a = "ghost_agency" -> 2 [] OTHER -> 3]
MCProxyList == <<"p1", "p2", "p3">>

\* An address of low risk, a risky one, and one that resolves to a private host.
MCGood == [scheme |-> "http", user |-> FALSE, host |-> "named", listed |-> TRUE,
           resolves |-> TRUE, public |-> TRUE, risk |-> {"port", "long"}]
MCAddresses == {MCGood, [MCGood EXCEPT !.risk = {"port", "entropy", "tld"}],
                [MCGood EXCEPT !.public = FALSE]}

\* A module that does not move starts in one state.  The proxies of the pool take their turns
\* while risk is scored: what the score lets through does not touch them.
MCInit ==
    /\ SessionInit /\ WebInit /\ ChatsInit /\ PoolInit /\ CatalogInit
    /\ ProxyInit /\ RouteInit /\ CampaignsInit
    /\ part \in {"mobile", "web", "chats", "pool", "catalog", "proxies", "agents",
                "texts"}
    /\ part # "mobile" => stored = "none"
    /\ part # "web" => cookie = "none"
    /\ part # "proxies" => ~stealth /\ ~rotation /\ ~scoring
    /\ stealth /\ rotation => scoring
    /\ part # "chats" => overage = 0

MCNext ==
    /\ UNCHANGED part
    /\ \/ part = "mobile" /\ SessionNext
          /\ UNCHANGED <<webVars, chatVars, poolVars, catalogVars, proxyVars, routeVars, campaignVars>>
       \/ part = "web" /\ WebNext
          /\ UNCHANGED <<sessionVars, chatVars, poolVars, catalogVars, proxyVars, routeVars, campaignVars>>
       \/ part = "chats" /\ ChatsNext
          /\ UNCHANGED <<sessionVars, webVars, poolVars, catalogVars, proxyVars, routeVars, campaignVars>>
       \/ part = "pool" /\ PoolNext
          /\ UNCHANGED <<sessionVars, webVars, chatVars, catalogVars, proxyVars, routeVars, campaignVars>>
       \/ part = "catalog" /\ CatalogNext
          /\ UNCHANGED <<sessionVars, webVars, chatVars, poolVars, proxyVars, routeVars, campaignVars>>
       \/ part = "proxies" /\ ProxyNext
          /\ UNCHANGED <<sessionVars, webVars, chatVars, poolVars, catalogVars, routeVars,
                         campaignVars>>
       \/ part = "agents" /\ RouteNext
          /\ UNCHANGED <<sessionVars, webVars, chatVars, poolVars, catalogVars, proxyVars,
                         campaignVars>>
       \/ part = "texts" /\ CampaignsNext
          /\ UNCHANGED <<sessionVars, webVars, chatVars, poolVars, catalogVars, proxyVars,
                         routeVars>>

MCVars == <<sessionVars, webVars, chatVars, poolVars, catalogVars,
            proxyVars, routeVars, campaignVars, part>>
MCSpec == MCInit /\ [][MCNext]_MCVars /\ SessionFairness /\ WebFairness

-----------------------------------------------------------------------------
\* Every module's variables stay in their types; a call of the application waits only for
\* a refresh under way, and stripe_ids.json holds every price once or nothing.
ServicesTypeOK ==
    SessionTypeOK /\ WebTypeOK /\ ChatsTypeOK /\ PoolTypeOK /\ CatalogTypeOK
    /\ ProxyTypeOK /\ RouteTypeOK /\ CampaignsTypeOK

\* What a user has is kept: the turns of a conversation, the quota and the orchestrator's
\* history (Conversations), the login of a device (ClientSession, WebSession), an agent that is
\* allowed and asked for by name (AgentRouting), the messages of a campaign (Campaigns).
UserKeeps ==
    /\ TurnStays /\ QuotaHolds /\ SessionFollows /\ StoredLoginKept /\ CookieKept
    /\ RouteAgreed /\ ShownIsAllowed /\ TextsCounted

\* What is outside is used sparingly: one browser for a process (BrowserPool), one set of
\* products, prices and endpoint at Stripe (StripeCatalog), each proxy in its turn, and no
\* HTTP request to an address, nor a page read at one, that was not checked (ProxyFetch).
ResourcesKept == OneBrowser /\ SetupRepeats /\ ProxiesTakeTurns /\ AskedIsSafe

\* Every call a client makes comes to an end, with an answer or an error, however the
\* refreshes of its tokens go, unless the application is restarted for ever.
CallsEnd ==
    /\ <>[][~\E c \in Calls : Mount(c)]_sessionVars =>
         \A c \in Calls : (call[c].at # "idle") ~> (call[c].at = "idle")
    /\ \A f \in Fetches : (fetches[f].at # "idle") ~> (fetches[f].at = "idle")
=============================================================================
