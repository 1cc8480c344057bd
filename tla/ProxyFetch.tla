----------------------------- MODULE ProxyFetch -----------------------------
(***************************************************************************)
(* A fetch of scraping/fetcher.py: the proxy an HTTP request goes through     *)
(* (stealth/proxy_pool.py: round robin, dead proxies, background health       *)
(* check), the addresses it asks for (scraping/security.py, scraping/risk.py) *)
(* and the redirects it follows; or the page a browser goes to by itself, of  *)
(* which the address it ends at is checked.  BrowserPool has the browser.     *)
(***************************************************************************)
EXTENDS Naturals, FiniteSets, Sequences, SequencesExt

CONSTANTS
    Fetchers,      \* fetches of the process
    ProxyList,     \* SCRAPING_PROXY_LIST
    Addresses,     \* what a redirect may name, a member of AddressKinds each
    MaxRedirects,  \* SCRAPING_MAX_REDIRECTS
    RiskThreshold, \* SCRAPING_RISK_SCORE_THRESHOLD, in hundredths
    Direct         \* no proxy

Proxies == {ProxyList[i] : i \in DOMAIN ProxyList}

\* What the checks of an address tell apart.
AddressKinds == [scheme : {"http", "ftp"}, user : BOOLEAN, host : {"none", "local", "named"},
                 listed : BOOLEAN, resolves : BOOLEAN, public : BOOLEAN,
                 risk : SUBSET {"ip", "port", "entropy", "tld", "short", "long", "queries"}]

ASSUME ProxyFetchAssumption ==
    /\ ProxyList \in Seq(Proxies) /\ IsInjective(ProxyList) /\ Len(ProxyList) > 0
    /\ Direct \notin Proxies /\ MaxRedirects \in Nat /\ Addresses \subseteq AddressKinds
    /\ RiskThreshold \in Nat

VARIABLES
    stealth,    \* SCRAPING_STEALTH_MODE; none of these settings is reloadable
    rotation,   \* SCRAPING_PROXY_ROTATION_ENABLED
    scoring,    \* SCRAPING_RISK_SCORING_ENABLED, off by default
    dead,       \* proxies with a record in _dead whose time has not passed
    index,      \* _index
    fetch,      \* [Fetchers -> where the fetch is, its proxy, its address, its requests]
    checking,   \* the proxy health_check_all waits for, 0 when it sleeps
    \* history
    round       \* the healthy proxies at the last choice, and those given out in turn

proxyVars == <<stealth, rotation, scoring, dead, index, fetch, checking, round>>

NoAddress == [scheme |-> "http", user |-> FALSE, host |-> "none",
              listed |-> FALSE, resolves |-> FALSE, public |-> FALSE, risk |-> {}]
Unsent == [at |-> "idle", via |-> Direct, address |-> NoAddress, requests |-> 0]
NoRound == [of |-> {}, given |-> <<>>]

ProxyInit ==
    /\ stealth \in BOOLEAN /\ rotation \in BOOLEAN /\ scoring \in BOOLEAN
    /\ dead = {} /\ index = 0 /\ checking = 0 /\ round = NoRound
    /\ fetch = [f \in Fetchers |-> Unsent]

-----------------------------------------------------------------------------
\* normalize_url and the allowlist, then the addresses the host resolves to.
WellFormed(a) == a.scheme = "http" /\ ~a.user /\ a.host = "named"
SafeUrl(a) == WellFormed(a) /\ a.listed /\ a.resolves /\ a.public

\* score_url, in hundredths.  The source adds tenths as floats, which at a threshold of 0.8
\* or 0.9 may fall short by a rounding; at the 0.75 of the settings both agree.
Weight == [ip |-> 80, port |-> 30, entropy |-> 30, tld |-> 20, short |-> 20,
           long |-> 10, queries |-> 10]

\* Mutant: only the first factor that applies counts.
RiskScoreFirst(a) ==
    IF "ip" \in a.risk THEN 80 ELSE IF {"port", "entropy"} \cap a.risk # {} THEN 30 ELSE 20

Adds(a, f) == IF f \in a.risk THEN Weight[f] ELSE 0

RiskScore(a) ==
    LET sum == Adds(a, "ip") + Adds(a, "port") + Adds(a, "entropy") + Adds(a, "tld")
               + Adds(a, "short") + Adds(a, "long") + Adds(a, "queries")
    IN  IF sum > 100 THEN 100 ELSE sum
Risky(a) == RiskScore(a) >= RiskThreshold

\* Mutant: a redirect is followed when it is well formed.
FollowsFormed(a) == WellFormed(a)
Follows(a) == SafeUrl(a)

\* The list of the healthy proxies, by their places in the whole one; Rank is the index of a
\* place in such a list, from 0.
Healthy == {i \in DOMAIN ProxyList : ProxyList[i] \notin dead}
Rank(set, i) == Cardinality({j \in set : j < i})

\* Mutant: the index runs through the whole list.
NextIndexWhole == (index + 1) % Len(ProxyList)

\* ProxyPool.get_proxy: the choice is an index in the list of this moment.
NextIndex == (index + 1) % Cardinality(Healthy)

TakeTurn(p) ==
    /\ \E i \in Healthy : Rank(Healthy, i) = index % Cardinality(Healthy) /\ p = ProxyList[i]
    /\ index' = NextIndex
    /\ round' = [of |-> Healthy,
                 given |-> IF round.of # Healthy \/ Len(round.given) = Cardinality(Healthy)
                           THEN <<p>> ELSE Append(round.given, p)]

\* The proxy of a new fetch: from the pool in stealth mode, or none when all are dead;
\* any of the list otherwise.
Chosen(p) ==
    \/ stealth /\ rotation /\ Healthy # {} /\ TakeTurn(p)
    \/ /\ \/ stealth /\ rotation /\ Healthy = {} /\ p = Direct
          \/ ~stealth /\ rotation /\ p \in Proxies
          \/ ~rotation /\ p = Direct
       /\ UNCHANGED <<index, round>>

\* The service's own checks of the address; its risk is scored where the operator wants it.
Admitted(a) == SafeUrl(a) /\ (scoring => ~Risky(a))

\* fetch_url over HTTP.  A page to render comes here too when a proxy of the list would be
\* used.
Fetch(f) ==
    /\ fetch[f] = Unsent
    /\ \E a \in Addresses, p \in Proxies \cup {Direct} :
         /\ Admitted(a) /\ Chosen(p)
         /\ fetch' = [fetch EXCEPT ![f] = [at |-> "asking", via |-> p, address |-> a,
                                           requests |-> 1]]
    /\ UNCHANGED <<stealth, rotation, scoring, dead, checking>>

\* fetch_url in the browser, which no proxy of the list is used for.
Browse(f) ==
    /\ fetch[f] = Unsent /\ ~rotation
    /\ \E a \in Addresses :
         /\ Admitted(a)
         /\ fetch' = [fetch EXCEPT ![f] = [Unsent EXCEPT !.at = "browsing", !.address = a]]
    /\ UNCHANGED <<stealth, rotation, scoring, dead, index, checking, round>>

\* page.goto follows every redirect by itself, as the page's scripts do: the code sees none.
PageMoves(f) ==
    /\ fetch[f].at = "browsing"
    /\ \E a \in Addresses : fetch' = [fetch EXCEPT ![f].address = a]
    /\ UNCHANGED <<stealth, rotation, scoring, dead, index, checking, round>>

\* Mutant: the page is read wherever the browser ended.
ReadPageAnywhere(f) ==
    /\ fetch[f].at = "browsing"
    /\ fetch' = [fetch EXCEPT ![f].at = "reading"]
    /\ UNCHANGED <<stealth, rotation, scoring, dead, index, checking, round>>

\* The page is read if the address it is at by now passes the checks; the address is the one
\* of that moment, whatever the page does while it is scrolled and read.
ReadPage(f) ==
    /\ fetch[f].at = "browsing"
    /\ fetch' = [fetch EXCEPT ![f] = IF SafeUrl(fetch[f].address)
                                     THEN [fetch[f] EXCEPT !.at = "reading"] ELSE Unsent]
    /\ UNCHANGED <<stealth, rotation, scoring, dead, index, checking, round>>

\* The proxy of a request that fails is dead to the pool in stealth mode.
RequestFails(f) ==
    /\ fetch[f].at = "asking"
    /\ dead' = IF stealth /\ fetch[f].via # Direct THEN dead \cup {fetch[f].via} ELSE dead
    /\ fetch' = [fetch EXCEPT ![f] = Unsent]
    /\ UNCHANGED <<stealth, rotation, scoring, index, checking, round>>

\* A redirect: without a location, to an address refused, or one too many ends the fetch.
\* The risk of its target is not scored.
Redirected(f) ==
    /\ fetch[f].at = "asking"
    /\ \E a \in Addresses :
         fetch' = [fetch EXCEPT ![f] =
             IF Follows(a) /\ fetch[f].requests <= MaxRedirects
             THEN [fetch[f] EXCEPT !.address = a, !.requests = @ + 1] ELSE Unsent]
    /\ UNCHANGED <<stealth, rotation, scoring, dead, index, checking, round>>

\* The fetch returns a body of an accepted type and size, is refused for either, fails in the
\* browser, or is cancelled by the service's timeout: CancelledError is no Exception, the
\* proxy keeps its standing.
EndFetch(f) ==
    /\ fetch[f].at # "idle"
    /\ fetch' = [fetch EXCEPT ![f] = Unsent]
    /\ UNCHANGED <<stealth, rotation, scoring, dead, index, checking, round>>

-----------------------------------------------------------------------------
\* health_check_all, started in stealth mode only, takes the list from its start.
WakeCheck ==
    /\ stealth /\ checking = 0
    /\ checking' = 1
    /\ UNCHANGED <<stealth, rotation, scoring, dead, index, fetch, round>>

\* A good answer revives the proxy, another one changes nothing, a failure buries it.  What
\* fetches made of the proxy meanwhile does not count.
Checked ==
    /\ checking # 0
    /\ \/ dead' = dead \ {ProxyList[checking]}
       \/ dead' = dead
       \/ dead' = dead \cup {ProxyList[checking]}
    /\ checking' = (checking + 1) % (Len(ProxyList) + 1)
    /\ UNCHANGED <<stealth, rotation, scoring, index, fetch, round>>

\* _DEAD_TTL_SECONDS pass: the record no longer counts, and is dropped at the next choice.
Expires(p) ==
    /\ p \in dead /\ dead' = dead \ {p}
    /\ UNCHANGED <<stealth, rotation, scoring, index, fetch, checking, round>>

ProxyNext ==
    \/ \E f \in Fetchers : \/ Fetch(f) \/ RequestFails(f) \/ Redirected(f) \/ EndFetch(f)
                           \/ Browse(f) \/ PageMoves(f) \/ ReadPage(f)
    \/ WakeCheck \/ Checked
    \/ \E p \in Proxies : Expires(p)

-----------------------------------------------------------------------------
\* The variables stay in their types; a direct connection has no proxy to lose.
ProxyTypeOK ==
    /\ stealth \in BOOLEAN /\ rotation \in BOOLEAN /\ scoring \in BOOLEAN /\ dead \subseteq Proxies
    /\ index \in 0 .. Len(ProxyList) - 1 /\ checking \in 0 .. Len(ProxyList)
    /\ fetch \in [Fetchers -> [at : {"idle", "asking", "browsing", "reading"}, via : Proxies \cup {Direct},
                               address : AddressKinds, requests : 0 .. MaxRedirects + 1]]
    /\ round.of \subseteq DOMAIN ProxyList /\ round.given \in Seq(Proxies)

\* However proxies die and revive in between, no healthy proxy is given out a second time
\* before each of the others was, while the healthy ones are the same at every choice.
ProxiesTakeTurns == IsInjective(round.given)

\* Every address asked for over HTTP passed the checks, the targets of redirects included, and
\* so did the one at which a page is read, though nothing is said of what the browser asks for
\* on its way.  Where risk is scored, what a fetch begins with is not at once a host of high
\* entropy, in a doubtful domain and on a port of its own.
AskedIsSafe ==
    \A f \in Fetchers : LET a == fetch[f].address IN
        /\ fetch[f].at \in {"asking", "reading"} => SafeUrl(a)
        /\ scoring /\ fetch[f].at = "asking" /\ fetch[f].requests = 1 =>
             ~({"entropy", "tld", "port"} \subseteq a.risk)
=============================================================================
