----------------------------- MODULE BrowserPool -----------------------------
(***************************************************************************)
(* The browser of scraping/fetcher.py: one Chromium per process, launched by *)
(* the first page, shared by a bounded number of pages, closed by the zombie  *)
(* killer when idle, or by the worker.  Neither the launch nor the close      *)
(* holds a lock, and what is cancelled while it starts may start all the same. *)
(***************************************************************************)
EXTENDS Naturals, FiniteSets

CONSTANTS
    Pages,      \* fetches that render a page
    Drivers,    \* Playwright drivers that may be started
    Browsers,   \* browsers that may be launched
    PoolSize,   \* SCRAPING_BROWSER_POOL_SIZE
    Absent

ASSUME BrowserPoolAssumption ==
    PoolSize \in Nat \ {0} /\ Absent \notin Drivers \cup Browsers

VARIABLES
    driver,     \* _pw
    browser,    \* _browser
    started,    \* drivers whose process runs
    launched,   \* browsers whose process runs
    usedUp,     \* drivers and browsers already used as a name
    contexts,   \* contexts open: page and browser
    viewer,     \* [Pages -> where the fetch is, the driver it launches on, its browser]
    killer,     \* where _close_browser is, and what it waits for the end of
    \* history
    overlapped, \* two fetches have launched at once, or a launch has met a close
    strays,     \* contexts of fetches that ended without closing them
    orphans     \* browsers of cancelled launches, each with its driver

poolVars == <<driver, browser, started, launched, usedUp, contexts, viewer, killer,
              overlapped, strays, orphans>>

Asleep == [at |-> "asleep", what |-> Absent]
Waiting == [at |-> "away", d |-> Absent, b |-> Absent]

PoolInit ==
    /\ driver = Absent /\ browser = Absent
    /\ started = {} /\ launched = {} /\ usedUp = {} /\ contexts = {}
    /\ viewer = [p \in Pages |-> Waiting]
    /\ killer = Asleep
    /\ overlapped = FALSE /\ strays = {} /\ orphans = {}

InPool == {p \in Pages : viewer[p].at # "away"}
Launching == {p \in Pages : viewer[p].at \in {"start", "launch"}}

-----------------------------------------------------------------------------
\* page(): behind the semaphore, the browser is launched if there is none.
EnterPool(p) ==
    /\ viewer[p] = Waiting /\ Cardinality(InPool) < PoolSize
    /\ viewer' = [viewer EXCEPT ![p] = [Waiting EXCEPT !.at = IF browser = Absent THEN "start"
                                                               ELSE "context", !.b = browser]]
    /\ overlapped' = (overlapped \/ (browser = Absent /\ (Launching # {} \/ killer # Asleep)))
    /\ UNCHANGED <<driver, browser, started, launched, usedUp, contexts, killer, strays, orphans>>

StartDriver(p) ==
    /\ viewer[p].at = "start"
    /\ \E d \in Drivers \ usedUp :
         /\ driver' = d /\ started' = started \cup {d} /\ usedUp' = usedUp \cup {d}
         /\ viewer' = [viewer EXCEPT ![p].at = "launch", ![p].d = d]
    /\ UNCHANGED <<browser, launched, contexts, killer, overlapped, strays, orphans>>

\* The driver that was started launches the browser, unless it was stopped meanwhile.
Launch(p) ==
    /\ viewer[p].at = "launch" /\ viewer[p].d \in started
    /\ \E b \in Browsers \ usedUp :
         /\ browser' = b /\ launched' = launched \cup {b} /\ usedUp' = usedUp \cup {b}
         /\ viewer' = [viewer EXCEPT ![p] = [at |-> "context", d |-> Absent, b |-> b]]
    /\ UNCHANGED <<driver, started, contexts, killer, overlapped, strays, orphans>>

OpenContext(p) ==
    /\ viewer[p].at = "context" /\ viewer[p].b \in launched
    /\ contexts' = contexts \cup {<<p, viewer[p].b>>}
    /\ strays' = strays \ {<<p, viewer[p].b>>}
    /\ viewer' = [viewer EXCEPT ![p].at = "page"]
    /\ UNCHANGED <<driver, browser, started, launched, usedUp, killer, overlapped, orphans>>

OpenPage(p) ==
    /\ viewer[p].at = "page" /\ viewer[p].b \in launched
    /\ viewer' = [viewer EXCEPT ![p].at = "viewing"]
    /\ UNCHANGED <<driver, browser, started, launched, usedUp, contexts, killer,
                   overlapped, strays, orphans>>

\* A start, a launch, a context or a page that fails frees the place in the pool; the driver
\* of a launch that failed stays, to be replaced by the next start, and so does the context
\* of a page that did not open.
PageFails(p) ==
    /\ viewer[p].at \in {"start", "launch", "context", "page"}
    /\ viewer' = [viewer EXCEPT ![p] = Waiting]
    /\ strays' = strays \cup {c \in contexts : c[1] = p}
    /\ UNCHANGED <<driver, browser, started, launched, usedUp, contexts, killer, overlapped,
                   orphans>>

\* wait_for or the worker's deadline cancels the start, and the driver's process runs all the
\* same, unknown to the pool ...
CancelStart(p) ==
    /\ viewer[p].at = "start"
    /\ \E d \in Drivers \ usedUp : started' = started \cup {d} /\ usedUp' = usedUp \cup {d}
    /\ viewer' = [viewer EXCEPT ![p] = Waiting]
    /\ UNCHANGED <<driver, browser, launched, contexts, killer, overlapped, strays, orphans>>

\* ... or the launch, and the browser's does ...
CancelLaunch(p) ==
    /\ viewer[p].at = "launch" /\ viewer[p].d \in started
    /\ \E b \in Browsers \ usedUp :
         /\ launched' = launched \cup {b} /\ usedUp' = usedUp \cup {b}
         /\ orphans' = orphans \cup {<<viewer[p].d, b>>}
    /\ viewer' = [viewer EXCEPT ![p] = Waiting]
    /\ UNCHANGED <<driver, browser, started, contexts, killer, overlapped, strays>>

\* ... or the context, which stays open in the browser.
CancelContext(p) ==
    /\ viewer[p].at = "context" /\ viewer[p].b \in launched
    /\ contexts' = contexts \cup {<<p, viewer[p].b>>}
    /\ strays' = strays \cup {<<p, viewer[p].b>>}
    /\ viewer' = [viewer EXCEPT ![p] = Waiting]
    /\ UNCHANGED <<driver, browser, started, launched, usedUp, killer, overlapped, orphans>>

\* Whatever became of the fetch, its page and context are closed.
LeavePool(p) ==
    /\ viewer[p].at = "viewing"
    /\ contexts' = contexts \ {<<p, viewer[p].b>>}
    /\ viewer' = [viewer EXCEPT ![p] = Waiting]
    /\ strays' = strays \ {<<p, viewer[p].b>>}
    /\ UNCHANGED <<driver, browser, started, launched, usedUp, killer, overlapped, orphans>>

-----------------------------------------------------------------------------
\* The killer counts the time since a page opened or closed: a fetch on its way to its
\* page, or one that takes ten minutes, does not stop it.  The worker, which has one fetch at
\* a time and no killer, closes the browser when a job took too much memory ...
WakeKiller ==
    /\ killer = Asleep /\ browser # Absent
    /\ killer' = [at |-> "closing", what |-> browser]
    /\ overlapped' = (overlapped \/ Launching # {})
    /\ UNCHANGED <<driver, browser, started, launched, usedUp, contexts, viewer, strays,
                   orphans>>

\* ... or the driver alone, when its job has left no browser.
WorkerCloses ==
    /\ killer = Asleep /\ browser = Absent /\ driver # Absent /\ InPool = {}
    /\ killer' = [at |-> "stopping", what |-> driver]
    /\ UNCHANGED <<driver, browser, started, launched, usedUp, contexts, viewer, overlapped,
                   strays, orphans>>

\* Mutant: the browser is forgotten before it is closed.
CloseForgets ==
    /\ killer.at = "closing"
    /\ browser' = Absent
    /\ killer' = [at |-> "stopping", what |-> driver]
    /\ UNCHANGED <<driver, started, launched, usedUp, contexts, viewer, overlapped, strays,
                   orphans>>

\* When the close returns the pool forgets its browser, whichever that is by then; so with
\* the driver, which takes along the browsers of the launches cancelled on it.
CloseBrowser ==
    /\ killer.at = "closing"
    /\ launched' = launched \ {killer.what}
    /\ contexts' = {c \in contexts : c[2] # killer.what}
    /\ strays' = {c \in strays : c[2] # killer.what}
    /\ browser' = Absent
    /\ killer' = [at |-> "stopping", what |-> driver]
    /\ UNCHANGED <<driver, started, usedUp, viewer, overlapped, orphans>>

StopDriver ==
    /\ killer.at = "stopping"
    /\ started' = started \ {killer.what}
    /\ launched' = launched \ {b \in Browsers : <<killer.what, b>> \in orphans}
    /\ orphans' = {o \in orphans : o[1] # killer.what}
    /\ driver' = Absent
    /\ killer' = Asleep
    /\ UNCHANGED <<browser, usedUp, contexts, viewer, overlapped, strays>>

PoolNext ==
    \/ \E p \in Pages : \/ EnterPool(p) \/ StartDriver(p) \/ Launch(p) \/ OpenContext(p)
                        \/ OpenPage(p) \/ PageFails(p) \/ LeavePool(p)
                        \/ CancelStart(p) \/ CancelLaunch(p) \/ CancelContext(p)
    \/ WakeKiller \/ WorkerCloses \/ CloseBrowser \/ StopDriver

-----------------------------------------------------------------------------
\* The variables stay in their types; every open context has the page that opened it, or
\* was left by it.
PoolTypeOK ==
    /\ driver \in Drivers \cup {Absent} /\ browser \in Browsers \cup {Absent}
    /\ started \subseteq Drivers /\ launched \subseteq Browsers
    /\ viewer \in [Pages -> [at : {"away", "start", "launch", "context", "page", "viewing"},
                             d : Drivers \cup {Absent}, b : Browsers \cup {Absent}]]
    /\ contexts \subseteq Pages \X Browsers /\ strays \subseteq contexts
    /\ killer \in [at : {"asleep", "closing", "stopping"}, what : Drivers \cup Browsers \cup {Absent}]
    /\ overlapped \in BOOLEAN /\ orphans \subseteq Drivers \X Browsers

\* No browser runs but the one the pool knows and those of cancelled launches, unless launches
\* overlapped; and the fetches of the pool have no more contexts open than it has places.
OneBrowser ==
    /\ ~overlapped => \A b \in launched \ {browser} : \E d \in Drivers : <<d, b>> \in orphans
    /\ Cardinality(contexts \ strays) <= PoolSize
    /\ \A c \in contexts \ strays : viewer[c[1]].b = c[2]
=============================================================================
