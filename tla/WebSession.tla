----------------------------- MODULE WebSession -----------------------------
(***************************************************************************)
(* The session of the web application (frontend/client/lib/api.ts and        *)
(* lib/auth-context.tsx): the access token is in memory, the refresh token     *)
(* in a cookie that only the server sets.  Every call refreshes for itself.    *)
(***************************************************************************)
EXTENDS FiniteSets

CONSTANT Fetches    \* apiFetch calls in progress

WebTokens == {"none", "good", "dead"}
NoFetch == [goal |-> "none", at |-> "idle", token |-> "none", retry |-> FALSE]

VARIABLES
    memory,     \* _accessToken
    cookie,     \* refresh_token, httpOnly
    fetches,    \* [Fetches -> where the call stands and the token it carries]
    restoring,  \* the load of the page refreshes with the cookie: "no", or its token
    \* history
    lasting,    \* the cookie was good and only access tokens have expired since
    signedOut   \* logged out by the server, with nothing else in progress

webVars == <<memory, cookie, fetches, restoring, lasting, signedOut>>

WebInit ==
    /\ memory = "none" /\ cookie \in {"none", "good"}
    /\ fetches = [f \in Fetches |-> NoFetch]
    /\ restoring = "no"
    /\ lasting = (cookie = "good") /\ signedOut = FALSE

Others(f) == restoring = "no" /\ \A g \in Fetches \ {f} : fetches[g].at = "idle"

Fetching(goal, retry) ==
    [goal |-> goal, at |-> "sent", retry |-> retry,
     token |-> IF goal = "login" THEN "none" ELSE memory]

Ask(f, goal) ==
    /\ fetches[f].at = "idle"
    /\ fetches' = [fetches EXCEPT ![f] = Fetching(goal, TRUE)]
    /\ lasting' = (lasting /\ goal # "logout")
    /\ signedOut' = (signedOut /\ goal = "get")
    /\ UNCHANGED <<memory, cookie, restoring>>

\* The page is loaded: what ran in it is gone, the cookie is tried.
LoadPage ==
    /\ memory' = "none" /\ restoring' = cookie
    /\ fetches' = [f \in Fetches |-> NoFetch]
    /\ UNCHANGED <<cookie, lasting, signedOut>>

RestoreAnswered ==
    /\ restoring # "no"
    /\ restoring' = "no"
    /\ \/ restoring = "good" /\ memory' = "good" /\ cookie' = "good"
       \/ UNCHANGED <<memory, cookie>>
    /\ UNCHANGED <<fetches, lasting, signedOut>>

\* The error of a logout is dropped and the token in memory cleared all the same.
Fails(f) ==
    /\ fetches' = [fetches EXCEPT ![f] = NoFetch]
    /\ memory' = IF fetches[f].goal = "logout" THEN "none" ELSE memory

Answered(f) ==
    LET goal == fetches[f].goal IN
    /\ fetches[f].at = "sent"
    /\ fetches[f].token = "good" \/ goal = "login"
    /\ fetches' = [fetches EXCEPT ![f] = NoFetch]
    /\ \/ goal = "get" /\ UNCHANGED <<memory, cookie, lasting, signedOut>>
       \/ /\ goal = "login"
          /\ memory' = "good" /\ cookie' = "good"
          /\ lasting' = Others(f) /\ signedOut' = FALSE
       \/ /\ goal = "logout"
          /\ memory' = "none" /\ cookie' = "none"
          /\ signedOut' = Others(f)
          /\ UNCHANGED lasting
    /\ UNCHANGED restoring

Unanswered(f) ==
    /\ fetches[f].at = "sent"
    /\ Fails(f)
    /\ UNCHANGED <<cookie, restoring, lasting, signedOut>>

\* A 401: the call refreshes with the cookie of the moment, once.
Refused(f) ==
    /\ fetches[f].at = "sent" /\ fetches[f].token # "good"
    /\ IF fetches[f].retry
       THEN /\ fetches' = [fetches EXCEPT ![f].at = "refreshing", ![f].token = cookie]
            /\ UNCHANGED memory
       ELSE Fails(f)
    /\ UNCHANGED <<cookie, restoring, lasting, signedOut>>

Refreshed(f) ==
    /\ fetches[f].at = "refreshing" /\ fetches[f].token = "good"
    /\ memory' = "good" /\ cookie' = "good"
    /\ fetches' = [fetches EXCEPT ![f] =
                     [Fetching(fetches[f].goal, FALSE) EXCEPT
                        !.token = IF fetches[f].goal = "login" THEN "none" ELSE "good"]]
    /\ UNCHANGED <<restoring, lasting, signedOut>>

\* Refused or not answered: the page goes to /login, which loads it anew.
NotRefreshed(f) ==
    /\ fetches[f].at = "refreshing"
    /\ LoadPage

WebExpires ==
    /\ memory = "good" /\ memory' = "dead"
    /\ fetches' = [f \in Fetches |-> IF fetches[f].at = "sent" /\ fetches[f].token = "good"
                                     THEN [fetches[f] EXCEPT !.token = "dead"] ELSE fetches[f]]
    /\ UNCHANGED <<cookie, restoring, lasting, signedOut>>

Ended(t) == IF t = "good" THEN "dead" ELSE t

WebRevoked ==
    /\ memory' = Ended(memory) /\ cookie' = Ended(cookie) /\ restoring' = Ended(restoring)
    /\ fetches' = [f \in Fetches |-> [fetches[f] EXCEPT !.token = Ended(@)]]
    /\ lasting' = FALSE
    /\ UNCHANGED signedOut

FetchStep(f) == Answered(f) \/ Unanswered(f) \/ Refused(f) \/ Refreshed(f) \/ NotRefreshed(f)

WebNext ==
    \/ \E f \in Fetches : (\E goal \in {"get", "login", "logout"} : Ask(f, goal)) \/ FetchStep(f)
    \/ LoadPage \/ RestoreAnswered \/ WebExpires \/ WebRevoked

\* fetch settles every request.
WebFairness == (\A f \in Fetches : WF_webVars(FetchStep(f))) /\ WF_webVars(RestoreAnswered)

-----------------------------------------------------------------------------
\* The variables are what the page and the browser keep.
WebTypeOK ==
    /\ memory \in WebTokens /\ cookie \in WebTokens /\ restoring \in WebTokens \cup {"no"}
    /\ fetches \in [Fetches -> [goal : {"none", "get", "login", "logout"},
                                at : {"idle", "sent", "refreshing"},
                                token : WebTokens, retry : BOOLEAN]]
    /\ lasting \in BOOLEAN /\ signedOut \in BOOLEAN

\* However many calls refresh at once, and whether the page is loaded anew among them, the
\* cookie of a login stays good; and a logout that nothing overlapped leaves none.
CookieKept == (lasting => cookie = "good") /\ (signedOut => cookie = "none")
=============================================================================
