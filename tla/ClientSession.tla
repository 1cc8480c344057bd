---------------------------- MODULE ClientSession ----------------------------
(***************************************************************************)
(* The session of the mobile application: the shared API client             *)
(* (shared/api/client.ts) with the tokens of lib/apiClient.ts and the calls  *)
(* of store/authStore.tsx.  One refresh serves every call that meets a 401;   *)
(* the access token is in memory, the refresh token in the secure store.     *)
(***************************************************************************)
EXTENDS FiniteSets

CONSTANT Calls      \* calls of the application in progress

\* A token is missing, accepted by the server, or no longer.
Tokens == {"none", "good", "dead"}

\* goal: what the application wants; req: the request its call has reached.
NoCall == [goal |-> "none", req |-> "none", at |-> "idle", token |-> "none", retry |-> FALSE]
NoRefresh == [at |-> "none", token |-> "none"]

VARIABLES
    access,     \* _accessToken
    stored,     \* the refresh token in the secure store
    refresher,  \* refreshPromise and where its function stands; "stuck": resolved, never cleared
    call,       \* [Calls -> where the call stands and the token it carries]
    \* history
    kept,       \* a login is stored and only its access tokens have expired since
    ended       \* logged out, with nothing else in progress

sessionVars == <<access, stored, refresher, call, kept, ended>>

SessionInit ==
    /\ access = "none" /\ stored \in {"none", "good"}
    /\ refresher = NoRefresh
    /\ call = [c \in Calls |-> NoCall]
    /\ kept = (stored = "good") /\ ended = FALSE

Quiet(c) == refresher.at \in {"none", "stuck"} /\ \A d \in Calls \ {c} : call[d].at = "idle"

-----------------------------------------------------------------------------
\* request(): a login sends its password, every other one the access token.
Sent(goal, req, retry) ==
    [goal |-> goal, req |-> req, at |-> "sent", retry |-> retry,
     token |-> IF req = "login" THEN "none" ELSE access]

Start(c, goal) ==
    /\ call[c].at = "idle"
    /\ call' = [call EXCEPT ![c] = Sent(goal, goal, TRUE)]
    /\ kept' = (kept /\ goal # "logout")
    /\ ended' = (ended /\ goal = "get")
    /\ UNCHANGED <<access, stored, refresher>>

\* The application starts again: its memory is gone and a stored token is tried.
Mount(c) ==
    /\ access' = "none" /\ refresher' = NoRefresh
    /\ call' = [d \in Calls |->
                  IF d = c /\ stored # "none"
                  THEN [goal |-> "restore", req |-> "refresh", at |-> "sent", retry |-> TRUE,
                        token |-> stored]
                  ELSE NoCall]
    /\ UNCHANGED <<stored, kept, ended>>

\* The call ends with an error: login and get pass it on, restore and logout delete the
\* stored token.
Throw(c) ==
    /\ call' = IF call[c].goal \in {"restore", "logout"}
               THEN [call EXCEPT ![c].at = "deleting"] ELSE [call EXCEPT ![c] = NoCall]
    /\ access' = IF call[c].goal = "logout" THEN "none" ELSE access
    /\ kept' = (kept /\ call[c].goal # "restore")

Succeed(c) ==
    /\ call[c].at = "sent"
    /\ call[c].token = "good" \/ call[c].req = "login"
    /\ \/ /\ call[c].req \in {"login", "refresh"}
          /\ access' = "good"
          /\ call' = [call EXCEPT ![c].at = "storing", ![c].token = "good"]
       \/ /\ call[c].req = "logout"
          /\ access' = "none"
          /\ call' = [call EXCEPT ![c].at = "deleting"]
       \/ /\ call[c].req = "get"
          /\ call' = [call EXCEPT ![c] = NoCall]
          /\ UNCHANGED access
    /\ UNCHANGED <<stored, refresher, kept, ended>>

\* No answer, or an error that is not 401.
Break(c) ==
    /\ call[c].at = "sent"
    /\ Throw(c)
    /\ UNCHANGED <<stored, refresher, ended>>

\* After login and restore the token is stored and the user read.
StoreTokens(c) ==
    /\ call[c].at = "storing"
    /\ stored' = call[c].token
    /\ kept' = (stored' = "good" /\ refresher.at = "none" /\ Quiet(c))
    /\ call' = [call EXCEPT ![c] = Sent(call[c].goal, "get", TRUE)]
    /\ ended' = FALSE
    /\ UNCHANGED <<access, refresher>>

\* A 401.  refreshTokens: the first call starts the refresh, the others join it; a promise
\* that was never cleared answers with its old null at once.
Refuse(c) ==
    /\ call[c].at = "sent" /\ call[c].token # "good"
    /\ IF ~call[c].retry THEN Throw(c) /\ UNCHANGED refresher
       ELSE /\ UNCHANGED kept
            /\ IF refresher.at = "stuck"
               THEN /\ access' = "none"
                    /\ call' = [call EXCEPT ![c].at = "failing"]
                    /\ UNCHANGED refresher
               ELSE /\ call' = [call EXCEPT ![c].at = "waiting"]
                    /\ refresher' = IF refresher.at = "none"
                                    THEN [at |-> "reading", token |-> "none"] ELSE refresher
                    /\ UNCHANGED access
    /\ UNCHANGED <<stored, ended>>

\* onAuthFailure deletes the stored token, then the call throws.
DropToken(c) ==
    /\ call[c].at = "failing"
    /\ stored' = "none"
    /\ Throw(c)
    /\ UNCHANGED <<refresher, ended>>

Delete(c) ==
    /\ call[c].at = "deleting"
    /\ stored' = "none"
    /\ call' = [call EXCEPT ![c] = NoCall]
    /\ ended' = (call[c].goal = "logout" /\ Quiet(c))
    /\ UNCHANGED <<access, refresher, kept>>

-----------------------------------------------------------------------------
\* Mutant: the calls that wait are not told.
RefreshForgetsCalls(state) ==
    /\ refresher' = [at |-> state, token |-> "none"]
    /\ access' = "none"
    /\ UNCHANGED call

\* The refresh yields nothing: every call that waits for it fails.
RefreshYieldsNull(state) ==
    /\ refresher' = [at |-> state, token |-> "none"]
    /\ access' = "none"
    /\ call' = [c \in Calls |-> IF call[c].at = "waiting"
                                THEN [call[c] EXCEPT !.at = "failing"] ELSE call[c]]

\* Without a stored token the function returns before the try whose finally clears the
\* promise.
ReadStored ==
    /\ refresher.at = "reading"
    /\ IF stored = "none" THEN RefreshYieldsNull("stuck")
       ELSE refresher' = [at |-> "fetching", token |-> stored] /\ UNCHANGED <<access, call>>
    /\ UNCHANGED <<stored, kept, ended>>

RefreshAnswered ==
    /\ refresher.at = "fetching" /\ refresher.token = "good"
    /\ access' = "good"
    /\ refresher' = [refresher EXCEPT !.at = "storing"]
    /\ UNCHANGED <<stored, call, kept, ended>>

RefreshFails ==
    /\ refresher.at = "fetching"
    /\ RefreshYieldsNull("none")
    /\ kept' = (kept /\ refresher.token = "dead")
    /\ UNCHANGED <<stored, ended>>

\* Mutant: the repeated request may refresh and be repeated again.
StoreRefreshedRetries ==
    /\ refresher.at = "storing"
    /\ stored' = refresher.token
    /\ refresher' = NoRefresh
    /\ call' = [c \in Calls |->
                  IF call[c].at # "waiting" THEN call[c] ELSE Sent(call[c].goal, call[c].req, TRUE)]
    /\ UNCHANGED <<access, kept, ended>>

\* The calls that wait are sent once more, a restore with the token it had.
StoreRefreshed ==
    /\ refresher.at = "storing"
    /\ stored' = refresher.token
    /\ refresher' = NoRefresh
    /\ call' = [c \in Calls |->
                  IF call[c].at # "waiting" THEN call[c]
                  ELSE IF call[c].req = "refresh" THEN [call[c] EXCEPT !.at = "sent", !.retry = FALSE]
                  ELSE Sent(call[c].goal, call[c].req, FALSE)]
    /\ UNCHANGED <<access, kept, ended>>

-----------------------------------------------------------------------------
Dies(t) == IF t = "good" THEN "dead" ELSE t

\* The server: access tokens expire ...
AccessExpires ==
    /\ access = "good"
    /\ access' = "dead"
    /\ call' = [c \in Calls |-> IF call[c].at = "sent" /\ call[c].req \in {"get", "logout"}
                                THEN [call[c] EXCEPT !.token = Dies(@)] ELSE call[c]]
    /\ UNCHANGED <<stored, refresher, kept, ended>>

\* ... and the tokens of an account die with it, or of age.
Revoke ==
    /\ access' = Dies(access) /\ stored' = Dies(stored)
    /\ refresher' = [refresher EXCEPT !.token = Dies(@)]
    /\ call' = [c \in Calls |-> [call[c] EXCEPT !.token = Dies(@)]]
    /\ kept' = FALSE
    /\ UNCHANGED ended

CallStep(c) ==
    Succeed(c) \/ Break(c) \/ StoreTokens(c) \/ Refuse(c) \/ DropToken(c) \/ Delete(c)

RefreshStep == ReadStored \/ RefreshAnswered \/ RefreshFails \/ StoreRefreshed

SessionNext ==
    \/ \E c \in Calls :
        (\E goal \in {"get", "login", "logout"} : Start(c, goal)) \/ Mount(c) \/ CallStep(c)
    \/ RefreshStep \/ AccessExpires \/ Revoke

\* fetch settles every request and the event loop runs every continuation.
SessionFairness ==
    (\A c \in Calls : WF_sessionVars(CallStep(c))) /\ WF_sessionVars(RefreshStep)

-----------------------------------------------------------------------------
\* The variables are what the client keeps; a call waits only for a refresh under way.
SessionTypeOK ==
    /\ access \in Tokens /\ stored \in Tokens
    /\ refresher \in [at : {"none", "reading", "fetching", "storing", "stuck"}, token : Tokens]
    /\ call \in [Calls -> [goal : {"none", "get", "login", "logout", "restore"},
                           req : {"none", "get", "login", "logout", "refresh"},
                           at : {"idle", "sent", "waiting", "failing", "storing", "deleting"},
                           token : Tokens, retry : BOOLEAN]]
    /\ kept \in BOOLEAN /\ ended \in BOOLEAN
    /\ \A c \in Calls : call[c].at = "waiting" => refresher.at \in {"reading", "fetching", "storing"}

\* Access tokens that expire, under any number of calls at once, never cost the stored
\* login; and a logout that nothing overlapped leaves none.
StoredLoginKept == (kept => stored = "good") /\ (ended => stored = "none")
=============================================================================
