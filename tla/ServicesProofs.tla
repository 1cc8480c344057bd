--------------------------- MODULE ServicesProofs ---------------------------
(***************************************************************************)
(* Proofs about the client sessions, the conversations, the campaigns, the    *)
(* agents, the browser pool, the catalogue at Stripe and the proxied fetches, *)
(* each with all its actions and for every value of its constants, and about  *)
(* the instance that joins them: a behaviour of the instance is one of each.  *)
(***************************************************************************)
EXTENDS MCServices, FiniteSetTheorems, WellFoundedInduction, TLAPS

-----------------------------------------------------------------------------
(* ClientSession: the mobile client's tokens.  Which requests may be under way *)
(* says which of them can store or delete a token.                            *)

CallRows == [goal : {"none", "get", "login", "logout", "restore"},
             req : {"none", "get", "login", "logout", "refresh"},
             at : {"idle", "sent", "waiting", "failing", "storing", "deleting"},
             token : Tokens, retry : BOOLEAN]

\* Only a login or a restore stores tokens, and nothing but a logout was meant as one.
GoalInv ==
    \A c \in Calls : /\ call[c].goal = "logout" => call[c].req = "logout"
                     /\ call[c].req = "logout" => call[c].goal = "logout"
                     /\ call[c].at = "storing" => call[c].req \in {"login", "refresh"}
                     /\ call[c].req = "refresh" => call[c].goal = "restore"

\* No call drops the stored token of a login that is kept, and its refresh carries a good one.
KeptInv ==
    kept => /\ stored = "good" /\ refresher.at # "stuck"
            /\ refresher.at \in {"fetching", "storing"} => refresher.token = "good"
            /\ \A c \in Calls : /\ call[c].at \notin {"failing", "deleting"}
                                /\ call[c].at # "idle" => call[c].goal # "logout"

\* After a logout only reads are under way, and no refresh has a token.
EndedInv ==
    ended => /\ stored = "none" /\ refresher.at \in {"none", "reading", "stuck"}
             /\ \A c \in Calls : \/ call[c].at = "idle"
                                 \/ /\ call[c].goal = "get" /\ call[c].req = "get"
                                    /\ call[c].at \in {"sent", "waiting", "failing"}

WaitInv == \A c \in Calls : call[c].at = "waiting" => refresher.at \in {"reading", "fetching", "storing"}

SessionRows ==
    /\ access \in Tokens /\ stored \in Tokens
    /\ refresher \in [at : {"none", "reading", "fetching", "storing", "stuck"}, token : Tokens]
    /\ call \in [Calls -> CallRows]
    /\ kept \in BOOLEAN /\ ended \in BOOLEAN

SessionInv == SessionRows /\ WaitInv /\ GoalInv /\ KeptInv /\ EndedInv

\* The types of the module are those of the rows, and who waits waits for a refresh.
LEMMA SessionTypes == SessionTypeOK <=> SessionRows /\ WaitInv
BY DEF SessionTypeOK, SessionRows, WaitInv, CallRows

\* In the first state the mobile client is at rest, and its invariant holds.
LEMMA InitSession == SessionInit => SessionInv
<1> SUFFICES ASSUME SessionInit PROVE SessionInv
  OBVIOUS
<1>1. NoCall \in CallRows /\ NoCall.at = "idle" /\ NoCall.goal = "none" /\ NoCall.req = "none"
  BY DEF NoCall, CallRows, Tokens
<1>2. call \in [Calls -> CallRows] /\ \A c \in Calls : call[c] = NoCall
  BY <1>1 DEF SessionInit
<1> QED
  BY <1>1, <1>2
     DEF SessionInit, SessionInv, SessionRows, WaitInv, GoalInv, KeptInv, EndedInv, NoRefresh, Tokens

\* What a step that changes one call leaves.
LEMMA OneCall ==
    ASSUME SessionRows, NEW c \in Calls, NEW row \in CallRows, call' = [call EXCEPT ![c] = row]
    PROVE  /\ call' \in [Calls -> CallRows] /\ call'[c] = row
           /\ \A d \in Calls : d = c \/ call'[d] = call[d]
BY DEF SessionRows

\* The row of a call that has not begun.
LEMMA IdleCall == NoCall \in CallRows /\ NoCall.at = "idle" /\ NoCall.goal = "none" /\ NoCall.req = "none"
BY DEF NoCall, CallRows, Tokens

\* A call is started from the application.
LEMMA StartKeeps ==
    ASSUME SessionInv, NEW c \in Calls, NEW goal \in {"get", "login", "logout"}, Start(c, goal)
    PROVE  SessionInv'
<1> DEFINE row == Sent(goal, goal, TRUE)
<1>1. row \in CallRows /\ row.goal = goal /\ row.req = goal /\ row.at = "sent"
  <2>1. goal \in {"get", "login", "logout", "restore", "none"} /\ goal \in {"get", "login", "logout", "none"}
    OBVIOUS
  <2>2. SessionRows
    BY DEF SessionInv
  <2> QED
    BY <2>1, <2>2 DEF SessionRows, Sent, CallRows, Tokens
<1>2. call' = [call EXCEPT ![c] = row]
  BY DEF Start
<1> HIDE DEF row
<1>3. call' \in [Calls -> CallRows] /\ call'[c] = row /\ \A d \in Calls : d = c \/ call'[d] = call[d]
  BY <1>1, <1>2, OneCall DEF SessionInv
<1>4. kept' = (kept /\ goal # "logout") /\ ended' = (ended /\ goal = "get")
      /\ UNCHANGED <<access, stored, refresher>>
  BY DEF Start
<1>5. SessionRows'
  BY <1>3, <1>4 DEF SessionInv, SessionRows
<1>6. WaitInv' /\ GoalInv'
  BY <1>1, <1>3, <1>4 DEF SessionInv, WaitInv, GoalInv
<1>7. KeptInv' /\ EndedInv'
  BY <1>1, <1>3, <1>4 DEF SessionInv, KeptInv, EndedInv
<1> QED
  BY <1>5, <1>6, <1>7 DEF SessionInv

\* The application mounts and restores the session.
LEMMA MountKeeps == ASSUME SessionInv, NEW c \in Calls, Mount(c) PROVE SessionInv'
<1> DEFINE row == [goal |-> "restore", req |-> "refresh", at |-> "sent", retry |-> TRUE, token |-> stored]
<1>1. row \in CallRows /\ row.goal = "restore" /\ row.req = "refresh" /\ row.at = "sent"
  BY DEF SessionInv, SessionRows, CallRows
<1>2. call' = [d \in Calls |-> IF d = c /\ stored # "none" THEN row ELSE NoCall]
  BY DEF Mount
<1> HIDE DEF row
<1>3. call' \in [Calls -> CallRows]
      /\ \A d \in Calls : call'[d] = NoCall \/ (stored # "none" /\ call'[d] = row)
  BY <1>1, <1>2, IdleCall
<1>4. access' = "none" /\ refresher' = NoRefresh /\ UNCHANGED <<stored, kept, ended>>
  BY DEF Mount
<1>5. SessionRows'
  BY <1>3, <1>4 DEF SessionInv, SessionRows, NoRefresh, Tokens
<1>6. WaitInv' /\ GoalInv'
  BY <1>1, <1>3, IdleCall DEF WaitInv, GoalInv
<1>7. KeptInv' /\ EndedInv'
  BY <1>1, <1>3, <1>4, IdleCall DEF SessionInv, KeptInv, EndedInv, NoRefresh
<1> QED
  BY <1>5, <1>6, <1>7 DEF SessionInv

\* A call that throws: the caller says what it leaves of the rest.
LEMMA ThrowKeeps ==
    ASSUME SessionInv, NEW c \in Calls, Throw(c), call[c].at # "idle",
           refresher' = refresher, ended' = ended,
           stored' = stored \/ (~kept /\ stored' = "none")
    PROVE  SessionInv'
<1>1. kept' = (kept /\ call[c].goal # "restore") /\ access' \in {"none", access}
  BY DEF Throw
<1>2. call[c] \in CallRows
  BY DEF SessionInv, SessionRows
<1>3. stored' \in Tokens /\ (ended => stored' = "none") /\ (kept => stored' = stored)
  BY DEF SessionInv, SessionRows, EndedInv, Tokens
<1>4. CASE call[c].goal \in {"restore", "logout"}
  <2> DEFINE row == [call[c] EXCEPT !.at = "deleting"]
  <2>1. row \in CallRows /\ row.goal = call[c].goal /\ row.req = call[c].req /\ row.at = "deleting"
    BY <1>2 DEF CallRows
  <2>2. call' = [call EXCEPT ![c] = row]
    BY <1>2, <1>4 DEF Throw, SessionInv, SessionRows, CallRows
  <2> HIDE DEF row
  <2>3. call' \in [Calls -> CallRows] /\ call'[c] = row /\ \A d \in Calls : d = c \/ call'[d] = call[d]
    BY <2>1, <2>2, OneCall DEF SessionInv
  <2>4. ~ended /\ ~kept'
    BY <1>1, <1>4 DEF SessionInv, KeptInv, EndedInv
  <2>5. SessionRows'
    BY <1>1, <1>3, <2>3 DEF SessionInv, SessionRows, Tokens
  <2>6. WaitInv' /\ GoalInv'
    BY <2>1, <2>3 DEF SessionInv, WaitInv, GoalInv
  <2> QED
    BY <2>4, <2>5, <2>6 DEF SessionInv, KeptInv, EndedInv
<1>5. CASE call[c].goal \notin {"restore", "logout"}
  <2>1. call' = [call EXCEPT ![c] = NoCall]
    BY <1>5 DEF Throw
  <2>2. call' \in [Calls -> CallRows] /\ call'[c] = NoCall /\ \A d \in Calls : d = c \/ call'[d] = call[d]
    BY <2>1, OneCall, IdleCall DEF SessionInv
  <2>3. SessionRows'
    BY <1>1, <1>3, <2>2 DEF SessionInv, SessionRows, Tokens
  <2>4. WaitInv' /\ GoalInv'
    BY <2>2, IdleCall DEF SessionInv, WaitInv, GoalInv
  <2>5. KeptInv' /\ EndedInv'
    BY <1>1, <1>3, <2>2, IdleCall DEF SessionInv, KeptInv, EndedInv
  <2> QED
    BY <2>3, <2>4, <2>5 DEF SessionInv
<1> QED
  BY <1>4, <1>5

\* A request is answered.
LEMMA SucceedKeeps == ASSUME SessionInv, NEW c \in Calls, Succeed(c) PROVE SessionInv'
<1>1. call[c].at = "sent" /\ UNCHANGED <<stored, refresher, kept, ended>>
  BY DEF Succeed
<1>2. call[c] \in CallRows
  BY DEF SessionInv, SessionRows
<1>3. CASE call[c].req \in {"login", "refresh"}
  <2> DEFINE row == [call[c] EXCEPT !.at = "storing", !.token = "good"]
  <2>1. row \in CallRows /\ row.goal = call[c].goal /\ row.req = call[c].req /\ row.at = "storing"
    BY <1>2 DEF CallRows, Tokens
  <2>2. call' = [call EXCEPT ![c] = row] /\ access' = "good"
    BY <1>2, <1>3 DEF Succeed, SessionInv, SessionRows, CallRows
  <2> HIDE DEF row
  <2>3. call' \in [Calls -> CallRows] /\ call'[c] = row /\ \A d \in Calls : d = c \/ call'[d] = call[d]
    BY <2>1, <2>2, OneCall DEF SessionInv
  <2>4. ~ended
    BY <1>1, <1>3 DEF SessionInv, EndedInv
  <2>5. SessionRows'
    BY <1>1, <2>2, <2>3 DEF SessionInv, SessionRows, Tokens
  <2>6. WaitInv' /\ GoalInv'
    BY <1>1, <1>3, <2>1, <2>3 DEF SessionInv, WaitInv, GoalInv
  <2>7. KeptInv' /\ EndedInv'
    BY <1>1, <2>1, <2>3, <2>4 DEF SessionInv, KeptInv, EndedInv
  <2> QED
    BY <2>5, <2>6, <2>7 DEF SessionInv
<1>4. CASE call[c].req = "logout"
  <2> DEFINE row == [call[c] EXCEPT !.at = "deleting"]
  <2>1. row \in CallRows /\ row.goal = call[c].goal /\ row.req = call[c].req /\ row.at = "deleting"
    BY <1>2 DEF CallRows
  <2>2. call' = [call EXCEPT ![c] = row] /\ access' = "none"
    BY <1>2, <1>4 DEF Succeed, SessionInv, SessionRows, CallRows
  <2> HIDE DEF row
  <2>3. call' \in [Calls -> CallRows] /\ call'[c] = row /\ \A d \in Calls : d = c \/ call'[d] = call[d]
    BY <2>1, <2>2, OneCall DEF SessionInv
  <2>4. ~ended /\ ~kept
    BY <1>1, <1>4 DEF SessionInv, EndedInv, KeptInv, GoalInv
  <2>5. SessionRows'
    BY <1>1, <2>2, <2>3 DEF SessionInv, SessionRows, Tokens
  <2>6. WaitInv' /\ GoalInv'
    BY <1>1, <1>4, <2>1, <2>3 DEF SessionInv, WaitInv, GoalInv
  <2> QED
    BY <1>1, <2>4, <2>5, <2>6 DEF SessionInv, KeptInv, EndedInv
<1>5. CASE call[c].req = "get"
  <2>1. call' = [call EXCEPT ![c] = NoCall] /\ access' = access
    BY <1>5 DEF Succeed
  <2>2. call' \in [Calls -> CallRows] /\ call'[c] = NoCall /\ \A d \in Calls : d = c \/ call'[d] = call[d]
    BY <2>1, OneCall, IdleCall DEF SessionInv
  <2>3. SessionRows'
    BY <1>1, <2>1, <2>2 DEF SessionInv, SessionRows
  <2>4. WaitInv' /\ GoalInv'
    BY <1>1, <2>2, IdleCall DEF SessionInv, WaitInv, GoalInv
  <2>5. KeptInv' /\ EndedInv'
    BY <1>1, <2>2, IdleCall DEF SessionInv, KeptInv, EndedInv
  <2> QED
    BY <2>3, <2>4, <2>5 DEF SessionInv
<1> QED
  BY <1>3, <1>4, <1>5 DEF Succeed

\* A login or a restore stores its tokens.
LEMMA StoreKeeps == ASSUME SessionInv, NEW c \in Calls, StoreTokens(c) PROVE SessionInv'
<1> DEFINE row == Sent(call[c].goal, "get", TRUE)
<1>1. call[c] \in CallRows /\ call[c].at = "storing" /\ call[c].goal # "logout"
  BY DEF SessionInv, SessionRows, StoreTokens, GoalInv
<1>2. row \in CallRows /\ row.goal = call[c].goal /\ row.req = "get" /\ row.at = "sent"
  <2>1. call[c].goal \in {"get", "login", "logout", "restore", "none"}
    BY <1>1 DEF CallRows
  <2> QED
    BY <2>1, <1>1 DEF SessionInv, SessionRows, Sent, CallRows, Tokens
<1>3. call' = [call EXCEPT ![c] = row]
  BY DEF StoreTokens
<1> HIDE DEF row
<1>4. call' \in [Calls -> CallRows] /\ call'[c] = row /\ \A d \in Calls : d = c \/ call'[d] = call[d]
  BY <1>2, <1>3, OneCall DEF SessionInv
<1>5. /\ stored' = call[c].token /\ kept' = (stored' = "good" /\ refresher.at = "none" /\ Quiet(c))
      /\ ~ended' /\ ended' \in BOOLEAN /\ UNCHANGED <<access, refresher>>
  BY DEF StoreTokens
<1>6. SessionRows'
  BY <1>1, <1>4, <1>5 DEF SessionInv, SessionRows, CallRows
<1>7. WaitInv' /\ GoalInv'
  BY <1>1, <1>2, <1>4, <1>5 DEF SessionInv, WaitInv, GoalInv
<1>8. KeptInv' /\ EndedInv'
  BY <1>1, <1>2, <1>4, <1>5 DEF KeptInv, EndedInv, Quiet
<1> QED
  BY <1>6, <1>7, <1>8 DEF SessionInv

\* A request is refused for its token.
LEMMA RefuseKeeps == ASSUME SessionInv, NEW c \in Calls, Refuse(c) PROVE SessionInv'
<1>1. call[c] \in CallRows /\ call[c].at = "sent" /\ UNCHANGED <<stored, ended>>
  BY DEF SessionInv, SessionRows, Refuse
<1>2. CASE ~call[c].retry
  BY <1>1, <1>2, ThrowKeeps DEF Refuse
<1>3. CASE call[c].retry /\ refresher.at = "stuck"
  <2> DEFINE row == [call[c] EXCEPT !.at = "failing"]
  <2>1. row \in CallRows /\ row.goal = call[c].goal /\ row.req = call[c].req /\ row.at = "failing"
    BY <1>1 DEF CallRows
  <2>2. call' = [call EXCEPT ![c] = row] /\ access' = "none" /\ UNCHANGED <<refresher, kept>>
    BY <1>1, <1>3 DEF Refuse, SessionInv, SessionRows, CallRows
  <2> HIDE DEF row
  <2>3. call' \in [Calls -> CallRows] /\ call'[c] = row /\ \A d \in Calls : d = c \/ call'[d] = call[d]
    BY <2>1, <2>2, OneCall DEF SessionInv
  <2>4. SessionRows'
    BY <1>1, <2>2, <2>3 DEF SessionInv, SessionRows, Tokens
  <2>5. WaitInv' /\ GoalInv'
    BY <1>1, <2>1, <2>2, <2>3 DEF SessionInv, WaitInv, GoalInv
  <2>6. KeptInv' /\ EndedInv'
    BY <1>1, <1>3, <2>1, <2>2, <2>3 DEF SessionInv, KeptInv, EndedInv
  <2> QED
    BY <2>4, <2>5, <2>6 DEF SessionInv
<1>4. CASE call[c].retry /\ refresher.at # "stuck"
  <2> DEFINE row == [call[c] EXCEPT !.at = "waiting"]
  <2>1. row \in CallRows /\ row.goal = call[c].goal /\ row.req = call[c].req /\ row.at = "waiting"
    BY <1>1 DEF CallRows
  <2>2. call' = [call EXCEPT ![c] = row] /\ UNCHANGED <<access, kept>>
    BY <1>1, <1>4 DEF Refuse, SessionInv, SessionRows, CallRows
  <2> HIDE DEF row
  <2>3. call' \in [Calls -> CallRows] /\ call'[c] = row /\ \A d \in Calls : d = c \/ call'[d] = call[d]
    BY <2>1, <2>2, OneCall DEF SessionInv
  <2>4. \/ refresher.at # "none" /\ refresher' = refresher
        \/ refresher.at = "none" /\ refresher' = [at |-> "reading", token |-> "none"]
    BY <1>4 DEF Refuse
  <2>5. SessionRows'
    BY <1>1, <2>2, <2>3, <2>4 DEF SessionInv, SessionRows, Tokens
  <2>6. refresher.at \in {"none", "reading", "fetching", "storing"}
    BY <1>4 DEF SessionInv, SessionRows
  <2>7. WaitInv' /\ GoalInv'
    BY <1>1, <2>1, <2>3, <2>4, <2>6 DEF SessionInv, WaitInv, GoalInv
  <2>8. KeptInv' /\ EndedInv'
    BY <1>1, <2>1, <2>2, <2>3, <2>4, <2>6 DEF SessionInv, KeptInv, EndedInv
  <2> QED
    BY <2>5, <2>7, <2>8 DEF SessionInv
<1> QED
  BY <1>2, <1>3, <1>4

\* The stored token is deleted.
LEMMA DeleteKeeps == ASSUME SessionInv, NEW c \in Calls, Delete(c) PROVE SessionInv'
<1>1. /\ call[c].at = "deleting" /\ call' = [call EXCEPT ![c] = NoCall] /\ stored' = "none"
      /\ ended' = (call[c].goal = "logout" /\ Quiet(c)) /\ UNCHANGED <<access, refresher, kept>>
  BY DEF Delete
<1>2. call' \in [Calls -> CallRows] /\ call'[c] = NoCall /\ \A d \in Calls : d = c \/ call'[d] = call[d]
  BY <1>1, OneCall, IdleCall DEF SessionInv
<1>3. ~kept
  BY <1>1 DEF SessionInv, KeptInv
<1>4. SessionRows'
  BY <1>1, <1>2 DEF SessionInv, SessionRows, Tokens
<1>5. WaitInv' /\ GoalInv'
  BY <1>1, <1>2, IdleCall DEF SessionInv, WaitInv, GoalInv
<1>6. KeptInv' /\ EndedInv'
  BY <1>1, <1>2, <1>3, IdleCall DEF KeptInv, EndedInv, Quiet
<1> QED
  BY <1>4, <1>5, <1>6 DEF SessionInv

\* The calls that waited for a refresh fail, the others stay.
LEMMA NullKeeps ==
    ASSUME SessionInv, NEW state \in {"none", "stuck"}, RefreshYieldsNull(state),
           stored' = stored, ended' = ended, kept' \in BOOLEAN, ~kept', refresher.at # "none"
    PROVE  SessionInv'
<1>1. \A c \in Calls : call[c] \in CallRows
  BY DEF SessionInv, SessionRows
<1>2. /\ refresher' = [at |-> state, token |-> "none"] /\ access' = "none"
      /\ call' = [c \in Calls |-> IF call[c].at = "waiting"
                                  THEN [call[c] EXCEPT !.at = "failing"] ELSE call[c]]
  BY DEF RefreshYieldsNull
<1>3. \A c \in Calls : [call[c] EXCEPT !.at = "failing"] \in CallRows
  BY <1>1 DEF CallRows
<1>4. call' \in [Calls -> CallRows]
  BY <1>1, <1>2, <1>3
<1>5. \A c \in Calls : /\ call'[c].goal = call[c].goal /\ call'[c].req = call[c].req
                       /\ call[c].at = "waiting" => call'[c].at = "failing"
                       /\ call[c].at # "waiting" => call'[c].at = call[c].at
  BY <1>1, <1>2 DEF CallRows
<1>6. SessionRows'
  BY <1>2, <1>4 DEF SessionInv, SessionRows, Tokens
<1>7. WaitInv' /\ GoalInv'
  BY <1>5 DEF SessionInv, WaitInv, GoalInv
<1>8. KeptInv' /\ EndedInv'
  BY <1>2, <1>5 DEF SessionInv, KeptInv, EndedInv
<1> QED
  BY <1>6, <1>7, <1>8 DEF SessionInv

\* A refresh stores its token.
LEMMA StoreRefreshedKeeps == ASSUME SessionInv, StoreRefreshed PROVE SessionInv'
<1>1. \A c \in Calls : call[c] \in CallRows
  BY DEF SessionInv, SessionRows
<1>2. /\ refresher.at = "storing" /\ stored' = refresher.token /\ refresher' = NoRefresh
      /\ call' = [c \in Calls |->
                    IF call[c].at # "waiting" THEN call[c]
                    ELSE IF call[c].req = "refresh" THEN [call[c] EXCEPT !.at = "sent", !.retry = FALSE]
                    ELSE Sent(call[c].goal, call[c].req, FALSE)]
      /\ UNCHANGED <<access, kept, ended>>
  BY DEF StoreRefreshed
<1>3. \A c \in Calls : [call[c] EXCEPT !.at = "sent", !.retry = FALSE] \in CallRows
  BY <1>1 DEF CallRows
<1>4. \A c \in Calls : call[c].req # "refresh" =>
        LET row == Sent(call[c].goal, call[c].req, FALSE)
        IN  row \in CallRows /\ row.goal = call[c].goal /\ row.req = call[c].req /\ row.at = "sent"
  <2> SUFFICES ASSUME NEW c \in Calls, call[c].req # "refresh"
               PROVE  LET row == Sent(call[c].goal, call[c].req, FALSE)
                      IN  row \in CallRows /\ row.goal = call[c].goal /\ row.req = call[c].req /\ row.at = "sent"
    OBVIOUS
  <2>1. call[c].goal \in {"get", "login", "logout", "restore", "none"} /\ call[c].req \in {"get", "login", "logout", "none"}
    BY <1>1 DEF CallRows
  <2> QED
    BY <2>1, <1>1 DEF SessionInv, SessionRows, Sent, CallRows, Tokens
<1>5. call' \in [Calls -> CallRows]
  BY <1>1, <1>2, <1>3, <1>4
<1>6. \A c \in Calls : /\ call'[c].goal = call[c].goal /\ call'[c].req = call[c].req
                       /\ call[c].at = "waiting" => call'[c].at = "sent"
                       /\ call[c].at # "waiting" => call'[c].at = call[c].at
  <2> SUFFICES ASSUME NEW c \in Calls
               PROVE  /\ call'[c].goal = call[c].goal /\ call'[c].req = call[c].req
                      /\ call[c].at = "waiting" => call'[c].at = "sent"
                      /\ call[c].at # "waiting" => call'[c].at = call[c].at
    OBVIOUS
  <2>1. CASE call[c].at = "waiting" /\ call[c].req = "refresh"
    <3>1. call'[c] = [call[c] EXCEPT !.at = "sent", !.retry = FALSE]
      BY <1>2, <2>1
    <3> QED
      BY <1>1, <2>1, <3>1 DEF CallRows
  <2>2. CASE call[c].at = "waiting" /\ call[c].req # "refresh"
    BY <1>2, <1>4, <2>2
  <2>3. CASE call[c].at # "waiting"
    BY <1>2, <2>3
  <2> QED
    BY <2>1, <2>2, <2>3
<1>7. SessionRows'
  BY <1>2, <1>5 DEF SessionInv, SessionRows, NoRefresh, Tokens
<1>8. WaitInv' /\ GoalInv'
  BY <1>6 DEF SessionInv, WaitInv, GoalInv
<1>9. KeptInv' /\ EndedInv'
  BY <1>2, <1>6 DEF SessionInv, KeptInv, EndedInv, NoRefresh
<1> QED
  BY <1>7, <1>8, <1>9 DEF SessionInv

\* Tokens die where they are, nothing moves.
LEMMA DyingKeeps ==
    ASSUME SessionInv, call' \in [Calls -> CallRows],
           \A c \in Calls : /\ call'[c].goal = call[c].goal /\ call'[c].req = call[c].req
                            /\ call'[c].at = call[c].at,
           access' \in Tokens, refresher'.at = refresher.at, ended' = ended,
           refresher' \in [at : {"none", "reading", "fetching", "storing", "stuck"}, token : Tokens],
           \/ kept' = kept /\ stored' = stored /\ refresher' = refresher
           \/ kept' = FALSE /\ stored' = Dies(stored)
    PROVE  SessionInv'
<1>1. SessionRows'
  BY DEF SessionInv, SessionRows, Dies, Tokens
<1>2. WaitInv' /\ GoalInv'
  BY DEF SessionInv, WaitInv, GoalInv
<1>3. KeptInv' /\ EndedInv'
  BY DEF SessionInv, KeptInv, EndedInv, Dies
<1> QED
  BY <1>1, <1>2, <1>3 DEF SessionInv

\* Every step of the mobile client keeps the invariant.
LEMMA NextSession == ASSUME SessionInv, [SessionNext]_sessionVars PROVE SessionInv'
<1>a. SessionRows /\ \A c \in Calls : call[c] \in CallRows
  BY DEF SessionInv, SessionRows
<1>1. ASSUME NEW c \in Calls, Break(c) PROVE SessionInv'
  BY <1>1, ThrowKeeps DEF Break
<1>2. ASSUME NEW c \in Calls, DropToken(c) PROVE SessionInv'
  <2>1. call[c].at = "failing" /\ Throw(c) /\ stored' = "none" /\ UNCHANGED <<refresher, ended>>
    BY <1>2 DEF DropToken
  <2>2. ~kept
    BY <2>1 DEF SessionInv, KeptInv
  <2> QED
    BY <2>1, <2>2, ThrowKeeps
<1>3. CASE ReadStored
  <2>1. refresher.at = "reading" /\ UNCHANGED <<stored, kept, ended>>
    BY <1>3 DEF ReadStored
  <2>2. CASE stored = "none"
    <3>1. ~kept /\ RefreshYieldsNull("stuck")
      BY <1>3, <2>2 DEF ReadStored, SessionInv, KeptInv
    <3> QED
      BY <1>a, <2>1, <3>1, NullKeeps DEF SessionRows
  <2>3. CASE stored # "none"
    <3>1. refresher' = [at |-> "fetching", token |-> stored] /\ UNCHANGED <<access, call>>
      BY <1>3, <2>3 DEF ReadStored
    <3>2. ~ended
      BY <2>3 DEF SessionInv, EndedInv
    <3>3. SessionRows'
      BY <1>a, <2>1, <3>1 DEF SessionRows
    <3>4. WaitInv' /\ GoalInv'
      BY <3>1 DEF SessionInv, WaitInv, GoalInv
    <3>5. KeptInv' /\ EndedInv'
      BY <2>1, <3>1, <3>2 DEF SessionInv, KeptInv, EndedInv
    <3> QED
      BY <3>3, <3>4, <3>5 DEF SessionInv
  <2> QED
    BY <2>2, <2>3
<1>4. CASE RefreshAnswered
  <2>1. /\ refresher.at = "fetching" /\ refresher' = [refresher EXCEPT !.at = "storing"]
        /\ access' = "good" /\ UNCHANGED <<stored, call, kept, ended>>
    BY <1>4 DEF RefreshAnswered
  <2>2. /\ refresher' \in [at : {"none", "reading", "fetching", "storing", "stuck"}, token : Tokens]
        /\ refresher'.at = "storing" /\ refresher'.token = refresher.token
    BY <1>a, <2>1 DEF SessionRows
  <2>3. SessionRows'
    BY <1>a, <2>1, <2>2 DEF SessionRows, Tokens
  <2>4. WaitInv' /\ GoalInv'
    BY <2>1, <2>2 DEF SessionInv, WaitInv, GoalInv
  <2>5. KeptInv' /\ EndedInv'
    BY <2>1, <2>2 DEF SessionInv, KeptInv, EndedInv
  <2> QED
    BY <2>3, <2>4, <2>5 DEF SessionInv
<1>5. CASE RefreshFails
  <2>1. refresher.at = "fetching" /\ RefreshYieldsNull("none") /\ UNCHANGED <<stored, ended>>
        /\ kept' = (kept /\ refresher.token = "dead")
    BY <1>5 DEF RefreshFails
  <2>2. ~kept'
    BY <2>1 DEF SessionInv, KeptInv
  <2> QED
    BY <2>1, <2>2, NullKeeps
<1>6. CASE AccessExpires
  <2>1. \A c \in Calls : [call[c] EXCEPT !.token = Dies(call[c].token)] \in CallRows
    BY <1>a DEF CallRows, Dies, Tokens
  <2>2. call' = [c \in Calls |-> IF call[c].at = "sent" /\ call[c].req \in {"get", "logout"}
                                 THEN [call[c] EXCEPT !.token = Dies(call[c].token)] ELSE call[c]]
    BY <1>a, <1>6 DEF AccessExpires, CallRows
  <2>3. call' \in [Calls -> CallRows]
    BY <1>a, <2>1, <2>2
  <2>4. \A c \in Calls : /\ call'[c].goal = call[c].goal /\ call'[c].req = call[c].req
                         /\ call'[c].at = call[c].at
    BY <1>a, <2>2 DEF CallRows
  <2>5. access' \in Tokens /\ UNCHANGED <<stored, refresher, kept, ended>>
    BY <1>6 DEF AccessExpires, Tokens
  <2> QED
    BY <1>a, <2>3, <2>4, <2>5, DyingKeeps DEF SessionRows
<1>7. CASE Revoke
  <2>1. \A c \in Calls : [call[c] EXCEPT !.token = Dies(call[c].token)] \in CallRows
    BY <1>a DEF CallRows, Dies, Tokens
  <2>2. call' = [c \in Calls |-> [call[c] EXCEPT !.token = Dies(call[c].token)]]
    BY <1>a, <1>7 DEF Revoke, CallRows
  <2>3. call' \in [Calls -> CallRows]
    BY <2>1, <2>2
  <2>4. \A c \in Calls : /\ call'[c].goal = call[c].goal /\ call'[c].req = call[c].req
                         /\ call'[c].at = call[c].at
    BY <1>a, <2>2 DEF CallRows
  <2>5. /\ access' \in Tokens /\ refresher'.at = refresher.at /\ ended' = ended
        /\ refresher' \in [at : {"none", "reading", "fetching", "storing", "stuck"}, token : Tokens]
        /\ kept' = FALSE /\ stored' = Dies(stored)
    BY <1>a, <1>7 DEF Revoke, Dies, Tokens, SessionRows
  <2> QED
    BY <2>3, <2>4, <2>5, DyingKeeps
<1>8. CASE UNCHANGED sessionVars
  BY <1>8 DEF sessionVars, SessionInv, SessionRows, WaitInv, GoalInv, KeptInv, EndedInv
<1> QED
  BY <1>1, <1>2, <1>3, <1>4, <1>5, <1>6, <1>7, <1>8, StartKeeps, MountKeeps, SucceedKeeps,
     StoreKeeps, RefuseKeeps, DeleteKeeps, StoreRefreshedKeeps
     DEF SessionNext, CallStep, RefreshStep

-----------------------------------------------------------------------------
(* WebSession: the web client's token in memory and its cookie.               *)

WebRows == [goal : {"none", "get", "login", "logout"}, at : {"idle", "sent", "refreshing"},
            token : WebTokens, retry : BOOLEAN]

\* While the login lasts nobody logs out; after a logout nothing has a token to come back with.
WebInv ==
    /\ lasting => cookie = "good" /\ \A f \in Fetches : fetches[f].at = "idle" \/ fetches[f].goal # "logout"
    /\ signedOut =>
         /\ cookie = "none" /\ memory = "none" /\ restoring \in {"no", "none"}
         /\ \A f \in Fetches : fetches[f].at = "idle"
                               \/ (fetches[f].goal = "get" /\ fetches[f].token = "none")

\* In the first state the web client is at rest, and its invariant holds.
LEMMA InitWeb == WebInit => WebTypeOK /\ WebInv
<1> SUFFICES ASSUME WebInit PROVE WebTypeOK /\ WebInv
  OBVIOUS
<1>1. NoFetch \in WebRows /\ NoFetch.at = "idle"
  BY DEF NoFetch, WebRows, WebTokens
<1>2. fetches \in [Fetches -> WebRows] /\ \A f \in Fetches : fetches[f].at = "idle"
  BY <1>1 DEF WebInit
<1> QED
  BY <1>2 DEF WebInit, WebTypeOK, WebRows, WebInv, WebTokens

\* What a step that changes one call leaves.
LEMMA OneFetch ==
    ASSUME WebTypeOK, NEW f \in Fetches, NEW row \in WebRows, fetches' = [fetches EXCEPT ![f] = row]
    PROVE  /\ fetches' \in [Fetches -> WebRows] /\ fetches'[f] = row
           /\ \A g \in Fetches : g = f \/ fetches'[g] = fetches[g]
BY DEF WebTypeOK, WebRows

\* Every step of the web client keeps the invariant.
LEMMA NextWeb == ASSUME WebTypeOK, WebInv, [WebNext]_webVars PROVE WebTypeOK' /\ WebInv'
<1> DEFINE Type == /\ memory \in WebTokens /\ cookie \in WebTokens /\ restoring \in WebTokens \cup {"no"}
                   /\ fetches \in [Fetches -> WebRows]
                   /\ lasting \in BOOLEAN /\ signedOut \in BOOLEAN
<1>0. Type /\ (Type' => WebTypeOK')
  BY DEF WebTypeOK, WebRows
<1>a. NoFetch \in WebRows /\ NoFetch.at = "idle"
  BY DEF NoFetch, WebRows, WebTokens
<1>b. \A f \in Fetches : fetches[f] \in WebRows
  BY <1>0
<1>1. ASSUME NEW f \in Fetches, NEW goal \in {"get", "login", "logout"}, Ask(f, goal)
      PROVE  WebTypeOK' /\ WebInv'
  <2> DEFINE row == Fetching(goal, TRUE)
  <2>1. row \in WebRows /\ row.at = "sent" /\ row.goal = goal /\ (row.token = "none" \/ row.token = memory)
    BY <1>0 DEF Fetching, WebRows, WebTokens
  <2> HIDE DEF row
  <2>2. fetches' = [fetches EXCEPT ![f] = row]
    BY <1>1 DEF Ask, row
  <2>3. fetches' \in [Fetches -> WebRows] /\ fetches'[f] = row
        /\ \A g \in Fetches : g = f \/ fetches'[g] = fetches[g]
    BY <2>1, <2>2, OneFetch
  <2>4. Type'
    BY <1>0, <1>1, <2>3 DEF Ask
  <2>5. WebInv'
    BY <1>0, <1>1, <2>1, <2>3 DEF Ask, WebInv
  <2> QED
    BY <1>0, <2>4, <2>5
<1>2. CASE LoadPage \/ \E f \in Fetches : NotRefreshed(f)
  <2>1. LoadPage
    BY <1>2 DEF NotRefreshed
  <2>2. fetches' \in [Fetches -> WebRows] /\ \A f \in Fetches : fetches'[f].at = "idle"
    BY <1>a, <2>1 DEF LoadPage
  <2>3. memory' = "none" /\ restoring' = cookie /\ UNCHANGED <<cookie, lasting, signedOut>>
    BY <2>1 DEF LoadPage
  <2>4. Type'
    BY <1>0, <2>2, <2>3 DEF WebTokens
  <2>5. WebInv'
    BY <1>0, <2>2, <2>3 DEF WebInv
  <2> QED
    BY <1>0, <2>4, <2>5
<1>3. CASE RestoreAnswered
  <2>1. Type'
    BY <1>0, <1>3 DEF RestoreAnswered, WebTokens
  <2>2. WebInv'
    BY <1>0, <1>3 DEF RestoreAnswered, WebInv
  <2> QED
    BY <1>0, <2>1, <2>2
<1>4. ASSUME NEW f \in Fetches, Answered(f) PROVE WebTypeOK' /\ WebInv'
  <2>1. fetches' = [fetches EXCEPT ![f] = NoFetch]
    BY <1>4 DEF Answered
  <2>2. fetches' \in [Fetches -> WebRows] /\ fetches'[f] = NoFetch
        /\ \A g \in Fetches : g = f \/ fetches'[g] = fetches[g]
    BY <1>a, <2>1, OneFetch
  <2>3. Type'
    BY <1>0, <1>4, <2>2 DEF Answered, Others, WebTokens
  <2>4. fetches[f].at = "sent" /\ (fetches[f].token = "good" \/ fetches[f].goal = "login")
    BY <1>4 DEF Answered
  <2>5. ~signedOut
    BY <2>4 DEF WebInv
  <2>6. CASE fetches[f].goal = "get"
    <3>1. UNCHANGED <<memory, cookie, lasting, signedOut, restoring>>
      BY <1>4, <2>6 DEF Answered
    <3> QED
      BY <1>0, <1>a, <2>2, <2>3, <2>5, <3>1 DEF WebInv
  <2>7. CASE fetches[f].goal = "login"
    <3>1. cookie' = "good" /\ lasting' = Others(f) /\ ~signedOut'
      BY <1>4, <2>7 DEF Answered
    <3>2. lasting' => \A g \in Fetches : fetches'[g].at = "idle"
      BY <1>a, <2>2, <3>1 DEF Others
    <3> QED
      BY <1>0, <2>3, <3>1, <3>2 DEF WebInv
  <2>8. CASE fetches[f].goal = "logout"
    <3>1. cookie' = "none" /\ memory' = "none" /\ signedOut' = Others(f) /\ UNCHANGED <<lasting, restoring>>
      BY <1>4, <2>8 DEF Answered
    <3>2. ~lasting
      BY <2>4, <2>8 DEF WebInv
    <3>3. Others(f) => restoring = "no" /\ \A g \in Fetches : fetches'[g].at = "idle"
      BY <1>a, <2>2 DEF Others
    <3> QED
      BY <1>0, <2>3, <3>1, <3>2, <3>3 DEF WebInv
  <2> QED
    BY <1>4, <2>6, <2>7, <2>8 DEF Answered
<1>5. ASSUME NEW f \in Fetches, Unanswered(f) \/ (Refused(f) /\ ~fetches[f].retry) PROVE WebTypeOK' /\ WebInv'
  <2>1. /\ fetches' = [fetches EXCEPT ![f] = NoFetch]
        /\ memory' \in {"none", memory}
        /\ UNCHANGED <<cookie, restoring, lasting, signedOut>>
    BY <1>5 DEF Unanswered, Refused, Fails
  <2>2. fetches' \in [Fetches -> WebRows] /\ fetches'[f] = NoFetch
        /\ \A g \in Fetches : g = f \/ fetches'[g] = fetches[g]
    BY <1>a, <2>1, OneFetch
  <2>3. Type'
    BY <1>0, <2>1, <2>2 DEF WebTokens
  <2>4. WebInv'
    BY <1>a, <2>1, <2>2 DEF WebInv
  <2> QED
    BY <1>0, <2>3, <2>4
<1>6. ASSUME NEW f \in Fetches, Refused(f), fetches[f].retry PROVE WebTypeOK' /\ WebInv'
  <2> DEFINE row == [fetches[f] EXCEPT !.at = "refreshing", !.token = cookie]
  <2>1. row \in WebRows /\ row.at = "refreshing" /\ row.goal = fetches[f].goal /\ row.token = cookie
    BY <1>0, <1>b DEF WebRows
  <2>2. fetches' = [fetches EXCEPT ![f] = row] /\ UNCHANGED <<memory, cookie, restoring, lasting, signedOut>>
    BY <1>0, <1>b, <1>6 DEF Refused, WebRows
  <2>3. fetches[f].at = "sent"
    BY <1>6 DEF Refused
  <2> HIDE DEF row
  <2>4. fetches' \in [Fetches -> WebRows] /\ fetches'[f] = row
        /\ \A g \in Fetches : g = f \/ fetches'[g] = fetches[g]
    BY <2>1, <2>2, OneFetch
  <2>5. Type'
    BY <1>0, <2>2, <2>4
  <2>6. WebInv'
    BY <2>1, <2>2, <2>3, <2>4 DEF WebInv
  <2> QED
    BY <1>0, <2>5, <2>6
<1>7. ASSUME NEW f \in Fetches, Refreshed(f) PROVE WebTypeOK' /\ WebInv'
  <2> DEFINE row == [Fetching(fetches[f].goal, FALSE) EXCEPT
                        !.token = IF fetches[f].goal = "login" THEN "none" ELSE "good"]
  <2>1. row \in WebRows /\ row.at = "sent" /\ row.goal = fetches[f].goal
    BY <1>0, <1>b DEF WebRows, Fetching, WebTokens
  <2>2. fetches' = [fetches EXCEPT ![f] = row] /\ memory' = "good" /\ cookie' = "good"
        /\ UNCHANGED <<restoring, lasting, signedOut>>
    BY <1>7 DEF Refreshed
  <2>3. fetches[f].at = "refreshing" /\ fetches[f].token = "good"
    BY <1>7 DEF Refreshed
  <2> HIDE DEF row
  <2>4. fetches' \in [Fetches -> WebRows] /\ fetches'[f] = row
        /\ \A g \in Fetches : g = f \/ fetches'[g] = fetches[g]
    BY <2>1, <2>2, OneFetch
  <2>5. Type'
    BY <1>0, <2>2, <2>4 DEF WebTokens
  <2>6. WebInv'
    BY <2>1, <2>2, <2>3, <2>4 DEF WebInv
  <2> QED
    BY <1>0, <2>5, <2>6
<1>8. CASE WebExpires
  <2>1. \A f \in Fetches : [fetches[f] EXCEPT !.token = "dead"] \in WebRows
    BY <1>b DEF WebRows, WebTokens
  <2>2. fetches' \in [Fetches -> WebRows]
    BY <1>b, <1>8, <2>1 DEF WebExpires
  <2>3. \A f \in Fetches : fetches'[f].at = fetches[f].at /\ fetches'[f].goal = fetches[f].goal
    BY <1>b, <1>8 DEF WebExpires, WebRows
  <2>4. memory = "good" /\ memory' = "dead" /\ UNCHANGED <<cookie, restoring, lasting, signedOut>>
    BY <1>8 DEF WebExpires
  <2>5. Type'
    BY <1>0, <2>2, <2>4 DEF WebTokens
  <2>6. WebInv'
    BY <2>3, <2>4 DEF WebInv
  <2> QED
    BY <1>0, <2>5, <2>6
<1>9. CASE WebRevoked
  <2>1. \A f \in Fetches : [fetches[f] EXCEPT !.token = Ended(fetches[f].token)] \in WebRows
    BY <1>b DEF WebRows, WebTokens, Ended
  <2>2. fetches' = [f \in Fetches |-> [fetches[f] EXCEPT !.token = Ended(fetches[f].token)]]
    BY <1>b, <1>9 DEF WebRevoked, WebRows
  <2>3. fetches' \in [Fetches -> WebRows]
    BY <2>1, <2>2
  <2>4. \A f \in Fetches : /\ fetches'[f].at = fetches[f].at /\ fetches'[f].goal = fetches[f].goal
                           /\ fetches'[f].token = Ended(fetches[f].token)
    BY <1>b, <2>2 DEF WebRows
  <2>5. /\ memory' = Ended(memory) /\ cookie' = Ended(cookie) /\ restoring' = Ended(restoring)
        /\ ~lasting' /\ lasting' \in BOOLEAN /\ signedOut' = signedOut
    BY <1>9 DEF WebRevoked
  <2>6. Type'
    BY <1>0, <2>3, <2>5 DEF WebTokens, Ended
  <2>7. WebInv'
    BY <2>4, <2>5 DEF WebInv, Ended
  <2> QED
    BY <1>0, <2>6, <2>7
<1>10. CASE UNCHANGED webVars
  BY <1>10 DEF webVars, WebTypeOK, WebInv
<1> QED
  BY <1>1, <1>2, <1>3, <1>4, <1>5, <1>6, <1>7, <1>8, <1>9, <1>10 DEF WebNext, FetchStep

-----------------------------------------------------------------------------
(* Conversations: the turns of a conversation, the quota and the history.       *)

ChatPlaces == {"away", "flag", "alert", "decide", "load", "calling", "replied", "saved", "counted", "over"}
ChatRows == [at : ChatPlaces, via : {"none", "operator", "orchestrate"}, conv : Convs \cup {NoRow},
             base : Seq(Chats), n : Nat]
TurnRows == [turns : Seq(Chats), module : {"operator", "orchestrate"}]
Lines == {"user", "reply"} \X Chats

Once(s) == \A i, j \in DOMAIN s : s[i] = s[j] => i = j
Holds(s, e) == \E i \in DOMAIN s : s[i] = e
Paired(s) == \A i \in DOMAIN s : s[i][1] = "reply" => i > 1 /\ s[i - 1] = <<"user", s[i][2]>>
LastIs(s, e) == Len(s) > 0 /\ s[Len(s)] = e

ChatStores ==
    /\ rows \in [Convs -> TurnRows \cup {NoRow}] /\ taken \subseteq Convs
    /\ chat \in [Chats -> ChatRows] /\ upstream \in [Chats -> {"none", "model", "push", "over"}]
    /\ session \in [Convs -> Seq(Lines)]
    /\ month \in Nat /\ flag \in BOOLEAN /\ overage \in 0..MaxCredits
    /\ done \subseteq Chats /\ charged \subseteq Chats /\ crossed \subseteq Chats
    /\ solo \in BOOLEAN /\ blind \in BOOLEAN /\ alerts \in Nat
    /\ expired \subseteq Convs /\ tangled \subseteq Convs

\* Where a chat can be with what it has.
AskedInv ==
    \A r \in Chats :
        /\ chat[r].conv \in taken \cup {NoRow}
        /\ chat[r].at \in Loaded => chat[r].conv # NoRow
        /\ chat[r].at \notin {"away", "over"} => chat[r].via # "none"
        /\ r \in done => chat[r].at = "over" /\ chat[r].conv # NoRow
        /\ upstream[r] # "none" => chat[r].at \in Loaded \cup {"over"} /\ chat[r].conv # NoRow
        /\ chat[r].at \in {"load", "calling", "replied", "saved"} /\ r \notin charged => chat[r].n < MonthLimit

\* A chat that has loaded a conversation holds every turn that is not excused.
HeldInv ==
    /\ \A c \in Convs : rows[c] # NoRow =>
         c \in taken /\ Once(rows[c].turns) /\ \A i \in DOMAIN rows[c].turns : rows[c].turns[i] \in done
    /\ \A r \in Chats : Once(chat[r].base) /\ \A i \in DOMAIN chat[r].base : chat[r].base[i] \in done
    /\ \A q, r \in Chats : chat[q].at \in Loaded /\ chat[r].at \in Loaded /\ chat[q].conv = chat[r].conv
         => q = r \/ (q \in crossed /\ r \in crossed)
    /\ \A r \in done \ crossed : \A q \in Chats :
         chat[q].at \in Loaded /\ chat[q].conv = chat[r].conv => Holds(chat[q].base, r)
    /\ \A r \in done \ crossed : rows[chat[r].conv] # NoRow => Holds(rows[chat[r].conv].turns, r)

Passed == {r \in Chats : chat[r].at \in {"counted", "over"}}
Free == {r \in Chats : r \in done \/ chat[r].at = "counted"} \ charged

\* The counter counts every chat within the quota, and a chat alone decides on it as it is.
QuotaInv ==
    /\ month <= Cardinality(Passed)
    /\ solo =>
         /\ \A q, r \in Chats : chat[q].at \in Gated /\ chat[r].at \in Gated => q = r
         /\ \A r \in Chats : chat[r].at \in Gated => chat[r].n = month
         /\ \A r \in Chats : chat[r].at = "alert" => ~flag
         /\ alerts = IF flag THEN 1 ELSE 0
         /\ ~blind => Cardinality(Free) <= month /\ Cardinality(Free) <= MonthLimit

Told(r) == chat[r].via = "orchestrate" /\ (chat[r].at \in {"replied", "saved", "counted"} \/ r \in done)

\* The orchestrator's history: answers that are known, and the handler at its second line.
HistoryInv ==
    /\ \A r \in Chats : Told(r) /\ chat[r].conv \notin expired => Holds(session[chat[r].conv], <<"reply", r>>)
    /\ \A c \in Convs \ (tangled \cup expired) : Paired(session[c])
    /\ \A r \in Chats : upstream[r] = "push" /\ chat[r].conv \notin tangled \cup expired
         => LastIs(session[chat[r].conv], <<"user", r>>)

ChatsInv == ChatStores /\ AskedInv /\ HeldInv /\ QuotaInv /\ HistoryInv

\* The sequence with one more element.
LEMMA Appended ==
    ASSUME NEW T, NEW s \in Seq(T), NEW e \in T
    PROVE  /\ Append(s, e) \in Seq(T) /\ Len(s) \in Nat /\ Len(Append(s, e)) = Len(s) + 1
           /\ DOMAIN s = 1..Len(s) /\ DOMAIN Append(s, e) = 1..(Len(s) + 1)
           /\ \A i \in 1..Len(s) : Append(s, e)[i] = s[i]
           /\ Append(s, e)[Len(s) + 1] = e
  OBVIOUS

\* What an appended sequence holds, and that it holds it once.
LEMMA AppendedHolds ==
    ASSUME NEW T, NEW s \in Seq(T), NEW e \in T
    PROVE  /\ Holds(Append(s, e), e) /\ LastIs(Append(s, e), e)
           /\ \A x : Holds(s, x) => Holds(Append(s, e), x)
           /\ Once(s) /\ ~Holds(s, e) => Once(Append(s, e))
<1> DEFINE a == Append(s, e)
<1>1. /\ Len(s) \in Nat /\ Len(a) = Len(s) + 1 /\ DOMAIN s = 1..Len(s) /\ DOMAIN a = 1..(Len(s) + 1)
      /\ \A i \in 1..Len(s) : a[i] = s[i]
      /\ a[Len(s) + 1] = e
  BY Appended
<1> HIDE DEF a
<1>2. Holds(a, e) /\ LastIs(a, e)
  BY <1>1 DEF Holds, LastIs
<1>3. \A x : Holds(s, x) => Holds(a, x)
  BY <1>1 DEF Holds
<1>4. Once(s) /\ ~Holds(s, e) => Once(a)
  <2> SUFFICES ASSUME Once(s), ~Holds(s, e), NEW i \in 1..(Len(s) + 1), NEW j \in 1..(Len(s) + 1), a[i] = a[j]
               PROVE  i = j
    BY <1>1 DEF Once
  <2>1. \A k \in 1..(Len(s) + 1) : k = Len(s) + 1 \/ k \in 1..Len(s)
    BY <1>1
  <2> QED
    BY <1>1, <2>1 DEF Once, Holds
<1> QED
  BY <1>2, <1>3, <1>4 DEF a

\* A question adds no answer; an answer follows its question.
LEMMA PairedOn ==
    ASSUME NEW s \in Seq(Lines), Paired(s), NEW r \in Chats
    PROVE  /\ Paired(Append(s, <<"user", r>>))
           /\ LastIs(s, <<"user", r>>) => Paired(Append(s, <<"reply", r>>))
<1>1. ASSUME NEW e \in Lines, e[1] = "reply" => LastIs(s, <<"user", e[2]>>)
      PROVE  Paired(Append(s, e))
  <2> DEFINE a == Append(s, e)
  <2>1. /\ Len(s) \in Nat /\ Len(a) = Len(s) + 1 /\ DOMAIN s = 1..Len(s) /\ DOMAIN a = 1..(Len(s) + 1)
        /\ \A i \in 1..Len(s) : a[i] = s[i]
        /\ a[Len(s) + 1] = e
    BY Appended
  <2> HIDE DEF a
  <2>2. ASSUME NEW i \in 1..(Len(s) + 1), a[i][1] = "reply" PROVE i > 1 /\ a[i - 1] = <<"user", a[i][2]>>
    <3>1. CASE i \in 1..Len(s)
      <4>1. i > 1 /\ s[i - 1] = <<"user", s[i][2]>>
        BY <2>1, <2>2, <3>1 DEF Paired
      <4>2. i - 1 \in 1..Len(s)
        BY <2>1, <3>1, <4>1
      <4> QED
        BY <2>1, <3>1, <4>1, <4>2
    <3>2. CASE i = Len(s) + 1
      <4>1. LastIs(s, <<"user", e[2]>>)
        BY <1>1, <2>1, <2>2, <3>2
      <4>2. Len(s) > 0 /\ s[Len(s)] = <<"user", e[2]>> /\ i - 1 = Len(s) /\ Len(s) \in 1..Len(s)
        BY <2>1, <3>2, <4>1 DEF LastIs
      <4> QED
        BY <2>1, <3>2, <4>2
    <3> QED
      BY <2>1, <2>2, <3>1, <3>2
  <2>3. Paired(a)
    BY <2>1, <2>2 DEF Paired
  <2> QED
    BY <2>3 DEF a
<1>2. <<"user", r>> \in Lines /\ <<"user", r>>[1] = "user"
  BY DEF Lines
<1>3. <<"reply", r>> \in Lines /\ <<"reply", r>>[1] = "reply" /\ <<"reply", r>>[2] = r
  BY DEF Lines
<1>4. Paired(Append(s, <<"user", r>>))
  BY <1>1, <1>2
<1>5. ASSUME LastIs(s, <<"user", r>>) PROVE Paired(Append(s, <<"reply", r>>))
  BY <1>1, <1>3, <1>5
<1> QED
  BY <1>4, <1>5

\* Sets of chats can be counted.
LEMMA ChatsCounted ==
    ASSUME NEW S, S \subseteq Chats, NEW T, T \subseteq S
    PROVE  /\ Cardinality(S) \in Nat /\ Cardinality(T) \in Nat /\ Cardinality(T) <= Cardinality(S)
           /\ IsFiniteSet(S) /\ IsFiniteSet(T)
<1>1. IsFiniteSet(Chats)
  BY ConversationsAssumption
<1>2. IsFiniteSet(S) /\ IsFiniteSet(T) /\ Cardinality(T) <= Cardinality(S)
  BY <1>1, FS_Subset
<1> QED
  BY <1>2, FS_CardinalityType

\* What a step of one chat leaves of the others.
LEMMA OneChat ==
    ASSUME ChatStores, NEW r \in Chats, NEW row \in ChatRows, chat' = [chat EXCEPT ![r] = row]
    PROVE  chat' \in [Chats -> ChatRows] /\ chat'[r] = row /\ \A q \in Chats : q = r \/ chat'[q] = chat[q]
BY DEF ChatStores

\* A chat that moves, and loads nothing, leaves the turns as they are.
LEMMA MoveHolds ==
    ASSUME ChatsInv, NEW r \in Chats, NEW row \in ChatRows, chat' = [chat EXCEPT ![r] = row],
           UNCHANGED <<rows, taken, done, crossed>>, r \notin done,
           row.base = chat[r].base \/ row.base = <<>>,
           row.at \in Loaded => chat[r].at \in Loaded /\ row.conv = chat[r].conv /\ row.base = chat[r].base
    PROVE  HeldInv'
<1>1. /\ chat' \in [Chats -> ChatRows] /\ chat'[r] = row
      /\ \A q \in Chats : q = r \/ chat'[q] = chat[q]
  BY OneChat DEF ChatsInv
<1>2. HeldInv /\ done \subseteq Chats
  BY DEF ChatsInv, ChatStores
<1>3. \A c \in Convs : rows'[c] # NoRow =>
         /\ c \in taken' /\ Once(rows'[c].turns)
         /\ \A i \in DOMAIN rows'[c].turns : rows'[c].turns[i] \in done'
  BY <1>2 DEF HeldInv
<1>4. \A q \in Chats : Once(chat'[q].base) /\ \A i \in DOMAIN chat'[q].base : chat'[q].base[i] \in done'
  BY <1>1, <1>2 DEF HeldInv, Once
<1>5. \A q \in Chats : chat'[q].at \in Loaded =>
        chat[q].at \in Loaded /\ chat'[q].conv = chat[q].conv /\ chat'[q].base = chat[q].base
  BY <1>1
<1>6. \A q \in done' \ crossed' : q \in done \ crossed /\ chat'[q] = chat[q]
  BY <1>1, <1>2
<1> QED
  BY <1>2, <1>3, <1>4, <1>5, <1>6 DEF HeldInv

\* A chat that moves and does not pass the gate leaves the quota, when it counts nothing.
LEMMA MoveCounts ==
    ASSUME ChatsInv, NEW r \in Chats, NEW row \in ChatRows, chat' = [chat EXCEPT ![r] = row],
           UNCHANGED <<month, flag, alerts, done>>, solo' => solo, blind => blind', charged \subseteq charged',
           chat[r].at # "over", chat[r].at = "counted" => row.at = "over",
           row.at # "counted", row.at = "alert" => ~flag,
           solo' /\ row.at \in Gated => \/ chat[r].at \in Gated /\ row.n = chat[r].n
                                        \/ row.n = month /\ \A q \in Chats : chat[q].at \notin Gated
    PROVE  QuotaInv'
<1>1. /\ chat' \in [Chats -> ChatRows] /\ chat'[r] = row
      /\ \A q \in Chats : q = r \/ chat'[q] = chat[q]
  BY OneChat DEF ChatsInv
<1>2. QuotaInv /\ month \in Nat
  BY DEF ChatsInv, ChatStores
<1>3. Passed \subseteq Passed' /\ Passed' \subseteq Chats
  BY <1>1 DEF Passed
<1>4. Free' \subseteq Free /\ Free \subseteq Chats
  BY <1>1 DEF Free
<1>5. /\ Cardinality(Passed) \in Nat /\ Cardinality(Passed') \in Nat /\ Cardinality(Passed) <= Cardinality(Passed')
      /\ Cardinality(Free) \in Nat /\ Cardinality(Free') \in Nat /\ Cardinality(Free') <= Cardinality(Free)
  BY <1>3, <1>4, ChatsCounted
<1>6. month' <= Cardinality(Passed')
  BY <1>2, <1>5 DEF QuotaInv
<1>7. ASSUME solo'
      PROVE  /\ \A p, q \in Chats : chat'[p].at \in Gated /\ chat'[q].at \in Gated => p = q
             /\ \A q \in Chats : chat'[q].at \in Gated => chat'[q].n = month'
             /\ \A q \in Chats : chat'[q].at = "alert" => ~flag'
             /\ alerts' = IF flag' THEN 1 ELSE 0
             /\ ~blind' => Cardinality(Free') <= month' /\ Cardinality(Free') <= MonthLimit
  <2>1. /\ \A p, q \in Chats : chat[p].at \in Gated /\ chat[q].at \in Gated => p = q
        /\ \A q \in Chats : chat[q].at \in Gated => chat[q].n = month
        /\ \A q \in Chats : chat[q].at = "alert" => ~flag
        /\ alerts = IF flag THEN 1 ELSE 0
        /\ ~blind => Cardinality(Free) <= month /\ Cardinality(Free) <= MonthLimit
    BY <1>2, <1>7 DEF QuotaInv
  <2>2. ~blind' => Cardinality(Free') <= month' /\ Cardinality(Free') <= MonthLimit
    BY <1>2, <1>5, <2>1, ConversationsAssumption
  <2>3. \A p, q \in Chats : chat'[p].at \in Gated /\ chat'[q].at \in Gated => p = q
    BY <1>1, <1>7, <2>1
  <2>4. \A q \in Chats : chat'[q].at \in Gated => chat'[q].n = month'
    <3> SUFFICES ASSUME NEW q \in Chats, chat'[q].at \in Gated PROVE chat'[q].n = month
      OBVIOUS
    <3>1. CASE q = r
      BY <1>1, <1>7, <2>1, <3>1
    <3>2. CASE q # r
      BY <1>1, <2>1, <3>2
    <3> QED
      BY <3>1, <3>2
  <2> QED
    BY <1>1, <2>1, <2>2, <2>3, <2>4
<1> QED
  BY <1>6, <1>7 DEF QuotaInv

\* A chat that moves and is not answered by it leaves the orchestrator's history.
LEMMA MoveFollows ==
    ASSUME ChatsInv, NEW r \in Chats, NEW row \in ChatRows, chat' = [chat EXCEPT ![r] = row],
           UNCHANGED <<session, done, expired, tangled>>, r \notin done,
           row.at \in {"replied", "saved", "counted"} =>
             /\ row.via = chat[r].via /\ row.conv = chat[r].conv
             /\ row.via = "operator" \/ chat[r].at \in {"replied", "saved", "counted"},
           upstream'[r] = "push" => row.conv = chat[r].conv,
           \A q \in Chats : upstream'[q] = "push" => upstream[q] = "push"
    PROVE  HistoryInv'
<1>1. /\ chat' \in [Chats -> ChatRows] /\ chat'[r] = row
      /\ \A q \in Chats : q = r \/ chat'[q] = chat[q]
  BY OneChat DEF ChatsInv
<1>2. HistoryInv
  BY DEF ChatsInv
<1>3. \A q \in Chats : Told(q)' => Told(q) /\ chat'[q].conv = chat[q].conv
  <2> SUFFICES ASSUME NEW q \in Chats, Told(q)' PROVE Told(q) /\ chat'[q].conv = chat[q].conv
    OBVIOUS
  <2>1. CASE q = r
    BY <1>1, <2>1 DEF Told
  <2>2. CASE q # r
    BY <1>1, <2>2 DEF Told
  <2> QED
    BY <2>1, <2>2
<1>4. \A q \in Chats : upstream'[q] = "push" => upstream[q] = "push" /\ chat'[q].conv = chat[q].conv
  BY <1>1
<1>5. \A q \in Chats : Told(q)' /\ chat'[q].conv \notin expired' => Holds(session'[chat'[q].conv], <<"reply", q>>)
  BY <1>2, <1>3 DEF HistoryInv
<1>6. \A q \in Chats : upstream'[q] = "push" /\ chat'[q].conv \notin tangled' \cup expired'
         => LastIs(session'[chat'[q].conv], <<"user", q>>)
  BY <1>2, <1>4 DEF HistoryInv
<1> QED
  BY <1>2, <1>5, <1>6 DEF HistoryInv

\* A chat that moves asks the model only within the limit.
LEMMA MoveAsks ==
    ASSUME ChatsInv, NEW r \in Chats, NEW row \in ChatRows, chat' = [chat EXCEPT ![r] = row],
           UNCHANGED done, taken \subseteq taken', charged \subseteq charged', r \notin done,
           \A q \in Chats : q = r \/ upstream'[q] = upstream[q],
           row.conv \in taken' \cup {NoRow}, row.at \in Loaded => row.conv # NoRow,
           row.at \notin {"away", "over"} => row.via # "none",
           upstream'[r] # "none" => row.at \in Loaded \cup {"over"} /\ row.conv # NoRow,
           row.at \in {"load", "calling", "replied", "saved"} /\ r \notin charged' => row.n < MonthLimit
    PROVE  AskedInv'
<1>1. /\ chat' \in [Chats -> ChatRows] /\ chat'[r] = row
      /\ \A q \in Chats : q = r \/ chat'[q] = chat[q]
  BY OneChat DEF ChatsInv
<1> SUFFICES ASSUME NEW q \in Chats
             PROVE  /\ chat'[q].conv \in taken' \cup {NoRow}
                    /\ chat'[q].at \in Loaded => chat'[q].conv # NoRow
                    /\ chat'[q].at \notin {"away", "over"} => chat'[q].via # "none"
                    /\ q \in done' => chat'[q].at = "over" /\ chat'[q].conv # NoRow
                    /\ upstream'[q] # "none" => chat'[q].at \in Loaded \cup {"over"} /\ chat'[q].conv # NoRow
                    /\ chat'[q].at \in {"load", "calling", "replied", "saved"} /\ q \notin charged'
                         => chat'[q].n < MonthLimit
  BY DEF AskedInv
<1>2. CASE q = r
  BY <1>1, <1>2
<1>3. CASE q # r
  <2>1. chat'[q] = chat[q] /\ upstream'[q] = upstream[q]
    BY <1>1, <1>3
  <2> QED
    BY <2>1 DEF ChatsInv, AskedInv
<1> QED
  BY <1>2, <1>3

\* A step by which a chat only goes to another place.
LEMMA PlaceKeeps ==
    ASSUME ChatsInv, NEW r \in Chats, NEW l, GoTo(r, l), UNCHANGED <<stores, chatHistory>>,
           chat[r].at # "over", l \in {"decide", "alert", "replied", "saved", "over"},
           l = "alert" => ~flag, l \in {"decide", "alert"} => chat[r].at \in {"flag", "alert"},
           l \in {"replied", "saved"} => /\ chat[r].at \in {"calling", "replied"}
                                         /\ chat[r].via = "operator" \/ chat[r].at = "replied"
    PROVE  ChatsInv'
<1> DEFINE row == [chat[r] EXCEPT !.at = l]
<1>1. chat[r] \in ChatRows /\ ChatStores /\ AskedInv
  BY DEF ChatsInv, ChatStores
<1>2. /\ row \in ChatRows /\ row.at = l /\ row.via = chat[r].via /\ row.conv = chat[r].conv
      /\ row.base = chat[r].base /\ row.n = chat[r].n
  BY <1>1 DEF ChatRows, ChatPlaces
<1>3. chat' = [chat EXCEPT ![r] = row]
  BY <1>1 DEF GoTo, ChatStores, ChatRows
<1> HIDE DEF row
<1>4. r \notin done
  BY <1>1 DEF AskedInv
<1>5. /\ UNCHANGED <<rows, taken, upstream, session, month, flag, overage>>
      /\ UNCHANGED <<done, charged, crossed, solo, blind, alerts, expired, tangled>>
  BY DEF stores, chatHistory
<1>6. ChatStores'
  <2>1. chat' \in [Chats -> ChatRows]
    BY <1>1, <1>2, <1>3, OneChat
  <2> QED
    BY <1>1, <1>5, <2>1 DEF ChatStores
<1>7. AskedInv'
  <2>1. upstream'[r] # "none" => row.at \in Loaded \cup {"over"} /\ row.conv # NoRow
    BY <1>1, <1>2, <1>5 DEF AskedInv, Loaded
  <2>2. row.at \in Loaded => row.conv # NoRow
    BY <1>1, <1>2 DEF AskedInv, Loaded
  <2>3. row.at \notin {"away", "over"} => row.via # "none"
    BY <1>1, <1>2 DEF AskedInv, Loaded
  <2>4. row.at \in {"load", "calling", "replied", "saved"} /\ r \notin charged' => row.n < MonthLimit
    BY <1>1, <1>2, <1>5 DEF AskedInv
  <2>5. row.conv \in taken' \cup {NoRow}
    BY <1>1, <1>2, <1>5 DEF AskedInv
  <2> QED
    BY <1>2, <1>3, <1>4, <1>5, <2>1, <2>2, <2>3, <2>4, <2>5, MoveAsks
<1>8. HeldInv'
  BY <1>2, <1>3, <1>4, <1>5, MoveHolds DEF Loaded
<1>9. QuotaInv'
  BY <1>2, <1>3, <1>5, MoveCounts DEF Gated
<1>10. HistoryInv'
  BY <1>2, <1>3, <1>4, <1>5, MoveFollows
<1> QED
  BY <1>6, <1>7, <1>8, <1>9, <1>10 DEF ChatsInv

\* In the first state no chat is asked for, and the chats' invariant holds.
LEMMA InitChats == ChatsInit => ChatsInv
<1> SUFFICES ASSUME ChatsInit PROVE ChatsInv
  OBVIOUS
<1>1. /\ \A r \in Chats : chat[r] = Unborn /\ upstream[r] = "none"
      /\ \A c \in Convs : rows[c] = NoRow /\ session[c] = <<>>
      /\ taken = {} /\ month = 0 /\ flag = FALSE /\ overage \in 0..MaxCredits
      /\ done = {} /\ charged = {} /\ crossed = {} /\ solo = TRUE /\ blind = FALSE
      /\ alerts = 0 /\ expired = {} /\ tangled = {}
  BY DEF ChatsInit
<1>2. Unborn \in ChatRows
  BY DEF Unborn, ChatRows, ChatPlaces
<1>3. ChatStores
  <2>1. chat \in [Chats -> ChatRows] /\ upstream \in [Chats -> {"none", "model", "push", "over"}]
    BY <1>2 DEF ChatsInit
  <2>2. rows \in [Convs -> TurnRows \cup {NoRow}] /\ session \in [Convs -> Seq(Lines)]
    BY DEF ChatsInit
  <2> QED
    BY <1>1, <2>1, <2>2 DEF ChatStores
<1>4. AskedInv
  BY <1>1 DEF AskedInv, Unborn, Loaded
<1>5. HeldInv
  BY <1>1 DEF HeldInv, Unborn, Loaded, Once
<1>6. QuotaInv
  <2>1. Passed = {} /\ Free = {}
    BY <1>1 DEF Passed, Free, Unborn
  <2>2. Cardinality(Passed) = 0 /\ Cardinality(Free) = 0
    BY <2>1, FS_EmptySet
  <2> QED
    BY <1>1, <2>2, ConversationsAssumption DEF QuotaInv, Unborn, Gated
<1>7. HistoryInv
  BY <1>1 DEF HistoryInv, Told, Unborn, Paired
<1> QED
  BY <1>3, <1>4, <1>5, <1>6, <1>7 DEF ChatsInv

\* A chat passes the gate of the quota, or is refused.
LEMMA GateKeeps ==
    ASSUME ChatsInv, NEW r \in Chats, NEW via \in {"operator", "orchestrate"}, NEW c, Gate(r, via, c)
    PROVE  ChatsInv'
<1>1. CASE chat' = [chat EXCEPT ![r].at = "over"] /\ UNCHANGED solo
  <2>1. GoTo(r, "over") /\ chat[r].at = "away" /\ UNCHANGED <<stores, chatHistory>>
    BY <1>1 DEF Gate, GoTo, Is, chatHistory
  <2> QED
    BY <2>1, PlaceKeeps
<1>2. ASSUME NEW l \in {"flag", "decide"},
             chat' = [chat EXCEPT ![r] = [at |-> l, via |-> via, conv |-> c, base |-> <<>>, n |-> month]],
             solo' = (solo /\ \A q \in Chats : chat[q].at \notin Gated)
      PROVE  ChatsInv'
  <2> DEFINE row == [at |-> l, via |-> via, conv |-> c, base |-> <<>>, n |-> month]
  <2>1. chat[r] \in ChatRows /\ ChatStores /\ AskedInv
    BY DEF ChatsInv, ChatStores
  <2>2. c \in taken \cup {NoRow} /\ chat[r].at = "away"
    BY DEF Gate, Is
  <2>3. row \in ChatRows /\ row.at = l /\ row.via # "none" /\ row.conv = c /\ row.base = <<>> /\ row.n = month
    BY <2>1, <2>2 DEF ChatRows, ChatPlaces, ChatStores
  <2>4. chat' = [chat EXCEPT ![r] = row]
    BY <1>2
  <2> HIDE DEF row
  <2>5. /\ UNCHANGED <<rows, taken, upstream, session, month, flag, overage>>
        /\ UNCHANGED <<done, charged, crossed, blind, alerts, expired, tangled>>
    BY DEF Gate, stores
  <2>6. r \notin done /\ upstream[r] = "none"
    BY <2>1, <2>2 DEF AskedInv, Loaded
  <2>7. ChatStores'
    <3>1. chat' \in [Chats -> ChatRows]
      BY <2>1, <2>3, <2>4, OneChat
    <3>2. solo' \in BOOLEAN
      BY <1>2
    <3> QED
      BY <2>1, <2>5, <3>1, <3>2 DEF ChatStores
  <2>8. AskedInv'
    BY <2>2, <2>3, <2>4, <2>5, <2>6, MoveAsks DEF Loaded
  <2>9. HeldInv'
    BY <2>2, <2>3, <2>4, <2>5, <2>6, MoveHolds DEF Loaded
  <2>10. QuotaInv'
    BY <1>2, <2>2, <2>3, <2>4, <2>5, MoveCounts
  <2>11. HistoryInv'
    BY <2>2, <2>3, <2>4, <2>5, <2>6, MoveFollows
  <2> QED
    BY <2>7, <2>8, <2>9, <2>10, <2>11 DEF ChatsInv
<1>3. CASE /\ chat' = [chat EXCEPT ![r] =
                        [at |-> IF month >= (MonthLimit * 4) \div 5 THEN "flag" ELSE "decide",
                         via |-> via, conv |-> c, base |-> <<>>, n |-> month]]
           /\ solo' = (solo /\ \A q \in Chats : chat[q].at \notin Gated)
  <2>1. PICK l \in {"flag", "decide"} : l = IF month >= (MonthLimit * 4) \div 5 THEN "flag" ELSE "decide"
    OBVIOUS
  <2> QED
    BY <1>2, <1>3, <2>1
<1> QED
  BY <1>1, <1>3 DEF Gate

\* Steps by which a chat only moves.
LEMMA QuietKeeps ==
    ASSUME ChatsInv, NEW r \in Chats,
           ReadFlag(r) \/ OperatorReplies(r) \/ CallFails(r) \/ Save(r) \/ RollBack(r)
    PROVE  ChatsInv'
<1>1. CASE ReadFlag(r)
  <2>1. PICK l \in {"decide", "alert"} : GoTo(r, l) /\ (l = "alert" => ~flag)
    BY <1>1 DEF ReadFlag
  <2>2. chat[r].at = "flag" /\ UNCHANGED <<stores, chatHistory>>
    BY <1>1 DEF ReadFlag, Is
  <2> QED
    BY <2>1, <2>2, PlaceKeeps
<1>2. CASE OperatorReplies(r)
  BY <1>2, PlaceKeeps DEF OperatorReplies, Is
<1>3. CASE CallFails(r)
  BY <1>3, PlaceKeeps DEF CallFails, Is
<1>4. CASE Save(r)
  <2>1. PICK l \in {"over", "saved"} : GoTo(r, l)
    BY <1>4 DEF Save
  <2>2. chat[r].at = "replied" /\ UNCHANGED <<stores, chatHistory>>
    BY <1>4 DEF Save, Is
  <2> QED
    BY <2>1, <2>2, PlaceKeeps
<1>5. CASE RollBack(r)
  BY <1>5, PlaceKeeps DEF RollBack, Is
<1> QED
  BY <1>1, <1>2, <1>3, <1>4, <1>5

\* The alert is sent.
LEMMA SendKeeps == ASSUME ChatsInv, NEW r \in Chats, SendAlert(r) PROVE ChatsInv'
<1> DEFINE row == [chat[r] EXCEPT !.at = "decide"]
<1>1. chat[r] \in ChatRows /\ ChatStores /\ AskedInv /\ QuotaInv
  BY DEF ChatsInv, ChatStores
<1>2. /\ row \in ChatRows /\ row.at = "decide" /\ row.via = chat[r].via /\ row.conv = chat[r].conv
      /\ row.base = chat[r].base /\ row.n = chat[r].n
  BY <1>1 DEF ChatRows, ChatPlaces
<1>3. /\ chat[r].at = "alert" /\ chat' = [chat EXCEPT ![r] = row] /\ flag' = TRUE /\ alerts' = alerts + 1
      /\ UNCHANGED <<rows, taken, upstream, session, month, overage>>
      /\ UNCHANGED <<done, charged, crossed, solo, blind, expired, tangled>>
  BY <1>1 DEF SendAlert, Is, GoTo, ChatStores, ChatRows
<1> HIDE DEF row
<1>4. r \notin done /\ upstream[r] = "none"
  BY <1>1, <1>3 DEF AskedInv, Loaded
<1>5. /\ chat' \in [Chats -> ChatRows] /\ chat'[r] = row
      /\ \A q \in Chats : q = r \/ chat'[q] = chat[q]
  BY <1>1, <1>2, <1>3, OneChat
<1>6. ChatStores'
  BY <1>1, <1>3, <1>5 DEF ChatStores
<1>7. AskedInv'
  BY <1>1, <1>2, <1>3, <1>4, MoveAsks DEF AskedInv, Loaded
<1>8. HeldInv'
  BY <1>2, <1>3, <1>4, MoveHolds DEF Loaded
<1>9. QuotaInv'
  <2>1. Passed' = Passed /\ Free' = Free
    BY <1>2, <1>3, <1>5 DEF Passed, Free
  <2>2. ASSUME solo
        PROVE  /\ \A p, q \in Chats : chat'[p].at \in Gated /\ chat'[q].at \in Gated => p = q
               /\ \A q \in Chats : chat'[q].at \in Gated => chat'[q].n = month
               /\ \A q \in Chats : chat'[q].at # "alert"
               /\ alerts' = 1
    <3>1. /\ \A p, q \in Chats : chat[p].at \in Gated /\ chat[q].at \in Gated => p = q
          /\ \A q \in Chats : chat[q].at \in Gated => chat[q].n = month
          /\ ~flag /\ alerts = 0
      BY <1>1, <1>3, <2>2 DEF QuotaInv
    <3>2. \A q \in Chats : chat'[q].at \in Gated => chat[q].at \in Gated /\ chat'[q].n = chat[q].n
      BY <1>2, <1>3, <1>5 DEF Gated
    <3>3. \A q \in Chats : q = r \/ chat[q].at \notin Gated
      BY <1>3, <3>1 DEF Gated
    <3>4. \A q \in Chats : chat'[q].at # "alert"
      BY <1>2, <1>5, <3>3 DEF Gated
    <3> QED
      BY <1>3, <3>1, <3>2, <3>4
  <2> QED
    BY <1>1, <1>3, <2>1, <2>2 DEF QuotaInv
<1>10. HistoryInv'
  BY <1>2, <1>3, <1>4, MoveFollows
<1> QED
  BY <1>6, <1>7, <1>8, <1>9, <1>10 DEF ChatsInv

\* The alert fails.
LEMMA AlertFailsKeeps == ASSUME ChatsInv, NEW r \in Chats, AlertFails(r) PROVE ChatsInv'
<1> DEFINE row == [chat[r] EXCEPT !.at = "decide"]
<1>1. chat[r] \in ChatRows /\ ChatStores /\ AskedInv
  BY DEF ChatsInv, ChatStores
<1>2. /\ row \in ChatRows /\ row.at = "decide" /\ row.via = chat[r].via /\ row.conv = chat[r].conv
      /\ row.base = chat[r].base /\ row.n = chat[r].n
  BY <1>1 DEF ChatRows, ChatPlaces
<1>3. /\ chat[r].at \in {"flag", "alert"} /\ chat' = [chat EXCEPT ![r] = row] /\ blind' = TRUE
      /\ UNCHANGED <<rows, taken, upstream, session, month, flag, overage>>
      /\ UNCHANGED <<done, charged, crossed, solo, alerts, expired, tangled>>
  BY <1>1 DEF AlertFails, Is, GoTo, ChatStores, ChatRows, stores
<1> HIDE DEF row
<1>4. r \notin done /\ upstream[r] = "none"
  BY <1>1, <1>3 DEF AskedInv, Loaded
<1>5. ChatStores'
  <2>1. chat' \in [Chats -> ChatRows]
    BY <1>1, <1>2, <1>3, OneChat
  <2> QED
    BY <1>1, <1>3, <2>1 DEF ChatStores
<1>6. AskedInv'
  BY <1>1, <1>2, <1>3, <1>4, MoveAsks DEF AskedInv, Loaded
<1>7. HeldInv'
  BY <1>2, <1>3, <1>4, MoveHolds DEF Loaded
<1>8. QuotaInv'
  BY <1>2, <1>3, MoveCounts DEF Gated
<1>9. HistoryInv'
  BY <1>2, <1>3, <1>4, MoveFollows
<1> QED
  BY <1>5, <1>6, <1>7, <1>8, <1>9 DEF ChatsInv

\* The quota is decided on.
LEMMA DecideKeeps == ASSUME ChatsInv, NEW r \in Chats, Decide(r) PROVE ChatsInv'
<1>1. chat[r] \in ChatRows /\ ChatStores /\ AskedInv
  BY DEF ChatsInv, ChatStores
<1>2. PICK l \in {"load", "over"} :
        /\ GoTo(r, l) /\ charged' \in {charged, charged \cup {r}} /\ overage' \in {overage, overage - 1}
        /\ overage' = overage - 1 => overage > 0
        /\ l = "load" => chat[r].n < MonthLimit \/ r \in charged'
  BY <1>1 DEF Decide, ChatStores
<1> DEFINE row == [chat[r] EXCEPT !.at = l]
<1>3. /\ row \in ChatRows /\ row.at = l /\ row.via = chat[r].via /\ row.conv = chat[r].conv
      /\ row.base = chat[r].base /\ row.n = chat[r].n
  BY <1>1 DEF ChatRows, ChatPlaces
<1>4. /\ chat[r].at = "decide" /\ chat' = [chat EXCEPT ![r] = row]
      /\ UNCHANGED <<rows, taken, upstream, session, month, flag>>
      /\ UNCHANGED <<done, crossed, solo, blind, alerts, expired, tangled>>
  BY <1>1, <1>2 DEF Decide, Is, GoTo, ChatStores, ChatRows
<1> HIDE DEF row
<1>5. r \notin done /\ upstream[r] = "none" /\ charged \subseteq charged'
  BY <1>1, <1>2, <1>4 DEF AskedInv, Loaded
<1>6. ChatStores'
  <2>1. chat' \in [Chats -> ChatRows]
    BY <1>1, <1>3, <1>4, OneChat
  <2>2. overage' \in 0..MaxCredits
    BY <1>1, <1>2, ConversationsAssumption DEF ChatStores
  <2>3. charged' \subseteq Chats
    BY <1>1, <1>2 DEF ChatStores
  <2> QED
    BY <1>1, <1>4, <2>1, <2>2, <2>3 DEF ChatStores
<1>7. AskedInv'
  <2>1. row.at = "load" => row.via # "none"
    BY <1>1, <1>3, <1>4 DEF AskedInv
  <2> QED
    BY <1>1, <1>2, <1>3, <1>4, <1>5, <2>1, MoveAsks DEF AskedInv, Loaded
<1>8. HeldInv'
  BY <1>3, <1>4, <1>5, MoveHolds DEF Loaded
<1>9. QuotaInv'
  BY <1>3, <1>4, <1>5, MoveCounts DEF Gated
<1>10. HistoryInv'
  BY <1>3, <1>4, <1>5, MoveFollows
<1> QED
  BY <1>6, <1>7, <1>8, <1>9, <1>10 DEF ChatsInv

\* A conversation is loaded.
LEMMA LoadKeeps == ASSUME ChatsInv, NEW r \in Chats, Load(r) PROVE ChatsInv'
<1> DEFINE c == chat[r].conv
           others == {q \in Chats : chat[q].conv = c /\ chat[q].at \in Loaded}
           row == [chat[r] EXCEPT !.at = "calling", !.base = rows[c].turns]
<1>1. chat[r] \in ChatRows /\ ChatStores /\ AskedInv /\ HeldInv
  BY DEF ChatsInv, ChatStores
<1>2. chat[r].at = "load" /\ c # NoRow /\ rows[c] # NoRow /\ c \in Convs
  BY <1>1 DEF Load, Is, Finds, AskedInv, ChatStores
<1>3. rows[c] \in TurnRows /\ rows[c].turns \in Seq(Chats)
  BY <1>1, <1>2 DEF ChatStores, TurnRows
<1>4. /\ row \in ChatRows /\ row.at = "calling" /\ row.via = chat[r].via /\ row.conv = c
      /\ row.base = rows[c].turns /\ row.n = chat[r].n
  BY <1>1, <1>3 DEF ChatRows, ChatPlaces
<1>5. /\ chat' = [chat EXCEPT ![r] = row]
      /\ UNCHANGED <<rows, taken, upstream, session, month, flag, overage>>
      /\ UNCHANGED <<done, charged, solo, blind, alerts, expired, tangled>>
  BY <1>1 DEF Load, stores, ChatStores, ChatRows
<1>6. crossed' = IF others = {} THEN crossed ELSE crossed \cup others \cup {r}
  BY DEF Load
<1> HIDE DEF row
<1>7. r \notin done /\ upstream[r] = "none"
  BY <1>1, <1>2 DEF AskedInv, Loaded
<1>8. /\ chat' \in [Chats -> ChatRows] /\ chat'[r] = row
      /\ \A q \in Chats : q = r \/ chat'[q] = chat[q]
  BY <1>1, <1>4, <1>5, OneChat
<1>9. ChatStores'
  <2>1. crossed' \subseteq Chats
    BY <1>1, <1>6 DEF ChatStores
  <2> QED
    BY <1>1, <1>5, <1>8, <2>1 DEF ChatStores
<1>10. AskedInv'
  BY <1>1, <1>2, <1>4, <1>5, <1>7, MoveAsks DEF AskedInv, Loaded
<1>11. HeldInv'
  <2>1. \A d \in Convs : rows'[d] # NoRow =>
          /\ d \in taken' /\ Once(rows'[d].turns)
          /\ \A i \in DOMAIN rows'[d].turns : rows'[d].turns[i] \in done'
    BY <1>1, <1>5 DEF HeldInv
  <2>2. \A q \in Chats : Once(chat'[q].base) /\ \A i \in DOMAIN chat'[q].base : chat'[q].base[i] \in done'
    <3>1. Once(rows[c].turns) /\ \A i \in DOMAIN rows[c].turns : rows[c].turns[i] \in done
      BY <1>1, <1>2 DEF HeldInv
    <3>2. \A q \in Chats : Once(chat[q].base) /\ \A i \in DOMAIN chat[q].base : chat[q].base[i] \in done
      BY <1>1 DEF HeldInv
    <3> QED
      BY <1>4, <1>5, <1>8, <3>1, <3>2
  <2>3. \A p, q \in Chats : chat'[p].at \in Loaded /\ chat'[q].at \in Loaded /\ chat'[p].conv = chat'[q].conv
          => p = q \/ (p \in crossed' /\ q \in crossed')
    <3>1. \A q \in Chats : q # r /\ chat'[q].at \in Loaded /\ chat'[q].conv = c => q \in others
      BY <1>8
    <3>2. \A q \in others : q \in crossed' /\ r \in crossed'
      BY <1>6
    <3> SUFFICES ASSUME NEW p \in Chats, NEW q \in Chats, chat'[p].at \in Loaded, chat'[q].at \in Loaded,
                        chat'[p].conv = chat'[q].conv, p # q
                 PROVE  p \in crossed' /\ q \in crossed'
      OBVIOUS
    <3>3. CASE p = r
      BY <1>4, <1>8, <3>1, <3>2, <3>3
    <3>4. CASE q = r
      BY <1>4, <1>8, <3>1, <3>2, <3>4
    <3>5. CASE p # r /\ q # r
      <4>1. chat'[p] = chat[p] /\ chat'[q] = chat[q]
        BY <1>8, <3>5
      <4>2. p \in crossed /\ q \in crossed
        BY <1>1, <4>1 DEF HeldInv
      <4> QED
        BY <1>6, <4>2
    <3> QED
      BY <3>3, <3>4, <3>5
  <2>4. \A t \in done' \ crossed' : t \in done \ crossed /\ chat'[t] = chat[t] /\ t # r
    BY <1>5, <1>6, <1>7, <1>8, <1>1 DEF ChatStores
  <2>5. \A t \in done \ crossed : rows[chat[t].conv] # NoRow => Holds(rows[chat[t].conv].turns, t)
    BY <1>1 DEF HeldInv
  <2>6. \A t \in done' \ crossed' : \A q \in Chats :
          chat'[q].at \in Loaded /\ chat'[q].conv = chat'[t].conv => Holds(chat'[q].base, t)
    <3> SUFFICES ASSUME NEW t \in done' \ crossed', NEW q \in Chats, chat'[q].at \in Loaded,
                        chat'[q].conv = chat'[t].conv
                 PROVE  Holds(chat'[q].base, t)
      OBVIOUS
    <3>1. CASE q = r
      BY <1>2, <1>4, <1>8, <2>4, <2>5, <3>1
    <3>2. CASE q # r
      BY <1>1, <1>8, <2>4, <3>2 DEF HeldInv
    <3> QED
      BY <3>1, <3>2
  <2>7. \A t \in done' \ crossed' : rows'[chat'[t].conv] # NoRow => Holds(rows'[chat'[t].conv].turns, t)
    BY <1>5, <2>4, <2>5
  <2> QED
    BY <2>1, <2>2, <2>3, <2>6, <2>7 DEF HeldInv
<1>12. QuotaInv'
  BY <1>2, <1>4, <1>5, MoveCounts DEF Gated
<1>13. HistoryInv'
  BY <1>4, <1>5, <1>7, MoveFollows
<1> QED
  BY <1>9, <1>10, <1>11, <1>12, <1>13 DEF ChatsInv

\* A conversation is begun.
LEMMA LoadNewKeeps == ASSUME ChatsInv, NEW r \in Chats, LoadNew(r) PROVE ChatsInv'
<1>1. chat[r] \in ChatRows /\ ChatStores /\ AskedInv /\ HeldInv /\ chat[r].at = "load"
  BY DEF ChatsInv, ChatStores, LoadNew, Is
<1>2. CASE GoTo(r, "over") /\ UNCHANGED taken
  <2>1. UNCHANGED <<stores, chatHistory>>
    BY <1>2 DEF LoadNew, stores
  <2> QED
    BY <1>1, <1>2, <2>1, PlaceKeeps
<1>3. ASSUME NEW c \in Convs \ taken, taken' = taken \cup {c},
             chat' = [chat EXCEPT ![r].at = "calling", ![r].conv = c]
      PROVE  ChatsInv'
  <2> DEFINE row == [chat[r] EXCEPT !.at = "calling", !.conv = c]
  <2>1. /\ row \in ChatRows /\ row.at = "calling" /\ row.via = chat[r].via /\ row.conv = c
        /\ row.base = chat[r].base /\ row.n = chat[r].n
    BY <1>1 DEF ChatRows, ChatPlaces
  <2>2. /\ chat' = [chat EXCEPT ![r] = row]
        /\ UNCHANGED <<rows, upstream, session, month, flag, overage>>
        /\ UNCHANGED <<done, charged, crossed, solo, blind, alerts, expired, tangled>>
    BY <1>1, <1>3 DEF LoadNew, chatHistory, ChatStores, ChatRows
  <2> HIDE DEF row
  <2>3. r \notin done /\ upstream[r] = "none" /\ c # NoRow
    BY <1>1, ConversationsAssumption DEF AskedInv, Loaded
  <2>4. /\ chat' \in [Chats -> ChatRows] /\ chat'[r] = row
        /\ \A q \in Chats : q = r \/ chat'[q] = chat[q]
    BY <1>1, <2>1, <2>2, OneChat
  <2>5. ChatStores'
    BY <1>1, <1>3, <2>2, <2>4 DEF ChatStores
  <2>6. AskedInv'
    BY <1>1, <1>3, <2>1, <2>2, <2>3, MoveAsks DEF AskedInv, Loaded
  <2>7. HeldInv'
    <3>1. \A q \in Chats : q # r => chat'[q] = chat[q] /\ chat[q].conv # c
      BY <1>1, <1>3, <2>3, <2>4 DEF AskedInv
    <3>2. \A q \in Chats : q # r => chat'[q].conv # chat'[r].conv
      BY <2>1, <2>4, <3>1
    <3>3. \A t \in done' : t \in done /\ t \in Chats /\ chat'[t] = chat[t] /\ t # r
      BY <1>1, <2>2, <2>3, <3>1 DEF ChatStores
    <3>4. \A q \in Chats : chat'[q].base = chat[q].base
      BY <2>1, <2>4
    <3>5. \A d \in Convs : rows'[d] # NoRow =>
            /\ d \in taken' /\ Once(rows'[d].turns)
            /\ \A i \in DOMAIN rows'[d].turns : rows'[d].turns[i] \in done'
      BY <1>1, <1>3, <2>2 DEF HeldInv
    <3>6. \A q \in Chats : Once(chat'[q].base) /\ \A i \in DOMAIN chat'[q].base : chat'[q].base[i] \in done'
      BY <1>1, <2>2, <3>4 DEF HeldInv
    <3>7. \A p, q \in Chats : chat'[p].at \in Loaded /\ chat'[q].at \in Loaded /\ chat'[p].conv = chat'[q].conv
            => p = q \/ (p \in crossed' /\ q \in crossed')
      BY <1>1, <2>2, <3>1, <3>2 DEF HeldInv
    <3>8. \A t \in done' \ crossed' : \A q \in Chats :
            chat'[q].at \in Loaded /\ chat'[q].conv = chat'[t].conv => Holds(chat'[q].base, t)
      BY <1>1, <2>2, <3>1, <3>2, <3>3 DEF HeldInv
    <3>9. \A t \in done' \ crossed' : rows'[chat'[t].conv] # NoRow => Holds(rows'[chat'[t].conv].turns, t)
      BY <1>1, <2>2, <3>3 DEF HeldInv
    <3> QED
      BY <3>5, <3>6, <3>7, <3>8, <3>9 DEF HeldInv
  <2>8. QuotaInv'
    BY <1>1, <2>1, <2>2, MoveCounts DEF Gated
  <2>9. HistoryInv'
    BY <2>1, <2>2, <2>3, MoveFollows
  <2> QED
    BY <2>5, <2>6, <2>7, <2>8, <2>9 DEF ChatsInv
<1> QED
  BY <1>2, <1>3 DEF LoadNew

\* A step of the orchestrator's handler by which no chat moves.
LEMMA HandlerKeeps ==
    ASSUME ChatsInv, NEW r \in Chats, NEW l \in {"model", "push", "over"}, upstream' = [upstream EXCEPT ![r] = l],
           chat[r].at \in Loaded \cup {"over"}, chat[r].conv # NoRow,
           UNCHANGED <<rows, taken, chat, month, flag, overage>>,
           UNCHANGED <<done, charged, crossed, solo, blind, alerts, expired>>,
           session' \in [Convs -> Seq(Lines)], tangled' \subseteq Convs, HistoryInv'
    PROVE  ChatsInv'
<1>1. ChatStores /\ AskedInv /\ HeldInv /\ QuotaInv
  BY DEF ChatsInv
<1>2. /\ upstream' \in [Chats -> {"none", "model", "push", "over"}]
      /\ upstream'[r] = l /\ \A q \in Chats : q = r \/ upstream'[q] = upstream[q]
  BY <1>1 DEF ChatStores
<1>3. ChatStores'
  BY <1>1, <1>2 DEF ChatStores
<1>4. AskedInv'
  BY <1>1, <1>2 DEF AskedInv
<1>5. HeldInv' /\ QuotaInv'
  BY <1>1 DEF HeldInv, QuotaInv, Passed, Free
<1> QED
  BY <1>3, <1>4, <1>5 DEF ChatsInv

\* The orchestrator routes.
LEMMA RouteKeeps == ASSUME ChatsInv, NEW r \in Chats, Route(r) PROVE ChatsInv'
<1>1. /\ chat[r].at = "calling" /\ upstream' = [upstream EXCEPT ![r] = "model"]
      /\ UNCHANGED <<rows, taken, chat, month, flag, overage, session>>
      /\ UNCHANGED <<done, charged, crossed, solo, blind, alerts, expired, tangled>>
  BY DEF Route, Is, chatHistory
<1>2. ChatStores /\ HistoryInv /\ chat[r].conv # NoRow
  BY <1>1 DEF ChatsInv, AskedInv, Loaded
<1>3. \A q \in Chats : upstream'[q] = "push" => upstream[q] = "push"
  BY <1>1, <1>2 DEF ChatStores
<1>4. HistoryInv'
  BY <1>1, <1>2, <1>3 DEF HistoryInv, Told
<1>5. chat[r].at \in Loaded /\ session' \in [Convs -> Seq(Lines)] /\ tangled' \subseteq Convs
  BY <1>1, <1>2 DEF ChatStores, Loaded
<1> QED
  BY <1>1, <1>2, <1>4, <1>5, HandlerKeeps

\* A line more in a conversation's history.
LEMMA OneLine ==
    ASSUME ChatStores, NEW c \in Convs, NEW e \in Lines, session' = [session EXCEPT ![c] = Append(@, e)]
    PROVE  /\ session' \in [Convs -> Seq(Lines)] /\ session[c] \in Seq(Lines) /\ session'[c] = Append(session[c], e)
           /\ \A d \in Convs : d = c \/ session'[d] = session[d]
           /\ \A d \in Convs : \A x : Holds(session[d], x) => Holds(session'[d], x)
<1>1. session \in [Convs -> Seq(Lines)] /\ session[c] \in Seq(Lines)
  BY DEF ChatStores
<1>2. Append(session[c], e) \in Seq(Lines)
  BY <1>1
<1>3. session'[c] = Append(session[c], e) /\ \A d \in Convs : d = c \/ session'[d] = session[d]
  BY <1>1
<1>4. session' \in [Convs -> Seq(Lines)]
  BY <1>1, <1>2
<1>5. \A x : Holds(session[c], x) => Holds(Append(session[c], e), x)
  BY <1>1, AppendedHolds
<1> QED
  BY <1>1, <1>3, <1>4, <1>5

\* The user's line is pushed.
LEMMA PushUserKeeps == ASSUME ChatsInv, NEW r \in Chats, PushUser(r) PROVE ChatsInv'
<1> DEFINE c == chat[r].conv
<1>1. ChatStores /\ HistoryInv /\ AskedInv
  BY DEF ChatsInv
<1>2. /\ upstream[r] = "model" /\ session' = [session EXCEPT ![c] = Append(@, <<"user", r>>)]
      /\ upstream' = [upstream EXCEPT ![r] = "push"]
      /\ tangled' = IF \E q \in Chats : upstream[q] = "push" /\ chat[q].conv = c
                    THEN tangled \cup {c} ELSE tangled
      /\ UNCHANGED <<rows, taken, chat, month, flag, overage>>
      /\ UNCHANGED <<done, charged, crossed, solo, blind, alerts, expired>>
  BY DEF PushUser
<1>3. c \in Convs /\ c # NoRow /\ chat[r].at \in Loaded \cup {"over"} /\ <<"user", r>> \in Lines
  BY <1>1, <1>2 DEF AskedInv, ChatStores, Lines
<1>4. /\ session' \in [Convs -> Seq(Lines)] /\ session[c] \in Seq(Lines) /\ session'[c] = Append(session[c], <<"user", r>>)
      /\ \A d \in Convs : d = c \/ session'[d] = session[d]
      /\ \A d \in Convs : \A x : Holds(session[d], x) => Holds(session'[d], x)
  BY <1>1, <1>2, <1>3, OneLine
<1>5. HistoryInv'
  <2>1. \A q \in Chats : Told(q)' /\ chat'[q].conv \notin expired' => Holds(session'[chat'[q].conv], <<"reply", q>>)
    <3> SUFFICES ASSUME NEW q \in Chats, Told(q)', chat'[q].conv \notin expired'
                 PROVE  Holds(session'[chat'[q].conv], <<"reply", q>>)
      OBVIOUS
    <3>1. Told(q) /\ chat[q].conv \notin expired
      BY <1>2 DEF Told
    <3>2. Holds(session[chat[q].conv], <<"reply", q>>)
      BY <1>1, <3>1 DEF HistoryInv
    <3>3. chat[q].conv \in Convs
      BY <1>1, <3>1 DEF Told, AskedInv, Loaded, ChatStores
    <3> QED
      BY <1>2, <1>4, <3>2, <3>3
  <2>2. \A d \in Convs \ (tangled' \cup expired') : Paired(session'[d])
    <3> SUFFICES ASSUME NEW d \in Convs \ (tangled' \cup expired') PROVE Paired(session'[d])
      OBVIOUS
    <3>1. Paired(session[d])
      BY <1>1, <1>2 DEF HistoryInv
    <3> QED
      BY <1>4, <3>1, PairedOn
  <2>3. \A q \in Chats : upstream'[q] = "push" /\ chat'[q].conv \notin tangled' \cup expired'
          => LastIs(session'[chat'[q].conv], <<"user", q>>)
    <3> SUFFICES ASSUME NEW q \in Chats, upstream'[q] = "push", chat'[q].conv \notin tangled' \cup expired'
                 PROVE  LastIs(session'[chat'[q].conv], <<"user", q>>)
      OBVIOUS
    <3>1. CASE q = r
      <4>1. LastIs(Append(session[c], <<"user", r>>), <<"user", r>>)
        BY <1>3, <1>4, AppendedHolds
      <4> QED
        BY <1>2, <1>4, <3>1, <4>1
    <3>2. CASE q # r
      <4>1. upstream[q] = "push" /\ chat[q].conv \notin tangled \cup expired /\ chat[q].conv # c
        BY <1>1, <1>2, <3>2 DEF ChatStores
      <4>2. LastIs(session[chat[q].conv], <<"user", q>>) /\ chat[q].conv \in Convs
        BY <1>1, <4>1 DEF HistoryInv, AskedInv, ChatStores
      <4> QED
        BY <1>2, <1>4, <4>1, <4>2
    <3> QED
      BY <3>1, <3>2
  <2> QED
    BY <2>1, <2>2, <2>3 DEF HistoryInv
<1>6. tangled' \subseteq Convs
  BY <1>1, <1>2, <1>3 DEF ChatStores
<1> QED
  BY <1>2, <1>3, <1>4, <1>5, <1>6, HandlerKeeps

\* The handler ends while its chat waits: the chat goes on, or fails.
LEMMA HandlerEnds ==
    ASSUME ChatsInv, NEW r \in Chats, NEW l \in {"replied", "over"}, GoTo(r, l), chat[r].at = "calling",
           upstream[r] # "none", upstream' = [upstream EXCEPT ![r] = "over"],
           UNCHANGED <<rows, taken, month, flag, overage>>,
           UNCHANGED <<done, charged, crossed, solo, blind, alerts, expired, tangled>>,
           session' \in [Convs -> Seq(Lines)], HistoryInv'
    PROVE  ChatsInv'
<1> DEFINE row == [chat[r] EXCEPT !.at = l]
<1>1. chat[r] \in ChatRows /\ ChatStores /\ AskedInv
  BY DEF ChatsInv, ChatStores
<1>2. /\ row \in ChatRows /\ row.at = l /\ row.via = chat[r].via /\ row.conv = chat[r].conv
      /\ row.base = chat[r].base /\ row.n = chat[r].n
  BY <1>1 DEF ChatRows, ChatPlaces
<1>3. chat' = [chat EXCEPT ![r] = row]
  BY <1>1 DEF GoTo, ChatStores, ChatRows
<1> HIDE DEF row
<1>4. r \notin done /\ chat[r].conv # NoRow
  BY <1>1 DEF AskedInv, Loaded
<1>5. /\ upstream' \in [Chats -> {"none", "model", "push", "over"}]
      /\ \A q \in Chats : q = r \/ upstream'[q] = upstream[q]
  BY <1>1 DEF ChatStores
<1>6. ChatStores'
  <2>1. chat' \in [Chats -> ChatRows]
    BY <1>1, <1>2, <1>3, OneChat
  <2> QED
    BY <1>1, <1>5, <2>1 DEF ChatStores
<1>7. AskedInv'
  BY <1>1, <1>2, <1>3, <1>4, <1>5, MoveAsks DEF AskedInv, Loaded
<1>8. HeldInv'
  BY <1>2, <1>3, <1>4, MoveHolds DEF Loaded
<1>9. QuotaInv'
  BY <1>2, <1>3, MoveCounts DEF Gated
<1> QED
  BY <1>6, <1>7, <1>8, <1>9 DEF ChatsInv

\* The reply is pushed.
LEMMA PushReplyKeeps == ASSUME ChatsInv, NEW r \in Chats, PushReply(r) PROVE ChatsInv'
<1> DEFINE c == chat[r].conv
<1>1. ChatStores /\ HistoryInv /\ AskedInv
  BY DEF ChatsInv
<1>2. /\ upstream[r] = "push" /\ session' = [session EXCEPT ![c] = Append(@, <<"reply", r>>)]
      /\ upstream' = [upstream EXCEPT ![r] = "over"]
      /\ IF Is(r, "calling") THEN GoTo(r, "replied") ELSE UNCHANGED chat
      /\ UNCHANGED <<rows, taken, month, flag, overage>>
      /\ UNCHANGED <<done, charged, crossed, solo, blind, alerts, expired, tangled>>
  BY DEF PushReply, chatHistory
<1>3. c \in Convs /\ c # NoRow /\ chat[r].at \in Loaded \cup {"over"} /\ <<"reply", r>> \in Lines
  BY <1>1, <1>2 DEF AskedInv, ChatStores, Lines
<1>4. /\ session' \in [Convs -> Seq(Lines)] /\ session[c] \in Seq(Lines) /\ session'[c] = Append(session[c], <<"reply", r>>)
      /\ \A d \in Convs : d = c \/ session'[d] = session[d]
      /\ \A d \in Convs : \A x : Holds(session[d], x) => Holds(session'[d], x)
  BY <1>1, <1>2, <1>3, OneLine
<1>5. Holds(session'[c], <<"reply", r>>)
  BY <1>3, <1>4, AppendedHolds
<1>6. \A q \in Chats : /\ chat'[q].conv = chat[q].conv /\ chat'[q].via = chat[q].via
                       /\ q = r \/ chat'[q].at = chat[q].at
  BY <1>1, <1>2 DEF GoTo, ChatStores, ChatRows
<1>7. HistoryInv'
  <2>1. \A q \in Chats : Told(q)' /\ chat'[q].conv \notin expired' => Holds(session'[chat'[q].conv], <<"reply", q>>)
    <3> SUFFICES ASSUME NEW q \in Chats, Told(q)', chat'[q].conv \notin expired'
                 PROVE  Holds(session'[chat'[q].conv], <<"reply", q>>)
      OBVIOUS
    <3>1. CASE q = r
      BY <1>5, <1>6, <3>1
    <3>2. CASE q # r
      <4>1. Told(q) /\ chat[q].conv \notin expired
        BY <1>2, <1>6, <3>2 DEF Told
      <4>2. Holds(session[chat[q].conv], <<"reply", q>>)
        BY <1>1, <4>1 DEF HistoryInv
      <4>3. chat[q].conv \in Convs
        BY <1>1, <4>1 DEF Told, AskedInv, Loaded, ChatStores
      <4> QED
        BY <1>4, <1>6, <4>2, <4>3
    <3> QED
      BY <3>1, <3>2
  <2>2. \A d \in Convs \ (tangled' \cup expired') : Paired(session'[d])
    <3> SUFFICES ASSUME NEW d \in Convs \ (tangled' \cup expired') PROVE Paired(session'[d])
      OBVIOUS
    <3>1. Paired(session[d])
      BY <1>1, <1>2 DEF HistoryInv
    <3>2. CASE d = c
      <4>1. LastIs(session[c], <<"user", r>>)
        BY <1>1, <1>2, <3>2 DEF HistoryInv
      <4> QED
        BY <1>4, <3>1, <3>2, <4>1, PairedOn
    <3> QED
      BY <1>4, <3>1, <3>2
  <2>3. \A q \in Chats : upstream'[q] = "push" /\ chat'[q].conv \notin tangled' \cup expired'
          => LastIs(session'[chat'[q].conv], <<"user", q>>)
    <3> SUFFICES ASSUME NEW q \in Chats, upstream'[q] = "push", chat'[q].conv \notin tangled' \cup expired'
                 PROVE  LastIs(session'[chat'[q].conv], <<"user", q>>)
      OBVIOUS
    <3>1. q # r /\ upstream[q] = "push" /\ chat[q].conv \notin tangled \cup expired
      BY <1>1, <1>2, <1>6 DEF ChatStores
    <3>2. LastIs(session[chat[q].conv], <<"user", q>>) /\ chat[q].conv \in Convs
      BY <1>1, <3>1 DEF HistoryInv, AskedInv, ChatStores
    <3>3. chat[q].conv # c
      <4> SUFFICES ASSUME chat[q].conv = c PROVE FALSE
        OBVIOUS
      <4>1. LastIs(session[c], <<"user", r>>)
        BY <1>1, <1>2, <3>1 DEF HistoryInv
      <4>2. <<"user", r>> = <<"user", q>>
        BY <3>2, <4>1 DEF LastIs
      <4> QED
        BY <3>1, <4>2
    <3> QED
      BY <1>4, <1>6, <3>2, <3>3
  <2> QED
    BY <2>1, <2>2, <2>3 DEF HistoryInv
<1>8. CASE chat[r].at = "calling"
  BY <1>2, <1>3, <1>4, <1>7, <1>8, HandlerEnds DEF Is
<1>9. CASE chat[r].at # "calling"
  <2>1. tangled' \subseteq Convs /\ UNCHANGED chat
    BY <1>1, <1>2, <1>9 DEF ChatStores, Is
  <2> QED
    BY <1>2, <1>3, <1>4, <1>7, <2>1, HandlerKeeps
<1> QED
  BY <1>8, <1>9

\* The model fails.
LEMMA UpstreamFailsKeeps == ASSUME ChatsInv, NEW r \in Chats, UpstreamFails(r) PROVE ChatsInv'
<1>1. ChatStores /\ HistoryInv /\ AskedInv
  BY DEF ChatsInv
<1>2. /\ upstream[r] \in {"model", "push"} /\ upstream' = [upstream EXCEPT ![r] = "over"]
      /\ IF Is(r, "calling") THEN GoTo(r, "over") ELSE UNCHANGED chat
      /\ UNCHANGED <<rows, taken, session, month, flag, overage>>
      /\ UNCHANGED <<done, charged, crossed, solo, blind, alerts, expired, tangled>>
  BY DEF UpstreamFails, chatHistory
<1>3. chat[r].conv # NoRow /\ chat[r].at \in Loaded \cup {"over"}
  BY <1>1, <1>2 DEF AskedInv
<1>4. \A q \in Chats : /\ chat'[q].conv = chat[q].conv /\ chat'[q].via = chat[q].via
                       /\ chat'[q].at = chat[q].at \/ chat'[q].at = "over"
  <2>1. CASE GoTo(r, "over")
    BY <1>1, <2>1 DEF GoTo, ChatStores, ChatRows
  <2>2. CASE UNCHANGED chat
    BY <2>2
  <2> QED
    BY <1>2, <2>1, <2>2
<1>5. \A q \in Chats : upstream'[q] = "push" => upstream[q] = "push"
  BY <1>1, <1>2 DEF ChatStores
<1>6. \A q \in Chats : Told(q)' => Told(q)
  BY <1>2, <1>4 DEF Told
<1>7. HistoryInv'
  BY <1>1, <1>2, <1>4, <1>5, <1>6 DEF HistoryInv
<1>8. session' \in [Convs -> Seq(Lines)] /\ tangled' \subseteq Convs
  BY <1>1, <1>2 DEF ChatStores
<1>9. CASE chat[r].at = "calling"
  BY <1>2, <1>3, <1>7, <1>8, <1>9, HandlerEnds DEF Is
<1>10. CASE chat[r].at # "calling"
  <2>1. UNCHANGED chat
    BY <1>2, <1>10 DEF Is
  <2> QED
    BY <1>2, <1>3, <1>7, <1>8, <2>1, HandlerKeeps
<1> QED
  BY <1>9, <1>10

\* The orchestrator's session expires.
LEMMA SessionExpiresKeeps == ASSUME ChatsInv, NEW c \in Convs, SessionExpires(c) PROVE ChatsInv'
<1>1. ChatStores /\ HistoryInv /\ AskedInv /\ HeldInv /\ QuotaInv
  BY DEF ChatsInv
<1>2. /\ session' = [session EXCEPT ![c] = <<>>] /\ expired' = expired \cup {c}
      /\ UNCHANGED <<rows, taken, chat, upstream, month, flag, overage>>
      /\ UNCHANGED <<done, charged, crossed, solo, blind, alerts, tangled>>
  BY DEF SessionExpires
<1>3. session' \in [Convs -> Seq(Lines)] /\ \A d \in Convs : d = c \/ session'[d] = session[d]
  BY <1>1, <1>2 DEF ChatStores
<1>4. ChatStores'
  BY <1>1, <1>2, <1>3 DEF ChatStores
<1>5. AskedInv' /\ HeldInv' /\ QuotaInv'
  BY <1>1, <1>2 DEF AskedInv, HeldInv, QuotaInv, Passed, Free
<1>6. HistoryInv'
  <2>1. \A q \in Chats : chat[q].conv # NoRow => chat[q].conv \in Convs
    BY <1>1 DEF AskedInv, ChatStores
  <2>2. \A q \in Chats : Told(q) \/ upstream[q] = "push" => chat[q].conv \in Convs
    BY <1>1, <2>1 DEF AskedInv, Told, Loaded
  <2>3. \A q \in Chats : Told(q)' => Told(q)
    BY <1>2 DEF Told
  <2> QED
    BY <1>1, <1>2, <1>3, <2>2, <2>3 DEF HistoryInv
<1> QED
  BY <1>4, <1>5, <1>6 DEF ChatsInv

\* The counter is increased.
LEMMA CountKeeps == ASSUME ChatsInv, NEW r \in Chats, Count(r) PROVE ChatsInv'
<1> DEFINE row == [chat[r] EXCEPT !.at = "counted"]
<1>1. chat[r] \in ChatRows /\ ChatStores /\ AskedInv /\ QuotaInv
  BY DEF ChatsInv, ChatStores
<1>2. /\ row \in ChatRows /\ row.at = "counted" /\ row.via = chat[r].via /\ row.conv = chat[r].conv
      /\ row.base = chat[r].base /\ row.n = chat[r].n
  BY <1>1 DEF ChatRows, ChatPlaces
<1>3. /\ chat[r].at = "saved" /\ chat' = [chat EXCEPT ![r] = row]
      /\ \/ month' = month + 1 /\ blind' = blind
         \/ month' = month /\ blind' = TRUE
      /\ UNCHANGED <<rows, taken, upstream, session, flag, overage>>
      /\ UNCHANGED <<done, charged, crossed, solo, alerts, expired, tangled>>
  BY <1>1 DEF Count, Is, GoTo, ChatStores, ChatRows
<1> HIDE DEF row
<1>4. r \notin done
  BY <1>1, <1>3 DEF AskedInv
<1>5. /\ chat' \in [Chats -> ChatRows] /\ chat'[r] = row
      /\ \A q \in Chats : q = r \/ chat'[q] = chat[q]
  BY <1>1, <1>2, <1>3, OneChat
<1>6. ChatStores'
  <2>1. CASE month' = month + 1 /\ blind' = blind
    BY <1>1, <1>3, <1>5, <2>1 DEF ChatStores
  <2>2. CASE month' = month /\ blind' = TRUE
    BY <1>1, <1>3, <1>5, <2>2 DEF ChatStores
  <2> QED
    BY <1>3, <2>1, <2>2
<1>7. AskedInv'
  <2>1. \A q \in Chats : q = r \/ upstream'[q] = upstream[q]
    BY <1>3
  <2> QED
    BY <1>1, <1>2, <1>3, <1>4, <2>1, MoveAsks DEF AskedInv, Loaded
<1>8. HeldInv'
  BY <1>2, <1>3, <1>4, MoveHolds DEF Loaded
<1>9. QuotaInv'
  <2>1. Passed' = Passed \cup {r} /\ r \notin Passed /\ Passed \subseteq Chats
    BY <1>2, <1>3, <1>5 DEF Passed
  <2>2. IsFiniteSet(Passed) /\ Cardinality(Passed) \in Nat
    BY <2>1, ChatsCounted
  <2>3. Cardinality(Passed') = Cardinality(Passed) + 1
    BY <2>1, <2>2, FS_AddElement
  <2>4. month' <= Cardinality(Passed')
    BY <1>1, <1>3, <2>2, <2>3 DEF QuotaInv, ChatStores
  <2>5. ASSUME solo
        PROVE  /\ \A p, q \in Chats : chat'[p].at \in Gated /\ chat'[q].at \in Gated => p = q
               /\ \A q \in Chats : chat'[q].at \notin Gated
               /\ \A q \in Chats : chat'[q].at = "alert" => ~flag'
               /\ alerts' = IF flag' THEN 1 ELSE 0
               /\ ~blind' => Cardinality(Free') <= month' /\ Cardinality(Free') <= MonthLimit
    <3>1. /\ \A p, q \in Chats : chat[p].at \in Gated /\ chat[q].at \in Gated => p = q
          /\ \A q \in Chats : chat[q].at \in Gated => chat[q].n = month
          /\ alerts = IF flag THEN 1 ELSE 0
          /\ ~blind => Cardinality(Free) <= month /\ Cardinality(Free) <= MonthLimit
      BY <1>1, <2>5 DEF QuotaInv
    <3>2. \A q \in Chats : q = r \/ chat[q].at \notin Gated
      BY <1>3, <3>1 DEF Gated
    <3>3. \A q \in Chats : chat'[q].at \notin Gated
      BY <1>2, <1>5, <3>2 DEF Gated
    <3>4. ASSUME ~blind' PROVE Cardinality(Free') <= month' /\ Cardinality(Free') <= MonthLimit
      <4>1. month' = month + 1 /\ ~blind /\ month \in Nat
        BY <1>1, <1>3, <3>4 DEF ChatStores
      <4>2. Free \subseteq Chats /\ r \notin Free
        BY <1>3, <1>4 DEF Free
      <4>3. IsFiniteSet(Free) /\ Cardinality(Free) \in Nat
        BY <4>2, ChatsCounted
      <4>4. CASE r \in charged
        <5>1. Free' = Free
          BY <1>2, <1>3, <1>5, <4>4 DEF Free
        <5> QED
          BY <3>1, <4>1, <4>3, <5>1
      <4>5. CASE r \notin charged
        <5>1. Free' = Free \cup {r}
          BY <1>2, <1>3, <1>5, <4>5 DEF Free
        <5>2. Cardinality(Free') = Cardinality(Free) + 1
          BY <4>2, <4>3, <5>1, FS_AddElement
        <5>3. chat[r].n < MonthLimit /\ chat[r].n = month
          BY <1>1, <1>3, <3>1, <4>5 DEF AskedInv, Gated
        <5> QED
          BY <3>1, <4>1, <4>3, <5>2, <5>3, ConversationsAssumption
      <4> QED
        BY <4>4, <4>5
    <3>5. \A q \in Chats : chat'[q].at # "alert"
      BY <3>3 DEF Gated
    <3> QED
      BY <1>3, <3>1, <3>3, <3>4, <3>5
  <2> QED
    BY <1>3, <2>4, <2>5 DEF QuotaInv
<1>10. HistoryInv'
  BY <1>2, <1>3, <1>4, MoveFollows
<1> QED
  BY <1>6, <1>7, <1>8, <1>9, <1>10 DEF ChatsInv

\* The chat commits its row.
LEMMA CommitKeeps == ASSUME ChatsInv, NEW r \in Chats, Commit(r) PROVE ChatsInv'
<1> DEFINE c == chat[r].conv
           turns == Append(chat[r].base, r)
           new == [turns |-> turns, module |-> IF rows[c] = NoRow THEN chat[r].via ELSE rows[c].module]
           row == [chat[r] EXCEPT !.at = "over"]
<1>1. /\ chat[r] \in ChatRows /\ ChatStores /\ AskedInv /\ HeldInv /\ QuotaInv /\ HistoryInv
      /\ chat[r].at = "counted"
  BY DEF ChatsInv, ChatStores, Commit, Is
<1>2. c \in Convs /\ c \in taken /\ c # NoRow /\ chat[r].via \in {"operator", "orchestrate"} /\ r \notin done
  BY <1>1 DEF AskedInv, Loaded, ChatStores, ChatRows
<1>3. chat[r].base \in Seq(Chats)
  BY <1>1 DEF ChatRows
<1>4. /\ turns \in Seq(Chats) /\ Holds(turns, r) /\ \A x : Holds(chat[r].base, x) => Holds(turns, x)
      /\ DOMAIN turns = 1..(Len(chat[r].base) + 1) /\ DOMAIN chat[r].base = 1..Len(chat[r].base)
      /\ \A i \in 1..Len(chat[r].base) : turns[i] = chat[r].base[i]
      /\ Len(chat[r].base) \in Nat /\ turns[Len(chat[r].base) + 1] = r
  BY <1>3, Appended, AppendedHolds
<1>5. Once(turns)
  <2>1. Once(chat[r].base) /\ ~Holds(chat[r].base, r)
    BY <1>1, <1>2 DEF HeldInv, Holds
  <2> QED
    BY <1>3, <2>1, AppendedHolds
<1> HIDE DEF turns
<1>6. new \in TurnRows /\ new.turns = turns
  BY <1>1, <1>2, <1>4 DEF TurnRows, ChatStores
<1>7. /\ row \in ChatRows /\ row.at = "over" /\ row.via = chat[r].via /\ row.conv = c
      /\ row.base = chat[r].base /\ row.n = chat[r].n
  BY <1>1 DEF ChatRows, ChatPlaces
<1>8. /\ rows' = [rows EXCEPT ![c] = new] /\ done' = done \cup {r} /\ chat' = [chat EXCEPT ![r] = row]
      /\ UNCHANGED <<taken, upstream, session, month, flag, overage>>
      /\ UNCHANGED <<charged, crossed, solo, blind, alerts, expired, tangled>>
  BY <1>1, <1>2 DEF Commit, GoTo, ChatStores, ChatRows, turns
<1> HIDE DEF new, row
<1>9. /\ chat' \in [Chats -> ChatRows] /\ chat'[r] = row
      /\ \A q \in Chats : q = r \/ chat'[q] = chat[q]
  BY <1>1, <1>7, <1>8, OneChat
<1>10. /\ rows' \in [Convs -> TurnRows \cup {NoRow}] /\ rows'[c] = new
       /\ \A d \in Convs : d = c \/ rows'[d] = rows[d]
  BY <1>1, <1>2, <1>6, <1>8 DEF ChatStores
<1>11. ChatStores'
  BY <1>1, <1>8, <1>9, <1>10 DEF ChatStores
<1>12. AskedInv'
  <2> SUFFICES ASSUME NEW q \in Chats
               PROVE  /\ chat'[q].conv \in taken' \cup {NoRow}
                      /\ chat'[q].at \in Loaded => chat'[q].conv # NoRow
                      /\ chat'[q].at \notin {"away", "over"} => chat'[q].via # "none"
                      /\ q \in done' => chat'[q].at = "over" /\ chat'[q].conv # NoRow
                      /\ upstream'[q] # "none" => chat'[q].at \in Loaded \cup {"over"} /\ chat'[q].conv # NoRow
                      /\ chat'[q].at \in {"load", "calling", "replied", "saved"} /\ q \notin charged'
                           => chat'[q].n < MonthLimit
    BY DEF AskedInv
  <2>1. CASE q = r
    BY <1>2, <1>7, <1>8, <1>9, <2>1 DEF Loaded
  <2>2. CASE q # r
    BY <1>1, <1>8, <1>9, <2>2 DEF AskedInv
  <2> QED
    BY <2>1, <2>2
<1>13. HeldInv'
  <2>1. ASSUME NEW d \in Convs, rows'[d] # NoRow
        PROVE  /\ d \in taken' /\ Once(rows'[d].turns)
               /\ \A i \in DOMAIN rows'[d].turns : rows'[d].turns[i] \in done'
    <3>1. CASE d = c
      <4>1. \A i \in DOMAIN chat[r].base : chat[r].base[i] \in done
        BY <1>1 DEF HeldInv
      <4>2. \A i \in DOMAIN turns : i \in 1..Len(chat[r].base) \/ i = Len(chat[r].base) + 1
        BY <1>4
      <4>3. \A i \in DOMAIN turns : turns[i] \in done'
        BY <1>4, <1>8, <4>1, <4>2
      <4> QED
        BY <1>2, <1>5, <1>6, <1>8, <1>10, <3>1, <4>3
    <3>2. CASE d # c
      BY <1>1, <1>8, <1>10, <2>1, <3>2 DEF HeldInv
    <3> QED
      BY <3>1, <3>2
  <2>2. \A q \in Chats : Once(chat'[q].base) /\ \A i \in DOMAIN chat'[q].base : chat'[q].base[i] \in done'
    BY <1>1, <1>7, <1>8, <1>9 DEF HeldInv
  <2>3. \A q \in Chats : chat'[q].at \in Loaded => q # r /\ chat'[q] = chat[q]
    BY <1>7, <1>9 DEF Loaded
  <2>4. chat[r].at \in Loaded
    BY <1>1 DEF Loaded
  <2>5. \A p, q \in Chats : chat'[p].at \in Loaded /\ chat'[q].at \in Loaded /\ chat'[p].conv = chat'[q].conv
          => p = q \/ (p \in crossed' /\ q \in crossed')
    BY <1>1, <1>8, <2>3 DEF HeldInv
  <2>6. ASSUME NEW t \in done' \ crossed', NEW q \in Chats, chat'[q].at \in Loaded, chat'[q].conv = chat'[t].conv
        PROVE  Holds(chat'[q].base, t)
    <3>1. CASE t = r
      BY <1>1, <1>7, <1>8, <1>9, <2>3, <2>4, <2>6, <3>1 DEF HeldInv
    <3>2. CASE t # r
      <4>1. t \in done \ crossed /\ t \in Chats
        BY <1>1, <1>8, <3>2 DEF ChatStores
      <4>2. chat'[t] = chat[t] /\ chat'[q] = chat[q]
        BY <1>9, <2>3, <2>6, <3>2, <4>1
      <4> QED
        BY <1>1, <2>6, <4>1, <4>2 DEF HeldInv
    <3> QED
      BY <3>1, <3>2
  <2>7. ASSUME NEW t \in done' \ crossed', rows'[chat'[t].conv] # NoRow
        PROVE  Holds(rows'[chat'[t].conv].turns, t)
    <3>1. CASE t = r
      BY <1>4, <1>6, <1>7, <1>9, <1>10, <3>1
    <3>2. CASE t # r
      <4>1. t \in done \ crossed /\ t \in Chats /\ chat'[t] = chat[t]
        BY <1>1, <1>8, <1>9, <3>2 DEF ChatStores
      <4>2. chat[t].conv \in Convs
        BY <1>1, <4>1 DEF AskedInv, ChatStores
      <4>3. CASE chat[t].conv = c
        <5>1. Holds(chat[r].base, t)
          BY <1>1, <2>4, <4>1, <4>3 DEF HeldInv
        <5> QED
          BY <1>4, <1>6, <1>10, <4>1, <4>3, <5>1
      <4>4. CASE chat[t].conv # c
        BY <1>1, <1>10, <2>7, <4>1, <4>2, <4>4 DEF HeldInv
      <4> QED
        BY <4>3, <4>4
    <3> QED
      BY <3>1, <3>2
  <2> QED
    BY <2>1, <2>2, <2>5, <2>6, <2>7 DEF HeldInv
<1>14. QuotaInv'
  <2>1. Passed' = Passed
    BY <1>1, <1>7, <1>9 DEF Passed
  <2>2. Free' = Free
    BY <1>1, <1>7, <1>8, <1>9 DEF Free
  <2>3. \A q \in Chats : chat'[q].at \in Gated \cup {"alert"} => chat'[q] = chat[q]
    BY <1>7, <1>9 DEF Gated
  <2> QED
    BY <1>1, <1>8, <2>1, <2>2, <2>3 DEF QuotaInv
<1>15. HistoryInv'
  <2>1. \A q \in Chats : chat'[q].conv = chat[q].conv /\ chat'[q].via = chat[q].via
    BY <1>7, <1>9
  <2>2. \A q \in Chats : Told(q)' => Told(q)
    BY <1>1, <1>7, <1>8, <1>9 DEF Told
  <2> QED
    BY <1>1, <1>8, <2>1, <2>2 DEF HistoryInv
<1> QED
  BY <1>11, <1>12, <1>13, <1>14, <1>15 DEF ChatsInv

\* A conversation is deleted.
LEMMA DeleteChatKeeps == ASSUME ChatsInv, NEW c \in Convs, DeleteConversation(c) PROVE ChatsInv'
<1>1. ChatStores /\ HistoryInv /\ AskedInv /\ HeldInv /\ QuotaInv
  BY DEF ChatsInv
<1>2. /\ rows' = [rows EXCEPT ![c] = NoRow]
      /\ UNCHANGED <<taken, chat, upstream, session, month, flag, overage>>
      /\ UNCHANGED <<done, charged, crossed, solo, blind, alerts, expired, tangled>>
  BY DEF DeleteConversation, chatHistory
<1>3. rows' \in [Convs -> TurnRows \cup {NoRow}] /\ \A d \in Convs : rows'[d] # NoRow => rows'[d] = rows[d]
  BY <1>1, <1>2 DEF ChatStores
<1>4. ChatStores'
  BY <1>1, <1>2, <1>3 DEF ChatStores
<1>5. AskedInv' /\ QuotaInv' /\ HistoryInv'
  BY <1>1, <1>2 DEF AskedInv, QuotaInv, Passed, Free, HistoryInv, Told
<1>6. HeldInv'
  <2>1. \A t \in done : chat[t].conv \in Convs
    BY <1>1 DEF AskedInv, ChatStores
  <2> QED
    BY <1>1, <1>2, <1>3, <2>1 DEF HeldInv
<1> QED
  BY <1>4, <1>5, <1>6 DEF ChatsInv

\* Every step of the chats keeps the invariant.
LEMMA NextChats == ASSUME ChatsInv, [ChatsNext]_chatVars PROVE ChatsInv'
<1>1. ASSUME NEW r \in Chats, ChatStep(r) PROVE ChatsInv'
  <2>1. CASE \E via \in {"operator", "orchestrate"}, c \in Convs \cup {NoRow} : Gate(r, via, c)
    BY <2>1, GateKeeps
  <2>2. CASE ReadFlag(r) \/ OperatorReplies(r) \/ CallFails(r) \/ Save(r) \/ RollBack(r)
    BY <2>2, QuietKeeps
  <2>3. CASE SendAlert(r) \/ AlertFails(r) \/ Decide(r) \/ Load(r) \/ LoadNew(r)
    BY <2>3, SendKeeps, AlertFailsKeeps, DecideKeeps, LoadKeeps, LoadNewKeeps
  <2>4. CASE Route(r) \/ PushUser(r) \/ PushReply(r) \/ UpstreamFails(r) \/ Count(r) \/ Commit(r)
    BY <2>4, RouteKeeps, PushUserKeeps, PushReplyKeeps, UpstreamFailsKeeps, CountKeeps, CommitKeeps
  <2> QED
    BY <1>1, <2>1, <2>2, <2>3, <2>4 DEF ChatStep
<1>2. ASSUME NEW c \in Convs, SessionExpires(c) \/ DeleteConversation(c) PROVE ChatsInv'
  BY <1>2, SessionExpiresKeeps, DeleteChatKeeps
<1>3. CASE UNCHANGED chatVars
  BY <1>3 DEF chatVars, ChatsInv, ChatStores, AskedInv, HeldInv, QuotaInv, Passed, Free, HistoryInv, Told
<1> QED
  BY <1>1, <1>2, <1>3 DEF ChatsNext

\* The invariant gives the type.
LEMMA ChatsTypes == ASSUME ChatsInv PROVE ChatsTypeOK
<1>1. ChatStores /\ AskedInv /\ HeldInv /\ QuotaInv
  BY DEF ChatsInv
<1>2. ASSUME NEW c \in Convs, rows[c] # NoRow
      PROVE  /\ c \in taken /\ rows[c].module \in {"operator", "orchestrate"}
             /\ \A i, j \in DOMAIN rows[c].turns : rows[c].turns[i] = rows[c].turns[j] => i = j
  <2>1. rows[c] \in TurnRows
    BY <1>1, <1>2 DEF ChatStores
  <2> QED
    BY <1>1, <1>2, <2>1 DEF HeldInv, Once, TurnRows
<1>3. month \in 0..Cardinality(Chats)
  <2>1. Passed \subseteq Chats
    BY DEF Passed
  <2>2. Cardinality(Passed) <= Cardinality(Chats) /\ Cardinality(Passed) \in Nat /\ Cardinality(Chats) \in Nat
    BY <2>1, ChatsCounted
  <2> QED
    BY <1>1, <2>2 DEF QuotaInv, ChatStores
<1>4. \A r \in Chats : chat[r].conv \in taken \cup {NoRow} /\ chat[r].base \in Seq(Chats)
  BY <1>1 DEF AskedInv, ChatStores, ChatRows
<1> QED
  BY <1>1, <1>2, <1>3, <1>4 DEF ChatsTypeOK, ChatStores, Lines

\* The invariant gives the properties of the run.
LEMMA ChatsKept == ASSUME ChatsInv PROVE TurnStays /\ QuotaHolds /\ SessionFollows
<1>1. ChatStores /\ AskedInv /\ HeldInv /\ QuotaInv /\ HistoryInv
  BY DEF ChatsInv
<1>2. TurnStays
  BY <1>1 DEF HeldInv, TurnStays, Holds
<1>3. QuotaHolds
  <2> SUFFICES ASSUME solo PROVE (~blind => Cardinality(done \ charged) <= MonthLimit) /\ alerts <= 1
    BY DEF QuotaHolds
  <2>1. done \ charged \subseteq Free /\ Free \subseteq Chats
    BY <1>1 DEF Free, ChatStores
  <2>2. /\ Cardinality(done \ charged) <= Cardinality(Free) /\ Cardinality(done \ charged) \in Nat
        /\ Cardinality(Free) \in Nat
    BY <2>1, ChatsCounted
  <2> QED
    BY <1>1, <2>2, ConversationsAssumption DEF QuotaInv
<1>4. SessionFollows
  <2>1. \A r \in done : chat[r].via = "orchestrate" /\ chat[r].conv \notin expired =>
          \E i \in DOMAIN session[chat[r].conv] : session[chat[r].conv][i] = <<"reply", r>>
    <3> SUFFICES ASSUME NEW r \in done, chat[r].via = "orchestrate", chat[r].conv \notin expired
                 PROVE  Holds(session[chat[r].conv], <<"reply", r>>)
      BY DEF Holds
    <3>1. Told(r) /\ r \in Chats
      BY <1>1 DEF Told, ChatStores
    <3> QED
      BY <1>1, <3>1 DEF HistoryInv
  <2>2. \A c \in Convs \ (tangled \cup expired) : Paired(session[c])
    BY <1>1 DEF HistoryInv
  <2>3. \A c \in Convs \ (tangled \cup expired) : \A i \in DOMAIN session[c] :
          session[c][i][1] = "reply" => i > 1 /\ session[c][i - 1] = <<"user", session[c][i][2]>>
    BY <2>2 DEF Paired
  <2> QED
    BY <2>1, <2>3 DEF SessionFollows
<1> QED
  BY <1>2, <1>3, <1>4

-----------------------------------------------------------------------------
(* Campaigns: the counter of a campaign's texts and the texts themselves.       *)

TextRows == [at : {"unsent", "called", "flushed", "counted", "stored", "dropped"},
             of : Campaigns \cup {Archive}, seen : Nat]

TextTypes ==
    /\ generated \in [Campaigns -> 0..Cardinality(Texts)]
    /\ campaigns \subseteq born /\ born \subseteq Campaigns
    /\ texts \subseteq [name : Texts, of : Campaigns \cup {Archive}]
    /\ text \in [Texts -> TextRows] /\ rowHolder \in [Campaigns -> Texts \cup {NoText}]
    /\ counted \in 0..Cardinality(Texts)
    /\ written \subseteq Texts /\ mixed \subseteq Campaigns /\ unseen \in BOOLEAN

\* A transaction that has updated a campaign holds its row, and nobody else does.
HolderInv ==
    /\ \A t \in Texts : text[t].at \in {"flushed", "counted"} /\ text[t].of # Archive =>
         text[t].of \in campaigns /\ rowHolder[text[t].of] = t
    /\ \A c \in Campaigns : rowHolder[c] # NoText =>
         text[rowHolder[c]].of = c /\ text[rowHolder[c]].at \in {"flushed", "counted"}

\* A text is there because its request has stored it.
StoredInv ==
    /\ IsFiniteSet(texts)
    /\ \A k \in texts : /\ text[k.name].at = "stored" /\ text[k.name].of = k.of
                        /\ k.of \in campaigns \cup {Archive}
    /\ \A t \in written : text[t].at = "stored"

\* Requests that have tried to count, and those among them that may still be stored.
Past == {t \in Texts : text[t].at \in {"counted", "stored", "dropped"}}
Due == {t \in Texts : text[t].at \in {"counted", "stored"}}

CountInv == counted <= Cardinality(Past) /\ (unseen \/ Cardinality(Due) <= counted)

Own(c) == {k \in texts : k.of = c}

\* What the campaign's rows say, and what the requests under way have loaded of them.
SeenInv ==
    /\ \A c \in Campaigns \ born : generated[c] = 0
    /\ \A c \in campaigns : /\ generated[c] <= Cardinality(Own(c))
                            /\ c \notin mixed => generated[c] = Cardinality(Own(c))
    /\ \A t \in Texts : Open(t) /\ text[t].of # Archive => text[t].of \in born
    /\ \A t \in Texts, c \in campaigns : Open(t) /\ text[t].of = c =>
         /\ text[t].seen <= Cardinality(Own(c))
         /\ c \notin mixed => text[t].seen = generated[c]
    /\ \A t, u \in Texts :
         Open(t) /\ Open(u) /\ text[t].of = text[u].of /\ text[t].of \in Campaigns \ mixed => t = u

TextsInv == TextTypes /\ HolderInv /\ StoredInv /\ CountInv /\ SeenInv

\* Sets of requests can be counted.
LEMMA TextsFinite ==
    ASSUME NEW S, S \subseteq Texts
    PROVE  IsFiniteSet(S) /\ Cardinality(S) \in Nat /\ Cardinality(S) <= Cardinality(Texts)
           /\ Cardinality(Texts) \in Nat
<1>1. IsFiniteSet(Texts) /\ S \in SUBSET Texts
  BY CampaignsAssumption
<1>2. IsFiniteSet(S) /\ Cardinality(S) <= Cardinality(Texts)
  BY <1>1, FS_Subset
<1> QED
  BY <1>1, <1>2, FS_CardinalityType

\* Texts of distinct names are no more than the requests.
LEMMA FewTexts ==
    ASSUME NEW S, S \subseteq [name : Texts, of : Campaigns \cup {Archive}],
           \A k, l \in S : k.name = l.name => k = l
    PROVE  IsFiniteSet(S) /\ Cardinality(S) \in Nat /\ Cardinality(S) <= Cardinality(Texts)
<1> DEFINE Name == [k \in S |-> k.name]
<1>1. Name \in Injection(S, Texts)
  BY DEF Injection, IsInjective
<1>2. IsFiniteSet(Texts)
  BY CampaignsAssumption
<1> HIDE DEF Name
<1>3. IsFiniteSet(S) /\ Cardinality(S) <= Cardinality(Texts)
  BY <1>1, <1>2, FS_Injection
<1> QED
  BY <1>3, FS_CardinalityType

\* The texts of a campaign can be counted.
LEMMA OwnFinite == ASSUME TextsInv PROVE \A c : IsFiniteSet(Own(c)) /\ Cardinality(Own(c)) \in Nat
<1> SUFFICES ASSUME NEW c PROVE IsFiniteSet(Own(c)) /\ Cardinality(Own(c)) \in Nat
  OBVIOUS
<1>1. IsFiniteSet(texts) /\ Own(c) \in SUBSET texts
  BY DEF TextsInv, StoredInv, Own
<1> QED
  BY <1>1, FS_Subset, FS_CardinalityType

\* What a step of one request leaves of the others.
LEMMA OneText ==
    ASSUME TextTypes, NEW t \in Texts, NEW row \in TextRows, text' = [text EXCEPT ![t] = row]
    PROVE  /\ text' \in [Texts -> TextRows] /\ text'[t] = row
           /\ \A u \in Texts : u = t \/ text'[u] = text[u]
BY DEF TextTypes

\* A step of one request that counts nothing.
LEMMA CountKept ==
    ASSUME TextsInv, NEW t \in Texts, NEW row \in TextRows, text' = [text EXCEPT ![t] = row],
           text[t].at \notin {"stored", "dropped"}, row.at \notin {"counted", "stored"},
           text[t].at = "counted" => row.at = "dropped", UNCHANGED <<counted, unseen>>
    PROVE  CountInv'
<1>1. text'[t] = row /\ \A u \in Texts : u = t \/ text'[u] = text[u]
  BY OneText DEF TextsInv
<1>2. Past \subseteq Past'
  BY <1>1 DEF Past
<1>3. Due' \subseteq Due
  BY <1>1 DEF Due
<1>4. IsFiniteSet(Past') /\ IsFiniteSet(Due) /\ Cardinality(Past) \in Nat /\ Cardinality(Past') \in Nat
      /\ Cardinality(Due) \in Nat /\ Cardinality(Due') \in Nat
  BY TextsFinite DEF Past, Due
<1>5. Cardinality(Past) <= Cardinality(Past')
  BY <1>2, <1>4, FS_Subset
<1>6. Cardinality(Due') <= Cardinality(Due)
  BY <1>3, <1>4, FS_Subset
<1>7. counted \in Nat
  BY TextsFinite DEF TextsInv, TextTypes
<1> QED
  BY <1>4, <1>5, <1>6, <1>7 DEF TextsInv, CountInv

\* The row of a request not made.
LEMMA UnwrittenRow == Unwritten \in TextRows /\ Unwritten.at = "unsent"
BY DEF Unwritten, TextRows

\* In the first state no text is asked for, and the campaigns' invariant holds.
LEMMA InitTexts == CampaignsInit => TextsInv
<1> SUFFICES ASSUME CampaignsInit PROVE TextsInv
  OBVIOUS
<1>1. text \in [Texts -> TextRows] /\ \A t \in Texts : text[t].at = "unsent"
  BY UnwrittenRow DEF CampaignsInit
<1>2. Cardinality(Texts) \in Nat
  BY TextsFinite
<1>3. TextTypes
  <2>1. 0 \in 0..Cardinality(Texts)
    BY <1>2
  <2>2. generated \in [Campaigns -> 0..Cardinality(Texts)] /\ counted \in 0..Cardinality(Texts)
    BY <2>1 DEF CampaignsInit
  <2>3. rowHolder \in [Campaigns -> Texts \cup {NoText}]
    BY DEF CampaignsInit
  <2> QED
    BY <1>1, <2>2, <2>3 DEF CampaignsInit, TextTypes
<1>4. HolderInv /\ StoredInv
  BY <1>1, FS_EmptySet DEF CampaignsInit, HolderInv, StoredInv
<1>5. SeenInv
  <2>1. \A t \in Texts : ~Open(t)
    BY <1>1 DEF Open
  <2>2. campaigns = {} /\ \A c \in Campaigns : generated[c] = 0
    BY DEF CampaignsInit
  <2> QED
    BY <2>1, <2>2 DEF SeenInv
<1>6. Past = {} /\ Due = {}
  BY <1>1 DEF Past, Due
<1>7. CountInv
  BY <1>6, FS_EmptySet DEF CampaignsInit, CountInv
<1> QED
  BY <1>3, <1>4, <1>5, <1>7 DEF TextsInv

\* A campaign is created.
LEMMA CreateKeeps == ASSUME TextsInv, NEW c \in Campaigns, CreateCampaign(c) PROVE TextsInv'
<1>1. /\ c \notin born /\ born' = born \cup {c} /\ campaigns' = campaigns \cup {c}
      /\ UNCHANGED <<generated, texts, text, rowHolder, counted, written, mixed, unseen>>
  BY DEF CreateCampaign
<1>2. Past' = Past /\ Due' = Due /\ \A d : Own(d)' = Own(d)
  BY <1>1 DEF Past, Due, Own
<1>3. TextTypes' /\ HolderInv' /\ StoredInv' /\ CountInv'
  BY <1>1, <1>2 DEF TextsInv, TextTypes, HolderInv, StoredInv, CountInv
<1>4. Own(c) = {} /\ generated[c] = 0
  <2>1. c \notin campaigns \cup {Archive}
    BY <1>1, CampaignsAssumption DEF TextsInv, TextTypes
  <2> QED
    BY <1>1, <2>1 DEF TextsInv, StoredInv, SeenInv, Own
<1>5. \A t \in Texts : Open(t) => text[t].of # c
  BY <1>1, CampaignsAssumption DEF TextsInv, SeenInv
<1>6. SeenInv'
  <2>1. Cardinality(Own(c)) = 0
    BY <1>4, FS_EmptySet
  <2>2. \A t \in Texts : Open(t)' <=> Open(t)
    BY <1>1 DEF Open
  <2>3. \A d \in campaigns' : /\ generated'[d] <= Cardinality(Own(d)')
                              /\ d \notin mixed' => generated'[d] = Cardinality(Own(d)')
    <3>1. ASSUME NEW d \in campaigns', d # c
          PROVE  /\ generated'[d] <= Cardinality(Own(d)')
                 /\ d \notin mixed' => generated'[d] = Cardinality(Own(d)')
      <4>1. d \in campaigns /\ Own(d)' = Own(d)
        BY <1>1, <1>2, <3>1
      <4> QED
        BY <1>1, <4>1 DEF TextsInv, SeenInv
    <3>2. generated'[c] = 0 /\ Cardinality(Own(c)') = 0
      BY <1>1, <1>2, <1>4, <2>1
    <3> QED
      BY <3>1, <3>2
  <2>4. \A t \in Texts : Open(t) /\ text[t].of \in campaigns' => text[t].of \in campaigns
    BY <1>1, <1>5
  <2> QED
    BY <1>1, <1>2, <2>2, <2>3, <2>4 DEF TextsInv, SeenInv, Own
<1> QED
  BY <1>3, <1>6 DEF TextsInv

\* A campaign is deleted with its texts.
LEMMA DeleteCampaignKeeps == ASSUME TextsInv, NEW c \in Campaigns, DeleteCampaign(c) PROVE TextsInv'
<1>1. /\ c \in campaigns /\ rowHolder[c] = NoText /\ campaigns' = campaigns \ {c}
      /\ texts' = {k \in texts : k.of # c}
      /\ UNCHANGED <<generated, text, rowHolder, counted, born, written, mixed, unseen>>
  BY DEF DeleteCampaign
<1>2. Past' = Past /\ Due' = Due /\ \A d \in campaigns' : Own(d)' = Own(d)
  BY <1>1 DEF Past, Due, Own
<1>3. TextTypes' /\ CountInv'
  BY <1>1, <1>2 DEF TextsInv, TextTypes, CountInv
<1>4. HolderInv'
  BY <1>1, CampaignsAssumption DEF TextsInv, TextTypes, HolderInv
<1>5. StoredInv'
  <2>1. IsFiniteSet(texts')
    BY <1>1, FS_Subset DEF TextsInv, StoredInv
  <2> QED
    BY <1>1, <2>1 DEF TextsInv, StoredInv
<1>6. SeenInv'
  <2>1. \A t \in Texts : Open(t)' <=> Open(t)
    BY <1>1 DEF Open
  <2>2. \A d \in campaigns' : d \in campaigns /\ Cardinality(Own(d)') = Cardinality(Own(d))
    BY <1>1, <1>2
  <2>3. SeenInv
    BY DEF TextsInv
  <2>4. \A d \in campaigns' : /\ generated'[d] <= Cardinality(Own(d)')
                              /\ d \notin mixed' => generated'[d] = Cardinality(Own(d)')
    BY <1>1, <2>2, <2>3 DEF SeenInv
  <2>5. \A t \in Texts, d \in campaigns' : Open(t)' /\ text'[t].of = d =>
          /\ text'[t].seen <= Cardinality(Own(d)')
          /\ d \notin mixed' => text'[t].seen = generated'[d]
    BY <1>1, <2>1, <2>2, <2>3 DEF SeenInv
  <2> QED
    BY <1>1, <2>1, <2>3, <2>4, <2>5 DEF SeenInv, Own
<1> QED
  BY <1>3, <1>4, <1>5, <1>6 DEF TextsInv

\* A request begins, for a campaign or for the archive.
LEMMA GenerateKeeps ==
    ASSUME TextsInv, NEW t \in Texts, NEW c, c # Archive, (c \in Campaigns /\ Generate(t, c)) \/ Clone(t)
    PROVE  TextsInv'
<1>a. TextTypes /\ HolderInv /\ StoredInv /\ SeenInv
  BY DEF TextsInv
<1>1. PICK row : row = IF c \in Campaigns /\ Generate(t, c) THEN [at |-> "called", of |-> c, seen |-> generated[c]]
                       ELSE [at |-> "called", of |-> Archive, seen |-> 0]
  OBVIOUS
<1>2. row \in TextRows /\ row.at = "called" /\ row.of \in {c, Archive}
  <2>1. CASE c \in Campaigns /\ Generate(t, c)
    <3>1. generated[c] \in Nat
      BY <2>1, TextsFinite DEF TextsInv, TextTypes
    <3> QED
      BY <1>1, <2>1, <3>1 DEF TextRows
  <2>2. CASE ~(c \in Campaigns /\ Generate(t, c))
    BY <1>1, <2>2 DEF TextRows
  <2> QED
    BY <2>1, <2>2
<1>3. /\ text[t].at = "unsent" /\ text' = [text EXCEPT ![t] = row]
      /\ UNCHANGED <<campaigns, born, generated, texts, rowHolder, counted, written, unseen>>
  <2>1. CASE c \in Campaigns /\ Generate(t, c)
    BY <1>1, <2>1 DEF Generate
  <2>2. CASE ~(c \in Campaigns /\ Generate(t, c))
    BY <1>1, <2>2 DEF Clone
  <2> QED
    BY <2>1, <2>2
<1>4. text' \in [Texts -> TextRows] /\ text'[t] = row /\ \A u \in Texts : u = t \/ text'[u] = text[u]
  BY <1>2, <1>3, OneText DEF TextsInv
<1>5. CountInv'
  BY <1>2, <1>3, CountKept
<1>6. mixed' \subseteq Campaigns /\ mixed \subseteq mixed'
  BY <1>a DEF Generate, Clone, TextTypes
<1>7. TextTypes'
  BY <1>a, <1>3, <1>4, <1>6 DEF TextTypes
<1>8. HolderInv'
  BY <1>a, <1>2, <1>3, <1>4 DEF HolderInv, TextTypes
<1>9. StoredInv'
  BY <1>a, <1>3, <1>4 DEF StoredInv, TextTypes
<1>10. \A d : Own(d)' = Own(d)
  BY <1>3 DEF Own
<1>11. \A u \in Texts : u # t => (Open(u)' <=> Open(u))
  BY <1>4 DEF Open
<1>12. /\ row.of = c => /\ c \in campaigns /\ row.seen = generated[c]
                        /\ c \notin mixed' => \A u \in Texts : Open(u) => text[u].of # c
  <2>1. CASE c \in Campaigns /\ Generate(t, c)
    <3>1. c \in campaigns /\ mixed' = mixed \cup {d \in {c} : \E u \in Texts : text[u].of = d /\ Open(u)}
      BY <2>1 DEF Generate
    <3> QED
      BY <1>1, <2>1, <3>1
  <2>2. CASE ~(c \in Campaigns /\ Generate(t, c))
    BY <1>1, <2>2, CampaignsAssumption
  <2> QED
    BY <2>1, <2>2
<1>13. SeenInv'
  <2>1. \A d \in campaigns' : /\ generated'[d] <= Cardinality(Own(d)')
                              /\ d \notin mixed' => generated'[d] = Cardinality(Own(d)')
    BY <1>a, <1>3, <1>6, <1>10 DEF SeenInv
  <2>2. \A u \in Texts : Open(u)' /\ text'[u].of # Archive => text'[u].of \in born'
    <3>1. c \in campaigns => c \in born
      BY <1>a DEF TextTypes
    <3> QED
      BY <1>a, <1>2, <1>3, <1>4, <1>11, <1>12, <3>1 DEF SeenInv
  <2>3. ASSUME NEW u \in Texts, NEW d \in campaigns', Open(u)', text'[u].of = d
        PROVE  /\ text'[u].seen <= Cardinality(Own(d)')
               /\ d \notin mixed' => text'[u].seen = generated'[d]
    <3>1. CASE u = t
      <4>1. Archive \notin campaigns'
        BY <1>7, CampaignsAssumption DEF TextTypes
      <4>2. row.of = c /\ d = c
        BY <1>2, <1>4, <2>3, <3>1, <4>1
      <4> QED
        BY <1>a, <1>3, <1>4, <1>6, <1>10, <1>12, <3>1, <4>2 DEF SeenInv
    <3>2. CASE u # t
      BY <1>a, <1>3, <1>4, <1>6, <1>10, <1>11, <2>3, <3>2 DEF SeenInv
    <3> QED
      BY <3>1, <3>2
  <2>4. ASSUME NEW u \in Texts, NEW v \in Texts, Open(u)', Open(v)',
               text'[u].of = text'[v].of, text'[u].of \in Campaigns \ mixed'
        PROVE  u = v
    <3>1. CASE u # t /\ v # t
      BY <1>a, <1>4, <1>6, <1>11, <2>4, <3>1 DEF SeenInv
    <3>2. CASE u = t \/ v = t
      <4>1. row.of = c /\ c \notin mixed'
        BY <1>2, <1>4, <2>4, <3>2, CampaignsAssumption
      <4>2. \A w \in Texts : w # t /\ Open(w)' => text'[w].of # c
        BY <1>4, <1>11, <1>12, <4>1
      <4> QED
        BY <1>4, <2>4, <3>2, <4>1, <4>2
    <3> QED
      BY <3>1, <3>2
  <2> QED
    BY <1>a, <1>3, <2>1, <2>2, <2>3, <2>4 DEF SeenInv
<1> QED
  BY <1>5, <1>7, <1>8, <1>9, <1>13 DEF TextsInv

\* A step of a request that stores nothing keeps what is said of campaigns and loaded counts.
LEMMA SeenKept ==
    ASSUME TextsInv, NEW t \in Texts, NEW row \in TextRows, text' = [text EXCEPT ![t] = row],
           row.of = text[t].of, row.seen = text[t].seen, Open(t),
           UNCHANGED <<campaigns, born, generated, texts, mixed>>
    PROVE  SeenInv'
<1>1. text' \in [Texts -> TextRows] /\ text'[t] = row /\ \A u \in Texts : u = t \/ text'[u] = text[u]
  BY OneText DEF TextsInv
<1>2. \A d : Own(d)' = Own(d)
  BY DEF Own
<1>3. \A u \in Texts : (Open(u)' => Open(u)) /\ text'[u].of = text[u].of /\ text'[u].seen = text[u].seen
  BY <1>1 DEF Open
<1>4. SeenInv
  BY DEF TextsInv
<1>5. \A d \in campaigns' : /\ generated'[d] <= Cardinality(Own(d)')
                            /\ d \notin mixed' => generated'[d] = Cardinality(Own(d)')
  BY <1>2, <1>4 DEF SeenInv
<1>6. ASSUME NEW u \in Texts, NEW d \in campaigns', Open(u)', text'[u].of = d
      PROVE  /\ text'[u].seen <= Cardinality(Own(d)')
             /\ d \notin mixed' => text'[u].seen = generated'[d]
  BY <1>2, <1>3, <1>4, <1>6 DEF SeenInv
<1>7. \A u, v \in Texts :
        Open(u)' /\ Open(v)' /\ text'[u].of = text'[v].of /\ text'[u].of \in Campaigns \ mixed' => u = v
  BY <1>3, <1>4 DEF SeenInv
<1> QED
  BY <1>3, <1>4, <1>5, <1>6, <1>7 DEF SeenInv

\* A request writes its text.
LEMMA FlushKeeps == ASSUME TextsInv, NEW t \in Texts, Flush(t) PROVE TextsInv'
<1>a. TextTypes /\ HolderInv /\ StoredInv /\ text[t] \in TextRows
  BY DEF TextsInv, TextTypes
<1> DEFINE row == [text[t] EXCEPT !.at = "flushed"]
<1>1. row \in TextRows /\ row.at = "flushed" /\ row.of = text[t].of /\ row.seen = text[t].seen
  BY <1>a DEF TextRows
<1>2. /\ text[t].at = "called" /\ text' = [text EXCEPT ![t] = row]
      /\ text[t].of # Archive => text[t].of \in campaigns /\ rowHolder[text[t].of] = NoText
      /\ rowHolder' = [d \in Campaigns |-> IF d = text[t].of THEN t ELSE rowHolder[d]]
      /\ UNCHANGED <<campaigns, born, generated, texts, counted, written, mixed, unseen>>
  BY <1>a DEF Flush, TextRows, TextTypes
<1> HIDE DEF row
<1>3. text' \in [Texts -> TextRows] /\ text'[t] = row /\ \A u \in Texts : u = t \/ text'[u] = text[u]
  BY <1>1, <1>2, OneText DEF TextsInv
<1>4. CountInv'
  BY <1>1, <1>2, CountKept
<1>5. SeenInv'
  BY <1>1, <1>2, SeenKept DEF Open
<1>6. TextTypes'
  <2>1. rowHolder' \in [Campaigns -> Texts \cup {NoText}]
    BY <1>a, <1>2 DEF TextTypes
  <2> QED
    BY <1>a, <1>2, <1>3, <2>1 DEF TextTypes
<1>7. StoredInv'
  BY <1>a, <1>2, <1>3 DEF StoredInv, TextTypes
<1>8. HolderInv'
  <2>1. \A u \in Texts : text'[u].at \in {"flushed", "counted"} /\ text'[u].of # Archive =>
          text'[u].of \in campaigns /\ rowHolder'[text'[u].of] = u
    <3> SUFFICES ASSUME NEW u \in Texts, text'[u].at \in {"flushed", "counted"}, text'[u].of # Archive
                 PROVE  text'[u].of \in campaigns /\ rowHolder'[text'[u].of] = u
      OBVIOUS
    <3>1. campaigns \subseteq Campaigns
      BY <1>a DEF TextTypes
    <3>2. CASE u = t
      BY <1>1, <1>2, <1>3, <3>1, <3>2
    <3>3. CASE u # t
      <4>1. text[u].of \in campaigns /\ rowHolder[text[u].of] = u /\ text'[u].of = text[u].of
        BY <1>a, <1>3, <3>3 DEF HolderInv
      <4>2. text[u].of # text[t].of
        BY <1>2, <3>1, <4>1, CampaignsAssumption
      <4> QED
        BY <1>2, <3>1, <4>1, <4>2
    <3> QED
      BY <3>2, <3>3
  <2>2. \A d \in Campaigns : rowHolder'[d] # NoText =>
          text'[rowHolder'[d]].of = d /\ text'[rowHolder'[d]].at \in {"flushed", "counted"}
    <3> SUFFICES ASSUME NEW d \in Campaigns, rowHolder'[d] # NoText
                 PROVE  text'[rowHolder'[d]].of = d /\ text'[rowHolder'[d]].at \in {"flushed", "counted"}
      OBVIOUS
    <3>1. CASE d = text[t].of
      BY <1>1, <1>2, <1>3, <3>1
    <3>2. CASE d # text[t].of
      <4>1. rowHolder'[d] = rowHolder[d] /\ rowHolder[d] \in Texts
        BY <1>a, <1>2, <3>2 DEF TextTypes
      <4>2. text[rowHolder[d]].of = d /\ text[rowHolder[d]].at \in {"flushed", "counted"}
        BY <1>a, <4>1 DEF HolderInv
      <4> QED
        BY <1>2, <1>3, <4>1, <4>2
    <3> QED
      BY <3>1, <3>2
  <2> QED
    BY <1>2, <2>1, <2>2 DEF HolderInv
<1> QED
  BY <1>4, <1>5, <1>6, <1>7, <1>8 DEF TextsInv

\* A request counts its text.
LEMMA CountTextKeeps == ASSUME TextsInv, NEW t \in Texts, CountText(t) PROVE TextsInv'
<1>a. TextTypes /\ HolderInv /\ StoredInv /\ CountInv /\ text[t] \in TextRows
  BY DEF TextsInv, TextTypes
<1> DEFINE row == [text[t] EXCEPT !.at = "counted"]
<1>1. row \in TextRows /\ row.at = "counted" /\ row.of = text[t].of /\ row.seen = text[t].seen
  BY <1>a DEF TextRows
<1>2. /\ text[t].at = "flushed" /\ text' = [text EXCEPT ![t] = row]
      /\ \/ counted' = counted + 1 /\ UNCHANGED unseen
         \/ unseen' = TRUE /\ UNCHANGED counted
      /\ UNCHANGED <<campaigns, born, generated, texts, rowHolder, written, mixed>>
  BY <1>a DEF CountText, TextRows, TextTypes
<1> HIDE DEF row
<1>3. text' \in [Texts -> TextRows] /\ text'[t] = row /\ \A u \in Texts : u = t \/ text'[u] = text[u]
  BY <1>1, <1>2, OneText DEF TextsInv
<1>4. SeenInv'
  BY <1>1, <1>2, SeenKept DEF Open
<1>5. Past' = Past \cup {t} /\ t \notin Past /\ Due' = Due \cup {t} /\ t \notin Due
  BY <1>1, <1>2, <1>3 DEF Past, Due
<1>6. /\ IsFiniteSet(Past) /\ Cardinality(Past) \in Nat /\ IsFiniteSet(Due) /\ Cardinality(Due) \in Nat
      /\ Cardinality(Past') <= Cardinality(Texts) /\ Cardinality(Texts) \in Nat
  BY TextsFinite DEF Past, Due
<1>7. Cardinality(Past') = Cardinality(Past) + 1 /\ Cardinality(Due') = Cardinality(Due) + 1
  BY <1>5, <1>6, FS_AddElement
<1>8. counted \in Nat /\ unseen \in BOOLEAN
  BY <1>a, <1>6 DEF TextTypes
<1>9. CountInv'
  BY <1>a, <1>2, <1>6, <1>7, <1>8 DEF CountInv
<1>10. TextTypes'
  <2>1. counted' \in 0..Cardinality(Texts) /\ unseen' \in BOOLEAN
    <3>1. counted + 1 \in 0..Cardinality(Texts) /\ counted \in 0..Cardinality(Texts)
      BY <1>a, <1>6, <1>7, <1>8 DEF CountInv
    <3> QED
      BY <1>2, <1>8, <3>1
  <2> QED
    BY <1>a, <1>2, <1>3, <2>1 DEF TextTypes
<1>11. StoredInv'
  BY <1>a, <1>2, <1>3 DEF StoredInv, TextTypes
<1>12. HolderInv'
  <2>1. \A u \in Texts : /\ text'[u].of = text[u].of
                         /\ text'[u].at \in {"flushed", "counted"} <=> text[u].at \in {"flushed", "counted"}
    BY <1>1, <1>2, <1>3
  <2>2. \A d \in Campaigns : rowHolder[d] # NoText => rowHolder[d] \in Texts
    BY <1>a DEF TextTypes
  <2> QED
    BY <1>a, <1>2, <2>1, <2>2 DEF HolderInv
<1> QED
  BY <1>4, <1>9, <1>10, <1>11, <1>12 DEF TextsInv

\* The row of the request that ends is free again.
LEMMA ReleaseKeeps ==
    ASSUME TextsInv, NEW t \in Texts, NEW row \in TextRows, text' = [text EXCEPT ![t] = row],
           row.at \in {"stored", "dropped"}, rowHolder' = Released(t), campaigns' = campaigns
    PROVE  HolderInv' /\ rowHolder' \in [Campaigns -> Texts \cup {NoText}]
<1>a. TextTypes /\ HolderInv
  BY DEF TextsInv
<1>1. text'[t] = row /\ \A u \in Texts : u = t \/ text'[u] = text[u]
  BY OneText DEF TextsInv
<1>2. rowHolder' \in [Campaigns -> Texts \cup {NoText}]
  BY <1>a DEF Released, TextTypes
<1>3. \A d \in Campaigns : rowHolder'[d] = IF rowHolder[d] = t THEN NoText ELSE rowHolder[d]
  BY DEF Released
<1>4. \A u \in Texts : text'[u].at \in {"flushed", "counted"} /\ text'[u].of # Archive =>
        text'[u].of \in campaigns /\ rowHolder'[text'[u].of] = u
  <2> SUFFICES ASSUME NEW u \in Texts, text'[u].at \in {"flushed", "counted"}, text'[u].of # Archive
               PROVE  text'[u].of \in campaigns /\ rowHolder'[text'[u].of] = u
    OBVIOUS
  <2>1. u # t /\ text'[u] = text[u]
    BY <1>1
  <2>2. text[u].of \in campaigns /\ rowHolder[text[u].of] = u /\ text[u].of \in Campaigns
    BY <1>a, <2>1 DEF HolderInv, TextTypes
  <2> QED
    BY <1>3, <2>1, <2>2
<1>5. \A d \in Campaigns : rowHolder'[d] # NoText =>
        text'[rowHolder'[d]].of = d /\ text'[rowHolder'[d]].at \in {"flushed", "counted"}
  <2> SUFFICES ASSUME NEW d \in Campaigns, rowHolder'[d] # NoText
               PROVE  text'[rowHolder'[d]].of = d /\ text'[rowHolder'[d]].at \in {"flushed", "counted"}
    OBVIOUS
  <2>1. rowHolder'[d] = rowHolder[d] /\ rowHolder[d] # t /\ rowHolder[d] \in Texts
    BY <1>a, <1>3 DEF TextTypes
  <2> QED
    BY <1>a, <1>1, <2>1 DEF HolderInv
<1> QED
  BY <1>2, <1>4, <1>5 DEF HolderInv

\* A request is rolled back.
LEMMA DropKeeps == ASSUME TextsInv, NEW t \in Texts, DropText(t) PROVE TextsInv'
<1>a. TextTypes /\ HolderInv /\ StoredInv /\ text[t] \in TextRows
  BY DEF TextsInv, TextTypes
<1> DEFINE row == [text[t] EXCEPT !.at = "dropped"]
<1>1. row \in TextRows /\ row.at = "dropped" /\ row.of = text[t].of /\ row.seen = text[t].seen
  BY <1>a DEF TextRows
<1>2. /\ Open(t) /\ text' = [text EXCEPT ![t] = row] /\ rowHolder' = Released(t)
      /\ UNCHANGED <<campaigns, born, generated, texts, counted, written, mixed, unseen>>
  BY <1>a DEF DropText, TextRows, TextTypes
<1> HIDE DEF row
<1>3. text' \in [Texts -> TextRows] /\ text'[t] = row /\ \A u \in Texts : u = t \/ text'[u] = text[u]
  BY <1>1, <1>2, OneText DEF TextsInv
<1>4. SeenInv'
  BY <1>1, <1>2, SeenKept
<1>5. CountInv'
  BY <1>1, <1>2, CountKept DEF Open
<1>6. HolderInv' /\ rowHolder' \in [Campaigns -> Texts \cup {NoText}]
  BY <1>1, <1>2, ReleaseKeeps
<1>7. TextTypes'
  BY <1>a, <1>2, <1>3, <1>6 DEF TextTypes
<1>8. StoredInv'
  BY <1>a, <1>2, <1>3 DEF StoredInv, TextTypes, Open
<1> QED
  BY <1>4, <1>5, <1>6, <1>7, <1>8 DEF TextsInv

\* A request commits.
LEMMA CommitTextKeeps == ASSUME TextsInv, NEW t \in Texts, CommitText(t) PROVE TextsInv'
<1>a. TextTypes /\ HolderInv /\ StoredInv /\ CountInv /\ SeenInv /\ text[t] \in TextRows
  BY DEF TextsInv, TextTypes
<1>c. PICK c : c = text[t].of
  OBVIOUS
<1> DEFINE row == [text[t] EXCEPT !.at = "stored"]
           new == [name |-> t, of |-> c]
<1>1. row \in TextRows /\ row.at = "stored" /\ row.of = c /\ row.seen = text[t].seen
  BY <1>a, <1>c DEF TextRows
<1>2. /\ text[t].at = "counted" /\ text' = [text EXCEPT ![t] = row] /\ rowHolder' = Released(t)
      /\ texts' = texts \cup {new} /\ written' = written \cup {t}
      /\ generated' = [d \in Campaigns |-> IF d = c THEN text[t].seen + 1 ELSE generated[d]]
      /\ UNCHANGED <<campaigns, born, counted, mixed, unseen>>
  BY <1>a, <1>c DEF CommitText, TextRows, TextTypes
<1>b. c \in Campaigns \cup {Archive} /\ text[t].seen \in Nat
  BY <1>a, <1>c DEF TextRows
<1> HIDE DEF row
<1>3. text' \in [Texts -> TextRows] /\ text'[t] = row /\ \A u \in Texts : u = t \/ text'[u] = text[u]
  BY <1>1, <1>2, OneText DEF TextsInv
<1>4. HolderInv' /\ rowHolder' \in [Campaigns -> Texts \cup {NoText}]
  BY <1>1, <1>2, ReleaseKeeps
<1>5. c # Archive => c \in campaigns
  BY <1>a, <1>c, <1>2 DEF HolderInv
<1>6. new \notin texts /\ new.of = c /\ new.name = t
  BY <1>a, <1>2 DEF StoredInv
<1>7. StoredInv'
  <2>1. IsFiniteSet(texts')
    BY <1>a, <1>2, FS_AddElement DEF StoredInv
  <2> QED
    BY <1>a, <1>1, <1>2, <1>3, <1>5, <1>6, <2>1 DEF StoredInv, TextTypes
<1>8. CountInv'
  <2>1. Past \subseteq Past' /\ Past' \subseteq Past /\ Due' \subseteq Due /\ Due \subseteq Due'
    BY <1>1, <1>2, <1>3 DEF Past, Due
  <2>2. Past' = Past /\ Due' = Due
    BY <2>1
  <2> QED
    BY <1>a, <1>2, <2>2 DEF CountInv
<1>9. /\ \A d : IsFiniteSet(Own(d)) /\ Cardinality(Own(d)) \in Nat
      /\ \A d : d # c => Own(d)' = Own(d)
      /\ Own(c)' = Own(c) \cup {new} /\ new \notin Own(c)
  BY <1>2, <1>6, OwnFinite DEF Own
<1>10. Cardinality(Own(c)') = Cardinality(Own(c)) + 1
  <2>1. IsFiniteSet(Own(c)) /\ new \notin Own(c)
    BY <1>9
  <2>2. Cardinality(Own(c) \cup {new}) = Cardinality(Own(c)) + 1
    BY <2>1, FS_AddElement
  <2> QED
    BY <1>9, <2>2
<1>11. Open(t) /\ (c \in campaigns => /\ text[t].seen <= Cardinality(Own(c))
                                      /\ c \notin mixed => text[t].seen = generated[c])
  BY <1>a, <1>c, <1>2 DEF SeenInv, Open
<1>12. TextTypes'
  <2>1. texts' \subseteq [name : Texts, of : Campaigns \cup {Archive}]
    BY <1>a, <1>b, <1>2 DEF TextTypes
  <2>2. \A k, l \in texts' : k.name = l.name => k = l
    BY <2>1, <1>7, <1>3 DEF StoredInv
  <2>3. Own(c)' \subseteq texts' /\ \A k, l \in Own(c)' : k.name = l.name => k = l
    BY <2>2 DEF Own
  <2>4. Cardinality(Own(c)') <= Cardinality(Texts) /\ Cardinality(Texts) \in Nat
    BY <2>1, <2>3, FewTexts, TextsFinite
  <2>5. c \in campaigns => text[t].seen + 1 \in 0..Cardinality(Texts)
    BY <1>b, <1>9, <1>10, <1>11, <2>4
  <2>6. generated' \in [Campaigns -> 0..Cardinality(Texts)]
    BY <1>a, <1>2, <1>5, <2>5, CampaignsAssumption DEF TextTypes
  <2> QED
    BY <1>a, <1>2, <1>3, <1>4, <2>1, <2>6 DEF TextTypes
<1>13. SeenInv'
  <2>a. campaigns \subseteq Campaigns /\ \A d \in campaigns : generated[d] \in Nat
    BY <1>a, TextsFinite DEF TextTypes
  <2>1. ASSUME NEW d \in campaigns'
        PROVE  /\ generated'[d] <= Cardinality(Own(d)')
               /\ d \notin mixed' => generated'[d] = Cardinality(Own(d)')
    <3>1. CASE d = c
      <4>1. generated'[d] = text[t].seen + 1 /\ d \in campaigns
        BY <1>2, <2>a, <3>1
      <4>2. c \notin mixed => generated[c] = Cardinality(Own(c))
        BY <1>a, <3>1, <4>1 DEF SeenInv
      <4>3. Own(d)' = Own(c)'
        BY <3>1 DEF Own
      <4>4. Cardinality(Own(d)') = Cardinality(Own(c)) + 1 /\ Cardinality(Own(c)) \in Nat
        BY <1>9, <1>10, <4>3
      <4> QED
        BY <1>b, <1>2, <1>11, <3>1, <4>1, <4>2, <4>4
    <3>2. CASE d # c
      <4>1. generated'[d] = generated[d] /\ Own(d)' = Own(d) /\ d \in campaigns
        BY <1>2, <1>9, <2>a, <3>2
      <4> QED
        BY <1>a, <1>2, <4>1 DEF SeenInv
    <3> QED
      BY <3>1, <3>2
  <2>2. \A u \in Texts : Open(u)' => u # t /\ Open(u) /\ text'[u] = text[u]
    BY <1>1, <1>3 DEF Open
  <2>3. ASSUME NEW u \in Texts, NEW d \in campaigns', Open(u)', text'[u].of = d
        PROVE  /\ text'[u].seen <= Cardinality(Own(d)')
               /\ d \notin mixed' => text'[u].seen = generated'[d]
    <3>1. /\ u # t /\ Open(u) /\ text'[u] = text[u] /\ d \in campaigns
          /\ text[u].seen <= Cardinality(Own(d))
          /\ d \notin mixed => text[u].seen = generated[d]
      BY <1>a, <1>2, <2>2, <2>3 DEF SeenInv
    <3>2. CASE d = c
      <4>1. d \in mixed
        BY <1>a, <1>c, <1>11, <2>a, <2>3, <3>1, <3>2 DEF SeenInv
      <4>2. text[u].seen \in Nat
        BY <1>a DEF TextTypes, TextRows
      <4>3. Own(d)' = Own(c)'
        BY <3>2 DEF Own
      <4>4. Cardinality(Own(d)') = Cardinality(Own(c)) + 1 /\ Cardinality(Own(c)) \in Nat
        BY <1>9, <1>10, <4>3
      <4> QED
        BY <1>2, <3>1, <3>2, <4>1, <4>2, <4>4
    <3>3. CASE d # c
      BY <1>2, <1>9, <2>a, <3>1, <3>3
    <3> QED
      BY <3>2, <3>3
  <2>4. ASSUME NEW d \in Campaigns \ born' PROVE generated'[d] = 0
    <3>1. d # c
      BY <1>a, <1>2, <1>5, <2>4, CampaignsAssumption DEF TextTypes
    <3> QED
      BY <1>a, <1>2, <3>1 DEF SeenInv
  <2>5. \A u, v \in Texts :
          Open(u)' /\ Open(v)' /\ text'[u].of = text'[v].of /\ text'[u].of \in Campaigns \ mixed' => u = v
    BY <1>a, <1>2, <2>2 DEF SeenInv
  <2>6. \A u \in Texts : Open(u)' /\ text'[u].of # Archive => text'[u].of \in born'
    BY <1>a, <1>2, <2>2 DEF SeenInv
  <2> QED
    BY <2>1, <2>3, <2>4, <2>5, <2>6 DEF SeenInv
<1> QED
  BY <1>4, <1>7, <1>8, <1>12, <1>13 DEF TextsInv

\* Every step of the campaigns keeps the invariant.
LEMMA NextTexts == ASSUME TextsInv, [CampaignsNext]_campaignVars PROVE TextsInv'
<1>1. CASE UNCHANGED campaignVars
  <2>1. Past' = Past /\ Due' = Due /\ \A d : Own(d)' = Own(d)
    BY <1>1 DEF campaignVars, Past, Due, Own
  <2>2. \A u \in Texts : Open(u)' <=> Open(u)
    BY <1>1 DEF campaignVars, Open
  <2>3. TextTypes' /\ HolderInv' /\ StoredInv' /\ CountInv'
    BY <1>1, <2>1 DEF campaignVars, TextsInv, TextTypes, HolderInv, StoredInv, CountInv
  <2>4. SeenInv'
    BY <1>1, <2>1, <2>2 DEF campaignVars, TextsInv, SeenInv
  <2> QED
    BY <2>3, <2>4 DEF TextsInv
<1>2. ASSUME NEW t \in Texts, Clone(t) PROVE TextsInv'
  <2>1. PICK c \in {"none", "other"} : c # Archive
    OBVIOUS
  <2> QED
    BY <1>2, <2>1, GenerateKeeps
<1>3. ASSUME NEW t \in Texts, NEW c \in Campaigns, Generate(t, c) PROVE TextsInv'
  <2>1. c # Archive
    BY CampaignsAssumption
  <2> QED
    BY <1>3, <2>1, GenerateKeeps
<1> QED
  BY <1>1, <1>2, <1>3, CreateKeeps, DeleteCampaignKeeps, FlushKeeps, CountTextKeeps,
     CommitTextKeeps, DropKeeps DEF CampaignsNext

\* The invariant gives the type and the property of the run.
LEMMA TextsAsCounted == TextsInv => CampaignsTypeOK /\ TextsCounted
<1> SUFFICES ASSUME TextsInv PROVE CampaignsTypeOK /\ TextsCounted
  OBVIOUS
<1>1. CampaignsTypeOK
  BY DEF TextsInv, TextTypes, HolderInv, TextRows, CampaignsTypeOK
<1>2. ASSUME ~unseen PROVE Cardinality(written) <= counted
  <2>1. written \subseteq Due /\ Due \subseteq Texts
    BY DEF TextsInv, StoredInv, TextTypes, Due
  <2>2. /\ IsFiniteSet(Due) /\ Cardinality(Due) \in Nat /\ Cardinality(written) \in Nat
        /\ counted \in Nat
    BY <2>1, TextsFinite DEF TextsInv, TextTypes
  <2>3. Cardinality(written) <= Cardinality(Due)
    BY <2>1, <2>2, FS_Subset
  <2> QED
    BY <1>2, <2>2, <2>3 DEF TextsInv, CountInv
<1>3. TextsCounted
  BY <1>2 DEF TextsInv, SeenInv, StoredInv, TextsCounted, Own
<1> QED
  BY <1>1, <1>3

-----------------------------------------------------------------------------
(* AgentRouting: one choice for the preview and the answer.  The order of the  *)
(* candidates is by score and then by name, so that there is one first.        *)

\* Every request's choice is the one RouteAgreed wants, and a list being asked for is made
\* of keys allowed since it began, those in force now among them.
RouteInv ==
    /\ RouteTypeOK /\ RouteAgreed /\ ShownIsAllowed
    /\ \A s \in Senders : sender[s].at = "asked" =>
         /\ sender[s].open # {} /\ sender[s].open \subseteq sender[s].since
         /\ Allowed \subseteq sender[s].since

\* A set of naturals has a least one.
LEMMA NatLeast == ASSUME NEW S, S \subseteq Nat, S # {} PROVE \E n \in S : \A m \in S : n <= m
<1> DEFINE Less == {p \in Nat \X Nat : p[1] < p[2]}
<1>1. IsWellFoundedOn(Less, Nat)
  BY NatLessThanWellFounded DEF OpToRel
<1> HIDE DEF Less
<1>2. PICK n \in S : \A m \in S : <<m, n>> \notin Less
  BY <1>1, WFMin
<1>3. \A m \in S : ~(m < n)
  BY <1>2 DEF Less
<1> QED
  BY <1>2, <1>3

\* The list in force is never empty.
LEMMA AllowedAreAgents ==
    ASSUME NEW list PROVE AllowedKeys(list) \subseteq Catalog /\ AllowedKeys(list) # {}
BY AgentRoutingAssumption DEF AllowedKeys

\* What the scores leave room for: the agent asked for first, the operator above one hit.
LEMMA ScoreRange ==
    ASSUME NEW hits \in [Catalog -> 0 .. MaxHits], NEW force, NEW a \in Catalog
    PROVE  /\ Score(a, hits, force) \in 0 .. 1000 /\ hits[a] \in Nat
           /\ a = force => Score(a, hits, force) = 1000
           /\ a # force => Score(a, hits, force) <= 850
           /\ a \notin {force, "operator"} /\ hits[a] <= 1 => Score(a, hits, force) <= 320
           /\ a = "operator" => Score(a, hits, force) >= 350
<1>1. MaxHits \in Nat /\ hits[a] \in 0 .. MaxHits
  BY AgentRoutingAssumption
<1>2. hits[a] \in Nat
  BY <1>1
<1> QED
  BY <1>2 DEF Score, Least

\* There is a first candidate.
LEMMA BestExists ==
    ASSUME NEW S \in SUBSET Catalog, S # {}, NEW hits \in [Catalog -> 0 .. MaxHits], NEW force
    PROVE  \E a \in S : \A b \in S \ {a} :
               \/ Score(a, hits, force) > Score(b, hits, force)
               \/ Score(a, hits, force) = Score(b, hits, force) /\ KeyOrder[a] < KeyOrder[b]
<1> DEFINE Sc(a) == Score(a, hits, force)
<1>1. \A a \in S : Sc(a) \in 0 .. 1000 /\ KeyOrder[a] \in Nat
  BY ScoreRange, AgentRoutingAssumption
<1> HIDE DEF Sc
<1>2. PICK n \in {1000 - Sc(a) : a \in S} : \A m \in {1000 - Sc(a) : a \in S} : n <= m
  <2>1. {1000 - Sc(a) : a \in S} \subseteq Nat /\ {1000 - Sc(a) : a \in S} # {}
    BY <1>1
  <2> QED
    BY <2>1, NatLeast
<1> DEFINE T == {a \in S : 1000 - Sc(a) = n}
<1>3. PICK k \in {KeyOrder[a] : a \in T} : \A m \in {KeyOrder[a] : a \in T} : k <= m
  <2>1. {KeyOrder[a] : a \in T} \subseteq Nat /\ {KeyOrder[a] : a \in T} # {}
    BY <1>1, <1>2
  <2> QED
    BY <2>1, NatLeast
<1>4. PICK a \in T : KeyOrder[a] = k
  BY <1>3
<1>5. ASSUME NEW b \in S \ {a} PROVE Sc(a) > Sc(b) \/ (Sc(a) = Sc(b) /\ KeyOrder[a] < KeyOrder[b])
  <2>1. n <= 1000 - Sc(b) /\ 1000 - Sc(a) = n
    BY <1>2, <1>4
  <2>2. CASE Sc(b) = Sc(a)
    <3>1. b \in T
      BY <1>4, <2>2
    <3>2. KeyOrder[a] <= KeyOrder[b]
      BY <1>3, <1>4, <3>1
    <3>3. KeyOrder[a] # KeyOrder[b]
      BY <1>4, AgentRoutingAssumption
    <3>4. KeyOrder[a] \in Nat /\ KeyOrder[b] \in Nat
      BY <1>1, <1>4
    <3>5. KeyOrder[a] < KeyOrder[b]
      BY <3>2, <3>3, <3>4
    <3> QED
      BY <2>2, <3>5
  <2>3. CASE Sc(b) # Sc(a)
    <3>1. Sc(a) \in 0 .. 1000 /\ Sc(b) \in 0 .. 1000
      BY <1>1, <1>4
    <3>3. 1000 - Sc(a) <= 1000 - Sc(b)
      BY <2>1
    <3>4. PICK i : i = Sc(a)
      OBVIOUS
    <3>5. PICK j : j = Sc(b)
      OBVIOUS
    <3>6. i \in 0 .. 1000 /\ j \in 0 .. 1000 /\ i # j /\ 1000 - i <= 1000 - j
      BY <2>3, <3>1, <3>3, <3>4, <3>5
    <3>7. i > j
      BY <3>6
    <3> QED
      BY <3>4, <3>5, <3>7
  <2> QED
    BY <2>2, <2>3
<1> QED
  BY <1>4, <1>5 DEF Sc

\* It obeys a forced agent that is allowed, and leaves the operator only for two keywords.
LEMMA SelectedIsBest ==
    ASSUME NEW hits \in [Catalog -> 0 .. MaxHits], NEW force
    PROVE  /\ Selected(hits, force) \in Allowed
           /\ force \in Allowed => Selected(hits, force) = force
           /\ Selected(hits, force) \notin {"operator", force} /\ "operator" \in Allowed =>
                hits[Selected(hits, force)] > 1
<1>1. Allowed \in SUBSET Catalog /\ Allowed # {}
  BY AllowedAreAgents DEF Allowed
<1>2. PICK best : best = Selected(hits, force)
  OBVIOUS
<1>3. /\ best \in Allowed
      /\ \A b \in Allowed \ {best} :
           \/ Score(best, hits, force) > Score(b, hits, force)
           \/ Score(best, hits, force) = Score(b, hits, force) /\ KeyOrder[best] < KeyOrder[b]
  <2>1. \E a \in Allowed : \A b \in Allowed \ {a} :
           \/ Score(a, hits, force) > Score(b, hits, force)
           \/ Score(a, hits, force) = Score(b, hits, force) /\ KeyOrder[a] < KeyOrder[b]
    BY <1>1, BestExists
  <2> QED
    BY <1>2, <2>1 DEF Selected
<1>4. \A a \in Allowed :
        /\ Score(a, hits, force) \in 0 .. 1000 /\ hits[a] \in Nat
        /\ a = force => Score(a, hits, force) = 1000
        /\ a # force => Score(a, hits, force) <= 850
        /\ a \notin {force, "operator"} /\ hits[a] <= 1 => Score(a, hits, force) <= 320
        /\ a = "operator" => Score(a, hits, force) >= 350
  BY <1>1, ScoreRange
<1> DEFINE Sc(a) == Score(a, hits, force)
<1>5. force \in Allowed => best = force
  <2> SUFFICES ASSUME force \in Allowed, best # force PROVE FALSE
    OBVIOUS
  <2>1. Sc(best) >= Sc(force)
    BY <1>3, <1>4
  <2> QED
    BY <1>3, <1>4, <2>1
<1>6. best \notin {"operator", force} /\ "operator" \in Allowed => hits[best] > 1
  <2> SUFFICES ASSUME best \notin {"operator", force}, "operator" \in Allowed, ~(hits[best] > 1) PROVE FALSE
    OBVIOUS
  <2>1. "operator" \in Allowed \ {best} /\ hits[best] <= 1
    BY <1>3, <1>4
  <2>2. Sc(best) <= 320 /\ Sc(best) \in 0 .. 1000
    BY <1>3, <1>4, <2>1
  <2>3. Sc("operator") >= 350 /\ Sc("operator") \in 0 .. 1000
    BY <1>4, <2>1
  <2>4. Sc(best) > Sc("operator") \/ Sc(best) = Sc("operator")
    BY <1>3, <2>1
  <2>5. PICK i : i = Sc(best)
    OBVIOUS
  <2>6. PICK j : j = Sc("operator")
    OBVIOUS
  <2>7. i <= 320 /\ i \in 0 .. 1000 /\ j >= 350 /\ j \in 0 .. 1000 /\ (i > j \/ i = j)
    BY <2>2, <2>3, <2>4, <2>5, <2>6
  <2> QED
    BY <2>7
<1> QED
  BY <1>2, <1>3, <1>5, <1>6

RouteRows == [at : {"idle", "previewed", "routed", "asked", "shown"},
              open : SUBSET Catalog, force : Names, agent : Names,
              hits : 0 .. MaxHits, used : SUBSET Agents, since : SUBSET Catalog]

\* What RouteInv says of one request.
RowInv(r, list) ==
    /\ r.at \in {"previewed", "routed"} =>
         /\ r.agent \in r.open
         /\ r.force \in r.open => r.agent = r.force
         /\ r.at = "routed" /\ r.agent = r.force => r.used = {r.agent}
         /\ r.agent \notin {"operator", r.force} /\ "operator" \in r.open => r.hits > 1
    /\ r.at = "shown" => r.used # {} /\ r.used \subseteq r.since
    /\ r.at = "asked" => r.open # {} /\ r.open \subseteq r.since /\ AllowedKeys(list) \subseteq r.since

\* The invariant of the senders is one of each sender.
LEMMA ByRows ==
    RouteInv <=> /\ allowlist \subseteq Catalog \cup {Stranger}
                 /\ sender \in [Senders -> RouteRows]
                 /\ \A s \in Senders : RowInv(sender[s], allowlist)
BY DEF RouteInv, RouteTypeOK, RouteAgreed, ShownIsAllowed, RouteRows, RowInv, Allowed

\* The row of a sender at rest.
LEMMA RestRow == AtRest \in RouteRows /\ AtRest.at = "idle"
BY AgentRoutingAssumption DEF AtRest, RouteRows, Names

\* In the first state no agent is asked for, and the routing invariant holds.
LEMMA InitRoute == RouteInit => RouteInv
<1> SUFFICES ASSUME RouteInit PROVE RouteInv
  OBVIOUS
<1>1. sender \in [Senders -> RouteRows] /\ \A s \in Senders : sender[s] = AtRest
  BY RestRow DEF RouteInit
<1> QED
  BY <1>1, RestRow, ByRows DEF RouteInit, RowInv

\* A step of one request.
LEMMA OneSender ==
    ASSUME RouteInv, NEW s \in Senders, NEW row \in RouteRows, RowInv(row, allowlist),
           sender' = [sender EXCEPT ![s] = row], allowlist' = allowlist
    PROVE  RouteInv'
<1>1. /\ sender \in [Senders -> RouteRows] /\ \A q \in Senders : RowInv(sender[q], allowlist)
      /\ allowlist \subseteq Catalog \cup {Stranger}
  BY ByRows
<1>2. sender' \in [Senders -> RouteRows]
  BY <1>1
<1>3. \A q \in Senders : RowInv(sender'[q], allowlist)
  BY <1>1
<1>4. /\ allowlist' \subseteq Catalog \cup {Stranger} /\ sender' \in [Senders -> RouteRows]
      /\ \A q \in Senders : RowInv(sender'[q], allowlist')
  BY <1>1, <1>2, <1>3
<1> QED
  BY <1>4 DEF RouteInv, RouteTypeOK, RouteAgreed, ShownIsAllowed, RouteRows, RowInv, Allowed

\* Every step of the agents and of the administrator keeps the invariant.
LEMMA NextRoute == ASSUME RouteInv, [RouteNext]_routeVars PROVE RouteInv'
<1>a. /\ sender \in [Senders -> RouteRows] /\ \A q \in Senders : RowInv(sender[q], allowlist)
      /\ allowlist \subseteq Catalog \cup {Stranger}
  BY ByRows
<1>b. Catalog \subseteq Names /\ Catalog \subseteq Agents /\ "operator" \in Agents
  BY AgentRoutingAssumption DEF Names, Agents
<1>c. Allowed \subseteq Catalog /\ Allowed # {} /\ Allowed = AllowedKeys(allowlist)
  BY AllowedAreAgents DEF Allowed
<1>1. ASSUME NEW s \in Senders, Preview(s) PROVE RouteInv'
  <2>1. PICK hits \in [Catalog -> 0 .. MaxHits] : \E force \in Names :
          sender' = [sender EXCEPT ![s] =
                      [AtRest EXCEPT !.at = "previewed", !.open = Allowed, !.force = force,
                                    !.agent = Selected(hits, force), !.hits = hits[Selected(hits, force)]]]
    BY <1>1 DEF Preview
  <2>2. PICK force \in Names :
          sender' = [sender EXCEPT ![s] =
                      [AtRest EXCEPT !.at = "previewed", !.open = Allowed, !.force = force,
                                    !.agent = Selected(hits, force), !.hits = hits[Selected(hits, force)]]]
    BY <2>1
  <2>3. PICK best : best = Selected(hits, force)
    OBVIOUS
  <2> DEFINE row == [AtRest EXCEPT !.at = "previewed", !.open = Allowed, !.force = force,
                                   !.agent = best, !.hits = hits[best]]
  <2>4. /\ best \in Allowed /\ (force \in Allowed => best = force)
        /\ best \notin {"operator", force} /\ "operator" \in Allowed => hits[best] > 1
    BY <2>3, SelectedIsBest
  <2>5. /\ row \in RouteRows /\ row.at = "previewed" /\ row.open = Allowed /\ row.force = force
        /\ row.agent = best /\ row.hits = hits[best]
    BY <1>b, <1>c, <2>4, RestRow DEF RouteRows
  <2>6. sender' = [sender EXCEPT ![s] = row] /\ allowlist' = allowlist
    BY <1>1, <2>2, <2>3 DEF Preview
  <2> HIDE DEF row
  <2>7. RowInv(row, allowlist)
    BY <2>4, <2>5 DEF RowInv
  <2> QED
    BY <2>5, <2>6, <2>7, OneSender
<1>2. ASSUME NEW s \in Senders, Routed(s) PROVE RouteInv'
  <2> DEFINE Key(said) == IF sender[s].force \in Agents THEN sender[s].force ELSE said
  <2>1. PICK said \in Names :
          sender' = [sender EXCEPT ![s].at = "routed",
                       ![s].used = {IF Key(said) \in Agents THEN Key(said) ELSE "operator"}]
    BY <1>2 DEF Routed
  <2>2. PICK u : u = IF Key(said) \in Agents THEN Key(said) ELSE "operator"
    OBVIOUS
  <2>3. u \in Agents /\ (sender[s].force \in Agents => u = sender[s].force)
    BY <1>b, <2>2
  <2> HIDE DEF Key
  <2> DEFINE row == [sender[s] EXCEPT !.at = "routed", !.used = {u}]
  <2>4. sender[s] \in RouteRows
    BY <1>a
  <2>5. /\ row \in RouteRows /\ row.at = "routed" /\ row.used = {u} /\ row.open = sender[s].open
        /\ row.force = sender[s].force /\ row.agent = sender[s].agent /\ row.hits = sender[s].hits
    BY <2>3, <2>4 DEF RouteRows
  <2>6. sender' = [sender EXCEPT ![s] = row] /\ allowlist' = allowlist /\ sender[s].at = "previewed"
    BY <1>2, <1>a, <2>1, <2>2, <2>4 DEF Routed, RouteRows
  <2> HIDE DEF row
  <2>7. sender[s].agent \in Agents
    BY <1>a, <1>b, <2>4, <2>6 DEF RowInv, RouteRows
  <2>8. RowInv(row, allowlist)
    BY <1>a, <2>3, <2>5, <2>6, <2>7 DEF RowInv
  <2> QED
    BY <2>5, <2>6, <2>8, OneSender
<1>3. ASSUME NEW s \in Senders, AskAgents(s) PROVE RouteInv'
  <2> DEFINE row == [sender[s] EXCEPT !.at = "asked", !.open = Allowed, !.since = Allowed]
  <2>1. sender[s] \in RouteRows
    BY <1>a
  <2>2. row \in RouteRows /\ row.at = "asked" /\ row.open = Allowed /\ row.since = Allowed
    BY <1>c, <2>1 DEF RouteRows
  <2>3. sender' = [sender EXCEPT ![s] = row] /\ allowlist' = allowlist
    BY <1>3, <1>a, <2>1 DEF AskAgents, RouteRows
  <2> HIDE DEF row
  <2>4. RowInv(row, allowlist)
    BY <1>c, <2>2 DEF RowInv
  <2> QED
    BY <2>2, <2>3, <2>4, OneSender
<1>4. ASSUME NEW s \in Senders, ShowAgents(s) PROVE RouteInv'
  <2>1. PICK told \in SUBSET Agents :
          sender' = [sender EXCEPT ![s].at = "shown",
                       ![s].used = IF told \cap sender[s].open = {} THEN Allowed
                                   ELSE told \cap sender[s].open]
    BY <1>4 DEF ShowAgents
  <2>2. PICK u : u = IF told \cap sender[s].open = {} THEN Allowed ELSE told \cap sender[s].open
    OBVIOUS
  <2> DEFINE row == [sender[s] EXCEPT !.at = "shown", !.used = u]
  <2>3. sender[s] \in RouteRows /\ sender[s].at = "asked"
    BY <1>a, <1>4 DEF ShowAgents
  <2>4. u \subseteq Agents /\ u # {} /\ u \subseteq sender[s].since
    BY <1>a, <1>b, <1>c, <2>2, <2>3 DEF RowInv
  <2>5. row \in RouteRows /\ row.at = "shown" /\ row.used = u /\ row.since = sender[s].since
    BY <2>3, <2>4 DEF RouteRows
  <2>6. sender' = [sender EXCEPT ![s] = row] /\ allowlist' = allowlist
    BY <1>4, <1>a, <2>1, <2>2, <2>3 DEF ShowAgents, RouteRows
  <2> HIDE DEF row
  <2>7. RowInv(row, allowlist)
    BY <2>4, <2>5 DEF RowInv
  <2> QED
    BY <2>5, <2>6, <2>7, OneSender
<1>5. ASSUME NEW s \in Senders, EndRequest(s) PROVE RouteInv'
  <2>1. sender' = [sender EXCEPT ![s] = AtRest] /\ allowlist' = allowlist
    BY <1>5 DEF EndRequest
  <2>2. RowInv(AtRest, allowlist)
    BY RestRow DEF RowInv
  <2> QED
    BY <2>1, <2>2, RestRow, OneSender
<1>6. CASE Reload
  <2>1. PICK list \in SUBSET (Catalog \cup {Stranger}) :
          /\ allowlist' = list
          /\ sender' = [s \in Senders |->
                IF sender[s].at = "asked" THEN [sender[s] EXCEPT !.since = @ \cup AllowedKeys(list)]
                ELSE sender[s]]
    BY <1>6 DEF Reload
  <2>2. AllowedKeys(list) \subseteq Catalog
    BY AllowedAreAgents
  <2>3. ASSUME NEW s \in Senders PROVE sender'[s] \in RouteRows /\ RowInv(sender'[s], list)
    <3>1. sender[s] \in RouteRows /\ RowInv(sender[s], allowlist)
      BY <1>a
    <3>2. CASE sender[s].at = "asked"
      <4>1. sender'[s] = [sender[s] EXCEPT !.since = sender[s].since \cup AllowedKeys(list)]
        BY <2>1, <3>2
      <4>2. /\ sender'[s] \in RouteRows /\ sender'[s].at = "asked" /\ sender'[s].open = sender[s].open
            /\ sender'[s].since = sender[s].since \cup AllowedKeys(list)
        BY <2>2, <3>1, <3>2, <4>1 DEF RouteRows
      <4> QED
        BY <3>1, <3>2, <4>2 DEF RowInv
    <3>3. CASE sender[s].at # "asked"
      <4>1. sender'[s] = sender[s]
        BY <2>1, <3>3
      <4> QED
        BY <3>1, <3>3, <4>1 DEF RowInv
    <3> QED
      BY <3>2, <3>3
  <2>4. sender' \in [Senders -> RouteRows]
    BY <2>1, <2>3
  <2>5. /\ allowlist' \subseteq Catalog \cup {Stranger}
        /\ \A q \in Senders : RowInv(sender'[q], allowlist')
    BY <2>1, <2>3
  <2> QED
    BY <2>4, <2>5 DEF RouteInv, RouteTypeOK, RouteAgreed, ShownIsAllowed, RouteRows, RowInv, Allowed
<1>7. CASE UNCHANGED routeVars
  BY <1>7 DEF routeVars, RouteInv, RouteTypeOK, RouteAgreed, ShownIsAllowed, Allowed
<1> QED
  BY <1>1, <1>2, <1>3, <1>4, <1>5, <1>6, <1>7 DEF RouteNext

-----------------------------------------------------------------------------
(* BrowserPool: who launches, who is in a context and what the killer closes.  *)

\* The places are counted, and an open context that is no stray is that of a page shown.
PlaceInv ==
    /\ IsFiniteSet(InPool) /\ Cardinality(InPool) <= PoolSize
    /\ \A c \in contexts \ strays : viewer[c[1]].b = c[2] /\ viewer[c[1]].at \in {"page", "viewing"}

\* A browser that a cancelled launch left.
Orphan(b) == \E d \in Drivers : <<d, b>> \in orphans

\* Without overlap one fetch launches, only when the pool has no browser to launch beside or to
\* close, and what the killer closes is the pool's browser.
LaunchInv ==
    ~overlapped =>
        /\ \A b \in launched \ {browser} : Orphan(b)
        /\ Launching # {} => killer = Asleep /\ browser = Absent
        /\ \A p, q \in Launching : p = q
        /\ killer.at = "closing" => killer.what = browser

PoolInv == PoolTypeOK /\ PlaceInv /\ LaunchInv

ViewRows == [at : {"away", "start", "launch", "context", "page", "viewing"},
             d : Drivers \cup {Absent}, b : Browsers \cup {Absent}]

\* The row of a page not asked for.
LEMMA AwayRow == Waiting \in ViewRows /\ Waiting.at = "away"
BY DEF Waiting, ViewRows

\* The places left and taken by a step of one page.
LEMMA OneViewer ==
    ASSUME PoolInv, NEW p \in Pages, NEW row \in ViewRows, viewer' = [viewer EXCEPT ![p] = row],
           row.at = "away" \/ viewer[p].at # "away" \/ Cardinality(InPool) < PoolSize
    PROVE  /\ viewer' \in [Pages -> ViewRows] /\ viewer'[p] = row
           /\ \A q \in Pages : q = p \/ viewer'[q] = viewer[q]
           /\ IsFiniteSet(InPool') /\ Cardinality(InPool') <= PoolSize
<1>1. viewer \in [Pages -> ViewRows]
  BY DEF PoolInv, PoolTypeOK, ViewRows
<1>2. /\ viewer' \in [Pages -> ViewRows] /\ viewer'[p] = row
      /\ \A q \in Pages : q = p \/ viewer'[q] = viewer[q]
  BY <1>1
<1>3. IsFiniteSet(InPool) /\ Cardinality(InPool) \in Nat /\ Cardinality(InPool) <= PoolSize
  BY FS_CardinalityType DEF PoolInv, PlaceInv
<1>4. PoolSize \in Nat
  BY BrowserPoolAssumption
<1>5. CASE row.at = "away" \/ viewer[p].at # "away"
  <2>1. InPool' \subseteq InPool
    BY <1>2, <1>5 DEF InPool
  <2>2. IsFiniteSet(InPool') /\ Cardinality(InPool') \in Nat /\ Cardinality(InPool') <= Cardinality(InPool)
    BY <1>3, <2>1, FS_Subset, FS_CardinalityType
  <2> QED
    BY <1>2, <1>3, <1>4, <2>2
<1>6. CASE Cardinality(InPool) < PoolSize
  <2>1. InPool' \subseteq InPool \cup {p}
    BY <1>2 DEF InPool
  <2>2. /\ IsFiniteSet(InPool \cup {p}) /\ Cardinality(InPool \cup {p}) \in Nat
        /\ Cardinality(InPool \cup {p}) <= Cardinality(InPool) + 1
    <3>1. /\ IsFiniteSet(InPool \cup {p})
          /\ Cardinality(InPool \cup {p}) = IF p \in InPool THEN Cardinality(InPool) ELSE Cardinality(InPool) + 1
      BY <1>3, FS_AddElement
    <3>2. CASE p \in InPool
      BY <1>3, <3>1, <3>2
    <3>3. CASE p \notin InPool
      BY <1>3, <3>1, <3>3
    <3> QED
      BY <3>2, <3>3
  <2>3. IsFiniteSet(InPool') /\ Cardinality(InPool') \in Nat
        /\ Cardinality(InPool') <= Cardinality(InPool \cup {p})
    BY <2>1, <2>2, FS_Subset, FS_CardinalityType
  <2> QED
    BY <1>2, <1>3, <1>4, <1>6, <2>2, <2>3
<1> QED
  BY <1>5, <1>6

\* In the first state there is no browser, and the pool's invariant holds.
LEMMA InitPool == PoolInit => PoolInv
<1> SUFFICES ASSUME PoolInit PROVE PoolInv
  OBVIOUS
<1>1. viewer \in [Pages -> ViewRows] /\ \A p \in Pages : viewer[p].at = "away"
  BY AwayRow DEF PoolInit
<1>2. InPool = {} /\ Launching = {}
  BY <1>1 DEF InPool, Launching
<1>3. IsFiniteSet({}) /\ Cardinality({}) = 0 /\ PoolSize \in Nat
  BY FS_EmptySet, BrowserPoolAssumption
<1>4. PoolTypeOK
  BY <1>1 DEF PoolInit, PoolTypeOK, ViewRows, Asleep
<1>5. PlaceInv
  BY <1>2, <1>3 DEF PoolInit, PlaceInv
<1>6. LaunchInv
  BY <1>2 DEF PoolInit, LaunchInv, Asleep
<1> QED
  BY <1>4, <1>5, <1>6 DEF PoolInv

\* Every step of the pool keeps the invariant.
LEMMA NextPool == ASSUME PoolInv, [PoolNext]_poolVars PROVE PoolInv'
<1>a. viewer \in [Pages -> ViewRows] /\ PoolTypeOK /\ PlaceInv /\ LaunchInv
  BY DEF PoolInv, PoolTypeOK, ViewRows
<1>b. Absent \notin Browsers
  BY BrowserPoolAssumption
<1>1. ASSUME NEW p \in Pages, EnterPool(p) PROVE PoolInv'
  <2> DEFINE row == [Waiting EXCEPT !.at = IF browser = Absent THEN "start" ELSE "context", !.b = browser]
  <2>1. /\ row \in ViewRows /\ row.b = browser
        /\ row.at = IF browser = Absent THEN "start" ELSE "context"
    BY <1>a DEF Waiting, ViewRows, PoolTypeOK
  <2>2. /\ viewer[p] = Waiting /\ Cardinality(InPool) < PoolSize /\ viewer' = [viewer EXCEPT ![p] = row]
        /\ overlapped' = (overlapped \/ (browser = Absent /\ (Launching # {} \/ killer # Asleep)))
        /\ UNCHANGED <<driver, browser, started, launched, usedUp, contexts, killer, strays, orphans>>
    BY <1>1 DEF EnterPool
  <2> HIDE DEF row
  <2>3. /\ viewer' \in [Pages -> ViewRows] /\ viewer'[p] = row
        /\ \A q \in Pages : q = p \/ viewer'[q] = viewer[q]
        /\ IsFiniteSet(InPool') /\ Cardinality(InPool') <= PoolSize
    BY <2>1, <2>2, OneViewer
  <2>4. PoolTypeOK'
    BY <1>a, <2>2, <2>3 DEF PoolTypeOK, ViewRows
  <2>5. PlaceInv'
    BY <1>a, <2>2, <2>3, AwayRow DEF PlaceInv
  <2>6. LaunchInv'
    <3>1. CASE browser = Absent
      <4>1. overlapped' \/ (Launching' \subseteq {p} /\ killer = Asleep)
        BY <2>2, <2>3, <3>1 DEF Launching
      <4> QED
        BY <1>a, <2>2, <3>1, <4>1 DEF LaunchInv, Orphan, Asleep
    <3>2. CASE browser # Absent
      <4>1. Launching' \subseteq Launching
        BY <2>1, <2>3, <3>2 DEF Launching
      <4> QED
        BY <1>a, <2>2, <3>2, <4>1 DEF LaunchInv, Orphan
    <3> QED
      BY <3>1, <3>2
  <2> QED
    BY <2>4, <2>5, <2>6 DEF PoolInv
<1>2. ASSUME NEW p \in Pages, StartDriver(p) PROVE PoolInv'
  <2>0. PICK d \in Drivers \ usedUp :
          /\ driver' = d /\ started' = started \cup {d}
          /\ viewer' = [viewer EXCEPT ![p].at = "launch", ![p].d = d]
    BY <1>2 DEF StartDriver
  <2> DEFINE row == [viewer[p] EXCEPT !.at = "launch", !.d = d]
  <2>1. row \in ViewRows /\ row.at = "launch" /\ row.b = viewer[p].b
    BY <1>a DEF ViewRows
  <2>2. /\ viewer[p].at = "start" /\ viewer' = [viewer EXCEPT ![p] = row]
        /\ driver' \in Drivers /\ started' \subseteq Drivers
        /\ UNCHANGED <<browser, launched, contexts, killer, overlapped, strays, orphans>>
    BY <1>2, <1>a, <2>0 DEF StartDriver, PoolTypeOK, ViewRows
  <2> HIDE DEF row
  <2>3. /\ viewer' \in [Pages -> ViewRows] /\ viewer'[p] = row
        /\ \A q \in Pages : q = p \/ viewer'[q] = viewer[q]
        /\ IsFiniteSet(InPool') /\ Cardinality(InPool') <= PoolSize
    BY <2>1, <2>2, OneViewer
  <2>4. PoolTypeOK'
    BY <1>a, <2>2, <2>3 DEF PoolTypeOK, ViewRows
  <2>5. PlaceInv'
    BY <1>a, <2>1, <2>2, <2>3 DEF PlaceInv
  <2>6. Launching' \subseteq Launching
    BY <2>2, <2>3 DEF Launching
  <2>7. LaunchInv'
    BY <1>a, <2>2, <2>6 DEF LaunchInv, Orphan
  <2> QED
    BY <2>4, <2>5, <2>7 DEF PoolInv
<1>3. ASSUME NEW p \in Pages, Launch(p) PROVE PoolInv'
  <2>1. PICK b \in Browsers \ usedUp :
          /\ browser' = b /\ launched' = launched \cup {b}
          /\ viewer' = [viewer EXCEPT ![p] = [at |-> "context", d |-> Absent, b |-> b]]
    BY <1>3 DEF Launch
  <2> DEFINE row == [at |-> "context", d |-> Absent, b |-> b]
  <2>2. row \in ViewRows /\ row.at = "context"
    BY <1>a DEF ViewRows
  <2>3. /\ viewer[p].at = "launch" /\ viewer' = [viewer EXCEPT ![p] = row]
        /\ UNCHANGED <<driver, started, contexts, killer, overlapped, strays, orphans>>
    BY <1>3, <1>a, <2>1 DEF Launch, ViewRows
  <2> HIDE DEF row
  <2>4. /\ viewer' \in [Pages -> ViewRows] /\ viewer'[p] = row
        /\ \A q \in Pages : q = p \/ viewer'[q] = viewer[q]
        /\ IsFiniteSet(InPool') /\ Cardinality(InPool') <= PoolSize
    BY <2>2, <2>3, OneViewer
  <2>5. PoolTypeOK'
    BY <1>a, <2>1, <2>3, <2>4 DEF PoolTypeOK, ViewRows
  <2>6. PlaceInv'
    BY <1>a, <2>3, <2>4 DEF PlaceInv
  <2>7. LaunchInv'
    <3>1. p \in Launching /\ Launching' \subseteq Launching \ {p}
      BY <2>2, <2>3, <2>4 DEF Launching
    <3>2. ASSUME ~overlapped
          PROVE  Launching' = {} /\ killer = Asleep /\ \A c \in launched : Orphan(c)
      BY <1>a, <1>b, <3>1, <3>2 DEF LaunchInv, PoolTypeOK
    <3> QED
      BY <1>b, <2>1, <2>3, <3>2 DEF LaunchInv, Orphan, Asleep
  <2> QED
    BY <2>5, <2>6, <2>7 DEF PoolInv
<1>4. ASSUME NEW p \in Pages, OpenContext(p) \/ OpenPage(p) PROVE PoolInv'
  <2> DEFINE row == [viewer[p] EXCEPT !.at = IF viewer[p].at = "context" THEN "page" ELSE "viewing"]
  <2>1. /\ row \in ViewRows /\ row.b = viewer[p].b
        /\ row.at = IF viewer[p].at = "context" THEN "page" ELSE "viewing"
    BY <1>a DEF ViewRows
  <2>2. /\ viewer[p].at \in {"context", "page"} /\ viewer' = [viewer EXCEPT ![p] = row]
        /\ UNCHANGED <<driver, browser, started, launched, killer, overlapped, orphans>>
        /\ viewer[p].b \in Browsers
        /\ \/ contexts' = contexts /\ strays' = strays
           \/ contexts' = contexts \cup {<<p, viewer[p].b>>} /\ strays' = strays \ {<<p, viewer[p].b>>}
    BY <1>4, <1>a DEF OpenContext, OpenPage, PoolTypeOK, ViewRows
  <2> HIDE DEF row
  <2>3. /\ viewer' \in [Pages -> ViewRows] /\ viewer'[p] = row
        /\ \A q \in Pages : q = p \/ viewer'[q] = viewer[q]
        /\ IsFiniteSet(InPool') /\ Cardinality(InPool') <= PoolSize
    BY <2>1, <2>2, OneViewer
  <2>4. PoolTypeOK'
    BY <1>a, <2>2, <2>3 DEF PoolTypeOK, ViewRows
  <2>5. PlaceInv'
    <3>1. \A c \in contexts' \ strays' : c \in contexts \ strays \/ (c[1] = p /\ c[2] = viewer[p].b)
      BY <2>2
    <3>2. contexts \subseteq Pages \X Browsers
      BY <1>a DEF PoolTypeOK
    <3> QED
      BY <1>a, <2>1, <2>2, <2>3, <3>1, <3>2 DEF PlaceInv
  <2>6. Launching' \subseteq Launching
    BY <2>1, <2>2, <2>3 DEF Launching
  <2>7. LaunchInv'
    BY <1>a, <2>2, <2>6 DEF LaunchInv, Orphan
  <2> QED
    BY <2>4, <2>5, <2>7 DEF PoolInv
<1>5. ASSUME NEW p \in Pages, PageFails(p) \/ LeavePool(p) \/ CancelContext(p) PROVE PoolInv'
  <2>1. /\ viewer' = [viewer EXCEPT ![p] = Waiting]
        /\ UNCHANGED <<driver, browser, started, launched, killer, overlapped, orphans>>
    BY <1>5 DEF PageFails, LeavePool, CancelContext
  <2>2. /\ viewer' \in [Pages -> ViewRows] /\ viewer'[p] = Waiting
        /\ \A q \in Pages : q = p \/ viewer'[q] = viewer[q]
        /\ IsFiniteSet(InPool') /\ Cardinality(InPool') <= PoolSize
    BY <2>1, OneViewer, AwayRow
  <2>3. contexts' \subseteq Pages \X Browsers /\ strays' \subseteq contexts'
    <3>1. CASE PageFails(p) \/ LeavePool(p)
      BY <3>1, <1>a DEF PageFails, LeavePool, PoolTypeOK
    <3>2. CASE CancelContext(p)
      BY <3>2, <1>a DEF CancelContext, PoolTypeOK
    <3> QED
      BY <1>5, <3>1, <3>2
  <2>4. PoolTypeOK'
    BY <1>a, <2>1, <2>2, <2>3 DEF PoolTypeOK, ViewRows
  <2>5. \A c \in contexts' \ strays' : c \in contexts \ strays /\ c[1] # p
    <3> SUFFICES ASSUME NEW c \in contexts' \ strays' PROVE c \in contexts \ strays /\ c[1] # p
      OBVIOUS
    <3>1. c \in contexts /\ c \in Pages \X Browsers
      BY <1>5, <2>3 DEF PageFails, LeavePool, CancelContext
    <3>2. CASE PageFails(p)
      BY <3>1, <3>2 DEF PageFails
    <3>3. CASE LeavePool(p)
      <4>1. c \notin strays /\ c # <<p, viewer[p].b>>
        BY <3>3 DEF LeavePool
      <4> QED
        BY <1>a, <3>1, <4>1 DEF PlaceInv
    <3>4. CASE CancelContext(p)
      <4>1. c \notin strays /\ viewer[p].at = "context"
        BY <3>4 DEF CancelContext
      <4> QED
        BY <1>a, <3>1, <4>1 DEF PlaceInv
    <3> QED
      BY <1>5, <3>2, <3>3, <3>4
  <2>6. PlaceInv'
    <3>1. contexts \subseteq Pages \X Browsers
      BY <1>a DEF PoolTypeOK
    <3> QED
      BY <1>a, <2>2, <2>5, <3>1 DEF PlaceInv
  <2>7. Launching' \subseteq Launching
    BY <2>2, AwayRow DEF Launching
  <2>8. LaunchInv'
    BY <1>a, <2>1, <2>7 DEF LaunchInv, Orphan
  <2> QED
    BY <2>4, <2>6, <2>8 DEF PoolInv
<1>6. CASE WakeKiller
  <2>1. /\ killer = Asleep /\ browser # Absent /\ killer' = [at |-> "closing", what |-> browser]
        /\ overlapped' = (overlapped \/ Launching # {})
        /\ UNCHANGED <<driver, browser, started, launched, usedUp, contexts, viewer, strays, orphans>>
    BY <1>6 DEF WakeKiller
  <2>2. InPool' = InPool /\ Launching' = Launching
    BY <2>1 DEF InPool, Launching
  <2>3. PoolTypeOK'
    BY <1>a, <2>1 DEF PoolTypeOK
  <2>4. PlaceInv'
    BY <1>a, <2>1, <2>2 DEF PlaceInv
  <2>5. LaunchInv'
    BY <1>a, <2>1, <2>2 DEF LaunchInv, Orphan
  <2> QED
    BY <2>3, <2>4, <2>5 DEF PoolInv
<1>7. CASE CloseBrowser
  <2>1. /\ killer.at = "closing" /\ launched' = launched \ {killer.what}
        /\ contexts' = {c \in contexts : c[2] # killer.what}
        /\ strays' = {c \in strays : c[2] # killer.what}
        /\ browser' = Absent /\ killer' = [at |-> "stopping", what |-> driver]
        /\ UNCHANGED <<driver, started, usedUp, viewer, overlapped, orphans>>
    BY <1>7 DEF CloseBrowser
  <2>2. InPool' = InPool /\ Launching' = Launching
    BY <2>1 DEF InPool, Launching
  <2>3. PoolTypeOK'
    BY <1>a, <2>1 DEF PoolTypeOK
  <2>4. PlaceInv'
    BY <1>a, <2>1, <2>2 DEF PlaceInv
  <2>5. LaunchInv'
    BY <1>a, <2>1, <2>2 DEF LaunchInv, Orphan, Asleep
  <2> QED
    BY <2>3, <2>4, <2>5 DEF PoolInv
<1>8. CASE StopDriver
  <2>1. /\ killer.at = "stopping" /\ started' = started \ {killer.what} /\ driver' = Absent
        /\ killer' = Asleep
        /\ launched' = launched \ {b \in Browsers : <<killer.what, b>> \in orphans}
        /\ orphans' = {o \in orphans : o[1] # killer.what}
        /\ UNCHANGED <<browser, usedUp, contexts, viewer, overlapped, strays>>
    BY <1>8 DEF StopDriver
  <2>2. InPool' = InPool /\ Launching' = Launching
    BY <2>1 DEF InPool, Launching
  <2>3. PoolTypeOK'
    BY <1>a, <2>1 DEF PoolTypeOK, Asleep
  <2>4. PlaceInv'
    BY <1>a, <2>1, <2>2 DEF PlaceInv
  <2>5. \A b \in launched' : b \in launched /\ (Orphan(b) => Orphan(b)')
    <3> SUFFICES ASSUME NEW b \in launched', Orphan(b) PROVE Orphan(b)'
      BY <2>1
    <3>1. PICK d \in Drivers : <<d, b>> \in orphans
      BY DEF Orphan
    <3>2. b \in Browsers /\ d # killer.what
      BY <1>a, <2>1, <3>1 DEF PoolTypeOK
    <3>3. <<d, b>> \in orphans'
      BY <2>1, <3>1, <3>2
    <3> QED
      BY <3>3 DEF Orphan
  <2>6. LaunchInv'
    BY <1>a, <2>1, <2>2, <2>5 DEF LaunchInv, Asleep
  <2> QED
    BY <2>3, <2>4, <2>6 DEF PoolInv
<1>9. ASSUME NEW p \in Pages, CancelStart(p) \/ CancelLaunch(p) PROVE PoolInv'
  <2>1. /\ viewer[p].at \in {"start", "launch"} /\ viewer' = [viewer EXCEPT ![p] = Waiting]
        /\ UNCHANGED <<driver, browser, contexts, killer, overlapped, strays>>
    BY <1>9 DEF CancelStart, CancelLaunch
  <2>2. /\ viewer' \in [Pages -> ViewRows] /\ viewer'[p] = Waiting
        /\ \A q \in Pages : q = p \/ viewer'[q] = viewer[q]
        /\ IsFiniteSet(InPool') /\ Cardinality(InPool') <= PoolSize
    BY <2>1, OneViewer, AwayRow
  <2>3. /\ started' \subseteq Drivers /\ launched' \subseteq Browsers /\ orphans' \subseteq Drivers \X Browsers
        /\ orphans \subseteq orphans'
        /\ \A b \in launched' : b \in launched \/ \E d \in Drivers : <<d, b>> \in orphans'
    <3>1. CASE CancelStart(p)
      BY <1>a, <3>1 DEF CancelStart, PoolTypeOK
    <3>2. CASE CancelLaunch(p)
      <4>1. PICK b \in Browsers \ usedUp :
              launched' = launched \cup {b} /\ orphans' = orphans \cup {<<viewer[p].d, b>>}
        BY <3>2 DEF CancelLaunch
      <4>2. viewer[p].d \in Drivers /\ UNCHANGED started
        BY <1>a, <3>2 DEF CancelLaunch, PoolTypeOK
      <4> QED
        BY <1>a, <4>1, <4>2 DEF PoolTypeOK
    <3> QED
      BY <1>9, <3>1, <3>2
  <2>4. PoolTypeOK'
    BY <1>a, <2>1, <2>2, <2>3 DEF PoolTypeOK, ViewRows
  <2>5. PlaceInv'
    <3>1. \A c \in contexts \ strays : c[1] # p /\ c[1] \in Pages
      BY <1>a, <2>1 DEF PlaceInv, PoolTypeOK
    <3> QED
      BY <1>a, <2>1, <2>2, <3>1 DEF PlaceInv
  <2>6. Launching' \subseteq Launching
    BY <2>2, AwayRow DEF Launching
  <2>7. LaunchInv'
    BY <1>a, <2>1, <2>3, <2>6 DEF LaunchInv, Orphan
  <2> QED
    BY <2>4, <2>5, <2>7 DEF PoolInv
<1>10. CASE WorkerCloses
  <2>1. /\ InPool = {} /\ killer' = [at |-> "stopping", what |-> driver]
        /\ UNCHANGED <<driver, browser, started, launched, usedUp, contexts, viewer, overlapped,
                       strays, orphans>>
    BY <1>10 DEF WorkerCloses
  <2>2. InPool' = InPool /\ Launching' = Launching /\ Launching = {}
    BY <2>1 DEF InPool, Launching
  <2>3. PoolTypeOK'
    BY <1>a, <2>1 DEF PoolTypeOK
  <2>4. PlaceInv'
    BY <1>a, <2>1, <2>2 DEF PlaceInv
  <2>5. LaunchInv'
    BY <1>a, <2>1, <2>2 DEF LaunchInv, Orphan
  <2> QED
    BY <2>3, <2>4, <2>5 DEF PoolInv
<1>11. CASE UNCHANGED poolVars
  BY <1>11 DEF poolVars, PoolInv, PoolTypeOK, PlaceInv, LaunchInv, Orphan, InPool, Launching
<1> QED
  BY <1>1, <1>2, <1>3, <1>4, <1>5, <1>6, <1>7, <1>8, <1>9, <1>10, <1>11 DEF PoolNext

\* The contexts that are no strays are those of the pages in the pool.
LEMMA PoolIsOneBrowser == PoolInv => OneBrowser
<1> SUFFICES ASSUME PoolInv PROVE OneBrowser
  OBVIOUS
<1> DEFINE Kept == contexts \ strays
           Page == [c \in Kept |-> c[1]]
<1>1. Kept \subseteq Pages \X Browsers /\ \A c \in Kept : c[1] \in InPool /\ c[2] = viewer[c[1]].b
  BY DEF PoolInv, PoolTypeOK, PlaceInv, InPool
<1>2. Page \in Injection(Kept, InPool)
  <2>1. \A c, d \in Kept : c[1] = d[1] => c = d
    BY <1>1
  <2> QED
    BY <1>1, <2>1 DEF Injection, IsInjective
<1>3. IsFiniteSet(InPool) /\ Cardinality(InPool) \in Nat /\ Cardinality(InPool) <= PoolSize
  BY FS_CardinalityType DEF PoolInv, PlaceInv
<1> HIDE DEF Page
<1>4. IsFiniteSet(Kept) /\ Cardinality(Kept) <= Cardinality(InPool)
  BY <1>2, <1>3, FS_Injection
<1>5. Cardinality(Kept) <= PoolSize
  BY <1>3, <1>4, FS_CardinalityType, BrowserPoolAssumption
<1> QED
  BY <1>1, <1>5 DEF OneBrowser, PoolInv, LaunchInv, Orphan

-----------------------------------------------------------------------------
(* StripeCatalog: what a run has gathered so far and what a finished one has    *)
(* written, in a stock at Stripe that only grows.                               *)

Working == {"search", "create", "list", "price"}
Priceless == {"hook", "enable", "write", "dump"}
ProductRows == [id : 1..MaxMade, item : Items, shown : BOOLEAN]
PriceRows == [id : 1..MaxMade, product : 1..MaxMade, kind : Kinds, amount : 1..MaxTariff, active : BOOLEAN]
RunRows == [at : {"off"} \cup Working \cup Priceless, item : 1..Len(Order), product : 0..MaxMade,
            seen : SUBSET PriceRows, ids : SUBSET (1..MaxMade)]

(* What follows is said of prices P, products Q and m objects made.           *)

\* Ids are given once and in order.
Dated(P, Q, m) ==
    /\ \A p \in Q : p.id <= m
    /\ \A p, q \in Q : p.id = q.id => p = q
    /\ \A p \in P : p.id <= m /\ p.product <= m
    /\ \A p, q \in P : p.id = q.id => p = q

\* The product of an id is that of an item.
SoldAs(Q, n, i) == \E q \in Q : q.id = n /\ q.item = i
SameCore(p, q) == p.id = q.id /\ p.product = q.product /\ p.kind = q.kind /\ p.amount = q.amount
IdsOf(P) == {p.id : p \in P}

\* Of the prices with these ids: no two for one kind of an item, and one for each kind of it.
OnePrice(P, Q, S) ==
    \A p, q \in P, i \in Items :
        p.id \in S /\ q.id \in S /\ p.kind = q.kind /\ SoldAs(Q, p.product, i) /\ SoldAs(Q, q.product, i)
            => p.id = q.id
AllPriced(P, Q, S, i) ==
    \A kind \in KindsOf[i] : \E p \in P : p.id \in S /\ p.kind = kind /\ SoldAs(Q, p.product, i)

\* The prices a run holds are of the items it has gone through, or of the product it is at.
InPlace(Q, p, r) ==
    \E j \in 1..r.item : /\ SoldAs(Q, p.product, Order[j])
                         /\ j = r.item /\ r.at \in Working => r.at = "price" /\ p.product = r.product
Gathered(P, Q, r) == \A p \in P : p.id \in r.ids => InPlace(Q, p, r)

RunInv(P, Q, r) ==
    /\ r.ids \subseteq IdsOf(P) /\ (r.at = "off" => r.ids = {})
    /\ r.at \in {"list", "price"} => SoldAs(Q, r.product, Order[r.item])
    /\ r.at = "price" => \A p \in r.seen : \E q \in P : SameCore(p, q)
    /\ r.at \in Priceless => r.item = Len(Order)
    /\ Gathered(P, Q, r) /\ OnePrice(P, Q, r.ids)
    /\ \A j \in 1..Len(Order) : j < r.item \/ r.at \in Priceless => AllPriced(P, Q, r.ids, Order[j])

FileInv(P, Q, file) ==
    /\ file.ids \in SUBSET (1..MaxMade) /\ file.ids \subseteq IdsOf(P)
    /\ file # NoFile => OnePrice(P, Q, file.ids) /\ \A i \in Items : AllPriced(P, Q, file.ids, i)

\* What a run that is alone may rely on.
AloneInv(P, Q, E, tar, r) ==
    /\ r.at = "create" => \A q \in Q : q.item # Order[r.item]
    /\ r.at = "price" => /\ \A p \in r.seen : p \in P /\ p.active
                         /\ \A p \in P : p.active /\ p.product = r.product => p \in r.seen \/ p.id \in r.ids
    /\ r.at = "enable" => E = {}
    /\ \A p \in P : p.id \in r.ids => p.active /\ p.amount = tar

SameTerms(p, q) == p.product = q.product /\ p.kind = q.kind /\ p.amount = q.amount

\* What Stripe holds while the runs came one after the other.
Tidy(P, Q, E, tar, set, file) ==
    /\ \A p, q \in Q : p.item = q.item => p = q
    /\ \A p, q \in P : p.active /\ q.active /\ SameTerms(p, q) => p = q
    /\ E = {} \/ \E e \in E : E = {e}
    /\ set => file # NoFile /\ \A p \in P : p.id \in file.ids => p.active /\ p.amount = tar

CatalogRows ==
    /\ products \subseteq ProductRows /\ prices \subseteq PriceRows
    /\ endpoints \subseteq 1..MaxMade /\ made \in 0..MaxMade /\ tariff \in 1..MaxTariff
    /\ starts \in 0..MaxStarts /\ muddled \in BOOLEAN /\ settled \in BOOLEAN
    /\ setup \in [Setups -> RunRows]

OrderlyInv ==
    ~muddled =>
        /\ \A s, t \in Setups : setup[s].at # "off" /\ setup[t].at # "off" => s = t
        /\ Tidy(prices, products, endpoints, tariff, settled, idsFile)
        /\ \A s \in Setups : AloneInv(prices, products, endpoints, tariff, setup[s])
        /\ settled => \A s \in Setups : setup[s].ids \subseteq idsFile.ids

CatalogInv ==
    /\ CatalogRows /\ Dated(prices, products, made) /\ FileInv(prices, products, idsFile)
    /\ OrderlyInv /\ \A s \in Setups : RunInv(prices, products, setup[s])

\* The items are numbered by the order of the script.
LEMMA OrderFacts ==
    /\ Len(Order) \in Nat \ {0} /\ DOMAIN Order = 1..Len(Order)
    /\ \A j \in 1..Len(Order) : Order[j] \in Items
    /\ \A j, k \in 1..Len(Order) : Order[j] = Order[k] => j = k
    /\ \A i \in Items : \E j \in 1..Len(Order) : Order[j] = i
    /\ \A i \in Items : KindsOf[i] \subseteq Kinds
<1>1. Order \in Seq(Items) /\ Items # {} /\ Items = {Order[i] : i \in DOMAIN Order}
      /\ \A i, j \in DOMAIN Order : Order[i] = Order[j] => i = j
  BY StripeCatalogAssumption
<1>2. Len(Order) \in Nat /\ DOMAIN Order = 1..Len(Order)
  BY <1>1
<1>3. Len(Order) # 0
  BY <1>1, <1>2
<1> QED
  BY <1>1, <1>2, <1>3 DEF Kinds

\* What Stripe holds only grows; a price changes by being archived, a product by being shown.
Growth(P, Q, P2, Q2, m) ==
    /\ \A p \in P : \E q \in P2 : SameCore(p, q)
    /\ \A q \in P2 : (\E p \in P : SameCore(p, q)) \/ ~(q.id <= m)
    /\ \A p \in Q : \E q \in Q2 : q.id = p.id /\ q.item = p.item
    /\ \A q \in Q2 : (\E p \in Q : q.id = p.id /\ q.item = p.item) \/ ~(q.id <= m)

\* A product made before keeps its item.
LEMMA GrownSold ==
    ASSUME NEW P, NEW Q, NEW P2, NEW Q2, NEW m, Growth(P, Q, P2, Q2, m), NEW n, n <= m, NEW i
    PROVE  SoldAs(Q2, n, i) <=> SoldAs(Q, n, i)
BY DEF Growth, SoldAs

\* What is so of a set of prices stays so as Stripe's stock grows.
LEMMA GrownSet ==
    ASSUME NEW P, NEW Q, NEW P2, NEW Q2, NEW m, Growth(P, Q, P2, Q2, m), Dated(P, Q, m),
           NEW S, S \subseteq IdsOf(P)
    PROVE  /\ S \subseteq IdsOf(P2)
           /\ \A q \in P2 : q.id \in S => \E p \in P : SameCore(p, q)
           /\ OnePrice(P, Q, S) => OnePrice(P2, Q2, S)
           /\ \A i \in Items : AllPriced(P, Q, S, i) => AllPriced(P2, Q2, S, i)
<1>1. S \subseteq IdsOf(P2)
  BY DEF Growth, SameCore, IdsOf
<1>2. \A p \in P : \A i : SoldAs(Q2, p.product, i) <=> SoldAs(Q, p.product, i)
  BY GrownSold DEF Dated
<1>3. \A q \in P2 : q.id \in S => \E p \in P : SameCore(p, q)
  BY DEF Growth, Dated, IdsOf
<1>4. OnePrice(P, Q, S) => OnePrice(P2, Q2, S)
  BY <1>2, <1>3 DEF OnePrice, SameCore
<1>5. ASSUME NEW i \in Items, AllPriced(P, Q, S, i) PROVE AllPriced(P2, Q2, S, i)
  <2> SUFFICES ASSUME NEW kind \in KindsOf[i]
               PROVE  \E q \in P2 : q.id \in S /\ q.kind = kind /\ SoldAs(Q2, q.product, i)
    BY DEF AllPriced
  <2>1. PICK p \in P : p.id \in S /\ p.kind = kind /\ SoldAs(Q, p.product, i)
    BY <1>5 DEF AllPriced
  <2>2. PICK q \in P2 : SameCore(p, q)
    BY DEF Growth
  <2> QED
    BY <1>2, <2>1, <2>2 DEF SameCore
<1> QED
  BY <1>1, <1>3, <1>4, <1>5

\* What is so of a run stays so as Stripe's stock grows.
LEMMA GrownRun ==
    ASSUME NEW P, NEW Q, NEW P2, NEW Q2, NEW m, Growth(P, Q, P2, Q2, m), Dated(P, Q, m),
           NEW r \in RunRows, RunInv(P, Q, r)
    PROVE  RunInv(P2, Q2, r)
<1>1. r.ids \subseteq IdsOf(P) /\ (r.at = "off" => r.ids = {}) /\ Gathered(P, Q, r)
  BY DEF RunInv
<1>2. /\ r.ids \subseteq IdsOf(P2)
      /\ \A q \in P2 : q.id \in r.ids => \E p \in P : SameCore(p, q)
      /\ OnePrice(P2, Q2, r.ids)
      /\ \A i \in Items : AllPriced(P, Q, r.ids, i) => AllPriced(P2, Q2, r.ids, i)
  BY <1>1, GrownSet DEF RunInv
<1>3. r.at \in {"list", "price"} => SoldAs(Q2, r.product, Order[r.item])
  BY DEF RunInv, Growth, SoldAs
<1>4. r.at = "price" => \A p \in r.seen : \E q \in P2 : SameCore(p, q)
  BY DEF RunInv, Growth, SameCore
<1>5. Gathered(P2, Q2, r)
  <2> SUFFICES ASSUME NEW q \in P2, q.id \in r.ids PROVE InPlace(Q2, q, r)
    BY DEF Gathered
  <2>1. PICK p \in P : SameCore(p, q)
    BY <1>2
  <2>2. PICK j \in 1..r.item : /\ SoldAs(Q, p.product, Order[j])
                               /\ j = r.item /\ r.at \in Working => r.at = "price" /\ p.product = r.product
    BY <1>1, <2>1 DEF Gathered, InPlace, SameCore
  <2>3. SoldAs(Q2, q.product, Order[j])
    BY <2>1, <2>2 DEF SameCore, Growth, SoldAs
  <2> QED
    BY <2>1, <2>2, <2>3 DEF SameCore, InPlace
<1>6. \A j \in 1..Len(Order) : j < r.item \/ r.at \in Priceless => AllPriced(P2, Q2, r.ids, Order[j])
  BY <1>2, OrderFacts DEF RunInv
<1> QED
  BY <1>1, <1>2, <1>3, <1>4, <1>5, <1>6 DEF RunInv

\* A price of the product the run is at, of a kind it has none of yet.
LEMMA AddPrice ==
    ASSUME NEW P, NEW Q, NEW m, Dated(P, Q, m), NEW r \in RunRows, RunInv(P, Q, r), r.at = "price",
           NEW n \in P, n.product = r.product, NEW row \in RunRows, row = [r EXCEPT !.ids = r.ids \cup {n.id}],
           \A p \in P : p.id \in r.ids /\ p.product = r.product => p.kind # n.kind
    PROVE  RunInv(P, Q, row)
<1>1. /\ row.at = "price" /\ row.item = r.item /\ row.product = r.product /\ row.seen = r.seen
      /\ row.ids = r.ids \cup {n.id} /\ r.item \in 1..Len(Order)
  BY DEF RunRows
<1>2. SoldAs(Q, n.product, Order[r.item])
  BY DEF RunInv
<1>3. \A p \in P : p.id = n.id => p = n
  BY DEF Dated
<1>4. row.ids \subseteq IdsOf(P)
  BY <1>1 DEF RunInv, IdsOf
<1>5. Gathered(P, Q, row)
  <2> SUFFICES ASSUME NEW p \in P, p.id \in row.ids PROVE InPlace(Q, p, row)
    BY DEF Gathered
  <2>1. CASE p.id = n.id
    <3>1. r.item \in 1..r.item
      BY <1>1, OrderFacts
    <3> QED
      BY <1>1, <1>2, <1>3, <2>1, <3>1 DEF InPlace
  <2>2. CASE p.id # n.id
    <3>1. InPlace(Q, p, r)
      BY <1>1, <2>2 DEF RunInv, Gathered
    <3> QED
      BY <1>1, <3>1 DEF InPlace
  <2> QED
    BY <2>1, <2>2
<1>6. \A p \in P : p.id \in r.ids /\ SoldAs(Q, p.product, Order[r.item]) => p.product = r.product
  <2> SUFFICES ASSUME NEW p \in P, p.id \in r.ids, SoldAs(Q, p.product, Order[r.item])
               PROVE  p.product = r.product
    OBVIOUS
  <2>1. PICK j \in 1..r.item : SoldAs(Q, p.product, Order[j]) /\ (j = r.item => p.product = r.product)
    BY DEF RunInv, Gathered, InPlace, Working
  <2>2. Order[j] = Order[r.item]
    BY <2>1 DEF SoldAs, Dated
  <2>3. j \in 1..Len(Order)
    BY <1>1, OrderFacts
  <2> QED
    BY <1>1, <2>1, <2>2, <2>3, OrderFacts
<1>7. OnePrice(P, Q, row.ids)
  <2> SUFFICES ASSUME NEW p \in P, NEW q \in P, NEW i \in Items, p.id \in row.ids, q.id \in row.ids,
                      p.kind = q.kind, SoldAs(Q, p.product, i), SoldAs(Q, q.product, i)
               PROVE  p.id = q.id
    BY DEF OnePrice
  <2>1. CASE p.id \in r.ids /\ q.id \in r.ids
    BY <2>1 DEF RunInv, OnePrice
  <2>2. CASE p = n \/ q = n
    <3>1. i = Order[r.item]
      BY <1>2, <2>2 DEF SoldAs, Dated
    <3> QED
      BY <1>1, <1>6, <2>2, <3>1, <1>3
  <2> QED
    BY <1>1, <1>3, <2>1, <2>2
<1>8. \A j \in 1..Len(Order) : j < r.item => AllPriced(P, Q, row.ids, Order[j])
  BY <1>1 DEF RunInv, AllPriced
<1>9. "price" \notin Priceless
  BY DEF Priceless
<1> QED
  BY <1>1, <1>4, <1>5, <1>7, <1>8, <1>9 DEF RunInv

\* A stock that stays has grown by nothing.
LEMMA NoGrowth == ASSUME NEW P, NEW Q, NEW m PROVE Growth(P, Q, P, Q, m)
BY DEF Growth, SameCore

\* The row of a run that is off.
LEMMA RestingRow == NotRunning \in RunRows /\ NotRunning.at = "off" /\ NotRunning.ids = {} /\ NotRunning.item = 1
<1>1. 1 \in 1..Len(Order) /\ 0 \in 0..MaxMade
  BY OrderFacts, StripeCatalogAssumption
<1> QED
  BY <1>1 DEF NotRunning, RunRows

\* A run that has gathered nothing.
LEMMA IdleRun ==
    ASSUME NEW P, NEW Q, NEW r, r.at \in {"off", "search"}, r.ids = {}, r.item = 1
    PROVE  RunInv(P, Q, r)
<1>1. \A j \in 1..Len(Order) : ~(j < 1)
  BY OrderFacts
<1> QED
  BY <1>1 DEF RunInv, Gathered, OnePrice, Priceless

\* What a step of one run leaves of the others.
LEMMA OneRun ==
    ASSUME CatalogInv, NEW s \in Setups, NEW row \in RunRows, setup' = [setup EXCEPT ![s] = row],
           Growth(prices, products, prices', products', made), RunInv(prices', products', row)
    PROVE  /\ setup' \in [Setups -> RunRows] /\ setup'[s] = row
           /\ \A t \in Setups : t = s \/ setup'[t] = setup[t]
           /\ \A t \in Setups : RunInv(prices', products', setup'[t])
<1>1. setup \in [Setups -> RunRows] /\ Dated(prices, products, made)
      /\ \A t \in Setups : RunInv(prices, products, setup[t])
  BY DEF CatalogInv, CatalogRows
<1>2. /\ setup' \in [Setups -> RunRows] /\ setup'[s] = row
      /\ \A t \in Setups : t = s \/ setup'[t] = setup[t]
  BY <1>1
<1>3. ASSUME NEW t \in Setups PROVE RunInv(prices', products', setup'[t])
  <2>1. CASE t = s
    BY <1>2, <2>1
  <2>2. CASE t # s
    <3>1. setup[t] \in RunRows /\ RunInv(prices, products, setup[t]) /\ setup'[t] = setup[t]
      BY <1>1, <1>2, <2>2
    <3>2. RunInv(prices', products', setup[t])
      BY <1>1, <3>1, GrownRun
    <3> QED
      BY <3>1, <3>2
  <2> QED
    BY <2>1, <2>2
<1> QED
  BY <1>2, <1>3

\* The runs beside one that is alone are off.
LEMMA OrderlyRun ==
    ASSUME CatalogInv, NEW s \in Setups, NEW row \in RunRows, setup' = [setup EXCEPT ![s] = row],
           setup[s].at # "off", muddled => muddled',
           ~muddled' => /\ Tidy(prices', products', endpoints', tariff', settled', idsFile')
                        /\ AloneInv(prices', products', endpoints', tariff', row)
                        /\ settled' => row.ids \subseteq idsFile'.ids
    PROVE  OrderlyInv'
<1> SUFFICES ASSUME ~muddled'
             PROVE  /\ \A t, u \in Setups : setup'[t].at # "off" /\ setup'[u].at # "off" => t = u
                    /\ Tidy(prices', products', endpoints', tariff', settled', idsFile')
                    /\ \A t \in Setups : AloneInv(prices', products', endpoints', tariff', setup'[t])
                    /\ settled' => \A t \in Setups : setup'[t].ids \subseteq idsFile'.ids
  BY DEF OrderlyInv
<1>1. /\ setup'[s] = row /\ \A t \in Setups : t = s \/ setup'[t] = setup[t]
  BY DEF CatalogInv, CatalogRows
<1>2. \A t \in Setups : t = s \/ (setup[t].at = "off" /\ setup[t].ids = {})
  BY DEF CatalogInv, OrderlyInv, RunInv
<1>3. \A t \in Setups : AloneInv(prices', products', endpoints', tariff', setup'[t])
  BY <1>1, <1>2 DEF AloneInv
<1> QED
  BY <1>1, <1>2, <1>3

\* A step of a run that changes nothing but itself.
LEMMA StillRun ==
    ASSUME CatalogInv, NEW s \in Setups, NEW row \in RunRows, setup' = [setup EXCEPT ![s] = row],
           setup[s].at # "off", muddled' \in BOOLEAN, muddled => muddled',
           UNCHANGED <<products, prices, endpoints, made, tariff, idsFile, starts, settled>>,
           RunInv(prices, products, row),
           ~muddled' => /\ AloneInv(prices, products, endpoints, tariff, row)
                        /\ settled => row.ids \subseteq idsFile.ids
    PROVE  CatalogInv'
<1>1. Growth(prices, products, prices', products', made)
  BY NoGrowth
<1>2. /\ setup' \in [Setups -> RunRows]
      /\ \A t \in Setups : RunInv(prices', products', setup'[t])
  BY <1>1, OneRun
<1>3. OrderlyInv'
  <2>1. ~muddled' => Tidy(prices', products', endpoints', tariff', settled', idsFile')
    BY DEF CatalogInv, OrderlyInv
  <2> QED
    BY <2>1, OrderlyRun
<1>4. CatalogRows' /\ Dated(prices', products', made') /\ FileInv(prices', products', idsFile')
  BY <1>2 DEF CatalogInv, CatalogRows
<1> QED
  BY <1>2, <1>3, <1>4 DEF CatalogInv

\* In the first state Stripe holds nothing, and the catalogue's invariant holds.
LEMMA InitCatalog == CatalogInit => CatalogInv
<1> SUFFICES ASSUME CatalogInit PROVE CatalogInv
  OBVIOUS
<1>1. setup \in [Setups -> RunRows] /\ \A s \in Setups : setup[s] = NotRunning
  BY RestingRow DEF CatalogInit
<1>2. MaxMade \in Nat /\ MaxTariff \in Nat \ {0} /\ MaxStarts \in Nat
  BY StripeCatalogAssumption
<1>3. CatalogRows
  <2>1. 0 \in 0..MaxMade /\ 1 \in 1..MaxTariff /\ 0 \in 0..MaxStarts
    BY <1>2
  <2>2. products = {} /\ prices = {} /\ endpoints = {} /\ muddled = FALSE /\ settled = FALSE
    BY DEF CatalogInit
  <2>3. made = 0 /\ tariff = 1 /\ starts = 0
    BY DEF CatalogInit
  <2> QED
    BY <1>1, <2>1, <2>2, <2>3 DEF CatalogRows
<1>4. Dated(prices, products, made) /\ FileInv(prices, products, idsFile)
  BY DEF CatalogInit, Dated, FileInv, NoFile
<1>5. OrderlyInv
  BY <1>1, RestingRow DEF CatalogInit, OrderlyInv, Tidy, AloneInv
<1>6. \A s \in Setups : RunInv(prices, products, setup[s])
  BY <1>1, RestingRow, IdleRun
<1> QED
  BY <1>3, <1>4, <1>5, <1>6 DEF CatalogInv

\* A run of the script begins.
LEMMA StartKeepsCatalog == ASSUME CatalogInv, NEW s \in Setups, StartSetup(s) PROVE CatalogInv'
<1> DEFINE row == [NotRunning EXCEPT !.at = "search"]
<1>1. row \in RunRows /\ row.at = "search" /\ row.ids = {} /\ row.item = 1
  BY RestingRow, OrderFacts DEF RunRows, NotRunning, Working
<1>2. /\ setup[s].at = "off" /\ starts < MaxStarts /\ starts' = starts + 1 /\ setup' = [setup EXCEPT ![s] = row]
      /\ muddled' = (muddled \/ \E t \in Setups : setup[t].at # "off")
      /\ UNCHANGED <<products, prices, endpoints, made, tariff, idsFile, settled>>
  BY DEF StartSetup
<1> HIDE DEF row
<1>3. Growth(prices, products, prices', products', made) /\ RunInv(prices', products', row)
  BY <1>1, <1>2, NoGrowth, IdleRun
<1>4. /\ setup' \in [Setups -> RunRows] /\ setup'[s] = row
      /\ \A t \in Setups : t = s \/ setup'[t] = setup[t]
      /\ \A t \in Setups : RunInv(prices', products', setup'[t])
  BY <1>1, <1>2, <1>3, OneRun
<1>5. CatalogRows' /\ Dated(prices', products', made') /\ FileInv(prices', products', idsFile')
  <2>1. starts' \in 0..MaxStarts
    BY <1>2, StripeCatalogAssumption DEF CatalogInv, CatalogRows
  <2> QED
    BY <1>2, <1>4, <2>1 DEF CatalogInv, CatalogRows
<1>6. OrderlyInv'
  <2> SUFFICES ASSUME ~muddled' PROVE OrderlyInv'
    BY DEF OrderlyInv
  <2>1. \A t \in Setups : t = s \/ setup'[t].at = "off"
    BY <1>2, <1>4
  <2>2. AloneInv(prices', products', endpoints', tariff', row)
    BY <1>1 DEF AloneInv
  <2>3. \A t \in Setups : AloneInv(prices', products', endpoints', tariff', setup'[t])
    BY <1>2, <1>4, <2>2 DEF CatalogInv, OrderlyInv
  <2>4. settled' => \A t \in Setups : setup'[t].ids \subseteq idsFile'.ids
    BY <1>1, <1>2, <1>4 DEF CatalogInv, OrderlyInv
  <2> QED
    BY <1>2, <2>1, <2>3, <2>4 DEF CatalogInv, OrderlyInv
<1> QED
  BY <1>4, <1>5, <1>6 DEF CatalogInv

\* A run of the script dies.
LEMMA DieKeepsCatalog == ASSUME CatalogInv, NEW s \in Setups, SetupDies(s) PROVE CatalogInv'
<1>1. /\ setup[s].at # "off" /\ setup' = [setup EXCEPT ![s] = NotRunning]
      /\ UNCHANGED <<products, prices, endpoints, made, tariff, idsFile, muddled, starts, settled>>
  BY DEF SetupDies
<1>2. RunInv(prices, products, NotRunning) /\ AloneInv(prices, products, endpoints, tariff, NotRunning)
  BY RestingRow, IdleRun DEF AloneInv
<1>3. muddled' \in BOOLEAN /\ NotRunning.ids \subseteq idsFile.ids
  BY <1>1, RestingRow DEF CatalogInv, CatalogRows
<1> QED
  BY <1>1, <1>2, <1>3, RestingRow, StillRun

\* A run searches the product.
LEMMA SearchKeeps == ASSUME CatalogInv, NEW s \in Setups, SearchProduct(s) PROVE CatalogInv'
<1> DEFINE found == {p \in products : p.item = Item(s) /\ p.shown}
<1>1. setup[s] \in RunRows /\ setup[s].item \in 1..Len(Order) /\ products \subseteq ProductRows
  BY DEF CatalogInv, CatalogRows, RunRows
<1>2. PICK row : /\ \/ found = {} /\ row = [setup[s] EXCEPT !.at = "create"]
                    \/ \E p \in found : row = [setup[s] EXCEPT !.at = "list", !.product = p.id]
                 /\ setup' = [setup EXCEPT ![s] = row]
  <2>1. CASE found = {} /\ setup' = [setup EXCEPT ![s].at = "create"]
    <3>1. setup' = [setup EXCEPT ![s] = [setup[s] EXCEPT !.at = "create"]]
      BY <1>1, <2>1 DEF CatalogInv, CatalogRows, RunRows
    <3> QED
      BY <2>1, <3>1
  <2>2. ASSUME NEW p \in found, setup' = [setup EXCEPT ![s].at = "list", ![s].product = p.id]
        PROVE  setup' = [setup EXCEPT ![s] = [setup[s] EXCEPT !.at = "list", !.product = p.id]]
    BY <1>1, <2>2 DEF CatalogInv, CatalogRows, RunRows
  <2> QED
    BY <2>1, <2>2 DEF SearchProduct
<1>3. /\ setup[s].at = "search" /\ muddled' = (muddled \/ \E p \in products : p.item = Item(s) /\ ~p.shown)
      /\ UNCHANGED <<products, prices, endpoints, made, tariff, idsFile, starts, settled>>
  BY DEF SearchProduct
<1>4. /\ row \in RunRows /\ row.at \in {"create", "list"} /\ row.item = setup[s].item /\ row.ids = setup[s].ids
      /\ row.at = "create" => found = {}
      /\ row.at = "list" => \E p \in found : row.product = p.id
  <2>1. CASE found = {} /\ row = [setup[s] EXCEPT !.at = "create"]
    BY <1>1, <2>1 DEF RunRows, Working
  <2>2. CASE \E p \in found : row = [setup[s] EXCEPT !.at = "list", !.product = p.id]
    <3>1. PICK p \in found : row = [setup[s] EXCEPT !.at = "list", !.product = p.id]
      BY <2>2
    <3>2. p.id \in 0..MaxMade
      BY <1>1, StripeCatalogAssumption DEF ProductRows
    <3> QED
      BY <1>1, <3>1, <3>2 DEF RunRows, Working
  <2> QED
    BY <1>2, <2>1, <2>2
<1>5. RunInv(prices, products, setup[s])
  BY DEF CatalogInv
<1>6. RunInv(prices, products, row)
  <2>1. row.at = "list" => SoldAs(products, row.product, Order[row.item])
    BY <1>4 DEF SoldAs, Item
  <2>2. Gathered(prices, products, row)
    BY <1>3, <1>4, <1>5 DEF RunInv, Gathered, InPlace, Working
  <2> QED
    BY <1>3, <1>4, <1>5, <2>1, <2>2 DEF RunInv, Priceless
<1>7. ASSUME ~muddled'
      PROVE  AloneInv(prices, products, endpoints, tariff, row) /\ (settled => row.ids \subseteq idsFile.ids)
  <2>1. AloneInv(prices, products, endpoints, tariff, setup[s]) /\ (settled => row.ids \subseteq idsFile.ids)
    BY <1>3, <1>4, <1>7 DEF CatalogInv, OrderlyInv
  <2>2. row.at = "create" => \A p \in products : p.item # Order[row.item]
    BY <1>3, <1>4, <1>7 DEF Item
  <2> QED
    BY <1>4, <2>1, <2>2 DEF AloneInv
<1>8. muddled' \in BOOLEAN /\ (muddled => muddled')
  BY <1>3 DEF CatalogInv, CatalogRows
<1> QED
  BY <1>2, <1>3, <1>4, <1>6, <1>7, <1>8, StillRun

\* A run lists the product's prices.
LEMMA ListKeeps == ASSUME CatalogInv, NEW s \in Setups, ListPrices(s) PROVE CatalogInv'
<1> DEFINE seen == {p \in prices : p.product = setup[s].product /\ p.active}
           row == [setup[s] EXCEPT !.at = "price", !.seen = seen]
<1>1. setup[s] \in RunRows /\ prices \subseteq PriceRows /\ RunInv(prices, products, setup[s])
  BY DEF CatalogInv, CatalogRows
<1>2. /\ setup[s].at = "list" /\ setup' = [setup EXCEPT ![s] = row]
      /\ UNCHANGED <<products, prices, endpoints, made, tariff, idsFile, muddled, starts, settled>>
  BY <1>1 DEF ListPrices, CatalogInv, CatalogRows, RunRows
<1>3. /\ row \in RunRows /\ row.at = "price" /\ row.item = setup[s].item /\ row.ids = setup[s].ids
      /\ row.product = setup[s].product /\ row.seen = seen
  BY <1>1 DEF RunRows, Working
<1> HIDE DEF row
<1>4. RunInv(prices, products, row)
  <2>1. Gathered(prices, products, row)
    BY <1>1, <1>2, <1>3 DEF RunInv, Gathered, InPlace, Working
  <2> QED
    BY <1>1, <1>2, <1>3, <2>1 DEF RunInv, Priceless, SameCore
<1>5. ASSUME ~muddled'
      PROVE  AloneInv(prices, products, endpoints, tariff, row) /\ (settled => row.ids \subseteq idsFile.ids)
  <2>1. AloneInv(prices, products, endpoints, tariff, setup[s]) /\ (settled => row.ids \subseteq idsFile.ids)
    BY <1>2, <1>3, <1>5 DEF CatalogInv, OrderlyInv
  <2> QED
    BY <1>3, <2>1 DEF AloneInv
<1>6. muddled' \in BOOLEAN
  BY <1>2 DEF CatalogInv, CatalogRows
<1> QED
  BY <1>2, <1>3, <1>4, <1>5, <1>6, StillRun

\* A price in force that is written is what a run alone finds: it need not make another.
LEMMA FoundAgain ==
    ASSUME CatalogInv, ~muddled, settled, NEW s \in Setups, setup[s].at = "price",
           NEW kind \in KindsOf[Item(s)]
    PROVE  \E f \in prices : /\ f.id \in idsFile.ids /\ f.product = setup[s].product /\ f.kind = kind
                             /\ f.amount = tariff /\ f.active
<1>1. setup[s] \in RunRows /\ setup[s].item \in 1..Len(Order) /\ Item(s) \in Items
  BY OrderFacts DEF CatalogInv, CatalogRows, RunRows, Item
<1>2. idsFile # NoFile /\ AllPriced(prices, products, idsFile.ids, Item(s))
  BY <1>1 DEF CatalogInv, OrderlyInv, Tidy, FileInv
<1>3. PICK f \in prices : f.id \in idsFile.ids /\ f.kind = kind /\ SoldAs(products, f.product, Item(s))
  BY <1>2 DEF AllPriced
<1>4. SoldAs(products, setup[s].product, Item(s))
  BY DEF CatalogInv, RunInv, Item
<1>5. f.product = setup[s].product
  BY <1>3, <1>4 DEF SoldAs, CatalogInv, OrderlyInv, Tidy
<1> QED
  BY <1>3, <1>5 DEF CatalogInv, OrderlyInv, Tidy

\* A run takes a price that fits.
LEMMA TakeKeeps ==
    ASSUME CatalogInv, NEW s \in Setups, NEW kind \in Kinds, TakePrice(s, kind) PROVE CatalogInv'
<1>1. /\ setup[s] \in RunRows /\ RunInv(prices, products, setup[s]) /\ prices \subseteq PriceRows
      /\ Dated(prices, products, made)
  BY DEF CatalogInv, CatalogRows
<1>2. /\ setup[s].at = "price" /\ kind \in KindsOf[Item(s)] \ Priced(s)
      /\ UNCHANGED <<products, prices, endpoints, made, tariff, idsFile, muddled, starts, settled>>
  BY DEF TakePrice
<1>3. PICK p \in Fitting(s, kind, setup[s].seen) : setup' = [setup EXCEPT ![s].ids = @ \cup {p.id}]
  BY DEF TakePrice
<1>4. p \in setup[s].seen /\ p.product = setup[s].product /\ p.kind = kind /\ p.amount = tariff
  BY <1>3 DEF Fitting
<1>5. PICK q \in prices : SameCore(p, q)
  BY <1>1, <1>2, <1>4 DEF RunInv
<1> DEFINE row == [setup[s] EXCEPT !.ids = setup[s].ids \cup {q.id}]
<1>6. /\ row \in RunRows /\ row.at = "price" /\ row.item = setup[s].item /\ row.product = setup[s].product
      /\ row.seen = setup[s].seen /\ row.ids = setup[s].ids \cup {q.id}
  BY <1>1, <1>2, <1>5 DEF RunRows, PriceRows
<1>7. setup' = [setup EXCEPT ![s] = row]
  BY <1>1, <1>3, <1>5 DEF CatalogInv, CatalogRows, RunRows, SameCore
<1>8. \A k \in prices : k.id \in setup[s].ids /\ k.product = setup[s].product => k.kind # q.kind
  BY <1>2, <1>4, <1>5 DEF Priced, SameCore
<1>9. RunInv(prices, products, row)
  <2>1. q.product = setup[s].product
    BY <1>4, <1>5 DEF SameCore
  <2> QED
    BY <1>1, <1>2, <1>6, <1>8, <2>1, AddPrice
<1> HIDE DEF row
<1>10. ASSUME ~muddled'
       PROVE  AloneInv(prices, products, endpoints, tariff, row) /\ (settled => row.ids \subseteq idsFile.ids)
  <2>1. /\ AloneInv(prices, products, endpoints, tariff, setup[s]) /\ (settled => setup[s].ids \subseteq idsFile.ids)
        /\ Tidy(prices, products, endpoints, tariff, settled, idsFile)
    BY <1>2, <1>10 DEF CatalogInv, OrderlyInv
  <2>2. p \in prices /\ p.active /\ p = q
    BY <1>1, <1>2, <1>4, <1>5, <2>1 DEF AloneInv, SameCore, Dated
  <2>3. \A k \in prices : k.id = q.id => k = q
    BY <1>1 DEF Dated
  <2>4. AloneInv(prices, products, endpoints, tariff, row)
    BY <1>2, <1>4, <1>6, <2>1, <2>2, <2>3 DEF AloneInv
  <2>5. ASSUME settled PROVE q.id \in idsFile.ids
    <3>1. PICK f \in prices : /\ f.id \in idsFile.ids /\ f.product = setup[s].product /\ f.kind = kind
                              /\ f.amount = tariff /\ f.active
      BY <1>2, <1>10, <2>5, FoundAgain
    <3> QED
      BY <1>4, <2>1, <2>2, <3>1 DEF Tidy, SameTerms
  <2> QED
    BY <1>6, <2>1, <2>4, <2>5
<1>11. muddled' \in BOOLEAN
  BY <1>2 DEF CatalogInv, CatalogRows
<1> QED
  BY <1>2, <1>6, <1>7, <1>9, <1>10, <1>11, StillRun

\* A run goes to the next item.
LEMMA NextItemKeeps == ASSUME CatalogInv, NEW s \in Setups, NextItem(s) PROVE CatalogInv'
<1>1. /\ setup[s] \in RunRows /\ RunInv(prices, products, setup[s])
      /\ setup[s].item \in 1..Len(Order) /\ Len(Order) \in Nat
  BY OrderFacts DEF CatalogInv, CatalogRows, RunRows
<1>2. /\ setup[s].at = "price" /\ Priced(s) = KindsOf[Item(s)]
      /\ UNCHANGED <<products, prices, endpoints, made, tariff, idsFile, muddled, starts, settled>>
  BY DEF NextItem
<1>3. PICK row : /\ row = IF setup[s].item = Len(Order) THEN [setup[s] EXCEPT !.at = "hook", !.seen = {}]
                          ELSE [setup[s] EXCEPT !.at = "search", !.item = setup[s].item + 1, !.seen = {}]
  OBVIOUS
<1>4. setup' = [setup EXCEPT ![s] = row]
  <2>1. CASE setup[s].item = Len(Order)
    BY <1>1, <1>3, <2>1 DEF NextItem, CatalogInv, CatalogRows, RunRows
  <2>2. CASE setup[s].item # Len(Order)
    BY <1>1, <1>3, <2>2 DEF NextItem, CatalogInv, CatalogRows, RunRows
  <2> QED
    BY <2>1, <2>2
<1>5. /\ row \in RunRows /\ row.ids = setup[s].ids
      /\ \/ setup[s].item = Len(Order) /\ row.at = "hook" /\ row.item = setup[s].item
         \/ setup[s].item < Len(Order) /\ row.at = "search" /\ row.item = setup[s].item + 1
  <2>1. CASE setup[s].item = Len(Order)
    BY <1>1, <1>3, <2>1 DEF RunRows, Priceless
  <2>2. CASE setup[s].item # Len(Order)
    <3>1. setup[s].item + 1 \in 1..Len(Order) /\ setup[s].item < Len(Order)
      BY <1>1, <2>2
    <3> QED
      BY <1>1, <1>3, <2>2, <3>1 DEF RunRows, Working
  <2> QED
    BY <2>1, <2>2
<1>6. AllPriced(prices, products, setup[s].ids, Order[setup[s].item])
  <2>1. SoldAs(products, setup[s].product, Item(s))
    BY <1>1, <1>2 DEF RunInv, Item
  <2> QED
    BY <1>2, <2>1 DEF AllPriced, Priced, Item
<1>7. RunInv(prices, products, row)
  <2>1. Gathered(prices, products, row)
    <3> SUFFICES ASSUME NEW p \in prices, p.id \in row.ids PROVE InPlace(products, p, row)
      BY DEF Gathered
    <3>1. PICK j \in 1..setup[s].item : SoldAs(products, p.product, Order[j])
      BY <1>1, <1>5 DEF RunInv, Gathered, InPlace
    <3>2. j \in 1..row.item /\ (row.at = "search" => j # row.item)
      BY <1>1, <1>5, <3>1
    <3> QED
      BY <1>5, <3>1, <3>2 DEF InPlace, Working
  <2>2. \A j \in 1..Len(Order) : j < row.item \/ row.at \in Priceless => AllPriced(prices, products, row.ids, Order[j])
    <3> SUFFICES ASSUME NEW j \in 1..Len(Order), j < row.item \/ row.at \in Priceless
                 PROVE  AllPriced(prices, products, row.ids, Order[j])
      OBVIOUS
    <3>1. CASE j = setup[s].item
      BY <1>5, <1>6, <3>1
    <3>2. CASE j # setup[s].item
      <4>1. j < setup[s].item
        BY <1>1, <1>5, <3>2 DEF Priceless
      <4> QED
        BY <1>1, <1>5, <4>1 DEF RunInv
    <3> QED
      BY <3>1, <3>2
  <2> QED
    BY <1>1, <1>5, <2>1, <2>2 DEF RunInv, Priceless
<1>8. ASSUME ~muddled'
      PROVE  AloneInv(prices, products, endpoints, tariff, row) /\ (settled => row.ids \subseteq idsFile.ids)
  <2>1. AloneInv(prices, products, endpoints, tariff, setup[s]) /\ (settled => row.ids \subseteq idsFile.ids)
    BY <1>2, <1>5, <1>8 DEF CatalogInv, OrderlyInv
  <2> QED
    BY <1>5, <2>1 DEF AloneInv
<1>9. muddled' \in BOOLEAN
  BY <1>2 DEF CatalogInv, CatalogRows
<1> QED
  BY <1>2, <1>4, <1>5, <1>7, <1>8, <1>9, StillRun

\* A run finds the endpoint.
LEMMA FindKeeps == ASSUME CatalogInv, NEW s \in Setups, FindEndpoint(s) PROVE CatalogInv'
<1> DEFINE row == [setup[s] EXCEPT !.at = IF endpoints = {} THEN "enable" ELSE "write"]
<1>1. setup[s] \in RunRows /\ RunInv(prices, products, setup[s])
  BY DEF CatalogInv, CatalogRows
<1>2. /\ setup[s].at = "hook" /\ setup' = [setup EXCEPT ![s] = row]
      /\ UNCHANGED <<products, prices, endpoints, made, tariff, idsFile, muddled, starts, settled>>
  BY <1>1 DEF FindEndpoint, CatalogInv, CatalogRows, RunRows
<1>3. /\ row \in RunRows /\ row.item = setup[s].item /\ row.ids = setup[s].ids /\ row.at \in {"enable", "write"}
      /\ row.at = "enable" => endpoints = {}
  BY <1>1 DEF RunRows, Priceless
<1> HIDE DEF row
<1>4. RunInv(prices, products, row)
  <2>1. Gathered(prices, products, row)
    BY <1>1, <1>2, <1>3 DEF RunInv, Gathered, InPlace, Working
  <2> QED
    BY <1>1, <1>2, <1>3, <2>1 DEF RunInv, Priceless
<1>5. ASSUME ~muddled'
      PROVE  AloneInv(prices, products, endpoints, tariff, row) /\ (settled => row.ids \subseteq idsFile.ids)
  <2>1. AloneInv(prices, products, endpoints, tariff, setup[s]) /\ (settled => row.ids \subseteq idsFile.ids)
    BY <1>2, <1>3, <1>5 DEF CatalogInv, OrderlyInv
  <2> QED
    BY <1>3, <2>1 DEF AloneInv
<1>6. muddled' \in BOOLEAN
  BY <1>2 DEF CatalogInv, CatalogRows
<1> QED
  BY <1>2, <1>3, <1>4, <1>5, <1>6, StillRun

\* What is written stays written while Stripe grows.
LEMMA GrownFile ==
    ASSUME CatalogInv, Growth(prices, products, prices', products', made), UNCHANGED idsFile
    PROVE  FileInv(prices', products', idsFile')
<1>1. Dated(prices, products, made) /\ FileInv(prices, products, idsFile)
  BY DEF CatalogInv
<1>2. idsFile.ids \subseteq IdsOf(prices)
  BY <1>1 DEF FileInv
<1>3. /\ idsFile.ids \subseteq IdsOf(prices')
      /\ OnePrice(prices, products, idsFile.ids) => OnePrice(prices', products', idsFile.ids)
      /\ \A i \in Items : AllPriced(prices, products, idsFile.ids, i) => AllPriced(prices', products', idsFile.ids, i)
  BY <1>1, <1>2, GrownSet
<1> QED
  BY <1>1, <1>3 DEF FileInv

\* The next id is one not given yet.
LEMMA OneMore ==
    ASSUME CatalogRows, made < MaxMade, made' = made + 1
    PROVE  made \in Nat /\ made' \in 1..MaxMade /\ made' \in 0..MaxMade /\ ~(made' <= made)
BY StripeCatalogAssumption DEF CatalogRows

\* A run creates a product.
LEMMA CreateProductKeeps == ASSUME CatalogInv, NEW s \in Setups, CreateProduct(s) PROVE CatalogInv'
<1> DEFINE n == [id |-> made', item |-> Item(s), shown |-> FALSE]
           row == [setup[s] EXCEPT !.at = "list", !.product = made']
<1>1. /\ setup[s] \in RunRows /\ setup[s].item \in 1..Len(Order) /\ Item(s) \in Items
      /\ CatalogRows /\ Dated(prices, products, made) /\ RunInv(prices, products, setup[s])
  BY OrderFacts DEF CatalogInv, CatalogRows, RunRows, Item
<1>2. /\ setup[s].at = "create" /\ made < MaxMade /\ made' = made + 1 /\ products' = products \cup {n}
      /\ setup' = [setup EXCEPT ![s] = row]
      /\ UNCHANGED <<prices, endpoints, tariff, idsFile, muddled, starts, settled>>
  BY <1>1 DEF CreateProduct, CatalogRows, RunRows
<1>3. made \in Nat /\ made' \in 1..MaxMade /\ made' \in 0..MaxMade /\ ~(made' <= made)
  BY <1>1, <1>2, OneMore
<1>4. /\ row \in RunRows /\ row.at = "list" /\ row.item = setup[s].item /\ row.ids = setup[s].ids
      /\ row.product = made'
  BY <1>1, <1>3 DEF RunRows, Working
<1>5. n \in ProductRows /\ n.id = made' /\ n.item = Item(s)
  BY <1>1, <1>3 DEF ProductRows
<1> HIDE DEF row, n
<1>6. Growth(prices, products, prices', products', made)
  BY <1>2, <1>3, <1>5 DEF Growth, SameCore
<1>7. products \subseteq ProductRows /\ prices \subseteq PriceRows
  BY <1>1 DEF CatalogRows
<1>8. Dated(prices', products', made')
  <2>1. \A q \in products : q.id <= made /\ q.id \in Nat
    BY <1>1, <1>7 DEF Dated, ProductRows
  <2>2. \A p \in prices : p.id <= made /\ p.product <= made /\ p.id \in Nat /\ p.product \in Nat
    BY <1>1, <1>7 DEF Dated, PriceRows
  <2>3. \A q \in products' : q.id <= made'
    BY <1>2, <1>3, <1>5, <2>1
  <2>4. \A p, q \in products' : p.id = q.id => p = q
    BY <1>1, <1>2, <1>3, <1>5, <2>1 DEF Dated
  <2>5. \A p \in prices' : p.id <= made' /\ p.product <= made'
    BY <1>2, <1>3, <2>2
  <2>6. \A p, q \in prices' : p.id = q.id => p = q
    BY <1>1, <1>2 DEF Dated
  <2> QED
    BY <2>3, <2>4, <2>5, <2>6 DEF Dated
<1>9. RunInv(prices', products', row)
  <2>1. RunInv(prices', products', setup[s])
    BY <1>1, <1>6, GrownRun
  <2>2. SoldAs(products', row.product, Order[row.item])
    BY <1>2, <1>4, <1>5 DEF SoldAs, Item
  <2>3. Gathered(prices', products', row)
    BY <1>2, <1>4, <2>1 DEF RunInv, Gathered, InPlace, Working
  <2> QED
    BY <1>2, <1>4, <2>1, <2>2, <2>3 DEF RunInv, Priceless
<1>10. /\ setup' \in [Setups -> RunRows]
       /\ \A t \in Setups : RunInv(prices', products', setup'[t])
  BY <1>2, <1>4, <1>6, <1>9, OneRun
<1>11. CatalogRows'
  BY <1>1, <1>2, <1>3, <1>5, <1>10 DEF CatalogRows
<1>12. FileInv(prices', products', idsFile')
  BY <1>2, <1>6, GrownFile
<1>13. ASSUME ~muddled'
       PROVE  /\ Tidy(prices', products', endpoints', tariff', settled', idsFile')
              /\ AloneInv(prices', products', endpoints', tariff', row)
              /\ settled' => row.ids \subseteq idsFile'.ids
  <2>1. /\ AloneInv(prices, products, endpoints, tariff, setup[s]) /\ (settled => setup[s].ids \subseteq idsFile.ids)
        /\ Tidy(prices, products, endpoints, tariff, settled, idsFile)
    BY <1>2, <1>13 DEF CatalogInv, OrderlyInv
  <2>2. \A q \in products : q.item # Item(s)
    BY <1>2, <2>1 DEF AloneInv, Item
  <2>3. \A p, q \in products' : p.item = q.item => p = q
    BY <1>2, <1>5, <2>1, <2>2 DEF Tidy
  <2>4. Tidy(prices', products', endpoints', tariff', settled', idsFile')
    BY <1>2, <2>1, <2>3 DEF Tidy
  <2>5. AloneInv(prices', products', endpoints', tariff', row)
    BY <1>2, <1>4, <2>1 DEF AloneInv
  <2> QED
    BY <1>2, <1>4, <2>1, <2>4, <2>5
<1>14. OrderlyInv'
  BY <1>2, <1>4, <1>13, OrderlyRun
<1> QED
  BY <1>8, <1>10, <1>11, <1>12, <1>14 DEF CatalogInv

\* A run creates a price.
LEMMA CreatePriceKeeps ==
    ASSUME CatalogInv, NEW s \in Setups, NEW kind \in Kinds, CreatePrice(s, kind) PROVE CatalogInv'
<1> DEFINE n == [id |-> made', product |-> setup[s].product, kind |-> kind, amount |-> tariff, active |-> TRUE]
           row == [setup[s] EXCEPT !.ids = setup[s].ids \cup {made'}]
<1>1. /\ setup[s] \in RunRows /\ CatalogRows /\ Dated(prices, products, made)
      /\ RunInv(prices, products, setup[s])
  BY DEF CatalogInv, CatalogRows
<1>2. /\ setup[s].at = "price" /\ kind \in KindsOf[Item(s)] \ Priced(s)
      /\ Fitting(s, kind, setup[s].seen) = {} /\ made < MaxMade /\ made' = made + 1
      /\ prices' = prices \cup {n} /\ setup' = [setup EXCEPT ![s] = row]
      /\ UNCHANGED <<products, endpoints, tariff, idsFile, muddled, starts, settled>>
  BY <1>1 DEF CreatePrice, CatalogRows, RunRows
<1>3. made \in Nat /\ made' \in 1..MaxMade /\ made' \in 0..MaxMade /\ ~(made' <= made)
  BY <1>1, <1>2, OneMore
<1>4. products \subseteq ProductRows /\ prices \subseteq PriceRows /\ tariff \in 1..MaxTariff
  BY <1>1 DEF CatalogRows
<1>5. setup[s].product \in 1..MaxMade /\ setup[s].product <= made
  <2>1. PICK q \in products : q.id = setup[s].product
    BY <1>1, <1>2 DEF RunInv, SoldAs
  <2> QED
    BY <1>1, <1>4, <2>1 DEF Dated, ProductRows
<1>6. /\ n \in PriceRows /\ n.id = made' /\ n.product = setup[s].product /\ n.kind = kind /\ n.amount = tariff
      /\ n.active
  BY <1>3, <1>4, <1>5 DEF PriceRows
<1>7. /\ row \in RunRows /\ row.at = "price" /\ row.item = setup[s].item /\ row.product = setup[s].product
      /\ row.seen = setup[s].seen /\ row.ids = setup[s].ids \cup {made'}
  BY <1>1, <1>2, <1>3 DEF RunRows
<1>8. row = [setup[s] EXCEPT !.ids = setup[s].ids \cup {n.id}]
  BY <1>6
<1> HIDE DEF row, n
<1>9. Growth(prices, products, prices', products', made)
  BY <1>2, <1>3, <1>6 DEF Growth, SameCore
<1>10. \A p \in prices : p.id <= made /\ p.product <= made /\ p.id \in Nat /\ p.product \in Nat
  BY <1>1, <1>4 DEF Dated, PriceRows
<1>11. Dated(prices', products', made')
  <2>1. \A q \in products' : q.id <= made'
    <3>1. \A q \in products : q.id <= made /\ q.id \in Nat
      BY <1>1, <1>4 DEF Dated, ProductRows
    <3> QED
      BY <1>2, <1>3, <3>1
  <2>2. \A p, q \in products' : p.id = q.id => p = q
    BY <1>1, <1>2 DEF Dated
  <2>3. \A p \in prices' : p.id <= made' /\ p.product <= made'
    BY <1>2, <1>3, <1>5, <1>6, <1>10
  <2>4. \A p, q \in prices' : p.id = q.id => p = q
    BY <1>1, <1>2, <1>3, <1>6, <1>10 DEF Dated
  <2> QED
    BY <2>1, <2>2, <2>3, <2>4 DEF Dated
<1>12. made' \notin setup[s].ids
  BY <1>1, <1>3, <1>10 DEF RunInv, IdsOf
<1>13. RunInv(prices', products', row)
  <2>1. RunInv(prices', products', setup[s])
    BY <1>1, <1>9, GrownRun
  <2>2. \A p \in prices' : p.id \in setup[s].ids /\ p.product = setup[s].product => p.kind # n.kind
    BY <1>2, <1>6, <1>12 DEF Priced
  <2>3. n \in prices' /\ n.product = setup[s].product
    BY <1>2, <1>6
  <2> QED
    BY <1>1, <1>2, <1>7, <1>8, <1>11, <2>1, <2>2, <2>3, AddPrice
<1>14. /\ setup' \in [Setups -> RunRows]
       /\ \A t \in Setups : RunInv(prices', products', setup'[t])
  BY <1>2, <1>7, <1>9, <1>13, OneRun
<1>15. CatalogRows'
  BY <1>1, <1>2, <1>3, <1>6, <1>14 DEF CatalogRows
<1>16. FileInv(prices', products', idsFile')
  BY <1>2, <1>9, GrownFile
<1>17. ASSUME ~muddled'
       PROVE  /\ Tidy(prices', products', endpoints', tariff', settled', idsFile')
              /\ AloneInv(prices', products', endpoints', tariff', row)
              /\ settled' => row.ids \subseteq idsFile'.ids
  <2>1. /\ AloneInv(prices, products, endpoints, tariff, setup[s])
        /\ Tidy(prices, products, endpoints, tariff, settled, idsFile)
    BY <1>2, <1>17 DEF CatalogInv, OrderlyInv
  <2>2. \A p \in prices : ~(p.active /\ p.product = setup[s].product /\ p.kind = kind /\ p.amount = tariff)
    <3> SUFFICES ASSUME NEW p \in prices, p.active, p.product = setup[s].product, p.kind = kind, p.amount = tariff
                 PROVE  FALSE
      OBVIOUS
    <3>1. p \in setup[s].seen \/ p.id \in setup[s].ids
      BY <1>2, <2>1 DEF AloneInv
    <3>2. CASE p \in setup[s].seen
      BY <1>2, <3>2 DEF Fitting
    <3>3. CASE p.id \in setup[s].ids
      BY <1>2, <3>3 DEF Priced
    <3> QED
      BY <3>1, <3>2, <3>3
  <2>3. ~settled
    BY <1>2, <1>17, <2>2, FoundAgain
  <2>4. \A p, q \in prices' : p.active /\ q.active /\ SameTerms(p, q) => p = q
    BY <1>2, <1>6, <2>1, <2>2 DEF Tidy, SameTerms
  <2>5. Tidy(prices', products', endpoints', tariff', settled', idsFile')
    BY <1>2, <2>1, <2>3, <2>4 DEF Tidy
  <2>6. AloneInv(prices', products', endpoints', tariff', row)
    <3>1. \A p \in prices' : p.id = made' => p = n
      BY <1>2, <1>3, <1>6, <1>10
    <3>2. \A p \in prices' : p.id \in row.ids => p.active /\ p.amount = tariff'
      BY <1>2, <1>6, <1>7, <2>1, <3>1 DEF AloneInv
    <3>3. \A p \in row.seen : p \in prices' /\ p.active
      BY <1>2, <1>7, <2>1 DEF AloneInv
    <3>4. \A p \in prices' : p.active /\ p.product = row.product => p \in row.seen \/ p.id \in row.ids
      BY <1>2, <1>6, <1>7, <2>1 DEF AloneInv
    <3> QED
      BY <1>7, <3>2, <3>3, <3>4 DEF AloneInv
  <2> QED
    BY <1>2, <2>3, <2>5, <2>6
<1>18. OrderlyInv'
  BY <1>2, <1>7, <1>17, OrderlyRun
<1> QED
  BY <1>11, <1>14, <1>15, <1>16, <1>18 DEF CatalogInv

\* A run past its prices, where it stands, keeps what it held.
LEMMA PastPrices ==
    ASSUME NEW P, NEW Q, NEW r, RunInv(P, Q, r), r.at \in Priceless, NEW row, row.at \in Priceless,
           row.item = r.item, row.ids = r.ids
    PROVE  RunInv(P, Q, row)
<1>1. Gathered(P, Q, row)
  BY DEF RunInv, Gathered, InPlace, Working, Priceless
<1> QED
  BY <1>1 DEF RunInv, Priceless

\* A run creates the endpoint.
LEMMA CreateEndpointKeeps == ASSUME CatalogInv, NEW s \in Setups, CreateEndpoint(s) PROVE CatalogInv'
<1> DEFINE row == [setup[s] EXCEPT !.at = "write"]
<1>1. /\ setup[s] \in RunRows /\ CatalogRows /\ Dated(prices, products, made)
      /\ RunInv(prices, products, setup[s])
  BY DEF CatalogInv, CatalogRows
<1>2. /\ setup[s].at = "enable" /\ made < MaxMade /\ made' = made + 1 /\ endpoints' = endpoints \cup {made'}
      /\ setup' = [setup EXCEPT ![s] = row]
      /\ UNCHANGED <<products, prices, tariff, idsFile, muddled, starts, settled>>
  BY <1>1 DEF CreateEndpoint, CatalogRows, RunRows
<1>3. made \in Nat /\ made' \in 1..MaxMade /\ made' \in 0..MaxMade /\ ~(made' <= made)
  BY <1>1, <1>2, OneMore
<1>4. row \in RunRows /\ row.at = "write" /\ row.item = setup[s].item /\ row.ids = setup[s].ids
  BY <1>1 DEF RunRows, Priceless
<1> HIDE DEF row
<1>5. Growth(prices, products, prices', products', made)
  BY <1>2, NoGrowth
<1>6. RunInv(prices', products', row)
  BY <1>1, <1>2, <1>4, PastPrices DEF Priceless
<1>7. Dated(prices', products', made')
  <2>1. \A q \in products : q.id <= made' /\ \A p \in prices : p.id <= made' /\ p.product <= made'
    BY <1>1, <1>2, <1>3 DEF Dated, CatalogRows, ProductRows, PriceRows
  <2>2. \A p \in prices : p.id <= made' /\ p.product <= made'
    BY <1>1, <1>2, <1>3 DEF Dated, CatalogRows, ProductRows, PriceRows
  <2> QED
    BY <1>1, <1>2, <2>1, <2>2 DEF Dated
<1>8. /\ setup' \in [Setups -> RunRows]
      /\ \A t \in Setups : RunInv(prices', products', setup'[t])
  BY <1>2, <1>4, <1>5, <1>6, OneRun
<1>9. CatalogRows' /\ FileInv(prices', products', idsFile')
  BY <1>1, <1>2, <1>3, <1>5, <1>8, GrownFile DEF CatalogRows
<1>10. ASSUME ~muddled'
       PROVE  /\ Tidy(prices', products', endpoints', tariff', settled', idsFile')
              /\ AloneInv(prices', products', endpoints', tariff', row)
              /\ settled' => row.ids \subseteq idsFile'.ids
  <2>1. /\ AloneInv(prices, products, endpoints, tariff, setup[s]) /\ (settled => setup[s].ids \subseteq idsFile.ids)
        /\ Tidy(prices, products, endpoints, tariff, settled, idsFile)
    BY <1>2, <1>10 DEF CatalogInv, OrderlyInv
  <2>2. endpoints' = {made'}
    BY <1>2, <2>1 DEF AloneInv
  <2>3. Tidy(prices', products', endpoints', tariff', settled', idsFile')
    BY <1>2, <2>1, <2>2 DEF Tidy
  <2> QED
    BY <1>2, <1>4, <2>1, <2>3 DEF AloneInv
<1>11. OrderlyInv'
  BY <1>2, <1>4, <1>10, OrderlyRun
<1> QED
  BY <1>7, <1>8, <1>9, <1>11 DEF CatalogInv

\* A run opens the file, which empties it.
LEMMA OpenFileKeeps == ASSUME CatalogInv, NEW s \in Setups, OpenFile(s) PROVE CatalogInv'
<1> DEFINE row == [setup[s] EXCEPT !.at = "dump"]
<1>1. /\ setup[s] \in RunRows /\ CatalogRows /\ Dated(prices, products, made)
      /\ RunInv(prices, products, setup[s])
  BY DEF CatalogInv, CatalogRows
<1>2. /\ setup[s].at = "write" /\ idsFile' = NoFile /\ settled' = FALSE /\ setup' = [setup EXCEPT ![s] = row]
      /\ UNCHANGED <<products, prices, endpoints, made, tariff, muddled, starts>>
  BY <1>1 DEF OpenFile, CatalogRows, RunRows
<1>3. row \in RunRows /\ row.at = "dump" /\ row.item = setup[s].item /\ row.ids = setup[s].ids
  BY <1>1 DEF RunRows, Priceless
<1> HIDE DEF row
<1>4. Growth(prices, products, prices', products', made)
  BY <1>2, NoGrowth
<1>5. RunInv(prices', products', row)
  BY <1>1, <1>2, <1>3, PastPrices DEF Priceless
<1>6. /\ setup' \in [Setups -> RunRows]
      /\ \A t \in Setups : RunInv(prices', products', setup'[t])
  BY <1>2, <1>3, <1>4, <1>5, OneRun
<1>7. CatalogRows' /\ Dated(prices', products', made')
  BY <1>1, <1>2, <1>6 DEF CatalogRows
<1>8. FileInv(prices', products', idsFile')
  BY <1>2 DEF FileInv, NoFile
<1>9. ASSUME ~muddled'
      PROVE  /\ Tidy(prices', products', endpoints', tariff', settled', idsFile')
             /\ AloneInv(prices', products', endpoints', tariff', row)
  <2>1. /\ AloneInv(prices, products, endpoints, tariff, setup[s])
        /\ Tidy(prices, products, endpoints, tariff, settled, idsFile)
    BY <1>2, <1>9 DEF CatalogInv, OrderlyInv
  <2> QED
    BY <1>2, <1>3, <2>1 DEF Tidy, AloneInv
<1>10. OrderlyInv'
  BY <1>2, <1>3, <1>9, OrderlyRun
<1> QED
  BY <1>6, <1>7, <1>8, <1>10 DEF CatalogInv

\* A run writes the ids.
LEMMA WriteIdsKeeps == ASSUME CatalogInv, NEW s \in Setups, WriteIds(s) PROVE CatalogInv'
<1>1. /\ setup[s] \in RunRows /\ CatalogRows /\ Dated(prices, products, made)
      /\ RunInv(prices, products, setup[s])
  BY DEF CatalogInv, CatalogRows
<1>2. /\ setup[s].at = "dump" /\ idsFile' = [ids |-> setup[s].ids, tariff |-> tariff] /\ settled' = TRUE
      /\ setup' = [setup EXCEPT ![s] = NotRunning]
      /\ UNCHANGED <<products, prices, endpoints, made, tariff, muddled, starts>>
  BY DEF WriteIds
<1>3. Growth(prices, products, prices', products', made)
  BY <1>2, NoGrowth
<1>4. RunInv(prices', products', NotRunning) /\ NotRunning \in RunRows
  BY RestingRow, IdleRun
<1>5. /\ setup' \in [Setups -> RunRows]
      /\ \A t \in Setups : RunInv(prices', products', setup'[t])
  BY <1>2, <1>3, <1>4, OneRun
<1>6. CatalogRows' /\ Dated(prices', products', made')
  BY <1>1, <1>2, <1>5 DEF CatalogRows
<1>7. FileInv(prices', products', idsFile')
  <2>1. idsFile'.ids = setup[s].ids /\ setup[s].ids \in SUBSET (1..MaxMade) /\ setup[s].ids \subseteq IdsOf(prices)
    BY <1>1, <1>2 DEF RunRows, RunInv
  <2>2. \A i \in Items : AllPriced(prices, products, setup[s].ids, i)
    BY <1>1, <1>2, OrderFacts DEF RunInv, Priceless
  <2>3. OnePrice(prices, products, setup[s].ids)
    BY <1>1 DEF RunInv
  <2> QED
    BY <1>2, <2>1, <2>2, <2>3 DEF FileInv
<1>8. idsFile' # NoFile
  BY <1>1, <1>2 DEF NoFile, CatalogRows
<1>9. ASSUME ~muddled'
      PROVE  /\ Tidy(prices', products', endpoints', tariff', settled', idsFile')
             /\ AloneInv(prices', products', endpoints', tariff', NotRunning)
             /\ NotRunning.ids \subseteq idsFile'.ids
  <2>1. /\ AloneInv(prices, products, endpoints, tariff, setup[s])
        /\ Tidy(prices, products, endpoints, tariff, settled, idsFile)
    BY <1>2, <1>9 DEF CatalogInv, OrderlyInv
  <2>2. \A p \in prices : p.id \in idsFile'.ids => p.active /\ p.amount = tariff
    BY <1>2, <2>1 DEF AloneInv
  <2> QED
    BY <1>2, <1>8, <2>1, <2>2, RestingRow DEF Tidy, AloneInv
<1>10. OrderlyInv'
  BY <1>2, <1>4, <1>9, OrderlyRun
<1> QED
  BY <1>5, <1>6, <1>7, <1>10 DEF CatalogInv

\* What a step of Stripe or its owner leaves of the runs.
LEMMA AllRuns ==
    ASSUME CatalogInv, Growth(prices, products, prices', products', made), UNCHANGED setup
    PROVE  \A t \in Setups : RunInv(prices', products', setup'[t])
BY GrownRun DEF CatalogInv, CatalogRows

\* Stripe's search catches up.
LEMMA ShownKeeps == ASSUME CatalogInv, SearchCatchesUp PROVE CatalogInv'
<1>1. /\ products' = {[p EXCEPT !.shown = TRUE] : p \in products}
      /\ UNCHANGED <<prices, endpoints, made, tariff, setup, idsFile, muddled, starts, settled>>
  BY DEF SearchCatchesUp
<1>2. products \subseteq ProductRows /\ Dated(prices, products, made) /\ CatalogRows
  BY DEF CatalogInv, CatalogRows
<1>3. ASSUME NEW p \in products
      PROVE  \E q \in products' : q \in ProductRows /\ q.id = p.id /\ q.item = p.item
  <2> DEFINE q == [p EXCEPT !.shown = TRUE]
  <2>1. q \in ProductRows /\ q.id = p.id /\ q.item = p.item
    BY <1>2 DEF ProductRows
  <2>2. q \in products'
    BY <1>1
  <2> QED
    BY <2>1, <2>2
<1>4. \A q \in products' : \E p \in products : /\ q = [p EXCEPT !.shown = TRUE] /\ q \in ProductRows
                                             /\ q.id = p.id /\ q.item = p.item
  <2> SUFFICES ASSUME NEW q \in products'
               PROVE  \E p \in products : /\ q = [p EXCEPT !.shown = TRUE] /\ q \in ProductRows
                                          /\ q.id = p.id /\ q.item = p.item
    OBVIOUS
  <2>1. PICK p \in products : q = [p EXCEPT !.shown = TRUE]
    BY <1>1
  <2> QED
    BY <1>2, <2>1 DEF ProductRows
<1>5. Growth(prices, products, prices', products', made)
  BY <1>1, <1>3, <1>4 DEF Growth, SameCore
<1>6. Dated(prices', products', made')
  <2>2. ASSUME NEW p \in products', NEW q \in products', p.id = q.id PROVE p = q
    <3>1. PICK a \in products : p = [a EXCEPT !.shown = TRUE] /\ p.id = a.id
      BY <1>4
    <3>2. PICK b \in products : q = [b EXCEPT !.shown = TRUE] /\ q.id = b.id
      BY <1>4
    <3>3. a = b
      BY <1>2, <2>2, <3>1, <3>2 DEF Dated
    <3> QED
      BY <3>1, <3>2, <3>3
  <2>3. \A q \in products' : q.id <= made'
    BY <1>1, <1>2, <1>4 DEF Dated
  <2> QED
    BY <1>1, <1>2, <2>2, <2>3 DEF Dated
<1>7. CatalogRows'
  BY <1>1, <1>2, <1>4 DEF CatalogRows
<1>8. FileInv(prices', products', idsFile')
  BY <1>1, <1>5, GrownFile
<1>9. OrderlyInv'
  <2> SUFFICES ASSUME ~muddled' PROVE OrderlyInv'
    BY DEF OrderlyInv
  <2>1. /\ \A t \in Setups : AloneInv(prices, products, endpoints, tariff, setup[t])
        /\ Tidy(prices, products, endpoints, tariff, settled, idsFile)
        /\ \A s, t \in Setups : setup[s].at # "off" /\ setup[t].at # "off" => s = t
        /\ settled => \A t \in Setups : setup[t].ids \subseteq idsFile.ids
    BY <1>1 DEF CatalogInv, OrderlyInv
  <2>2. ASSUME NEW p \in products', NEW q \in products', p.item = q.item PROVE p = q
    <3>1. PICK a \in products : p = [a EXCEPT !.shown = TRUE] /\ p.item = a.item
      BY <1>4
    <3>2. PICK b \in products : q = [b EXCEPT !.shown = TRUE] /\ q.item = b.item
      BY <1>4
    <3>3. a = b
      BY <2>1, <2>2, <3>1, <3>2 DEF Tidy
    <3> QED
      BY <3>1, <3>2, <3>3
  <2>3. Tidy(prices', products', endpoints', tariff', settled', idsFile')
    BY <1>1, <2>1, <2>2 DEF Tidy
  <2>4. \A t \in Setups : AloneInv(prices', products', endpoints', tariff', setup'[t])
    BY <1>1, <1>4, <2>1 DEF AloneInv
  <2> QED
    BY <1>1, <2>1, <2>3, <2>4 DEF OrderlyInv
<1>10. \A t \in Setups : RunInv(prices', products', setup'[t])
  BY <1>1, <1>5, AllRuns
<1> QED
  BY <1>6, <1>7, <1>8, <1>9, <1>10 DEF CatalogInv

\* The tariff is edited.
LEMMA TariffKeeps == ASSUME CatalogInv, EditTariff PROVE CatalogInv'
<1>1. /\ tariff < MaxTariff /\ \A s \in Setups : setup[s].at = "off"
      /\ tariff' = tariff + 1 /\ settled' = FALSE
      /\ UNCHANGED <<products, prices, endpoints, made, setup, idsFile, muddled, starts>>
  BY DEF EditTariff
<1>2. CatalogRows'
  <2>1. tariff' \in 1..MaxTariff
    BY <1>1, StripeCatalogAssumption DEF CatalogInv, CatalogRows
  <2> QED
    BY <1>1, <2>1 DEF CatalogInv, CatalogRows
<1>3. \A s \in Setups : setup[s].at = "off" /\ setup[s].ids = {}
  BY <1>1 DEF CatalogInv, RunInv
<1>4. OrderlyInv'
  BY <1>1, <1>3 DEF CatalogInv, OrderlyInv, Tidy, AloneInv
<1> QED
  BY <1>1, <1>2, <1>4 DEF CatalogInv

\* A price is archived.
LEMMA ArchiveKeeps == ASSUME CatalogInv, ArchivePrice PROVE CatalogInv'
<1>1. /\ settled' = FALSE /\ muddled' = (muddled \/ \E s \in Setups : setup[s].at # "off")
      /\ UNCHANGED <<products, endpoints, made, tariff, setup, idsFile, starts>>
  BY DEF ArchivePrice
<1>2. PICK p \in prices : prices' = (prices \ {p}) \cup {[p EXCEPT !.active = FALSE]}
  BY DEF ArchivePrice
<1> DEFINE n == [p EXCEPT !.active = FALSE]
<1>3. prices \subseteq PriceRows /\ Dated(prices, products, made) /\ CatalogRows
  BY DEF CatalogInv, CatalogRows
<1>4. n \in PriceRows /\ SameCore(p, n) /\ n.active = FALSE
  BY <1>2, <1>3 DEF PriceRows, SameCore
<1>5. prices' = (prices \ {p}) \cup {n}
  BY <1>2
<1> HIDE DEF n
<1>6. Growth(prices, products, prices', products', made)
  BY <1>1, <1>4, <1>5 DEF Growth, SameCore
<1>7. Dated(prices', products', made')
  BY <1>1, <1>3, <1>4, <1>5 DEF Dated, SameCore
<1>8. CatalogRows'
  <2>1. prices' \subseteq PriceRows /\ muddled' \in BOOLEAN
    BY <1>1, <1>3, <1>4, <1>5 DEF CatalogRows
  <2> QED
    BY <1>1, <1>3, <2>1 DEF CatalogRows
<1>9. FileInv(prices', products', idsFile')
  BY <1>1, <1>6, GrownFile
<1>10. \A t \in Setups : RunInv(prices', products', setup'[t])
  BY <1>1, <1>6, AllRuns
<1>11. OrderlyInv'
  <2> SUFFICES ASSUME ~muddled' PROVE OrderlyInv'
    BY DEF OrderlyInv
  <2>1. ~muddled /\ \A s \in Setups : setup[s].at = "off" /\ setup[s].ids = {}
    BY <1>1 DEF CatalogInv, RunInv
  <2>2. \A q, r \in prices' : q.active /\ r.active /\ SameTerms(q, r) => q = r
    BY <1>4, <1>5, <2>1 DEF CatalogInv, OrderlyInv, Tidy
  <2>3. Tidy(prices', products', endpoints', tariff', settled', idsFile')
    BY <1>1, <2>1, <2>2 DEF CatalogInv, OrderlyInv, Tidy
  <2> QED
    BY <1>1, <2>1, <2>3 DEF OrderlyInv, AloneInv
<1> QED
  BY <1>7, <1>8, <1>9, <1>10, <1>11 DEF CatalogInv

\* Every step of the setup, of Stripe and of the operator keeps the invariant.
LEMMA NextCatalog == ASSUME CatalogInv, [CatalogNext]_catalogVars PROVE CatalogInv'
<1>1. ASSUME NEW s \in Setups,
             \/ StartSetup(s) \/ SearchProduct(s) \/ CreateProduct(s) \/ ListPrices(s) \/ NextItem(s)
             \/ FindEndpoint(s) \/ CreateEndpoint(s) \/ OpenFile(s) \/ WriteIds(s) \/ SetupDies(s)
      PROVE  CatalogInv'
  BY <1>1, StartKeepsCatalog, SearchKeeps, CreateProductKeeps, ListKeeps, NextItemKeeps, FindKeeps,
     CreateEndpointKeeps, OpenFileKeeps, WriteIdsKeeps, DieKeepsCatalog
<1>2. ASSUME NEW s \in Setups, NEW kind \in Kinds, TakePrice(s, kind) \/ CreatePrice(s, kind) PROVE CatalogInv'
  BY <1>2, TakeKeeps, CreatePriceKeeps
<1>3. CASE SearchCatchesUp \/ EditTariff \/ ArchivePrice
  BY <1>3, ShownKeeps, TariffKeeps, ArchiveKeeps
<1>4. CASE UNCHANGED catalogVars
  BY <1>4 DEF catalogVars, CatalogInv, CatalogRows, OrderlyInv
<1> QED
  BY <1>1, <1>2, <1>3, <1>4 DEF CatalogNext

\* The invariant gives the type.
LEMMA CatalogTypes == ASSUME CatalogInv PROVE CatalogTypeOK
<1>1. /\ products \subseteq ProductRows /\ prices \subseteq PriceRows
      /\ endpoints \subseteq 1..MaxMade /\ made \in 0..MaxMade /\ tariff \in 1..MaxTariff
      /\ starts \in 0..MaxStarts /\ muddled \in BOOLEAN /\ settled \in BOOLEAN
      /\ \A s \in Setups : setup[s].ids \subseteq IdsOf(prices)
  BY DEF CatalogInv, CatalogRows, RunInv
<1>2. ASSUME idsFile # NoFile, NEW i \in Items, NEW kind \in KindsOf[i]
      PROVE  Cardinality({p \in prices : /\ p.id \in idsFile.ids /\ p.kind = kind
                                         /\ \E q \in products : q.id = p.product /\ q.item = i}) = 1
  <2> DEFINE Of == {p \in prices : /\ p.id \in idsFile.ids /\ p.kind = kind
                                   /\ \E q \in products : q.id = p.product /\ q.item = i}
  <2>1. OnePrice(prices, products, idsFile.ids) /\ AllPriced(prices, products, idsFile.ids, i)
    BY <1>2 DEF CatalogInv, FileInv
  <2>2. PICK p \in prices : p.id \in idsFile.ids /\ p.kind = kind /\ SoldAs(products, p.product, i)
    BY <2>1 DEF AllPriced
  <2>3. p \in Of
    BY <2>2 DEF SoldAs
  <2>4. \A q \in Of : q = p
    <3> SUFFICES ASSUME NEW q \in Of PROVE q = p
      OBVIOUS
    <3>1. q \in prices /\ q.id \in idsFile.ids /\ q.kind = kind /\ SoldAs(products, q.product, i)
      BY DEF SoldAs
    <3>2. p.id = q.id
      BY <2>1, <2>2, <3>1 DEF OnePrice
    <3> QED
      BY <3>1, <3>2 DEF CatalogInv, Dated
  <2>5. Of = {p}
    BY <2>3, <2>4
  <2> HIDE DEF Of
  <2>6. Cardinality(Of) = 1
    BY <2>5, FS_Singleton
  <2> QED
    BY <2>6 DEF Of
<1> QED
  BY <1>1, <1>2 DEF CatalogTypeOK, ProductRows, PriceRows, IdsOf

\* The invariant gives the property of the run.
LEMMA CatalogRepeats == ASSUME CatalogInv PROVE SetupRepeats
<1> SUFFICES ASSUME ~muddled
             PROVE  /\ \A p, q \in products : p.item = q.item => p = q
                    /\ \A p, q \in {r \in prices : r.active} :
                         p.product = q.product /\ p.kind = q.kind /\ p.amount = q.amount => p = q
                    /\ Cardinality(endpoints) <= 1
                    /\ settled => \A s \in Setups : setup[s].ids \subseteq idsFile.ids
  BY DEF SetupRepeats
<1>1. /\ Tidy(prices, products, endpoints, tariff, settled, idsFile)
      /\ settled => \A s \in Setups : setup[s].ids \subseteq idsFile.ids
  BY DEF CatalogInv, OrderlyInv
<1>2. Cardinality(endpoints) <= 1
  <2>1. CASE endpoints = {}
    BY <2>1, FS_EmptySet
  <2>2. CASE \E e \in endpoints : endpoints = {e}
    <3>1. PICK e \in endpoints : endpoints = {e}
      BY <2>2
    <3>2. Cardinality({e}) = 1
      BY FS_Singleton
    <3> QED
      BY <3>1, <3>2
  <2> QED
    BY <1>1, <2>1, <2>2 DEF Tidy
<1> QED
  BY <1>1, <1>2 DEF Tidy, SameTerms

-----------------------------------------------------------------------------
(* ProxyFetch: the turns of the proxies and the addresses asked for.            *)

\* The remainder of a multiple and a rest.
LEMMA RemainderIs ==
    ASSUME NEW n \in Nat \ {0}, NEW q \in Int, NEW r \in 0..(n - 1)
    PROVE  (n * q + r) % n = r
OBVIOUS

\* The remainder of a number below the modulus.
LEMMA SmallRemainder == ASSUME NEW n \in Nat \ {0}, NEW x \in 0..(n - 1) PROVE x % n = x
OBVIOUS

\* The index goes on by one, from the last place to the first.
LEMMA NextRemainder ==
    ASSUME NEW n \in Nat \ {0}, NEW x \in Nat
    PROVE  /\ (x % n) \in 0..(n - 1)
           /\ (x + 1) % n = IF (x % n) + 1 < n THEN (x % n) + 1 ELSE 0
<1>1. PICK q, r : q = x \div n /\ r = x % n
  OBVIOUS
<1>2. q \in Int /\ r \in 0..(n - 1) /\ x = n * q + r
  BY <1>1
<1>3. CASE r + 1 < n
  <2>1. x + 1 = n * q + (r + 1) /\ r + 1 \in 0..(n - 1)
    BY <1>2, <1>3
  <2> QED
    BY <1>1, <1>2, <1>3, <2>1, RemainderIs
<1>4. CASE ~(r + 1 < n)
  <2>1. x + 1 = n * (q + 1) + 0 /\ 0 \in 0..(n - 1) /\ q + 1 \in Int
    BY <1>2, <1>4
  <2> QED
    BY <1>1, <1>2, <1>4, <2>1, RemainderIs
<1> QED
  BY <1>3, <1>4

FetchRows == [at : {"idle", "asking", "browsing", "reading"}, via : Proxies \cup {Direct},
              address : AddressKinds, requests : 0 .. MaxRedirects + 1]

\* A place counted on from another one in a ring of n.
Wrap(x, n) == IF x < n THEN x ELSE x - n

\* The proxies given out in turn are those of consecutive places, and the index is the next.
TurnsInv ==
    /\ round.of \subseteq DOMAIN ProxyList /\ round.given \in Seq(Proxies)
    /\ Len(round.given) <= Cardinality(round.of)
    /\ round.given # <<>> => \E s \in 0 .. Cardinality(round.of) - 1 :
         /\ index = Wrap(s + Len(round.given), Cardinality(round.of))
         /\ \A k \in 1 .. Len(round.given) : \E i \in round.of :
              round.given[k] = ProxyList[i] /\ Rank(round.of, i) = Wrap(s + k - 1, Cardinality(round.of))

\* What a fetch that asks over HTTP or reads a page may be at: an address that was checked,
\* and one that was scored if it is the first.
FetchAt(row) ==
    /\ row.at \in {"asking", "reading"} => SafeUrl(row.address)
    /\ row.at = "asking" => /\ row.requests >= 1
                            /\ scoring /\ row.requests = 1 => ~Risky(row.address)

FetchInv == \A f \in Fetchers : FetchAt(fetch[f])

ProxyRows ==
    /\ stealth \in BOOLEAN /\ rotation \in BOOLEAN /\ scoring \in BOOLEAN /\ dead \subseteq Proxies
    /\ index \in 0 .. Len(ProxyList) - 1 /\ checking \in 0 .. Len(ProxyList)
    /\ fetch \in [Fetchers -> FetchRows]

ProxyInv == ProxyRows /\ TurnsInv /\ FetchInv

\* The list of proxies is not empty and names each once.
LEMMA ListFacts ==
    /\ Len(ProxyList) \in Nat \ {0} /\ DOMAIN ProxyList = 1 .. Len(ProxyList)
    /\ \A i \in DOMAIN ProxyList : ProxyList[i] \in Proxies
    /\ \A i, j \in DOMAIN ProxyList : ProxyList[i] = ProxyList[j] => i = j
<1>1. ProxyList \in Seq(Proxies) /\ IsInjective(ProxyList) /\ Len(ProxyList) > 0
  BY ProxyFetchAssumption
<1>2. Len(ProxyList) \in Nat /\ DOMAIN ProxyList = 1 .. Len(ProxyList)
  BY <1>1
<1> QED
  BY <1>1, <1>2 DEF IsInjective, Proxies

\* Sets of places can be counted.
LEMMA PlacesCounted ==
    ASSUME NEW S, S \subseteq DOMAIN ProxyList
    PROVE  Cardinality(S) \in 0 .. Len(ProxyList) /\ (S # {} => Cardinality(S) # 0)
<1>1. /\ IsFiniteSet(1 .. Len(ProxyList)) /\ Cardinality(1 .. Len(ProxyList)) = Len(ProxyList)
  <2>1. 1 \in Int /\ Len(ProxyList) \in Int /\ Len(ProxyList) >= 1
    BY ListFacts
  <2>2. /\ IsFiniteSet(1 .. Len(ProxyList))
        /\ Cardinality(1 .. Len(ProxyList)) = IF 1 > Len(ProxyList) THEN 0 ELSE Len(ProxyList) - 1 + 1
    BY <2>1, FS_Interval
  <2> QED
    BY <2>1, <2>2
<1>2. IsFiniteSet(S) /\ Cardinality(S) <= Cardinality(1 .. Len(ProxyList))
  BY <1>1, ListFacts, FS_Subset
<1>3. Cardinality(S) \in Nat
  BY <1>2, FS_CardinalityType
<1>4. S # {} => Cardinality(S) # 0
  BY <1>2, FS_EmptySet
<1> QED
  BY <1>1, <1>2, <1>3, <1>4, ListFacts

\* A proxy taken from the list is the next one of the round, or begins one.
LEMMA TurnTaken ==
    ASSUME TurnsInv, index \in Nat, Healthy # {}, NEW p, TakeTurn(p)
    PROVE  TurnsInv' /\ index' \in 0 .. Len(ProxyList) - 1
<1> DEFINE n == Cardinality(Healthy)
<1>1. Healthy \subseteq DOMAIN ProxyList
  BY DEF Healthy
<1>2. n \in Nat \ {0} /\ n <= Len(ProxyList) /\ Len(ProxyList) \in Nat
  BY <1>1, PlacesCounted, ListFacts
<1>3. PICK i \in Healthy : Rank(Healthy, i) = index % n /\ p = ProxyList[i]
  BY DEF TakeTurn
<1>4. p \in Proxies
  BY <1>1, <1>3, ListFacts
<1>5. /\ index' = (index + 1) % n
      /\ round' = [of |-> Healthy,
                   given |-> IF round.of # Healthy \/ Len(round.given) = n
                             THEN <<p>> ELSE Append(round.given, p)]
  BY DEF TakeTurn, NextIndex
<1> HIDE DEF n
<1>6. /\ (index % n) \in 0 .. n - 1
      /\ index' = IF (index % n) + 1 < n THEN (index % n) + 1 ELSE 0
  BY <1>2, <1>5, NextRemainder
<1>7. PICK x : x = index % n
  OBVIOUS
<1>8. x \in 0 .. n - 1 /\ index' = Wrap(x + 1, n) /\ index' \in 0 .. n - 1 /\ Rank(Healthy, i) = x
  BY <1>2, <1>3, <1>6, <1>7 DEF Wrap
<1>9. index' \in 0 .. Len(ProxyList) - 1
  BY <1>2, <1>8
<1>10. CASE round' = [of |-> Healthy, given |-> <<p>>]
  <2>1. /\ round'.of = Healthy /\ round'.given = <<p>> /\ Len(round'.given) = 1 /\ round'.given[1] = p
        /\ round'.given \in Seq(Proxies)
    BY <1>4, <1>10
  <2>2. x = Wrap(x + 1 - 1, n)
    BY <1>2, <1>8 DEF Wrap
  <2>3. \A k \in 1 .. Len(round'.given) : \E j \in round'.of :
          round'.given[k] = ProxyList[j] /\ Rank(round'.of, j) = Wrap(x + k - 1, n)
    <3> SUFFICES ASSUME NEW k \in 1 .. Len(round'.given)
                 PROVE  round'.given[k] = ProxyList[i] /\ Rank(round'.of, i) = Wrap(x + k - 1, n)
      BY <2>1
    <3>1. k = 1
      BY <2>1
    <3> QED
      BY <1>3, <1>8, <2>1, <2>2, <3>1
  <2>4. TurnsInv'
    BY <1>1, <1>2, <1>8, <2>1, <2>3 DEF TurnsInv, n
  <2> QED
    BY <1>9, <2>4
<1>11. CASE round.of = Healthy /\ Len(round.given) # n /\ round.given # <<>>
  <2> DEFINE m == Len(round.given)
  <2>1. round.given \in Seq(Proxies) /\ m \in 1 .. n - 1
    BY <1>2, <1>11 DEF TurnsInv, n
  <2>2. PICK s \in 0 .. n - 1 :
          /\ index = Wrap(s + m, n)
          /\ \A k \in 1 .. m : \E j \in Healthy :
               round.given[k] = ProxyList[j] /\ Rank(Healthy, j) = Wrap(s + k - 1, n)
    BY <1>11 DEF TurnsInv, n
  <2>3. /\ round'.of = Healthy /\ round'.given = Append(round.given, p)
    BY <1>5, <1>11
  <2>4. /\ round'.given \in Seq(Proxies) /\ Len(round'.given) = m + 1 /\ round'.given[m + 1] = p
        /\ \A k \in 1 .. m : round'.given[k] = round.given[k]
    BY <1>4, <2>1, <2>3
  <2> HIDE DEF m
  <2>5. x = Wrap(s + m, n)
    <3>1. index \in 0 .. n - 1
      BY <1>2, <2>1, <2>2 DEF Wrap
    <3> QED
      BY <1>2, <1>7, <2>2, <3>1, SmallRemainder
  <2>6. index' = Wrap(s + (m + 1), n)
    BY <1>2, <1>8, <2>1, <2>2, <2>5 DEF Wrap
  <2>7. \A k \in 1 .. m + 1 : \E j \in Healthy :
          round'.given[k] = ProxyList[j] /\ Rank(Healthy, j) = Wrap(s + k - 1, n)
    <3> SUFFICES ASSUME NEW k \in 1 .. m + 1
                 PROVE  \E j \in Healthy : round'.given[k] = ProxyList[j] /\ Rank(Healthy, j) = Wrap(s + k - 1, n)
      OBVIOUS
    <3>1. CASE k \in 1 .. m
      <4>1. round'.given[k] = round.given[k]
        BY <2>4, <3>1
      <4> QED
        BY <2>2, <3>1, <4>1
    <3>2. CASE k = m + 1
      <4>1. s + k - 1 = s + m
        BY <2>1, <3>2
      <4> QED
        BY <1>3, <1>8, <2>4, <2>5, <3>2, <4>1
    <3> QED
      BY <2>1, <3>1, <3>2
  <2>8. m + 1 <= n
    BY <1>2, <2>1
  <2>9. TurnsInv'
    BY <1>1, <2>2, <2>3, <2>4, <2>6, <2>7, <2>8 DEF TurnsInv, n
  <2> QED
    BY <1>9, <2>9
<1>12. CASE round.of # Healthy \/ Len(round.given) = n
  BY <1>5, <1>10, <1>12
<1>13. CASE round.of = Healthy /\ Len(round.given) # n /\ round.given = <<>>
  <2>1. Append(<<>>, p) = <<p>>
    OBVIOUS
  <2> QED
    BY <1>5, <1>10, <1>13, <2>1
<1> QED
  BY <1>11, <1>12, <1>13

\* Within a round no proxy has two turns.
LEMMA TurnsKept == ASSUME TurnsInv PROVE ProxiesTakeTurns
<1> DEFINE n == Cardinality(round.of)
<1>1. n \in Nat /\ round.of \subseteq DOMAIN ProxyList /\ round.given \in Seq(Proxies)
      /\ Len(round.given) <= n /\ Len(round.given) \in Nat /\ DOMAIN round.given = 1 .. Len(round.given)
  BY PlacesCounted DEF TurnsInv
<1> SUFFICES ASSUME NEW k \in 1 .. Len(round.given), NEW l \in 1 .. Len(round.given),
                    round.given[k] = round.given[l]
             PROVE  k = l
  BY <1>1 DEF ProxiesTakeTurns, IsInjective
<1>2. round.given # <<>>
  BY <1>1
<1>3. PICK s \in 0 .. n - 1 : \A j \in 1 .. Len(round.given) : \E i \in round.of :
        round.given[j] = ProxyList[i] /\ Rank(round.of, i) = Wrap(s + j - 1, n)
  BY <1>2 DEF TurnsInv
<1> HIDE DEF n
<1>4. PICK i \in round.of : round.given[k] = ProxyList[i] /\ Rank(round.of, i) = Wrap(s + k - 1, n)
  BY <1>3
<1>5. PICK j \in round.of : round.given[l] = ProxyList[j] /\ Rank(round.of, j) = Wrap(s + l - 1, n)
  BY <1>3
<1>6. i = j
  BY <1>1, <1>4, <1>5, ListFacts
<1>7. Wrap(s + k - 1, n) = Wrap(s + l - 1, n)
  BY <1>4, <1>5, <1>6
<1> QED
  BY <1>1, <1>7 DEF Wrap

\* The three marks of an address made up reach the threshold of the settings.
LEMMA ScoreOfThree ==
    ASSUME RiskThreshold <= 80, NEW a, {"entropy", "tld", "port"} \subseteq a.risk PROVE Risky(a)
<1>1. \A f \in {"ip", "short", "long", "queries"} : Adds(a, f) \in Nat
  BY DEF Adds, Weight
<1>2. Adds(a, "entropy") = 30 /\ Adds(a, "tld") = 20 /\ Adds(a, "port") = 30
  BY DEF Adds, Weight
<1>3. Adds(a, "ip") \in Nat /\ Adds(a, "short") \in Nat /\ Adds(a, "long") \in Nat /\ Adds(a, "queries") \in Nat
  BY <1>1
<1>4. PICK t : t = Adds(a, "ip") + Adds(a, "port") + Adds(a, "entropy") + Adds(a, "tld")
                   + Adds(a, "short") + Adds(a, "long") + Adds(a, "queries")
  OBVIOUS
<1>5. t \in Nat /\ t >= 80
  BY <1>2, <1>3, <1>4
<1>6. RiskScore(a) = IF t > 100 THEN 100 ELSE t
  BY <1>4 DEF RiskScore
<1> QED
  BY <1>5, <1>6, ProxyFetchAssumption DEF Risky

\* An address asked for is a checked one.
LEMMA AskedKept == ASSUME FetchInv, RiskThreshold <= 80 PROVE AskedIsSafe
BY ScoreOfThree DEF FetchInv, FetchAt, AskedIsSafe

\* The invariant gives the type.
LEMMA ProxyTypes == ASSUME ProxyInv PROVE ProxyTypeOK
BY DEF ProxyInv, ProxyRows, TurnsInv, FetchRows, ProxyTypeOK

\* The row of a fetcher at rest.
LEMMA UnsentRow == Unsent \in FetchRows /\ Unsent.at = "idle"
<1>1. NoAddress \in AddressKinds
  BY DEF NoAddress, AddressKinds
<1> QED
  BY <1>1, ProxyFetchAssumption DEF Unsent, FetchRows

\* In the first state nothing is fetched, and the invariant of the fetches holds.
LEMMA InitProxy == ProxyInit => ProxyInv
<1> SUFFICES ASSUME ProxyInit PROVE ProxyInv
  OBVIOUS
<1>1. ProxyRows
  BY UnsentRow, ListFacts DEF ProxyInit, ProxyRows
<1>2. TurnsInv
  <2>1. round.of = {} /\ round.given = <<>> /\ Len(round.given) = 0 /\ Cardinality(round.of) = 0
    BY FS_EmptySet DEF ProxyInit, NoRound
  <2> QED
    BY <2>1 DEF TurnsInv
<1>3. FetchInv
  BY UnsentRow DEF ProxyInit, FetchInv, FetchAt
<1> QED
  BY <1>1, <1>2, <1>3 DEF ProxyInv

\* What a step of one fetcher leaves of the others.
LEMMA OneFetcher ==
    ASSUME ProxyInv, NEW f \in Fetchers, NEW row \in FetchRows, fetch' = [fetch EXCEPT ![f] = row],
           FetchAt(row), UNCHANGED scoring
    PROVE  fetch' \in [Fetchers -> FetchRows] /\ FetchInv'
<1>1. fetch' \in [Fetchers -> FetchRows] /\ fetch'[f] = row /\ \A g \in Fetchers : g = f \/ fetch'[g] = fetch[g]
  BY DEF ProxyInv, ProxyRows
<1>2. ASSUME NEW g \in Fetchers PROVE FetchAt(fetch'[g])
  BY <1>1 DEF ProxyInv, FetchInv
<1>3. ASSUME NEW g \in Fetchers PROVE FetchAt(fetch[g])'
  BY <1>2 DEF FetchAt
<1> QED
  BY <1>1, <1>3 DEF FetchInv

\* A fetch begins.
LEMMA FetchKeeps == ASSUME ProxyInv, NEW f \in Fetchers, Fetch(f) PROVE ProxyInv'
<1>1. PICK a \in Addresses, p \in Proxies \cup {Direct} :
        /\ Admitted(a) /\ Chosen(p)
        /\ fetch' = [fetch EXCEPT ![f] = [at |-> "asking", via |-> p, address |-> a, requests |-> 1]]
  BY DEF Fetch
<1> DEFINE row == [at |-> "asking", via |-> p, address |-> a, requests |-> 1]
<1>2. row \in FetchRows /\ row.at = "asking" /\ row.address = a /\ row.requests = 1
  BY ProxyFetchAssumption DEF FetchRows
<1> HIDE DEF row
<1>3. fetch' \in [Fetchers -> FetchRows] /\ FetchInv'
  <2>1. fetch' = [fetch EXCEPT ![f] = row]
    BY <1>1 DEF row
  <2>2. FetchAt(row)
    BY <1>1, <1>2 DEF FetchAt, Admitted
  <2>3. UNCHANGED scoring
    BY DEF Fetch
  <2> QED
    BY <1>2, <2>1, <2>2, <2>3, OneFetcher
<1>4. UNCHANGED <<stealth, rotation, scoring, dead, checking>>
  BY DEF Fetch
<1>5. TurnsInv' /\ index' \in 0 .. Len(ProxyList) - 1
  <2>1. CASE Healthy # {} /\ TakeTurn(p)
    BY <2>1, TurnTaken, ListFacts DEF ProxyInv, ProxyRows
  <2>2. CASE UNCHANGED <<index, round>>
    BY <2>2 DEF ProxyInv, ProxyRows, TurnsInv
  <2> QED
    BY <1>1, <2>1, <2>2 DEF Chosen
<1> QED
  BY <1>3, <1>4, <1>5 DEF ProxyInv, ProxyRows

\* A step by which a fetch goes on or ends and no choice is made.
LEMMA FetchEnds ==
    ASSUME ProxyInv, NEW f \in Fetchers, NEW row \in FetchRows, fetch' = [fetch EXCEPT ![f] = row],
           row = Unsent \/ FetchAt(row),
           UNCHANGED <<stealth, rotation, scoring, index, checking, round>>, dead' \subseteq Proxies
    PROVE  ProxyInv'
<1>1. FetchAt(row)
  BY UnsentRow DEF FetchAt
<1>2. fetch' \in [Fetchers -> FetchRows] /\ FetchInv'
  BY <1>1, OneFetcher
<1>3. TurnsInv'
  BY DEF ProxyInv, TurnsInv
<1> QED
  BY <1>2, <1>3 DEF ProxyInv, ProxyRows

\* A page in the browser: where it goes is not checked, where it is read is.
LEMMA BrowserKeeps ==
    ASSUME ProxyInv, NEW f \in Fetchers, Browse(f) \/ PageMoves(f) \/ ReadPage(f)
    PROVE  ProxyInv'
<1>1. UNCHANGED <<stealth, rotation, scoring, dead, index, checking, round>>
  BY DEF Browse, PageMoves, ReadPage
<1>2. dead' \subseteq Proxies /\ fetch[f] \in FetchRows /\ Addresses \subseteq AddressKinds
  BY <1>1, ProxyFetchAssumption DEF ProxyInv, ProxyRows
<1>3. CASE Browse(f)
  <2>1. PICK a \in Addresses :
          fetch' = [fetch EXCEPT ![f] = [Unsent EXCEPT !.at = "browsing", !.address = a]]
    BY <1>3 DEF Browse
  <2> DEFINE row == [Unsent EXCEPT !.at = "browsing", !.address = a]
  <2>2. row \in FetchRows /\ row.at = "browsing"
    BY <1>2, UnsentRow DEF FetchRows
  <2>3. fetch' = [fetch EXCEPT ![f] = row]
    BY <2>1
  <2> HIDE DEF row
  <2>4. FetchAt(row)
    BY <2>2 DEF FetchAt
  <2> QED
    BY <1>1, <1>2, <2>2, <2>3, <2>4, FetchEnds
<1>4. CASE PageMoves(f)
  <2>1. PICK a \in Addresses : fetch' = [fetch EXCEPT ![f].address = a]
    BY <1>4 DEF PageMoves
  <2> DEFINE row == [fetch[f] EXCEPT !.address = a]
  <2>2. row \in FetchRows /\ row.at = "browsing"
    BY <1>2, <1>4 DEF PageMoves, FetchRows
  <2>3. fetch' = [fetch EXCEPT ![f] = row]
    BY <2>1
  <2> HIDE DEF row
  <2>4. FetchAt(row)
    BY <2>2 DEF FetchAt
  <2> QED
    BY <1>1, <1>2, <2>2, <2>3, <2>4, FetchEnds
<1>5. CASE ReadPage(f)
  <2>1. fetch' = [fetch EXCEPT ![f] = IF SafeUrl(fetch[f].address)
                                     THEN [fetch[f] EXCEPT !.at = "reading"] ELSE Unsent]
    BY <1>5 DEF ReadPage
  <2>2. CASE SafeUrl(fetch[f].address)
    <3> DEFINE row == [fetch[f] EXCEPT !.at = "reading"]
    <3>1. row \in FetchRows /\ row.at = "reading" /\ row.address = fetch[f].address
      BY <1>2 DEF FetchRows
    <3>2. fetch' = [fetch EXCEPT ![f] = row]
      BY <2>1, <2>2
    <3> HIDE DEF row
    <3>3. FetchAt(row)
      BY <2>2, <3>1 DEF FetchAt
    <3> QED
      BY <1>1, <1>2, <3>1, <3>2, <3>3, FetchEnds
  <2>3. CASE ~SafeUrl(fetch[f].address)
    BY <1>1, <1>2, <2>1, <2>3, UnsentRow, FetchEnds
  <2> QED
    BY <2>2, <2>3
<1> QED
  BY <1>3, <1>4, <1>5

\* Every step of the fetches and of the health check keeps the invariant.
LEMMA NextProxy == ASSUME ProxyInv, [ProxyNext]_proxyVars PROVE ProxyInv'
<1>1. ASSUME NEW f \in Fetchers, RequestFails(f) PROVE ProxyInv'
  <2>1. fetch[f] \in FetchRows
    BY DEF ProxyInv, ProxyRows
  <2>2. dead' \subseteq Proxies
    BY <1>1, <2>1 DEF RequestFails, ProxyInv, ProxyRows, FetchRows
  <2> QED
    BY <1>1, <2>2, UnsentRow, FetchEnds DEF RequestFails
<1>2. ASSUME NEW f \in Fetchers, Redirected(f) PROVE ProxyInv'
  <2>1. PICK a \in Addresses :
          fetch' = [fetch EXCEPT ![f] =
             IF Follows(a) /\ fetch[f].requests <= MaxRedirects
             THEN [fetch[f] EXCEPT !.address = a, !.requests = @ + 1] ELSE Unsent]
    BY <1>2 DEF Redirected
  <2>2. fetch[f] \in FetchRows /\ fetch[f].at = "asking" /\ fetch[f].requests >= 1 /\ fetch[f].requests \in Nat
    BY <1>2, ProxyFetchAssumption DEF Redirected, ProxyInv, ProxyRows, FetchInv, FetchAt, FetchRows
  <2>3. dead' \subseteq Proxies /\ UNCHANGED <<stealth, rotation, scoring, index, checking, round>>
    BY <1>2 DEF Redirected, ProxyInv, ProxyRows
  <2>4. CASE Follows(a) /\ fetch[f].requests <= MaxRedirects
    <3> DEFINE row == [fetch[f] EXCEPT !.address = a, !.requests = fetch[f].requests + 1]
    <3>1. row \in FetchRows /\ row.address = a /\ row.requests = fetch[f].requests + 1
      <4>1. PICK n : n = fetch[f].requests + 1
        OBVIOUS
      <4>2. a \in AddressKinds /\ n \in 0 .. MaxRedirects + 1
        BY <2>2, <2>4, <4>1, ProxyFetchAssumption
      <4>3. row = [fetch[f] EXCEPT !.address = a, !.requests = n]
        BY <4>1
      <4> HIDE DEF row
      <4> QED
        BY <2>2, <4>1, <4>2, <4>3 DEF FetchRows
    <3>2. fetch' = [fetch EXCEPT ![f] = row]
      BY <2>1, <2>4
    <3> HIDE DEF row
    <3>3. FetchAt(row)
      BY <2>2, <2>4, <3>1 DEF Follows, FetchAt
    <3> QED
      BY <2>3, <3>1, <3>2, <3>3, FetchEnds
  <2>5. CASE ~(Follows(a) /\ fetch[f].requests <= MaxRedirects)
    BY <2>1, <2>3, <2>5, UnsentRow, FetchEnds
  <2> QED
    BY <2>4, <2>5
<1>3. ASSUME NEW f \in Fetchers, EndFetch(f) PROVE ProxyInv'
  <2>1. dead' \subseteq Proxies
    BY <1>3 DEF EndFetch, ProxyInv, ProxyRows
  <2> QED
    BY <1>3, <2>1, UnsentRow, FetchEnds DEF EndFetch
<1>4. CASE WakeCheck
  BY <1>4, ListFacts DEF WakeCheck, ProxyInv, ProxyRows, TurnsInv, FetchInv, FetchAt
<1>5. CASE Checked
  <2>1. checking \in 1 .. Len(ProxyList) /\ Len(ProxyList) \in Nat
    BY <1>5, ListFacts DEF Checked, ProxyInv, ProxyRows
  <2>2. checking' \in 0 .. Len(ProxyList)
    <3>1. PICK n, x : n = Len(ProxyList) + 1 /\ x = checking + 1
      OBVIOUS
    <3>2. n \in Nat \ {0} /\ x \in Nat /\ checking' = x % n
      BY <1>5, <2>1, <3>1 DEF Checked
    <3>3. (x % n) \in 0 .. n - 1
      BY <3>2, NextRemainder
    <3> QED
      BY <2>1, <3>1, <3>2, <3>3
  <2>3. dead' \subseteq Proxies
    BY <1>5, <2>1, ListFacts DEF Checked, ProxyInv, ProxyRows
  <2>4. UNCHANGED <<stealth, rotation, scoring, index, fetch, round>>
    BY <1>5 DEF Checked
  <2>5. TurnsInv' /\ FetchInv'
    BY <2>4 DEF ProxyInv, TurnsInv, FetchInv, FetchAt
  <2> QED
    BY <2>2, <2>3, <2>4, <2>5 DEF ProxyInv, ProxyRows
<1>6. ASSUME NEW p \in Proxies, Expires(p) PROVE ProxyInv'
  BY <1>6 DEF Expires, ProxyInv, ProxyRows, TurnsInv, FetchInv, FetchAt
<1>7. CASE UNCHANGED proxyVars
  BY <1>7 DEF proxyVars, ProxyInv, ProxyRows, TurnsInv, FetchInv, FetchAt
<1> QED
  BY <1>1, <1>2, <1>3, <1>4, <1>5, <1>6, <1>7, FetchKeeps, BrowserKeeps DEF ProxyNext

-----------------------------------------------------------------------------
(* The instance.                                                             *)

\* A behaviour of the instance is one of every module: MCNext takes the steps of one of
\* them and leaves the variables of the others alone.
LEMMA InstanceSteps ==
    MCSpec =>
        /\ SessionInit /\ WebInit /\ ChatsInit /\ PoolInit /\ CatalogInit /\ ProxyInit /\ RouteInit
           /\ CampaignsInit
        /\ [][SessionNext]_sessionVars /\ [][WebNext]_webVars /\ [][ChatsNext]_chatVars
        /\ [][PoolNext]_poolVars /\ [][CatalogNext]_catalogVars /\ [][ProxyNext]_proxyVars
        /\ [][RouteNext]_routeVars /\ [][CampaignsNext]_campaignVars
<1>1. MCInit => /\ SessionInit /\ WebInit /\ ChatsInit /\ PoolInit /\ CatalogInit /\ ProxyInit
                /\ RouteInit /\ CampaignsInit
  BY DEF MCInit
<1>2. [MCNext]_MCVars => [SessionNext]_sessionVars
  BY DEF MCNext, MCVars
<1>3. [MCNext]_MCVars => [WebNext]_webVars
  BY DEF MCNext, MCVars
<1>4. [MCNext]_MCVars => [ChatsNext]_chatVars
  BY DEF MCNext, MCVars
<1>5. [MCNext]_MCVars => [PoolNext]_poolVars
  BY DEF MCNext, MCVars
<1>6. [MCNext]_MCVars => [CatalogNext]_catalogVars
  BY DEF MCNext, MCVars
<1>7. [MCNext]_MCVars => [ProxyNext]_proxyVars
  BY DEF MCNext, MCVars
<1>8. [MCNext]_MCVars => [RouteNext]_routeVars
  BY DEF MCNext, MCVars
<1>9. [MCNext]_MCVars => [CampaignsNext]_campaignVars
  BY DEF MCNext, MCVars
<1> QED
  BY <1>1, <1>2, <1>3, <1>4, <1>5, <1>6, <1>7, <1>8, <1>9, PTL DEF MCSpec

\* The invariants of the modules.
ServicesInv ==
    /\ SessionInv /\ WebTypeOK /\ WebInv /\ ChatsInv /\ PoolInv /\ CatalogInv /\ ProxyInv
    /\ RouteInv /\ TextsInv

\* Each invariant holds, whichever module moves.
LEMMA ServicesInvariance == MCSpec => []ServicesInv
<1>1. SessionInit /\ [][SessionNext]_sessionVars => []SessionInv
  BY InitSession, NextSession, PTL
<1>2. WebInit /\ [][WebNext]_webVars => [](WebTypeOK /\ WebInv)
  BY InitWeb, NextWeb, PTL
<1>3. ChatsInit /\ [][ChatsNext]_chatVars => []ChatsInv
  BY InitChats, NextChats, PTL
<1>4. PoolInit /\ [][PoolNext]_poolVars => []PoolInv
  BY InitPool, NextPool, PTL
<1>5. CatalogInit /\ [][CatalogNext]_catalogVars => []CatalogInv
  BY InitCatalog, NextCatalog, PTL
<1>6. ProxyInit /\ [][ProxyNext]_proxyVars => []ProxyInv
  BY InitProxy, NextProxy, PTL
<1>7. RouteInit /\ [][RouteNext]_routeVars => []RouteInv
  BY InitRoute, NextRoute, PTL
<1>8. CampaignsInit /\ [][CampaignsNext]_campaignVars => []TextsInv
  BY InitTexts, NextTexts, PTL
<1> QED
  BY InstanceSteps, <1>1, <1>2, <1>3, <1>4, <1>5, <1>6, <1>7, <1>8, PTL DEF ServicesInv

\* Every module's variables stay in their types; a call of the application waits only for a
\* refresh under way, and stripe_ids.json holds every price once or nothing.
THEOREM ServicesTypeCorrect == MCSpec => []ServicesTypeOK
<1>1. ServicesInv => ServicesTypeOK
  <2> SUFFICES ASSUME ServicesInv PROVE ServicesTypeOK
    OBVIOUS
  <2>1. SessionTypeOK /\ WebTypeOK
    BY SessionTypes DEF ServicesInv, SessionInv
  <2>2. ChatsTypeOK /\ CatalogTypeOK /\ ProxyTypeOK
    BY ChatsTypes, CatalogTypes, ProxyTypes DEF ServicesInv
  <2>3. PoolTypeOK /\ RouteTypeOK /\ CampaignsTypeOK
    BY TextsAsCounted DEF ServicesInv, PoolInv, RouteInv
  <2> QED
    BY <2>1, <2>2, <2>3 DEF ServicesTypeOK
<1> QED
  BY <1>1, ServicesInvariance, PTL

\* What a user has is kept: the turns of a conversation, the quota and the orchestrator's
\* history, the login of a device, the messages of a campaign; a preview is the best of the
\* agents allowed, the answer is the previewed agent's where it was asked for by name and is
\* allowed, and the agents shown are allowed ones (modules.py, orchestrate.py, client.ts, api.ts,
\* private_orchestrator_service.py, ghost_agency.py).
THEOREM UserAlwaysKeeps == MCSpec => []UserKeeps
<1>1. ServicesInv => UserKeeps
  <2> SUFFICES ASSUME ServicesInv PROVE UserKeeps
    OBVIOUS
  <2>1. TurnStays /\ QuotaHolds /\ SessionFollows
    BY ChatsKept DEF ServicesInv
  <2>2. StoredLoginKept
    BY DEF ServicesInv, SessionInv, KeptInv, EndedInv, StoredLoginKept
  <2>3. CookieKept
    BY DEF ServicesInv, WebInv, CookieKept
  <2>4. RouteAgreed /\ ShownIsAllowed /\ TextsCounted
    BY TextsAsCounted DEF ServicesInv, RouteInv
  <2> QED
    BY <2>1, <2>2, <2>3, <2>4 DEF UserKeeps
<1> QED
  BY <1>1, ServicesInvariance, PTL

\* What is outside is used sparingly: a process knows of every browser it runs but those of
\* cancelled launches, unless launches overlapped; there is one set of products, prices and
\* endpoint at Stripe; each proxy has its turn; no HTTP request goes to an address and no page
\* is read at one that was not checked; and if risk is scored, with a threshold of at most 0.80
\* (the settings have 0.75), a fetch does not begin with an address of the three marks
\* (fetcher.py, setup_stripe.py, proxy_pool.py, security.py, risk.py).
THEOREM ResourcesAlwaysKept == ASSUME RiskThreshold <= 80 PROVE MCSpec => []ResourcesKept
<1>1. ServicesInv => ResourcesKept
  <2> SUFFICES ASSUME ServicesInv PROVE ResourcesKept
    OBVIOUS
  <2>1. OneBrowser /\ SetupRepeats
    BY PoolIsOneBrowser, CatalogRepeats DEF ServicesInv
  <2>2. ProxiesTakeTurns /\ AskedIsSafe
    BY TurnsKept, AskedKept DEF ServicesInv, ProxyInv
  <2> QED
    BY <2>1, <2>2 DEF ResourcesKept
<1> QED
  BY <1>1, ServicesInvariance, PTL
=============================================================================
