---------------------------- MODULE Conversations ----------------------------
(***************************************************************************)
(* One user's chats: operator_chat (routers/modules.py), orchestrate         *)
(* (routers/orchestrate.py) with the orchestrator service and its Redis       *)
(* history, the monthly gate (services/usage_service.py) in production, and    *)
(* the nightly purge (core/scheduler.py).  CreditLedger has the credits.       *)
(***************************************************************************)
EXTENDS Naturals, Sequences, FiniteSets

CONSTANTS
    Chats,      \* chat requests; each is also the name of its turn
    Convs,      \* conversation ids
    NoRow,
    MonthLimit, \* ai_messages_per_month
    MaxCredits  \* bound: overage credits the user starts with

ASSUME ConversationsAssumption ==
    NoRow \notin Convs /\ IsFiniteSet(Chats) /\ MonthLimit \in Nat /\ MaxCredits \in Nat

VARIABLES
    rows,       \* [Convs -> the committed row, or NoRow]
    taken,      \* conversation ids given out
    chat,       \* [Chats -> where the request is, its conversation and what it loaded]
    upstream,   \* [Chats -> where the orchestrator's own handler is]
    session,    \* [Convs -> the Redis history of the orchestrator]
    month,      \* the Redis counter of the month
    flag,       \* the key that says the 80 % alert was sent
    overage,    \* credits
    \* history
    done,       \* chats whose turn was committed
    charged,    \* chats that took a credit
    crossed,    \* chats that loaded a conversation another had loaded and not yet committed
    solo,       \* no two chats were between the gate and the counter at once
    blind,      \* a Redis call has failed
    alerts,     \* alerts sent
    expired,    \* conversations whose Redis history has expired
    tangled     \* conversations two handlers wrote the history of at once

chatVars == <<rows, taken, chat, upstream, session, month, flag, overage,
              done, charged, crossed, solo, blind, alerts, expired, tangled>>
chatHistory == <<done, charged, crossed, solo, blind, alerts, expired, tangled>>
stores == <<rows, taken, upstream, session, month, flag, overage>>

Unborn == [at |-> "away", via |-> "none", conv |-> NoRow, base |-> <<>>, n |-> 0]

ChatsInit ==
    /\ rows = [c \in Convs |-> NoRow] /\ taken = {}
    /\ chat = [r \in Chats |-> Unborn]
    /\ upstream = [r \in Chats |-> "none"]
    /\ session = [c \in Convs |-> <<>>]
    /\ month = 0 /\ flag = FALSE /\ overage \in 0..MaxCredits
    /\ done = {} /\ charged = {} /\ crossed = {} /\ solo = TRUE /\ blind = FALSE
    /\ alerts = 0 /\ expired = {} /\ tangled = {}

Is(r, l) == chat[r].at = l
GoTo(r, l) == chat' = [chat EXCEPT ![r].at = l]

Gated == {"flag", "alert", "decide", "load", "calling", "replied", "saved"}
Loaded == {"calling", "replied", "saved", "counted"}
Locked(c) == \E r \in Chats : chat[r].conv = c /\ chat[r].at \in {"saved", "counted"}

-----------------------------------------------------------------------------
\* check_and_charge_usage reads the counter; without Redis the chat is refused.
Gate(r, via, c) ==
    /\ Is(r, "away") /\ c \in taken \cup {NoRow}
    /\ \/ /\ chat' = [chat EXCEPT ![r] =
                        [at |-> IF month >= (MonthLimit * 4) \div 5 THEN "flag" ELSE "decide",
                         via |-> via, conv |-> c, base |-> <<>>, n |-> month]]
          /\ solo' = (solo /\ \A q \in Chats : chat[q].at \notin Gated)
       \/ chat' = [chat EXCEPT ![r].at = "over"] /\ UNCHANGED solo
    /\ UNCHANGED <<stores, done, charged, crossed, blind, alerts, expired, tangled>>

\* The alert: GET, then SETEX and the mail; a failure of Redis is ignored.
ReadFlag(r) ==
    /\ Is(r, "flag")
    /\ GoTo(r, IF flag THEN "decide" ELSE "alert")
    /\ UNCHANGED <<stores, chatHistory>>

SendAlert(r) ==
    /\ Is(r, "alert")
    /\ flag' = TRUE /\ alerts' = alerts + 1
    /\ GoTo(r, "decide")
    /\ UNCHANGED <<rows, taken, upstream, session, month, overage,
                   done, charged, crossed, solo, blind, expired, tangled>>

AlertFails(r) ==
    /\ Is(r, "flag") \/ Is(r, "alert")
    /\ blind' = TRUE
    /\ GoTo(r, "decide")
    /\ UNCHANGED <<stores, done, charged, crossed, solo, alerts, expired, tangled>>

\* Within the quota, or for a credit, which is committed here; else 402.
Decide(r) ==
    /\ Is(r, "decide")
    /\ \/ chat[r].n < MonthLimit /\ GoTo(r, "load") /\ UNCHANGED <<overage, charged>>
       \/ /\ chat[r].n >= MonthLimit /\ overage > 0
          /\ overage' = overage - 1 /\ charged' = charged \cup {r}
          /\ GoTo(r, "load")
       \/ /\ chat[r].n >= MonthLimit /\ overage = 0
          /\ GoTo(r, "over") /\ UNCHANGED <<overage, charged>>
    /\ UNCHANGED <<rows, taken, upstream, session, month, flag,
                   done, crossed, solo, blind, alerts, expired, tangled>>

-----------------------------------------------------------------------------
\* The operator finds its own conversations only, orchestrate every one of the user's.
Finds(r) ==
    LET c == chat[r].conv IN
    c # NoRow /\ rows[c] # NoRow /\ (chat[r].via = "operator" => rows[c].module = "operator")

Load(r) ==
    /\ Is(r, "load") /\ Finds(r)
    /\ LET c == chat[r].conv
           others == {q \in Chats : chat[q].conv = c /\ chat[q].at \in Loaded}
       IN  /\ chat' = [chat EXCEPT ![r].at = "calling", ![r].base = rows[c].turns]
           /\ crossed' = IF others = {} THEN crossed ELSE crossed \cup others \cup {r}
    /\ UNCHANGED <<stores, done, charged, solo, blind, alerts, expired, tangled>>

\* Without a conversation a new one is inserted; orchestrate also replaces one it does not
\* find, the operator answers 404.
LoadNew(r) ==
    /\ Is(r, "load") /\ ~Finds(r)
    /\ \/ /\ chat[r].conv # NoRow /\ chat[r].via = "operator"
          /\ GoTo(r, "over") /\ UNCHANGED taken
       \/ /\ chat[r].conv = NoRow \/ chat[r].via = "orchestrate"
          /\ \E c \in Convs \ taken :
                /\ taken' = taken \cup {c}
                /\ chat' = [chat EXCEPT ![r].at = "calling", ![r].conv = c]
    /\ UNCHANGED <<rows, upstream, session, month, flag, overage, chatHistory>>

\* _call_ai: OpenAI answers, or nobody does: the orchestrator's /chat asks for a prompt and
\* refuses the messages the fallback sends.
OperatorReplies(r) ==
    /\ Is(r, "calling") /\ chat[r].via = "operator"
    /\ GoTo(r, "replied")
    /\ UNCHANGED <<stores, chatHistory>>

CallFails(r) ==
    /\ Is(r, "calling")
    /\ GoTo(r, "over")
    /\ UNCHANGED <<stores, chatHistory>>

\* The orchestrator: POST /route, the model, two RPUSHes, the answer.  The API may have
\* given up after its 60 seconds while the handler goes on.
Route(r) ==
    /\ Is(r, "calling") /\ chat[r].via = "orchestrate" /\ upstream[r] = "none"
    /\ upstream' = [upstream EXCEPT ![r] = "model"]
    /\ UNCHANGED <<rows, taken, chat, session, month, flag, overage, chatHistory>>

PushUser(r) ==
    LET c == chat[r].conv IN
    /\ upstream[r] = "model"
    /\ session' = [session EXCEPT ![c] = Append(@, <<"user", r>>)]
    /\ upstream' = [upstream EXCEPT ![r] = "push"]
    /\ tangled' = IF \E q \in Chats : upstream[q] = "push" /\ chat[q].conv = c
                  THEN tangled \cup {c} ELSE tangled
    /\ UNCHANGED <<rows, taken, chat, month, flag, overage,
                   done, charged, crossed, solo, blind, alerts, expired>>

PushReply(r) ==
    LET c == chat[r].conv IN
    /\ upstream[r] = "push"
    /\ session' = [session EXCEPT ![c] = Append(@, <<"reply", r>>)]
    /\ upstream' = [upstream EXCEPT ![r] = "over"]
    /\ IF Is(r, "calling") THEN GoTo(r, "replied") ELSE UNCHANGED chat
    /\ UNCHANGED <<rows, taken, month, flag, overage, chatHistory>>

UpstreamFails(r) ==
    /\ upstream[r] \in {"model", "push"}
    /\ upstream' = [upstream EXCEPT ![r] = "over"]
    /\ IF Is(r, "calling") THEN GoTo(r, "over") ELSE UNCHANGED chat
    /\ UNCHANGED <<rows, taken, session, month, flag, overage, chatHistory>>

SessionExpires(c) ==
    /\ session[c] # <<>>
    /\ session' = [session EXCEPT ![c] = <<>>]
    /\ expired' = expired \cup {c}
    /\ UNCHANGED <<rows, taken, chat, upstream, month, flag, overage,
                   done, charged, crossed, solo, blind, alerts, tangled>>

-----------------------------------------------------------------------------
\* The flush updates the row by its key, behind the lock of another chat; a row that is
\* gone fails it.
Save(r) ==
    LET c == chat[r].conv IN
    /\ Is(r, "replied") /\ ~Locked(c)
    /\ GoTo(r, IF chat[r].base # <<>> /\ rows[c] = NoRow THEN "over" ELSE "saved")
    /\ UNCHANGED <<stores, chatHistory>>

\* record_usage counts in Redis before the commit.
Count(r) ==
    /\ Is(r, "saved")
    /\ \/ month' = month + 1 /\ UNCHANGED blind
       \/ blind' = TRUE /\ UNCHANGED month
    /\ GoTo(r, "counted")
    /\ UNCHANGED <<rows, taken, upstream, session, flag, overage,
                   done, charged, crossed, solo, alerts, expired, tangled>>

\* Mutant: the new turn replaces those loaded.
CommitLast(r) ==
    LET c == chat[r].conv IN
    /\ Is(r, "counted")
    /\ rows' = [rows EXCEPT ![c] = [turns |-> <<r>>,
                                    module |-> IF @ = NoRow THEN chat[r].via ELSE @.module]]
    /\ done' = done \cup {r}
    /\ GoTo(r, "over")
    /\ UNCHANGED <<taken, upstream, session, month, flag, overage,
                   charged, crossed, solo, blind, alerts, expired, tangled>>

\* The whole list is written, as it was loaded and with the new turn.
Commit(r) ==
    LET c == chat[r].conv IN
    /\ Is(r, "counted")
    /\ rows' = [rows EXCEPT ![c] = [turns |-> Append(chat[r].base, r),
                                    module |-> IF @ = NoRow THEN chat[r].via ELSE @.module]]
    /\ done' = done \cup {r}
    /\ GoTo(r, "over")
    /\ UNCHANGED <<taken, upstream, session, month, flag, overage,
                   charged, crossed, solo, blind, alerts, expired, tangled>>

RollBack(r) ==
    /\ Is(r, "saved") \/ Is(r, "counted")
    /\ GoTo(r, "over")
    /\ UNCHANGED <<stores, chatHistory>>

-----------------------------------------------------------------------------
\* The user deletes a conversation, or the purge does ninety days after its creation, however
\* recent its last turn; a chat that holds the row's lock goes first.
DeleteConversation(c) ==
    /\ rows[c] # NoRow /\ ~Locked(c)
    /\ rows' = [rows EXCEPT ![c] = NoRow]
    /\ UNCHANGED <<taken, chat, upstream, session, month, flag, overage, chatHistory>>

ChatStep(r) ==
    \/ \E via \in {"operator", "orchestrate"}, c \in Convs \cup {NoRow} : Gate(r, via, c)
    \/ ReadFlag(r) \/ SendAlert(r) \/ AlertFails(r) \/ Decide(r) \/ Load(r) \/ LoadNew(r)
    \/ OperatorReplies(r) \/ CallFails(r) \/ Route(r) \/ PushUser(r) \/ PushReply(r)
    \/ UpstreamFails(r) \/ Save(r) \/ Count(r) \/ Commit(r) \/ RollBack(r)

ChatsNext ==
    \/ \E r \in Chats : ChatStep(r)
    \/ \E c \in Convs : SessionExpires(c) \/ DeleteConversation(c)

-----------------------------------------------------------------------------
\* The variables stay in their types; a conversation holds every turn at most once.
ChatsTypeOK ==
    /\ \A c \in Convs : rows[c] # NoRow =>
         /\ c \in taken /\ rows[c].module \in {"operator", "orchestrate"}
         /\ \A i, j \in DOMAIN rows[c].turns : rows[c].turns[i] = rows[c].turns[j] => i = j
    /\ \A r \in Chats : chat[r].conv \in taken \cup {NoRow} /\ chat[r].base \in Seq(Chats)
    /\ month \in 0..Cardinality(Chats) /\ overage \in 0..MaxCredits /\ flag \in BOOLEAN
    /\ \A c \in Convs : session[c] \in Seq({"user", "reply"} \X Chats)

\* A committed turn stays in its conversation as long as that exists, unless chats of the
\* same conversation overlapped.
TurnStays ==
    \A r \in done \ crossed :
        LET c == chat[r].conv IN
        rows[c] # NoRow => \E i \in DOMAIN rows[c].turns : rows[c].turns[i] = r

\* The quota is passed by chats that overlap, or when Redis failed, and not otherwise; the
\* alert is sent once.
QuotaHolds ==
    solo => /\ ~blind => Cardinality(done \ charged) <= MonthLimit
            /\ alerts <= 1

\* A turn of the orchestrator is in its Redis history until that expires, question and
\* answer together unless two handlers wrote at once.
SessionFollows ==
    /\ \A r \in done : chat[r].via = "orchestrate" /\ chat[r].conv \notin expired =>
         \E i \in DOMAIN session[chat[r].conv] : session[chat[r].conv][i] = <<"reply", r>>
    /\ \A c \in Convs \ (tangled \cup expired) : \A i \in DOMAIN session[c] :
         session[c][i][1] = "reply" =>
            i > 1 /\ session[c][i - 1] = <<"user", session[c][i][2]>>
=============================================================================
