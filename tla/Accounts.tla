------------------------------ MODULE Accounts ------------------------------
(***************************************************************************)
(* One account and the requests that read and write its row               *)
(* (api/routers/auth.py, api/routers/users.py, the status route of          *)
(* api/routers/admin.py, api/core/deps.py).  A handler loads the row, works *)
(* on the loaded copy and commits; there is no version column, and the ORM  *)
(* writes only the columns whose value differs from the loaded one.         *)
(***************************************************************************)
EXTENDS Naturals, FiniteSets

CONSTANTS
    Requests,   \* requests in progress, of the owner, a link holder or an admin
    Words,      \* passwords
    Secrets,    \* TOTP secrets
    Links,      \* the random tokens of reset and verification links
    None,
    Deleted     \* the hash of a deleted account, which no password matches

\* Tokens and secrets are random: none is a password.
ASSUME AccountsAssumption ==
    /\ None \notin Secrets \cup Links \cup Words /\ Deleted \notin Words
    /\ (Secrets \cup Links) \cap (Words \cup BOOLEAN) = {} /\ Secrets \cap Links = {}

VARIABLES
    account,    \* the committed row, with the status of its workspace
    request,    \* [Requests -> what the request runs, loaded and will commit]
    held,       \* tokens the owner's client holds that have not expired
    made,       \* links and secrets that have been drawn
    shown,      \* those whose mail or answer has left: after the commit
    expired,    \* links past their time
    \* history
    chosen,     \* the password last committed by someone who chose it
    uses,       \* [Links -> committed password resets through the link]
    proved,     \* secrets a code of which was accepted by /2fa/enable
    raced,      \* columns a request has written, or not noticed, when it committed
                \* after another one had changed the row it loaded
    rehashed,   \* one of these was the re-hash of a login
    deleted,    \* the owner has deleted the account
    reopened    \* an administrator has unblocked it since

accountVars == <<account, request, held, made, shown, expired,
                 chosen, uses, proved, raced, rehashed, deleted, reopened>>

Columns == {"hash", "reset", "confirm", "verified", "secret", "enabled", "active", "open"}
Hash == [word : Words \cup {Deleted}, legacy : BOOLEAN]
Row == [hash : Hash, reset : Links \cup {None}, confirm : Links \cup {None},
        verified : BOOLEAN, secret : Secrets \cup {None}, enabled : BOOLEAN,
        active : BOOLEAN, open : BOOLEAN]
Idle == [op |-> "idle"]

\* What a request that has loaded the row is about to commit.
Work == [op : {"forgot", "reset", "change", "login", "setup", "enable", "disable",
               "verify", "confirm", "resend", "delete", "status"},
         mine : Row, want : Row,
         about : Links \cup Secrets \cup Words \cup {None} \cup BOOLEAN,
         missed : SUBSET Columns]

\* An account that registered with the password w, on bcrypt if it was migrated; the
\* verification mail k has left and the client has its tokens.
RegisteredAccount(w, legacy, k) ==
    [hash |-> [word |-> w, legacy |-> legacy], reset |-> None, confirm |-> k,
     verified |-> FALSE, secret |-> None, enabled |-> FALSE, active |-> TRUE, open |-> TRUE]

AccountsInit ==
    /\ \E w \in Words, legacy \in BOOLEAN, k \in Links :
        /\ account = RegisteredAccount(w, legacy, k)
        /\ made = {k} /\ shown = {k} /\ chosen = w
    /\ request = [r \in Requests |-> Idle]
    /\ held = {"access", "refresh"}
    /\ expired = {} /\ uses = [k \in Links |-> 0] /\ proved = {}
    /\ raced = {} /\ rehashed = FALSE /\ deleted = FALSE /\ reopened = FALSE

-----------------------------------------------------------------------------
(* Loading: the handlers' guards and the changes they make to the copy.      *)

\* r loads the row, and will commit what it made of it; about: the link, password or secret
\* the request is about.
Load(r, op, want, about) ==
    /\ request[r] = Idle
    /\ request' = [request EXCEPT ![r] = [op |-> op, mine |-> account, want |-> want,
                                          about |-> about, missed |-> {}]]
    /\ UNCHANGED <<account, held, shown, expired, chosen, uses, proved, raced,
                   rehashed, deleted, reopened>>

\* get_current_active_user: an access token, an active account, an active workspace.
CurrentUser == "access" \in held /\ account.active /\ account.open

Draw(x) == x \notin made /\ made' = made \cup {x}

Matches(w) == account.hash.word = w

\* The request comes with the password.
Confirmed == \E w \in Words : Matches(w)

ForgotPassword(r, k) ==
    /\ account.active /\ ~deleted      \* a deleted account has lost its address
    /\ Draw(k)
    /\ Load(r, "forgot", [account EXCEPT !.reset = k], k)

\* Mutant: the link is not cleared.
ResetKeepsLink(r, k, w) ==
    /\ account.reset = k /\ k \in shown \ expired
    /\ Load(r, "reset", [account EXCEPT !.hash = [word |-> w, legacy |-> FALSE]], k)
    /\ UNCHANGED made

ResetPassword(r, k, w) ==
    /\ account.reset = k /\ k \in shown \ expired
    /\ Load(r, "reset", [account EXCEPT !.hash = [word |-> w, legacy |-> FALSE],
                                        !.reset = None], k)
    /\ UNCHANGED made

ChangePassword(r, w) ==
    /\ CurrentUser /\ Confirmed
    /\ Load(r, "change", [account EXCEPT !.hash = [word |-> w, legacy |-> FALSE]], w)
    /\ UNCHANGED made

\* A bcrypt hash that matches is replaced, committed with the audit row of the login.
Login(r, w) ==
    /\ Matches(w) /\ account.active
    /\ Load(r, "login", [account EXCEPT !.hash.legacy = FALSE], w)
    /\ UNCHANGED made

\* Mutant: a secret can be replaced while the second factor is on.
SetupWhileEnabled(r, s) ==
    /\ CurrentUser
    /\ Draw(s)
    /\ Load(r, "setup", [account EXCEPT !.secret = s], s)

Setup2FA(r, s) ==
    /\ CurrentUser /\ ~account.enabled
    /\ Draw(s)
    /\ Load(r, "setup", [account EXCEPT !.secret = s], s)

Enable2FA(r, s) ==
    /\ CurrentUser /\ ~account.enabled
    /\ account.secret = s /\ s \in shown
    /\ Load(r, "enable", [account EXCEPT !.enabled = TRUE], s)
    /\ UNCHANGED made

\* A code or the password will do, and the owner has the password.
Disable2FA(r) ==
    /\ CurrentUser /\ account.enabled
    /\ Load(r, "disable", [account EXCEPT !.enabled = FALSE, !.secret = None], None)
    /\ UNCHANGED made

VerifyLogin(r, s) ==
    /\ "partial" \in held /\ account.active
    /\ account.enabled /\ account.secret = s /\ s \in shown
    /\ Load(r, "verify", account, s)
    /\ UNCHANGED made

VerifyEmail(r, k) ==
    /\ account.confirm = k /\ k \in shown \ expired /\ ~account.verified
    /\ Load(r, "confirm", [account EXCEPT !.verified = TRUE, !.confirm = None], k)
    /\ UNCHANGED made

ResendVerification(r, k) ==
    /\ CurrentUser /\ ~account.verified
    /\ Draw(k)
    /\ Load(r, "resend", [account EXCEPT !.confirm = k], k)

\* Mutant: is_active is left as it is.
DeleteKeepsActive(r) ==
    /\ CurrentUser /\ Confirmed
    /\ Load(r, "delete", [account EXCEPT !.hash = [word |-> Deleted, legacy |-> TRUE],
                                         !.reset = None], None)
    /\ UNCHANGED made

DeleteMyAccount(r) ==
    /\ CurrentUser /\ Confirmed
    /\ Load(r, "delete", [account EXCEPT !.hash = [word |-> Deleted, legacy |-> TRUE],
                                         !.reset = None, !.active = FALSE], None)
    /\ UNCHANGED made

UpdateStatus(r, blocked) ==
    /\ Load(r, "status", [account EXCEPT !.open = ~blocked, !.active = ~blocked], blocked)
    /\ UNCHANGED made

-----------------------------------------------------------------------------
(* Committing.                                                               *)

\* Mutant: every column is written.
WritesAll(q) == Columns

\* UPDATE writes the columns that differ from the loaded ones; a hash is salted, so the
\* hash of a chosen password always differs.
Written(q) ==
    {c \in Columns : q.want[c] # q.mine[c]}
        \cup (IF q.op \in {"reset", "change"} THEN {"hash"} ELSE {})

\* What the client holds after the answer; a login of an account without a second factor,
\* as loaded, and a verified code get both tokens.
Answered(q) ==
    CASE q.op = "login" /\ q.mine.enabled -> held \cup {"partial"}
      [] q.op = "verify" \/ (q.op = "login" /\ ~q.mine.enabled) -> {"access", "refresh"}
      [] OTHER -> held

Commit(r) ==
    LET q == request[r]
        written == Written(q)
    IN  /\ q # Idle
        /\ account' = [c \in Columns |-> IF c \in written THEN q.want[c] ELSE account[c]]
        /\ request' = [p \in Requests |->
                         IF p = r THEN Idle
                         ELSE IF request[p] = Idle THEN Idle
                         ELSE [request[p] EXCEPT !.missed = @ \cup written]]
        /\ held' = Answered(q)
        /\ shown' = shown \cup ({q.about} \cap (Links \cup Secrets))
        /\ chosen' = IF q.op \in {"reset", "change", "delete"} THEN q.want.hash.word ELSE chosen
        /\ uses' = IF q.op = "reset" THEN [uses EXCEPT ![q.about] = @ + 1] ELSE uses
        /\ proved' = IF q.op = "enable" THEN proved \cup {q.about} ELSE proved
        /\ raced' = IF q.missed = {} THEN raced ELSE raced \cup q.missed \cup written
        /\ rehashed' = (rehashed \/ (q.op = "login" /\ "hash" \in q.missed \cap written))
        /\ deleted' = (deleted \/ q.op = "delete")
        /\ reopened' = (reopened \/ (deleted /\ q.op = "status" /\ ~q.about))
        /\ UNCHANGED <<made, expired>>

\* The commit fails or the process dies: nothing is written.
Abandon(r) ==
    /\ request[r] # Idle
    /\ request' = [request EXCEPT ![r] = Idle]
    /\ UNCHANGED <<account, held, made, shown, expired, chosen, uses, proved,
                   raced, rehashed, deleted, reopened>>

\* The token is not looked up anywhere: an active account is all it takes.
Refresh ==
    /\ "refresh" \in held /\ account.active
    /\ held' = held \cup {"access"}
    /\ UNCHANGED <<account, request, made, shown, expired, chosen, uses, proved,
                   raced, rehashed, deleted, reopened>>

TokenExpires(t) ==
    /\ held' = held \ {t}
    /\ UNCHANGED <<account, request, made, shown, expired, chosen, uses, proved,
                   raced, rehashed, deleted, reopened>>

LinkExpires(k) ==
    /\ k \in shown \cap Links
    /\ expired' = expired \cup {k}
    /\ UNCHANGED <<account, request, held, made, shown, chosen, uses, proved,
                   raced, rehashed, deleted, reopened>>

PasswordStep(r) ==
    \/ \E k \in Links : ForgotPassword(r, k) \/ \E w \in Words : ResetPassword(r, k, w)
    \/ \E w \in Words : ChangePassword(r, w) \/ Login(r, w)
    \/ DeleteMyAccount(r)

FactorStep(r) ==
    \/ \E s \in Secrets : Setup2FA(r, s) \/ Enable2FA(r, s) \/ VerifyLogin(r, s)
    \/ \E w \in Words : Login(r, w)
    \/ Disable2FA(r)

MailStep(r) ==
    \/ \E k \in Links : VerifyEmail(r, k) \/ ResendVerification(r, k)
    \/ DeleteMyAccount(r)

StatusStep(r) ==
    \/ \E w \in Words : Login(r, w)
    \/ \E blocked \in BOOLEAN : UpdateStatus(r, blocked)
    \/ DeleteMyAccount(r)

EndStep == \E r \in Requests : Commit(r) \/ Abandon(r)
TokenStep == Refresh \/ \E t \in held : TokenExpires(t)
ExpiryStep == \E k \in Links \ expired : LinkExpires(k)

AccountsNext ==
    \/ \E r \in Requests : PasswordStep(r) \/ FactorStep(r) \/ MailStep(r) \/ StatusStep(r)
    \/ EndStep \/ TokenStep \/ ExpiryStep

AccountsSpec == AccountsInit /\ [][AccountsNext]_accountVars

-----------------------------------------------------------------------------
(* Properties.                                                               *)

AccountsTypeOK ==
    /\ account \in Row
    /\ request \in [Requests -> {Idle} \cup Work]
    /\ held \in SUBSET {"access", "refresh", "partial"}
    /\ made \in SUBSET (Links \cup Secrets) /\ shown \in SUBSET made
    /\ expired \in SUBSET Links
    /\ chosen \in Words \cup {Deleted} /\ uses \in [Links -> Nat] /\ proved \in SUBSET Secrets
    /\ raced \in SUBSET Columns
    /\ rehashed \in BOOLEAN /\ deleted \in BOOLEAN /\ reopened \in BOOLEAN

\* The password that works is the one somebody chose last, whatever the other requests on
\* the row had loaded before: only the re-hash of a login, which writes the hash it loaded,
\* can bring an older one back.
ChosenPasswordStands == account.hash.word = chosen \/ rehashed

\* A reset link sets one password: used twice, or used after a newer one was asked for, it
\* is refused, unless the second use had been loaded before the first was committed.
ResetLinkSingleUse == \A k \in Links : uses[k] > 1 => "reset" \in raced

\* A second factor that is on has the secret its owner has shown a code of, so the owner
\* can log in: unless a setup or a deactivation overlapped the activation.
EnabledSecretProved ==
    account.enabled => account.secret \in proved \/ raced \cap {"secret", "enabled"} # {}

\* Once deleted, an account hands out no token again: to no password, refresh token or code,
\* unless the request was already loaded, or an administrator unblocks the workspace.
DeletedIssuesNothing ==
    [][deleted /\ ~reopened /\ ~(held' \subseteq held)
        => \E r \in Requests : request[r] # Idle /\ request'[r] = Idle
                               /\ "active" \in request[r].missed]_accountVars
=============================================================================
