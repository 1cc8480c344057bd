---------------------------- MODULE AccountProofs ----------------------------
(***************************************************************************)
(* Proofs about Accounts with all its handlers at once, for any number of     *)
(* requests.  LoadedInv is why stale copies do no harm: what a request loaded *)
(* is still in the row, or it knows the column as missed.  CopyInv says what   *)
(* each handler makes of its copy, DrawnInv and UsesInv where links come from  *)
(* and go, DeletedInv what deletion leaves.                                   *)
(***************************************************************************)
EXTENDS Accounts, AccountRows, FiniteSetTheorems, TLAPS

Busy(r) == request[r] # Idle

\* What nobody else has committed since a request loaded the row is in the row.
LoadedInv ==
    \A r \in Requests : Busy(r) =>
        \A c \in Columns \ request[r].missed : account[c] = request[r].mine[c]

\* What a handler changes of its copy.
Copied(q) ==
    /\ q.op \notin {"setup", "disable"} => q.want.secret = q.mine.secret
    /\ q.op \notin {"enable", "disable"} => q.want.enabled = q.mine.enabled
    /\ q.op \notin {"forgot", "reset", "delete"} => q.want.reset = q.mine.reset
    /\ q.op \notin {"delete", "status"} => q.want.active = q.mine.active
    /\ q.op \notin {"reset", "change", "delete", "login"} => q.want.hash = q.mine.hash
    /\ q.op = "setup" => ~q.mine.enabled
    /\ q.op = "enable" => q.mine.secret = q.about /\ q.about \in Secrets
    /\ q.op = "disable" => q.mine.enabled /\ ~q.want.enabled
    /\ q.op = "forgot" => q.about \in Links /\ q.want.reset = q.about
    /\ q.op = "reset" => q.about \in Links /\ q.mine.reset = q.about /\ q.want.reset = None
    /\ q.op \in {"reset", "change"} => q.want.hash.word \in Words
    /\ q.op = "login" => q.mine.active /\ q.want.hash.word = q.mine.hash.word
                         /\ q.mine.hash.word \in Words
    /\ q.op = "verify" => q.mine.active
    /\ q.op = "delete" => /\ q.mine.active /\ ~q.want.active /\ q.want.reset = None
                          /\ q.want.hash.word = Deleted /\ q.mine.hash.word \in Words
    /\ q.op = "status" => q.about \in BOOLEAN /\ q.want.active = ~q.about
    /\ q.op \in {"change", "login", "disable", "delete", "status"} =>
         q.about \notin Links \cup Secrets

CopyInv == \A r \in Requests : Busy(r) => Copied(request[r])

\* A link or secret is drawn by one request, and known to nobody until that commits.
Draws(r) == Busy(r) /\ request[r].op \in {"forgot", "resend", "setup"}

DrawnInv ==
    /\ \A r \in Requests : Draws(r) => request[r].about \in made \ shown
    /\ \A r, p \in Requests :
         Draws(r) /\ Draws(p) /\ request[r].about = request[p].about => r = p
    /\ \A r \in Requests : Busy(r) /\ request[r].op \in {"reset", "enable", "verify", "confirm"} =>
         request[r].about \in shown

\* A link that has set a password is not in the row, and who had loaded it missed that.
UsesInv ==
    /\ \A k \in Links : uses[k] > 0 =>
         k \in shown /\ (account.reset # k \/ "reset" \in raced)
    /\ \A r \in Requests : Busy(r) /\ request[r].op = "reset" =>
         uses[request[r].about] = 0 \/ "reset" \in request[r].missed \cup raced

DeletedInv ==
    /\ account.hash.word = Deleted => deleted
    /\ deleted => reopened \/ ~account.active

AccountInv == /\ AccountsTypeOK /\ LoadedInv /\ CopyInv /\ DrawnInv /\ UsesInv /\ DeletedInv
        /\ ChosenPasswordStands /\ ResetLinkSingleUse /\ EnabledSecretProved
-----------------------------------------------------------------------------
LEMMA AccountInitInv == AccountsInit => AccountInv
<1> SUFFICES ASSUME AccountsInit PROVE AccountInv
  OBVIOUS
<1>0. PICK w \in Words, legacy \in BOOLEAN, k \in Links :
         /\ account = RegisteredAccount(w, legacy, k)
         /\ made = {k} /\ shown = {k} /\ chosen = w
  BY DEF AccountsInit
<1>1. account \in Row
  BY <1>0 DEF RegisteredAccount, Row, Hash
<1>2. AccountsTypeOK
  BY <1>0, <1>1 DEF AccountsInit, AccountsTypeOK
<1>3. \A r \in Requests : ~Busy(r)
  BY DEF AccountsInit, Busy
<1>4. LoadedInv /\ CopyInv /\ DrawnInv
  BY <1>3 DEF LoadedInv, CopyInv, DrawnInv, Draws
<1>5. UsesInv /\ ResetLinkSingleUse
  BY <1>3 DEF AccountsInit, UsesInv, ResetLinkSingleUse
<1>6. DeletedInv /\ ChosenPasswordStands /\ EnabledSecretProved
  BY <1>0, AccountsAssumption DEF AccountsInit, RegisteredAccount, DeletedInv,
     ChosenPasswordStands, EnabledSecretProved
<1> QED
  BY <1>2, <1>4, <1>5, <1>6 DEF AccountInv

-----------------------------------------------------------------------------
(* Loading.                                                                  *)

\* The request q that r has loaded the row for.
FreshLoad(r, q) ==
    /\ q \in Work /\ q.mine = account /\ q.missed = {} /\ Copied(q)
    /\ q.op \in {"forgot", "resend", "setup"} => q.about \in made' \ made
    /\ q.op \in {"reset", "enable", "verify", "confirm"} => q.about \in shown
    /\ request' = [request EXCEPT ![r] = q]
    /\ made \subseteq made' /\ made' \subseteq Links \cup Secrets
    /\ UNCHANGED <<account, held, shown, expired, chosen, uses, proved, raced,
                   rehashed, deleted, reopened>>

LEMMA LoadIsFresh ==
    ASSUME AccountsTypeOK, NEW r \in Requests,
           NEW op \in {"forgot", "reset", "change", "login", "setup", "enable", "disable",
                       "verify", "confirm", "resend", "delete", "status"},
           NEW want \in Row,
           NEW about \in Links \cup Secrets \cup Words \cup {None} \cup BOOLEAN,
           Load(r, op, want, about), made \subseteq made', made' \subseteq Links \cup Secrets,
           Copied([op |-> op, mine |-> account, want |-> want, about |-> about, missed |-> {}]),
           op \in {"forgot", "resend", "setup"} => about \in made' \ made,
           op \in {"reset", "enable", "verify", "confirm"} => about \in shown
    PROVE  \E q : FreshLoad(r, q)
<1> DEFINE q == [op |-> op, mine |-> account, want |-> want, about |-> about, missed |-> {}]
<1>1. q \in Work
  BY DEF AccountsTypeOK, Work
<1>2. FreshLoad(r, q)
  BY <1>1 DEF Load, FreshLoad
<1> QED
  BY <1>2

\* Every handler ends in a copy that Copied describes.
LEMMA HandlersLoad ==
    ASSUME AccountsTypeOK, NEW r \in Requests,
           PasswordStep(r) \/ FactorStep(r) \/ MailStep(r) \/ StatusStep(r)
    PROVE  \E q : FreshLoad(r, q)
<1> DEFINE Made(op, want, about) ==
             [op |-> op, mine |-> account, want |-> want, about |-> about, missed |-> {}]
<1>0. account \in Row /\ made \subseteq Links \cup Secrets /\ shown \subseteq made
  BY DEF AccountsTypeOK
<1>1. ASSUME NEW k \in Links, ForgotPassword(r, k) PROVE \E q : FreshLoad(r, q)
  <2> DEFINE want == [account EXCEPT !.reset = k]
  <2>1. want \in Row
    BY <1>0, <1>1 DEF Row, Hash
  <2>2. Copied(Made("forgot", want, k))
    BY <1>0, <1>1 DEF Copied, Row, Hash, ForgotPassword, Draw
  <2> QED
    BY <1>0, <1>1, <2>1, <2>2, LoadIsFresh DEF ForgotPassword, Draw
<1>2. ASSUME NEW k \in Links, NEW w \in Words, ResetPassword(r, k, w) PROVE \E q : FreshLoad(r, q)
  <2> DEFINE want == [account EXCEPT !.hash = [word |-> w, legacy |-> FALSE], !.reset = None]
  <2>1. want \in Row
    BY <1>0, <1>2 DEF Row, Hash
  <2>2. Copied(Made("reset", want, k))
    BY <1>0, <1>2 DEF Copied, Row, Hash, ResetPassword
  <2> QED
    BY <1>0, <1>2, <2>1, <2>2, LoadIsFresh DEF ResetPassword
<1>3. ASSUME NEW w \in Words, ChangePassword(r, w) PROVE \E q : FreshLoad(r, q)
  <2> DEFINE want == [account EXCEPT !.hash = [word |-> w, legacy |-> FALSE]]
  <2>1. want \in Row
    BY <1>0, <1>3 DEF Row, Hash
  <2>2. Copied(Made("change", want, w))
    BY <1>0, <1>3, AccountsAssumption DEF Copied, Row, Hash, ChangePassword
  <2> QED
    BY <1>0, <1>3, <2>1, <2>2, LoadIsFresh DEF ChangePassword
<1>4. ASSUME NEW w \in Words, Login(r, w) PROVE \E q : FreshLoad(r, q)
  <2> DEFINE want == [account EXCEPT !.hash.legacy = FALSE]
  <2>1. want \in Row
    BY <1>0, <1>4 DEF Row, Hash, Login
  <2>2. Copied(Made("login", want, w))
    BY <1>0, <1>4, AccountsAssumption DEF Copied, Row, Hash, Login, Matches
  <2> QED
    BY <1>0, <1>4, <2>1, <2>2, LoadIsFresh DEF Login
<1>5. ASSUME DeleteMyAccount(r) PROVE \E q : FreshLoad(r, q)
  <2> DEFINE want == [account EXCEPT !.hash = [word |-> Deleted, legacy |-> TRUE],
                                 !.reset = None, !.active = FALSE]
  <2>1. want \in Row
    BY <1>0, <1>5 DEF Row, Hash
  <2>2. Copied(Made("delete", want, None))
    BY <1>0, <1>5, AccountsAssumption DEF Copied, Row, Hash, DeleteMyAccount, CurrentUser, Confirmed, Matches
  <2> QED
    BY <1>0, <1>5, <2>1, <2>2, LoadIsFresh DEF DeleteMyAccount
<1>6. ASSUME NEW s \in Secrets, Setup2FA(r, s) PROVE \E q : FreshLoad(r, q)
  <2> DEFINE want == [account EXCEPT !.secret = s]
  <2>1. want \in Row
    BY <1>0, <1>6 DEF Row, Hash
  <2>2. Copied(Made("setup", want, s))
    BY <1>0, <1>6 DEF Copied, Row, Hash, Setup2FA, Draw
  <2> QED
    BY <1>0, <1>6, <2>1, <2>2, LoadIsFresh DEF Setup2FA, Draw
<1>7. ASSUME NEW s \in Secrets, Enable2FA(r, s) PROVE \E q : FreshLoad(r, q)
  <2> DEFINE want == [account EXCEPT !.enabled = TRUE]
  <2>1. want \in Row
    BY <1>0, <1>7 DEF Row, Hash
  <2>2. Copied(Made("enable", want, s))
    BY <1>0, <1>7 DEF Copied, Row, Hash, Enable2FA
  <2> QED
    BY <1>0, <1>7, <2>1, <2>2, LoadIsFresh DEF Enable2FA
<1>8. ASSUME NEW s \in Secrets, VerifyLogin(r, s) PROVE \E q : FreshLoad(r, q)
  <2> DEFINE want == account
  <2>1. want \in Row
    BY <1>0, <1>8 DEF Row, Hash
  <2>2. Copied(Made("verify", want, s))
    BY <1>0, <1>8 DEF Copied, Row, Hash, VerifyLogin
  <2> QED
    BY <1>0, <1>8, <2>1, <2>2, LoadIsFresh DEF VerifyLogin
<1>9. ASSUME Disable2FA(r) PROVE \E q : FreshLoad(r, q)
  <2> DEFINE want == [account EXCEPT !.enabled = FALSE, !.secret = None]
  <2>1. want \in Row
    BY <1>0, <1>9 DEF Row, Hash
  <2>2. Copied(Made("disable", want, None))
    BY <1>0, <1>9, AccountsAssumption DEF Copied, Row, Hash, Disable2FA
  <2> QED
    BY <1>0, <1>9, <2>1, <2>2, LoadIsFresh DEF Disable2FA
<1>10. ASSUME NEW k \in Links, VerifyEmail(r, k) PROVE \E q : FreshLoad(r, q)
  <2> DEFINE want == [account EXCEPT !.verified = TRUE, !.confirm = None]
  <2>1. want \in Row
    BY <1>0, <1>10 DEF Row, Hash
  <2>2. Copied(Made("confirm", want, k))
    BY <1>0, <1>10 DEF Copied, Row, Hash, VerifyEmail
  <2> QED
    BY <1>0, <1>10, <2>1, <2>2, LoadIsFresh DEF VerifyEmail
<1>11. ASSUME NEW k \in Links, ResendVerification(r, k) PROVE \E q : FreshLoad(r, q)
  <2> DEFINE want == [account EXCEPT !.confirm = k]
  <2>1. want \in Row
    BY <1>0, <1>11 DEF Row, Hash
  <2>2. Copied(Made("resend", want, k))
    BY <1>0, <1>11 DEF Copied, Row, Hash, ResendVerification, Draw
  <2> QED
    BY <1>0, <1>11, <2>1, <2>2, LoadIsFresh DEF ResendVerification, Draw
<1>12. ASSUME NEW blocked \in BOOLEAN, UpdateStatus(r, blocked) PROVE \E q : FreshLoad(r, q)
  <2> DEFINE want == [account EXCEPT !.open = ~blocked, !.active = ~blocked]
  <2>1. want \in Row
    BY <1>0, <1>12 DEF Row, Hash
  <2>2. Copied(Made("status", want, blocked))
    BY <1>0, <1>12, AccountsAssumption DEF Copied, Row, Hash, UpdateStatus
  <2> QED
    BY <1>0, <1>12, <2>1, <2>2, LoadIsFresh DEF UpdateStatus
<1> QED
  BY <1>1, <1>2, <1>3, <1>4, <1>5, <1>6, <1>7, <1>8, <1>9, <1>10, <1>11, <1>12
     DEF PasswordStep, FactorStep, MailStep, StatusStep

LEMMA FreshStep ==
    ASSUME AccountInv, NEW r \in Requests, NEW q, FreshLoad(r, q)
    PROVE  AccountInv'
<1>0. /\ AccountsTypeOK /\ LoadedInv /\ CopyInv /\ DrawnInv /\ UsesInv /\ DeletedInv
      /\ ChosenPasswordStands /\ ResetLinkSingleUse /\ EnabledSecretProved
  BY DEF AccountInv
<1>1. AccountsTypeOK'
  BY <1>0 DEF AccountsTypeOK, FreshLoad
<1>2. /\ \A p \in Requests \ {r} : request'[p] = request[p]
      /\ request'[r] = q
  BY <1>0 DEF AccountsTypeOK, FreshLoad
<1>3. LoadedInv'
  BY <1>0, <1>2 DEF LoadedInv, Busy, FreshLoad
<1>4. CopyInv'
  BY <1>0, <1>2 DEF CopyInv, Busy, FreshLoad
<1>5. DrawnInv'
  <2>1. \A p \in Requests : Draws(p)' => request'[p].about \in made' \ shown'
    BY <1>0, <1>2 DEF DrawnInv, Draws, Busy, FreshLoad, AccountsTypeOK
  <2>2. \A p, x \in Requests :
          Draws(p)' /\ Draws(x)' /\ request'[p].about = request'[x].about => p = x
    BY <1>0, <1>2 DEF DrawnInv, Draws, Busy, FreshLoad
  <2>3. \A p \in Requests :
          Busy(p)' /\ request'[p].op \in {"reset", "enable", "verify", "confirm"} =>
            request'[p].about \in shown'
    BY <1>0, <1>2 DEF DrawnInv, Busy, FreshLoad
  <2> QED
    BY <2>1, <2>2, <2>3 DEF DrawnInv
<1>6. UsesInv'
  <2>1. \A k \in Links : uses'[k] > 0 =>
          k \in shown' /\ (account'.reset # k \/ "reset" \in raced')
    BY <1>0 DEF UsesInv, FreshLoad
  <2>2. q.op = "reset" => uses[q.about] = 0 \/ "reset" \in raced
    BY <1>0 DEF UsesInv, FreshLoad, Copied, AccountsTypeOK
  <2>3. \A p \in Requests : Busy(p)' /\ request'[p].op = "reset" =>
          uses'[request'[p].about] = 0 \/ "reset" \in request'[p].missed \cup raced'
    BY <1>0, <1>2, <2>2 DEF UsesInv, Busy, FreshLoad
  <2> QED
    BY <2>1, <2>3 DEF UsesInv
<1>7. /\ DeletedInv' /\ ChosenPasswordStands' /\ ResetLinkSingleUse' /\ EnabledSecretProved'
  BY <1>0 DEF DeletedInv, ChosenPasswordStands, ResetLinkSingleUse, EnabledSecretProved, FreshLoad
<1> QED
  BY <1>1, <1>3, <1>4, <1>5, <1>6, <1>7 DEF AccountInv

-----------------------------------------------------------------------------
(* Committing.                                                               *)

\* What a commit leaves in each column, and what the others then miss.
LEMMA CommitWrites ==
    ASSUME AccountsTypeOK, NEW r \in Requests, Commit(r)
    PROVE  /\ request[r] \in Work /\ Busy(r) /\ Written(request[r]) \subseteq Columns
           /\ \A c \in Columns : account'[c] = IF c \in Written(request[r])
                                              THEN request[r].want[c] ELSE account[c]
           /\ request'[r] = Idle
           /\ \A p \in Requests \ {r} : Busy(p)' <=> Busy(p)
           /\ \A p \in Requests \ {r} : Busy(p) =>
                /\ request[p] \in Work /\ request'[p] \in Work
                /\ request'[p].op = request[p].op /\ request'[p].mine = request[p].mine
                /\ request'[p].want = request[p].want /\ request'[p].about = request[p].about
                /\ request'[p].missed = request[p].missed \cup Written(request[r])
<1>1. request[r] \in Work /\ Busy(r)
  BY DEF AccountsTypeOK, Commit, Busy
<1>2. Written(request[r]) \subseteq Columns
  BY DEF Written, Columns
<1>3. \A c \in Columns : account'[c] = IF c \in Written(request[r])
                                       THEN request[r].want[c] ELSE account[c]
  BY DEF Commit
<1>4. request' = [p \in Requests |->
                    IF p = r THEN Idle
                    ELSE IF request[p] = Idle THEN Idle
                    ELSE [request[p] EXCEPT !.missed = @ \cup Written(request[r])]]
  BY DEF Commit
<1>5. ASSUME NEW p \in Requests \ {r}, Busy(p)
      PROVE  /\ Busy(p)'
             /\ request[p] \in Work /\ request'[p] \in Work
             /\ request'[p].op = request[p].op /\ request'[p].mine = request[p].mine
             /\ request'[p].want = request[p].want /\ request'[p].about = request[p].about
             /\ request'[p].missed = request[p].missed \cup Written(request[r])
  <2>1. request[p] \in Work
    BY <1>5 DEF AccountsTypeOK, Busy
  <2>2. request'[p] = [request[p] EXCEPT !.missed = @ \cup Written(request[r])]
    BY <1>4, <1>5 DEF Busy
  <2>3. request'[p].op = request[p].op /\ request[p].op # "idle"
    BY <2>1, <2>2 DEF Work
  <2> QED
    BY <1>2, <2>1, <2>2, <2>3 DEF Work, Busy, Idle
<1>6. \A p \in Requests \ {r} : Busy(p)' <=> Busy(p)
  BY <1>4, <1>5 DEF Busy
<1> QED
  BY <1>1, <1>2, <1>3, <1>4, <1>5, <1>6

\* The columns by name.
LEMMA CommitColumns ==
    ASSUME AccountsTypeOK, NEW r \in Requests, Commit(r)
    PROVE  LET q == request[r]
               w == Written(q) IN
           /\ account' \in Row
           /\ account'.hash = IF "hash" \in w THEN q.want.hash ELSE account.hash
           /\ account'.reset = IF "reset" \in w THEN q.want.reset ELSE account.reset
           /\ account'.secret = IF "secret" \in w THEN q.want.secret ELSE account.secret
           /\ account'.enabled = IF "enabled" \in w THEN q.want.enabled ELSE account.enabled
           /\ account'.active = IF "active" \in w THEN q.want.active ELSE account.active
           /\ "hash" \in w <=> q.want.hash # q.mine.hash \/ q.op \in {"reset", "change"}
           /\ "reset" \in w <=> q.want.reset # q.mine.reset
           /\ "secret" \in w <=> q.want.secret # q.mine.secret
           /\ "enabled" \in w <=> q.want.enabled # q.mine.enabled
           /\ "active" \in w <=> q.want.active # q.mine.active
<1> DEFINE q == request[r]
           w == Written(q)
<1>1. /\ request[r] \in Work
      /\ \A c \in Columns : account'[c] = IF c \in w THEN q.want[c] ELSE account[c]
  BY CommitWrites
<1>2. q.want \in Row /\ account \in Row
  BY <1>1 DEF Work, AccountsTypeOK
<1>3. account' = [c \in Columns |-> IF c \in w THEN q.want[c] ELSE account[c]]
  BY DEF Commit
<1>4. account' = [hash |-> account'.hash, reset |-> account'.reset, confirm |-> account'.confirm,
                  verified |-> account'.verified, secret |-> account'.secret,
                  enabled |-> account'.enabled, active |-> account'.active,
                  open |-> account'.open]
  BY <1>3 DEF Columns
<1>5. account' \in Row
  BY <1>2, <1>3, <1>4 DEF Row, Columns
<1>6. \A c \in Columns : c \in w <=> q.want[c] # q.mine[c]
                                     \/ (c = "hash" /\ q.op \in {"reset", "change"})
  BY DEF Written
<1> QED
  BY <1>1, <1>5, <1>6 DEF Columns

LEMMA CommitStep ==
    ASSUME AccountInv, NEW r \in Requests, Commit(r)
    PROVE  AccountInv'
<1> DEFINE q == request[r]
           w == Written(q)
<1>0. /\ AccountsTypeOK /\ LoadedInv /\ CopyInv /\ DrawnInv /\ UsesInv /\ DeletedInv
      /\ ChosenPasswordStands /\ ResetLinkSingleUse /\ EnabledSecretProved
  BY DEF AccountInv
<1>1. /\ q \in Work /\ Busy(r) /\ w \subseteq Columns /\ request'[r] = Idle
      /\ \A c \in Columns : account'[c] = IF c \in w THEN q.want[c] ELSE account[c]
      /\ \A p \in Requests \ {r} : Busy(p)' <=> Busy(p)
      /\ \A p \in Requests \ {r} : Busy(p) =>
           /\ request[p] \in Work /\ request'[p] \in Work
           /\ request'[p].op = request[p].op /\ request'[p].mine = request[p].mine
           /\ request'[p].want = request[p].want /\ request'[p].about = request[p].about
           /\ request'[p].missed = request[p].missed \cup w
  BY <1>0, CommitWrites
<1>2. /\ account' \in Row
      /\ account'.hash = IF "hash" \in w THEN q.want.hash ELSE account.hash
      /\ account'.reset = IF "reset" \in w THEN q.want.reset ELSE account.reset
      /\ account'.secret = IF "secret" \in w THEN q.want.secret ELSE account.secret
      /\ account'.enabled = IF "enabled" \in w THEN q.want.enabled ELSE account.enabled
      /\ account'.active = IF "active" \in w THEN q.want.active ELSE account.active
      /\ "hash" \in w <=> q.want.hash # q.mine.hash \/ q.op \in {"reset", "change"}
      /\ "reset" \in w <=> q.want.reset # q.mine.reset
      /\ "secret" \in w <=> q.want.secret # q.mine.secret
      /\ "enabled" \in w <=> q.want.enabled # q.mine.enabled
      /\ "active" \in w <=> q.want.active # q.mine.active
  BY <1>0, CommitColumns
<1>3. /\ Copied(q)
      /\ \A c \in Columns \ q.missed : account[c] = q.mine[c]
  BY <1>0, <1>1 DEF CopyInv, LoadedInv
<1>4. /\ shown' = shown \cup ({q.about} \cap (Links \cup Secrets)) /\ made' = made
      /\ chosen' = IF q.op \in {"reset", "change", "delete"} THEN q.want.hash.word ELSE chosen
      /\ uses' = IF q.op = "reset" THEN [uses EXCEPT ![q.about] = @ + 1] ELSE uses
      /\ proved' = IF q.op = "enable" THEN proved \cup {q.about} ELSE proved
      /\ raced' = IF q.missed = {} THEN raced ELSE raced \cup q.missed \cup w
      /\ rehashed' = (rehashed \/ (q.op = "login" /\ "hash" \in q.missed \cap w))
      /\ deleted' = (deleted \/ q.op = "delete")
      /\ reopened' = (reopened \/ (deleted /\ q.op = "status" /\ ~q.about))
      /\ held' = Answered(q) /\ expired' = expired
  BY DEF Commit
<1>5. /\ q.mine \in Row /\ q.want \in Row /\ q.missed \subseteq Columns
      /\ q.about \in Links \cup Secrets \cup Words \cup {None} \cup BOOLEAN
      /\ account \in Row /\ shown \subseteq made
  BY <1>0, <1>1 DEF Work, AccountsTypeOK
<1>6. raced \subseteq raced' /\ q.missed \subseteq raced'
  BY <1>4
<1>7. q.op \in {"forgot", "reset", "change", "login", "setup", "enable", "disable",
                "verify", "confirm", "resend", "delete", "status"}
  BY <1>1 DEF Work
<1>8. q.about \in Links \cup Secrets =>
        \/ Draws(r)
        \/ q.op \in {"reset", "enable", "verify", "confirm"} /\ q.about \in shown
  BY <1>0, <1>1, <1>3, <1>7 DEF Copied, Draws, DrawnInv
<1>9. q.about \in Links \cup Secrets => q.about \in made
  BY <1>0, <1>5, <1>8 DEF DrawnInv
<1>10. AccountsTypeOK'
  <2>1. request' \in [Requests -> {Idle} \cup Work]
    <3>1. request' = [p \in Requests |-> request'[p]]
      BY DEF Commit
    <3>2. \A p \in Requests : request'[p] \in {Idle} \cup Work
      BY <1>1 DEF Busy
    <3> QED
      BY <3>1, <3>2
  <2>2. held' \in SUBSET {"access", "refresh", "partial"}
    BY <1>0, <1>4 DEF AccountsTypeOK, Answered
  <2>3. shown' \subseteq made'
    BY <1>4, <1>5, <1>9
  <2>4. chosen' \in Words \cup {Deleted}
    BY <1>0, <1>4, <1>5 DEF AccountsTypeOK, Row, Hash
  <2>5. uses' \in [Links -> Nat] /\ proved' \in SUBSET Secrets
    BY <1>0, <1>3, <1>4 DEF AccountsTypeOK, Copied
  <2>6. raced' \in SUBSET Columns
    BY <1>0, <1>1, <1>4, <1>5 DEF AccountsTypeOK
  <2>7. rehashed' \in BOOLEAN /\ deleted' \in BOOLEAN /\ reopened' \in BOOLEAN
    BY <1>0, <1>4 DEF AccountsTypeOK
  <2>8. made' \in SUBSET (Links \cup Secrets) /\ expired' \in SUBSET Links
    BY <1>0, <1>4 DEF AccountsTypeOK
  <2> QED
    BY <1>2, <2>1, <2>2, <2>3, <2>4, <2>5, <2>6, <2>7, <2>8 DEF AccountsTypeOK
<1>11. LoadedInv'
  <2> SUFFICES ASSUME NEW p \in Requests, Busy(p)', NEW c \in Columns,
                      c \notin request'[p].missed
               PROVE  account'[c] = request'[p].mine[c]
    BY DEF LoadedInv
  <2>1. p # r
    BY <1>1 DEF Busy
  <2> QED
    BY <1>0, <1>1, <2>1 DEF LoadedInv
<1>12. CopyInv'
  BY <1>0, <1>1 DEF CopyInv, Copied, Busy
<1>13. DrawnInv'
  <2>1. \A p \in Requests \ {r} : Draws(p)' <=> Draws(p)
    BY <1>1 DEF Draws
  <2>2. ~Draws(r)'
    BY <1>1 DEF Draws, Busy
  <2>3. \A p \in Requests : Draws(p)' => request'[p].about \in made' \ shown'
    <3> SUFFICES ASSUME NEW p \in Requests, Draws(p)'
                 PROVE  request'[p].about \in made' \ shown'
      OBVIOUS
    <3>1. p # r /\ Draws(p) /\ request'[p].about = request[p].about
      BY <1>1, <2>1, <2>2 DEF Draws
    <3>2. request[p].about \in made \ shown
      BY <1>0, <3>1 DEF DrawnInv
    <3>3. ~(q.about \in Links \cup Secrets /\ request[p].about = q.about)
      BY <1>0, <1>8, <3>1, <3>2 DEF DrawnInv
    <3> QED
      BY <1>4, <3>1, <3>2, <3>3
  <2>4. \A p, x \in Requests :
          Draws(p)' /\ Draws(x)' /\ request'[p].about = request'[x].about => p = x
    BY <1>0, <1>1, <2>1, <2>2 DEF DrawnInv, Draws
  <2>5. \A p \in Requests :
          Busy(p)' /\ request'[p].op \in {"reset", "enable", "verify", "confirm"} =>
            request'[p].about \in shown'
    BY <1>0, <1>1, <1>4 DEF DrawnInv, Busy
  <2> QED
    BY <2>3, <2>4, <2>5 DEF DrawnInv
<1>14. q.op = "reset" => /\ q.about \in Links \cap shown /\ "reset" \in w
                         /\ account'.reset = None
                         /\ uses[q.about] = 0 \/ "reset" \in raced'
  BY <1>0, <1>1, <1>2, <1>3, <1>6, AccountsAssumption DEF Copied, DrawnInv, UsesInv
<1>15. \A k \in Links : uses'[k] = IF q.op = "reset" /\ k = q.about THEN uses[k] + 1 ELSE uses[k]
  BY <1>0, <1>4 DEF AccountsTypeOK
<1>16. UsesInv'
  <2>1. ASSUME NEW k \in Links, uses'[k] > 0
        PROVE  k \in shown' /\ (account'.reset # k \/ "reset" \in raced')
    <3>1. CASE q.op = "reset" /\ k = q.about
      BY <1>4, <1>14, <3>1, AccountsAssumption
    <3>2. CASE ~(q.op = "reset" /\ k = q.about)
      <4>1. k \in shown /\ (account.reset # k \/ "reset" \in raced)
        BY <1>0, <1>15, <2>1, <3>2 DEF UsesInv
      <4>2. "reset" \in w => account'.reset # k
        <5>1. CASE q.op = "forgot"
          BY <1>0, <1>1, <1>2, <1>3, <4>1, <5>1 DEF Copied, Draws, DrawnInv
        <5>2. CASE q.op # "forgot"
          BY <1>2, <1>3, <5>2, AccountsAssumption DEF Copied
        <5> QED
          BY <5>1, <5>2
      <4> QED
        BY <1>2, <1>4, <1>6, <4>1, <4>2
    <3> QED
      BY <3>1, <3>2
  <2>2. ASSUME NEW p \in Requests, Busy(p)', request'[p].op = "reset"
        PROVE  uses'[request'[p].about] = 0 \/ "reset" \in request'[p].missed \cup raced'
    <3>1. p # r /\ Busy(p) /\ request[p].op = "reset"
      BY <1>1, <2>2 DEF Busy
    <3>2. request[p].about \in Links /\ request'[p].about = request[p].about
      BY <1>0, <1>1, <3>1 DEF CopyInv, Copied
    <3>3. uses[request[p].about] = 0 \/ "reset" \in request[p].missed \cup raced
      BY <1>0, <3>1 DEF UsesInv
    <3> QED
      BY <1>1, <1>6, <1>14, <1>15, <3>1, <3>2, <3>3
  <2> QED
    BY <2>1, <2>2 DEF UsesInv
<1>17. ResetLinkSingleUse'
  <2> SUFFICES ASSUME NEW k \in Links, uses'[k] > 1 PROVE "reset" \in raced'
    BY DEF ResetLinkSingleUse
  <2>1. uses[k] \in Nat
    BY <1>0 DEF AccountsTypeOK
  <2>2. CASE uses[k] > 1
    BY <1>0, <1>6, <2>2 DEF ResetLinkSingleUse
  <2>3. CASE ~(uses[k] > 1)
    BY <1>14, <1>15, <2>1, <2>3
  <2> QED
    BY <2>2, <2>3
<1>18. DeletedInv'
  <2>1. account'.hash.word = Deleted => deleted'
    BY <1>0, <1>2, <1>3, <1>4, AccountsAssumption DEF DeletedInv, Copied
  <2>2. CASE q.op = "delete"
    BY <1>2, <1>3, <1>4, <2>1, <2>2 DEF DeletedInv, Copied
  <2>3. CASE q.op = "status"
    BY <1>0, <1>2, <1>3, <1>4, <2>1, <2>3 DEF DeletedInv, Copied
  <2>4. CASE q.op \notin {"delete", "status"}
    BY <1>0, <1>2, <1>3, <1>4, <2>1, <2>4 DEF DeletedInv, Copied
  <2> QED
    BY <2>2, <2>3, <2>4
<1>19. ChosenPasswordStands'
  <2>1. CASE q.op \in {"reset", "change"}
    BY <1>2, <1>4, <2>1 DEF ChosenPasswordStands
  <2>2. CASE q.op = "delete"
    BY <1>2, <1>3, <1>4, <2>2, AccountsAssumption DEF ChosenPasswordStands, Copied
  <2>3. CASE q.op = "login"
    <3>1. "hash" \notin q.missed => account.hash = q.mine.hash
      BY <1>3 DEF Columns
    <3> QED
      BY <1>0, <1>2, <1>3, <1>4, <2>3, <3>1 DEF ChosenPasswordStands, Copied
  <2>4. CASE q.op \notin {"reset", "change", "delete", "login"}
    BY <1>0, <1>2, <1>3, <1>4, <2>4 DEF ChosenPasswordStands, Copied
  <2> QED
    BY <2>1, <2>2, <2>3, <2>4
<1>20. EnabledSecretProved'
  <2>1. /\ "secret" \notin q.missed => account.secret = q.mine.secret
        /\ "enabled" \notin q.missed => account.enabled = q.mine.enabled
    BY <1>3 DEF Columns
  <2>2. CASE q.op = "enable"
    BY <1>2, <1>3, <1>4, <1>6, <2>1, <2>2 DEF EnabledSecretProved, Copied
  <2>3. CASE q.op = "setup"
    BY <1>2, <1>3, <1>4, <1>6, <2>1, <2>3 DEF EnabledSecretProved, Copied
  <2>4. CASE q.op = "disable"
    BY <1>2, <1>3, <2>4 DEF EnabledSecretProved, Copied
  <2>5. CASE q.op \notin {"enable", "setup", "disable"}
    BY <1>0, <1>2, <1>3, <1>4, <1>6, <2>5 DEF EnabledSecretProved, Copied
  <2> QED
    BY <2>2, <2>3, <2>4, <2>5
<1> QED
  BY <1>10, <1>11, <1>12, <1>13, <1>16, <1>17, <1>18, <1>19, <1>20 DEF AccountInv

LEMMA AbandonStep ==
    ASSUME AccountInv, NEW r \in Requests, Abandon(r)
    PROVE  AccountInv'
<1>0. /\ AccountsTypeOK /\ LoadedInv /\ CopyInv /\ DrawnInv /\ UsesInv /\ DeletedInv
      /\ ChosenPasswordStands /\ ResetLinkSingleUse /\ EnabledSecretProved
  BY DEF AccountInv
<1>1. /\ UNCHANGED <<account, held, made, shown, expired, chosen, uses, proved, raced,
                     rehashed, deleted, reopened>>
      /\ request' = [request EXCEPT ![r] = Idle]
  BY DEF Abandon
<1>2. /\ \A p \in Requests \ {r} : request'[p] = request[p]
      /\ request'[r] = Idle
  BY <1>0, <1>1 DEF AccountsTypeOK
<1>3. AccountsTypeOK'
  BY <1>0, <1>1 DEF AccountsTypeOK
<1>4. LoadedInv' /\ CopyInv'
  BY <1>0, <1>1, <1>2 DEF LoadedInv, CopyInv, Busy
<1>5. DrawnInv'
  BY <1>0, <1>1, <1>2 DEF DrawnInv, Draws, Busy
<1>6. UsesInv'
  BY <1>0, <1>1, <1>2 DEF UsesInv, Busy
<1>7. DeletedInv' /\ ChosenPasswordStands' /\ ResetLinkSingleUse' /\ EnabledSecretProved'
  BY <1>0, <1>1 DEF DeletedInv, ChosenPasswordStands, ResetLinkSingleUse, EnabledSecretProved
<1> QED
  BY <1>3, <1>4, <1>5, <1>6, <1>7 DEF AccountInv

\* Tokens and links come to nothing on their own; the row stays as it is.
LEMMA TokenOrExpiryStep ==
    ASSUME AccountInv, TokenStep \/ ExpiryStep
    PROVE  AccountInv'
<1>1. /\ UNCHANGED <<account, request, made, shown, chosen, uses, proved, raced,
                     rehashed, deleted, reopened>>
      /\ held' \subseteq held \cup {"access"} /\ expired' \subseteq expired \cup Links
  BY DEF TokenStep, ExpiryStep, Refresh, TokenExpires, LinkExpires
<1>2. AccountsTypeOK'
  BY <1>1 DEF AccountInv, AccountsTypeOK
<1> QED
  BY <1>1, <1>2 DEF AccountInv, LoadedInv, CopyInv, DrawnInv, UsesInv, DeletedInv, Busy, Draws,
     ChosenPasswordStands, ResetLinkSingleUse, EnabledSecretProved

LEMMA StutterStep == AccountInv /\ UNCHANGED accountVars => AccountInv'
BY DEF AccountInv, AccountsTypeOK, LoadedInv, CopyInv, DrawnInv, UsesInv, DeletedInv, Busy, Draws,
   ChosenPasswordStands, ResetLinkSingleUse, EnabledSecretProved, accountVars

LEMMA AccountNextInv == AccountInv /\ [AccountsNext]_accountVars => AccountInv'
<1> SUFFICES ASSUME AccountInv, [AccountsNext]_accountVars PROVE AccountInv'
  OBVIOUS
<1>1. ASSUME NEW r \in Requests, PasswordStep(r) \/ FactorStep(r) \/ MailStep(r) \/ StatusStep(r)
      PROVE  AccountInv'
  BY <1>1, HandlersLoad, FreshStep DEF AccountInv
<1>2. CASE EndStep
  BY <1>2, CommitStep, AbandonStep DEF EndStep
<1>3. CASE TokenStep \/ ExpiryStep
  BY <1>3, TokenOrExpiryStep
<1>4. CASE UNCHANGED accountVars
  BY <1>4, StutterStep
<1> QED
  BY <1>1, <1>2, <1>3, <1>4 DEF AccountsNext

-----------------------------------------------------------------------------
(* The theorems.                                                             *)

\* The inductive invariant holds throughout.
THEOREM AccountsInvariance == AccountsSpec => []AccountInv
<1>1. AccountsInit => AccountInv
  BY AccountInitInv
<1>2. AccountInv /\ [AccountsNext]_accountVars => AccountInv'
  BY AccountNextInv
<1> QED
  BY <1>1, <1>2, PTL DEF AccountsSpec

\* The row, the requests and the histories keep their types, however handlers overlap.
THEOREM AccountsTypeCorrect == AccountsSpec => []AccountsTypeOK
<1>1. AccountInv => AccountsTypeOK
  BY DEF AccountInv
<1> QED
  BY <1>1, AccountsInvariance, PTL

\* The password that works is the one chosen last, whatever stale copies are committed: only
\* the re-hash of a login can undo a choice.  A reset link sets one password, unless two
\* uses overlap.
THEOREM PasswordStands == AccountsSpec => [](ChosenPasswordStands /\ ResetLinkSingleUse)
<1>1. AccountInv => ChosenPasswordStands /\ ResetLinkSingleUse
  BY DEF AccountInv
<1> QED
  BY <1>1, AccountsInvariance, PTL

\* A second factor that is on has a secret whose code was shown, unless a setup or a
\* deactivation overlapped the activation.
THEOREM SecondFactorProved == AccountsSpec => []EnabledSecretProved
<1>1. AccountInv => EnabledSecretProved
  BY DEF AccountInv
<1> QED
  BY <1>1, AccountsInvariance, PTL

\* After the deletion no token is handed out, but by a request that had loaded the row before
\* it or once an administrator has unblocked the workspace.
THEOREM DeletedStaysOut == AccountsSpec => DeletedIssuesNothing
<1>1. ASSUME AccountInv, [AccountsNext]_accountVars,
             deleted, ~reopened, ~(held' \subseteq held)
      PROVE  \E r \in Requests : request[r] # Idle /\ request'[r] = Idle
                                  /\ "active" \in request[r].missed
  <2>1. AccountsTypeOK /\ LoadedInv /\ CopyInv /\ ~account.active
    BY <1>1 DEF AccountInv, DeletedInv
  <2>2. ASSUME NEW r \in Requests,
               PasswordStep(r) \/ FactorStep(r) \/ MailStep(r) \/ StatusStep(r)
        PROVE  FALSE
    <3>1. PICK q : FreshLoad(r, q)
      BY <2>1, <2>2, HandlersLoad
    <3> QED
      BY <1>1, <3>1 DEF FreshLoad
  <2>3. ASSUME NEW r \in Requests, Commit(r)
        PROVE  request[r] # Idle /\ request'[r] = Idle /\ "active" \in request[r].missed
    <3>1. request[r] # Idle /\ request'[r] = Idle /\ held' = Answered(request[r])
      BY <2>3 DEF Commit
    <3>2. request[r].op \in {"login", "verify"}
      BY <1>1, <3>1 DEF Answered
    <3>3. request[r].mine.active
      BY <2>1, <3>1, <3>2 DEF CopyInv, Busy, Copied
    <3>4. "active" \notin request[r].missed => account.active = request[r].mine.active
      BY <2>1, <3>1 DEF LoadedInv, Busy, Columns
    <3> QED
      BY <2>1, <3>1, <3>3, <3>4
  <2>4. ASSUME NEW r \in Requests, Abandon(r) PROVE FALSE
    BY <1>1, <2>4 DEF Abandon
  <2>5. CASE TokenStep
    BY <1>1, <2>1, <2>5 DEF TokenStep, Refresh, TokenExpires
  <2>6. CASE ExpiryStep \/ UNCHANGED accountVars
    BY <1>1, <2>6 DEF ExpiryStep, LinkExpires, accountVars
  <2> QED
    BY <1>1, <2>2, <2>3, <2>4, <2>5, <2>6 DEF AccountsNext, EndStep
<1>2. AccountInv /\ [AccountsNext]_accountVars =>
        [deleted /\ ~reopened /\ ~(held' \subseteq held)
           => \E r \in Requests : request[r] # Idle /\ request'[r] = Idle
                                  /\ "active" \in request[r].missed]_accountVars
  BY <1>1
<1> QED
  BY <1>2, AccountsInvariance, PTL DEF AccountsSpec, DeletedIssuesNothing

-----------------------------------------------------------------------------
(* AccountRows.  An insert that overlaps none finds what it looked for: who  *)
(* has found nothing meets an equal row only under a key of sided, and who    *)
(* has counted the members, with no other invitation under way, has a seat.   *)

\* Who has looked for an address and found nothing meets it only if inserts overlapped.
MemberInv ==
    /\ \A c \in Callers : caller[c].do = "members" =>
         \A m \in members : m.key = caller[c].key => <<"members", m.key>> \in sided
    /\ \A a, b \in members : a.key = b.key => a = b \/ <<"members", a.key>> \in sided

DeviceInv ==
    /\ \A c \in Callers : caller[c].do = "devices" /\ caller[c].row = {} =>
         \A d \in devices : d.key = caller[c].key => <<"devices", d.key>> \in sided
    /\ \A a, b \in devices : a.key = b.key => a = b \/ <<"devices", a.key>> \in sided

CustomInv == \A a, b \in customs : a.key = b.key => a = b

\* A request that has counted has a seat of its own.
SeatInv ==
    /\ IsFiniteSet(members)
    /\ ~overseated =>
         /\ Cardinality(members) <= seats
         /\ Inviting # {} => Cardinality(members) < seats
         /\ \A c, d \in Inviting : c = d

RowsInv == RowsTypeOK /\ MemberInv /\ DeviceInv /\ CustomInv /\ SeatInv

LEMMA RowsInitInv == RowsInit => RowsInv
<1> SUFFICES ASSUME RowsInit PROVE RowsInv
  OBVIOUS
<1> USE AccountRowsAssumption
<1>1. RowsTypeOK
  <2>1. caller \in [Callers -> CallerState]
    BY DEF RowsInit, CallerState
  <2>2. nextId \in 1..(MaxRows + 1)
    BY DEF RowsInit
  <2> QED
    BY <2>1, <2>2 DEF RowsInit, RowsTypeOK
<1>2. MemberInv /\ DeviceInv /\ CustomInv
  BY DEF RowsInit, MemberInv, DeviceInv, CustomInv, Resting
<1>3. Inviting = {}
  BY DEF RowsInit, Inviting, Resting
<1>4. SeatInv
  BY <1>3, FS_EmptySet DEF RowsInit, SeatInv
<1> QED
  BY <1>1, <1>2, <1>4 DEF RowsInv

\* The forms a request in progress has.
LEMMA CallerForms ==
    ASSUME RowsTypeOK, NEW c \in Callers
    PROVE  /\ caller[c] \in CallerState
           /\ caller[c] # Resting => caller[c].key \in Keys
           /\ caller[c].do \in {"counted", "members", "customs"} =>
                caller[c] = [do |-> caller[c].do, key |-> caller[c].key]
           /\ caller[c].do = "devices" =>
                caller[c] = [do |-> "devices", key |-> caller[c].key, row |-> caller[c].row]
                /\ caller[c].row \in SUBSET KeyedRow
           /\ caller[c].do \in {"rest", "counted", "members", "customs", "devices"}
           /\ (caller[c].do = "rest") <=> (caller[c] = Resting)
<1>1. caller[c] \in CallerState
  BY DEF RowsTypeOK
<1>2. CASE caller[c] = Resting
  BY <1>1, <1>2 DEF Resting
<1>3. CASE caller[c] \in [do : {"counted", "members", "customs"}, key : Keys]
  BY <1>1, <1>3 DEF Resting
<1>4. CASE caller[c] \in [do : {"devices"}, key : Keys, row : SUBSET KeyedRow]
  BY <1>1, <1>4 DEF Resting
<1> QED
  BY <1>1, <1>2, <1>3, <1>4 DEF CallerState

LEMMA BecomesTyped ==
    ASSUME RowsTypeOK, NEW c \in Callers, NEW q \in CallerState, Becomes(c, q)
    PROVE  caller' \in [Callers -> CallerState]
BY DEF RowsTypeOK, Becomes

LEMMA InsertTyped ==
    ASSUME RowsTypeOK, NEW c \in Callers, NEW t \in Tables, NEW k \in Keys, Insert(c, t, k)
    PROVE  /\ nextId \in RowIds /\ nextId' \in 1..(MaxRows + 1)
           /\ caller' \in [Callers -> CallerState]
           /\ sided' \in SUBSET (Tables \X Keys)
<1>1. Resting \in CallerState /\ Becomes(c, Resting)
  BY DEF CallerState, Insert
<1>2. caller' \in [Callers -> CallerState]
  BY <1>1, BecomesTyped
<1>3. sided' \in SUBSET (Tables \X Keys)
  BY DEF RowsTypeOK, Insert
<1> QED
  BY <1>2, <1>3, AccountRowsAssumption DEF RowsTypeOK, Insert, RowIds

LEMMA RowsTypeStep == RowsTypeOK /\ [RowsNext]_rowVars => RowsTypeOK'
<1> SUFFICES ASSUME RowsTypeOK, [RowsNext]_rowVars PROVE RowsTypeOK'
  OBVIOUS
<1> USE AccountRowsAssumption
<1>1. ASSUME NEW c \in Callers, NEW k \in Keys, CountSeats(c, k) PROVE RowsTypeOK'
  <2>1. [do |-> "counted", key |-> k] \in CallerState
    BY DEF CallerState
  <2>2. caller' \in [Callers -> CallerState]
    BY <1>1, <2>1, BecomesTyped DEF CountSeats
  <2> QED
    BY <1>1, <2>2 DEF RowsTypeOK, CountSeats
<1>2. ASSUME NEW c \in Callers, NEW k \in Keys, FindDevice(c, k) PROVE RowsTypeOK'
  <2>1. [do |-> "devices", key |-> k, row |-> {d \in devices : d.key = k}] \in CallerState
    BY DEF CallerState, RowsTypeOK
  <2>2. caller' \in [Callers -> CallerState]
    BY <1>2, <2>1, BecomesTyped DEF FindDevice
  <2> QED
    BY <1>2, <2>2 DEF RowsTypeOK, FindDevice
<1>3. ASSUME NEW c \in Callers, NEW k \in Keys, FindSlug(c, k) PROVE RowsTypeOK'
  <2>1. [do |-> "customs", key |-> k] \in CallerState
    BY DEF CallerState
  <2>2. caller' \in [Callers -> CallerState]
    BY <1>3, <2>1, BecomesTyped DEF FindSlug
  <2> QED
    BY <1>3, <2>2 DEF RowsTypeOK, FindSlug
<1>4. ASSUME NEW c \in Callers, FindInvited(c) PROVE RowsTypeOK'
  <2>1. caller[c] = [do |-> "counted", key |-> caller[c].key] /\ caller[c].key \in Keys
    BY <1>4, CallerForms DEF FindInvited, Resting
  <2>2. [caller[c] EXCEPT !.do = "members"] = [do |-> "members", key |-> caller[c].key]
    BY <2>1
  <2>3. Resting \in CallerState /\ [do |-> "members", key |-> caller[c].key] \in CallerState
    BY <2>1 DEF CallerState
  <2>4. \E q \in CallerState : Becomes(c, q)
    BY <1>4, <2>2, <2>3 DEF FindInvited
  <2>5. caller' \in [Callers -> CallerState]
    BY <2>4, BecomesTyped
  <2> QED
    BY <1>4, <2>5 DEF RowsTypeOK, FindInvited
<1>5. ASSUME NEW c \in Callers, CallerFails(c) PROVE RowsTypeOK'
  <2>1. caller' \in [Callers -> CallerState]
    BY <1>5, BecomesTyped DEF CallerFails, CallerState
  <2> QED
    BY <1>5, <2>1 DEF RowsTypeOK, CallerFails
<1>6. ASSUME NEW c \in Callers, InviteMember(c) PROVE RowsTypeOK'
  <2>1. caller[c].key \in Keys /\ "members" \in Tables
    BY <1>6, CallerForms DEF InviteMember, Tables, Resting
  <2>2. /\ nextId \in RowIds /\ nextId' \in 1..(MaxRows + 1)
        /\ caller' \in [Callers -> CallerState] /\ sided' \in SUBSET (Tables \X Keys)
    BY <1>6, <2>1, InsertTyped DEF InviteMember
  <2> QED
    BY <1>6, <2>1, <2>2 DEF RowsTypeOK, InviteMember
<1>7. ASSUME NEW c \in Callers, RegisterDevice(c) PROVE RowsTypeOK'
  <2>1. caller[c].key \in Keys /\ "devices" \in Tables
    BY <1>7, CallerForms DEF RegisterDevice, Tables, Resting
  <2>2. CASE /\ Insert(c, "devices", caller[c].key)
             /\ devices' = devices \cup {[id |-> nextId, key |-> caller[c].key, on |-> TRUE]}
    <3>1. /\ nextId \in RowIds /\ nextId' \in 1..(MaxRows + 1)
          /\ caller' \in [Callers -> CallerState] /\ sided' \in SUBSET (Tables \X Keys)
      BY <2>1, <2>2, InsertTyped
    <3>2. devices' \in SUBSET KeyedRow
      <4>1. [id |-> nextId, key |-> caller[c].key, on |-> TRUE] \in KeyedRow
        BY <2>1, <3>1 DEF KeyedRow
      <4> QED
        BY <2>2, <4>1 DEF RowsTypeOK
    <3>3. UNCHANGED <<members, customs, seats, overseated>>
      BY <1>7 DEF RegisterDevice
    <3> QED
      BY <3>1, <3>2, <3>3 DEF RowsTypeOK
  <2>3. CASE /\ devices' = {IF \E r \in caller[c].row : r.id = d.id /\ ~r.on
                             THEN [d EXCEPT !.on = TRUE] ELSE d : d \in devices}
             /\ Becomes(c, Resting) /\ UNCHANGED <<nextId, sided>>
    <3>1. caller' \in [Callers -> CallerState]
      BY <2>3, BecomesTyped DEF CallerState
    <3>2. devices' \in SUBSET KeyedRow
      BY <2>3 DEF RowsTypeOK, KeyedRow
    <3> QED
      BY <1>7, <2>3, <3>1, <3>2 DEF RowsTypeOK, RegisterDevice
  <2> QED
    BY <1>7, <2>2, <2>3 DEF RegisterDevice
<1>8. ASSUME NEW c \in Callers, CreateCustomModule(c) PROVE RowsTypeOK'
  <2>1. caller[c].key \in Keys /\ "customs" \in Tables
    BY <1>8, CallerForms DEF CreateCustomModule, Tables, Resting
  <2>2. CASE /\ Insert(c, "customs", caller[c].key)
             /\ customs' = customs \cup {[id |-> nextId, key |-> caller[c].key, on |-> TRUE]}
    <3>1. /\ nextId \in RowIds /\ nextId' \in 1..(MaxRows + 1)
          /\ caller' \in [Callers -> CallerState] /\ sided' \in SUBSET (Tables \X Keys)
      BY <2>1, <2>2, InsertTyped
    <3>2. customs' \in SUBSET KeyedRow
      <4>1. [id |-> nextId, key |-> caller[c].key, on |-> TRUE] \in KeyedRow
        BY <2>1, <3>1 DEF KeyedRow
      <4> QED
        BY <2>2, <4>1 DEF RowsTypeOK
    <3>3. UNCHANGED <<members, devices, seats, overseated>>
      BY <1>8 DEF CreateCustomModule
    <3> QED
      BY <3>1, <3>2, <3>3 DEF RowsTypeOK
  <2>3. CASE Becomes(c, Resting) /\ UNCHANGED <<customs, nextId, sided>>
    <3>1. caller' \in [Callers -> CallerState]
      BY <2>3, BecomesTyped DEF CallerState
    <3> QED
      BY <1>8, <2>3, <3>1 DEF RowsTypeOK, CreateCustomModule
  <2> QED
    BY <1>8, <2>2, <2>3 DEF CreateCustomModule
<1>9. ASSUME NEW m \in members, RemoveMember(m) PROVE RowsTypeOK'
  BY <1>9 DEF RowsTypeOK, RemoveMember
<1>10. ASSUME NEW d \in devices, RevokeSession(d) PROVE RowsTypeOK'
  BY <1>10 DEF RowsTypeOK, RevokeSession, KeyedRow
<1>11. ASSUME NEW u \in customs, DeleteCustomModule(u) PROVE RowsTypeOK'
  BY <1>11 DEF RowsTypeOK, DeleteCustomModule, KeyedRow
<1>12. ASSUME NEW n \in SeatLimits, ChangePlan(n) PROVE RowsTypeOK'
  BY <1>12 DEF RowsTypeOK, ChangePlan
<1>13. CASE Logout
  BY <1>13 DEF RowsTypeOK, Logout, KeyedRow
<1>14. CASE UNCHANGED rowVars
  BY <1>14 DEF RowsTypeOK, rowVars
<1> QED
  BY <1>1, <1>2, <1>3, <1>4, <1>5, <1>6, <1>7, <1>8, <1>9, <1>10, <1>11, <1>12, <1>13, <1>14
     DEF RowsNext


-----------------------------------------------------------------------------
\* What preserves each part: no new rows of its table, and nobody newly past its look-up.
LEMMA MemberFrame ==
    ASSUME MemberInv, members' \subseteq members, sided \subseteq sided',
           \A c \in Callers : caller'[c].do = "members" => caller'[c] = caller[c]
    PROVE  MemberInv'
BY DEF MemberInv

LEMMA DeviceFrame ==
    ASSUME DeviceInv, sided \subseteq sided',
           \A d \in devices' : \E x \in devices : x.key = d.key,
           \A d, f \in devices' : d.key = f.key =>
               d = f \/ \E x, y \in devices : x # y /\ x.key = d.key /\ y.key = d.key,
           \A c \in Callers : caller'[c].do = "devices" => caller'[c] = caller[c]
    PROVE  DeviceInv'
BY DEF DeviceInv

LEMMA SeatFrame ==
    ASSUME SeatInv, RowsTypeOK, members' \subseteq members, seats' = seats,
           overseated => overseated',
           \A c \in Callers : caller'[c].do \in {"counted", "members"} =>
               caller[c].do \in {"counted", "members"}
    PROVE  SeatInv'
<1>1. IsFiniteSet(members') /\ Cardinality(members') <= Cardinality(members)
  BY FS_Subset DEF SeatInv
<1>2. Cardinality(members) \in Nat /\ Cardinality(members') \in Nat /\ seats \in Nat
  BY <1>1, FS_CardinalityType, AccountRowsAssumption DEF SeatInv, RowsTypeOK
<1>3. Inviting' \subseteq Inviting
  BY DEF Inviting
<1> QED
  BY <1>1, <1>2, <1>3 DEF SeatInv

\* After c's insert of k, who else was about to insert k knows.
LEMMA InsertSides ==
    ASSUME RowsTypeOK, NEW c \in Callers, NEW t \in Tables, NEW k \in Keys, Insert(c, t, k)
    PROVE  /\ sided \subseteq sided'
           /\ caller' = [caller EXCEPT ![c] = Resting]
           /\ \A x \in Callers : x # c /\ caller[x].do = t /\ caller[x].key = k => <<t, k>> \in sided'
<1>1. caller' = [caller EXCEPT ![c] = Resting] /\ sided \subseteq sided'
  BY DEF Insert, Becomes
<1>2. ASSUME NEW x \in Callers, x # c, caller[x].do = t, caller[x].key = k
      PROVE  <<t, k>> \in sided'
  <2>1. caller[x] # Resting
    BY <1>2 DEF Resting, Tables
  <2>2. x \in Inserting(t, k)
    BY <1>2, <2>1 DEF Inserting
  <2> QED
    BY <1>2, <2>2 DEF Insert
<1> QED
  BY <1>1, <1>2

LEMMA MemberStep == RowsInv /\ [RowsNext]_rowVars => MemberInv'
<1> SUFFICES ASSUME RowsInv, [RowsNext]_rowVars PROVE MemberInv'
  OBVIOUS
<1>0. RowsTypeOK /\ MemberInv /\ caller \in [Callers -> CallerState]
  BY DEF RowsInv, RowsTypeOK
<1>1. ASSUME NEW c \in Callers, NEW k \in Keys, CountSeats(c, k) \/ FindDevice(c, k) \/ FindSlug(c, k)
      PROVE  MemberInv'
  <2>1. members' = members /\ sided' = sided
    BY <1>1 DEF CountSeats, FindDevice, FindSlug
  <2>2. \A x \in Callers : caller'[x].do = "members" => caller'[x] = caller[x]
    BY <1>0, <1>1 DEF CountSeats, FindDevice, FindSlug, Becomes
  <2> QED
    BY <1>0, <2>1, <2>2, MemberFrame
<1>2. ASSUME NEW c \in Callers, FindInvited(c) PROVE MemberInv'
  <2>1. CASE \E m \in members : m.key = caller[c].key
    <3>1. \A x \in Callers : caller'[x].do = "members" => caller'[x] = caller[x]
      BY <1>0, <1>2, <2>1 DEF FindInvited, Becomes, Resting
    <3> QED
      BY <1>0, <1>2, <3>1, MemberFrame DEF FindInvited
  <2>2. CASE ~\E m \in members : m.key = caller[c].key
    <3>1. caller[c] = [do |-> "counted", key |-> caller[c].key]
      BY <1>0, <1>2, CallerForms DEF FindInvited
    <3>2. [caller[c] EXCEPT !.do = "members"].key = caller[c].key
      BY <3>1
    <3>3. caller' = [caller EXCEPT ![c] = [caller[c] EXCEPT !.do = "members"]]
      BY <1>2, <2>2 DEF FindInvited, Becomes
    <3>4. members' = members /\ sided' = sided
      BY <1>2 DEF FindInvited
    <3>5. caller'[c].key = caller[c].key /\ \A x \in Callers \ {c} : caller'[x] = caller[x]
      BY <1>0, <3>2, <3>3
    <3> QED
      BY <1>0, <2>2, <3>4, <3>5 DEF MemberInv
  <2> QED
    BY <2>1, <2>2
<1>3. ASSUME NEW c \in Callers, CallerFails(c) PROVE MemberInv'
  <2>1. \A x \in Callers : caller'[x].do = "members" => caller'[x] = caller[x]
    BY <1>0, <1>3 DEF CallerFails, Becomes, Resting
  <2> QED
    BY <1>0, <1>3, <2>1, MemberFrame DEF CallerFails
<1>4. ASSUME NEW c \in Callers, InviteMember(c) PROVE MemberInv'
  <2> DEFINE k == caller[c].key
  <2>1. k \in Keys /\ "members" \in Tables /\ caller[c].do = "members"
    BY <1>0, <1>4, CallerForms DEF InviteMember, Tables, Resting
  <2>2. Insert(c, "members", k)
    BY <1>4 DEF InviteMember
  <2>3. /\ sided \subseteq sided' /\ caller' = [caller EXCEPT ![c] = Resting]
        /\ \A x \in Callers : x # c /\ caller[x].do = "members" /\ caller[x].key = k
                              => <<"members", k>> \in sided'
    BY <1>0, <2>1, <2>2, InsertSides
  <2>4. members' = members \cup {[id |-> nextId, key |-> k]}
    BY <1>4 DEF InviteMember
  <2>5. \A x \in Callers : caller'[x].do = "members" => x # c /\ caller'[x] = caller[x]
    BY <1>0, <2>3 DEF Resting
  <2>6. \A m \in members : m.key = k => <<"members", k>> \in sided'
    BY <1>0, <2>1, <2>3 DEF MemberInv
  <2>7. [id |-> nextId, key |-> k].key = k
    OBVIOUS
  <2> HIDE DEF k
  <2>8. \A x \in Callers : caller'[x].do = "members" =>
           \A m \in members' : m.key = caller'[x].key => <<"members", m.key>> \in sided'
    BY <1>0, <2>3, <2>4, <2>5, <2>7 DEF MemberInv
  <2>9. \A a, b \in members' : a.key = b.key => a = b \/ <<"members", a.key>> \in sided'
    BY <1>0, <2>3, <2>4, <2>6, <2>7 DEF MemberInv
  <2> QED
    BY <2>8, <2>9 DEF MemberInv
<1>5. ASSUME NEW c \in Callers, RegisterDevice(c) \/ CreateCustomModule(c) PROVE MemberInv'
  <2>1. caller' = [caller EXCEPT ![c] = Resting] /\ sided \subseteq sided' /\ members' = members
    BY <1>5 DEF RegisterDevice, CreateCustomModule, Insert, Becomes
  <2>2. \A x \in Callers : caller'[x].do = "members" => caller'[x] = caller[x]
    BY <1>0, <2>1 DEF Resting
  <2> QED
    BY <1>0, <2>1, <2>2, MemberFrame
<1>6. ASSUME members' \subseteq members, sided' = sided, caller' = caller PROVE MemberInv'
  BY <1>0, <1>6, MemberFrame
<1> QED
  BY <1>1, <1>2, <1>3, <1>4, <1>5, <1>6 DEF RowsNext, RemoveMember, RevokeSession,
     DeleteCustomModule, ChangePlan, Logout, rowVars

LEMMA DeviceStep == RowsInv /\ [RowsNext]_rowVars => DeviceInv'
<1> SUFFICES ASSUME RowsInv, [RowsNext]_rowVars PROVE DeviceInv'
  OBVIOUS
<1>0. RowsTypeOK /\ DeviceInv /\ caller \in [Callers -> CallerState]
  BY DEF RowsInv, RowsTypeOK
<1>1. ASSUME devices' = devices, sided \subseteq sided',
             \A c \in Callers : caller'[c].do = "devices" => caller'[c] = caller[c]
      PROVE  DeviceInv'
  BY <1>0, <1>1 DEF DeviceInv
<1>2. ASSUME NEW c \in Callers, NEW k \in Keys, CountSeats(c, k) \/ FindSlug(c, k) PROVE DeviceInv'
  <2>1. devices' = devices /\ sided' = sided
    BY <1>2 DEF CountSeats, FindSlug
  <2>2. \A x \in Callers : caller'[x].do = "devices" => caller'[x] = caller[x]
    BY <1>0, <1>2 DEF CountSeats, FindSlug, Becomes
  <2> QED
    BY <1>1, <2>1, <2>2
<1>3. ASSUME NEW c \in Callers, NEW k \in Keys, FindDevice(c, k) PROVE DeviceInv'
  <2> DEFINE q == [do |-> "devices", key |-> k, row |-> {d \in devices : d.key = k}]
  <2>1. /\ caller' = [caller EXCEPT ![c] = q]
        /\ devices' = devices /\ sided' = sided
    BY <1>3 DEF FindDevice, Becomes
  <2>2. q.row = {} => \A d \in devices : d.key # k
    OBVIOUS
  <2>3. q.key = k
    OBVIOUS
  <2>4. caller'[c] = q /\ \A x \in Callers \ {c} : caller'[x] = caller[x]
    BY <1>0, <2>1
  <2> HIDE DEF q
  <2> QED
    BY <1>0, <2>1, <2>2, <2>3, <2>4 DEF DeviceInv
<1>4. ASSUME NEW c \in Callers, FindInvited(c) PROVE DeviceInv'
  <2>1. caller[c] = [do |-> "counted", key |-> caller[c].key]
    BY <1>0, <1>4, CallerForms DEF FindInvited
  <2>2. [caller[c] EXCEPT !.do = "members"].do = "members"
    BY <2>1
  <2>3. \A x \in Callers : caller'[x].do = "devices" => caller'[x] = caller[x]
    BY <1>0, <1>4, <2>2 DEF FindInvited, Becomes, Resting
  <2> QED
    BY <1>1, <1>4, <2>3 DEF FindInvited
<1>5. ASSUME NEW c \in Callers, CallerFails(c) PROVE DeviceInv'
  <2>1. \A x \in Callers : caller'[x].do = "devices" => caller'[x] = caller[x]
    BY <1>0, <1>5 DEF CallerFails, Becomes, Resting
  <2> QED
    BY <1>1, <1>5, <2>1 DEF CallerFails
<1>6. ASSUME NEW c \in Callers, InviteMember(c) \/ CreateCustomModule(c) PROVE DeviceInv'
  <2>1. caller' = [caller EXCEPT ![c] = Resting] /\ sided \subseteq sided' /\ devices' = devices
    BY <1>6 DEF InviteMember, CreateCustomModule, Insert, Becomes
  <2>2. \A x \in Callers : caller'[x].do = "devices" => caller'[x] = caller[x]
    BY <1>0, <2>1 DEF Resting
  <2> QED
    BY <1>1, <2>1, <2>2
<1>7. ASSUME NEW c \in Callers, RegisterDevice(c) PROVE DeviceInv'
  <2> DEFINE k == caller[c].key
  <2>1. k \in Keys /\ "devices" \in Tables /\ caller[c].do = "devices"
    BY <1>0, <1>7, CallerForms DEF RegisterDevice, Tables, Resting
  <2>2. CASE /\ caller[c].row = {} /\ Insert(c, "devices", k)
             /\ devices' = devices \cup {[id |-> nextId, key |-> k, on |-> TRUE]}
    <3>1. /\ sided \subseteq sided' /\ caller' = [caller EXCEPT ![c] = Resting]
          /\ \A x \in Callers : x # c /\ caller[x].do = "devices" /\ caller[x].key = k
                                => <<"devices", k>> \in sided'
      BY <1>0, <2>1, <2>2, InsertSides
    <3>2. \A x \in Callers : caller'[x].do = "devices" => x # c /\ caller'[x] = caller[x]
      BY <1>0, <3>1 DEF Resting
    <3>3. \A d \in devices : d.key = k => <<"devices", k>> \in sided'
      BY <1>0, <2>1, <2>2, <3>1 DEF DeviceInv
    <3>4. [id |-> nextId, key |-> k, on |-> TRUE].key = k
      OBVIOUS
    <3> HIDE DEF k
    <3>5. \A x \in Callers : caller'[x].do = "devices" /\ caller'[x].row = {} =>
             \A d \in devices' : d.key = caller'[x].key => <<"devices", d.key>> \in sided'
      BY <1>0, <2>2, <3>1, <3>2, <3>4 DEF DeviceInv
    <3>6. \A a, b \in devices' : a.key = b.key => a = b \/ <<"devices", a.key>> \in sided'
      BY <1>0, <2>2, <3>1, <3>3, <3>4 DEF DeviceInv
    <3> QED
      BY <3>5, <3>6 DEF DeviceInv
  <2>3. CASE /\ devices' = {IF \E r \in caller[c].row : r.id = d.id /\ ~r.on
                             THEN [d EXCEPT !.on = TRUE] ELSE d : d \in devices}
             /\ Becomes(c, Resting) /\ UNCHANGED <<nextId, sided>>
    <3>1. \A x \in Callers : caller'[x].do = "devices" => caller'[x] = caller[x]
      BY <1>0, <2>3 DEF Becomes, Resting
    <3>2. \A d \in devices : [d EXCEPT !.on = TRUE].key = d.key
      BY <1>0 DEF RowsTypeOK, KeyedRow
    <3>3. \A d \in devices' : \E x \in devices : x.key = d.key
      BY <2>3, <3>2
    <3>4. \A d, f \in devices' : d.key = f.key =>
            d = f \/ \E x, y \in devices : x # y /\ x.key = d.key /\ y.key = d.key
      <4> SUFFICES ASSUME NEW d \in devices', NEW f \in devices', d.key = f.key, d # f
                   PROVE  \E x, y \in devices : x # y /\ x.key = d.key /\ y.key = d.key
        OBVIOUS
      <4> DEFINE F(x) == IF \E r \in caller[c].row : r.id = x.id /\ ~r.on
                         THEN [x EXCEPT !.on = TRUE] ELSE x
      <4>1. PICK x \in devices : d = F(x)
        BY <2>3
      <4>2. PICK y \in devices : f = F(y)
        BY <2>3
      <4>3. F(x).key = x.key /\ F(y).key = y.key
        BY <3>2
      <4> HIDE DEF F
      <4> QED
        BY <4>1, <4>2, <4>3
    <3> QED
      BY <1>0, <2>3, <3>1, <3>3, <3>4, DeviceFrame
  <2> QED
    BY <1>7, <2>2, <2>3 DEF RegisterDevice
<1>8. ASSUME NEW s \in devices, RevokeSession(s) PROVE DeviceInv'
  <2>1. [s EXCEPT !.on = FALSE].key = s.key
    BY <1>0 DEF RowsTypeOK, KeyedRow
  <2>2. devices' = (devices \ {s}) \cup {[s EXCEPT !.on = FALSE]} /\ sided' = sided /\ caller' = caller
    BY <1>8 DEF RevokeSession
  <2>3. \A d \in devices' : \E x \in devices : x.key = d.key
    BY <2>1, <2>2
  <2>4. \A d, f \in devices' : d.key = f.key =>
            d = f \/ \E x, y \in devices : x # y /\ x.key = d.key /\ y.key = d.key
    BY <2>1, <2>2
  <2> QED
    BY <1>0, <2>2, <2>3, <2>4, DeviceFrame
<1>9. CASE Logout
  <2>1. \A d \in devices : [d EXCEPT !.on = FALSE].key = d.key
    BY <1>0 DEF RowsTypeOK, KeyedRow
  <2>2. devices' = {[d EXCEPT !.on = FALSE] : d \in devices} /\ sided' = sided /\ caller' = caller
    BY <1>9 DEF Logout
  <2>3. \A d \in devices' : \E x \in devices : d = [x EXCEPT !.on = FALSE] /\ x.key = d.key
    BY <2>1, <2>2
  <2>4. \A d, f \in devices' : d.key = f.key =>
            d = f \/ \E x, y \in devices : x # y /\ x.key = d.key /\ y.key = d.key
    BY <2>3
  <2> QED
    BY <1>0, <2>2, <2>3, <2>4, DeviceFrame
<1>10. ASSUME devices' = devices, sided' = sided, caller' = caller PROVE DeviceInv'
  BY <1>1, <1>10
<1> QED
  BY <1>2, <1>3, <1>4, <1>5, <1>6, <1>7, <1>8, <1>9, <1>10 DEF RowsNext, RemoveMember,
     DeleteCustomModule, ChangePlan, rowVars

LEMMA CustomStep == RowsInv /\ [RowsNext]_rowVars => CustomInv'
<1> SUFFICES ASSUME RowsInv, [RowsNext]_rowVars PROVE CustomInv'
  OBVIOUS
<1>0. RowsTypeOK /\ CustomInv
  BY DEF RowsInv
<1>1. ASSUME NEW c \in Callers, CreateCustomModule(c) PROVE CustomInv'
  <2>1. [id |-> nextId, key |-> caller[c].key, on |-> TRUE].key = caller[c].key
    OBVIOUS
  <2> QED
    BY <1>0, <1>1, <2>1 DEF CreateCustomModule, CustomInv
<1>2. ASSUME NEW u \in customs, DeleteCustomModule(u) PROVE CustomInv'
  <2>1. [u EXCEPT !.on = FALSE].key = u.key
    BY <1>0 DEF RowsTypeOK, KeyedRow
  <2> QED
    BY <1>0, <1>2, <2>1 DEF DeleteCustomModule, CustomInv
<1>3. CASE customs' = customs
  BY <1>0, <1>3 DEF CustomInv
<1> QED
  BY <1>1, <1>2, <1>3 DEF RowsNext, CountSeats, FindDevice, FindSlug, FindInvited, CallerFails,
     InviteMember, RegisterDevice, RemoveMember, RevokeSession, ChangePlan, Logout, rowVars

LEMMA SeatStep == RowsInv /\ [RowsNext]_rowVars => SeatInv'
<1> SUFFICES ASSUME RowsInv, [RowsNext]_rowVars PROVE SeatInv'
  OBVIOUS
<1>0. RowsTypeOK /\ SeatInv /\ caller \in [Callers -> CallerState]
  BY DEF RowsInv, RowsTypeOK
<1>n. Cardinality(members) \in Nat /\ seats \in Nat
  BY <1>0, FS_CardinalityType, AccountRowsAssumption DEF SeatInv, RowsTypeOK
<1>1. ASSUME NEW c \in Callers, NEW k \in Keys, CountSeats(c, k) PROVE SeatInv'
  <2>1. /\ Cardinality(members) < seats /\ overseated' = (overseated \/ Inviting # {})
        /\ members' = members /\ seats' = seats
        /\ caller' = [caller EXCEPT ![c] = [do |-> "counted", key |-> k]]
    BY <1>1 DEF CountSeats, Becomes
  <2>2. Inviting = {} => Inviting' \subseteq {c}
    BY <1>0, <2>1 DEF Inviting
  <2> QED
    BY <1>0, <1>n, <2>1, <2>2 DEF SeatInv
<1>2. ASSUME NEW c \in Callers, NEW k \in Keys, FindDevice(c, k) \/ FindSlug(c, k) PROVE SeatInv'
  <2>1. \A x \in Callers : caller'[x].do \in {"counted", "members"} => caller[x].do \in {"counted", "members"}
    BY <1>0, <1>2 DEF FindDevice, FindSlug, Becomes
  <2> QED
    BY <1>0, <1>2, <2>1, SeatFrame DEF FindDevice, FindSlug
<1>3. ASSUME NEW c \in Callers, FindInvited(c) PROVE SeatInv'
  <2>1. \A x \in Callers : caller'[x].do \in {"counted", "members"} => caller[x].do \in {"counted", "members"}
    BY <1>0, <1>3 DEF FindInvited, Becomes
  <2> QED
    BY <1>0, <1>3, <2>1, SeatFrame DEF FindInvited
<1>4. ASSUME NEW c \in Callers, CallerFails(c) \/ RegisterDevice(c) \/ CreateCustomModule(c)
      PROVE SeatInv'
  <2>1. caller' = [caller EXCEPT ![c] = Resting]
    BY <1>4 DEF CallerFails, RegisterDevice, CreateCustomModule, Insert, Becomes
  <2>2. \A x \in Callers : caller'[x].do \in {"counted", "members"} => caller[x].do \in {"counted", "members"}
    BY <1>0, <2>1 DEF Resting
  <2>3. members' = members /\ seats' = seats /\ overseated' = overseated
    BY <1>4 DEF CallerFails, RegisterDevice, CreateCustomModule
  <2> QED
    BY <1>0, <2>2, <2>3, SeatFrame
<1>5. ASSUME NEW c \in Callers, InviteMember(c) PROVE SeatInv'
  <2> DEFINE m == [id |-> nextId, key |-> caller[c].key]
  <2>1. /\ caller' = [caller EXCEPT ![c] = Resting] /\ members' = members \cup {m}
        /\ seats' = seats /\ overseated' = overseated /\ caller[c].do = "members"
    BY <1>5 DEF InviteMember, Insert, Becomes
  <2>2. IsFiniteSet(members') /\ Cardinality(members') <= Cardinality(members) + 1
        /\ Cardinality(members') \in Nat
    <3> HIDE DEF m
    <3>1. /\ IsFiniteSet(members \cup {m})
          /\ Cardinality(members \cup {m}) \in {Cardinality(members), Cardinality(members) + 1}
      BY <1>0, FS_AddElement DEF SeatInv
    <3> QED
      BY <1>n, <2>1, <3>1
  <2>3. c \in Inviting /\ Inviting' \subseteq Inviting \ {c}
    BY <1>0, <2>1 DEF Inviting, Resting
  <2> QED
    BY <1>0, <1>n, <2>1, <2>2, <2>3 DEF SeatInv
<1>6. ASSUME NEW n \in SeatLimits, ChangePlan(n) PROVE SeatInv'
  <2>1. n \in Nat /\ seats' = n /\ members' = members /\ caller' = caller
        /\ overseated' = (overseated \/ n < seats)
    BY <1>6, AccountRowsAssumption DEF ChangePlan
  <2>2. Inviting' = Inviting
    BY <2>1 DEF Inviting
  <2>3. CASE overseated'
    BY <1>0, <2>1, <2>3 DEF SeatInv
  <2>4. CASE ~overseated'
    <3>1. ~overseated /\ ~(n < seats)
      BY <1>0, <2>1, <2>4 DEF RowsTypeOK
    <3>2. /\ Cardinality(members) <= seats /\ (Inviting # {} => Cardinality(members) < seats)
          /\ \A c, d \in Inviting : c = d
      BY <1>0, <3>1 DEF SeatInv
    <3>3. Cardinality(members) <= n /\ (Inviting # {} => Cardinality(members) < n)
      BY <1>n, <2>1, <3>1, <3>2
    <3> QED
      BY <1>0, <2>1, <2>2, <3>2, <3>3 DEF SeatInv
  <2> QED
    BY <2>3, <2>4
<1>7. ASSUME members' \subseteq members, seats' = seats, overseated' = overseated, caller' = caller
      PROVE SeatInv'
  BY <1>0, <1>7, SeatFrame
<1> QED
  BY <1>1, <1>2, <1>3, <1>4, <1>5, <1>6, <1>7 DEF RowsNext, RemoveMember, RevokeSession,
     DeleteCustomModule, Logout, rowVars

\* However requests of one account overlap: two equal rows of a member or a device come from
\* two look-ups before either insert, a custom module has one, and members outnumber the
\* seats only after two invitations that counted at once or a smaller plan.
THEOREM RowsKept == RowsSpec => [](RowsTypeOK /\ RowsUnique /\ SeatsKept)
<1>1. RowsInv /\ [RowsNext]_rowVars => RowsInv'
  BY RowsTypeStep, MemberStep, DeviceStep, CustomStep, SeatStep DEF RowsInv
<1>2. RowsInv => RowsTypeOK /\ RowsUnique /\ SeatsKept
  BY DEF RowsInv, MemberInv, DeviceInv, CustomInv, SeatInv, RowsUnique, SeatsKept
<1> QED
  BY <1>1, <1>2, RowsInitInv, PTL DEF RowsSpec
=============================================================================
