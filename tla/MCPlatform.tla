----------------------------- MODULE MCPlatform -----------------------------
(***************************************************************************)
(* Instance of the account, checkout, gateway, configuration and deployment  *)
(* modules for TLC.  They share no state, so their interleavings show         *)
(* nothing: a behaviour of the instance is one of one of them.                *)
(***************************************************************************)
EXTENDS Accounts, AccountRows, Checkout, Gateway, RuntimeConfig, MCDeployment, TLC

VARIABLE part   \* the module, or the group of account handlers, that moves

Parts == {"passwords", "factor", "mail", "status", "rows", "checkout", "gateway", "config", "deploy"}

\* Only the password handlers look at the form of the hash; a module that does not move
\* starts in one state.
MCInit ==
    /\ AccountsInit /\ RowsInit /\ CheckoutInit /\ GatewayInit /\ ConfigInit /\ DeployInit
    /\ part \in Parts
    /\ part # "passwords" => ~account.hash.legacy
    /\ part # "rows" => seats = CHOOSE n \in SeatLimits : TRUE
    /\ part # "config" => target = CHOOSE t \in Targets : TRUE
    /\ part # "deploy" => version = {} /\ objects = {}

AccountGroup(r) ==
    \/ part = "passwords" /\ PasswordStep(r)
    \/ part = "factor" /\ FactorStep(r)
    \/ part = "mail" /\ MailStep(r)
    \/ part = "status" /\ StatusStep(r)

MCNext ==
    /\ UNCHANGED part
    /\ \/ /\ \/ \E r \in Requests : AccountGroup(r)
             \/ part \in {"passwords", "factor", "mail", "status"} /\ EndStep
             \/ part \in {"passwords", "mail"} /\ ExpiryStep
             \/ part = "status" /\ TokenStep
          /\ UNCHANGED <<rowVars, checkoutVars, gatewayVars, configVars, deployVars>>
       \/ part = "rows" /\ RowsNext
          /\ UNCHANGED <<accountVars, checkoutVars, gatewayVars, configVars, deployVars>>
       \/ part = "checkout" /\ CheckoutNext
          /\ UNCHANGED <<accountVars, rowVars, gatewayVars, configVars, deployVars>>
       \/ part = "gateway" /\ GatewayNext
          /\ UNCHANGED <<accountVars, rowVars, checkoutVars, configVars, deployVars>>
       \/ part = "config" /\ ConfigNext
          /\ UNCHANGED <<accountVars, rowVars, checkoutVars, gatewayVars, deployVars>>
       \/ part = "deploy" /\ DeployNext
          /\ UNCHANGED <<accountVars, rowVars, checkoutVars, gatewayVars, configVars>>

MCVars == <<accountVars, rowVars, checkoutVars, gatewayVars, configVars, deployVars, part>>
MCSpec == MCInit /\ [][MCNext]_MCVars

Sym ==
    Permutations(Requests) \cup Permutations(Words) \cup Permutations(Links) \cup Permutations(Subs)

-----------------------------------------------------------------------------
\* Every module's variables stay in their types; the number of requests in flight that a
\* process keeps is the number of those inside it.
PlatformTypeOK ==
    AccountsTypeOK /\ RowsTypeOK /\ CheckoutTypeOK /\ GatewayTypeOK /\ ConfigTypeOK /\ DeployTypeOK

\* The password that works is the one chosen last, and a reset link sets one password
\* (Accounts).
PasswordsKept == ChosenPasswordStands /\ ResetLinkSingleUse

\* Seats, rows that must be unique and request counters keep their limits, whatever requests
\* of one account or address overlap (AccountRows, Gateway).
LimitsKept == RowsUnique /\ SeatsKept /\ WindowLimitKept /\ CountersExpire

\* Who pays for a module is known as the user, and the module's row says of the subscription
\* it names what Stripe says (Checkout).
PaidIsKnown == PayerIsLinked /\ AccessFollows

\* What the deploy-time check accepts starts, and what runs stays restricted (RuntimeConfig).
ConfigKept == AcceptedEnvBoots /\ ProductionStaysRestricted
=============================================================================
