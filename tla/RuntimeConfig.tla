--------------------------- MODULE RuntimeConfig ---------------------------
(***************************************************************************)
(* The environment file of a deployment: the deploy-time check               *)
(* (scripts/validate_runtime_env.py), the settings an API process makes of   *)
(* it when it starts (api/config.py, api/core/secret_manager.py, the          *)
(* start-up checks of api/main.py) and the reload of some of them            *)
(* (reload_runtime_settings).  A value is abstracted to what the checks tell *)
(* apart.                                                                    *)
(***************************************************************************)
EXTENDS Naturals, FiniteSets

CONSTANTS
    Targets,        \* environments deployed to
    MaxEdits        \* bound: fields changed from those of a good file

ASSUME RuntimeConfigAssumption ==
    Targets \subseteq {"production", "staging", "development"} /\ MaxEdits \in Nat

\* good: passes every check; weak: short, no live key, no Fernet key; ref: empty, with a
\* vault:// reference; badref: empty, with a reference of another form.
SecretKinds == {"good", "weak", "placeholder", "none", "ref", "badref"}
SecretFields == {"jwt", "stripe", "webhook", "totp"}

\* url: the API, web and admin addresses; local: https on localhost; junk: no URL.
Kinds ==
    [jwt |-> SecretKinds, stripe |-> SecretKinds, webhook |-> SecretKinds, totp |-> SecretKinds,
     app |-> {"production", "staging", "development"},
     public |-> {"good", "weak", "none"},
     ips |-> {"good", "placeholder", "bad", "none"},
     url |-> {"good", "local", "http", "junk", "none"},
     origins |-> {"good", "star", "local"},
     provider |-> {"auto", "env", "vault"},
     vault |-> {"set", "none"}]
Fields == DOMAIN Kinds

VARIABLES
    env,        \* [Fields -> kind]: the file
    target,     \* the environment of this deployment
    gate,       \* the verdict of validate_runtime_env on the file as it is now
    running,    \* the settings of the API process that last, or Down
    \* history
    retargeted, \* a reload read a file whose APP_ENV was not that of the process
    edits       \* fields edited so far

configVars == <<env, target, gate, running, retargeted, edits>>

Down == [app |-> "none", ips |-> "none"]

\* infra/env: the template of each environment, filled in.
GoodEnv(t) ==
    [jwt |-> "good", totp |-> "good", webhook |-> "good", app |-> t, ips |-> "good",
     stripe |-> IF t = "production" THEN "good" ELSE "weak",
     public |-> IF t = "production" THEN "good" ELSE "weak",
     url |-> IF t = "production" THEN "good" ELSE "http",
     origins |-> "good", provider |-> "auto", vault |-> "none"]

ConfigInit ==
    /\ target \in Targets /\ env = GoodEnv(target)
    /\ gate = "unchecked" /\ running = Down /\ retargeted = FALSE /\ edits = 0

-----------------------------------------------------------------------------
(* The deploy-time check.                                                    *)

Referenced(e, f) == e[f] \in {"ref", "badref"}

\* _validate_secret_reference and the Vault keys it requires.
ReferencesAccepted(e) ==
    /\ \A f \in SecretFields : e[f] # "badref"
    /\ (e.provider = "vault" \/ \E f \in SecretFields : Referenced(e, f)) => e.vault = "set"

\* Mutant: staging and production do without a TOTP key.
AcceptedWithoutTotp(e, t) ==
    /\ e.app = t
    /\ e.jwt \in {"good", "ref"} /\ ReferencesAccepted(e) /\ e.url # "junk"
    /\ t # "production" => e.stripe # "good" /\ e.public # "good"
    /\ t = "production" =>
        /\ e.stripe \in {"good", "ref"} /\ e.public = "good" /\ e.webhook \in {"good", "ref"}
        /\ e.ips # "none" /\ e.origins # "local" /\ e.url # "local"

\* validate_runtime_env returns no error.
Accepted(e, t) ==
    /\ e.app = t
    /\ e.jwt \in {"good", "ref"} /\ ReferencesAccepted(e) /\ e.url # "junk"
    /\ t # "production" => e.stripe # "good" /\ e.public # "good"
    /\ t # "development" => e.totp \in {"good", "weak", "ref"}
    /\ t = "production" =>
        /\ e.stripe \in {"good", "ref"} /\ e.public = "good" /\ e.webhook \in {"good", "ref"}
        /\ e.ips # "none" /\ e.origins # "local" /\ e.url # "local"

-----------------------------------------------------------------------------
(* The settings.                                                             *)

\* resolve_secret_value: what the field becomes when the Vault answers with a value of kind
\* v; an unreachable Vault or an empty secret raises.
Resolved(e, f, v) ==
    IF ~Referenced(e, f) THEN e[f]
    ELSE IF e[f] = "badref" THEN "raises"
    ELSE IF e.provider = "env" THEN "none"
    ELSE IF e.vault = "none" \/ v = "none" THEN "raises" ELSE v

\* validate_admin_allowed_ips: a placeholder counts as empty.
AllowedIps(e) == IF e.ips = "good" THEN "good" ELSE "none"

\* Settings() raises nothing.
SettingsOK(e, v) ==
    LET secret == [f \in SecretFields |-> Resolved(e, f, v)] IN
    /\ \A f \in SecretFields : secret[f] # "raises"
    /\ secret.jwt \in {"good", "placeholder"}
    /\ secret.totp # "weak" /\ e.url # "junk" /\ e.ips # "bad"
    /\ e.app = "production" =>
        /\ secret.jwt = "good" /\ secret.stripe = "good" /\ secret.webhook = "good"
        /\ secret.totp = "good" /\ AllowedIps(e) = "good"
        /\ e.origins = "good" /\ e.url = "good"

VaultAnswers == {"good", "weak", "none"}

Fresh(e) == [app |-> e.app, ips |-> AllowedIps(e)]

-----------------------------------------------------------------------------
(* Operations.                                                               *)

EditEnv(f, k) ==
    /\ edits < MaxEdits /\ k # env[f]
    /\ env' = [env EXCEPT ![f] = k]
    /\ gate' = "unchecked" /\ edits' = edits + 1
    /\ UNCHANGED <<target, running, retargeted>>

Validate ==
    /\ gate = "unchecked"
    /\ gate' = IF Accepted(env, target) THEN "accepted" ELSE "refused"
    /\ UNCHANGED <<env, target, running, retargeted, edits>>

\* Schema at head, a plan price, a Redis that answers: what lifespan requires besides.
Boot(v, head, prices, redis) ==
    /\ running = Down
    /\ SettingsOK(env, v)
    /\ env.app # "development" => head
    /\ env.app = "production" => prices /\ redis
    /\ running' = Fresh(env)
    /\ UNCHANGED <<env, target, gate, retargeted, edits>>

\* Mutant: the reload validates nothing.
ReloadUnvalidated(v, dry) ==
    /\ running # Down
    /\ running' = IF dry THEN running ELSE [running EXCEPT !.ips = AllowedIps(env)]
    /\ retargeted' = (retargeted \/ (~dry /\ env.app # running.app))
    /\ UNCHANGED <<env, target, gate, edits>>

\* Settings() first, which may raise and change nothing; then the reloadable fields, of
\* which ADMIN_ALLOWED_IPS is one and APP_ENV is not.
ReloadRuntimeSettings(v, dry) ==
    /\ running # Down /\ SettingsOK(env, v)
    /\ running' = IF dry THEN running ELSE [running EXCEPT !.ips = AllowedIps(env)]
    /\ retargeted' = (retargeted \/ (~dry /\ env.app # running.app))
    /\ UNCHANGED <<env, target, gate, edits>>

Shutdown ==
    /\ running # Down
    /\ running' = Down /\ retargeted' = FALSE
    /\ UNCHANGED <<env, target, gate, edits>>

ConfigNext ==
    \/ \E f \in Fields : \E k \in Kinds[f] : EditEnv(f, k)
    \/ Validate
    \/ \E v \in VaultAnswers :
        \/ \E head, prices, redis \in BOOLEAN : Boot(v, head, prices, redis)
        \/ \E dry \in BOOLEAN : ReloadRuntimeSettings(v, dry)
    \/ Shutdown

ConfigSpec == ConfigInit /\ [][ConfigNext]_configVars

-----------------------------------------------------------------------------
(* Properties.                                                               *)

ConfigTypeOK ==
    /\ \A f \in Fields : env[f] \in Kinds[f]
    /\ DOMAIN env = Fields /\ target \in Targets
    /\ gate \in {"unchecked", "accepted", "refused"}
    /\ running \in [app : Kinds.app \cup {"none"}, ips : {"good", "none"}]
    /\ retargeted \in BOOLEAN /\ edits \in 0..MaxEdits

\* A file the deploy-time check accepted starts the API, whatever combination of values it
\* holds, except for what only the API looks at: a TOTP key that is no Fernet key, and in
\* production an allow-list that is a placeholder or no network, an address without https,
\* a wildcard origin, references with the provider that ignores them.
AcceptedEnvBoots ==
    gate = "accepted" =>
        \/ SettingsOK(env, "good")
        \/ env.totp = "weak" \/ env.ips = "bad"
        \/ env.provider = "env" /\ \E f \in SecretFields : env[f] = "ref"
        \/ target = "production" /\ (env.ips = "placeholder" \/ env.url \in {"http", "none"}
                                     \/ env.origins = "star")

\* A production process always has an admin allow-list, through every reload, unless one read
\* a file meant for another environment: APP_ENV is not reloadable, but it is the file's
\* APP_ENV that decides how the file is validated.
ProductionStaysRestricted ==
    running.app = "production" => running.ips = "good" \/ retargeted
=============================================================================
