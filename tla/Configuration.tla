--------------------------- MODULE Configuration ---------------------------
(***************************************************************************)
(* How the gateway comes by its configuration: the file is validated       *)
(* (config/validation.rs), then every integration is resolved with its     *)
(* secrets from the environment (config/file.rs); at last main::run asks   *)
(* for the session cookie if there is a webhook.  The first error ends it. *)
(*                                                                         *)
(* A name is a sequence of characters.  Of a secret only its length and    *)
(* the variable it was read from are kept.  What a check can find wrong    *)
(* and nothing else depends on (URLs, addresses, paths, texts that must    *)
(* not be empty) is one flag of the file or of the integration.            *)
(***************************************************************************)
EXTENDS Naturals, Sequences, FiniteSets, SequencesExt

CONSTANTS
  Files,            \* the configuration files looked at
  NameMax,          \* longest integration name (64)
  FormNameMax,      \* POSTING_NAME_MAX_CHARS
  SecretLengths     \* lengths a secret may have

\* The file as serde reads it.  valid_public_tripcode wants a text.
RateLimitBucketConfig == [requests : Nat, window : Nat, burst : Nat]
RateLimitConfig == [reading : RateLimitBucketConfig, posting : RateLimitBucketConfig]

FileIntegration ==
  [name : Seq(STRING), allowed_boards : SUBSET STRING, well_formed : BOOLEAN,
   reading : BOOLEAN, webhook : BOOLEAN, fingerprint : BOOLEAN,
   posting : BOOLEAN, public_tripcode : STRING, display_length : Nat,
   rate_limit : RateLimitConfig]

FileConfig ==
  [well_formed : BOOLEAN, event_retention : Nat, rate_limit : RateLimitConfig,
   integrations : Seq(FileIntegration)]

ASSUME ConfigurationConstants ==
  /\ NameMax \in Nat /\ FormNameMax \in Nat /\ SecretLengths \subseteq Nat \ {0}
  /\ Files \subseteq FileConfig
  /\ \A f \in Files : \A x \in Range(f.integrations) :
       x.posting /\ x.well_formed => x.public_tripcode # ""

VARIABLES
  file,              \* the FileConfig
  step,              \* where loading is
  at,                \* the integration it is at
  names, env_names, public_tripcodes,  \* validate's HashSets
  env,               \* what the environment has turned out to hold
  cfg                \* the Config under construction

loadVars == <<file, step, at, names, env_names, public_tripcodes, env, cfg>>

NameChars == {"a", "A", "b", "B", "_", "-"}

env_safe_name(name) ==
  [i \in DOMAIN name |-> CASE name[i] \in {"a", "A"} -> "A"
                           [] name[i] \in {"b", "B"} -> "B"
                           [] OTHER -> "_"]

\* PTCHAN_INTEGRATION_<name>_<suffix>
integration_secret_env(name) == env_safe_name(name) \o <<"_", "SECRET">>
integration_tripcode_env(name) == env_safe_name(name) \o <<"_", "TRIPCODE">>
integration_post_password_env(name) == env_safe_name(name) \o <<"_", "POST", "_", "PASSWORD">>
FingerprintEnv == <<"FINGERPRINT", "_", "SECRET">>
SessionCookieEnv == <<"SESSION", "_", "COOKIE">>

valid_integration_name(name) ==
  name # <<>> /\ Len(name) <= NameMax /\ Range(name) \subseteq NameChars

\* No boards means all boards.
board_allowed(allowed_boards, board) ==
  allowed_boards = {} \/ board \in allowed_boards

\* Mutant: the burst has to be smaller than the requests.
BucketWithSmallBurst(limit) ==
  /\ limit.requests > 0 /\ limit.window > 0
  /\ limit.burst \in 1..(limit.requests - 1)
  /\ limit.window \div limit.requests > 0

validate_rate_limit_bucket(limit) ==
  /\ limit.requests > 0
  /\ limit.window > 0
  /\ limit.burst \in 1..limit.requests
  /\ limit.window \div limit.requests > 0

validate_rate_limit(rate_limit) ==
  validate_rate_limit_bucket(rate_limit.reading) /\ validate_rate_limit_bucket(rate_limit.posting)

-----------------------------------------------------------------------------
Integrations == file.integrations

LoadInit ==
  /\ file \in Files
  /\ step = "runtime" /\ at = 1
  /\ names = {} /\ env_names = {} /\ public_tripcodes = {}
  /\ env = <<>>
  /\ cfg = [integrations |-> <<>>, webhooks |-> <<>>, postings |-> <<>>,
            fingerprint_secret |-> FALSE]

Refuse ==
  /\ step' = "refused"
  /\ UNCHANGED <<file, at, names, env_names, public_tripcodes, cfg>>

\* Go on with the next integration, or with the next pass over them.
Advance(here, there) ==
  IF at < Len(Integrations) THEN step' = here /\ at' = at + 1 ELSE step' = there /\ at' = 1

\* The parts of the file outside its integrations.
RuntimeValid ==
  /\ file.well_formed
  /\ file.event_retention > 0
  /\ validate_rate_limit(file.rate_limit)

ValidateRuntime ==
  /\ step = "runtime"
  /\ IF RuntimeValid
     THEN /\ step' = IF Integrations = <<>> THEN "fingerprint" ELSE "validate"
          /\ UNCHANGED <<file, at, names, env_names, public_tripcodes, cfg>>
     ELSE Refuse
  /\ UNCHANGED env

\* Mutant: names that differ only in characters variables cannot have pass.
NamesDiffer(x) == x.name \notin names

NoConflict(x) == x.name \notin names /\ env_safe_name(x.name) \notin env_names

\* Mutant: two integrations with one tripcode pass.
PostingValid(x) == x.posting => x.well_formed

\* validate_posting, and the tripcode is not another integration's.
validate_posting(x) ==
  x.posting => x.well_formed /\ x.public_tripcode \notin public_tripcodes

IntegrationValid(x) ==
  /\ valid_integration_name(x.name) /\ NoConflict(x)
  /\ x.reading \/ x.webhook \/ x.posting
  /\ x.well_formed
  /\ validate_posting(x)
  /\ validate_rate_limit(x.rate_limit)

ValidateIntegration ==
  LET x == Integrations[at] IN
  /\ step = "validate"
  /\ IF IntegrationValid(x)
     THEN /\ names' = names \cup {x.name}
          /\ env_names' = env_names \cup {env_safe_name(x.name)}
          /\ public_tripcodes' = public_tripcodes \cup
               (IF x.posting THEN {x.public_tripcode} ELSE {})
          /\ Advance("validate", "resolve")
          /\ UNCHANGED <<file, cfg>>
     ELSE Refuse
  /\ UNCHANGED env

\* required_env: a variable that is set and not blank has one value however
\* often it is read; 0 stands for one that is not.  The length is kept of
\* tripcode secrets only.
Environments(variables) ==
  {e \in [variables \cup DOMAIN env -> SecretLengths \cup {0, 1}] :
     \A v \in DOMAIN e : IF v \in DOMAIN env THEN e[v] = env[v]
                         ELSE e[v] \in {0} \cup (IF Last(v) = "TRIPCODE" THEN SecretLengths
                                                                        ELSE {1})}

SecretVariables(x) ==
  {integration_secret_env(x.name)} \cup
  (IF x.posting THEN {integration_tripcode_env(x.name),
                      integration_post_password_env(x.name)} ELSE {})

\* "<display name>##<tripcode secret>"
form_name_length(x, secret) == x.display_length + 2 + secret

\* What resolve makes of an integration; a secret is the variable it is from.
IntegrationConfig(x) ==
  [name |-> x.name, allowed_boards |-> x.allowed_boards, reading |-> x.reading,
   rate_limit |-> x.rate_limit, secret |-> integration_secret_env(x.name)]

WebhookConfig(x) ==
  [name |-> x.name, allowed_boards |-> x.allowed_boards,
   include_poster_fingerprint |-> x.fingerprint,
   secret |-> integration_secret_env(x.name)]

PostingConfig(x) ==
  [name |-> x.name, allowed_boards |-> x.allowed_boards,
   public_tripcode |-> x.public_tripcode,
   secret |-> integration_secret_env(x.name),
   tripcode_secret |-> integration_tripcode_env(x.name),
   post_password |-> integration_post_password_env(x.name)]

\* Every secret is there, and the form name is no longer than ptchan allows.
Resolvable(x, e) ==
  /\ \A v \in SecretVariables(x) : e[v] > 0
  /\ x.posting =>
       form_name_length(x, e[integration_tripcode_env(x.name)]) <= FormNameMax

ResolveIntegration ==
  LET x == Integrations[at] IN
  /\ step = "resolve"
  /\ \E e \in Environments(SecretVariables(x)) :
       /\ env' = e
       /\ IF Resolvable(x, e)
          THEN /\ cfg' = [cfg EXCEPT
                    !.integrations = Append(@, IntegrationConfig(x)),
                    !.webhooks = IF x.webhook THEN Append(@, WebhookConfig(x)) ELSE @,
                    !.postings = IF x.posting THEN Append(@, PostingConfig(x)) ELSE @]
               /\ Advance("resolve", "fingerprint")
               /\ UNCHANGED <<file, names, env_names, public_tripcodes>>
          ELSE Refuse

AnyFingerprint == \E i \in DOMAIN cfg.webhooks : cfg.webhooks[i].include_poster_fingerprint

\* Read one more variable if it is needed; without it loading ends.
ReadIf(needed, variable) ==
  \E e \in Environments(IF needed THEN {variable} ELSE {}) :
    env' = e /\ (needed => e[variable] > 0)

Lacking(needed, variable) ==
  /\ needed
  /\ env' \in {e \in Environments({variable}) : e[variable] = 0}
  /\ Refuse

ResolveFingerprint ==
  /\ step = "fingerprint"
  /\ \/ /\ ReadIf(AnyFingerprint, FingerprintEnv)
        /\ cfg' = [cfg EXCEPT !.fingerprint_secret = AnyFingerprint]
        /\ step' = "cookie"
        /\ UNCHANGED <<file, at, names, env_names, public_tripcodes>>
     \/ Lacking(AnyFingerprint, FingerprintEnv)

\* main::run, with upstream_required; SessionCookie::new finding no cookie in
\* the variable counts as finding no variable.
LoadCookie ==
  /\ step = "cookie"
  /\ \/ /\ ReadIf(cfg.webhooks # <<>>, SessionCookieEnv)
        /\ step' = "running"
        /\ UNCHANGED <<file, at, names, env_names, public_tripcodes, cfg>>
     \/ Lacking(cfg.webhooks # <<>>, SessionCookieEnv)

Load == \/ ValidateRuntime \/ ValidateIntegration \/ ResolveIntegration
        \/ ResolveFingerprint \/ LoadCookie

-----------------------------------------------------------------------------
(* What any two integrations have to differ in, said of the file as a whole. *)
Apart(x, y) ==
  /\ env_safe_name(x.name) # env_safe_name(y.name)
  /\ x.posting /\ y.posting => x.public_tripcode # y.public_tripcode

(* A burst of at least one and at most all requests, and a period for each.  *)
Fit(limit) ==
  limit.burst > 0 /\ limit.burst <= limit.requests /\ limit.window >= limit.requests

(* What every integration has to be by itself.                               *)
Proper(x) ==
  /\ x.well_formed /\ (x.reading \/ x.webhook \/ x.posting)
  /\ x.name # <<>> /\ Len(x.name) <= NameMax /\ Range(x.name) \subseteq NameChars
  /\ Fit(x.rate_limit.reading) /\ Fit(x.rate_limit.posting)

(* Loading refuses a file only with a reason: a part that is not proper, two *)
(* integrations that are not apart, a variable that is not set, or a form    *)
(* name that is too long.                                                    *)
RefusedForReason ==
  step = "refused" =>
    \/ ~file.well_formed \/ file.event_retention = 0
    \/ ~Fit(file.rate_limit.reading) \/ ~Fit(file.rate_limit.posting)
    \/ \E i \in DOMAIN Integrations : ~Proper(Integrations[i])
    \/ \E i, j \in DOMAIN Integrations : i # j /\ ~Apart(Integrations[i], Integrations[j])
    \/ \E v \in DOMAIN env : env[v] = 0
    \/ \E x \in Range(Integrations) :
         LET variable == integration_tripcode_env(x.name) IN
         variable \in DOMAIN env /\ x.display_length + 2 + env[variable] > FormNameMax

(* Whatever the file, a gateway that runs has usable buckets, form names     *)
(* upstream takes, a fingerprint secret if a webhook needs one, one name per *)
(* integration and tripcode, and no two secrets from one variable.           *)
RunningIsSound ==
  step = "running" =>
    /\ file.event_retention > 0
    /\ \A x \in Range(cfg.integrations) \cup {file} :
         Fit(x.rate_limit.reading) /\ Fit(x.rate_limit.posting)
    /\ AnyFingerprint => cfg.fingerprint_secret
    /\ \A x \in Range(Integrations) : x.posting =>
         x.display_length + 2 + env[integration_tripcode_env(x.name)] <= FormNameMax
    /\ \A i, j \in DOMAIN cfg.postings : i # j =>
         cfg.postings[i].public_tripcode # cfg.postings[j].public_tripcode
    /\ \A i, j \in DOMAIN cfg.integrations : i # j =>
         cfg.integrations[i].name # cfg.integrations[j].name
    /\ LET secrets == {<<x.name, "secret", x.secret>> : x \in Range(cfg.integrations)} \cup
                      {<<x.name, "tripcode", x.tripcode_secret>> : x \in Range(cfg.postings)} \cup
                      {<<x.name, "password", x.post_password>> : x \in Range(cfg.postings)}
       IN  \A s, t \in secrets : s[3] = t[3] => s = t
=============================================================================
