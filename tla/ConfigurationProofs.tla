------------------------ MODULE ConfigurationProofs ------------------------
(***************************************************************************)
(* TLAPS proofs about Configuration, for every set of files, all limits    *)
(* and any number of integrations in a file: what loading has established  *)
(* at each of its steps.  BoardProofs uses it for a gateway that runs.     *)
(***************************************************************************)
EXTENDS Configuration, SequenceTheorems, TLAPS

-----------------------------------------------------------------------------
(* The operators the checks are made of. *)

(* validate_rate_limit_bucket lets exactly the usable buckets pass.          *)
LEMMA ValidBucketsFit ==
  ASSUME NEW limit \in RateLimitBucketConfig
  PROVE  validate_rate_limit_bucket(limit) <=> Fit(limit)
<1> DEFINE q == limit.requests
           w == limit.window
<1>1. q \in Nat /\ w \in Nat /\ limit.burst \in Nat
  BY DEF RateLimitBucketConfig
<1> HIDE DEF q, w
<1>2. q > 0 => (w \div q > 0 <=> w >= q)
  <2> SUFFICES ASSUME q > 0 PROVE w \div q > 0 <=> w >= q
    OBVIOUS
  <2>1. w \div q \in Nat /\ w % q \in 0..(q - 1) /\ w = q * (w \div q) + (w % q)
    BY <1>1
  <2>2. CASE w \div q = 0
    BY <1>1, <2>1, <2>2
  <2>3. CASE w \div q > 0
    <3>1. q * (w \div q) >= q
      BY <1>1, <2>1, <2>3
    <3> QED
      BY <1>1, <2>1, <2>3, <3>1
  <2> QED
    BY <2>1, <2>2, <2>3
<1> QED
  BY <1>1, <1>2 DEF validate_rate_limit_bucket, Fit, q, w

(* A file of the ones looked at is what serde reads.                         *)
LEMMA FileTypes ==
  ASSUME file \in Files
  PROVE  /\ Integrations \in Seq(FileIntegration)
         /\ Len(Integrations) \in Nat
         /\ DOMAIN Integrations = 1..Len(Integrations)
         /\ \A i \in 1..Len(Integrations) : Integrations[i] \in FileIntegration
         /\ file.event_retention \in Nat
         /\ file.rate_limit \in RateLimitConfig
<1>1. file \in FileConfig
  BY ConfigurationConstants
<1>2. Integrations \in Seq(FileIntegration) /\ file.event_retention \in Nat
      /\ file.rate_limit \in RateLimitConfig
  BY <1>1 DEF FileConfig, Integrations
<1> QED
  BY <1>2

\* What the names of the variables are made of.
VariableParts == {"A", "B", "_", "SECRET", "TRIPCODE", "POST", "PASSWORD"}

(* The safe form of a name is of characters a variable can have.             *)
LEMMA SafeName ==
  ASSUME NEW name \in Seq(STRING)
  PROVE  env_safe_name(name) \in Seq(VariableParts)
<1>1. ASSUME NEW i \in DOMAIN name PROVE env_safe_name(name)[i] \in VariableParts
  <2>1. CASE name[i] \in {"a", "A"}
    BY <2>1 DEF env_safe_name, VariableParts
  <2>2. CASE name[i] \notin {"a", "A"} /\ name[i] \in {"b", "B"}
    BY <2>2 DEF env_safe_name, VariableParts
  <2>3. CASE name[i] \notin {"a", "A"} /\ name[i] \notin {"b", "B"}
    BY <2>3 DEF env_safe_name, VariableParts
  <2> QED
    BY <2>1, <2>2, <2>3
<1>2. DOMAIN name = 1..Len(name) /\ Len(name) \in Nat
  OBVIOUS
<1>3. env_safe_name(name) \in [1..Len(name) -> VariableParts]
  BY <1>1, <1>2 DEF env_safe_name, VariableParts
<1> QED
  BY <1>2, <1>3, SeqDef

(* The variable with suffix u of an integration whose safe name is s.        *)
LEMMA WithSuffix ==
  ASSUME NEW s \in Seq(VariableParts), NEW u \in Seq(VariableParts), Len(u) > 0
  PROVE  /\ Len(s \o u) = Len(s) + Len(u)
         /\ (s \o u)[Len(s) + Len(u)] = u[Len(u)]
         /\ \A i \in 1..Len(s) : (s \o u)[i] = s[i]
<1> DEFINE x == s \o u
<1>1. Len(s) \in Nat /\ Len(u) \in Nat
  OBVIOUS
<1>2. /\ Len(x) = Len(s) + Len(u)
      /\ \A i \in 1..(Len(s) + Len(u)) : x[i] = IF i <= Len(s) THEN s[i] ELSE u[i - Len(s)]
  BY ConcatProperties
<1> HIDE DEF x
<1>3. x[Len(s) + Len(u)] = u[Len(u)]
  <2>1. /\ Len(s) + Len(u) \in 1..(Len(s) + Len(u))
        /\ ~ (Len(s) + Len(u) <= Len(s))
        /\ Len(s) + Len(u) - Len(s) = Len(u)
    BY <1>1
  <2> QED
    BY <1>2, <2>1
<1>4. \A i \in 1..Len(s) : x[i] = s[i]
  BY <1>1, <1>2
<1> QED
  BY <1>2, <1>3, <1>4 DEF x

\* A variable that starts with the safe form of a name, has n more parts and
\* ends in `last`.
IsVariable(variable, name, n, last) ==
  /\ Len(variable) = Len(env_safe_name(name)) + n
  /\ variable[Len(env_safe_name(name)) + n] = last
  /\ \A i \in 1..Len(env_safe_name(name)) : variable[i] = env_safe_name(name)[i]

(* The three variables an integration may have.                              *)
LEMMA VariableForms ==
  ASSUME NEW name \in Seq(STRING)
  PROVE  /\ IsVariable(integration_secret_env(name), name, 2, "SECRET")
         /\ IsVariable(integration_tripcode_env(name), name, 2, "TRIPCODE")
         /\ IsVariable(integration_post_password_env(name), name, 4, "PASSWORD")
<1> DEFINE s == env_safe_name(name)
<1>1. s \in Seq(VariableParts)
  BY SafeName
<1>2. IsVariable(integration_secret_env(name), name, 2, "SECRET")
  <2> DEFINE u == <<"_", "SECRET">>
  <2>1. u \in Seq(VariableParts) /\ Len(u) = 2 /\ u[2] = "SECRET"
    BY DEF VariableParts
  <2>2. integration_secret_env(name) = s \o u
    BY DEF integration_secret_env
  <2> HIDE DEF s, u
  <2>3. u \in Seq(VariableParts) /\ Len(u) > 0
    BY <2>1
  <2>4. /\ Len(s \o u) = Len(s) + Len(u)
        /\ (s \o u)[Len(s) + Len(u)] = u[Len(u)]
        /\ \A i \in 1..Len(s) : (s \o u)[i] = s[i]
    BY <1>1, <2>3, WithSuffix
  <2> QED
    BY <2>1, <2>2, <2>4 DEF IsVariable, s
<1>3. IsVariable(integration_tripcode_env(name), name, 2, "TRIPCODE")
  <2> DEFINE u == <<"_", "TRIPCODE">>
  <2>1. u \in Seq(VariableParts) /\ Len(u) = 2 /\ u[2] = "TRIPCODE"
    BY DEF VariableParts
  <2>2. integration_tripcode_env(name) = s \o u
    BY DEF integration_tripcode_env
  <2> HIDE DEF s, u
  <2>3. u \in Seq(VariableParts) /\ Len(u) > 0
    BY <2>1
  <2>4. /\ Len(s \o u) = Len(s) + Len(u)
        /\ (s \o u)[Len(s) + Len(u)] = u[Len(u)]
        /\ \A i \in 1..Len(s) : (s \o u)[i] = s[i]
    BY <1>1, <2>3, WithSuffix
  <2> QED
    BY <2>1, <2>2, <2>4 DEF IsVariable, s
<1>4. IsVariable(integration_post_password_env(name), name, 4, "PASSWORD")
  <2> DEFINE u == <<"_", "POST", "_", "PASSWORD">>
  <2>1. u \in Seq(VariableParts) /\ Len(u) = 4 /\ u[4] = "PASSWORD"
    BY DEF VariableParts
  <2>2. integration_post_password_env(name) = s \o u
    BY DEF integration_post_password_env
  <2> HIDE DEF s, u
  <2>3. u \in Seq(VariableParts) /\ Len(u) > 0
    BY <2>1
  <2>4. /\ Len(s \o u) = Len(s) + Len(u)
        /\ (s \o u)[Len(s) + Len(u)] = u[Len(u)]
        /\ \A i \in 1..Len(s) : (s \o u)[i] = s[i]
    BY <1>1, <2>3, WithSuffix
  <2> QED
    BY <2>1, <2>2, <2>4 DEF IsVariable, s
<1> QED
  BY <1>2, <1>3, <1>4

(* Equal variables end alike, and with suffixes of one length they are those *)
(* of names that no variable tells apart.                                    *)
LEMMA EqualVariables ==
  ASSUME NEW m \in Seq(STRING), NEW n \in Seq(STRING), NEW variable,
         NEW j \in Nat, NEW k \in Nat, NEW x, NEW y,
         IsVariable(variable, m, j, x), IsVariable(variable, n, k, y)
  PROVE  x = y /\ (j = k => env_safe_name(m) = env_safe_name(n))
<1> DEFINE s == env_safe_name(m)
           t == env_safe_name(n)
<1>1. s \in Seq(VariableParts) /\ t \in Seq(VariableParts)
  BY SafeName
<1>2. /\ Len(variable) = Len(s) + j /\ variable[Len(s) + j] = x
      /\ Len(variable) = Len(t) + k /\ variable[Len(t) + k] = y
      /\ \A i \in 1..Len(s) : variable[i] = s[i]
      /\ \A i \in 1..Len(t) : variable[i] = t[i]
  BY DEF IsVariable
<1> HIDE DEF s, t
<1>3. ASSUME j = k PROVE s = t
  <2>1. Len(s) = Len(t) /\ \A i \in 1..Len(s) : s[i] = t[i]
    BY <1>1, <1>2, <1>3
  <2> QED
    BY <1>1, <2>1, SeqEqual
<1> QED
  BY <1>2, <1>3 DEF s, t

(* Every secret of every integration has a variable of its own, as long as   *)
(* the names differ in the characters a variable can have.                   *)
LEMMA VariablesApart ==
  ASSUME NEW m \in Seq(STRING), NEW n \in Seq(STRING)
  PROVE  /\ integration_secret_env(m) = integration_secret_env(n)
              => env_safe_name(m) = env_safe_name(n)
         /\ integration_tripcode_env(m) = integration_tripcode_env(n)
              => env_safe_name(m) = env_safe_name(n)
         /\ integration_post_password_env(m) = integration_post_password_env(n)
              => env_safe_name(m) = env_safe_name(n)
         /\ integration_secret_env(m) # integration_tripcode_env(n)
         /\ integration_secret_env(m) # integration_post_password_env(n)
         /\ integration_tripcode_env(m) # integration_post_password_env(n)
<1>1. /\ IsVariable(integration_secret_env(m), m, 2, "SECRET")
      /\ IsVariable(integration_tripcode_env(m), m, 2, "TRIPCODE")
      /\ IsVariable(integration_post_password_env(m), m, 4, "PASSWORD")
      /\ IsVariable(integration_secret_env(n), n, 2, "SECRET")
      /\ IsVariable(integration_tripcode_env(n), n, 2, "TRIPCODE")
      /\ IsVariable(integration_post_password_env(n), n, 4, "PASSWORD")
  BY VariableForms
<1>2. integration_secret_env(m) = integration_secret_env(n)
        => env_safe_name(m) = env_safe_name(n)
  BY <1>1, EqualVariables
<1>3. integration_tripcode_env(m) = integration_tripcode_env(n)
        => env_safe_name(m) = env_safe_name(n)
  BY <1>1, EqualVariables
<1>4. integration_post_password_env(m) = integration_post_password_env(n)
        => env_safe_name(m) = env_safe_name(n)
  BY <1>1, EqualVariables
<1>5. integration_secret_env(m) # integration_tripcode_env(n)
  BY <1>1, EqualVariables
<1>6. integration_secret_env(m) # integration_post_password_env(n)
  BY <1>1, EqualVariables
<1>7. integration_tripcode_env(m) # integration_post_password_env(n)
  BY <1>1, EqualVariables
<1> QED
  BY <1>2, <1>3, <1>4, <1>5, <1>6, <1>7

(* What pushing onto a vector does to it.                                    *)
LEMMA Pushed ==
  ASSUME NEW S, NEW s \in Seq(S), NEW e \in S
  PROVE  /\ Append(s, e) \in Seq(S)
         /\ Len(Append(s, e)) = Len(s) + 1
         /\ \A i \in 1..Len(s) : Append(s, e)[i] = s[i]
         /\ Append(s, e)[Len(s) + 1] = e
         /\ Range(Append(s, e)) = Range(s) \cup {e}
         /\ DOMAIN Append(s, e) = 1..(Len(s) + 1)
         /\ DOMAIN s = 1..Len(s)
         /\ Len(s) \in Nat
<1>1. /\ Append(s, e) \in Seq(S) /\ Len(Append(s, e)) = Len(s) + 1
      /\ \A i \in 1..Len(s) : Append(s, e)[i] = s[i]
      /\ Append(s, e)[Len(s) + 1] = e
      /\ DOMAIN Append(s, e) = 1..(Len(s) + 1)
      /\ DOMAIN s = 1..Len(s)
      /\ Len(s) \in Nat
  OBVIOUS
<1> DEFINE t == Append(s, e)
<1> HIDE DEF t
<1>2. Range(t) = Range(s) \cup {e}
  <2>1. 1..(Len(s) + 1) = 1..Len(s) \cup {Len(s) + 1}
    BY <1>1
  <2> QED
    BY <1>1, <2>1 DEF Range, t
<1> QED
  BY <1>1, <1>2 DEF t
-----------------------------------------------------------------------------
(* What loading has established. *)

\* The Config under construction.
ConfigUnderConstruction ==
  [integrations : Seq({IntegrationConfig(x) : x \in FileIntegration}),
   webhooks : Seq({WebhookConfig(x) : x \in FileIntegration}),
   postings : Seq({PostingConfig(x) : x \in FileIntegration}),
   fingerprint_secret : BOOLEAN]

LoadTypeOK ==
  /\ file \in Files
  /\ cfg \in ConfigUnderConstruction
  /\ \A v \in DOMAIN env : env[v] \in Nat

\* The first n integrations are proper, and apart from each other.
Valid(n) ==
  \A i \in 1..n : /\ Proper(Integrations[i])
                  /\ \A j \in 1..n : i # j => Apart(Integrations[i], Integrations[j])

\* validate has gone through the first n integrations.
Validated(n) ==
  /\ names = {Integrations[i].name : i \in 1..n}
  /\ env_names = {env_safe_name(Integrations[i].name) : i \in 1..n}
  /\ public_tripcodes = {Integrations[i].public_tripcode :
                           i \in {j \in 1..n : Integrations[j].posting}}
  /\ Valid(n)

\* The form name of x fits, whatever length its tripcode secret has.
FormNameFits(x) ==
  x.posting => LET variable == integration_tripcode_env(x.name) IN
               variable \in DOMAIN env /\ x.display_length + 2 + env[variable] <= FormNameMax

\* resolve has gone through the first n integrations.
Resolved(n) ==
  /\ Len(cfg.integrations) = n
  /\ \A i \in 1..n : cfg.integrations[i] = IntegrationConfig(Integrations[i])
  /\ \A w \in Range(cfg.webhooks) : \E i \in 1..n :
       Integrations[i].webhook /\ w = WebhookConfig(Integrations[i])
  /\ \A p \in Range(cfg.postings) : \E i \in 1..n :
       Integrations[i].posting /\ p = PostingConfig(Integrations[i])
  /\ \A i, j \in DOMAIN cfg.postings : i # j =>
       cfg.postings[i].public_tripcode # cfg.postings[j].public_tripcode
  /\ \A i \in 1..n : FormNameFits(Integrations[i])

\* Where loading is, and what is known there.
Progress ==
  \/ step = "refused"
  \/ step = "runtime" /\ at = 1 /\ Validated(0) /\ Resolved(0)
  \/ /\ RuntimeValid
     /\ \/ step = "validate" /\ at \in 1..Len(Integrations) /\ Validated(at - 1) /\ Resolved(0)
        \/ /\ step = "resolve" /\ at \in 1..Len(Integrations)
           /\ Valid(Len(Integrations)) /\ Resolved(at - 1)
        \/ /\ step \in {"fingerprint", "cookie", "running"}
           /\ Valid(Len(Integrations)) /\ Resolved(Len(Integrations))
           /\ step # "fingerprint" => (AnyFingerprint => cfg.fingerprint_secret)

(* The inductive invariant of loading: how far it is decides what has been   *)
(* checked of the file and what of it is in the Config.                      *)
LoadInv == LoadTypeOK /\ Progress /\ RefusedForReason

(* A fresh process has established nothing and refused nothing.              *)
LEMMA LoadInvInit == LoadInit => LoadInv
<1> SUFFICES ASSUME LoadInit PROVE LoadInv
  OBVIOUS
<1>1. /\ cfg = [integrations |-> <<>>, webhooks |-> <<>>, postings |-> <<>>,
                fingerprint_secret |-> FALSE]
      /\ file \in Files /\ step = "runtime" /\ at = 1 /\ env = <<>>
      /\ names = {} /\ env_names = {} /\ public_tripcodes = {}
  BY DEF LoadInit
<1>2. /\ cfg.integrations = <<>> /\ cfg.webhooks = <<>> /\ cfg.postings = <<>>
      /\ DOMAIN env = {} /\ 1..0 = {}
      /\ Len(<<>>) = 0 /\ DOMAIN <<>> = {}
  BY <1>1
<1>3. cfg \in ConfigUnderConstruction
  <2>1. \A S : <<>> \in Seq(S)
    BY EmptySeq
  <2> QED
    BY <1>1, <2>1 DEF ConfigUnderConstruction
<1>4. Validated(0)
  BY <1>1, <1>2 DEF Validated, Valid
<1>5. Resolved(0)
  <2>1. Range(cfg.webhooks) = {} /\ Range(cfg.postings) = {} /\ DOMAIN cfg.postings = {}
    BY <1>2 DEF Range
  <2> QED
    BY <1>2, <2>1 DEF Resolved
<1> QED
  BY <1>1, <1>2, <1>3, <1>4, <1>5 DEF LoadInv, LoadTypeOK, Progress, RefusedForReason

(* The environment only turns out to hold more, never something else.        *)
LEMMA EnvironmentGrows ==
  ASSUME LoadTypeOK, NEW V, NEW e \in Environments(V)
  PROVE  /\ DOMAIN e = V \cup DOMAIN env
         /\ \A v \in DOMAIN env : e[v] = env[v]
         /\ \A v \in DOMAIN e : e[v] \in Nat
<1>1. e \in [V \cup DOMAIN env -> SecretLengths \cup {0, 1}]
  BY DEF Environments
<1>2. \A v \in DOMAIN env : e[v] = env[v]
  BY <1>1 DEF Environments
<1>3. SecretLengths \cup {0, 1} \subseteq Nat
  <2>1. SecretLengths \subseteq Nat \ {0}
    BY ConfigurationConstants, Zenon
  <2> QED
    BY <2>1
<1> QED
  BY <1>1, <1>2, <1>3

(* What is known of the file and of the Config stays known while only the    *)
(* environment grows.                                                        *)
LEMMA KnownStaysKnown ==
  ASSUME LoadTypeOK, UNCHANGED <<file, cfg>>, NEW n \in Nat,
         DOMAIN env \subseteq DOMAIN env', \A v \in DOMAIN env : env'[v] = env[v]
  PROVE  /\ Valid(n) => Valid(n)'
         /\ RuntimeValid => RuntimeValid'
         /\ Resolved(n) => Resolved(n)'
<1>1. Integrations' = Integrations
  BY DEF Integrations
<1>2. Valid(n) => Valid(n)'
  BY <1>1 DEF Valid, Proper, Apart
<1>3. RuntimeValid => RuntimeValid'
  BY DEF RuntimeValid
<1>4. ASSUME Resolved(n) PROVE Resolved(n)'
  <2>1. ASSUME NEW i \in 1..n PROVE FormNameFits(Integrations[i])'
    <3>1. FormNameFits(Integrations[i])
      BY <1>4 DEF Resolved
    <3> QED
      BY <1>1, <3>1 DEF FormNameFits
  <2> QED
    BY <1>1, <1>4, <2>1 DEF Resolved
<1> QED
  BY <1>2, <1>3, <1>4

\* Something wrong with the file itself.
FileAtFault ==
  \/ ~file.well_formed \/ file.event_retention = 0
  \/ ~Fit(file.rate_limit.reading) \/ ~Fit(file.rate_limit.posting)
  \/ \E i \in DOMAIN Integrations : ~Proper(Integrations[i])
  \/ \E i, j \in DOMAIN Integrations : i # j /\ ~Apart(Integrations[i], Integrations[j])

(* Refusing a file that is at fault is refusing it for a reason.             *)
LEMMA FaultIsReason ==
  ASSUME LoadTypeOK, FileAtFault, Refuse, UNCHANGED env
  PROVE  LoadInv'
<1>1. UNCHANGED <<file, cfg, env>> /\ step' = "refused" /\ Integrations' = Integrations
  BY DEF Refuse, Integrations
<1>2. LoadTypeOK' /\ Progress'
  BY <1>1 DEF LoadTypeOK, Progress
<1>3. FileAtFault'
  BY <1>1 DEF FileAtFault, Proper, Apart
<1>4. RefusedForReason'
  BY <1>3 DEF RefusedForReason, FileAtFault
<1> QED
  BY <1>2, <1>4 DEF LoadInv

(* ValidateRuntime lets exactly the files pass whose own part is in order.   *)
LEMMA RuntimeStep == LoadInv /\ ValidateRuntime => LoadInv'
<1> SUFFICES ASSUME LoadInv, ValidateRuntime PROVE LoadInv'
  OBVIOUS
<1>1. LoadTypeOK /\ step = "runtime" /\ at = 1 /\ Validated(0) /\ Resolved(0)
  BY DEF LoadInv, Progress, ValidateRuntime
<1>2. /\ Len(Integrations) \in Nat /\ Integrations \in Seq(FileIntegration)
      /\ file.event_retention \in Nat
      /\ file.rate_limit.reading \in RateLimitBucketConfig
      /\ file.rate_limit.posting \in RateLimitBucketConfig
  BY <1>1, FileTypes DEF LoadTypeOK, RateLimitConfig
<1>3. CASE ~RuntimeValid
  <2>1. FileAtFault
    BY <1>2, <1>3, ValidBucketsFit DEF RuntimeValid, validate_rate_limit, FileAtFault
  <2> QED
    BY <1>1, <1>3, <2>1, FaultIsReason DEF ValidateRuntime
<1>4. CASE RuntimeValid
  <2>1. /\ step' = IF Integrations = <<>> THEN "fingerprint" ELSE "validate"
        /\ UNCHANGED <<file, at, names, env_names, public_tripcodes, cfg, env>>
    BY <1>4 DEF ValidateRuntime
  <2>2. Valid(0)' /\ RuntimeValid' /\ Resolved(0)' /\ Integrations' = Integrations
    BY <1>1, <1>4, <2>1, KnownStaysKnown DEF Validated, Integrations
  <2>3. Validated(0)'
    BY <1>1, <2>1, <2>2 DEF Validated
  <2>4. Integrations = <<>> => Len(Integrations) = 0
    OBVIOUS
  <2>5. Integrations # <<>> => 1 \in 1..Len(Integrations)
    BY <1>2, EmptySeq
  <2>6. Progress'
    BY <1>1, <2>1, <2>2, <2>3, <2>4, <2>5 DEF Progress
  <2>7. LoadTypeOK' /\ RefusedForReason'
    BY <1>1, <2>1 DEF LoadTypeOK, RefusedForReason
  <2> QED
    BY <2>6, <2>7 DEF LoadInv
<1> QED
  BY <1>3, <1>4

(* An integration that passes is proper, and apart from those before it.     *)
LEMMA PassedIsValid ==
  ASSUME LoadTypeOK, NEW n \in 1..Len(Integrations), Validated(n - 1),
         IntegrationValid(Integrations[n])
  PROVE  Valid(n)
<1> DEFINE x == Integrations[n]
<1>1. /\ Len(Integrations) \in Nat /\ x \in FileIntegration
      /\ x.rate_limit.reading \in RateLimitBucketConfig
      /\ x.rate_limit.posting \in RateLimitBucketConfig
  BY FileTypes DEF LoadTypeOK, FileIntegration, RateLimitConfig
<1>2. Proper(x)
  BY <1>1, ValidBucketsFit
  DEF IntegrationValid, valid_integration_name, validate_rate_limit, Proper
<1>3. ASSUME NEW j \in 1..(n - 1) PROVE Apart(x, Integrations[j]) /\ Apart(Integrations[j], x)
  <2> DEFINE y == Integrations[j]
  <2>1. env_safe_name(y.name) \in env_names
    BY DEF Validated
  <2>2. y.posting => y.public_tripcode \in public_tripcodes
    BY DEF Validated
  <2>3. env_safe_name(x.name) \notin env_names
    BY DEF IntegrationValid, NoConflict
  <2>4. x.posting => x.public_tripcode \notin public_tripcodes
    BY DEF IntegrationValid, validate_posting
  <2> QED
    BY <2>1, <2>2, <2>3, <2>4 DEF Apart
<1>4. \A i \in 1..n : i = n \/ i \in 1..(n - 1)
  BY <1>1
<1> QED
  BY <1>2, <1>3, <1>4 DEF Valid, Validated

(* An integration that does not pass is at fault, or clashes with one before *)
(* it.                                                                       *)
LEMMA FailedIsFault ==
  ASSUME LoadTypeOK, NEW n \in 1..Len(Integrations), Validated(n - 1),
         ~ IntegrationValid(Integrations[n])
  PROVE  FileAtFault
<1> DEFINE x == Integrations[n]
<1>1. /\ Len(Integrations) \in Nat /\ x \in FileIntegration
      /\ DOMAIN Integrations = 1..Len(Integrations)
      /\ x.rate_limit.reading \in RateLimitBucketConfig
      /\ x.rate_limit.posting \in RateLimitBucketConfig
  BY FileTypes DEF LoadTypeOK, FileIntegration, RateLimitConfig
<1>2. n \in DOMAIN Integrations
      /\ \A j \in 1..(n - 1) : j \in DOMAIN Integrations /\ j # n
  BY <1>1
<1>3. CASE ~Proper(x)
  BY <1>2, <1>3 DEF FileAtFault
<1>4. CASE Proper(x) /\ x.name \in names
  <2>1. PICK j \in 1..(n - 1) : x.name = Integrations[j].name
    BY <1>4 DEF Validated
  <2> QED
    BY <1>2, <2>1 DEF FileAtFault, Apart
<1>5. CASE Proper(x) /\ env_safe_name(x.name) \in env_names
  <2>1. PICK j \in 1..(n - 1) : env_safe_name(x.name) = env_safe_name(Integrations[j].name)
    BY <1>5 DEF Validated
  <2> QED
    BY <1>2, <2>1 DEF FileAtFault, Apart
<1>6. CASE Proper(x) /\ x.posting /\ x.public_tripcode \in public_tripcodes
  <2>1. PICK j \in 1..(n - 1) : /\ Integrations[j].posting
                                /\ x.public_tripcode = Integrations[j].public_tripcode
    BY <1>6 DEF Validated
  <2> QED
    BY <1>2, <1>6, <2>1 DEF FileAtFault, Apart
<1>7. ~Proper(x) \/ x.name \in names \/ env_safe_name(x.name) \in env_names
      \/ (x.posting /\ x.public_tripcode \in public_tripcodes)
  BY <1>1, ValidBucketsFit
  DEF IntegrationValid, valid_integration_name, NoConflict, validate_posting,
      validate_rate_limit, Proper
<1> QED
  BY <1>3, <1>4, <1>5, <1>6, <1>7

(* ValidateIntegration goes on with a valid prefix, or finds a fault.        *)
LEMMA ValidateStep == LoadInv /\ ValidateIntegration => LoadInv'
<1> SUFFICES ASSUME LoadInv, ValidateIntegration PROVE LoadInv'
  OBVIOUS
<1> DEFINE x == Integrations[at]
<1>1. /\ LoadTypeOK /\ RuntimeValid /\ step = "validate"
      /\ at \in 1..Len(Integrations) /\ Validated(at - 1) /\ Resolved(0)
  BY DEF LoadInv, Progress, ValidateIntegration
<1>2. Len(Integrations) \in Nat /\ at \in Nat /\ at >= 1
  BY <1>1, FileTypes DEF LoadTypeOK
<1>3. CASE ~IntegrationValid(x)
  BY <1>1, <1>3, FailedIsFault, FaultIsReason DEF ValidateIntegration
<1>4. CASE IntegrationValid(x)
  <2>1. /\ names' = names \cup {x.name}
        /\ env_names' = env_names \cup {env_safe_name(x.name)}
        /\ public_tripcodes' = public_tripcodes \cup
             (IF x.posting THEN {x.public_tripcode} ELSE {})
        /\ Advance("validate", "resolve")
        /\ UNCHANGED <<file, cfg, env>>
    BY <1>4 DEF ValidateIntegration
  <2>2. Valid(at)
    BY <1>1, <1>4, PassedIsValid
  <2>3. /\ Integrations' = Integrations
        /\ RuntimeValid' /\ Resolved(0)'
        /\ \A n \in Nat : Valid(n) => Valid(n)'
    BY <1>1, <2>1, KnownStaysKnown DEF Integrations
  <2>4. CASE at < Len(Integrations)
    <3>1. step' = "validate" /\ at' = at + 1 /\ at' - 1 = at
      BY <1>2, <2>1, <2>4 DEF Advance
    <3>2. 1..at = 1..(at - 1) \cup {at}
      BY <1>2
    <3>3. /\ names' = {Integrations[i].name : i \in 1..at}
          /\ env_names' = {env_safe_name(Integrations[i].name) : i \in 1..at}
          /\ public_tripcodes' = {Integrations[i].public_tripcode :
                                    i \in {j \in 1..at : Integrations[j].posting}}
      BY <1>1, <2>1, <3>2 DEF Validated
    <3>4. Valid(at - 1)'
      BY <1>2, <2>1, <2>2, <3>1 DEF Valid, Proper, Apart, Integrations
    <3>5. Validated(at - 1)'
      BY <2>3, <3>1, <3>3, <3>4 DEF Validated
    <3>6. at' \in 1..Len(Integrations)
      BY <1>2, <2>4, <3>1
    <3> QED
      BY <1>1, <2>1, <2>3, <3>1, <3>5, <3>6
      DEF LoadInv, LoadTypeOK, Progress, RefusedForReason
  <2>5. CASE ~(at < Len(Integrations))
    <3>1. step' = "resolve" /\ at' = 1 /\ at = Len(Integrations)
      BY <1>1, <1>2, <2>1, <2>5 DEF Advance
    <3>2. Valid(Len(Integrations))'
      BY <2>1, <2>2, <3>1 DEF Valid, Proper, Apart, Integrations
    <3>3. Resolved(at - 1)'
      BY <2>3, <3>1 DEF Resolved
    <3>4. at' \in 1..Len(Integrations)
      BY <1>2, <3>1
    <3> QED
      BY <1>1, <2>1, <2>3, <3>1, <3>2, <3>3, <3>4
      DEF LoadInv, LoadTypeOK, Progress, RefusedForReason
  <2> QED
    BY <2>4, <2>5
<1> QED
  BY <1>3, <1>4

(* A missing variable is a reason to refuse.                                 *)
LEMMA LackIsReason ==
  ASSUME LoadTypeOK, Refuse, NEW V, env' \in Environments(V),
         NEW v \in V, env'[v] = 0
  PROVE  LoadInv'
<1>1. UNCHANGED <<file, cfg>> /\ step' = "refused"
  BY DEF Refuse
<1>2. v \in DOMAIN env' /\ \A u \in DOMAIN env' : env'[u] \in Nat
  BY EnvironmentGrows
<1>3. RefusedForReason'
  BY <1>2 DEF RefusedForReason
<1> QED
  BY <1>1, <1>2, <1>3 DEF LoadInv, LoadTypeOK, Progress

(* What resolve adds to the Config for one integration.                      *)
LEMMA ConfigGrows ==
  ASSUME LoadTypeOK, NEW n \in 1..Len(Integrations),
         Valid(Len(Integrations)), Resolved(n - 1),
         UNCHANGED file,
         DOMAIN env \subseteq DOMAIN env', \A v \in DOMAIN env : env'[v] = env[v],
         FormNameFits(Integrations[n])',
         cfg' = [cfg EXCEPT
                   !.integrations = Append(@, IntegrationConfig(Integrations[n])),
                   !.webhooks = IF Integrations[n].webhook
                                THEN Append(@, WebhookConfig(Integrations[n])) ELSE @,
                   !.postings = IF Integrations[n].posting
                                THEN Append(@, PostingConfig(Integrations[n])) ELSE @]
  PROVE  cfg' \in ConfigUnderConstruction /\ Resolved(n)'
<1> DEFINE x == Integrations[n]
           I == {IntegrationConfig(y) : y \in FileIntegration}
           W == {WebhookConfig(y) : y \in FileIntegration}
           P == {PostingConfig(y) : y \in FileIntegration}
<1>1. /\ Len(Integrations) \in Nat /\ x \in FileIntegration /\ n \in Nat
      /\ Integrations' = Integrations
      /\ \A i \in 1..n : i = n \/ i \in 1..(n - 1)
      /\ \A i \in 1..(n - 1) : i \in 1..n /\ i # n /\ i \in 1..Len(Integrations)
      /\ n \in 1..n
  BY FileTypes DEF LoadTypeOK, Integrations
<1>2. /\ cfg.integrations \in Seq(I) /\ cfg.webhooks \in Seq(W) /\ cfg.postings \in Seq(P)
      /\ cfg.fingerprint_secret \in BOOLEAN
  BY DEF LoadTypeOK, ConfigUnderConstruction
<1>3. /\ cfg'.integrations = Append(cfg.integrations, IntegrationConfig(x))
      /\ cfg'.webhooks = IF x.webhook THEN Append(cfg.webhooks, WebhookConfig(x)) ELSE cfg.webhooks
      /\ cfg'.postings = IF x.posting THEN Append(cfg.postings, PostingConfig(x)) ELSE cfg.postings
      /\ cfg'.fingerprint_secret = cfg.fingerprint_secret
  BY DEF LoadTypeOK, ConfigUnderConstruction
<1>4. IntegrationConfig(x) \in I /\ WebhookConfig(x) \in W /\ PostingConfig(x) \in P
  BY <1>1
<1>5. cfg' \in ConfigUnderConstruction
  <2>1. /\ cfg'.integrations \in Seq(I) /\ cfg'.webhooks \in Seq(W) /\ cfg'.postings \in Seq(P)
    BY <1>2, <1>3, <1>4, Pushed
  <2>2. cfg' = [integrations |-> cfg'.integrations, webhooks |-> cfg'.webhooks,
                postings |-> cfg'.postings, fingerprint_secret |-> cfg'.fingerprint_secret]
    BY DEF LoadTypeOK, ConfigUnderConstruction
  <2> HIDE DEF I, W, P
  <2>3. cfg' \in [integrations : Seq(I), webhooks : Seq(W), postings : Seq(P),
                  fingerprint_secret : BOOLEAN]
    BY <1>2, <1>3, <2>1, <2>2
  <2> QED
    BY <2>3 DEF ConfigUnderConstruction, I, W, P
<1> HIDE DEF I, W, P
<1>6. /\ Len(cfg'.integrations) = n
      /\ \A i \in 1..n : cfg'.integrations[i] = IntegrationConfig(Integrations[i])
  <2>1. /\ Len(cfg'.integrations) = Len(cfg.integrations) + 1
        /\ \A i \in 1..Len(cfg.integrations) : cfg'.integrations[i] = cfg.integrations[i]
        /\ cfg'.integrations[Len(cfg.integrations) + 1] = IntegrationConfig(x)
    BY <1>2, <1>3, <1>4, Pushed
  <2>2. /\ Len(cfg.integrations) = n - 1
        /\ \A i \in 1..(n - 1) : cfg.integrations[i] = IntegrationConfig(Integrations[i])
    BY DEF Resolved
  <2>3. n - 1 + 1 = n
    BY <1>1
  <2> QED
    BY <1>1, <2>1, <2>2, <2>3
<1>7. \A w \in Range(cfg'.webhooks) : \E i \in 1..n :
        Integrations[i].webhook /\ w = WebhookConfig(Integrations[i])
  <2>1. \A w \in Range(cfg'.webhooks) : w \in Range(cfg.webhooks)
          \/ (x.webhook /\ w = WebhookConfig(x))
    BY <1>2, <1>3, <1>4, Pushed
  <2> QED
    BY <1>1, <2>1 DEF Resolved
<1>8. \A p \in Range(cfg'.postings) : \E i \in 1..n :
        Integrations[i].posting /\ p = PostingConfig(Integrations[i])
  <2>1. \A p \in Range(cfg'.postings) : p \in Range(cfg.postings)
          \/ (x.posting /\ p = PostingConfig(x))
    BY <1>2, <1>3, <1>4, Pushed
  <2> QED
    BY <1>1, <2>1 DEF Resolved
<1>9. \A i, j \in DOMAIN cfg'.postings : i # j =>
        cfg'.postings[i].public_tripcode # cfg'.postings[j].public_tripcode
  <2>1. CASE ~x.posting
    BY <1>3, <2>1 DEF Resolved
  <2>2. CASE x.posting
    <3> DEFINE s == cfg.postings
               t == cfg'.postings
    <3>1. /\ DOMAIN t = 1..(Len(s) + 1) /\ DOMAIN s = 1..Len(s) /\ Len(s) \in Nat
          /\ \A i \in 1..Len(s) : t[i] = s[i]
          /\ t[Len(s) + 1] = PostingConfig(x)
      BY <1>2, <1>3, <1>4, <2>2, Pushed
    <3>2. ASSUME NEW i \in 1..Len(s) PROVE s[i].public_tripcode # x.public_tripcode
      <4>1. s[i] \in Range(s)
        BY <3>1 DEF Range
      <4>2. PICK k \in 1..(n - 1) : Integrations[k].posting /\ s[i] = PostingConfig(Integrations[k])
        BY <4>1 DEF Resolved
      <4>3. Apart(Integrations[k], x)
        BY <1>1 DEF Valid
      <4> QED
        BY <2>2, <4>2, <4>3 DEF Apart, PostingConfig
    <3>3. t[Len(s) + 1].public_tripcode = x.public_tripcode
      BY <3>1 DEF PostingConfig
    <3>4. \A i, j \in 1..Len(s) : i # j => s[i].public_tripcode # s[j].public_tripcode
      BY <3>1 DEF Resolved
    <3>5. \A i \in DOMAIN t : i = Len(s) + 1 \/ i \in 1..Len(s)
      BY <3>1
    <3> HIDE DEF s, t
    <3>6. \A i, j \in DOMAIN t : i # j => t[i].public_tripcode # t[j].public_tripcode
      BY <3>1, <3>2, <3>3, <3>4, <3>5
    <3> QED
      BY <3>6 DEF t
  <2> QED
    BY <2>1, <2>2
<1>10. ASSUME NEW i \in 1..n PROVE FormNameFits(Integrations[i])'
  <2>1. CASE i = n
    BY <2>1
  <2>2. CASE i \in 1..(n - 1)
    <3>1. FormNameFits(Integrations[i])
      BY <2>2 DEF Resolved
    <3> QED
      BY <1>1, <3>1 DEF FormNameFits
  <2> QED
    BY <1>1, <2>1, <2>2
<1>11. Resolved(n)'
  BY <1>1, <1>6, <1>7, <1>8, <1>9, <1>10 DEF Resolved
<1> QED
  BY <1>5, <1>11

(* ResolveIntegration adds an integration whose secrets are there and whose  *)
(* form name fits, or has a reason to refuse.                                *)
LEMMA ResolveStep == LoadInv /\ ResolveIntegration => LoadInv'
<1> SUFFICES ASSUME LoadInv, ResolveIntegration PROVE LoadInv'
  OBVIOUS
<1>1. /\ LoadTypeOK /\ RuntimeValid /\ step = "resolve"
      /\ at \in 1..Len(Integrations)
      /\ Valid(Len(Integrations)) /\ Resolved(at - 1)
  BY DEF LoadInv, Progress, ResolveIntegration
<1>2. PICK n \in 1..Len(Integrations) : n = at
  BY <1>1
<1> DEFINE x == Integrations[n]
           trip == integration_tripcode_env(x.name)
<1>3. /\ Len(Integrations) \in Nat /\ n \in Nat /\ x \in FileIntegration
      /\ x \in Range(Integrations) /\ x.display_length \in Nat
  <2>1. file \in Files
    BY <1>1 DEF LoadTypeOK
  <2>2. /\ Len(Integrations) \in Nat /\ n \in Nat /\ x \in FileIntegration
        /\ n \in DOMAIN Integrations
    BY <2>1, FileTypes
  <2>3. x \in Range(Integrations)
    BY <2>2 DEF Range
  <2>4. x.display_length \in Nat
    BY <2>2 DEF FileIntegration
  <2> QED
    BY <2>2, <2>3, <2>4
<1>4. env' \in Environments(SecretVariables(x))
  BY <1>2 DEF ResolveIntegration
<1>5. /\ DOMAIN env' = SecretVariables(x) \cup DOMAIN env
      /\ \A v \in DOMAIN env : env'[v] = env[v]
      /\ \A v \in DOMAIN env' : env'[v] \in Nat
  BY <1>1, <1>4, EnvironmentGrows
<1>6. x.posting => trip \in SecretVariables(x)
  BY DEF SecretVariables
<1>7. CASE ~Resolvable(x, env')
  <2>1. Refuse
    BY <1>2, <1>7 DEF ResolveIntegration
  <2>2. CASE \E v \in SecretVariables(x) : ~(env'[v] > 0)
    <3>1. PICK v \in SecretVariables(x) : env'[v] = 0
      BY <1>5, <2>2
    <3> QED
      BY <1>1, <1>4, <2>1, <3>1, LackIsReason
  <2>3. CASE x.posting /\ ~(form_name_length(x, env'[trip]) <= FormNameMax)
    <3>1. UNCHANGED <<file, cfg>> /\ step' = "refused" /\ Integrations' = Integrations
      BY <2>1 DEF Refuse, Integrations
    <3>2. trip \in DOMAIN env' /\ x.display_length + 2 + env'[trip] > FormNameMax
      <4>1. FormNameMax \in Nat
        BY ConfigurationConstants, Zenon
      <4>2. trip \in DOMAIN env' /\ env'[trip] \in Nat
        BY <1>5, <1>6, <2>3
      <4> QED
        BY <1>3, <2>3, <4>1, <4>2 DEF form_name_length
    <3>3. RefusedForReason'
      BY <1>3, <3>1, <3>2 DEF RefusedForReason
    <3> QED
      BY <1>1, <1>5, <3>1, <3>3 DEF LoadInv, LoadTypeOK, Progress
  <2> QED
    BY <1>7, <2>2, <2>3 DEF Resolvable
<1>8. CASE Resolvable(x, env')
  <2>1. /\ cfg' = [cfg EXCEPT
                     !.integrations = Append(@, IntegrationConfig(Integrations[n])),
                     !.webhooks = IF Integrations[n].webhook
                                  THEN Append(@, WebhookConfig(Integrations[n])) ELSE @,
                     !.postings = IF Integrations[n].posting
                                  THEN Append(@, PostingConfig(Integrations[n])) ELSE @]
        /\ Advance("resolve", "fingerprint")
        /\ UNCHANGED <<file, names, env_names, public_tripcodes>>
    BY <1>2, <1>8 DEF ResolveIntegration
  <2>2. Integrations' = Integrations /\ RuntimeValid'
    BY <1>1, <2>1 DEF Integrations, RuntimeValid
  <2>3. FormNameFits(Integrations[n])'
    BY <1>5, <1>6, <1>8, <2>2 DEF FormNameFits, Resolvable, form_name_length
  <2>4. cfg' \in ConfigUnderConstruction /\ Resolved(n)'
    BY <1>1, <1>2, <1>5, <2>1, <2>3, ConfigGrows
  <2>5. Valid(Len(Integrations))'
    BY <1>1, <2>1, <2>2 DEF Valid, Proper, Apart
  <2>6. LoadTypeOK'
    BY <1>1, <1>5, <2>1, <2>4 DEF LoadTypeOK
  <2>7. CASE n < Len(Integrations)
    <3>1. step' = "resolve" /\ at' = n + 1 /\ at' - 1 = n /\ at' \in 1..Len(Integrations)
      BY <1>2, <1>3, <2>1, <2>7 DEF Advance
    <3>2. Resolved(at - 1)'
      BY <2>4, <3>1
    <3> QED
      BY <2>2, <2>5, <2>6, <3>1, <3>2 DEF LoadInv, Progress, RefusedForReason
  <2>8. CASE ~(n < Len(Integrations))
    <3>1. step' = "fingerprint" /\ n = Len(Integrations)
      BY <1>2, <1>3, <2>1, <2>8 DEF Advance
    <3>2. Resolved(Len(Integrations))'
      BY <2>2, <2>4, <3>1
    <3> QED
      BY <2>2, <2>5, <2>6, <3>1, <3>2 DEF LoadInv, Progress, RefusedForReason
  <2> QED
    BY <2>7, <2>8
<1> QED
  BY <1>7, <1>8

(* The last two steps need one more variable at most.                        *)
LEMMA FinishStep == LoadInv /\ (ResolveFingerprint \/ LoadCookie) => LoadInv'
<1> SUFFICES ASSUME LoadInv, ResolveFingerprint \/ LoadCookie PROVE LoadInv'
  OBVIOUS
<1>1. /\ LoadTypeOK /\ RuntimeValid
      /\ Valid(Len(Integrations)) /\ Resolved(Len(Integrations))
      /\ step # "fingerprint" => (AnyFingerprint => cfg.fingerprint_secret)
  BY DEF LoadInv, Progress, ResolveFingerprint, LoadCookie
<1>2. ASSUME NEW needed \in BOOLEAN, NEW variable, Lacking(needed, variable)
      PROVE  LoadInv'
  <2>1. Refuse /\ env' \in Environments({variable}) /\ env'[variable] = 0
    BY <1>2 DEF Lacking
  <2> QED
    BY <1>1, <2>1, LackIsReason
<1>3. ASSUME NEW needed \in BOOLEAN, NEW variable, ReadIf(needed, variable)
      PROVE  /\ DOMAIN env \subseteq DOMAIN env'
             /\ \A v \in DOMAIN env : env'[v] = env[v]
             /\ \A v \in DOMAIN env' : env'[v] \in Nat
  <2>1. PICK V : env' \in Environments(V)
    BY <1>3 DEF ReadIf
  <2> QED
    BY <1>1, <2>1, EnvironmentGrows
<1>4. AnyFingerprint \in BOOLEAN /\ (cfg.webhooks # <<>>) \in BOOLEAN
  BY DEF AnyFingerprint
<1>5. CASE ResolveFingerprint
  <2>1. CASE Lacking(AnyFingerprint, FingerprintEnv)
    BY <1>2, <1>4, <2>1
  <2>2. CASE /\ ReadIf(AnyFingerprint, FingerprintEnv)
             /\ cfg' = [cfg EXCEPT !.fingerprint_secret = AnyFingerprint]
             /\ step' = "cookie"
             /\ UNCHANGED <<file, at, names, env_names, public_tripcodes>>
    <3>1. /\ DOMAIN env \subseteq DOMAIN env'
          /\ \A v \in DOMAIN env : env'[v] = env[v]
          /\ \A v \in DOMAIN env' : env'[v] \in Nat
      BY <1>3, <1>4, <2>2
    <3>2. /\ cfg'.integrations = cfg.integrations /\ cfg'.webhooks = cfg.webhooks
          /\ cfg'.postings = cfg.postings /\ cfg'.fingerprint_secret = AnyFingerprint
          /\ cfg' \in ConfigUnderConstruction
      BY <1>1, <1>4, <2>2 DEF LoadTypeOK, ConfigUnderConstruction
    <3>3. /\ Integrations' = Integrations /\ RuntimeValid'
          /\ AnyFingerprint' = AnyFingerprint
      BY <1>1, <2>2, <3>2 DEF Integrations, RuntimeValid, AnyFingerprint
    <3>4. Valid(Len(Integrations))'
      BY <1>1, <3>3 DEF Valid, Proper, Apart
    <3>5. Resolved(Len(Integrations))'
      <4>1. ASSUME NEW i \in 1..Len(Integrations) PROVE FormNameFits(Integrations[i])'
        <5>1. FormNameFits(Integrations[i])
          BY <1>1 DEF Resolved
        <5> QED
          BY <3>1, <3>3, <5>1 DEF FormNameFits
      <4> QED
        BY <1>1, <3>2, <3>3, <4>1 DEF Resolved
    <3> QED
      BY <1>1, <2>2, <3>1, <3>2, <3>3, <3>4, <3>5
      DEF LoadInv, LoadTypeOK, Progress, RefusedForReason
  <2> QED
    BY <1>5, <2>1, <2>2 DEF ResolveFingerprint
<1>6. CASE LoadCookie
  <2>1. CASE Lacking(cfg.webhooks # <<>>, SessionCookieEnv)
    BY <1>2, <1>4, <2>1
  <2>2. CASE /\ ReadIf(cfg.webhooks # <<>>, SessionCookieEnv)
             /\ step' = "running"
             /\ UNCHANGED <<file, at, names, env_names, public_tripcodes, cfg>>
    <3>1. /\ DOMAIN env \subseteq DOMAIN env'
          /\ \A v \in DOMAIN env : env'[v] = env[v]
          /\ \A v \in DOMAIN env' : env'[v] \in Nat
      BY <1>3, <1>4, <2>2
    <3>2. PICK n \in Nat : n = Len(Integrations)
      BY <1>1, FileTypes DEF LoadTypeOK
    <3>3. Valid(n)' /\ RuntimeValid' /\ Resolved(n)' /\ Integrations' = Integrations
      BY <1>1, <2>2, <3>1, <3>2, KnownStaysKnown DEF Integrations
    <3>4. Valid(Len(Integrations))' /\ Resolved(Len(Integrations))'
      BY <3>2, <3>3
    <3>5. (AnyFingerprint => cfg.fingerprint_secret)'
      BY <1>1, <1>6, <2>2 DEF AnyFingerprint, LoadCookie
    <3> QED
      BY <1>1, <2>2, <3>1, <3>3, <3>4, <3>5
      DEF LoadInv, LoadTypeOK, Progress, RefusedForReason
  <2> QED
    BY <1>6, <2>1, <2>2 DEF LoadCookie
<1> QED
  BY <1>5, <1>6

(* Every step of loading keeps its invariant, and nothing else touches it.   *)
LEMMA LoadInvStep == LoadInv /\ (Load \/ UNCHANGED loadVars) => LoadInv'
<1>1. LoadInv /\ Load => LoadInv'
  BY RuntimeStep, ValidateStep, ResolveStep, FinishStep DEF Load
<1>2. LoadInv /\ UNCHANGED loadVars => LoadInv'
  <2> SUFFICES ASSUME LoadInv, UNCHANGED loadVars PROVE LoadInv'
    OBVIOUS
  <2>1. UNCHANGED <<file, step, at, names, env_names, public_tripcodes, env, cfg>>
    BY DEF loadVars
  <2>2. Integrations' = Integrations
    BY <2>1 DEF Integrations
  <2>3. LoadTypeOK' /\ RefusedForReason'
    BY <2>1, <2>2 DEF LoadInv, LoadTypeOK, RefusedForReason, Proper, Apart
  <2>4. \A n : /\ Valid(n) => Valid(n)'
               /\ Validated(n) => Validated(n)'
               /\ Resolved(n) => Resolved(n)'
    BY <2>1, <2>2 DEF Valid, Proper, Apart, Validated, Resolved, FormNameFits
  <2>5. Progress'
    BY <2>1, <2>2, <2>4 DEF LoadInv, Progress, RuntimeValid, AnyFingerprint
  <2> QED
    BY <2>3, <2>5 DEF LoadInv
<1> QED
  BY <1>1, <1>2

-----------------------------------------------------------------------------
(* A gateway that runs. *)

(* No two integrations share a name.                                         *)
LEMMA ValidNames ==
  ASSUME NEW n \in Nat, Valid(n), NEW i \in 1..n, NEW j \in 1..n,
         Integrations[i].name = Integrations[j].name
  PROVE  i = j
BY DEF Valid, Apart

(* What the Config of a gateway that runs is made of.                        *)
LEMMA RunningConfig ==
  ASSUME LoadInv, step = "running"
  PROVE  /\ LoadTypeOK /\ RuntimeValid
         /\ Valid(Len(Integrations)) /\ Resolved(Len(Integrations))
         /\ AnyFingerprint => cfg.fingerprint_secret
BY DEF LoadInv, Progress

(* No two secrets of a gateway that runs are from one variable.              *)
LEMMA SecretsApart ==
  ASSUME LoadInv, step = "running"
  PROVE  LET secrets == {<<x.name, "secret", x.secret>> : x \in Range(cfg.integrations)} \cup
                        {<<x.name, "tripcode", x.tripcode_secret>> : x \in Range(cfg.postings)} \cup
                        {<<x.name, "password", x.post_password>> : x \in Range(cfg.postings)}
         IN  \A s, t \in secrets : s[3] = t[3] => s = t
<1> DEFINE N == Len(Integrations)
           secrets == {<<x.name, "secret", x.secret>> : x \in Range(cfg.integrations)} \cup
                      {<<x.name, "tripcode", x.tripcode_secret>> : x \in Range(cfg.postings)} \cup
                      {<<x.name, "password", x.post_password>> : x \in Range(cfg.postings)}
<1>1. LoadTypeOK /\ Valid(N) /\ Resolved(N)
  BY RunningConfig
<1>2. N \in Nat /\ \A i \in 1..N : Integrations[i].name \in Seq(STRING)
  BY <1>1, FileTypes DEF LoadTypeOK, FileIntegration
<1>3. ASSUME NEW i \in 1..N, NEW j \in 1..N,
             env_safe_name(Integrations[i].name) = env_safe_name(Integrations[j].name)
      PROVE  i = j
  BY <1>1, <1>3 DEF Valid, Apart
<1>4. ASSUME NEW s \in secrets
      PROVE  \E i \in 1..N : LET n == Integrations[i].name IN
               \/ s = <<n, "secret", integration_secret_env(n)>>
               \/ s = <<n, "tripcode", integration_tripcode_env(n)>>
               \/ s = <<n, "password", integration_post_password_env(n)>>
  <2>1. CASE \E x \in Range(cfg.integrations) : s = <<x.name, "secret", x.secret>>
    <3>1. PICK x \in Range(cfg.integrations) : s = <<x.name, "secret", x.secret>>
      BY <2>1
    <3>2. cfg.integrations \in Seq({IntegrationConfig(y) : y \in FileIntegration})
          /\ Len(cfg.integrations) = N
      BY <1>1 DEF LoadTypeOK, ConfigUnderConstruction, Resolved
    <3>3. PICK i \in 1..N : x = cfg.integrations[i]
      BY <3>2 DEF Range
    <3>4. x = IntegrationConfig(Integrations[i])
      BY <1>1, <3>3 DEF Resolved
    <3> QED
      BY <3>1, <3>4 DEF IntegrationConfig
  <2>2. CASE \E x \in Range(cfg.postings) : \/ s = <<x.name, "tripcode", x.tripcode_secret>>
                                            \/ s = <<x.name, "password", x.post_password>>
    <3>1. PICK x \in Range(cfg.postings) : \/ s = <<x.name, "tripcode", x.tripcode_secret>>
                                           \/ s = <<x.name, "password", x.post_password>>
      BY <2>2
    <3>2. PICK i \in 1..N : x = PostingConfig(Integrations[i])
      BY <1>1 DEF Resolved
    <3> QED
      BY <3>1, <3>2 DEF PostingConfig
  <2> QED
    BY <2>1, <2>2
<1> HIDE DEF secrets
<1>5. ASSUME NEW s \in secrets, NEW t \in secrets, s[3] = t[3]
      PROVE  s = t
  <2>1. PICK i \in 1..N : LET n == Integrations[i].name IN
               \/ s = <<n, "secret", integration_secret_env(n)>>
               \/ s = <<n, "tripcode", integration_tripcode_env(n)>>
               \/ s = <<n, "password", integration_post_password_env(n)>>
    BY <1>4
  <2>2. PICK j \in 1..N : LET n == Integrations[j].name IN
               \/ t = <<n, "secret", integration_secret_env(n)>>
               \/ t = <<n, "tripcode", integration_tripcode_env(n)>>
               \/ t = <<n, "password", integration_post_password_env(n)>>
    BY <1>4
  <2> DEFINE m == Integrations[i].name
             n == Integrations[j].name
  <2>3. m \in Seq(STRING) /\ n \in Seq(STRING)
    BY <1>2
  <2>4. env_safe_name(m) = env_safe_name(n) => m = n
    BY <1>3
  <2> HIDE DEF m, n
  <2>5. /\ \/ s = <<m, "secret", integration_secret_env(m)>>
           \/ s = <<m, "tripcode", integration_tripcode_env(m)>>
           \/ s = <<m, "password", integration_post_password_env(m)>>
        /\ \/ t = <<n, "secret", integration_secret_env(n)>>
           \/ t = <<n, "tripcode", integration_tripcode_env(n)>>
           \/ t = <<n, "password", integration_post_password_env(n)>>
    BY <2>1, <2>2 DEF m, n
  <2>6. /\ integration_secret_env(m) = integration_secret_env(n) => m = n
        /\ integration_tripcode_env(m) = integration_tripcode_env(n) => m = n
        /\ integration_post_password_env(m) = integration_post_password_env(n) => m = n
        /\ integration_secret_env(m) # integration_tripcode_env(n)
        /\ integration_secret_env(m) # integration_post_password_env(n)
        /\ integration_tripcode_env(m) # integration_post_password_env(n)
    BY <2>3, <2>4, VariablesApart
  <2>7. /\ integration_secret_env(n) # integration_tripcode_env(m)
        /\ integration_secret_env(n) # integration_post_password_env(m)
        /\ integration_tripcode_env(n) # integration_post_password_env(m)
    BY <2>3, VariablesApart
  <2> QED
    BY <1>5, <2>5, <2>6, <2>7
<1>6. \A s, t \in secrets : s[3] = t[3] => s = t
  BY <1>5
<1> QED
  BY <1>6 DEF secrets

(* What has been checked on the way makes a gateway that runs sound.         *)
LEMMA SoundWhenRunning == LoadInv => RunningIsSound
<1> SUFFICES ASSUME LoadInv, step = "running" PROVE RunningIsSound
  BY DEF RunningIsSound
<1> DEFINE N == Len(Integrations)
<1>1. /\ LoadTypeOK /\ RuntimeValid /\ Valid(N) /\ Resolved(N)
      /\ AnyFingerprint => cfg.fingerprint_secret
  BY RunningConfig
<1>2. /\ Integrations \in Seq(FileIntegration) /\ N \in Nat
      /\ file.rate_limit.reading \in RateLimitBucketConfig
      /\ file.rate_limit.posting \in RateLimitBucketConfig
  BY <1>1, FileTypes DEF LoadTypeOK, RateLimitConfig
<1>3. /\ file.event_retention > 0
      /\ Fit(file.rate_limit.reading) /\ Fit(file.rate_limit.posting)
  BY <1>1, <1>2, ValidBucketsFit DEF RuntimeValid, validate_rate_limit
<1>4. DOMAIN cfg.integrations = 1..N
  BY <1>1 DEF LoadTypeOK, ConfigUnderConstruction, Resolved
<1>5. ASSUME NEW x \in Range(cfg.integrations)
      PROVE  Fit(x.rate_limit.reading) /\ Fit(x.rate_limit.posting)
  <2>1. PICK i \in 1..N : x = IntegrationConfig(Integrations[i])
    BY <1>1, <1>4 DEF Range, Resolved
  <2>2. Proper(Integrations[i])
    BY <1>1 DEF Valid
  <2> QED
    BY <2>1, <2>2 DEF IntegrationConfig, Proper
<1>6. ASSUME NEW x \in Range(Integrations), x.posting
      PROVE  x.display_length + 2 + env[integration_tripcode_env(x.name)] <= FormNameMax
  <2>1. PICK i \in 1..N : x = Integrations[i]
    BY <1>2 DEF Range
  <2> QED
    BY <1>1, <1>6, <2>1 DEF Resolved, FormNameFits
<1>7. \A i, j \in DOMAIN cfg.postings : i # j =>
         cfg.postings[i].public_tripcode # cfg.postings[j].public_tripcode
  BY <1>1 DEF Resolved
<1>8. ASSUME NEW i \in DOMAIN cfg.integrations, NEW j \in DOMAIN cfg.integrations, i # j
      PROVE  cfg.integrations[i].name # cfg.integrations[j].name
  <2>0. i \in 1..N /\ j \in 1..N
    BY <1>4, <1>8
  <2>1. /\ cfg.integrations[i] = IntegrationConfig(Integrations[i])
        /\ cfg.integrations[j] = IntegrationConfig(Integrations[j])
    BY <1>1, <2>0 DEF Resolved
  <2>2. /\ cfg.integrations[i].name = Integrations[i].name
        /\ cfg.integrations[j].name = Integrations[j].name
    BY <2>1 DEF IntegrationConfig
  <2> QED
    BY <1>1, <1>2, <1>8, <2>0, <2>2, ValidNames
<1> QED
  BY <1>1, <1>3, <1>5, <1>6, <1>7, <1>8, SecretsApart DEF RunningIsSound
=============================================================================
