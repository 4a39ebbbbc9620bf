----------------------------- MODULE Configuration -----------------------------
(***************************************************************************)
(* What a process makes of its environment variables when it starts:       *)
(* lib/config/environmentGuard.ts (its identity), runtimeConfig.ts (what   *)
(* must be there), runtimeConfigFingerprint.ts (whether it is what was     *)
(* released), and lib/database/tlsPolicy.ts with tlsPolicyRuntime.ts (how  *)
(* it may talk to the database).                                           *)
(*                                                                         *)
(* Development and ci are configured as preview is, and left out.          *)
(***************************************************************************)
EXTENDS Checks

Environments == {"production", "preview", "test"}

(* -------------------------------- identity -------------------------------- *)

ParseEnvironment(value) ==
  IF value \in Environments THEN value ELSE "RUNTIME_ENVIRONMENT_INVALID"

ResolveRuntimeEnvironment(explicit, vercel, nodeTest) ==
  CASE explicit # "unset" -> ParseEnvironment(explicit)
    [] explicit = "unset" /\ vercel # "unset" -> ParseEnvironment(vercel)
    [] explicit = "unset" /\ vercel = "unset" /\ nodeTest -> "test"
    [] OTHER -> "RUNTIME_ENVIRONMENT_MISSING"

VerifyEnvironmentPairing(runtime, stamp) ==
  CASE stamp = "none" -> "DATABASE_STAMP_MISSING"
    [] stamp # "none" /\ stamp \notin Environments -> "DATABASE_STAMP_INVALID"
    [] stamp \in Environments /\ stamp # runtime -> "ENVIRONMENT_MISMATCH"
    [] OTHER -> "ok"

(* ----------------------------- configuration ------------------------------ *)

Missing(variable) == <<variable, "MISSING_REQUIRED">>

RequiredByEnvironment ==
  [production |-> <<Missing("DATABASE_URL"), Missing("CRON_SECRET")>>,
   preview |-> <<Missing("DATABASE_URL")>>,
   test |-> <<>>]

FormatChecks == <<
  <<"url_malformed", "INVALID_DATABASE_URL">>, <<"url_for_prisma", "INVALID_DATABASE_URL">>,
  <<"url_other_protocol", "INVALID_DATABASE_URL">>,
  <<"freshness_not_positive", "INVALID_NUMERIC">>, <<"freshness_unsafe", "INVALID_NUMERIC">>,
  <<"sources_not_positive", "INVALID_NUMERIC">>, <<"sources_unsafe", "INVALID_NUMERIC">> >>

\* validateRuntimeConfig: the environment of a valid configuration, whether it
\* names a database, or what is wrong with it.
ValidateRuntimeConfig(environment, defects) ==
  LET verdict == IF environment \notin Environments THEN environment
                 ELSE FirstFailure(RequiredByEnvironment[environment] \o FormatChecks, defects)
  IN  [verdict |-> verdict, environment |-> environment,
       database |-> "DATABASE_URL" \notin defects]

\* Everything a configuration can come to.
RuntimeConfigs ==
  {ValidateRuntimeConfig(ResolveRuntimeEnvironment(e, v, t), d) :
     e, v \in Environments \cup {"unset", "unknown"}, t \in BOOLEAN,
     d \in WithADefect(RequiredByEnvironment["production"] \o FormatChecks)}

\* verifyRuntimeConfigFingerprint: the fingerprint a deployment is expected to
\* have is bound to it, bound to another configuration, or missing.
FingerprintPolicy(raw, environment) ==
  CASE raw # "unset" -> raw
    [] raw = "unset" /\ environment = "production" -> "fail"
    [] OTHER -> "warn"

VerifyFingerprint(expected, policy, environment) ==
  CASE expected = "missing" /\ environment = "production" /\ policy = "fail" -> "EXPECTED_FINGERPRINT_MISSING"
    [] expected = "another" /\ policy = "fail" -> "RUNTIME_CONFIG_FINGERPRINT_MISMATCH"
    [] OTHER -> "ok"

(* ---------------------------------- TLS ----------------------------------- *)

ModeStrength == [DISABLED |-> 0, NO_VERIFY |-> 1, UNSET |-> 2, REQUIRE |-> 3, VERIFY_FULL |-> 4]

\* What a URL declares: each value of sslmode and ssl with the mode it is read
\* as, and the certificate parameters.
Certificates == <<"sslrootcert", "VERIFY_FULL">>
UrlDeclarations ==
  ({"sslmode"} \X DOMAIN ModeStrength)
    \cup ({"ssl"} \X {"DISABLED", "NO_VERIFY", "VERIFY_FULL"}) \cup {Certificates}

\* Mutant: the first declaration found decides.
StrongestMode(declared) ==
  CHOOSE m \in {d[2] : d \in declared} :
    \A d \in declared : ModeStrength[d[2]] =< ModeStrength[m]

WeakestMode(declared) ==
  CHOOSE m \in {d[2] : d \in declared} :
    \A d \in declared : ModeStrength[m] =< ModeStrength[d[2]]

\* The certificates count only where no mode is declared.
ClassifyUrlTlsParameters(declared) ==
  CASE declared \ {Certificates} # {} -> WeakestMode(declared \ {Certificates})
    [] declared = {Certificates} -> "VERIFY_FULL"
    [] OTHER -> "none"

\* The PG* variables count only where the URL says nothing.
EffectiveMode(declared, pgMode) ==
  LET url == ClassifyUrlTlsParameters(declared)
  IN  CASE url # "none" -> url
        [] url = "none" /\ pgMode # "none" -> pgMode
        [] OTHER -> "UNSET"

ResolveDatabaseTlsPolicy(mode, production, bypass) ==
  CASE ~production /\ mode \in {"DISABLED", "NO_VERIFY", "UNSET"} -> "DISABLED"
    [] production /\ mode = "DISABLED" -> "PRODUCTION_TLS_DISABLED"
    [] production /\ mode = "NO_VERIFY" /\ ~bypass -> "PRODUCTION_TLS_VERIFICATION_BYPASS"
    [] production /\ mode = "NO_VERIFY" /\ bypass -> "NO_VERIFY"
    [] OTHER -> "VERIFY_FULL"

\* stripTlsParameters leaves the driver none of them.
SslUrlParameters == {"sslmode", "ssl", "sslrootcert"}
StripTlsParameters(declared) == {d \in declared : d[1] \notin SslUrlParameters}

\* The driver lets the parameters of a URL override the ssl object of its pool.
DriverChannel(declared, mode) ==
  IF declared = {} THEN mode ELSE WeakestMode(declared)

\* resolveDatabaseTlsPolicyForEnvironment, and the channel it ends in; `asked`
\* keeps what the URL asked for that production must not have.
TlsOutcome(environment, declared, pgMode, bypassSet, ca) ==
  LET production == environment = "production"
      bypass == production /\ bypassSet
      mode == EffectiveMode(declared, pgMode)
      resolved == ResolveDatabaseTlsPolicy(mode, production, bypass)
      accepted == resolved \in DOMAIN ModeStrength
  IN  [verdict |-> CASE production /\ ca = "lost" -> "PRODUCTION_TLS_CA_MISSING"
                     [] ~(production /\ ca = "lost") /\ accepted -> "ok"
                     [] OTHER -> resolved,
       channel |-> IF accepted THEN DriverChannel(StripTlsParameters(declared), resolved) ELSE "none",
       bypass |-> bypass,
       asked |-> {d[2] : d \in declared} \cap {"DISABLED", "NO_VERIFY"}]

\* Everything the settings of an environment can come to.
TlsOutcomes ==
  [environment \in Environments |->
     {TlsOutcome(environment, {d, e}, pgMode, bypass, ca) :
        d, e \in UrlDeclarations, pgMode \in DOMAIN ModeStrength \cup {"none"},
        bypass \in BOOLEAN, ca \in {"none", "read", "lost"}}
     \cup
     {TlsOutcome(environment, {}, pgMode, bypass, ca) :
        pgMode \in DOMAIN ModeStrength \cup {"none"},
        bypass \in BOOLEAN, ca \in {"none", "read", "lost"}}]
===============================================================================
