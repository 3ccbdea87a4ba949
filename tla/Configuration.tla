--------------------------- MODULE Configuration ---------------------------
(***************************************************************************)
(* internal/config/config.go: what Load makes of the environment.  An      *)
(* environment gives each variable a value, Unset, or Garbled for text     *)
(* that does not parse, or a path without its /; numbers are numbers,      *)
(* prefixes are sets of peers.  "others" stands for the variables that are *)
(* checked and then only name, address or label something.  A metrics path *)
(* with its / is given by what ServeMux makes of "GET " + it, beside the   *)
(* routes of NewHandler: "free", as the default /metrics; the "same"       *)
(* requests as a route, /docs or /r/{x}; "overlapping" with one, /{x}/live;*)
(* or "malformed", /{ or //m.  Load does not tell these apart.             *)
(***************************************************************************)
EXTENDS Integers

CONSTANTS
  Unset, Garbled,
  NaN,            \* strconv.ParseFloat takes "NaN" for a number
  NoConfig,       \* Load returned an error
  MinCode, MaxCode, \* 4 and 16
  DefaultCode     \* 7

ASSUME CodeAssumption ==
  MinCode \in Nat /\ MaxCode \in Nat /\ DefaultCode \in MinCode .. MaxCode

(* envString, envInt, envFloat, envDuration; Garbled is an error to all but *)
(* envString, which has no reason to refuse it.                             *)
Env(value, fallback) == IF value = Unset THEN fallback ELSE value

(* envBool: what is neither true nor false is taken for the fallback.       *)
EnvBool(value, fallback) == IF value \in BOOLEAN THEN value ELSE fallback

(* strings.ToLower; all other spellings of a name are as these.             *)
Lower(name) ==
  CASE name = "SQLite" -> "sqlite" [] name = "Redis" -> "redis" [] OTHER -> name

Parsed(env) ==
  /\ Garbled \notin {env.codeLength, env.rate, env.burst, env.cleanupInterval, env.proxies,
                   env.metricsPath}
  /\ env.others # Garbled

(* No comparison with NaN holds: it is not <= 0.                            *)
InRange(env) ==
  /\ Env(env.codeLength, DefaultCode) \in MinCode .. MaxCode
  /\ Env(env.rate, 30) = NaN \/ Env(env.rate, 30) > 0
  /\ Env(env.burst, 10) > 0
  /\ Env(env.cleanupInterval, 30) >= 0

Known(env) ==
  /\ Lower(Env(env.storageDriver, "sqlite")) \in {"sqlite", "postgres"}
  /\ Lower(Env(env.rateLimitBackend, "memory")) \in {"memory", "redis"}

Load(env) ==
  IF ~(Parsed(env) /\ InRange(env) /\ Known(env)) THEN NoConfig
  ELSE [storageDriver    |-> Lower(Env(env.storageDriver, "sqlite")),
        rateLimitBackend |-> Lower(Env(env.rateLimitBackend, "memory")),
        codeLength       |-> Env(env.codeLength, DefaultCode),
        cleanupInterval  |-> Env(env.cleanupInterval, 30),
        metricsPath      |-> Env(env.metricsPath, "free"),
        adminToken       |-> env.adminToken,
        trustedProxies   |-> Env(env.proxies, {}),
        tracing          |-> EnvBool(env.tracing, FALSE)]
=============================================================================
