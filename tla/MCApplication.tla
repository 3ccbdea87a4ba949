--------------------------- MODULE MCApplication ---------------------------
(***************************************************************************)
(* Application with values for TLC: an environment for every check of Load *)
(* and for every way to start, and a request for every way through the     *)
(* middlewares.                                                            *)
(***************************************************************************)
EXTENDS Application, TLC

CONSTANTS q1, q2, proxy, stranger, victim, secret, guess

Env0 ==
  [codeLength |-> Unset, rate |-> Unset, burst |-> Unset, storageDriver |-> Unset,
   rateLimitBackend |-> Unset, proxies |-> Unset, cleanupInterval |-> 0,
   metricsPath |-> Unset, adminToken |-> Unset, tracing |-> Garbled, others |-> "valid"]

(* As deployments/docker-compose.yml has it, with a token and a proxy.      *)
Compose ==
  [Env0 EXCEPT !.storageDriver = "postgres", !.rateLimitBackend = "Redis", !.proxies = {proxy},
               !.cleanupInterval = Unset, !.adminToken = secret, !.tracing = TRUE]

AllEnvironments ==
  {Env0, Compose,
   [Env0 EXCEPT !.codeLength = 3], [Env0 EXCEPT !.rate = NaN, !.metricsPath = "same"],
   [Env0 EXCEPT !.metricsPath = "overlapping"],
   [Compose EXCEPT !.metricsPath = "malformed", !.adminToken = Unset],
   [Env0 EXCEPT !.rate = 0], [Env0 EXCEPT !.burst = 0], [Env0 EXCEPT !.storageDriver = "mysql"],
   [Env0 EXCEPT !.rateLimitBackend = "none"], [Env0 EXCEPT !.proxies = Garbled],
   [Env0 EXCEPT !.cleanupInterval = -1], [Env0 EXCEPT !.metricsPath = Garbled],
   [Env0 EXCEPT !.others = Garbled]}

Call(route, peer, forwarded, token, wellFormed) ==
  [route |-> route, peer |-> peer, forwarded |-> forwarded, token |-> token, wellFormed |-> wellFormed]

Creates ==
  {Call("create_rule", stranger, victim, Unset, TRUE), Call("generate_query", proxy, victim, Unset, TRUE),
   Call("generate_query", proxy, Unset, Unset, FALSE)}

Deletes == {Call("delete_rule", stranger, Unset, token, TRUE) : token \in {secret, guess}}

Others == {Call(route, stranger, Unset, Unset, TRUE) : route \in {"redirect", "get_rule", "health_ready",
                                                                  "page", "unrouted"}}

TwoCalls ==
  (q1 :> Creates \cup Deletes)
    @@ (q2 :> Others \cup {Call("create_rule", stranger, victim, Unset, TRUE),
                           Call("delete_rule", stranger, Unset, guess, TRUE)})
=============================================================================
