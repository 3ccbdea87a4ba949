------------------------- MODULE ApplicationProofs -------------------------
(***************************************************************************)
(* The application for any finite number of requests, any number of        *)
(* signals and any environments: first how Run starts and stops            *)
(* (CleanStop, ReleasedInOrder, AcceptedConfigRuns), then its types and    *)
(* what the server keeps to while Run closes things under it               *)
(* (AllowedBeforeCalled, ResponsesCounted).                                *)
(***************************************************************************)
EXTENDS Application, FiniteSetTheorems, TLAPS

(* CleanStop is kept because every handler that may run is active, and no   *)
(* connection is left for a new one.                                        *)
CleanInvariant ==
  result = "ok" => /\ conns = "closed" /\ run = "leaving"
                   /\ \A r \in Requests : ~Active(r)

LEMMA HandlersAreActive ==
  ASSUME NEW r \in Requests, Handle(r)
  PROVE  Active(r)
BY DEF Handle, Limit, Authorize, Parse, Serve, Page, Panic, Return, Active

LEMMA CleanInit == Init => CleanInvariant
BY DEF Init, CleanInvariant

LEMMA CleanStep ==
  ASSUME CleanInvariant, [Next]_vars
  PROVE  CleanInvariant'
<1> USE DEF CleanInvariant, Active, Leave, GoOn, At, ProcessUnchanged, serverVars
<1>1. CASE Start
  BY <1>1 DEF Start, LoadConfig, SetupTelemetry, OpenStore, OpenRateLimiter, Listen
<1>2. CASE ShutdownDone
  BY <1>2 DEF ShutdownDone, AllIdle
<1>3. CASE ServerFailed \/ Interrupted \/ ShutdownTimesOut
  BY <1>3 DEF ServerFailed, Interrupted, ShutdownTimesOut
<1>4. CASE Unwind \/ Exit
  BY <1>4 DEF Unwind, Exit
<1>5. CASE Bind \/ ServeFails \/ Signal \/ StartTicker \/ Cleanup
  BY <1>5 DEF Bind, ServeFails, Signal, StartTicker, Cleanup
<1>6. ASSUME NEW r \in Requests, Request(r)
      PROVE  CleanInvariant'
  <2>1. CASE Handle(r)
    BY <1>6, <2>1, HandlersAreActive DEF Request, appVars
  <2>2. CASE conns \in {"open", "failed"}
    BY <1>6, <2>2 DEF Request, appVars
  <2> QED  BY <1>6, <2>1, <2>2 DEF Request
<1>7. CASE UNCHANGED vars
  BY <1>7 DEF vars, appVars
<1> QED  BY <1>1, <1>2, <1>3, <1>4, <1>5, <1>6, <1>7 DEF Next, Stop

(* A stop that Run reports as clean has cut off no handler                  *)
(* (internal/app/app.go:110-119).                                           *)
THEOREM ApplicationStopsCleanly == Spec => []CleanStop
<1>1. CleanInvariant => CleanStop  BY DEF CleanInvariant, CleanStop
<1> QED  BY <1>1, CleanInit, CleanStep, PTL DEF Spec

-----------------------------------------------------------------------------
(* What is deferred is always a prefix of Stack, and what is open, notified *)
(* and not cancelled is told by its length.                                 *)
Stack == <<"telemetry", "store", "limiter", "stop", "cleanupCancel">>

StackTo(n) == [i \in 1 .. n |-> Stack[i]]

(* Where Run can be at a depth.                                             *)
RunAt(n) ==
  \/ n = 0 /\ run \in {"load", "telemetry"}
  \/ n = 1 /\ run = "store"
  \/ n = 2 /\ run = "limiter"
  \/ n = 3 /\ run = "listen"
  \/ n = 5 /\ run \in {"select", "shutdown"}
  \/ run = "leaving"

AtDepth(n) ==
  /\ RunAt(n)
  /\ deferred = StackTo(n)
  /\ opened \subseteq {"telemetry", "store", "limiter"}
  /\ "telemetry" \in opened <=> n >= 1
  /\ "store" \in opened <=> n >= 2
  /\ "limiter" \in opened <=> n >= 3
  /\ notified \in BOOLEAN /\ (notified <=> n >= 4)
  /\ cleaner \in [state : {"none", "started", "waiting", "sweeping", "ended"}, cancelled : BOOLEAN]
  /\ cleaner.state # "none" /\ n < 5 => cleaner.cancelled
  /\ run \in {"load", "telemetry", "store", "limiter", "listen"} => cleaner.state = "none"
  /\ exit \in {"ok", "error", "unsupported", "panic"} => n = 0
  /\ run # "leaving" => result = "none"

StackInvariant == \E n \in 0 .. 5 : AtDepth(n)

LEMMA StackPush ==
  ASSUME NEW n \in 0 .. 4
  PROVE  Append(StackTo(n), Stack[n + 1]) = StackTo(n + 1)
BY DEF StackTo, Stack

LEMMA StackPushTwo == StackTo(3) \o <<"stop", "cleanupCancel">> = StackTo(5)
BY DEF StackTo, Stack

LEMMA StackPop ==
  ASSUME NEW n \in 1 .. 5
  PROVE  /\ StackTo(n) # <<>>
         /\ Last(StackTo(n)) = Stack[n]
         /\ Front(StackTo(n)) = StackTo(n - 1)
BY DEF StackTo, Stack, Last, Front

LEMMA StackEmpty == StackTo(0) = <<>>
BY DEF StackTo

(* Steps that leave Run where it is, and all that AtDepth speaks of.        *)
LEMMA StackFrame ==
  ASSUME StackInvariant, UNCHANGED <<run, result, deferred, opened, notified>>,
         cleaner'.state # "none" => cleaner.state # "none",
         cleaner'.cancelled = cleaner.cancelled,
         cleaner' \in [state : {"none", "started", "waiting", "sweeping", "ended"}, cancelled : BOOLEAN],
         exit' \in {exit, "killed", "crashed"}
  PROVE  StackInvariant'
<1>1. PICK n \in 0 .. 5 : AtDepth(n)
  BY DEF StackInvariant
<1>2. RunAt(n)'
  BY <1>1 DEF AtDepth, RunAt
<1>3. AtDepth(n)'
  BY <1>1, <1>2 DEF AtDepth
<1> QED  BY <1>3 DEF StackInvariant

LEMMA StackInit == Init => StackInvariant
<1> SUFFICES ASSUME Init PROVE StackInvariant
  OBVIOUS
<1>1. cleaner \in [state : {"none", "started", "waiting", "sweeping", "ended"}, cancelled : BOOLEAN]
  BY DEF Init
<1>2. RunAt(0) /\ deferred = StackTo(0)
  BY StackEmpty DEF Init, RunAt
<1>3. /\ ~(0 >= 1) /\ ~(0 >= 2) /\ ~(0 >= 3) /\ ~(0 >= 4)
  OBVIOUS
<1>4. /\ opened = {} /\ notified = FALSE /\ result = "none" /\ exit = "none"
      /\ cleaner.state = "none"
  BY DEF Init
<1>5. AtDepth(0)
  BY <1>1, <1>2, <1>3, <1>4, Zenon DEF AtDepth
<1> QED  BY <1>5 DEF StackInvariant

(* A step of Start that pushes nothing, one resource, or the last two.      *)
LEMMA StackStart ==
  ASSUME StackInvariant, Start
  PROVE  StackInvariant'
<1> DEFINE Fixed == UNCHANGED <<exit, notified, cleaner>> /\ exit = "none"
           Stay  == Fixed /\ UNCHANGED <<opened, deferred>> /\ run' = "leaving"
           Push(what) == /\ Fixed /\ result' = result
                         /\ opened' = opened \cup {what} /\ deferred' = Append(deferred, what)
<1>1. PICK n \in 0 .. 5 : AtDepth(n)
  BY DEF StackInvariant
<1>2. CASE Stay
  BY <1>1, <1>2 DEF StackInvariant, AtDepth, RunAt
<1>3. CASE LoadConfig
  <2>1. /\ Fixed /\ UNCHANGED <<opened, deferred>> /\ run = "load"
        /\ run' = "leaving" \/ (run' = "telemetry" /\ result' = result)
    BY <1>3 DEF LoadConfig, At, Leave, GoOn, ProcessUnchanged
  <2>2. CASE run' = "telemetry" /\ result' = result
    BY <1>1, <2>1, <2>2 DEF StackInvariant, AtDepth, RunAt
  <2> QED  BY <1>2, <2>1, <2>2
<1>4. CASE SetupTelemetry
  <2>1. Stay \/ (Push("telemetry") /\ run' = "store")
    BY <1>4 DEF SetupTelemetry, At, Leave, GoOn, Open, ProcessUnchanged
  <2>2. run = "telemetry" /\ n = 0
    BY <1>1, <1>4 DEF SetupTelemetry, At, AtDepth, RunAt
  <2>3. ASSUME Push("telemetry"), run' = "store" PROVE AtDepth(1)'
    <3>1. deferred' = StackTo(1)
      BY <1>1, <2>2, <2>3, StackPush DEF AtDepth, Stack
    <3> QED  BY <1>1, <2>2, <2>3, <3>1 DEF AtDepth, RunAt
  <2> QED  BY <1>2, <2>1, <2>3 DEF StackInvariant
<1>5. CASE OpenStore
  <2>1. Stay \/ (Push("store") /\ run' = "limiter")
    BY <1>5 DEF OpenStore, At, Leave, GoOn, Open, ProcessUnchanged
  <2>2. run = "store" /\ n = 1
    BY <1>1, <1>5 DEF OpenStore, At, AtDepth, RunAt
  <2>3. ASSUME Push("store"), run' = "limiter" PROVE AtDepth(2)'
    <3>1. deferred' = StackTo(2)
      BY <1>1, <2>2, <2>3, StackPush DEF AtDepth, Stack
    <3> QED  BY <1>1, <2>2, <2>3, <3>1 DEF AtDepth, RunAt
  <2> QED  BY <1>2, <2>1, <2>3 DEF StackInvariant
<1>6. CASE OpenRateLimiter
  <2>1. Stay \/ (Push("limiter") /\ run' = "listen")
    BY <1>6 DEF OpenRateLimiter, At, Leave, GoOn, Open, ProcessUnchanged
  <2>2. run = "limiter" /\ n = 2
    BY <1>1, <1>6 DEF OpenRateLimiter, At, AtDepth, RunAt
  <2>3. ASSUME Push("limiter"), run' = "listen" PROVE AtDepth(3)'
    <3>1. deferred' = StackTo(3)
      BY <1>1, <2>2, <2>3, StackPush DEF AtDepth, Stack
    <3> QED  BY <1>1, <2>2, <2>3, <3>1 DEF AtDepth, RunAt
  <2> QED  BY <1>2, <2>1, <2>3 DEF StackInvariant
<1>7. CASE Listen
  <2>1. \/ Stay
        \/ /\ run' = "select" /\ result' = result /\ UNCHANGED <<opened, exit>> /\ exit = "none"
           /\ deferred' = deferred \o <<"stop", "cleanupCancel">> /\ notified' = TRUE
           /\ cleaner' = [cleaner EXCEPT !.state = IF Cleans THEN "started" ELSE @]
    BY <1>7 DEF Listen, At, Leave, GoOn, serverVars
  <2>2. run = "listen" /\ n = 3
    BY <1>1, <1>7 DEF Listen, At, AtDepth, RunAt
  <2>3. CASE ~Stay
    <3>1. /\ run' = "select" /\ result' = result /\ UNCHANGED <<opened, exit>> /\ exit = "none"
          /\ deferred' = deferred \o <<"stop", "cleanupCancel">> /\ notified' = TRUE
          /\ cleaner' = [cleaner EXCEPT !.state = IF Cleans THEN "started" ELSE @]
      BY <2>1, <2>3
    <3>2. AtDepth(3)
      BY <1>1, <2>2
    <3>3. deferred' = StackTo(5)
      BY <3>1, <3>2, StackPushTwo DEF AtDepth
    <3>4. cleaner' \in [state : {"none", "started", "waiting", "sweeping", "ended"}, cancelled : BOOLEAN]
      BY <3>1, <3>2 DEF AtDepth
    <3>5. RunAt(5)' /\ result' = "none"
      BY <2>2, <3>1, <3>2 DEF AtDepth, RunAt
    <3>6. AtDepth(5)'
      BY <3>1, <3>2, <3>3, <3>4, <3>5 DEF AtDepth
    <3> QED  BY <3>6 DEF StackInvariant
  <2> QED  BY <1>2, <2>3
<1> QED  BY <1>3, <1>4, <1>5, <1>6, <1>7 DEF Start

LEMMA StackStop ==
  ASSUME StackInvariant, Stop
  PROVE  StackInvariant'
<1>0. PICK n \in 0 .. 5 : AtDepth(n)
  BY DEF StackInvariant
<1>1. CASE ServerFailed \/ Interrupted \/ ShutdownDone \/ ShutdownTimesOut
  <2>1. /\ UNCHANGED <<opened, deferred, exit, notified, cleaner>> /\ exit = "none"
        /\ run \in {"select", "shutdown"}
        /\ run' = "leaving" \/ (run' = "shutdown" /\ result' = result)
    BY <1>1 DEF ServerFailed, Interrupted, ShutdownDone, ShutdownTimesOut,
                At, Leave, GoOn, ProcessUnchanged, serverVars
  <2>2. n = 5
    BY <1>0, <2>1 DEF AtDepth, RunAt
  <2>3. RunAt(5)' /\ (run' # "leaving" => result' = "none")
    BY <1>0, <2>1, <2>2 DEF AtDepth, RunAt
  <2>4. AtDepth(5)'
    BY <1>0, <2>1, <2>2, <2>3 DEF AtDepth
  <2> QED  BY <2>4 DEF StackInvariant
<1>2. CASE Unwind
  <2>1. AtDepth(n) /\ run = "leaving" /\ run' = "leaving" /\ exit = "none" /\ exit' = "none"
    BY <1>0, <1>2 DEF Unwind, At
  <2>2. n \in 1 .. 5
    BY <1>2, <2>1, StackEmpty DEF Unwind, AtDepth
  <2>3. LastDeferred[1] = Stack[n] /\ LastDeferred[2] = StackTo(n - 1)
    BY <2>1, <2>2, StackPop DEF LastDeferred, AtDepth
  <2>4. /\ opened' = opened \ {Stack[n]}
        /\ notified' = (notified /\ Stack[n] # "stop")
        /\ cleaner' = [cleaner EXCEPT !.cancelled = @ \/ Stack[n] = "cleanupCancel"]
    BY <1>2, <2>3 DEF Unwind
  <2>5. cleaner' \in [state : {"none", "started", "waiting", "sweeping", "ended"}, cancelled : BOOLEAN]
    BY <2>1, <2>4 DEF AtDepth
  <2>6. /\ cleaner'.state = cleaner.state
        /\ cleaner.cancelled \/ n = 5 => cleaner'.cancelled
    BY <2>1, <2>2, <2>4 DEF AtDepth, Stack
  <2>7. /\ opened' \subseteq {"telemetry", "store", "limiter"}
        /\ "telemetry" \in opened' <=> n - 1 >= 1
        /\ "store" \in opened' <=> n - 1 >= 2
        /\ "limiter" \in opened' <=> n - 1 >= 3
    BY <2>1, <2>2, <2>4 DEF AtDepth, Stack
  <2>8. notified' \in BOOLEAN /\ (notified' <=> n - 1 >= 4)
    <3>1. /\ n - 1 >= 4 => n >= 4 /\ Stack[n] # "stop"
          /\ n >= 4 /\ Stack[n] # "stop" => n - 1 >= 4
      BY <2>2 DEF Stack
    <3>2. notified \in BOOLEAN /\ (notified <=> n >= 4)
      BY <2>1 DEF AtDepth
    <3> QED  BY <2>4, <3>1, <3>2, Zenon
  <2>9. AtDepth(n - 1)'
    <3>1. deferred' = StackTo(n - 1)
      BY <1>2, <2>3 DEF Unwind
    <3>2. RunAt(n - 1)'
      BY <2>1 DEF RunAt
    <3>3. /\ cleaner'.state # "none" /\ n - 1 < 5 => cleaner'.cancelled
          /\ run' \in {"load", "telemetry", "store", "limiter", "listen"} => cleaner'.state = "none"
      BY <2>1, <2>2, <2>6 DEF AtDepth
    <3> QED  BY <2>1, <2>5, <2>7, <2>8, <3>1, <3>2, <3>3 DEF AtDepth
  <2> QED  BY <2>2, <2>9 DEF StackInvariant
<1>3. CASE Exit
  <2>1. deferred = StackTo(n) /\ deferred = <<>>
    BY <1>0, <1>3 DEF Exit, AtDepth
  <2>2. n = 0
    <3>1. n \notin 1 .. 5
      BY <2>1, StackPop
    <3> QED  BY <3>1
  <2>3. /\ UNCHANGED <<run, result, opened, deferred, notified, cleaner>> /\ run = "leaving"
    BY <1>3 DEF Exit, At, serverVars
  <2>4. RunAt(0)'
    BY <2>3 DEF RunAt
  <2>5. AtDepth(0)'
    BY <1>0, <2>2, <2>3, <2>4 DEF AtDepth
  <2> QED  BY <2>5 DEF StackInvariant
<1> QED  BY <1>1, <1>2, <1>3 DEF Stop

LEMMA StackAround ==
  ASSUME StackInvariant,
         \/ Bind \/ ServeFails \/ Signal \/ StartTicker \/ Cleanup
         \/ \E r \in Requests : Request(r)
         \/ UNCHANGED vars
  PROVE  StackInvariant'
<1>0. cleaner \in [state : {"none", "started", "waiting", "sweeping", "ended"}, cancelled : BOOLEAN]
  BY DEF StackInvariant, AtDepth
<1> USE DEF serverVars, appVars
<1>1. CASE Bind \/ ServeFails \/ Signal
  BY <1>0, <1>1, StackFrame DEF Bind, ServeFails, Signal
<1>2. CASE StartTicker \/ Cleanup
  BY <1>0, <1>2, StackFrame DEF StartTicker, Cleanup
<1>3. ASSUME NEW r \in Requests, Request(r)
      PROVE  StackInvariant'
  <2>1. UNCHANGED <<opened, appVars>>
    BY <1>3 DEF Request, Accept, Handle, Limit, Authorize, Parse, Serve, Page, Panic, Return
  <2> QED  BY <1>0, <2>1, StackFrame
<1>4. CASE UNCHANGED vars
  BY <1>0, <1>4, StackFrame DEF vars
<1> QED  BY <1>1, <1>2, <1>3, <1>4

(* Nothing that Run opened is left open when it returns, and everything is  *)
(* closed in the reverse order (internal/app/app.go:37-57, 75-80).          *)
THEOREM ApplicationReleasesInOrder == Spec => []ReleasedInOrder
<1>1. StackInvariant => ReleasedInOrder
  BY DEF StackInvariant, AtDepth, ReleasedInOrder
<1>2. StackInvariant /\ [Next]_vars => StackInvariant'
  BY StackStart, StackStop, StackAround DEF Next
<1> QED  BY <1>1, <1>2, StackInit, PTL DEF Spec

-----------------------------------------------------------------------------
(* Run opens with a configuration that Load has checked, and nothing        *)
(* changes it afterwards.                                                   *)
ConfigInvariant ==
  /\ run \in {"telemetry", "store", "limiter"} =>
       /\ cfg.storageDriver \in {"sqlite", "postgres"}
       /\ cfg.rateLimitBackend \in {"memory", "redis"}
  /\ cleaner.state = "started" => cfg.cleanupInterval > 0
  /\ result \in {"none", "ok", "error", "panic"}
  /\ exit # "crashed"

LEMMA LoadChecks ==
  ASSUME NEW env, Load(env) # NoConfig
  PROVE  /\ Load(env).storageDriver \in {"sqlite", "postgres"}
         /\ Load(env).rateLimitBackend \in {"memory", "redis"}
BY DEF Load, Known

LEMMA ConfigInit == Init => ConfigInvariant
BY DEF Init, ConfigInvariant

LEMMA ConfigStep ==
  ASSUME StackInvariant, ConfigInvariant, [Next]_vars
  PROVE  ConfigInvariant'
<1>1. /\ cleaner \in [state : {"none", "started", "waiting", "sweeping", "ended"}, cancelled : BOOLEAN]
      /\ run = "load" => cleaner.state = "none" /\ result = "none"
  BY DEF StackInvariant, AtDepth
<1> USE DEF ConfigInvariant, At, Leave, GoOn, ProcessUnchanged
<1>2. CASE LoadConfig
  BY <1>1, <1>2, LoadChecks DEF LoadConfig
<1>3. CASE SetupTelemetry \/ OpenStore \/ OpenRateLimiter
  BY <1>3 DEF SetupTelemetry, OpenStore, OpenRateLimiter
<1>4. CASE Listen
  <2>1. cleaner'.state = "started" => Cleans \/ cleaner.state = "started"
    BY <1>1, <1>4 DEF Listen
  <2> QED  BY <1>4, <2>1 DEF Listen, Cleans, serverVars
<1>5. CASE ServerFailed \/ Interrupted \/ ShutdownDone \/ ShutdownTimesOut \/ Exit
  BY <1>5 DEF ServerFailed, Interrupted, ShutdownDone, ShutdownTimesOut, Exit, serverVars
<1>6. CASE Unwind
  <2>1. cleaner'.state = cleaner.state
    BY <1>1, <1>6 DEF Unwind
  <2> QED  BY <1>6, <2>1 DEF Unwind
<1>7. CASE Bind \/ ServeFails \/ Signal
  BY <1>7 DEF Bind, ServeFails, Signal, serverVars
<1>8. CASE StartTicker \/ Cleanup
  <2>1. cleaner'.state = "started" => cleaner.state = "started"
    BY <1>1, <1>8 DEF StartTicker, Cleanup
  <2> QED  BY <1>8, <2>1 DEF StartTicker, Cleanup, serverVars
<1>9. CASE \E r \in Requests : Request(r)
  BY <1>9 DEF Request, Accept, Handle, Limit, Authorize, Parse, Serve, Page, Panic, Return, appVars
<1>10. CASE UNCHANGED vars
  BY <1>10 DEF vars, serverVars, appVars
<1> QED
  BY <1>2, <1>3, <1>4, <1>5, <1>6, <1>7, <1>8, <1>9, <1>10 DEF Next, Start, Stop

(* No configuration that passes Load's checks makes Run stop at a backend   *)
(* it does not know, or the cleanup goroutine panic                         *)
(* (internal/config/config.go:83-91, 107-114).                              *)
THEOREM AcceptedConfigurationRuns == Spec => []AcceptedConfigRuns
<1>1. ConfigInvariant => AcceptedConfigRuns
  BY DEF ConfigInvariant, AcceptedConfigRuns
<1>2. StackInvariant /\ [Next]_vars => StackInvariant'
  BY StackStart, StackStop, StackAround DEF Next
<1> QED  BY <1>1, <1>2, StackInit, ConfigInit, ConfigStep, PTL DEF Spec

-----------------------------------------------------------------------------
(* The server: an invariant of its requests, of when it serves, and of the  *)
(* counters                                                                 *)

Places == {"idle", "limit", "admin", "page", "parse", "service", "answered", "done", "recovered"}

PossibleCalls == UNION {Calls[r] : r \in Requests}

Keys == {Unset} \cup {call.peer : call \in PossibleCalls} \cup {call.forwarded : call \in PossibleCalls}

HandlerType ==
  [pc : Places, call : PossibleCalls \cup {Unset}, charged : Keys, called : BOOLEAN,
   sent : Nat, observed : Nat, traced : Nat]

(* A token was taken for an address that may be the client's.               *)
Charged(h) ==
  /\ h.charged # Unset
  /\ h.charged \in {h.call.peer} \cup (IF h.call.peer \in cfg.trustedProxies THEN {h.call.forwarded} ELSE {})

Admitted(h) == cfg.adminToken \in {Unset, h.call.token}

Unanswered == {"limit", "admin", "page", "parse", "service"}

(* How far a request can have come with what it has shown.                  *)
Allowed(h) ==
  /\ h.pc \in {"limit", "parse"} => h.call.route \in Limited
  /\ h.pc = "admin" => h.call.route = "delete_rule"
  /\ h.pc \in {"parse", "service"} /\ h.call.route \in Limited => Charged(h)
  /\ h.pc = "service" /\ h.call.route \in Limited => h.call.wellFormed
  /\ h.pc = "service" /\ h.call.route = "delete_rule" => Admitted(h)
  /\ h.called => /\ h.pc \notin Unanswered \cup {"idle"}
                 /\ h.call.route \in Limited => h.call.wellFormed /\ Charged(h)
                 /\ h.call.route = "delete_rule" => Admitted(h)

(* What the recorders hold is what was sent, unless the handler panicked.   *)
Recorded(h) ==
  /\ h.pc \in Unanswered \cup {"idle"} => h.sent = 0
  /\ h.pc \in {"answered", "done"} => h.sent # 0 /\ h.observed = h.sent /\ h.traced = h.sent
  /\ h.pc = "recovered" => h.sent = 500 /\ h.traced = 500
  /\ h.pc \in {"limit", "admin", "page", "parse"} => h.call.route # "redirect"

HandlersKept ==
  /\ handler \in [Requests -> HandlerType]
  /\ \A r \in Requests : /\ handler[r].pc # "idle" => handler[r].call \in Calls[r]
                         /\ Allowed(handler[r]) /\ Recorded(handler[r])

(* Nobody is served by a configuration that is still to be read.            *)
ServedAfterLoad ==
  run = "load" => conns = "none" /\ \A r \in Requests : handler[r].pc = "idle"

IsFinished(h, label) == h.pc = "done" /\ label = <<h.call.route, h.sent>>
IsLimited(h, route) == h.sent = 429 /\ h.call.route = route
IsRefused(h) == h.sent = 401
IsRedirect(h, label) ==
  h.pc \in {"answered", "done"} /\ h.call.route = "redirect" /\ Result(h.sent) = label

CountersKept ==
  /\ metrics = [http |-> metrics.http, limited |-> metrics.limited,
                redirects |-> metrics.redirects, authFailures |-> metrics.authFailures]
  /\ \A label \in Routed \X AnyStatus :
       Series(metrics.http, label) = Cardinality({r \in Requests : IsFinished(handler[r], label)})
  /\ \A route \in Limited :
       Series(metrics.limited, route) = Cardinality({r \in Requests : IsLimited(handler[r], route)})
  /\ metrics.authFailures = Cardinality({r \in Requests : IsRefused(handler[r])})
  /\ \A label \in Results :
       Series(metrics.redirects, label) = Cardinality({r \in Requests : IsRedirect(handler[r], label)})

ServerInvariant == HandlersKept /\ ServedAfterLoad /\ CountersKept

-----------------------------------------------------------------------------
(* Counting                                                                 *)

(* What a counter has to grow by when one request changes.                  *)
Rise(was, is) == IF is /\ ~was THEN 1 ELSE 0

LEMMA Recount ==
  ASSUME NEW A \in SUBSET Requests, NEW B \in SUBSET Requests, NEW r \in Requests,
         \A q \in Requests \ {r} : q \in A <=> q \in B,
         r \in A => r \in B
  PROVE  /\ Cardinality(A) \in Nat
         /\ Cardinality(B) = Cardinality(A) + Rise(r \in A, r \in B)
<1>1. IsFiniteSet(A)
  BY RequestAssumption, FS_Subset
<1>2. Cardinality(A) \in Nat
  BY <1>1, FS_CardinalityType
<1>3. CASE r \in B /\ r \notin A
  <2>1. B = A \cup {r}
    BY <1>3
  <2>2. Cardinality(B) = Cardinality(A) + 1
    BY <1>1, <1>3, <2>1, FS_AddElement
  <2> QED  BY <1>2, <1>3, <2>2 DEF Rise
<1>4. CASE ~ (r \in B /\ r \notin A)
  <2>1. A = B
    BY <1>4
  <2> QED  BY <1>2, <1>4, <2>1 DEF Rise
<1> QED  BY <1>3, <1>4

(* The counters of metrics follow one request from g to h.                  *)
Follows(g, h) ==
  /\ metrics' = [http |-> metrics'.http, limited |-> metrics'.limited,
                 redirects |-> metrics'.redirects, authFailures |-> metrics'.authFailures]
  /\ \A label \in Routed \X AnyStatus :
       /\ IsFinished(g, label) => IsFinished(h, label)
       /\ Series(metrics'.http, label)
            = Series(metrics.http, label) + Rise(IsFinished(g, label), IsFinished(h, label))
  /\ \A route \in Limited :
       /\ IsLimited(g, route) => IsLimited(h, route)
       /\ Series(metrics'.limited, route)
            = Series(metrics.limited, route) + Rise(IsLimited(g, route), IsLimited(h, route))
  /\ IsRefused(g) => IsRefused(h)
  /\ metrics'.authFailures = metrics.authFailures + Rise(IsRefused(g), IsRefused(h))
  /\ \A label \in Results :
       /\ IsRedirect(g, label) => IsRedirect(h, label)
       /\ Series(metrics'.redirects, label)
            = Series(metrics.redirects, label) + Rise(IsRedirect(g, label), IsRedirect(h, label))

LEMMA CountersStep ==
  ASSUME CountersKept, handler \in [Requests -> HandlerType], NEW r \in Requests, NEW h,
         handler' = [handler EXCEPT ![r] = h], Follows(handler[r], h)
  PROVE  CountersKept'
<1> DEFINE g == handler[r]
<1>1. /\ handler'[r] = h
      /\ \A q \in Requests \ {r} : handler'[q] = handler[q]
  OBVIOUS
<1>2. ASSUME NEW label \in Routed \X AnyStatus
      PROVE  Series(metrics'.http, label)
               = Cardinality({q \in Requests : IsFinished(handler'[q], label)})
  <2> DEFINE A == {q \in Requests : IsFinished(handler[q], label)}
             B == {q \in Requests : IsFinished(handler'[q], label)}
  <2>1. /\ \A q \in Requests \ {r} : q \in A <=> q \in B
        /\ r \in A <=> IsFinished(g, label)
        /\ r \in B <=> IsFinished(h, label)
    BY <1>1
  <2>2. Series(metrics.http, label) = Cardinality(A)
    BY DEF CountersKept
  <2>3. A \in SUBSET Requests /\ B \in SUBSET Requests
    OBVIOUS
  <2>4. (r \in A => r \in B) /\ Series(metrics'.http, label) = Cardinality(A) + Rise(r \in A, r \in B)
    BY <2>1, <2>2 DEF Follows, Rise
  <2> HIDE DEF A, B
  <2>5. Cardinality(B) = Cardinality(A) + Rise(r \in A, r \in B)
    BY <2>1, <2>3, <2>4, Recount
  <2> QED  BY <2>4, <2>5 DEF B
<1>3. ASSUME NEW route \in Limited
      PROVE  Series(metrics'.limited, route)
               = Cardinality({q \in Requests : IsLimited(handler'[q], route)})
  <2> DEFINE A == {q \in Requests : IsLimited(handler[q], route)}
             B == {q \in Requests : IsLimited(handler'[q], route)}
  <2>1. /\ \A q \in Requests \ {r} : q \in A <=> q \in B
        /\ r \in A <=> IsLimited(g, route)
        /\ r \in B <=> IsLimited(h, route)
    BY <1>1
  <2>2. Series(metrics.limited, route) = Cardinality(A)
    BY DEF CountersKept
  <2>3. A \in SUBSET Requests /\ B \in SUBSET Requests
    OBVIOUS
  <2>4. (r \in A => r \in B) /\ Series(metrics'.limited, route) = Cardinality(A) + Rise(r \in A, r \in B)
    BY <2>1, <2>2 DEF Follows, Rise
  <2> HIDE DEF A, B
  <2>5. Cardinality(B) = Cardinality(A) + Rise(r \in A, r \in B)
    BY <2>1, <2>3, <2>4, Recount
  <2> QED  BY <2>4, <2>5 DEF B
<1>4. metrics'.authFailures = Cardinality({q \in Requests : IsRefused(handler'[q])})
  <2> DEFINE A == {q \in Requests : IsRefused(handler[q])}
             B == {q \in Requests : IsRefused(handler'[q])}
  <2>1. /\ \A q \in Requests \ {r} : q \in A <=> q \in B
        /\ r \in A <=> IsRefused(g)
        /\ r \in B <=> IsRefused(h)
    BY <1>1
  <2>2. metrics.authFailures = Cardinality(A)
    BY DEF CountersKept
  <2>3. A \in SUBSET Requests /\ B \in SUBSET Requests
    OBVIOUS
  <2>4. (r \in A => r \in B) /\ metrics'.authFailures = Cardinality(A) + Rise(r \in A, r \in B)
    BY <2>1, <2>2 DEF Follows, Rise
  <2> HIDE DEF A, B
  <2>5. Cardinality(B) = Cardinality(A) + Rise(r \in A, r \in B)
    BY <2>1, <2>3, <2>4, Recount
  <2> QED  BY <2>4, <2>5 DEF B
<1>5. ASSUME NEW label \in Results
      PROVE  Series(metrics'.redirects, label)
               = Cardinality({q \in Requests : IsRedirect(handler'[q], label)})
  <2> DEFINE A == {q \in Requests : IsRedirect(handler[q], label)}
             B == {q \in Requests : IsRedirect(handler'[q], label)}
  <2>1. /\ \A q \in Requests \ {r} : q \in A <=> q \in B
        /\ r \in A <=> IsRedirect(g, label)
        /\ r \in B <=> IsRedirect(h, label)
    BY <1>1
  <2>2. Series(metrics.redirects, label) = Cardinality(A)
    BY DEF CountersKept
  <2>3. A \in SUBSET Requests /\ B \in SUBSET Requests
    OBVIOUS
  <2>4. (r \in A => r \in B) /\ Series(metrics'.redirects, label) = Cardinality(A) + Rise(r \in A, r \in B)
    BY <2>1, <2>2 DEF Follows, Rise
  <2> HIDE DEF A, B
  <2>5. Cardinality(B) = Cardinality(A) + Rise(r \in A, r \in B)
    BY <2>1, <2>3, <2>4, Recount
  <2> QED  BY <2>4, <2>5 DEF B
<1> QED
  BY <1>2, <1>3, <1>4, <1>5 DEF CountersKept, Follows, Series, IsFinished, IsLimited, IsRefused, IsRedirect

(* A counter that counts one more event.                                    *)
LEMMA CountOnce ==
  ASSUME NEW counter, NEW label, NEW other
  PROVE  Series(Count(counter, label), other)
           = IF other = label THEN Series(counter, other) + 1 ELSE Series(counter, other)
BY DEF Series, Count

LEMMA SeriesAreNumbers ==
  ASSUME CountersKept
  PROVE  /\ \A label \in Routed \X AnyStatus : Series(metrics.http, label) \in Nat
         /\ \A route \in Limited : Series(metrics.limited, route) \in Nat
         /\ metrics.authFailures \in Nat
         /\ \A label \in Results : Series(metrics.redirects, label) \in Nat
<1>1. ASSUME NEW A \in SUBSET Requests
      PROVE  Cardinality(A) \in Nat
  BY RequestAssumption, FS_Subset, FS_CardinalityType
<1>2. ASSUME NEW label PROVE {r \in Requests : IsFinished(handler[r], label)} \in SUBSET Requests
  OBVIOUS
<1>3. ASSUME NEW route PROVE {r \in Requests : IsLimited(handler[r], route)} \in SUBSET Requests
  OBVIOUS
<1>4. {r \in Requests : IsRefused(handler[r])} \in SUBSET Requests
  OBVIOUS
<1>5. ASSUME NEW label PROVE {r \in Requests : IsRedirect(handler[r], label)} \in SUBSET Requests
  OBVIOUS
<1> QED  BY <1>1, <1>2, <1>3, <1>4, <1>5 DEF CountersKept

(* A request on its way to an answer: only the answer can be counted.       *)
LEMMA AnswerCounts ==
  ASSUME CountersKept, NEW g, NEW h,
         g.sent = 0, g.pc \notin {"answered", "done"}, h.pc # "done",
         metrics' = [http |-> metrics'.http, limited |-> metrics'.limited,
                     redirects |-> metrics'.redirects, authFailures |-> metrics'.authFailures],
         metrics'.http = metrics.http,
         metrics'.limited = IF h.sent = 429 THEN Count(metrics.limited, h.call.route) ELSE metrics.limited,
         metrics'.authFailures = IF h.sent = 401 THEN metrics.authFailures + 1 ELSE metrics.authFailures,
         metrics'.redirects = IF h.pc = "answered" /\ h.call.route = "redirect"
                                THEN Count(metrics.redirects, Result(h.sent)) ELSE metrics.redirects
  PROVE  Follows(g, h)
<1>1. /\ \A label : ~ IsFinished(g, label) /\ ~ IsFinished(h, label) /\ ~ IsRedirect(g, label)
      /\ \A route : ~ IsLimited(g, route)
      /\ ~ IsRefused(g)
  BY DEF IsFinished, IsRedirect, IsLimited, IsRefused
<1>2. ASSUME NEW label \in Routed \X AnyStatus
      PROVE  Series(metrics'.http, label) = Series(metrics.http, label) + 0
  BY SeriesAreNumbers
<1>3. ASSUME NEW route \in Limited
      PROVE  Series(metrics'.limited, route)
               = Series(metrics.limited, route) + (IF IsLimited(h, route) THEN 1 ELSE 0)
  BY SeriesAreNumbers, CountOnce DEF IsLimited
<1>4. metrics'.authFailures = metrics.authFailures + (IF IsRefused(h) THEN 1 ELSE 0)
  BY SeriesAreNumbers DEF IsRefused
<1>5. ASSUME NEW label \in Results
      PROVE  Series(metrics'.redirects, label)
               = Series(metrics.redirects, label) + (IF IsRedirect(h, label) THEN 1 ELSE 0)
  <2>1. IsRedirect(h, label)
          <=> h.pc = "answered" /\ h.call.route = "redirect" /\ label = Result(h.sent)
    BY DEF IsRedirect
  <2> HIDE DEF IsRedirect
  <2> QED  BY <2>1, SeriesAreNumbers, CountOnce
<1> QED
  BY <1>1, <1>2, <1>3, <1>4, <1>5 DEF Follows, Rise

(* The middlewares after the handler.                                       *)
LEMMA ReturnCounts ==
  ASSUME CountersKept, NEW g, NEW h, g.pc = "answered", h.pc = "done",
         h.call = g.call, h.sent = g.sent, g.observed = g.sent,
         metrics' = IF g.call.route = "unrouted" THEN metrics
                    ELSE [metrics EXCEPT !.http = Count(@, <<g.call.route, g.observed>>)]
  PROVE  Follows(g, h)
<1>1. /\ metrics' = [http |-> metrics'.http, limited |-> metrics'.limited,
                     redirects |-> metrics'.redirects, authFailures |-> metrics'.authFailures]
      /\ metrics'.limited = metrics.limited /\ metrics'.redirects = metrics.redirects
      /\ metrics'.authFailures = metrics.authFailures
      /\ metrics'.http = IF g.call.route = "unrouted" THEN metrics.http
                         ELSE Count(metrics.http, <<g.call.route, g.sent>>)
  BY DEF CountersKept
<1>2. /\ \A route : IsLimited(g, route) <=> IsLimited(h, route)
      /\ IsRefused(g) <=> IsRefused(h)
      /\ \A label : IsRedirect(g, label) <=> IsRedirect(h, label)
  BY DEF IsLimited, IsRefused, IsRedirect
<1>3. ASSUME NEW label \in Routed \X AnyStatus
      PROVE  /\ ~ IsFinished(g, label)
             /\ Series(metrics'.http, label)
                  = Series(metrics.http, label) + (IF IsFinished(h, label) THEN 1 ELSE 0)
  <2>1. ~ IsFinished(g, label) /\ (IsFinished(h, label) <=> label = <<g.call.route, g.sent>>)
    BY DEF IsFinished
  <2>2. g.call.route = "unrouted" => label # <<g.call.route, g.sent>>
    <3>1. "unrouted" \notin Routed
      BY DEF Routed, Limited
    <3> QED  BY <3>1
  <2> QED  BY <1>1, <2>1, <2>2, SeriesAreNumbers, CountOnce
<1>4. /\ \A route \in Limited : Series(metrics'.limited, route) = Series(metrics.limited, route) + 0
      /\ metrics'.authFailures = metrics.authFailures + 0
      /\ \A label \in Results : Series(metrics'.redirects, label) = Series(metrics.redirects, label) + 0
  BY <1>1, SeriesAreNumbers
<1> QED
  BY <1>1, <1>2, <1>3, <1>4 DEF Follows, Rise

-----------------------------------------------------------------------------
(* Steps of requests                                                        *)

LEMMA HandlerStep ==
  ASSUME ServerInvariant, UNCHANGED <<cfg, appVars>>, run # "load",
         NEW r \in Requests, NEW h \in HandlerType, handler' = [handler EXCEPT ![r] = h],
         h.pc # "idle", h.call \in Calls[r], Allowed(h), Recorded(h),
         Follows(handler[r], h)
  PROVE  ServerInvariant'
<1>1. /\ handler'[r] = h /\ handler' \in [Requests -> HandlerType]
      /\ \A q \in Requests \ {r} : handler'[q] = handler[q]
  BY DEF ServerInvariant, HandlersKept
<1>2. HandlersKept'
  <2> SUFFICES ASSUME NEW q \in Requests
               PROVE  /\ handler'[q].pc # "idle" => handler'[q].call \in Calls[q]
                      /\ Allowed(handler[q])' /\ Recorded(handler[q])'
    BY <1>1 DEF HandlersKept, HandlerType
  <2>1. /\ handler'[q].pc # "idle" => handler'[q].call \in Calls[q]
        /\ Allowed(handler'[q]) /\ Recorded(handler'[q])
    BY <1>1 DEF ServerInvariant, HandlersKept
  <2> QED  BY <2>1 DEF Allowed, Recorded, Charged, Admitted
<1>3. ServedAfterLoad'
  BY DEF ServedAfterLoad, appVars
<1>4. CountersKept'
  BY CountersStep DEF ServerInvariant, HandlersKept
<1> QED  BY <1>2, <1>3, <1>4 DEF ServerInvariant

(* What an answer makes of a request that has none.                         *)
LEMMA WrittenAnswer ==
  ASSUME NEW g \in HandlerType, g.sent = 0, NEW status \in Nat
  PROVE  LET h == Written(g, status)
         IN  /\ h \in HandlerType
             /\ h.pc = "answered" /\ h.sent = status /\ h.observed = status /\ h.traced = status
             /\ h.call = g.call /\ h.charged = g.charged /\ h.called = g.called
BY DEF Written, HandlerType, Places

LEMMA AnswerStep ==
  ASSUME ServerInvariant, UNCHANGED <<cfg, appVars>>, NEW r \in Requests,
         handler[r].pc \in Unanswered, NEW status \in Nat \ {0},
         Answer(r, status),
         metrics' = [http |-> metrics'.http, limited |-> metrics'.limited,
                     redirects |-> metrics'.redirects, authFailures |-> metrics'.authFailures],
         metrics'.http = metrics.http, metrics'.redirects = metrics.redirects,
         metrics'.limited = IF status = 429 THEN Count(metrics.limited, handler[r].call.route)
                            ELSE metrics.limited,
         metrics'.authFailures = IF status = 401 THEN metrics.authFailures + 1 ELSE metrics.authFailures,
         handler[r].call.route # "redirect"
  PROVE  ServerInvariant'
<1> DEFINE g == handler[r]
           h == Written(g, status)
<1>1. /\ g \in HandlerType /\ g.sent = 0 /\ ~ g.called
      /\ g.call \in Calls[r] /\ run # "load" /\ g.pc \notin {"answered", "done"}
  BY DEF ServerInvariant, HandlersKept, Recorded, Allowed, ServedAfterLoad, Unanswered
<1>2. /\ h \in HandlerType
      /\ h.pc = "answered" /\ h.sent = status /\ h.observed = status /\ h.traced = status
      /\ h.call = g.call /\ h.charged = g.charged /\ h.called = g.called
  BY <1>1, WrittenAnswer
<1>3. handler' = [handler EXCEPT ![r] = h]
  BY DEF Answer, ServerInvariant, HandlersKept
<1> HIDE DEF h
<1>4. Allowed(h) /\ Recorded(h)
  BY <1>1, <1>2 DEF Allowed, Recorded, Unanswered
<1>5. Follows(g, h)
  BY <1>1, <1>2, AnswerCounts DEF ServerInvariant
<1> QED  BY <1>1, <1>2, <1>3, <1>4, <1>5, HandlerStep

(* A request that goes on, and has had nothing sent yet.                    *)
LEMMA OnwardStep ==
  ASSUME ServerInvariant, UNCHANGED <<cfg, metrics, appVars>>, run # "load",
         NEW r \in Requests, handler[r].sent = 0, handler[r].pc \notin {"answered", "done"},
         NEW h \in HandlerType, handler' = [handler EXCEPT ![r] = h],
         h.pc \in Unanswered, h.sent = 0, h.call \in Calls[r], Allowed(h), Recorded(h)
  PROVE  ServerInvariant'
<1>1. metrics' = [http |-> metrics'.http, limited |-> metrics'.limited,
                  redirects |-> metrics'.redirects, authFailures |-> metrics'.authFailures]
  BY DEF ServerInvariant, CountersKept
<1>2. Follows(handler[r], h)
  BY <1>1, AnswerCounts DEF ServerInvariant, Unanswered
<1> QED  BY <1>2, HandlerStep DEF Unanswered

Begun(g, call, place) == [Recorders(g) EXCEPT !.call = call, !.pc = place]

LEMMA RecordersBegin ==
  ASSUME NEW g \in HandlerType, NEW call \in PossibleCalls, NEW place \in Places
  PROVE  LET h == Begun(g, call, place)
         IN  /\ h \in HandlerType
             /\ h.pc = place /\ h.call = call /\ h.sent = g.sent /\ h.called = g.called
<1> DEFINE begun == Recorders(g)
<1>1. begun \in HandlerType /\ begun.sent = g.sent /\ begun.called = g.called
  BY DEF Recorders, HandlerType
<1> HIDE DEF begun
<1>2. LET h == [begun EXCEPT !.call = call, !.pc = place]
      IN  /\ h \in HandlerType
          /\ h.pc = place /\ h.call = call /\ h.sent = begun.sent /\ h.called = begun.called
  BY <1>1 DEF HandlerType
<1> QED  BY <1>1, <1>2 DEF begun, Begun

LEMMA AcceptStep ==
  ASSUME ServerInvariant, UNCHANGED appVars, conns \in {"open", "failed"},
         NEW r \in Requests, NEW call \in Calls[r], Accept(r, call)
  PROVE  ServerInvariant'
<1> DEFINE g == handler[r]
           place == IF call.route \in Limited THEN "limit"
                    ELSE IF call.route = "delete_rule" THEN "admin"
                    ELSE IF call.route = "page" THEN "page" ELSE "service"
           new == Begun(NoRequest, call, place)
           h == IF call.route = "unrouted" THEN Written(new, 405) ELSE new
<1>1. g.pc = "idle" /\ g.sent = 0 /\ run # "load"
  BY DEF Accept, ServerInvariant, HandlersKept, Recorded, ServedAfterLoad
<1>2. handler' = [handler EXCEPT ![r] = h] /\ UNCHANGED <<cfg, opened, metrics>>
  BY DEF Accept, Begun
<1>3. NoRequest \in HandlerType /\ NoRequest.sent = 0 /\ NoRequest.called = FALSE
  BY DEF NoRequest, HandlerType, Places, Keys
<1>4. call \in PossibleCalls /\ place \in Places
  BY DEF PossibleCalls, Places
<1>5. place \in Unanswered
  BY DEF Unanswered
<1> HIDE DEF place
<1>6. /\ new \in HandlerType
      /\ new.pc = place /\ new.call = call /\ new.sent = 0 /\ ~ new.called
  <2>1. /\ new \in HandlerType
        /\ new.pc = place /\ new.call = call /\ new.sent = NoRequest.sent
        /\ new.called = NoRequest.called
    BY <1>3, <1>4, RecordersBegin
  <2>2. ~ NoRequest.called
    BY DEF NoRequest
  <2> HIDE DEF new
  <2> QED  BY <1>3, <2>1, <2>2
<1>7. CASE call.route # "unrouted"
  <2>1. h = new
    BY <1>7
  <2>2. /\ place \in {"limit", "parse"} => call.route \in Limited
        /\ place = "admin" => call.route = "delete_rule"
        /\ place # "parse" /\ (place = "service" => call.route \notin Limited /\ call.route # "delete_rule")
        /\ place # "service" => call.route # "redirect"
    BY DEF Limited, place
  <2> HIDE DEF new
  <2>3. Allowed(new) /\ Recorded(new)
    BY <1>5, <1>6, <2>2 DEF Allowed, Recorded, Unanswered
  <2> QED  BY <1>1, <1>2, <1>5, <1>6, <2>1, <2>3, OnwardStep
<1>8. CASE call.route = "unrouted"
  <2> HIDE DEF new
  <2>1. h = Written(new, 405)
    BY <1>8
  <2> HIDE DEF h
  <2>2. /\ h \in HandlerType
        /\ h.pc = "answered" /\ h.sent = 405 /\ h.observed = 405 /\ h.traced = 405
        /\ h.call = call /\ ~ h.called
    BY <1>6, <2>1, WrittenAnswer
  <2>3. Allowed(h) /\ Recorded(h)
    BY <2>2 DEF Allowed, Recorded, Unanswered
  <2>4. metrics' = [http |-> metrics'.http, limited |-> metrics'.limited,
                    redirects |-> metrics'.redirects, authFailures |-> metrics'.authFailures]
    BY <1>2 DEF ServerInvariant, CountersKept
  <2>5. Follows(g, h)
    BY <1>1, <1>2, <1>8, <2>2, <2>4, AnswerCounts DEF ServerInvariant
  <2> QED  BY <1>1, <1>2, <2>2, <2>3, <2>5, HandlerStep
<1> QED  BY <1>7, <1>8

LEMMA PlaceStep ==
  ASSUME handler \in [Requests -> HandlerType], NEW r \in Requests, NEW place \in Places, GoTo(r, place)
  PROVE  \E h \in HandlerType :
           /\ handler' = [handler EXCEPT ![r] = h]
           /\ h.pc = place /\ h.call = handler[r].call /\ h.charged = handler[r].charged
           /\ h.called = handler[r].called /\ h.sent = handler[r].sent
           /\ h.observed = handler[r].observed /\ h.traced = handler[r].traced
<1> DEFINE h == [handler[r] EXCEPT !.pc = place]
<1>1. handler' = [handler EXCEPT ![r] = h]
  BY DEF GoTo
<1>2. /\ h \in HandlerType
      /\ h.pc = place /\ h.call = handler[r].call /\ h.charged = handler[r].charged
      /\ h.called = handler[r].called /\ h.sent = handler[r].sent
      /\ h.observed = handler[r].observed /\ h.traced = handler[r].traced
  BY DEF HandlerType
<1> HIDE DEF h
<1> QED  BY <1>1, <1>2

(* A handler is what the invariant says, and Run has read its configuration *)
(* when there is one.                                                       *)
LEMMA HandlerFacts ==
  ASSUME ServerInvariant, NEW r \in Requests
  PROVE  /\ handler \in [Requests -> HandlerType] /\ handler[r] \in HandlerType
         /\ Allowed(handler[r]) /\ Recorded(handler[r])
         /\ handler[r].pc # "idle" => handler[r].call \in Calls[r] /\ run # "load"
         /\ handler[r].pc \in Unanswered => handler[r].sent = 0 /\ ~ handler[r].called
BY DEF ServerInvariant, HandlersKept, ServedAfterLoad, Recorded, Allowed, Unanswered

(* The address that a token is taken for is the client's, or a trusted      *)
(* proxy's word for it.                                                     *)
LEMMA ClientsAddress ==
  ASSUME NEW r \in Requests, NEW call \in Calls[r], NEW h \in HandlerType,
         h.call = call, h.charged = ClientIP(call)
  PROVE  Charged(h)
BY RequestAssumption DEF Charged, ClientIP

LEMMA ClientIsKey ==
  ASSUME NEW r \in Requests, NEW call \in Calls[r]
  PROVE  ClientIP(call) \in Keys
BY DEF ClientIP, Keys, PossibleCalls

LEMMA LimitStep ==
  ASSUME ServerInvariant, UNCHANGED appVars, NEW r \in Requests, Limit(r)
  PROVE  ServerInvariant'
<1> DEFINE g == handler[r]
<1>1. g.pc = "limit" /\ UNCHANGED <<cfg, opened>>
  BY DEF Limit
<1>2. /\ g \in HandlerType /\ g.call \in Calls[r] /\ run # "load" /\ g.sent = 0 /\ ~ g.called
      /\ g.call.route \in Limited /\ g.call.route # "redirect"
  BY <1>1, HandlerFacts DEF Allowed, Unanswered, Limited
<1>3. metrics = [http |-> metrics.http, limited |-> metrics.limited,
                 redirects |-> metrics.redirects, authFailures |-> metrics.authFailures]
  BY DEF ServerInvariant, CountersKept
<1>4. CASE /\ handler' = [handler EXCEPT ![r] = [@ EXCEPT !.pc = "parse", !.charged = ClientIP(g.call)]]
           /\ UNCHANGED metrics
  <2> DEFINE h == [g EXCEPT !.pc = "parse", !.charged = ClientIP(g.call)]
  <2>1. handler' = [handler EXCEPT ![r] = h]
    BY <1>4, HandlerFacts
  <2>2. /\ h \in HandlerType
        /\ h.pc = "parse" /\ h.call = g.call /\ h.charged = ClientIP(g.call)
        /\ h.called = g.called /\ h.sent = 0
    BY <1>2, ClientIsKey DEF HandlerType, Places
  <2> HIDE DEF h
  <2>3. Charged(h)
    BY <1>2, <2>2, ClientsAddress
  <2>4. Allowed(h) /\ Recorded(h) /\ h.pc \in Unanswered
    BY <1>2, <2>2, <2>3 DEF Allowed, Recorded, Unanswered
  <2> QED  BY <1>1, <1>2, <1>4, <2>1, <2>2, <2>4, OnwardStep
<1>5. CASE Answer(r, 429) /\ metrics' = [metrics EXCEPT !.limited = Count(@, g.call.route)]
  <2>1. /\ metrics' = [http |-> metrics'.http, limited |-> metrics'.limited,
                       redirects |-> metrics'.redirects, authFailures |-> metrics'.authFailures]
        /\ metrics'.http = metrics.http /\ metrics'.redirects = metrics.redirects
        /\ metrics'.limited = Count(metrics.limited, g.call.route)
        /\ metrics'.authFailures = metrics.authFailures
    BY <1>3, <1>5
  <2> QED  BY <1>1, <1>2, <1>5, <2>1, AnswerStep DEF Unanswered
<1>6. CASE Answer(r, 503) /\ UNCHANGED metrics
  BY <1>1, <1>2, <1>3, <1>6, AnswerStep DEF Unanswered
<1> QED  BY <1>4, <1>5, <1>6 DEF Limit

LEMMA AuthorizeStep ==
  ASSUME ServerInvariant, UNCHANGED appVars, NEW r \in Requests, Authorize(r)
  PROVE  ServerInvariant'
<1> DEFINE g == handler[r]
<1>1. g.pc = "admin" /\ UNCHANGED <<cfg, opened>>
  BY DEF Authorize
<1>2. /\ g \in HandlerType /\ g.call \in Calls[r] /\ run # "load" /\ g.sent = 0 /\ ~ g.called
      /\ g.call.route = "delete_rule"
  BY <1>1, HandlerFacts DEF Allowed, Unanswered
<1>3. metrics = [http |-> metrics.http, limited |-> metrics.limited,
                 redirects |-> metrics.redirects, authFailures |-> metrics.authFailures]
  BY DEF ServerInvariant, CountersKept
<1>4. CASE Admitted(g) /\ GoTo(r, "service") /\ UNCHANGED metrics
  <2>1. PICK h \in HandlerType :
           /\ handler' = [handler EXCEPT ![r] = h]
           /\ h.pc = "service" /\ h.call = g.call /\ h.charged = g.charged
           /\ h.called = g.called /\ h.sent = 0
    BY <1>2, <1>4, HandlerFacts, PlaceStep DEF Places
  <2>2. h.call.route \notin Limited
    BY <1>2, <2>1 DEF Limited
  <2>3. Allowed(h) /\ Recorded(h) /\ h.pc \in Unanswered
    BY <1>2, <1>4, <2>1, <2>2 DEF Allowed, Recorded, Unanswered, Admitted
  <2> QED  BY <1>1, <1>2, <1>4, <2>1, <2>3, OnwardStep
<1>5. CASE Answer(r, 401) /\ metrics' = [metrics EXCEPT !.authFailures = @ + 1]
  <2>1. /\ metrics' = [http |-> metrics'.http, limited |-> metrics'.limited,
                       redirects |-> metrics'.redirects, authFailures |-> metrics'.authFailures]
        /\ metrics'.http = metrics.http /\ metrics'.redirects = metrics.redirects
        /\ metrics'.limited = metrics.limited
        /\ metrics'.authFailures = metrics.authFailures + 1
    BY <1>3, <1>5
  <2> QED  BY <1>1, <1>2, <1>5, <2>1, AnswerStep DEF Unanswered
<1> QED  BY <1>4, <1>5 DEF Authorize, Admitted

LEMMA ParseStep ==
  ASSUME ServerInvariant, UNCHANGED appVars, NEW r \in Requests, Parse(r)
  PROVE  ServerInvariant'
<1> DEFINE g == handler[r]
<1>1. g.pc = "parse" /\ UNCHANGED <<cfg, opened, metrics>>
  BY DEF Parse
<1>2. /\ g \in HandlerType /\ g.call \in Calls[r] /\ run # "load" /\ g.sent = 0 /\ ~ g.called
      /\ g.call.route \in Limited /\ g.call.route \notin {"redirect", "delete_rule"} /\ Charged(g)
  BY <1>1, HandlerFacts DEF Allowed, Unanswered, Limited
<1>3. metrics = [http |-> metrics.http, limited |-> metrics.limited,
                 redirects |-> metrics.redirects, authFailures |-> metrics.authFailures]
  BY DEF ServerInvariant, CountersKept
<1>4. CASE g.call.wellFormed /\ GoTo(r, "service")
  <2>1. PICK h \in HandlerType :
           /\ handler' = [handler EXCEPT ![r] = h]
           /\ h.pc = "service" /\ h.call = g.call /\ h.charged = g.charged
           /\ h.called = g.called /\ h.sent = 0
    BY <1>2, <1>4, HandlerFacts, PlaceStep DEF Places
  <2>2. Allowed(h) /\ Recorded(h) /\ h.pc \in Unanswered
    BY <1>2, <1>4, <2>1 DEF Allowed, Recorded, Unanswered, Charged
  <2> QED  BY <1>1, <1>2, <2>1, <2>2, OnwardStep
<1>5. CASE Answer(r, 400)
  BY <1>1, <1>2, <1>3, <1>5, AnswerStep DEF Unanswered
<1> QED  BY <1>4, <1>5 DEF Parse

LEMMA PageStep ==
  ASSUME ServerInvariant, UNCHANGED appVars, NEW r \in Requests, Page(r)
  PROVE  ServerInvariant'
<1>1. handler[r].pc = "page" /\ UNCHANGED <<cfg, opened, metrics>> /\ Answer(r, 200)
  BY DEF Page
<1>2. handler[r].call.route # "redirect"
  BY <1>1, HandlerFacts DEF Recorded
<1>3. metrics = [http |-> metrics.http, limited |-> metrics.limited,
                 redirects |-> metrics.redirects, authFailures |-> metrics.authFailures]
  BY DEF ServerInvariant, CountersKept
<1> QED  BY <1>1, <1>2, <1>3, AnswerStep DEF Unanswered

(* The service's answers are neither denials nor failed authentications.    *)
LEMMA ServiceAnswers ==
  ASSUME NEW route, NEW status \in Statuses(route)
  PROVE  status \in Nat \ {0} /\ status # 401 /\ status # 429
BY DEF Statuses

LEMMA ServeStep ==
  ASSUME ServerInvariant, UNCHANGED appVars, NEW r \in Requests, Serve(r)
  PROVE  ServerInvariant'
<1> DEFINE g == handler[r]
<1>1. /\ g.pc = "service" /\ UNCHANGED <<cfg, opened>>
      /\ \E status \in Statuses(g.call.route) :
           /\ handler' = [handler EXCEPT ![r] = [Written(@, status) EXCEPT !.called = TRUE]]
           /\ metrics' = CountedRedirect(g.call.route, status)
  BY DEF Serve
<1>2. PICK status \in Statuses(g.call.route) :
           /\ handler' = [handler EXCEPT ![r] = [Written(@, status) EXCEPT !.called = TRUE]]
           /\ metrics' = CountedRedirect(g.call.route, status)
  BY <1>1
<1>3. status \in Nat \ {0} /\ status # 401 /\ status # 429
  BY ServiceAnswers
<1>4. /\ g \in HandlerType /\ g.call \in Calls[r] /\ run # "load" /\ g.sent = 0
      /\ Allowed(g)
  BY <1>1, HandlerFacts DEF Unanswered
<1> DEFINE w == Written(g, status)
<1>5. /\ w \in HandlerType
      /\ w.pc = "answered" /\ w.sent = status /\ w.observed = status /\ w.traced = status
      /\ w.call = g.call /\ w.charged = g.charged
  BY <1>3, <1>4, WrittenAnswer
<1> DEFINE h == [w EXCEPT !.called = TRUE]
<1>6. handler' = [handler EXCEPT ![r] = h]
  BY <1>2, HandlerFacts
<1> HIDE DEF w
<1>7. /\ h \in HandlerType
      /\ h.pc = "answered" /\ h.sent = status /\ h.observed = status /\ h.traced = status
      /\ h.call = g.call /\ h.charged = g.charged
  BY <1>5 DEF HandlerType
<1> HIDE DEF h
<1>8. Allowed(h) /\ Recorded(h)
  BY <1>1, <1>3, <1>4, <1>7 DEF Allowed, Recorded, Unanswered, Charged, Admitted
<1>9. metrics = [http |-> metrics.http, limited |-> metrics.limited,
                 redirects |-> metrics.redirects, authFailures |-> metrics.authFailures]
  BY DEF ServerInvariant, CountersKept
<1>10. /\ metrics' = [http |-> metrics'.http, limited |-> metrics'.limited,
                      redirects |-> metrics'.redirects, authFailures |-> metrics'.authFailures]
       /\ metrics'.http = metrics.http /\ metrics'.limited = metrics.limited
       /\ metrics'.authFailures = metrics.authFailures
       /\ metrics'.redirects = IF g.call.route = "redirect"
                                 THEN Count(metrics.redirects, Result(status)) ELSE metrics.redirects
  <2>1. metrics' = IF g.call.route = "redirect"
                     THEN [metrics EXCEPT !.redirects = Count(@, Result(status))] ELSE metrics
    BY <1>2 DEF CountedRedirect
  <2> QED  BY <1>9, <2>1
<1>11. Follows(g, h)
  BY <1>1, <1>3, <1>4, <1>7, <1>10, AnswerCounts DEF ServerInvariant
<1> QED  BY <1>1, <1>4, <1>6, <1>7, <1>8, <1>11, HandlerStep

Ended(g, place, status) ==
  [g EXCEPT !.pc = place, !.called = TRUE, !.sent = status, !.traced = status]

LEMMA EndedAnswer ==
  ASSUME NEW g \in HandlerType, NEW place \in Places, NEW status \in Nat
  PROVE  LET h == Ended(g, place, status)
         IN  /\ h \in HandlerType
             /\ h.pc = place /\ h.sent = status /\ h.traced = status
             /\ h.call = g.call /\ h.charged = g.charged
BY DEF Ended, HandlerType

LEMMA PanicStep ==
  ASSUME ServerInvariant, UNCHANGED appVars, NEW r \in Requests, Panic(r)
  PROVE  ServerInvariant'
<1> DEFINE g == handler[r]
           h == Ended(g, "recovered", 500)
<1>1. g.pc = "service" /\ UNCHANGED <<cfg, opened, metrics>> /\ handler' = [handler EXCEPT ![r] = h]
  BY HandlerFacts DEF Panic, Ended
<1>2. /\ g \in HandlerType /\ g.call \in Calls[r] /\ run # "load" /\ g.sent = 0
      /\ Allowed(g)
  BY <1>1, HandlerFacts DEF Unanswered
<1>3. /\ h \in HandlerType
      /\ h.pc = "recovered" /\ h.sent = 500 /\ h.traced = 500
      /\ h.call = g.call /\ h.charged = g.charged
  <2>1. g \in HandlerType /\ "recovered" \in Places /\ 500 \in Nat
    BY <1>2 DEF Places
  <2> HIDE DEF g
  <2> QED  BY <2>1, EndedAnswer
<1> HIDE DEF h
<1>4. Allowed(h) /\ Recorded(h)
  BY <1>1, <1>2, <1>3 DEF Allowed, Recorded, Unanswered, Charged, Admitted
<1>5. metrics' = [http |-> metrics'.http, limited |-> metrics'.limited,
                  redirects |-> metrics'.redirects, authFailures |-> metrics'.authFailures]
  BY <1>1 DEF ServerInvariant, CountersKept
<1>6. Follows(g, h)
  BY <1>1, <1>2, <1>3, <1>5, AnswerCounts DEF ServerInvariant
<1> QED  BY <1>1, <1>2, <1>3, <1>4, <1>6, HandlerStep

LEMMA ReturnStep ==
  ASSUME ServerInvariant, UNCHANGED appVars, NEW r \in Requests, Return(r)
  PROVE  ServerInvariant'
<1> DEFINE g == handler[r]
<1>1. /\ g.pc = "answered" /\ UNCHANGED <<cfg, opened>> /\ GoTo(r, "done")
      /\ metrics' = IF g.call.route = "unrouted" THEN metrics
                    ELSE [metrics EXCEPT !.http = Count(@, <<g.call.route, g.observed>>)]
  BY DEF Return
<1>2. /\ g \in HandlerType /\ g.call \in Calls[r] /\ run # "load"
      /\ Allowed(g) /\ g.sent # 0 /\ g.observed = g.sent /\ g.traced = g.sent
  BY <1>1, HandlerFacts DEF Recorded
<1>3. PICK h \in HandlerType :
         /\ handler' = [handler EXCEPT ![r] = h]
         /\ h.pc = "done" /\ h.call = g.call /\ h.charged = g.charged
         /\ h.called = g.called /\ h.sent = g.sent
         /\ h.observed = g.observed /\ h.traced = g.traced
  BY <1>1, HandlerFacts, PlaceStep DEF Places
<1>4. Allowed(h) /\ Recorded(h)
  BY <1>1, <1>2, <1>3 DEF Allowed, Recorded, Unanswered, Charged, Admitted
<1>5. Follows(g, h)
  BY <1>1, <1>2, <1>3, ReturnCounts DEF ServerInvariant
<1> QED  BY <1>1, <1>2, <1>3, <1>4, <1>5, HandlerStep

LEMMA RequestStep ==
  ASSUME ServerInvariant, NEW r \in Requests, Request(r)
  PROVE  ServerInvariant'
<1>1. CASE Handle(r)
  BY <1>1, LimitStep, AuthorizeStep, ParseStep, ServeStep, PageStep, PanicStep, ReturnStep
     DEF Handle, Request
<1>2. CASE conns \in {"open", "failed"} /\ \E call \in Calls[r] : Accept(r, call)
  BY <1>2, AcceptStep DEF Request
<1> QED  BY <1>1, <1>2 DEF Request

-----------------------------------------------------------------------------
(* Steps of Run, and of what runs beside it                                 *)

LEMMA NoRequestKept == Allowed(NoRequest) /\ Recorded(NoRequest) /\ NoRequest.pc = "idle"
BY DEF NoRequest, Allowed, Recorded, Unanswered

LEMMA ServerStarts == Init => ServerInvariant
<1> SUFFICES ASSUME Init PROVE ServerInvariant
  OBVIOUS
<1>1. /\ handler = [r \in Requests |-> NoRequest]
      /\ metrics = [http |-> <<>>, limited |-> <<>>, redirects |-> <<>>, authFailures |-> 0]
      /\ conns = "none"
  BY DEF Init, ServerInit
<1>2. NoRequest \in HandlerType
  BY DEF NoRequest, HandlerType, Places, Keys
<1>3. /\ handler \in [Requests -> HandlerType]
      /\ \A r \in Requests : handler[r] = NoRequest
  BY <1>1, <1>2
<1>4. HandlersKept
  BY <1>3, NoRequestKept DEF HandlersKept
<1>5. ServedAfterLoad
  BY <1>1, <1>3, NoRequestKept DEF ServedAfterLoad
<1>6. /\ \A label : ~ IsFinished(NoRequest, label) /\ ~ IsRedirect(NoRequest, label)
      /\ \A route : ~ IsLimited(NoRequest, route)
      /\ ~ IsRefused(NoRequest)
  BY DEF NoRequest, IsFinished, IsRedirect, IsLimited, IsRefused
<1>7. /\ \A label : {r \in Requests : IsFinished(handler[r], label)} = {}
      /\ \A label : {r \in Requests : IsRedirect(handler[r], label)} = {}
      /\ \A route : {r \in Requests : IsLimited(handler[r], route)} = {}
      /\ {r \in Requests : IsRefused(handler[r])} = {}
  BY <1>3, <1>6
<1>8. \A label : Series(<<>>, label) = 0
  BY DEF Series
<1>9. CountersKept
  BY <1>1, <1>7, <1>8, FS_EmptySet DEF CountersKept
<1> QED  BY <1>4, <1>5, <1>9 DEF ServerInvariant

(* A step of nobody's request, after Load or before the first of them.      *)
LEMMA BesideRequests ==
  ASSUME ServerInvariant, UNCHANGED <<handler, metrics>>,
         cfg' # cfg => run = "load",
         run' = "load" => run = "load" /\ conns' = conns
  PROVE  ServerInvariant'
<1>1. HandlersKept'
  <2> SUFFICES ASSUME NEW r \in Requests PROVE Allowed(handler[r])' /\ Recorded(handler[r])'
    BY DEF ServerInvariant, HandlersKept, HandlerType
  <2>1. Allowed(handler[r]) /\ Recorded(handler[r])
    BY DEF ServerInvariant, HandlersKept
  <2>2. CASE cfg' = cfg
    BY <2>1, <2>2 DEF Allowed, Recorded, Charged, Admitted
  <2>3. CASE handler[r].pc = "idle"
    BY <2>1, <2>3 DEF Allowed, Recorded, Unanswered
  <2> QED  BY <2>2, <2>3 DEF ServerInvariant, ServedAfterLoad
<1>2. ServedAfterLoad'
  BY DEF ServerInvariant, ServedAfterLoad
<1>3. CountersKept'
  <2>1. CountersKept
    BY DEF ServerInvariant
  <2> QED
    BY <2>1 DEF CountersKept, Series, IsFinished, IsLimited, IsRefused, IsRedirect
<1> QED  BY <1>1, <1>2, <1>3 DEF ServerInvariant

LEMMA ServerStep ==
  ASSUME StackInvariant, ServerInvariant, [Next]_vars
  PROVE  ServerInvariant'
<1> USE DEF At, Leave, GoOn, ProcessUnchanged, serverVars, appVars
<1>1. CASE Start
  BY <1>1, BesideRequests DEF Start, LoadConfig, SetupTelemetry, OpenStore, OpenRateLimiter, Listen
<1>2. CASE Stop
  BY <1>2, BesideRequests
     DEF Stop, ServerFailed, Interrupted, ShutdownDone, ShutdownTimesOut, Unwind, Exit
<1>3. CASE Bind \/ ServeFails \/ Signal \/ StartTicker \/ Cleanup
  <2>1. conns # conns' => conns # "none"
    BY <1>3 DEF Bind, ServeFails, Signal, StartTicker, Cleanup
  <2>2. run = "load" => conns = "none"
    BY DEF ServerInvariant, ServedAfterLoad
  <2>3. UNCHANGED <<handler, metrics, cfg, run>>
    BY <1>3 DEF Bind, ServeFails, Signal, StartTicker, Cleanup
  <2> QED  BY <2>1, <2>2, <2>3, BesideRequests
<1>4. CASE \E r \in Requests : Request(r)
  BY <1>4, RequestStep
<1>5. CASE UNCHANGED vars
  BY <1>5, BesideRequests DEF vars
<1> QED  BY <1>1, <1>2, <1>3, <1>4, <1>5 DEF Next

LEMMA ServerKept == Spec => [](StackInvariant /\ ServerInvariant)
<1>1. StackInvariant /\ [Next]_vars => StackInvariant'
  BY StackStart, StackStop, StackAround DEF Next
<1> QED  BY <1>1, StackInit, ServerStarts, ServerStep, PTL DEF Spec

-----------------------------------------------------------------------------
(* What follows                                                             *)

(* Nobody's create reaches the service for free or on a stranger's account, *)
(* nobody's delete without the token, whatever Run closes meanwhile         *)
(* (internal/server/server.go:282-321, 527-546).                            *)
THEOREM CallsAreAdmitted == Spec => []AllowedBeforeCalled
<1>1. ServerInvariant => AllowedBeforeCalled
  BY DEF ServerInvariant, HandlersKept, Allowed, Charged, Admitted, AllowedBeforeCalled
<1> QED  BY <1>1, ServerKept, PTL

(* Every response is in the traces as it went out, and in the counters as   *)
(* often as it went out; what ended in a panic is in no counter of requests *)
(* (internal/server/server.go:364-371, 441-460, metrics.go:72-87).          *)
THEOREM CountersMatchResponses == Spec => []ResponsesCounted
<1>1. ServerInvariant => ResponsesCounted
  <2> SUFFICES ASSUME ServerInvariant PROVE ResponsesCounted
    OBVIOUS
  <2>1. ASSUME NEW r \in Requests, handler[r].pc \in {"done", "recovered"}
        PROVE  handler[r].sent # 0 /\ handler[r].traced = handler[r].sent
    BY <2>1 DEF ServerInvariant, HandlersKept, Recorded
  <2>2. CountersKept
    BY DEF ServerInvariant
  <2> QED
    BY <2>1, <2>2 DEF CountersKept, ResponsesCounted, IsFinished, IsLimited, IsRefused, IsRedirect
<1> QED  BY <1>1, ServerKept, PTL

-----------------------------------------------------------------------------
(* Types                                                                    *)

(* Nothing is opened by a configuration that was refused.                   *)
ProcessTypes ==
  /\ cfg = NoConfig => opened = {} /\ conns = "none" /\ run \in {"load", "leaving"}
  /\ run \in {"load", "telemetry", "store", "limiter", "listen", "select", "shutdown", "leaving"}
  /\ result \in {"none", "ok", "error", "unsupported", "panic"}
  /\ exit \in {"none", "ok", "error", "unsupported", "panic", "crashed", "killed"}
  /\ conns \in {"none", "starting", "refused", "open", "failed", "closed"}
  /\ interrupted \in BOOLEAN /\ signals \in 0 .. MaxSignals

LEMMA ProcessStarts == Init => ProcessTypes
<1>1. 0 \in 0 .. MaxSignals
  BY SignalAssumption
<1> QED  BY <1>1 DEF Init, ProcessTypes

LEMMA ProcessStep ==
  ASSUME ProcessTypes, StackInvariant, ServerInvariant, [Next]_vars
  PROVE  ProcessTypes'
<1>0. run = "load" => opened = {} /\ conns = "none"
  BY DEF StackInvariant, AtDepth, RunAt, ServerInvariant, ServedAfterLoad
<1> USE DEF ProcessTypes, At, Leave, GoOn, ProcessUnchanged, serverVars, appVars
<1>1. CASE Start
  <2>1. CASE LoadConfig
    BY <1>0, <2>1 DEF LoadConfig
  <2>2. CASE SetupTelemetry
    BY <2>2 DEF SetupTelemetry
  <2>3. CASE OpenStore
    BY <2>3 DEF OpenStore
  <2>4. CASE OpenRateLimiter
    BY <2>4 DEF OpenRateLimiter
  <2>5. CASE Listen
    BY <2>5 DEF Listen
  <2> QED  BY <1>1, <2>1, <2>2, <2>3, <2>4, <2>5 DEF Start
<1>2. CASE Stop
  BY <1>2 DEF Stop, ServerFailed, Interrupted, ShutdownDone, ShutdownTimesOut, Unwind, Exit
<1>3. CASE Bind \/ ServeFails \/ StartTicker \/ Cleanup
  BY <1>3 DEF Bind, ServeFails, StartTicker, Cleanup
<1>4. CASE Signal
  <2>1. signals' \in 0 .. MaxSignals
    BY <1>4, SignalAssumption DEF Signal
  <2>2. interrupted' \in BOOLEAN /\ exit' \in {exit, "killed"}
    BY <1>4 DEF Signal
  <2> QED  BY <1>4, <2>1, <2>2 DEF Signal
<1>5. CASE \E r \in Requests : Request(r)
  BY <1>5 DEF Request, Accept, Handle, Limit, Authorize, Parse, Serve, Page, Panic, Return
<1>6. CASE UNCHANGED vars
  BY <1>6 DEF vars
<1> QED  BY <1>1, <1>2, <1>3, <1>4, <1>5, <1>6 DEF Next

(* The deferred calls are a stack of calls that Run knows.                  *)
LEMMA StackType ==
  ASSUME NEW n \in 0 .. 5
  PROVE  /\ StackTo(n) \in Seq({"telemetry", "store", "limiter", "stop", "cleanupCancel"})
         /\ \A i \in 1 .. n : i \in DOMAIN StackTo(n) /\ StackTo(n)[i] = Stack[i]
<1>1. \A i \in 1 .. n : Stack[i] \in {"telemetry", "store", "limiter", "stop", "cleanupCancel"}
  BY DEF Stack
<1> QED  BY <1>1 DEF StackTo

(* Application's variables are of their types, and whatever is open has its *)
(* deferred call (internal/app/app.go:37-57, 75-80).                        *)
THEOREM ApplicationTyped == Spec => []TypeOK
<1>1. ProcessTypes /\ StackInvariant /\ ServerInvariant => TypeOK
  <2> SUFFICES ASSUME ProcessTypes, StackInvariant, ServerInvariant PROVE TypeOK
    OBVIOUS
  <2>1. PICK n \in 0 .. 5 : AtDepth(n)
    BY DEF StackInvariant
  <2>2. /\ deferred \in Seq({"telemetry", "store", "limiter", "stop", "cleanupCancel"})
        /\ \A i \in 1 .. n : i \in DOMAIN deferred /\ deferred[i] = Stack[i]
    BY <2>1, StackType DEF AtDepth
  <2>3. \A resource \in opened : \E i \in DOMAIN deferred : deferred[i] = resource
    <3>1. \A resource \in opened : \E i \in 1 .. n : Stack[i] = resource
      BY <2>1 DEF AtDepth, Stack
    <3> QED  BY <2>2, <3>1
  <2>4. /\ opened \subseteq {"telemetry", "store", "limiter"} /\ notified \in BOOLEAN
        /\ cleaner.state \in {"none", "started", "waiting", "sweeping", "ended"}
    BY <2>1 DEF AtDepth
  <2>5. ASSUME NEW r \in Requests
        PROVE  /\ handler[r].pc \in Places
               /\ handler[r].pc # "idle" => handler[r].call \in Calls[r]
    BY DEF ServerInvariant, HandlersKept, HandlerType
  <2> QED  BY <2>2, <2>3, <2>4, <2>5 DEF TypeOK, ProcessTypes, Places
<1>2. Spec => []ProcessTypes
  <2>1. ProcessTypes /\ StackInvariant /\ ServerInvariant /\ [Next]_vars => ProcessTypes'
    BY ProcessStep
  <2> QED  BY <2>1, ProcessStarts, ServerKept, PTL DEF Spec
<1> QED  BY <1>1, <1>2, ServerKept, PTL
=============================================================================
