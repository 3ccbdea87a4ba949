---------------------------- MODULE Application ----------------------------
(***************************************************************************)
(* internal/app/app.go: Run, one action per step of its goroutine, with    *)
(* the requests of HttpServer, the goroutine of ListenAndServe, the cleanup *)
(* goroutine and the signals around it.  Run returns through its deferred  *)
(* calls; then the process exits, with whatever still runs.                *)
(***************************************************************************)
EXTENDS HttpServer, SequencesExt

CONSTANTS
  Environments, \* what the process may find in its environment
  MaxSignals    \* bound: SIGINT and SIGTERM sent

ASSUME SignalAssumption == MaxSignals \in Nat

VARIABLES
  run,         \* where Run is
  result,      \* what it will return
  deferred,    \* its deferred calls, the last one first to run
  exit,        \* how the process ended, or "none"
  conns,       \* "none", "starting", "refused": no address to listen at, "open",
               \* "failed": still open, but ListenAndServe has returned, or "closed"
  notified,    \* signal.NotifyContext catches the signals
  interrupted, \* its context is done
  signals,     \* signals so far
  cleaner      \* the cleanup goroutine, and whether its context is done

appVars == <<run, result, deferred, exit, conns, notified, interrupted, signals, cleaner>>
vars == <<serverVars, appVars>>

Init ==
  /\ cfg = NoConfig /\ opened = {} /\ ServerInit
  /\ run = "load" /\ result = "none" /\ deferred = <<>> /\ exit = "none"
  /\ conns = "none" /\ notified = FALSE /\ interrupted = FALSE /\ signals = 0
  /\ cleaner = [state |-> "none", cancelled |-> FALSE]

-----------------------------------------------------------------------------
(* Start                                                                    *)

At(place) == exit = "none" /\ run = place

GoOn(next) == run' = next /\ UNCHANGED result

(* return from Run, or a panic in it: the deferred calls come next.         *)
Leave(how) == run' = "leaving" /\ result' = how

(* Variant: a defer is missing.                                             *)
OpenWithoutDefer(resource) ==
  /\ opened' = opened \cup {resource}
  /\ UNCHANGED deferred

Open(resource) ==
  /\ opened' = opened \cup {resource}
  /\ deferred' = Append(deferred, resource)

ProcessUnchanged == UNCHANGED <<exit, conns, notified, interrupted, signals, cleaner>>

LoadConfig ==
  /\ At("load")
  /\ \E env \in Environments : cfg' = Load(env)
  /\ IF cfg' = NoConfig THEN Leave("error") ELSE GoOn("telemetry")
  /\ UNCHANGED <<opened, handler, metrics, deferred>> /\ ProcessUnchanged

(* Only the exporter and its resource can fail.                             *)
SetupTelemetry ==
  /\ At("telemetry")
  /\ \/ Open("telemetry") /\ GoOn("store")
     \/ cfg.tracing /\ Leave("error") /\ UNCHANGED <<opened, deferred>>
  /\ UNCHANGED <<cfg, handler, metrics>> /\ ProcessUnchanged

(* openStore; NewStore closes a pool that it cannot migrate.                *)
OpenStore ==
  /\ At("store")
  /\ IF cfg.storageDriver \notin {"sqlite", "postgres"}
       THEN Leave("unsupported") /\ UNCHANGED <<opened, deferred>>
       ELSE \/ Open("store") /\ GoOn("limiter")
            \/ Leave("error") /\ UNCHANGED <<opened, deferred>>
  /\ UNCHANGED <<cfg, handler, metrics>> /\ ProcessUnchanged

(* openRateLimiter; a Redis client that gets no answer to PING is closed.   *)
OpenRateLimiter ==
  /\ At("limiter")
  /\ IF cfg.rateLimitBackend \notin {"memory", "redis"}
       THEN Leave("unsupported") /\ UNCHANGED <<opened, deferred>>
       ELSE \/ Open("limiter") /\ GoOn("listen")
            \/ cfg.rateLimitBackend = "redis" /\ Leave("error") /\ UNCHANGED <<opened, deferred>>
  /\ UNCHANGED <<cfg, handler, metrics>> /\ ProcessUnchanged

(* ServeMux panics when it cannot parse a pattern or its path is not clean, *)
(* and when requests match it and another, of which neither is narrower.    *)
RejectedPaths == {"same", "overlapping", "malformed"}

(* Variant: the cleanup goroutine is started in any case.                   *)
CleansAlways == TRUE

Cleans == cfg.cleanupInterval > 0

(* NewHandler, NotifyContext, the two contexts, and the two goroutines.     *)
Listen ==
  /\ At("listen")
  /\ IF cfg.metricsPath \in RejectedPaths
       THEN Leave("panic") /\ UNCHANGED <<deferred, conns, notified, cleaner>>
       ELSE /\ GoOn("select")
            /\ deferred' = deferred \o <<"stop", "cleanupCancel">>
            /\ conns' = "starting"
            /\ notified' = TRUE
            /\ cleaner' = [cleaner EXCEPT !.state = IF Cleans THEN "started" ELSE @]
  /\ UNCHANGED <<serverVars, exit, interrupted, signals>>

-----------------------------------------------------------------------------
(* Around Run                                                               *)

(* ListenAndServe: the address is bound, or in use.                         *)
Bind ==
  /\ exit = "none" /\ conns = "starting"
  /\ conns' \in {"open", "refused"}
  /\ UNCHANGED <<serverVars, run, result, deferred, exit, notified, interrupted, signals, cleaner>>

(* Accept returns an error that is not temporary.                           *)
ServeFails ==
  /\ exit = "none" /\ conns = "open"
  /\ conns' = "failed"
  /\ UNCHANGED <<serverVars, run, result, deferred, exit, notified, interrupted, signals, cleaner>>

(* A signal outside of NotifyContext and stop ends the process at once; one *)
(* that is caught a second time changes nothing.                            *)
Signal ==
  /\ exit = "none" /\ signals < MaxSignals
  /\ signals' = signals + 1
  /\ IF notified THEN interrupted' = TRUE /\ UNCHANGED exit
     ELSE exit' = "killed" /\ UNCHANGED interrupted
  /\ UNCHANGED <<serverVars, run, result, deferred, conns, notified, cleaner>>

(* runCleanup.  NewTicker panics for an interval that is not positive, and  *)
(* a panic of this goroutine ends the process.                              *)
StartTicker ==
  /\ exit = "none" /\ cleaner.state = "started"
  /\ IF cfg.cleanupInterval > 0
       THEN cleaner' = [cleaner EXCEPT !.state = "waiting"] /\ UNCHANGED exit
       ELSE exit' = "crashed" /\ UNCHANGED cleaner
  /\ UNCHANGED <<serverVars, run, result, deferred, conns, notified, interrupted, signals>>

(* With a tick and a cancelled context select may take either.              *)
Cleanup ==
  /\ exit = "none"
  /\ \/ cleaner.state = "waiting" /\ cleaner' = [cleaner EXCEPT !.state = "sweeping"]
     \/ cleaner.state = "sweeping" /\ cleaner' = [cleaner EXCEPT !.state = "waiting"]
     \/ cleaner.state = "waiting" /\ cleaner.cancelled /\ cleaner' = [cleaner EXCEPT !.state = "ended"]
  /\ UNCHANGED <<serverVars, run, result, deferred, exit, conns, notified, interrupted, signals>>

(* A request can still come on an open connection during Shutdown, or after *)
(* it has timed out.                                                        *)
Request(r) ==
  /\ exit = "none"
  /\ \/ conns \in {"open", "failed"} /\ \E call \in Calls[r] : Accept(r, call)
     \/ Handle(r)
  /\ UNCHANGED appVars

-----------------------------------------------------------------------------
(* Stop                                                                     *)

(* select: the listener's error, or the signal.                             *)
ServerFailed ==
  /\ At("select") /\ conns \in {"refused", "failed"}
  /\ Leave("error")
  /\ UNCHANGED <<serverVars, deferred>> /\ ProcessUnchanged

(* Shutdown closes the listener: ListenAndServe cannot bind any more.       *)
Interrupted ==
  /\ At("select") /\ interrupted
  /\ GoOn("shutdown")
  /\ conns' = IF conns = "starting" THEN "closed" ELSE conns
  /\ UNCHANGED <<serverVars, deferred, exit, notified, interrupted, signals, cleaner>>

(* Variant: Close instead of Shutdown.                                      *)
AllIdleAlways == TRUE

AllIdle == \A r \in Requests : ~Active(r)

(* Shutdown finds every connection idle and closes it.                      *)
ShutdownDone ==
  /\ At("shutdown") /\ AllIdle
  /\ Leave("ok")
  /\ conns' = "closed"
  /\ UNCHANGED <<serverVars, deferred, exit, notified, interrupted, signals, cleaner>>

(* Variant: Shutdown(context.Background()).                                 *)
NeverTimesOut == FALSE /\ UNCHANGED vars

(* ShutdownTimeout has passed; connections and their handlers go on.        *)
ShutdownTimesOut ==
  /\ At("shutdown")
  /\ Leave("error")
  /\ UNCHANGED <<serverVars, deferred>> /\ ProcessUnchanged

(* Variant: the oldest deferred call first.                                 *)
OldestDeferred == <<Head(deferred), Tail(deferred)>>

(* The call that runs next, and those that stay deferred.                   *)
LastDeferred == <<Last(deferred), Front(deferred)>>

Unwind ==
  LET next == LastDeferred[1]
  IN  /\ At("leaving") /\ deferred # <<>>
      /\ deferred' = LastDeferred[2]
      /\ opened' = opened \ {next}
      /\ notified' = (notified /\ next # "stop")
      /\ cleaner' = [cleaner EXCEPT !.cancelled = @ \/ next = "cleanupCancel"]
      /\ UNCHANGED <<cfg, handler, metrics, run, result, exit, conns, interrupted, signals>>

Exit ==
  /\ At("leaving") /\ deferred = <<>>
  /\ exit' = result
  /\ UNCHANGED <<serverVars, run, result, deferred, conns, notified, interrupted, signals, cleaner>>

Start == LoadConfig \/ SetupTelemetry \/ OpenStore \/ OpenRateLimiter \/ Listen

Stop == ServerFailed \/ Interrupted \/ ShutdownDone \/ ShutdownTimesOut \/ Unwind \/ Exit

Next ==
  \/ Start \/ Stop
  \/ Bind \/ ServeFails \/ Signal \/ StartTicker \/ Cleanup
  \/ \E r \in Requests : Request(r)

Spec == Init /\ [][Next]_vars

(* Run's own steps after the signal end: the timer of ShutdownTimeout       *)
(* fires, and the deferred calls wait for nobody for ever.  Nothing is      *)
(* assumed of handlers, sweeps or the databases.                            *)
FairSpec == Spec /\ WF_vars(Stop)

-----------------------------------------------------------------------------
(* Properties                                                               *)

(* Whatever is open has its deferred call.                                  *)
TypeOK ==
  /\ \A resource \in opened : \E i \in DOMAIN deferred : deferred[i] = resource
  /\ cfg = NoConfig => opened = {} /\ conns = "none"
  /\ opened \subseteq {"telemetry", "store", "limiter"}
  /\ \A r \in Requests :
       /\ handler[r].pc \in {"idle", "limit", "admin", "page", "parse", "service", "answered",
                             "done", "recovered"}
       /\ handler[r].pc # "idle" => handler[r].call \in Calls[r]
  /\ run \in {"load", "telemetry", "store", "limiter", "listen", "select", "shutdown", "leaving"}
  /\ result \in {"none", "ok", "error", "unsupported", "panic"}
  /\ deferred \in Seq({"telemetry", "store", "limiter", "stop", "cleanupCancel"})
  /\ exit \in {"none", "ok", "error", "unsupported", "panic", "crashed", "killed"}
  /\ conns \in {"none", "starting", "refused", "open", "failed", "closed"}
  /\ notified \in BOOLEAN /\ interrupted \in BOOLEAN /\ signals \in 0 .. MaxSignals
  /\ cleaner.state \in {"none", "started", "waiting", "sweeping", "ended"}

(* When Run returns without an error every request that was accepted, until *)
(* the last connection was closed, has its answer: no handler is cut off,   *)
(* and none meets a closed limiter or store (app.go:110-119).               *)
CleanStop == result = "ok" => conns = "closed" /\ \A r \in Requests : ~Active(r)

(* What Run opened it closes on every way out, a failed start and a panic   *)
(* included, unless a signal kills it; the limiter before the store, the    *)
(* traces after both, and the store only when the sweeps have been told to  *)
(* stop (app.go:37-57, 75-80, 183-186).                                     *)
ReleasedInOrder ==
  /\ exit \in {"ok", "error", "unsupported", "panic"} => opened = {} /\ ~notified
  /\ "limiter" \in opened => "store" \in opened
  /\ "store" \in opened => "telemetry" \in opened
  /\ cleaner.state # "none" /\ "store" \notin opened => cleaner.cancelled

(* A configuration that Load accepts opens a store and a limiter, and its   *)
(* cleanup goroutine does not take the process down (config.go:83-91,       *)
(* 107-114, app.go:82-84, 123, 144-192).  A metrics path that NewHandler    *)
(* panics on is another matter: Load does not look for one, and what counts *)
(* then is ReleasedInOrder.                                                 *)
AcceptedConfigRuns ==
  /\ result # "unsupported"
  /\ exit # "crashed"

(* Once a signal is caught the process ends, though a handler may never     *)
(* finish (app.go:110-115).                                                 *)
StopsEventually == interrupted ~> exit # "none"
=============================================================================
