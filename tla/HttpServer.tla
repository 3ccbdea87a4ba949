----------------------------- MODULE HttpServer -----------------------------
(***************************************************************************)
(* internal/server/server.go: what happens to a request between the        *)
(* connection and the service, one action per step of its goroutine that   *)
(* reaches something shared.  The middlewares nest, from the outside:      *)
(* request id, tracing, recovery, logging, the routes; then metrics, and   *)
(* the rate limit or the admin token where the route has one.  What the    *)
(* service does is in Service, how the limiter decides in RateLimiter;     *)
(* here they answer anything they may.                                     *)
(***************************************************************************)
EXTENDS Configuration, FiniteSets

CONSTANTS
  Requests, \* the requests' goroutines
  Calls     \* what each request may be: [route, peer, forwarded, token, wellFormed]

VARIABLES
  cfg,      \* the configuration
  opened,   \* what of "telemetry", "store", "limiter" is open
  handler,  \* request -> where it is, what it is, and what became of it
  metrics   \* the counters

serverVars == <<cfg, opened, handler, metrics>>

Limited == {"create_rule", "generate_query"}

Routed == Limited \cup {"get_rule", "delete_rule", "redirect", "health_ready", "page"}

AnyStatus == {200, 201, 204, 302, 400, 401, 404, 409, 410, 429, 500, 503}

Results == {"success", "not_found", "expired", "error"}

(* A connection has a peer; the recorders count finitely many requests.     *)
ASSUME RequestAssumption ==
  /\ IsFiniteSet(Requests)
  /\ \A r \in Requests : \A call \in Calls[r] :
       /\ call.route \in Routed \cup {"unrouted"}
       /\ call.peer # Unset /\ call.wellFormed \in BOOLEAN

(* charged: the key a token was taken for.  called: the service was called. *)
(* sent: the status on the wire; observed: what the recorders of instrument *)
(* and withLogging hold; traced: that of withTracing.                       *)
NoRequest == [pc |-> "idle", call |-> Unset, charged |-> Unset, called |-> FALSE,
              sent |-> 0, observed |-> 0, traced |-> 0]

ServerInit ==
  /\ handler = [r \in Requests |-> NoRequest]
  /\ metrics = [http |-> <<>>, limited |-> <<>>, redirects |-> <<>>, authFailures |-> 0]

(* withTracing, withLogging and instrument each make a recorder with 200.   *)
Recorders(h) == [h EXCEPT !.observed = 200, !.traced = 200]

Active(r) == handler[r].pc \notin {"idle", "done", "recovered"}

(* WithLabelValues: a counter's series begin with their first event.        *)
Series(counter, label) == IF label \in DOMAIN counter THEN counter[label] ELSE 0

Count(counter, label) ==
  [l \in DOMAIN counter \cup {label} |-> IF l = label THEN Series(counter, l) + 1 ELSE counter[l]]

(* The first status goes out, every one goes through the recorders.         *)
Written(h, status) ==
  [h EXCEPT !.pc = "answered", !.observed = status, !.traced = status,
            !.sent = IF @ = 0 THEN status ELSE @]

Answer(r, status) == handler' = [handler EXCEPT ![r] = Written(@, status)]

GoTo(r, pc) == handler' = [handler EXCEPT ![r].pc = pc]

(* forwardedHeadersTrusted, clientIP.                                       *)
ClientIP(call) ==
  IF call.peer \in cfg.trustedProxies /\ call.forwarded # Unset THEN call.forwarded ELSE call.peer

(* A request is read and routed: 405 where no route has its method.         *)
Accept(r, call) ==
  LET route == call.route
      h == [Recorders(NoRequest) EXCEPT
              !.call = call,
              !.pc = IF route \in Limited THEN "limit"
                     ELSE IF route = "delete_rule" THEN "admin"
                     ELSE IF route = "page" THEN "page"
                     ELSE "service"]
  IN  /\ handler[r].pc = "idle"
      /\ handler' = [handler EXCEPT ![r] = IF route = "unrouted" THEN Written(h, 405) ELSE h]
      /\ UNCHANGED <<cfg, opened, metrics>>

(* Variant: a limiter that fails lets the request pass.                     *)
LimitFailsOpen(r) ==
  /\ handler[r].pc = "limit"
  /\ GoTo(r, "parse")
  /\ UNCHANGED <<cfg, opened, metrics>>

(* Close does nothing to the memory limiter.                                *)
LimiterClosed == "limiter" \notin opened /\ cfg.rateLimitBackend = "redis"

(* withRateLimit.                                                           *)
Limit(r) ==
  LET call == handler[r].call
  IN  /\ handler[r].pc = "limit"
      /\ \/ /\ ~LimiterClosed
            /\ \/ /\ handler' = [handler EXCEPT ![r] = [@ EXCEPT !.pc = "parse", !.charged = ClientIP(call)]]
                  /\ UNCHANGED metrics
               \/ /\ Answer(r, 429)
                  /\ metrics' = [metrics EXCEPT !.limited = Count(@, call.route)]
         \/ /\ cfg.rateLimitBackend = "redis"
            /\ Answer(r, 503)
            /\ UNCHANGED metrics
      /\ UNCHANGED <<cfg, opened>>

(* withAdminAuth: without a configured token anybody may delete.            *)
Authorize(r) ==
  /\ handler[r].pc = "admin"
  /\ IF cfg.adminToken \in {Unset, handler[r].call.token}
       THEN GoTo(r, "service") /\ UNCHANGED metrics
       ELSE /\ Answer(r, 401)
            /\ metrics' = [metrics EXCEPT !.authFailures = @ + 1]
  /\ UNCHANGED <<cfg, opened>>

(* handleCreateRule's decoding, requestFromQuery.                           *)
Parse(r) ==
  /\ handler[r].pc = "parse"
  /\ IF handler[r].call.wellFormed THEN GoTo(r, "service") ELSE Answer(r, 400)
  /\ UNCHANGED <<cfg, opened, metrics>>

(* The statuses of the service's answers, through writeServiceError.        *)
Statuses(route) ==
  IF route \in Limited THEN {201, 400, 409, 500}
  ELSE IF route = "redirect" THEN {302, 400, 404, 410, 500}
  ELSE IF route = "delete_rule" THEN {204, 400, 404, 500}
  ELSE IF route = "get_rule" THEN {200, 400, 404, 500}
  ELSE {200, 503}

(* handleRedirect's labels.                                                 *)
Result(status) ==
  CASE status = 302 -> "success" [] status = 404 -> "not_found"
    [] status = 410 -> "expired" [] OTHER -> "error"

(* Variant: only what redirected is counted.                                *)
CountedSuccess(route, status) ==
  IF route = "redirect" /\ status = 302
    THEN [metrics EXCEPT !.redirects = Count(@, Result(status))] ELSE metrics

CountedRedirect(route, status) ==
  IF route = "redirect" THEN [metrics EXCEPT !.redirects = Count(@, Result(status))] ELSE metrics

(* handleReady asks the store, then the limiter.                            *)
ReadyStatus(status) == LimiterClosed => status = 503

(* The handlers: a service call, and its answer.  With the pool closed only *)
(* errors are left: validation's, and the pool's.                           *)
Serve(r) ==
  LET route == handler[r].call.route
  IN  /\ handler[r].pc = "service"
      /\ \E status \in Statuses(route) :
           /\ "store" \notin opened => status \in {400, 500, 503}
           /\ route = "health_ready" => ReadyStatus(status)
           /\ handler' = [handler EXCEPT ![r] = [Written(@, status) EXCEPT !.called = TRUE]]
           /\ metrics' = CountedRedirect(route, status)
      /\ UNCHANGED <<cfg, opened>>

(* handleLanding, handleDocs, handleOpenAPI, handleLive, the metrics.       *)
Page(r) ==
  /\ handler[r].pc = "page"
  /\ Answer(r, 200)
  /\ UNCHANGED <<cfg, opened, metrics>>

(* A handler panics in its service call: the stack unwinds past instrument  *)
(* and withLogging to withRecovery, which answers 500 through the recorder  *)
(* of withTracing.                                                          *)
Panic(r) ==
  /\ handler[r].pc = "service"
  /\ handler' = [handler EXCEPT ![r] = [@ EXCEPT !.pc = "recovered", !.called = TRUE,
                                                 !.sent = 500, !.traced = 500]]
  /\ UNCHANGED <<cfg, opened, metrics>>

(* The middlewares after the handler: instrument, withLogging, withTracing. *)
Return(r) ==
  LET h == handler[r]
  IN  /\ h.pc = "answered"
      /\ GoTo(r, "done")
      /\ metrics' = IF h.call.route = "unrouted" THEN metrics
                    ELSE [metrics EXCEPT !.http = Count(@, <<h.call.route, h.observed>>)]
      /\ UNCHANGED <<cfg, opened>>

Handle(r) == Limit(r) \/ Authorize(r) \/ Parse(r) \/ Serve(r) \/ Page(r) \/ Panic(r) \/ Return(r)

-----------------------------------------------------------------------------
(* Properties                                                               *)

(* A create reaches the service after a token was taken for the client's    *)
(* own address, which only a trusted proxy may say is another's; a delete   *)
(* after the admin token was compared.  So it is while Run closes limiter   *)
(* and store under the request (server.go:282-321, 527-546).                *)
AllowedBeforeCalled ==
  \A r \in Requests : handler[r].called =>
    LET call == handler[r].call
    IN  /\ call.route \in Limited =>
             /\ call.wellFormed
             /\ handler[r].charged \in
                  {call.peer} \cup (IF call.peer \in cfg.trustedProxies THEN {call.forwarded} ELSE {})
             /\ handler[r].charged # Unset
        /\ call.route = "delete_rule" => cfg.adminToken \in {Unset, call.token}

(* The counters say what went out: each finished request of a route is in   *)
(* i8sl_http_requests_total once, with the status the client got, unless    *)
(* its handler panicked; denials, failed authentications and redirects are  *)
(* counted by the time they are answered; and every trace shows the status  *)
(* that was sent (metrics.go:72-87, server.go:364-371, 441-460).            *)
ResponsesCounted ==
  /\ \A r \in Requests : handler[r].pc \in {"done", "recovered"} =>
       handler[r].sent # 0 /\ handler[r].traced = handler[r].sent
  /\ \A label \in Routed \X AnyStatus :
       Series(metrics.http, label)
         = Cardinality({r \in Requests : /\ handler[r].pc = "done"
                                         /\ label = <<handler[r].call.route, handler[r].sent>>})
  /\ \A route \in Limited :
       Series(metrics.limited, route)
         = Cardinality({r \in Requests : handler[r].sent = 429 /\ handler[r].call.route = route})
  /\ metrics.authFailures = Cardinality({r \in Requests : handler[r].sent = 401})
  /\ \A label \in Results :
       Series(metrics.redirects, label)
         = Cardinality({r \in Requests :
             /\ handler[r].pc \in {"answered", "done"} /\ handler[r].call.route = "redirect"
             /\ Result(handler[r].sent) = label})
=============================================================================
