# A TLA+ development of I8SL

I8SL is a URL shortener in Go. Clients create rules (a code, a target URL and,
optionally, a time to live and a maximum number of uses), follow them, look at
them and delete them over HTTP; a goroutine deletes expired rules in the
background. Rules are kept in PostgreSQL, where several instances may share one
database, or in a SQLite file.

This directory holds TLA+ modules translated from the source, TLC
configurations that check them on small instances, and theorems with proofs for
TLAPS. `PROJECT.json` lists the runs, the theorems, the hazards each property is
aimed at, and the source lines behind every definition. In this directory:

    tlc -config race.cfg MCPostgres     # any run of PROJECT.json
    tlapm PostgresProofs.tla            # any proof module

## 1. The system

| Component | State | Operations | Talks to |
|---|---|---|---|
| Service, `internal/shortener/service.go` | none of its own: a store, a generator, a clock | `CreateRule`, `GetRule`, `DeleteRule`, `ResolveRule`, `DeleteExpired`, `Ping` | calls the store, generates codes, reads the clock |
| PostgreSQL store, `internal/storage/postgres/store.go` | the table `rules`; a pool of 10 connections; row locks | one statement each for create, get, delete and the sweep; `BEGIN`, `SELECT FOR UPDATE`, `UPDATE`, `COMMIT` for a resolve | database, shared by all instances |
| SQLite store, `internal/storage/sqlite/store.go` | the same table in a file; times as text; one connection | the same, without `FOR UPDATE` | file |
| Cleanup goroutine, `internal/app/app.go` `runCleanup` | a ticker | `DeleteExpired` at every tick, errors logged | service |
| Code generator, `internal/code/generator.go` | none | a random code | - |
| HTTP server, `internal/server/server.go` | none but metrics | routes and handlers; middleware for request ids, tracing, recovery, logging; rate limit, admin token, client address | service, limiter, metrics |
| Metrics, `internal/observability/metrics` | counters and a histogram | one increment each | read by Prometheus |
| Memory limiter, `internal/ratelimit/memory.go` | client -> token bucket and last use, under a mutex | `Allow`; every call drops the buckets unused for 10 minutes | - |
| Redis limiter, `internal/ratelimit/redis.go` | a hash per client in Redis, with an expiry | `Allow`: one script | Redis, shared by all instances |
| Application, `internal/app/app.go` `Run` | server, store, limiter, cleanup goroutine | start, signal, shutdown with a timeout, deferred closes | all of them |
| Configuration, `internal/config/config.go` | none | `Load` | the environment |
| Tracing, build information, embedded documents | set once | - | - |

What is hard about it, and what makes each part correct:

* **Resolve.** Several resolves of one rule run at once, on several instances.
  A rule must redirect at most `max_usages` times, every redirect must be
  counted, and neither a delete nor a sweep may come between the check of a
  rule and the update of its counter. PostgreSQL gets this from the row lock,
  SQLite from its single connection.
* **Create.** Aliases and generated codes collide; only the primary key
  decides. A loop retries collisions, ten times in all. A request must leave at
  most one rule behind, none if it is refused, and must never replace a rule.
* **Delete and sweep.** Statements that waited for a lock work with a snapshot
  and a clock reading that are old by then. A rule must leave the table only
  because somebody deleted it, once, or because it has expired.
* **Time.** Expiry is judged in four places with clock readings of their own:
  the resolve, the sweep, the response of a lookup, and the database's stored
  and rounded copy of the expiry. A rule that a client was told is gone must not
  come back.
* **Failure.** A commit may succeed and its acknowledgement be lost; a wait may
  be cut short by its context; an instance may die inside a transaction. No
  lock or connection may stay behind, and no effect may happen twice.
* **Limits.** Connections run out while resolves wait for row locks; 64-bit
  durations overflow; timestamps compared as text are not ordered as times are.
* **Rate limits.** Whatever the interleaving, a client must get at most `burst`
  tokens and what is earned in the time between, and must be denied only when it
  has used that up. The memory limiter forgets buckets, by readings of the clock
  that were taken before the mutex. The Redis limiter goes by the clocks of several
  instances, its scripts run late, twice or never, and Redis forgets on its own.
* **Gates and counters.** A create must not reach the store without a token of its
  own client, a delete not without the admin token, also while the limiter fails
  or is being closed. Three nested recorders, the counters and the response must
  agree on the status, after early answers and after panics.
* **Start and stop.** A start can fail half way; signals come at any time; requests
  and sweeps may still run while the limiter and the store are closed. What was
  opened must be closed, in the right order, and a handler that hangs must not
  keep the process.

## 2. The modules

    Rules ---- RuleBook                    what clients are promised
      \
       Service ---- PostgresShortener ---- MCPostgres, PostgresProofs
         |    \---- SqliteShortener ------ MCSqlite,   SqliteProofs
         \-- ServiceProofs ---- HistoryProofs ---- BookProofs (used by both proof modules)

    TokenBucket                            what a limit is
    RateLimit ---- MemoryLimiter --\
             \---- RedisLimiter ----- RateLimiter ---- MCRateLimiter, LimiterProofs ---- AnswerProofs

    Configuration ---- HttpServer ---- Application ---- MCApplication, ApplicationProofs

* **Rules** holds the pure part: a rule, the inputs `ruleFromInput` accepts and
  the rule it makes of them (with `time.Duration`'s wrap-around), `Expired`, what
  the database keeps of a time, calls and replies. URLs and aliases are the
  classes that the validation puts them in. A rule carries `owner`, the request
  that created it, which stands for the stored URL and tells two rules under one
  code apart.
* **RuleBook** is the abstract specification: a book of rules in which each call
  takes effect in one step, or not at all, between its arrival and its answer.
  Its header says what it promises. A lookup answers from a look it has taken
  during the call (`found`, empty until then): in particular `not_found` needs
  a look that saw no rule, or a rule that has left since.
* **Service** has one action per step in which a handler's goroutine reaches the
  database or returns: `ArriveCreate`, `ArriveLookup` (validation, the reading of
  the clock), `Connect`, then `Insert`, `AliasTaken`, `Collide` for a create,
  `Load`, `RefuseExpired`, `UpdateUsage`, `CommitUsage` for a resolve, `Delete`,
  `ReadRule` and then `ShowRule` for a get, `Missing`, and `GiveUp` for the calls
  that an error, a cancelled context or a crash ends. A get gives its connection
  back in `ReadRule`, when the row has been scanned, and builds its response
  later, with a clock reading of its own, while others write. `Deliver` is
  where an acknowledgement can be lost.
  Both stores have the same statements in the same order, so their steps are
  stated once. The properties of the service are stated here too.
* **PostgresShortener** adds instances with pools of connections, row locks,
  READ COMMITTED (a statement works on the latest version of the rows that its
  snapshot found), sweeps that lock row after row and may deadlock with each
  other, and crashes.
* **SqliteShortener** adds the one connection of the process and the order of
  times as text. `Unit` and `TextAtMost` state that order: RFC3339Nano trims
  trailing zeros, and the `Z` that ends a time sorts after the point and every
  digit, so that `...:00Z` comes after `...:00.75Z`.

* **RateLimit** has what the two limiters share: the callers of `Allow`, the history of
  tokens taken, the refill, and what is asked of both. Time is counted in the units
  that a token's `Interval` is counted in, so that tokens are integers.
* **MemoryLimiter**: a call reads the clock (`Arrive`), and its critical section is one
  action (`Allow`, `Deny`): `cleanup` by that reading, then the bucket of
  `golang.org/x/time/rate`, which reads the clock itself.
* **RedisLimiter**: a script is a message; `Run` is the script, at any later time and in any
  order. The client library sends it again (`Resend`) up to `MaxAttempts` times with the
  reading of the first time, its answer may be lost, the call may fail after its
  script ran, Redis drops expired keys and, when it restarts, all of them.
* **RateLimiter** is the choice that `openRateLimiter` makes between them. The properties
  of both are stated here once.
* **TokenBucket** is the abstract limit, with no bucket in it: a call is allowed exactly
  when no span of time then holds more than `Burst` calls and what is earned in it.
* **Configuration** is `Load`, an operator on environments. A metrics path is given by what
  ServeMux makes of it beside the routes: `free`, the `same` requests as a route (also under
  another name of the wildcard), `overlapping` with one, or `malformed` (also not clean). `Load`
  accepts all four, `NewHandler` panics on three (`RejectedPaths`).
* **HttpServer** takes a request through the middlewares, a step for everything shared that
  its goroutine reaches. The service and the limiter answer anything they may: how they
  decide is in the other modules.
* **Application** is `Run`, one action per step, composed with the requests of HttpServer,
  the listener, the signals and the cleanup goroutine. It opens and closes what
  the requests use.

How the state corresponds to the code:

| Variable | Code |
|---|---|
| `clock` | `Service.Now`, `time.Now().UTC()` |
| `rules` | the committed rows of the table `rules` |
| `pc` | where the goroutine of a request is: not arrived, waiting for a connection, in a statement (`connected`), between the SELECT and the UPDATE of `Store.ResolveRule` (`locked`), between its UPDATE and its COMMIT (`updated`), between the return of `Store.GetRule` and the response (`read`), returned |
| `call` | the arguments of the service call and its local `now` and `rule` |
| `tries` | the loop counter of `CreateRule` |
| `seen` | the row a statement's snapshot found, then the `rule` that `ResolveRule` scanned |
| `reply` | the response: the problem code of `writeServiceError`, or the success |
| `lock` | external: PostgreSQL's row locks |
| `conn` | SQLite: which request has the connection of the pool |
| `sweep` | `runCleanup` and its `DeleteExpired`: the `now` it passed; on PostgreSQL the rows its statement has still to visit |
| `call`, `taken` (RateLimit) | the arguments and locals of `Allow`; a history of tokens |
| `buckets` | `MemoryLimiter.clients`; the hashes in Redis. `keptUntil` is `lastSeen` + `ttl`, or the key's expiry |
| `attempt`, `sent` | external: go-redis and the network |
| `excess` | a history: a bound on the time for which a client's buckets were credited twice or forgotten |
| `cfg` | the `Config` that `Load` returned |
| `opened`, `deferred` | which of tracing, store and limiter are open; the deferred calls of `Run` |
| `handler` | a request's goroutine: its middleware, the key it paid with, whether it called the service, the status on the wire and in the recorders |
| `metrics` | the counters, as functions from label to count |
| `run`, `result`, `exit` | where `Run` is, what it returns, how the process ended |
| `conns`, `notified`, `interrupted` | external: `http.Server`'s listener and connections, `signal.NotifyContext` |
| `cleaner` | the goroutine of `runCleanup`, and its context |

Names that begin with "Variant" in a comment are plausible mistakes in the
definition that follows them. No specification uses them; each is there to show
that a property tells the code from the mistake (`mutants` in `PROJECT.json`).

### Abstractions

* All instances read one clock. Differences between the clocks of instances, or
  between an instance and its database, are not modelled (the code never uses
  the database's clock).
* A request makes one service call. A client that retries is another request.
* A generated code is any well-formed code; the generator's error is a fault.
* `created_at` is written once and only shown; it is left out. `last_used_at`
  is kept because `NoUseAfterExpiry` is about it.
* A deadlock needs a transaction that locks several rows: only sweeps do.
* A crashed PostgreSQL session is rolled back at once. One process per SQLite
  file, as the deployment has it; `busy_timeout` never matters then.

* The limiters count in integers. Rounding of float64 and of `UnixMilli` is left out.
* The repeats of go-redis carry the script's first reading because the code computes the
  arguments once; that the library repeats at all, and how often, is taken from its
  documentation (`MaxRetries`).
* `is_expired` in the response to a create is not counted among the reports that
  `EndedStaysEnded` speaks of. The code computes it from the rule as it was before the database
  rounded it; what is stored is never later (`StoredEarlier`), so no later call could contradict it.
* `ToLower` knows two spellings in capitals, one of a driver and one of a backend.
* The three recorders of a request are written in one step, because one goroutine writes them
  in the same call; what can part them is a panic, and the counters are steps of their own.
* A redirect label, a route and a status are enough to tell the counters' series apart;
  the HTTP method follows from the route. The pages are one route.
* Only service calls panic. A panic after a handler has written its status would answer
  into a response that is already out; no handler does anything there that could panic.
* `Shutdown` finds all connections idle in one step. `telemetryShutdown` ends: it has no
  deadline of its own, the exporter does.

## 3. What the runs check

Every bound is a constant of the modules: `MaxClock` (where the clock stops),
`MaxFaults` (connections lost, contexts cancelled, crashes), `Requests` and
`Workload` (who may do what), `MaxAttempts` (2 for the ten tries of a create: enough for
one collision that is retried and one that is not), `PoolSize`, `Second` (units of
time in a second), `HalfRange` (2^63 for time.Duration).

| Run | Instance | Shows |
|---|---|---|
| `race` | PostgreSQL, 4 requests on one code, 4 connections, one cleaner, one fault, 737,000 states | types, the usage limit, that used_count counts the redirects, that a checked row stays as it was, that what was reported gone stays gone, that nothing is lost early, and the inductive invariant `LockedUsage`. One input is used up by one redirect, the other has no limit and expires at the first tick. The two resolves are interchangeable, so they are symmetric |
| `hosts` | two instances with a cleaner and one connection each, two codes, one fault | creates collide and are retried, deletes race, both sweeps want the same two rows and deadlock, an instance dies: a create leaves at most one rule, a rule is deleted once, nothing is lost early |
| `promises` | every operation, an invalid alias, times rounded to two units, one fault | PostgreSQL implements `RuleBook` (`KeepsRuleBook`); no use is recorded at or after the stored expiry, although the check compares unrounded with rounded times |
| `progress` | one connection for three requests and the cleaner, one fault | every call is answered, every expired rule is purged |
| `sqlite` | two units of time to a second, three requests, one fault | SQLite implements `RuleBook` as well, with sweeps up to one unit early (`PurgeEarly = 1`); what was reported gone stays gone although the sweep and other calls write between a get's read and its answer (`EndedStaysEnded`); the inductive invariant `SerialUsage`; 1,924,000 states |
| `sqlite_progress` | the same with two requests | every call is answered; a rule whose expiry, as text, is later than the time itself is purged all the same |
| `limiters` | both backends; two goroutines, one client, burst 2, one token per unit of time; 622,000 states | `MemoryIsTokenBucket`: forgetting buckets is invisible; `RateLimited` exactly for the memory limiter and up to the disorder of readings for Redis; `DeniedOnlyWhenSpent`: nobody loses time it has waited; `EveryCallAnswered` |
| `slow_refill` | memory limiter, `TTL` 1 and a refill of 4 | violation of `RateLimited`, see below |
| `app` | fourteen environments (each class of metrics path among them), two requests of ten kinds, two signals; 868,000 states | clean stops, order of release on every way out (a panic of `NewHandler` among them), that a configuration `Load` accepts opens its store and limiter and keeps its cleanup alive, gates, counters, and that a signal ends the process |

Further bounds: `MaxTaken`, `RedisTaken` (a client with so many tokens asks no more),
`RedisClock` (the clock of the Redis limiter stops here), `MaxWait` (how late a reading is
used), `MaxExcess` (a client that got more for nothing asks no more), `MaxSignals`. Four tokens
and five units of time take a client through a full bucket, an empty one, a dropped one and a
refill with a call of the other goroutine, whose reading is older, in between. For Redis three
tokens, two attempts and a skew of one reach every order of two scripts and their
repeats, with a restart between them. The bound that `RateLimited` puts on Redis is loose in so small
an instance (`excess` soon exceeds what three tokens can show); there the run guards the memory limiter, and
the theorem `LimitersKeepTheLimit` is what says it of Redis. In `app` one request takes each way through
the middlewares while the other is at any point of its own; two signals are the
first and one that comes too late or too often.

Deadlock is not checked where the system may stop: clients need not ask for tokens, the bounded
clock stops, and `Run` ends.

Why these bounds are enough for the stores: one rule decides every property of usage, and
the two resolves, the delete or second create and the sweep are all the kinds
of actors that can meet on it; a fault of each kind is reachable within one.
A second code matters only for
retried creates and for sweeps that lock in different orders, which is `hosts`.
One tick takes a rule from active to expired; rounding and text need a second
of several units, which is `promises` and the SQLite runs. With two binary
digits after the point instead of one (`early_purge`) the text order has its
full shape; for every number of digits there is a proof.

### Fairness

A call's goroutine runs until it returns. `database/sql` gives a free connection
to the request that has waited longest and PostgreSQL grants row locks in order,
so a call or a sweep that is enabled again and again gets its turn although others
take the connection or the lock in between: strong fairness on `Serve(r)`, on
`Sweep(i)` and on SQLite's sweep. The ticker fires for ever, so the start
of a sweep is covered too. Nothing obliges clients to call, and faults and crashes are never
fair. On SQLite the clock is fair (`WF_vars(Tick)`), because a rule may be expired
and its text not yet past: the sweep has to wait for it. `progress` has one
cleaner. With two, two sweeps could deadlock and be aborted for ever in the
model; whether they do depends on scan order and timing, which it leaves open. `hosts` reaches such
a deadlock and its abort, and shows that nothing is lost early and no rule doubled through them; that
a deadlock is resolved is PostgreSQL's part, and no property states it.

`limiters` assumes weak fairness on `Serve(c)`, what a call of `Allow` does without the outside:
the mutex is held for a moment by everybody, and each attempt of the Redis client ends by its
timeouts. Running a script is one way for `Serve` to go on, not an obligation of Redis.
`app` assumes `WF_vars(Stop)`: `Run`'s goroutine goes on after the signal, because the timer
of `ShutdownTimeout` fires and the deferred calls return. Nothing is assumed of handlers, sweeps or
databases, and `Start` is not fair either: a database may never answer the first connection, and
then no signal has been caught, so it ends the process.

### Where code and documentation differ

* `late_redirect`: `ResolveRule` reads the clock, then waits for a connection and
  for the row lock, then judges expiry by that reading. A rule that expired during
  the wait still redirects. The API promises a redirect "when the rule is active".
  (`RuleBook` therefore promises only: active when the call read the clock.)
* `huge_ttl`: `time.Duration(TTLSeconds) * time.Second` wraps around above about
  9.2e9 seconds, which validation accepts; the rule may be expired at birth. The
  run scales 2^63 down to 8 and the second to two units.
* `early_purge`: SQLite's sweep compares times as text, and at a full second
  its own time sorts after every time within that second: a rule can be deleted up to
  a second before it expires.
* `slow_refill`: the memory limiter drops a bucket that was not used for ten minutes.
  With one token a minute and a burst of 30 a refill takes half an hour: a client that
  empties its bucket and waits eleven minutes has 30 tokens again, not 11. `NewRedis`
  extends its time to live to cover a refill; `NewMemory` does not. `limiters` has a
  time to live that covers the refill, as the defaults do (10 tokens at 30 a minute).

## 4. What is proved

Every safety property of a passing run, for every value of the constants that the
assumptions at the end of this section allow: any number of requests, instances,
connections, codes and faults, and for the stores no bound on the clock.

| Theorem | Module | Statement |
|---|---|---|
| `LockedUsageHolds` | PostgresProofs | `Spec => []LockedUsage` |
| `Typed` | PostgresProofs | `Spec => []TypeOK` |
| `CheckedRowsStay` | PostgresProofs | `Spec => []CheckedRowUnchanged` |
| `UsageLimitHolds` | PostgresProofs | `Spec => []UsageLimit` |
| `SweepsLockStaleHolds` | PostgresProofs | `Spec => []SweepsLockStale` |
| `NothingIsLostEarly` | PostgresProofs | `Spec => NothingLostEarly` |
| `HistoryHolds` | PostgresProofs | `Spec => []History` |
| `CreatesLeaveOneRule` | PostgresProofs | `Spec => []OneRulePerCreate` |
| `RulesAreDeletedOnce` | PostgresProofs | `Spec => []DeletedOnce` |
| `EndingsAreFinal` | PostgresProofs | `Spec => []EndedStaysEnded` |
| `UsesPrecedeExpiry` | PostgresProofs | `Spec => []NoUseAfterExpiry` |
| `UsesAreCounted` | PostgresProofs | `Spec => []RedirectsAreCounted` |
| `KeepsTheBook` | PostgresProofs | `Spec => KeepsRuleBook` |
| `ShortTTLsExpireLater` | PostgresProofs | `ShortTTLs`; then `Spec => []TTLExpiresLater` |
| `SerialUsageHolds` | SqliteProofs | `Spec => []SerialUsage` |
| `UsageLimitHoldsOnSqlite` | SqliteProofs | `Spec => []UsageLimit` |
| `HistoryHoldsOnSqlite` | SqliteProofs | `Spec => []History` |
| `CreatesLeaveOneRuleOnSqlite` | SqliteProofs | `Spec => []OneRulePerCreate` |
| `RulesAreDeletedOnceOnSqlite` | SqliteProofs | `Spec => []DeletedOnce` |
| `EndingsAreFinalOnSqlite` | SqliteProofs | `Spec => []EndedStaysEnded` |
| `UsesPrecedeExpiryOnSqlite` | SqliteProofs | `Spec => []NoUseAfterExpiry` |
| `UsesAreCountedOnSqlite` | SqliteProofs | `Spec => []RedirectsAreCounted` |
| `KeepsTheBookOnSqlite` | SqliteProofs | `PurgeEarly >= Second - 1`; then `Spec => KeepsRuleBook` |
| `ShortTTLsExpireLaterOnSqlite` | SqliteProofs | `ShortTTLs`; then `Spec => []TTLExpiresLater` |
| `LessThanASecondLost` | SqliteProofs | `PurgeEarly >= Second - 1`; then `Spec => NothingLostEarly` |
| `ApplicationStopsCleanly` | ApplicationProofs | `Spec => []CleanStop` |
| `ApplicationReleasesInOrder` | ApplicationProofs | `Spec => []ReleasedInOrder` |
| `AcceptedConfigurationRuns` | ApplicationProofs | `Spec => []AcceptedConfigRuns` |
| `CallsAreAdmitted` | ApplicationProofs | `Spec => []AllowedBeforeCalled` |
| `CountersMatchResponses` | ApplicationProofs | `Spec => []ResponsesCounted` |
| `ApplicationTyped` | ApplicationProofs | `Spec => []TypeOK` |
| `LimitersKeepTheLimit` | LimiterProofs | if the memory limiter is used, `TTL + 1 - MaxWait >= Full`; then `Spec => []RateLimited` |
| `LimitersTyped` | AnswerProofs | `Spec => []TypeOK` |
| `DenialsAreEarned` | AnswerProofs | `Spec => DeniedOnlyWhenSpent` |
| `MemoryKeepsTheBucket` | AnswerProofs | the same hypothesis; then `Spec => MemoryIsTokenBucket` |

**The usage limit.** It counts answers, so it is not inductive. `UsageInvariant`
numbers them: a redirect carries the `used_count` its commit wrote, the numbers of
one rule's redirects differ, none exceeds the row's `used_count` while the row
exists, and none exceeds `max_usages`. Distinct numbers in `1 .. max_usages` are at
most `max_usages` many (`UsageLimitFollows`, with the library's facts about cardinality).
That the numbers differ needs `CheckedRowUnchanged`: two transactions between
check and commit on the same row would write the same number. That in turn needs
`LocksHeld` on PostgreSQL and `ConnectionHeld` on SQLite.

**Shared by both stores.** `ServiceProofs` proves each step of `Service` once, under
the assumption that no other request is between check and commit on the row it
writes; each store's module discharges that assumption from its locks or its connection.
A step's effect on everybody else is summarised by a lemma (`ActMoves`), so that the
other requests' parts of the invariant need no case analysis.

**What becomes of a rule.** Five properties look back over the life of a rule; they follow from one
invariant, `History` (`HistoryProofs`), which is inductive beside the usage invariant. Its parts:

* `Origins`: a call's reading of the clock is behind the clock; a row has the expiry (rounded) and the
  limit of the create that made it, which has returned, created or with its acknowledgement lost; and
  what a statement has seen of a row is that row with no more uses than it has now.
* `Deletions`: the rule of a delete that succeeded is in no row, and its create has returned, so no
  row can bring it back. Two deletes that succeed therefore deleted two rules.
* `Endings`: `EndedKnown` carries what was reported to the calls that come after. What was
  reported ended is over (gone, or expired) by the clock and by the reading of every resolve that
  arrived after the report; a lookup that arrived after it and judges by the clock when it answers has
  seen nothing of it but rows that have expired, however long ago it gave its connection back. A row that is over stays over, because a row only ever grows uses
  (`LaterExpired`).
* `Uses`: what a transaction is about to commit was not expired by its reading (`Decided`), and the
  stored reading is not later than the reading (`StoredEarlier`).
* `Counts`: the redirects of a rule are finitely many, so that one more is one more; a lost
  acknowledgement raises `faults` with `used_count`.

`Onward` is what every step of either store keeps: nobody returns twice, answers stay, rows come from the
row before or from a create that is still running, the clock does not go back. With it each part is proved
for the steps of the service once (`BookProofs` and `HistoryProofs` know no locks), and the stores add
their sweeps, crashes and clocks.

**The book.** `BookProofs` maps rows to entries without `last_used_at`, what a lookup saw, from its
statement to its answer, to what a call found (`Views`, empty before), and proves each step of the service to be a step of `RuleBook` or to leave its variables alone.
`Connect` of a lookup and `Load` are `Look`; `Insert`, `AliasTaken` and `CommitUsage` are `Create`,
`Refuse` and `Redirect`; `RefuseExpired` is `Gone`; a collision that is retried and `UpdateUsage` are
stutters; so is `ReadRule`, and `ShowRule` is `Inspect`, of the row that `Connect` looked at; the last
collision and every error are `GiveUp`. `Missing` is `Missing`, and finds what `Connect` looked at. `Redirect` promises a rule that was not
expired by the call's reading although the check was a step earlier: that is `CheckedRowUnchanged`
again. A commit of a sweep is `Purge`, because what it deletes is stale by a reading that is behind
(`SweepsLockStale`), for PostgreSQL with no time to spare whatever `PurgeEarly`, for SQLite with
less than a second, hence the hypothesis of `KeepsTheBookOnSqlite`.

**Times to live.** `ShortTTLs` says that no input's `ttl_seconds` times `time.Second` reaches 2^63. Then the
duration is positive and a rule expires after its creation, before rounding. `huge_ttl` shows an input
beyond it.

**Nothing lost early.** `SweepsLockStale` says that what a sweep has locked satisfies its
WHERE clause, that its clock reading is not in the future, and that an idle sweep holds no
lock. On PostgreSQL a stored reading of the clock is not later than the reading, so an
expiry at most that old has passed (`StoredEarlier`). On SQLite, text that sorts before the
text of `now` is of a time less than a second after `now`, whatever the digits
(`TextOrder`): `Unit` is at least 1 and at most a second (`UnitType`, by well-founded
induction over the units), and `TextAtMost` compares times to which it has been added.

**The rate limit.** `RateLimited` looks back over pairs of tokens; the induction needs what the
bucket still holds. `Covered` says of each earlier token: what was taken since, and what is in
the bucket, is at most a full bucket and what was earned from that token's reading to the
bucket's `last`, and what was given for nothing in between. Time that passes goes on both sides
(`CoveredLater`), a token moves from the bucket to the log (`CoveredTake`), and with the bounds on
readings it gives the limit (`LimitedTake`). A client without a bucket must be covered with a
full one, by the oldest reading that can still come. When a bucket is dropped that follows from
`BucketsFresh`: for Redis because `StateTTL` is at least a refill, whatever the configuration
(`StateTTLCovers`); for the memory limiter only under `RefillCovered`, the
hypothesis of the theorem. `slow_refill` shows that it cannot be left out.

**What limiters answer.** `Earned` is the dual of `Covered`: unless the bucket is full, there is a token in
the log such that the tokens taken since then and those in the bucket make up a full bucket and
everything earned since its reading. Nothing that was earned is lost, then, and a denial, whose bucket holds less than a
token, is one of a client that has spent it all. A bucket that is dropped or expires is
only ever replaced by a full one, so the argument needs no time to live. A Redis script that runs late is judged by
its own reading: `SentForCall` ties it to the call it was sent for. For the memory limiter the two bounds
together say that a call is allowed exactly when `TokenBucket` allows it, which is the refinement; the
upper one needs `RefillCovered`.

**Start and stop.** `StackInvariant` ties where `Run` is to what it has deferred, and what it has
deferred to what is open: the stack of deferred calls is always one of the prefixes of telemetry,
store, limiter, stop, cleanupCancel, and leaving goes down the same ladder. Every conjunct
of `ReleasedInOrder` can be read off the rung. `CleanInvariant` adds that a closed listener with no
active handler stays so. `ConfigInvariant` says that past `Load` the driver, the backend and the interval
are ones that it accepted; it says nothing of the metrics path, which `Load` does not check. These theorems hold for every set of requests and environments.

**The server.** `HandlersKept` says how far a request can have come with what it has shown (`Allowed`: who is past
the limit has been charged for an address of its own, who is past the admin check has the token) and
that the three recorders hold what was sent, unless the handler panicked (`Recorded`). `ServedAfterLoad`
is needed because a request's gates are those of the configuration it started with. `CountersKept`
makes each series of each counter the cardinality of a set of requests; a step of one request
puts that request in the sets of its new place, and `Recount` compares the sets. Each step is proved to
raise exactly those series. Only here must `Requests` be finite.

Assumptions: those named in the modules (`BadCodeAssumption`, `NullAssumption`,
`DurationAssumption`, `PrecisionAssumption`, `InputAssumption`, `NullRuleAssumption`, `ServiceAssumption`,
`ProcessAssumption`, `UnitsAssumption`, `CodeAssumption`, `RequestAssumption`, `SignalAssumption`,
`RateAssumption`, `NoBucketAssumption`, `BackendAssumption`, `RedisAssumption`), which TLC evaluates in every run: model values are distinct
from data, a second and a precision are positive, every request has a host, a route and a peer.
The theorems about the counters need finitely many HTTP requests (`RequestAssumption`); those about the
stores and the limiters need no set to be finite.

Only model-checked: liveness (`EveryRequestAnswered`, `ExpiredEventuallyPurged`, `EveryCallAnswered`,
`StopsEventually`), which needs fairness and ENABLED and is out of the prover's reach. The properties
that the violation runs refute hold under hypotheses, and are proved under them: `TTLExpiresLater`
(`ShortTTLs`), `NothingLostEarly` on SQLite (a second's grace), `RateLimited` (`RefillCovered`); in place of
`RedirectOnlyWhenActive` there is what `Redirect` of `RuleBook` promises. The order of texts is proved for every
number of digits, but what `Unit` computes for a given time is only used through its bounds.

## 5. Not modelled, and why

* Parsing of URLs, of JSON, of codes, of numbers and of prefixes: the modules have the classes
  of input that the code tells apart.
* Request ids, the text of responses and of logs, the public base URL in `short_url`: wording.
* The duration histogram, and the collectors of the Prometheus library.
* The exporter behind tracing, build information, embedded documents: a library, three
  strings, static text.
* Schema migration: the initial state. It is idempotent DDL.
* What a limiter does at a rate of NaN or infinity, which `Load` accepts: the model has
  no numbers for it.

## 6. Plan

Done, in this order: Rules, Service, PostgresShortener and its runs; RuleBook; SqliteShortener;
the proofs of usage limits and of what sweeps may delete; the limiters; HttpServer,
Configuration and Application; the proofs of the rate limit and of starting and stopping; `History` and
its consequences on both stores; the refinements of `RuleBook` and `TokenBucket`; the proofs about
the limiters' answers, the gates and the counters.

No safety property of a passing run is left unproved. What could be added:

1. The safety half of `EveryRequestAnswered`: that every lock and every connection in use belongs to
   somebody who can go on, as an invariant of PostgresShortener, so that only fairness is left to TLC.
2. Which properties of `RedisLimiter` hold exactly when Redis neither restarts nor receives a script twice.
