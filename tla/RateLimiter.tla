---------------------------- MODULE RateLimiter ----------------------------
(***************************************************************************)
(* The rate limiter that openRateLimiter (internal/app/app.go) makes:      *)
(* I8SL_RATE_LIMIT_BACKEND picks the memory limiter or the Redis one, both *)
(* with the same rate, burst and ten minutes.  Callers and clients are     *)
(* shared; what only the Redis limiter has stays as it began under the     *)
(* other.                                                                  *)
(***************************************************************************)
EXTENDS RateLimit

CONSTANTS
  Backends, \* the values of I8SL_RATE_LIMIT_BACKEND
  Minute, Skew, MaxSkew, MaxAttempts, MaxExcess, \* as in RedisLimiter
  RedisClock, RedisTaken \* MaxClock and MaxTaken of the Redis limiter

ASSUME BackendAssumption == Backends \subseteq {"memory", "redis"}

ASSUME RedisAssumption ==
  /\ Minute \in Nat /\ MaxSkew \in Nat
  /\ Skew \in [Callers -> 0 .. MaxSkew]
  /\ MaxAttempts \in Nat \ {0} /\ MaxExcess \in Nat
  /\ RedisClock \in 0 .. MaxClock /\ RedisTaken \in Nat

VARIABLES
  backend,
  attempt, sent, excess \* as in RedisLimiter

vars == <<clock, call, buckets, taken, backend, attempt, sent, excess>>

Memory == INSTANCE MemoryLimiter
Redis == INSTANCE RedisLimiter WITH MaxClock <- RedisClock, MaxTaken <- RedisTaken

Init == backend \in Backends /\ Redis!Init

OfMemory(step) == backend = "memory" /\ step /\ UNCHANGED <<backend, attempt, sent, excess>>
OfRedis(step) == backend = "redis" /\ step /\ UNCHANGED backend

Tick == OfMemory(Memory!Tick) \/ OfRedis(Redis!Tick)

Arrive(c, k) == OfMemory(Memory!Arrive(c, k)) \/ OfRedis(Redis!Arrive(c, k))

Serve(c) == OfMemory(Memory!Serve(c)) \/ OfRedis(Redis!Serve(c))

Lose(m) == OfRedis(Redis!Lose(m))

Restart == OfRedis(Redis!Restart)

Next ==
  \/ Tick \/ Restart
  \/ \E c \in Callers : Serve(c) \/ \E k \in Clients : Arrive(c, k)
  \/ \E m \in Redis!Script : Lose(m)

Spec == Init /\ [][Next]_vars

(* Allow is waiting for a mutex that is held for a moment, or for a client  *)
(* library with timeouts to connect, write and read.                        *)
FairSpec == Spec /\ \A c \in Callers : WF_vars(Serve(c))

-----------------------------------------------------------------------------
(* Properties                                                               *)

(* Every bucket holds between nothing and Burst tokens, every entry of the  *)
(* history is a token of one client, and no script outlives its attempt.    *)
TypeOK ==
  /\ clock \in 0 .. MaxClock
  /\ backend \in Backends
  /\ call \in [Callers -> [pc : {"asking"} \cup Answers, key : Clients,
                           now : 0 .. MaxClock + MaxSkew]]
  /\ \A k \in Clients :
       /\ buckets[k] # Null =>
            /\ buckets[k].tokens \in 0 .. Full
            /\ buckets[k].last \in 0 .. MaxClock + MaxSkew
            /\ buckets[k].keptUntil \in Nat
       /\ \A i \in DOMAIN taken[k] : taken[k][i] \in Take
  /\ attempt \in [Callers -> 0 .. MaxAttempts]
  /\ sent \subseteq Redis!Script
  /\ \A m \in sent :
       call[m.caller].pc = "asking" => m.attempt <= attempt[m.caller] /\ m.now = call[m.caller].now
  /\ excess \in [Clients -> Nat]

(* No client gets more than Burst generations and one more per Interval, in *)
(* any span of time.  The memory limiter keeps that exactly; scripts with   *)
(* clocks of several instances, run late and out of order, keep it up to    *)
(* the spread of the readings, once for the span and once for every reading *)
(* that was put back, and up to a full bucket for every restart of Redis    *)
(* (memory.go Allow, redis.go tokenBucketScript and NewRedis's stateTTL).   *)
RateLimited == LimitKept(IF backend = "memory" THEN 0 ELSE Redis!Disorder)

(* A client is denied only when it has used up what it had and earned, by   *)
(* the clock its request goes by: nothing that happens between requests,    *)
(* a bucket dropped, a reading put back, a script repeated, loses it time   *)
(* it has waited (memory.go:44-58, redis.go:22-34).                         *)
DeniedOnlyWhenSpent ==
  [][\A c \in Callers :
       call[c].pc = "asking" /\ call'[c].pc = "denied"
         => Spent(taken[call[c].key], IF backend = "memory" THEN clock ELSE call[c].now)]_vars

Bucket ==
  INSTANCE TokenBucket WITH
    asked   <- [c \in Callers |-> call[c].key],
    verdict <- [c \in Callers |-> call[c].pc],
    allowed <- [k \in Clients |-> [i \in DOMAIN taken[k] |-> taken[k][i].at]]

(* The map of buckets that come and go is one everlasting token bucket per  *)
(* client: every call is answered as if no bucket were ever dropped, though *)
(* cleanup goes by readings of the clock older than the mutex               *)
(* (memory.go:39-44, 67-73).  It takes a ttl that covers a refill.          *)
MemoryIsTokenBucket == [][backend = "memory" => [Bucket!Next]_(Bucket!vars)]_vars

(* Every call gets an answer or an error: the mutex is not held for ever,   *)
(* and the repeated scripts of one call come to an end (memory.go:41-42,    *)
(* redis.go:93-103).                                                        *)
EveryCallAnswered ==
  \A c \in Callers : call[c].pc = "asking" ~> call[c].pc \in Answers
=============================================================================
