---------------------------- MODULE RedisLimiter ----------------------------
(***************************************************************************)
(* internal/ratelimit/redis.go: a token bucket per client in Redis, kept   *)
(* by a script that server instances call with readings of their own       *)
(* clocks.  Scripts are delayed, reordered and lost; the client library    *)
(* (go-redis, external) sends one again, with the same reading, when no    *)
(* answer comes.  A bucket is [tokens, last, keptUntil]; Redis itself      *)
(* drops it at keptUntil, and all of them when it restarts.                *)
(***************************************************************************)
EXTENDS RateLimit

CONSTANTS
  Minute,      \* time.Minute
  Skew,        \* caller -> how far the clock of its instance is ahead
  MaxSkew,     \* bound on that
  MaxAttempts, \* 1 + MaxRetries of the client library
  MaxExcess    \* bound: a client that got more time for nothing asks no more

VARIABLES
  attempt,  \* caller -> how often it has sent its script
  sent,     \* scripts on their way to Redis
  excess    \* client -> bound on the time its buckets got for nothing, a history

vars == <<clock, call, buckets, taken, attempt, sent, excess>>

Script == [caller : Callers, attempt : 1 .. MaxAttempts, now : 0 .. MaxClock + MaxSkew]

(* A script that runs at some time goes by a reading that differs from it   *)
(* by no more than this, between the slowest and the fastest clock.         *)
Disorder == MaxWait + MaxSkew

Init ==
  /\ RateInit
  /\ attempt = [c \in Callers |-> 0]
  /\ sent = {}
  /\ excess = [k \in Clients |-> 0]

(* Bound: a script runs, or is lost, within MaxWait of its reading.         *)
Tick ==
  /\ clock < MaxClock
  /\ \A c \in Callers :
       call[c].pc = "asking" => clock + Skew[c] < call[c].now + MaxWait
  /\ \A m \in sent : clock + Skew[m.caller] < m.now + MaxWait
  /\ clock' = clock + 1
  /\ UNCHANGED <<call, buckets, taken, attempt, sent, excess>>

Send(c, n, now) ==
  /\ attempt' = [attempt EXCEPT ![c] = n]
  /\ sent' = sent \cup {[caller |-> c, attempt |-> n, now |-> now]}

(* Allow; a caller starts anew when its scripts are off the network.        *)
Arrive(c, k) ==
  /\ \A m \in sent : m.caller # c
  /\ excess[k] <= MaxExcess
  /\ Ask(c, k, clock + Skew[c])
  /\ Send(c, 1, clock + Skew[c])
  /\ UNCHANGED <<clock, buckets, taken, excess>>

-----------------------------------------------------------------------------
(* tokenBucketScript                                                        *)

(* NewRedis: the time to live covers a refill, and a minute.                *)
StateTTL == CHOOSE t \in {TTL, Full, Minute} : \A u \in {TTL, Full, Minute} : u <= t

Bucket(k) ==
  IF buckets[k] # Null /\ clock >= buckets[k].keptUntil THEN Null ELSE buckets[k]

(* Variant: elapsed without math.max.                                      *)
ElapsedBackwards(bucket, now) == now - bucket.last

Elapsed(bucket, now) == IF now > bucket.last THEN now - bucket.last ELSE 0

Tokens(bucket, now) ==
  IF bucket = Null THEN Full ELSE Refilled(bucket.tokens, Elapsed(bucket, now))

(* HSET and PEXPIRE, whether a token is taken or not.                       *)
Kept(tokens, now) == [tokens |-> tokens, last |-> now, keptUntil |-> clock + StateTTL]

(* A script that goes by an older reading than the one before it sets last  *)
(* back, and that time is credited again; and a bucket that has expired may *)
(* not have been full by the readings of its scripts.  A restart gives a    *)
(* full bucket, and forgets last.                                           *)
Excess(k, now) ==
  IF buckets[k] # Null /\ (Bucket(k) = Null \/ now < buckets[k].last)
    THEN excess[k] + Disorder ELSE excess[k]

(* The answer is lost, or comes too late for the attempt it answers.        *)
Answer(m, verdict) ==
  \/ UNCHANGED <<call, attempt>>
  \/ /\ call[m.caller].pc = "asking" /\ attempt[m.caller] = m.attempt
     /\ Return(m.caller, verdict)
     /\ attempt' = [attempt EXCEPT ![m.caller] = 0]

Run(m) ==
  LET k == call[m.caller].key
      tokens == Tokens(Bucket(k), m.now)
  IN  /\ m \in sent
      /\ sent' = sent \ {m}
      /\ excess' = [excess EXCEPT ![k] = Excess(k, m.now)]
      /\ \/ /\ tokens >= Interval
            /\ buckets' = [buckets EXCEPT ![k] = Kept(tokens - Interval, m.now)]
            /\ Record(k, [at |-> clock, read |-> m.now, excess |-> Excess(k, m.now)])
            /\ Answer(m, "allowed")
         \/ /\ tokens < Interval
            /\ buckets' = [buckets EXCEPT ![k] = Kept(tokens, m.now)]
            /\ Answer(m, "denied")
            /\ UNCHANGED taken
      /\ UNCHANGED clock

-----------------------------------------------------------------------------
(* Variant: the library sends a script again and again.                     *)
ResendForever(c) ==
  /\ call[c].pc = "asking"
  /\ Send(c, attempt[c], call[c].now)
  /\ UNCHANGED <<clock, call, buckets, taken, excess>>

(* No answer within the read timeout, or the connection broke: the same     *)
(* script, with the same reading.                                           *)
Resend(c) ==
  /\ call[c].pc = "asking"
  /\ attempt[c] < MaxAttempts
  /\ Send(c, attempt[c] + 1, call[c].now)
  /\ UNCHANGED <<clock, call, buckets, taken, excess>>

(* The last attempt fails: Allow returns an error.  (A request whose        *)
(* context is cancelled earlier is one whose last script is lost.)          *)
Fail(c) ==
  /\ call[c].pc = "asking" /\ attempt[c] = MaxAttempts
  /\ Return(c, "idle")
  /\ attempt' = [attempt EXCEPT ![c] = 0]
  /\ UNCHANGED <<clock, buckets, taken, sent, excess>>

Lose(m) ==
  /\ m \in sent
  /\ sent' = sent \ {m}
  /\ UNCHANGED <<clock, call, buckets, taken, attempt, excess>>

(* Redis runs without persistence (deployments/docker-compose.yml).         *)
Restart ==
  /\ \A k \in Clients : excess[k] <= MaxExcess
  /\ buckets' = [k \in Clients |-> Null]
  /\ excess' = [k \in Clients |-> excess[k] + Full + Disorder]
  /\ UNCHANGED <<clock, call, taken, attempt, sent>>

(* What the library does of itself.                                         *)
Serve(c) == Resend(c) \/ Fail(c) \/ \E m \in sent : m.caller = c /\ Run(m)

Next ==
  \/ Tick \/ Restart
  \/ \E c \in Callers : Serve(c) \/ \E k \in Clients : Arrive(c, k)
  \/ \E m \in Script : Lose(m)

Spec == Init /\ [][Next]_vars

(* Every attempt ends: the library has timeouts to connect, write and read. *)
Fairness == \A c \in Callers : WF_vars(Serve(c))
=============================================================================
