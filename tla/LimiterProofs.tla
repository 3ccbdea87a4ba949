--------------------------- MODULE LimiterProofs ---------------------------
(***************************************************************************)
(* RateLimited for every burst, interval, time to live and number of       *)
(* callers and clients, with either backend.                               *)
(***************************************************************************)
EXTENDS RateLimiter, TLAPS

(* What the memory limiter needs, and NewMemory does not see to: a bucket   *)
(* that is dropped would have been full.                                    *)
RefillCovered == TTL + 1 - MaxWait >= Full

-----------------------------------------------------------------------------
(* Logs                                                                     *)

Logs == Seq(Take)

(* What log has been given and tokens on top of it is no more than a full   *)
(* bucket and what was earned from each of its tokens until last.           *)
Covered(log, tokens, last, free) ==
  \A i \in DOMAIN log :
    (Len(log) - i + 1) * Interval + tokens
      <= Full + (last - log[i].read) + (free - log[i].excess)

LEMMA Constants ==
  /\ Burst \in Nat /\ Interval \in Nat /\ Interval > 0 /\ Full \in Nat /\ Full >= Interval
  /\ TTL \in Nat /\ MaxWait \in Nat /\ MaxSkew \in Nat /\ Minute \in Nat
<1>1. /\ Burst \in Nat \ {0} /\ Interval \in Nat \ {0}
      /\ TTL \in Nat /\ MaxWait \in Nat /\ MaxSkew \in Nat /\ Minute \in Nat
  BY RateAssumption, RedisAssumption
<1>2. ASSUME NEW b \in Nat \ {0}, NEW n \in Nat \ {0}
      PROVE  b * n \in Nat /\ b * n >= n
  <2>1. b * n = (b - 1) * n + n
    OBVIOUS
  <2>2. (b - 1) * n \in Nat
    OBVIOUS
  <2> QED  BY <2>1, <2>2
<1> QED  BY <1>1, <1>2 DEF Full

LEMMA OneMore == ASSUME NEW n \in Int PROVE (n + 1) * Interval = n * Interval + Interval /\ n * Interval \in Int
BY Constants

(* Time that passes, and time that is given, go on top.                     *)
LEMMA CoveredLater ==
  ASSUME NEW log \in Logs,
         NEW t \in Int, NEW l \in Int, NEW f \in Int, Covered(log, t, l, f),
         NEW t2 \in Int, NEW l2 \in Int, NEW f2 \in Int, t2 - l2 - f2 <= t - l - f
  PROVE  Covered(log, t2, l2, f2)
<1> SUFFICES ASSUME NEW i \in DOMAIN log
             PROVE  (Len(log) - i + 1) * Interval + t2
                      <= Full + (l2 - log[i].read) + (f2 - log[i].excess)
  BY DEF Covered
<1> DEFINE cost == (Len(log) - i + 1) * Interval
<1>1. Len(log) - i + 1 \in Int /\ log[i] \in Take
  BY DEF Logs
<1>2. cost \in Int
  BY <1>1, Constants
<1>3. cost + t <= Full + (l - log[i].read) + (f - log[i].excess)
  BY DEF Covered
<1>4. log[i].read \in Int /\ log[i].excess \in Int
  BY <1>1 DEF Take
<1> HIDE DEF cost
<1>5. cost + t2 <= Full + (l2 - log[i].read) + (f2 - log[i].excess)
  BY <1>2, <1>3, <1>4, Constants
<1> QED  BY <1>5 DEF cost

(* A token that is taken goes from the bucket to the log.                   *)
LEMMA CoveredTake ==
  ASSUME NEW log \in Logs, NEW take \in Take, NEW t \in Int, t <= Full,
         Covered(log, t, take.read, take.excess)
  PROVE  Covered(Append(log, take), t - Interval, take.read, take.excess)
<1> DEFINE new == Append(log, take)
<1> SUFFICES ASSUME NEW i \in DOMAIN new
             PROVE  (Len(new) - i + 1) * Interval + (t - Interval)
                      <= Full + (take.read - new[i].read) + (take.excess - new[i].excess)
  BY DEF Covered
<1>1. Len(new) = Len(log) + 1 /\ i \in 1 .. Len(log) + 1 /\ Len(log) \in Nat
  BY DEF Logs
<1>2. take.read \in Int /\ take.excess \in Int
  BY DEF Take
<1>3. CASE i = Len(log) + 1
  <2> DEFINE cost == (Len(new) - i + 1) * Interval
  <2>1. new[i] = take
    BY <1>3 DEF Logs
  <2>2. cost = Interval
    BY <1>1, <1>3, Constants
  <2> HIDE DEF new, cost
  <2>3. cost + (t - Interval) <= Full + (take.read - take.read) + (take.excess - take.excess)
    BY <2>2, <1>2, Constants
  <2>4. cost + (t - Interval) <= Full + (take.read - new[i].read) + (take.excess - new[i].excess)
    BY <2>1, <2>3
  <2> QED  BY <2>4 DEF cost
<1>4. CASE i \in DOMAIN log
  <2> DEFINE n == Len(log) - i + 1
             cost == n * Interval
  <2>1. new[i] = log[i] /\ log[i] \in Take
    BY <1>4 DEF Logs
  <2>2. n \in Int /\ Len(new) - i + 1 = n + 1
    BY <1>1
  <2>3. cost + t <= Full + (take.read - log[i].read) + (take.excess - log[i].excess)
    BY <1>4 DEF Covered
  <2>4. (n + 1) * Interval = cost + Interval /\ cost \in Int
    BY <2>2, OneMore
  <2>5. log[i].read \in Int /\ log[i].excess \in Int
    BY <2>1 DEF Take
  <2> HIDE DEF cost
  <2>6. (cost + Interval) + (t - Interval)
          <= Full + (take.read - log[i].read) + (take.excess - log[i].excess)
    BY <2>3, <2>4, <2>5, <1>2, Constants
  <2> QED  BY <2>1, <2>2, <2>4, <2>6
<1>5. DOMAIN log = 1 .. Len(log)
  BY DEF Logs
<1> QED  BY <1>1, <1>3, <1>4, <1>5

(* early, late: how far a reading is from the time of its token.            *)
ReadsWithin(log, early, late) ==
  \A i \in DOMAIN log : log[i].at - early <= log[i].read /\ log[i].read <= log[i].at + late

LEMMA LimitedTake ==
  ASSUME NEW log \in Logs, NEW take \in Take, NEW t \in Int, t >= 0,
         NEW early \in Int, NEW late \in Int, early + late >= 0,
         InLimit(log, early + late),
         ReadsWithin(Append(log, take), early, late),
         Covered(Append(log, take), t, take.read, take.excess)
  PROVE  InLimit(Append(log, take), early + late)
<1> DEFINE new == Append(log, take)
<1> SUFFICES ASSUME NEW i \in DOMAIN new, NEW j \in DOMAIN new, i <= j
             PROVE  (j - i + 1) * Interval
                      <= Full + (new[j].at - new[i].at) + (early + late)
                           + (new[j].excess - new[i].excess)
  BY DEF InLimit
<1>1. /\ Len(new) = Len(log) + 1 /\ Len(log) \in Nat
      /\ i \in 1 .. Len(log) + 1 /\ j \in 1 .. Len(log) + 1
      /\ DOMAIN log = 1 .. Len(log)
  BY DEF Logs
<1>2. CASE j \in DOMAIN log
  <2>1. i \in DOMAIN log /\ new[i] = log[i] /\ new[j] = log[j]
    BY <1>1, <1>2 DEF Logs
  <2> QED  BY <2>1, <1>2 DEF InLimit
<1>3. CASE j = Len(log) + 1
  <2> DEFINE cost == (Len(new) - i + 1) * Interval
  <2>1. new[j] = take /\ new[i] \in Take
    BY <1>1, <1>3 DEF Logs
  <2>2. (j - i + 1) * Interval = cost /\ cost \in Int
    BY <1>1, <1>3, Constants
  <2>3. cost + t <= Full + (take.read - new[i].read) + (take.excess - new[i].excess)
    BY DEF Covered
  <2>4. /\ new[i].at - early <= new[i].read
        /\ new[j].read <= new[j].at + late
    BY DEF ReadsWithin
  <2>5. /\ take.read \in Int /\ take.excess \in Int /\ take.at \in Int
        /\ new[i].read \in Int /\ new[i].excess \in Int /\ new[i].at \in Int
    BY <2>1 DEF Take
  <2> HIDE DEF cost, new
  <2>6. cost <= Full + (take.at - new[i].at) + (early + late) + (take.excess - new[i].excess)
    BY <2>1, <2>2, <2>3, <2>4, <2>5, Constants
  <2> QED  BY <2>1, <2>2, <2>6
<1> QED  BY <1>1, <1>2, <1>3

-----------------------------------------------------------------------------
(* The invariant                                                            *)

Ahead(c) == IF backend = "memory" THEN 0 ELSE Skew[c]

(* Bounds on how far a token's reading is from its time.                    *)
Early == IF backend = "memory" THEN 0 ELSE MaxWait
Late == IF backend = "memory" THEN 0 ELSE MaxSkew

BucketType == [tokens : 0 .. Full, last : Int, keptUntil : Int]

Typed ==
  /\ backend \in Backends
  /\ clock \in Nat
  /\ call \in [Callers -> [pc : {"asking"} \cup Answers, key : Clients, now : Int]]
  /\ buckets \in [Clients -> {Null} \cup BucketType]
  /\ taken \in [Clients -> Logs]
  /\ excess \in [Clients -> Nat]
  /\ \A m \in sent : m.caller \in Callers /\ m.now \in Int

Timely(c, now) == clock + Ahead(c) - MaxWait <= now /\ now <= clock + Ahead(c)

CallsTimely == \A c \in Callers : call[c].pc = "asking" => Timely(c, call[c].now)

SentTimely == backend = "redis" => \A m \in sent : Timely(m.caller, m.now)

(* How old a bucket can be when it is dropped.                              *)
Fresh(b) ==
  IF backend = "memory"
    THEN b.last <= clock /\ b.last + TTL <= b.keptUntil + MaxWait
    ELSE b.keptUntil <= clock + Redis!StateTTL /\ b.last + Redis!StateTTL <= b.keptUntil + MaxSkew

BucketsFresh == \A k \in Clients : buckets[k] # Null => Fresh(buckets[k])

(* A client without a bucket has not had more than it had earned by the     *)
(* oldest reading that can still come.                                      *)
BucketCovered(k) ==
  IF buckets[k] = Null THEN Covered(taken[k], Full, clock - Early, excess[k])
  ELSE Covered(taken[k], buckets[k].tokens, buckets[k].last, excess[k])

LogKept(k) == ReadsWithin(taken[k], Early, Late) /\ InLimit(taken[k], Early + Late)

NothingFree == backend = "memory" => \A k \in Clients : excess[k] = 0

LimiterInvariant ==
  /\ Typed /\ CallsTimely /\ SentTimely /\ BucketsFresh /\ NothingFree
  /\ \A k \in Clients : BucketCovered(k) /\ LogKept(k)

LEMMA SameFull == Memory!Full = Full /\ Redis!Full = Full /\ Redis!Disorder = MaxWait + MaxSkew
BY DEF Full, Memory!Full, Redis!Full, Redis!Disorder

(* The time to live of Redis covers a refill.                               *)
LEMMA StateTTLCovers == Redis!StateTTL \in Nat /\ Redis!StateTTL >= Full
<1> DEFINE choices == {TTL, Redis!Full, Minute}
<1>1. choices \subseteq Nat /\ Full \in choices
  BY SameFull, Constants
<1>2. \E t \in choices : \A u \in choices : u <= t
  BY SameFull, Constants
<1>3. Redis!StateTTL \in choices /\ \A u \in choices : u <= Redis!StateTTL
  BY <1>2 DEF Redis!StateTTL
<1> QED  BY <1>1, <1>3

LEMMA BackendCases == Typed => backend \in {"memory", "redis"}
BY BackendAssumption DEF Typed

LEMMA Tolerances ==
  /\ Early \in Nat /\ Late \in Nat
  /\ Early + Late = IF backend = "memory" THEN 0 ELSE Redis!Disorder
  /\ \A c \in Callers : Ahead(c) \in 0 .. Late
BY Constants, SameFull, RedisAssumption DEF Early, Late, Ahead

LEMMA InvariantLimits == LimiterInvariant => RateLimited
BY Tolerances DEF LimiterInvariant, LogKept, RateLimited, LimitKept

LEMMA LimiterInit == Init => LimiterInvariant
<1> SUFFICES ASSUME Init PROVE LimiterInvariant
  OBVIOUS
<1> USE DEF Init, Redis!Init, Redis!RateInit
<1>1. Typed
  BY RateAssumption DEF Typed, Logs, Answers
<1>2. CallsTimely /\ SentTimely /\ BucketsFresh /\ NothingFree
  BY DEF CallsTimely, SentTimely, BucketsFresh, NothingFree
<1>3. ASSUME NEW k \in Clients PROVE BucketCovered(k) /\ LogKept(k)
  <2>1. buckets[k] = Null /\ DOMAIN taken[k] = {}
    OBVIOUS
  <2> QED  BY <2>1 DEF BucketCovered, Covered, LogKept, ReadsWithin, InLimit
<1> QED  BY <1>1, <1>2, <1>3 DEF LimiterInvariant

-----------------------------------------------------------------------------
(* Steps that leave the buckets alone                                       *)

LEMMA BucketsIdle ==
  ASSUME LimiterInvariant, UNCHANGED <<backend, buckets, taken, excess>>,
         clock' \in {clock, clock + 1}
  PROVE  BucketsFresh' /\ NothingFree' /\ \A k \in Clients : BucketCovered(k)' /\ LogKept(k)'
<1> USE DEF LimiterInvariant
<1>1. clock \in Nat /\ clock' \in Nat /\ clock' >= clock
  BY DEF Typed
<1>2. BucketsFresh'
  <2> SUFFICES ASSUME NEW k \in Clients, buckets[k] # Null
               PROVE  Fresh(buckets[k])'
    BY DEF BucketsFresh
  <2>1. Fresh(buckets[k]) /\ buckets[k] \in BucketType
    BY DEF BucketsFresh, Typed
  <2>2. buckets[k].last \in Int /\ buckets[k].keptUntil \in Int
    BY <2>1 DEF BucketType
  <2> QED  BY <2>1, <2>2, <1>1, Constants, StateTTLCovers DEF Fresh, Redis!StateTTL, Redis!Full
<1>3. NothingFree'
  BY DEF NothingFree
<1>4. ASSUME NEW k \in Clients PROVE BucketCovered(k)'
  <2>1. taken[k] \in Logs /\ excess[k] \in Int /\ Full \in Int /\ Early \in Int
    BY Constants, Tolerances DEF Typed
  <2>2. BucketCovered(k) /\ Early' = Early
    BY DEF Early
  <2>3. CASE buckets[k] = Null
    <3>1. Covered(taken[k], Full, clock' - Early, excess[k])
      BY <2>1, <2>2, <2>3, <1>1, CoveredLater DEF BucketCovered
    <3> QED  BY <2>2, <2>3, <3>1 DEF BucketCovered
  <2>4. CASE buckets[k] # Null
    BY <2>2, <2>4 DEF BucketCovered
  <2> QED  BY <2>3, <2>4
<1>5. ASSUME NEW k \in Clients PROVE LogKept(k)'
  BY DEF LogKept, Early, Late
<1> QED  BY <1>2, <1>3, <1>4, <1>5

LEMMA TickStep == ASSUME LimiterInvariant, Tick PROVE LimiterInvariant'
<1> USE DEF LimiterInvariant
<1>1. CASE OfMemory(Memory!Tick)
  <2> USE <1>1 DEF OfMemory, Memory!Tick
  <2>1. Typed'
    BY DEF Typed
  <2>2. CallsTimely'
    BY Constants DEF CallsTimely, Timely, Ahead, Typed
  <2>3. SentTimely'
    BY DEF SentTimely
  <2> QED  BY <2>1, <2>2, <2>3, BucketsIdle
<1>2. CASE OfRedis(Redis!Tick)
  <2> USE <1>2 DEF OfRedis, Redis!Tick
  <2>1. Typed'
    BY DEF Typed
  <2>2. \A c \in Callers : Skew[c] \in Nat
    BY RedisAssumption
  <2>3. CallsTimely'
    BY Constants, <2>2 DEF CallsTimely, Timely, Ahead, Typed
  <2>4. SentTimely'
    BY Constants, <2>2 DEF SentTimely, Timely, Ahead, Typed
  <2> QED  BY <2>1, <2>3, <2>4, BucketsIdle
<1> QED  BY <1>1, <1>2 DEF Tick

(* Steps of callers and of the network.                                     *)
LEMMA QuietStep ==
  ASSUME LimiterInvariant, UNCHANGED <<clock, backend, buckets, taken, excess>>,
         call' \in [Callers -> [pc : {"asking"} \cup Answers, key : Clients, now : Int]],
         \A m \in sent' : m.caller \in Callers /\ m.now \in Int,
         \A c \in Callers : call'[c].pc = "asking" => Timely(c, call'[c].now),
         backend = "redis" => \A m \in sent' : Timely(m.caller, m.now)
  PROVE  LimiterInvariant'
<1>1. Typed'
  BY DEF LimiterInvariant, Typed
<1>2. CallsTimely' /\ SentTimely'
  BY DEF CallsTimely, SentTimely, Timely, Ahead
<1>3. clock' \in {clock, clock + 1}
  OBVIOUS
<1> QED  BY <1>1, <1>2, <1>3, BucketsIdle DEF LimiterInvariant

LEMMA ArriveStep ==
  ASSUME LimiterInvariant, NEW c \in Callers, NEW k \in Clients, Arrive(c, k)
  PROVE  LimiterInvariant'
<1> USE DEF LimiterInvariant
<1>1. CASE OfMemory(Memory!Arrive(c, k))
  <2> USE <1>1 DEF OfMemory, Memory!Arrive, Memory!Ask
  <2>1. call' = [call EXCEPT ![c] = [pc |-> "asking", key |-> k, now |-> clock]]
    OBVIOUS
  <2>2. Timely(c, clock)
    BY Constants DEF Timely, Ahead, Typed
  <2>3. call' \in [Callers -> [pc : {"asking"} \cup Answers, key : Clients, now : Int]]
    BY <2>1 DEF Typed
  <2>4. \A d \in Callers : call'[d].pc = "asking" => Timely(d, call'[d].now)
    BY <2>1, <2>2 DEF CallsTimely, Typed
  <2> QED  BY <2>3, <2>4, QuietStep DEF Typed
<1>2. CASE OfRedis(Redis!Arrive(c, k))
  <2> DEFINE now == clock + Skew[c]
             m == [caller |-> c, attempt |-> 1, now |-> now]
  <2>1. /\ call' = [call EXCEPT ![c] = [pc |-> "asking", key |-> k, now |-> now]]
        /\ sent' = sent \cup {m}
        /\ UNCHANGED <<clock, backend, buckets, taken, excess>> /\ backend = "redis"
    BY <1>2 DEF OfRedis, Redis!Arrive, Redis!Ask, Redis!Send
  <2>2. now \in Int /\ Timely(c, now)
    <3>1. clock \in Nat /\ Skew[c] \in Nat /\ MaxWait \in Nat
      BY Constants, RedisAssumption DEF Typed
    <3>2. Ahead(c) = Skew[c]
      BY <2>1 DEF Ahead
    <3> QED  BY <3>1, <3>2 DEF Timely
  <2> HIDE DEF now
  <2>3. call' \in [Callers -> [pc : {"asking"} \cup Answers, key : Clients, now : Int]]
    BY <2>1, <2>2 DEF Typed
  <2>4. \A n \in sent' : n.caller \in Callers /\ n.now \in Int
    BY <2>1, <2>2 DEF Typed
  <2>5. \A d \in Callers : call'[d].pc = "asking" => Timely(d, call'[d].now)
    BY <2>1, <2>2 DEF CallsTimely, Typed
  <2>6. \A n \in sent' : Timely(n.caller, n.now)
    BY <2>1, <2>2 DEF SentTimely
  <2> QED  BY <2>1, <2>3, <2>4, <2>5, <2>6, QuietStep
<1> QED  BY <1>1, <1>2 DEF Arrive

LEMMA ResendStep ==
  ASSUME LimiterInvariant, NEW c \in Callers, backend = "redis", UNCHANGED backend, Redis!Resend(c)
  PROVE  LimiterInvariant'
<1> USE DEF LimiterInvariant
<1> DEFINE m == [caller |-> c, attempt |-> attempt[c] + 1, now |-> call[c].now]
<1>1. /\ sent' = sent \cup {m}
      /\ call[c].pc = "asking"
      /\ UNCHANGED <<clock, call, buckets, taken, excess>>
  BY DEF Redis!Resend, Redis!Send
<1>2. m.now \in Int /\ Timely(c, m.now)
  BY <1>1 DEF CallsTimely, Typed
<1>3. \A n \in sent' : n.caller \in Callers /\ n.now \in Int
  BY <1>1, <1>2 DEF Typed
<1>4. \A n \in sent' : Timely(n.caller, n.now)
  BY <1>1, <1>2 DEF SentTimely
<1>5. call' \in [Callers -> [pc : {"asking"} \cup Answers, key : Clients, now : Int]]
  BY <1>1 DEF Typed
<1>6. \A d \in Callers : call'[d].pc = "asking" => Timely(d, call'[d].now)
  BY <1>1 DEF CallsTimely
<1> QED  BY <1>1, <1>3, <1>4, <1>5, <1>6, QuietStep

(* A call that returns, and what that leaves of the calls.                  *)
LEMMA CallsReturn ==
  ASSUME LimiterInvariant, NEW c \in Callers, NEW verdict \in Answers,
         call' = [call EXCEPT ![c] = [pc |-> verdict, key |-> @.key, now |-> 0]]
  PROVE  /\ call' \in [Callers -> [pc : {"asking"} \cup Answers, key : Clients, now : Int]]
         /\ \A d \in Callers : call'[d].pc = "asking" => call[d].pc = "asking" /\ call'[d].now = call[d].now
<1> DEFINE Calls == [pc : {"asking"} \cup Answers, key : Clients, now : Int]
<1>1. call \in [Callers -> Calls]
  BY DEF LimiterInvariant, Typed
<1>2. [pc |-> verdict, key |-> call[c].key, now |-> 0] \in Calls
  BY <1>1
<1> QED  BY <1>1, <1>2 DEF Answers

LEMMA FailStep ==
  ASSUME LimiterInvariant, NEW c \in Callers, UNCHANGED backend, Redis!Fail(c)
  PROVE  LimiterInvariant'
<1>1. /\ call' = [call EXCEPT ![c] = [pc |-> "idle", key |-> @.key, now |-> 0]]
      /\ UNCHANGED <<clock, buckets, taken, sent, excess>>
  BY DEF Redis!Fail, Redis!Return
<1>2. /\ call' \in [Callers -> [pc : {"asking"} \cup Answers, key : Clients, now : Int]]
      /\ \A d \in Callers : call'[d].pc = "asking" => call[d].pc = "asking" /\ call'[d].now = call[d].now
  BY <1>1, CallsReturn DEF Answers
<1>3. \A d \in Callers : call'[d].pc = "asking" => Timely(d, call'[d].now)
  BY <1>2 DEF LimiterInvariant, CallsTimely
<1> QED  BY <1>1, <1>2, <1>3, QuietStep DEF LimiterInvariant, Typed, SentTimely

LEMMA LoseStep == ASSUME LimiterInvariant, NEW m, Lose(m) PROVE LimiterInvariant'
<1>1. sent' \subseteq sent /\ UNCHANGED <<clock, backend, call, buckets, taken, excess>>
  BY DEF Lose, OfRedis, Redis!Lose
<1> QED  BY <1>1, QuietStep DEF LimiterInvariant, Typed, SentTimely, CallsTimely

LEMMA StutterStep == ASSUME LimiterInvariant, UNCHANGED vars PROVE LimiterInvariant'
BY QuietStep DEF LimiterInvariant, Typed, SentTimely, CallsTimely, vars

-----------------------------------------------------------------------------
(* Steps that take tokens                                                   *)

(* A token taken by a reading that is close enough to the present.          *)
LEMMA TokenTaken ==
  ASSUME LimiterInvariant, NEW k \in Clients,
         NEW t \in Int, Interval <= t, t <= Full, NEW read \in Int, NEW free \in Int,
         clock - Early <= read, read <= clock + Late,
         Covered(taken[k], t, read, free)
  PROVE  LET new == Append(taken[k], [at |-> clock, read |-> read, excess |-> free])
         IN  /\ new \in Logs
             /\ Covered(new, t - Interval, read, free)
             /\ ReadsWithin(new, Early, Late)
             /\ InLimit(new, Early + Late)
<1> DEFINE take == [at |-> clock, read |-> read, excess |-> free]
           new == Append(taken[k], take)
<1>1. taken[k] \in Logs /\ take \in Take /\ clock \in Int
  BY DEF LimiterInvariant, Typed, Take
<1>2. new \in Logs
  BY <1>1 DEF Logs
<1>3. Covered(new, t - Interval, read, free)
  <2>1. take.read = read /\ take.excess = free
    OBVIOUS
  <2> HIDE DEF take
  <2> QED  BY <1>1, <2>1, CoveredTake
<1>4. ReadsWithin(taken[k], Early, Late) /\ InLimit(taken[k], Early + Late)
  BY DEF LimiterInvariant, LogKept
<1>5. ReadsWithin(new, Early, Late)
  <2> SUFFICES ASSUME NEW i \in DOMAIN new
               PROVE  new[i].at - Early <= new[i].read /\ new[i].read <= new[i].at + Late
    BY DEF ReadsWithin
  <2>1. CASE i \in DOMAIN taken[k]
    BY <2>1, <1>1, <1>4 DEF ReadsWithin, Logs
  <2>2. CASE i = Len(taken[k]) + 1
    BY <2>2, <1>1 DEF Logs
  <2> QED  BY <2>1, <2>2, <1>1 DEF Logs
<1>6. InLimit(new, Early + Late)
  <2>1. take.read = read /\ take.excess = free
    OBVIOUS
  <2>2. t - Interval \in Int /\ t - Interval >= 0 /\ Early \in Int /\ Late \in Int /\ Early + Late >= 0
    BY Constants, Tolerances
  <2> HIDE DEF take
  <2> QED  BY <1>1, <1>3, <1>4, <1>5, <2>1, <2>2, LimitedTake
<1> QED  BY <1>2, <1>3, <1>5, <1>6

LEMMA RefilledBounds ==
  ASSUME NEW t \in 0 .. Full, NEW elapsed \in Nat
  PROVE  /\ Memory!Refilled(t, elapsed) = Redis!Refilled(t, elapsed)
         /\ Redis!Refilled(t, elapsed) \in 0 .. Full
         /\ Redis!Refilled(t, elapsed) <= t + elapsed
BY Constants, SameFull DEF Memory!Refilled, Redis!Refilled

(* A bucket that cleanup has dropped would have been full.                  *)
LEMMA MemoryKept ==
  ASSUME LimiterInvariant, backend = "memory", RefillCovered,
         NEW c \in Callers, call[c].pc = "asking", NEW k \in Clients
  PROVE  LET b == Memory!Cleaned(call[c].now)[k]
         IN  /\ b \in {Null} \cup BucketType
             /\ b # Null => Fresh(b)
             /\ b = Null => Covered(taken[k], Full, clock, 0)
             /\ b # Null => Covered(taken[k], b.tokens, b.last, 0)
             /\ Memory!Tokens(b) \in 0 .. Full
             /\ Covered(taken[k], Memory!Tokens(b), clock, 0)
<1> DEFINE now == call[c].now
           b == Memory!Cleaned(now)[k]
           old == buckets[k]
<1> USE DEF LimiterInvariant
<1>1. b = IF old # Null /\ now > old.keptUntil THEN Null ELSE old
  BY DEF Memory!Cleaned
<1>2. /\ old \in {Null} \cup BucketType /\ taken[k] \in Logs /\ excess[k] = 0
      /\ clock \in Nat /\ now \in Int
  BY DEF Typed, NothingFree
<1>3. clock - MaxWait <= now /\ now <= clock
  BY <1>2, Constants DEF CallsTimely, Timely, Ahead
<1>4. Early = 0 /\ Full \in Nat /\ MaxWait \in Nat /\ TTL \in Nat
  BY Constants DEF Early
<1>5. old # Null => old.tokens \in 0 .. Full /\ old.last \in Int /\ old.keptUntil \in Int
  BY <1>2 DEF BucketType
<1>6. old # Null => Fresh(old) /\ Covered(taken[k], old.tokens, old.last, 0)
  BY <1>2 DEF BucketsFresh, BucketCovered
<1>7. b # Null => b = old
  BY <1>1
<1>8. b = Null => Covered(taken[k], Full, clock, 0)
  <2>1. CASE old = Null
    BY <2>1, <1>2, <1>4 DEF BucketCovered
  <2>2. CASE old # Null /\ b = Null
    <3>1. now > old.keptUntil
      BY <2>2, <1>1
    <3>2. Full - clock <= old.tokens - old.last
      BY <3>1, <2>2, <1>2, <1>3, <1>4, <1>5, <1>6 DEF Fresh, RefillCovered
    <3>3. old.tokens \in Int /\ old.last \in Int /\ Full \in Int /\ clock \in Int
      BY <2>2, <1>2, <1>4, <1>5
    <3>4. Full - clock - 0 <= old.tokens - old.last - 0
      BY <3>2, <3>3
    <3>5. Covered(taken[k], old.tokens, old.last, 0)
      BY <2>2, <1>6
    <3> QED  BY <3>3, <3>4, <3>5, <1>2, CoveredLater
  <2> QED  BY <2>1, <2>2
<1>9. Memory!Tokens(b) \in 0 .. Full /\ Covered(taken[k], Memory!Tokens(b), clock, 0)
  <2>1. CASE b = Null
    <3>1. Memory!Tokens(b) = Full
      BY <2>1, SameFull DEF Memory!Tokens
    <3> QED  BY <3>1, <2>1, <1>4, <1>8
  <2>2. CASE b # Null
    <3> DEFINE t == Memory!Tokens(b)
    <3>1. b = old /\ old # Null /\ old.last <= clock
      BY <2>2, <1>7, <1>6 DEF Fresh
    <3>2. t = Memory!Refilled(old.tokens, clock - old.last) /\ clock - old.last \in Nat
      BY <3>1, <1>2, <1>5 DEF Memory!Tokens
    <3>3. t \in 0 .. Full /\ t <= old.tokens + (clock - old.last)
      BY <3>1, <3>2, <1>5, RefilledBounds
    <3> HIDE DEF t
    <3>4. t \in Int /\ t - clock - 0 <= old.tokens - old.last - 0 /\ old.tokens \in Int /\ old.last \in Int
      BY <3>1, <3>3, <1>2, <1>4, <1>5
    <3>5. Covered(taken[k], t, clock, 0)
      BY <3>1, <3>4, <1>2, <1>6, CoveredLater
    <3> QED  BY <3>3, <3>5 DEF t
  <2> QED  BY <2>1, <2>2
<1> HIDE DEF b
<1>10. /\ b \in {Null} \cup BucketType
       /\ b # Null => Fresh(b)
       /\ b # Null => Covered(taken[k], b.tokens, b.last, 0)
  BY <1>1, <1>2, <1>6, <1>7
<1> QED  BY <1>8, <1>9, <1>10 DEF b

LEMMA NewBucket == ASSUME NEW b \in BucketType PROVE b # Null
<1>1. Full \in Int
  BY Constants
<1>2. b \in [tokens : Int, last : Int, keptUntil : Int]
  BY <1>1 DEF BucketType
<1> QED  BY <1>2, NoBucketAssumption

(* The memory limiter: whatever becomes of the asked bucket, the others are *)
(* kept or dropped by cleanup.                                              *)
LEMMA MemoryUpdate ==
  ASSUME LimiterInvariant, backend = "memory", RefillCovered,
         NEW c \in Callers, call[c].pc = "asking",
         NEW verdict \in Answers, NEW bucket \in BucketType, NEW log \in Logs,
         UNCHANGED <<backend, clock, attempt, sent, excess>>,
         call' = [call EXCEPT ![c] = [pc |-> verdict, key |-> @.key, now |-> 0]],
         buckets' = [Memory!Cleaned(call[c].now) EXCEPT ![call[c].key] = bucket],
         taken' = [taken EXCEPT ![call[c].key] = log],
         Fresh(bucket), Covered(log, bucket.tokens, bucket.last, 0),
         ReadsWithin(log, Early, Late), InLimit(log, Early + Late)
  PROVE  LimiterInvariant'
<1> DEFINE k == call[c].key
           kept == Memory!Cleaned(call[c].now)
<1> USE DEF LimiterInvariant
<1>1. k \in Clients /\ kept = [j \in Clients |-> kept[j]]
  BY DEF Typed, Memory!Cleaned
<1>2. /\ buckets'[k] = bucket /\ taken'[k] = log
      /\ \A j \in Clients : j # k => buckets'[j] = kept[j] /\ taken'[j] = taken[j]
  BY <1>1 DEF Typed
<1>3. \A j \in Clients :
        /\ kept[j] \in {Null} \cup BucketType
        /\ kept[j] # Null => Fresh(kept[j])
        /\ kept[j] = Null => Covered(taken[j], Full, clock, 0)
        /\ kept[j] # Null => Covered(taken[j], kept[j].tokens, kept[j].last, 0)
  BY MemoryKept
<1>4. bucket # Null
  BY NewBucket
<1>5. buckets' \in [Clients -> {Null} \cup BucketType]
  BY <1>1, <1>2, <1>3
<1>6. taken' \in [Clients -> Logs]
  BY <1>1, <1>2 DEF Typed
<1>7. /\ call' \in [Callers -> [pc : {"asking"} \cup Answers, key : Clients, now : Int]]
      /\ \A d \in Callers : call'[d].pc = "asking" => call[d].pc = "asking" /\ call'[d].now = call[d].now
  BY CallsReturn
<1>8. Typed'
  BY <1>5, <1>6, <1>7 DEF Typed
<1>9. CallsTimely' /\ SentTimely' /\ NothingFree'
  BY <1>7 DEF CallsTimely, SentTimely, Timely, Ahead, NothingFree
<1>10. BucketsFresh'
  <2> SUFFICES ASSUME NEW j \in Clients, buckets'[j] # Null
               PROVE  Fresh(buckets[j])'
    BY DEF BucketsFresh
  <2>1. Fresh(buckets'[j])
    BY <1>2, <1>3
  <2> QED  BY <2>1 DEF Fresh
<1>11. ASSUME NEW j \in Clients PROVE BucketCovered(j)' /\ LogKept(j)'
  <2>1. Early = 0 /\ Late = 0 /\ Early' = 0 /\ Late' = 0 /\ excess[j] = 0 /\ excess' = excess
        /\ clock \in Nat /\ clock' = clock
    BY DEF Early, Late, NothingFree, Typed
  <2>2. CASE j = k
    BY <2>1, <2>2, <1>2, <1>4 DEF BucketCovered, LogKept
  <2>3. CASE j # k
    <3>1. clock - 0 = clock /\ LogKept(j)
      BY <2>1
    <3> QED  BY <3>1, <2>1, <2>3, <1>2, <1>3 DEF BucketCovered, LogKept
  <2> QED  BY <2>2, <2>3
<1> QED  BY <1>8, <1>9, <1>10, <1>11

LEMMA MemoryServeStep ==
  ASSUME LimiterInvariant, RefillCovered, NEW c \in Callers, OfMemory(Memory!Serve(c))
  PROVE  LimiterInvariant'
<1> DEFINE k == call[c].key
           now == call[c].now
           kept == Memory!Cleaned(now)
           tokens == Memory!Tokens(kept[k])
<1>1. backend = "memory" /\ UNCHANGED <<backend, attempt, sent, excess>>
  BY DEF OfMemory
<1>2. call[c].pc = "asking" /\ UNCHANGED clock
  BY DEF OfMemory, Memory!Serve, Memory!Allow, Memory!Deny
<1>3. /\ k \in Clients /\ now \in Int /\ clock \in Nat /\ taken[k] \in Logs /\ excess[k] = 0
      /\ Timely(c, now) /\ taken \in [Clients -> Logs]
  BY <1>1, <1>2 DEF LimiterInvariant, Typed, CallsTimely, NothingFree
<1>4. now <= clock /\ clock <= now + MaxWait
  BY <1>1, <1>3, Constants DEF Timely, Ahead
<1>5. /\ kept[k] \in {Null} \cup BucketType
      /\ kept[k] # Null => Fresh(kept[k]) /\ Covered(taken[k], kept[k].tokens, kept[k].last, 0)
      /\ tokens \in 0 .. Full /\ Covered(taken[k], tokens, clock, 0)
  BY <1>1, <1>2, <1>3, MemoryKept
<1>6. Early = 0 /\ Late = 0
  BY <1>1 DEF Early, Late
<1> HIDE DEF tokens
<1>7. CASE Memory!Allow(c)
  <2> DEFINE bucket == [tokens |-> tokens - Interval, last |-> clock, keptUntil |-> now + TTL]
             log == Append(taken[k], [at |-> clock, read |-> clock, excess |-> 0])
  <2>1. /\ tokens >= Interval
        /\ buckets' = [kept EXCEPT ![k] = bucket]
        /\ taken' = [taken EXCEPT ![k] = log]
        /\ call' = [call EXCEPT ![c] = [pc |-> "allowed", key |-> @.key, now |-> 0]]
    BY <1>7, <1>3 DEF Memory!Allow, Memory!Used, Memory!Record, Memory!Return, Memory!Cleaned, tokens
  <2>2. tokens \in Int /\ tokens <= Full /\ clock - Early <= clock /\ clock <= clock + Late
    BY <1>3, <1>5, <1>6, Constants
  <2>3. /\ log \in Logs /\ Covered(log, tokens - Interval, clock, 0)
        /\ ReadsWithin(log, Early, Late) /\ InLimit(log, Early + Late)
    BY <1>3, <1>5, <2>1, <2>2, TokenTaken
  <2>4. bucket \in BucketType
    BY <1>3, <1>5, <2>1, Constants DEF BucketType
  <2>5. Fresh(bucket)
    BY <1>1, <1>3, <1>4, Constants DEF Fresh
  <2>6. Covered(log, bucket.tokens, bucket.last, 0)
    BY <2>3
  <2> HIDE DEF bucket, log
  <2> QED  BY <1>1, <1>2, <2>1, <2>3, <2>4, <2>5, <2>6, MemoryUpdate DEF Answers
<1>8. CASE Memory!Deny(c)
  <2> DEFINE bucket == [kept[k] EXCEPT !.keptUntil = now + TTL]
  <2>1. /\ tokens < Interval
        /\ buckets' = [kept EXCEPT ![k] = bucket]
        /\ taken' = taken
        /\ call' = [call EXCEPT ![c] = [pc |-> "denied", key |-> @.key, now |-> 0]]
    BY <1>8, <1>3 DEF Memory!Deny, Memory!Return, Memory!Cleaned, tokens
  <2>2. kept[k] # Null
    BY <2>1, SameFull, Constants DEF Memory!Tokens, tokens
  <2>3. kept[k] \in BucketType
    BY <1>5, <2>2
  <2>4. /\ bucket \in BucketType /\ bucket.tokens = kept[k].tokens /\ bucket.last = kept[k].last
        /\ bucket.keptUntil = now + TTL
    BY <2>3, <1>3, Constants DEF BucketType
  <2>5. kept[k].last <= clock /\ kept[k].last \in Int
    BY <1>1, <1>5, <2>2, <2>3 DEF Fresh, BucketType
  <2> HIDE DEF bucket
  <2>6. Fresh(bucket)
    BY <1>1, <1>3, <1>4, <2>4, <2>5, Constants DEF Fresh
  <2>7. Covered(taken[k], bucket.tokens, bucket.last, 0)
    BY <1>5, <2>2, <2>4
  <2>8. ReadsWithin(taken[k], Early, Late) /\ InLimit(taken[k], Early + Late)
    BY <1>3 DEF LimiterInvariant, LogKept
  <2>9. taken' = [taken EXCEPT ![k] = taken[k]]
    BY <2>1, <1>3
  <2> QED  BY <1>1, <1>2, <1>3, <2>1, <2>4, <2>6, <2>7, <2>8, <2>9, MemoryUpdate DEF Answers
<1> QED  BY <1>7, <1>8 DEF OfMemory, Memory!Serve

(* What a script finds: an expired bucket would have been full, but for the *)
(* disorder of the readings.                                                *)
LEMMA RedisFinds ==
  ASSUME LimiterInvariant, backend = "redis", NEW m \in sent, NEW k \in Clients
  PROVE  LET tokens == Redis!Tokens(Redis!Bucket(k), m.now)
             free == Redis!Excess(k, m.now)
         IN  /\ tokens \in 0 .. Full /\ free \in Nat
             /\ Covered(taken[k], tokens, m.now, free)
<1> DEFINE now == m.now
           old == buckets[k]
           found == Redis!Bucket(k)
           tokens == Redis!Tokens(found, now)
           free == Redis!Excess(k, now)
           disorder == MaxWait + MaxSkew
<1> USE DEF LimiterInvariant
<1>1. /\ old \in {Null} \cup BucketType /\ taken[k] \in Logs /\ excess[k] \in Nat
      /\ clock \in Nat /\ now \in Int /\ m.caller \in Callers
  BY DEF Typed
<1>2. clock - MaxWait <= now /\ now <= clock + MaxSkew
  <2>1. Timely(m.caller, now) /\ Ahead(m.caller) = Skew[m.caller] /\ Skew[m.caller] \in 0 .. MaxSkew
    BY <1>1, RedisAssumption DEF SentTimely, Ahead
  <2> QED  BY <2>1, <1>1, Constants DEF Timely
<1>3. /\ Early = MaxWait /\ Full \in Nat /\ MaxWait \in Nat /\ MaxSkew \in Nat
      /\ Redis!StateTTL \in Nat /\ Redis!StateTTL >= Full
  BY Constants, StateTTLCovers DEF Early
<1>4. old # Null => old.tokens \in 0 .. Full /\ old.last \in Int /\ old.keptUntil \in Int
  BY <1>1 DEF BucketType
<1>5. old # Null => /\ Covered(taken[k], old.tokens, old.last, excess[k])
                    /\ old.keptUntil <= clock + Redis!StateTTL
                    /\ old.last + Redis!StateTTL <= old.keptUntil + MaxSkew
  BY DEF BucketsFresh, BucketCovered, Fresh
<1>6. found = IF old # Null /\ clock >= old.keptUntil THEN Null ELSE old
  BY DEF Redis!Bucket
<1>7. free = IF old # Null /\ (found = Null \/ now < old.last)
               THEN excess[k] + disorder ELSE excess[k]
  BY SameFull DEF Redis!Excess
<1>8. found = Null => tokens = Full
  BY SameFull DEF Redis!Tokens
<1>9. found # Null =>
        /\ found = old
        /\ tokens = Redis!Refilled(old.tokens, IF now > old.last THEN now - old.last ELSE 0)
  BY <1>6 DEF Redis!Tokens, Redis!Elapsed
<1>10. free \in Nat
  BY <1>1, <1>3, <1>7
<1> HIDE DEF now, found, tokens, free
<1>11. CASE old = Null
  <2>1. found = Null /\ tokens = Full /\ free = excess[k]
    BY <1>11, <1>6, <1>7, <1>8
  <2>2. Covered(taken[k], Full, clock - MaxWait, excess[k])
    BY <1>11, <1>3 DEF BucketCovered
  <2>3. /\ Full \in Int /\ clock - MaxWait \in Int /\ excess[k] \in Int
        /\ Full - now - excess[k] <= Full - (clock - MaxWait) - excess[k]
    BY <1>1, <1>2, <1>3
  <2>4. Covered(taken[k], Full, now, excess[k])
    BY <2>2, <2>3, <1>1, CoveredLater
  <2> QED  BY <2>1, <2>4, <1>3, <1>10 DEF now, found, tokens, free
<1>12. CASE old # Null /\ found = Null
  <2>1. tokens = Full /\ free = excess[k] + disorder /\ clock >= old.keptUntil
    BY <1>12, <1>6, <1>7, <1>8
  <2>2. Full - now - free <= old.tokens - old.last - excess[k]
    BY <1>1, <1>2, <1>3, <1>4, <1>5, <1>12, <2>1
  <2>3. Covered(taken[k], old.tokens, old.last, excess[k])
    BY <1>12, <1>5
  <2>4. Full \in Int /\ old.tokens \in Int /\ old.last \in Int /\ excess[k] \in Int /\ free \in Int
    BY <1>1, <1>3, <1>4, <1>10, <1>12
  <2>5. Covered(taken[k], Full, now, free)
    BY <2>2, <2>3, <2>4, <1>1, CoveredLater
  <2> QED  BY <2>1, <2>5, <1>3, <1>10 DEF now, found, tokens, free
<1>13. CASE found # Null
  <2> DEFINE elapsed == IF now > old.last THEN now - old.last ELSE 0
  <2>1. found = old /\ old # Null /\ elapsed \in Nat
    BY <1>13, <1>9, <1>1, <1>4
  <2>2. tokens = Redis!Refilled(old.tokens, elapsed) /\ tokens \in 0 .. Full /\ tokens <= old.tokens + elapsed
    BY <2>1, <1>9, <1>13, <1>4, RefilledBounds
  <2>3. free = IF now < old.last THEN excess[k] + disorder ELSE excess[k]
    BY <1>13, <1>7, <2>1
  <2>4. old.last - disorder <= now
    BY <1>1, <1>2, <1>3, <1>4, <1>5, <2>1
  <2>5. tokens - now - free <= old.tokens - old.last - excess[k]
    BY <1>1, <1>3, <1>4, <1>10, <2>1, <2>2, <2>3, <2>4
  <2>6. tokens \in Int /\ old.tokens \in Int /\ old.last \in Int /\ excess[k] \in Int /\ free \in Int
    BY <1>1, <1>3, <1>4, <1>10, <2>1, <2>2
  <2>7. Covered(taken[k], old.tokens, old.last, excess[k])
    BY <2>1, <1>5
  <2>8. Covered(taken[k], tokens, now, free)
    BY <2>5, <2>6, <2>7, <1>1, CoveredLater
  <2> QED  BY <2>2, <2>8, <1>10 DEF now, found, tokens, free
<1> QED  BY <1>11, <1>12, <1>13

(* The bucket that a script leaves behind.                                  *)
LEMMA RedisUpdate ==
  ASSUME LimiterInvariant, backend = "redis", NEW m \in sent, NEW k \in Clients,
         NEW tokens \in 0 .. Full, NEW free \in Nat, NEW log \in Logs,
         NEW verdict \in Answers,
         UNCHANGED <<backend, clock>>, sent' = sent \ {m},
         \/ UNCHANGED call
         \/ call' = [call EXCEPT ![m.caller] = [pc |-> verdict, key |-> @.key, now |-> 0]],
         buckets' = [buckets EXCEPT ![k] = Redis!Kept(tokens, m.now)],
         taken' = [taken EXCEPT ![k] = log],
         excess' = [excess EXCEPT ![k] = free],
         Covered(log, tokens, m.now, free),
         ReadsWithin(log, Early, Late), InLimit(log, Early + Late)
  PROVE  LimiterInvariant'
<1> DEFINE bucket == Redis!Kept(tokens, m.now)
<1> USE DEF LimiterInvariant
<1>1. m.caller \in Callers /\ m.now \in Int /\ clock \in Nat
  BY DEF Typed
<1>2. bucket = [tokens |-> tokens, last |-> m.now, keptUntil |-> clock + Redis!StateTTL]
  BY DEF Redis!Kept, Redis!StateTTL, Redis!Full
<1>3. bucket \in BucketType /\ bucket # Null
  <2>1. bucket \in BucketType
    BY <1>1, <1>2, StateTTLCovers DEF BucketType
  <2> QED  BY <2>1, NewBucket
<1>4. m.now <= clock + MaxSkew
  <2>1. Timely(m.caller, m.now) /\ Ahead(m.caller) = Skew[m.caller] /\ Skew[m.caller] \in 0 .. MaxSkew
    BY <1>1, RedisAssumption DEF SentTimely, Ahead
  <2> QED  BY <2>1, <1>1, Constants DEF Timely
<1>5. Fresh(bucket)
  <2>1. bucket.keptUntil = clock + Redis!StateTTL /\ bucket.last = m.now
    BY <1>2
  <2> QED  BY <2>1, <1>1, <1>4, StateTTLCovers, Constants DEF Fresh
<1>6. bucket.tokens = tokens /\ bucket.last = m.now
  BY <1>2
<1> HIDE DEF bucket
<1>7. /\ buckets'[k] = bucket /\ taken'[k] = log /\ excess'[k] = free
      /\ \A j \in Clients : j # k => /\ buckets'[j] = buckets[j] /\ taken'[j] = taken[j]
                                     /\ excess'[j] = excess[j]
  BY DEF Typed, bucket
<1>8. /\ call' \in [Callers -> [pc : {"asking"} \cup Answers, key : Clients, now : Int]]
      /\ \A d \in Callers : call'[d].pc = "asking" => call[d].pc = "asking" /\ call'[d].now = call[d].now
  BY <1>1, CallsReturn DEF Typed
<1>9. Typed'
  <2>1. buckets' \in [Clients -> {Null} \cup BucketType]
    BY <1>3 DEF Typed, bucket
  <2> QED  BY <2>1, <1>8 DEF Typed
<1>10. CallsTimely' /\ SentTimely' /\ NothingFree'
  BY <1>8 DEF CallsTimely, SentTimely, Timely, Ahead, NothingFree
<1>11. BucketsFresh'
  <2> SUFFICES ASSUME NEW j \in Clients, buckets'[j] # Null
               PROVE  Fresh(buckets[j])'
    BY DEF BucketsFresh
  <2>1. Fresh(buckets'[j])
    BY <1>5, <1>7 DEF BucketsFresh
  <2> QED  BY <2>1 DEF Fresh, Redis!StateTTL, Redis!Full
<1>12. ASSUME NEW j \in Clients PROVE BucketCovered(j)' /\ LogKept(j)'
  <2>1. Early' = Early /\ Late' = Late /\ clock' = clock
    BY DEF Early, Late
  <2>2. CASE j = k
    BY <2>1, <2>2, <1>3, <1>6, <1>7 DEF BucketCovered, LogKept
  <2>3. CASE j # k
    <3>1. BucketCovered(j) /\ LogKept(j)
      OBVIOUS
    <3> QED  BY <3>1, <2>1, <2>3, <1>7 DEF BucketCovered, LogKept
  <2> QED  BY <2>2, <2>3
<1> QED  BY <1>9, <1>10, <1>11, <1>12

LEMMA RunStep ==
  ASSUME LimiterInvariant, backend = "redis", UNCHANGED backend, NEW m \in sent, Redis!Run(m)
  PROVE  LimiterInvariant'
<1> DEFINE k == call[m.caller].key
           tokens == Redis!Tokens(Redis!Bucket(k), m.now)
           free == Redis!Excess(k, m.now)
<1>1. /\ k \in Clients /\ m.now \in Int /\ clock \in Nat /\ m.caller \in Callers
      /\ taken \in [Clients -> Logs]
  BY DEF LimiterInvariant, Typed
<1>2. tokens \in 0 .. Full /\ free \in Nat /\ Covered(taken[k], tokens, m.now, free)
  BY <1>1, RedisFinds
<1>3. /\ UNCHANGED clock /\ sent' = sent \ {m}
      /\ excess' = [excess EXCEPT ![k] = free]
  BY DEF Redis!Run
<1>4. clock - Early <= m.now /\ m.now <= clock + Late
  <2>1. Timely(m.caller, m.now) /\ Ahead(m.caller) \in 0 .. Late /\ Early = MaxWait
    BY <1>1, Tolerances DEF LimiterInvariant, SentTimely, Early
  <2> QED  BY <2>1, <1>1, Constants, Tolerances DEF Timely
<1> HIDE DEF tokens, free
<1>5. CASE /\ tokens >= Interval
           /\ buckets' = [buckets EXCEPT ![k] = Redis!Kept(tokens - Interval, m.now)]
           /\ Redis!Record(k, [at |-> clock, read |-> m.now, excess |-> free])
           /\ Redis!Answer(m, "allowed")
  <2> DEFINE log == Append(taken[k], [at |-> clock, read |-> m.now, excess |-> free])
  <2>1. /\ log \in Logs /\ Covered(log, tokens - Interval, m.now, free)
        /\ ReadsWithin(log, Early, Late) /\ InLimit(log, Early + Late)
    BY <1>1, <1>2, <1>4, <1>5, Constants, TokenTaken
  <2>2. tokens - Interval \in 0 .. Full
    BY <1>2, <1>5, Constants
  <2>3. taken' = [taken EXCEPT ![k] = log]
    BY <1>1, <1>5 DEF Redis!Record
  <2>4. \/ UNCHANGED call
        \/ call' = [call EXCEPT ![m.caller] = [pc |-> "allowed", key |-> @.key, now |-> 0]]
    BY <1>5 DEF Redis!Answer, Redis!Return
  <2> HIDE DEF log
  <2> QED  BY <1>1, <1>2, <1>3, <1>5, <2>1, <2>2, <2>3, <2>4, RedisUpdate DEF Answers
<1>6. CASE /\ tokens < Interval
           /\ buckets' = [buckets EXCEPT ![k] = Redis!Kept(tokens, m.now)]
           /\ Redis!Answer(m, "denied")
           /\ UNCHANGED taken
  <2>1. taken' = [taken EXCEPT ![k] = taken[k]] /\ taken[k] \in Logs
    BY <1>1, <1>6
  <2>2. ReadsWithin(taken[k], Early, Late) /\ InLimit(taken[k], Early + Late)
    BY <1>1 DEF LimiterInvariant, LogKept
  <2>3. \/ UNCHANGED call
        \/ call' = [call EXCEPT ![m.caller] = [pc |-> "denied", key |-> @.key, now |-> 0]]
    BY <1>6 DEF Redis!Answer, Redis!Return
  <2> QED  BY <1>1, <1>2, <1>3, <1>6, <2>1, <2>2, <2>3, RedisUpdate DEF Answers
<1> QED  BY <1>5, <1>6 DEF Redis!Run, tokens, free

LEMMA RestartStep == ASSUME LimiterInvariant, Restart PROVE LimiterInvariant'
<1> USE DEF LimiterInvariant
<1>1. /\ backend = "redis" /\ backend' = "redis"
      /\ UNCHANGED <<clock, call, taken, attempt, sent>>
      /\ buckets' = [k \in Clients |-> Null]
      /\ excess' = [k \in Clients |-> excess[k] + Full + (MaxWait + MaxSkew)]
  BY SameFull DEF Restart, OfRedis, Redis!Restart
<1>2. Typed'
  BY <1>1, Constants DEF Typed
<1>3. CallsTimely' /\ SentTimely' /\ NothingFree' /\ BucketsFresh'
  BY <1>1 DEF CallsTimely, SentTimely, Timely, Ahead, NothingFree, BucketsFresh
<1>4. ASSUME NEW k \in Clients PROVE BucketCovered(k)' /\ LogKept(k)'
  <2> DEFINE free == excess[k] + Full + (MaxWait + MaxSkew)
             old == buckets[k]
  <2>1. /\ taken[k] \in Logs /\ excess[k] \in Nat /\ clock \in Nat /\ old \in {Null} \cup BucketType
        /\ Full \in Nat /\ MaxWait \in Nat /\ MaxSkew \in Nat /\ Redis!StateTTL \in Nat
    BY Constants, StateTTLCovers DEF Typed
  <2>2. Early = MaxWait /\ Early' = MaxWait /\ Late' = Late
    BY <1>1 DEF Early, Late
  <2>3. CASE old = Null
    <3>1. Covered(taken[k], Full, clock - MaxWait, excess[k])
      BY <2>2, <2>3 DEF BucketCovered
    <3>2. /\ Full \in Int /\ clock - MaxWait \in Int /\ excess[k] \in Int /\ free \in Int
          /\ Full - (clock - MaxWait) - free <= Full - (clock - MaxWait) - excess[k]
      BY <2>1
    <3> QED  BY <3>1, <3>2, <2>1, <2>2, <1>1, CoveredLater DEF BucketCovered, LogKept
  <2>4. CASE old # Null
    <3>1. /\ old.tokens \in 0 .. Full /\ old.last \in Int /\ old.keptUntil \in Int
          /\ old.keptUntil <= clock + Redis!StateTTL
          /\ old.last + Redis!StateTTL <= old.keptUntil + MaxSkew
          /\ Covered(taken[k], old.tokens, old.last, excess[k])
      BY <2>1, <2>4, <1>1 DEF BucketsFresh, BucketCovered, Fresh, BucketType
    <3>2. /\ Full \in Int /\ clock - MaxWait \in Int /\ excess[k] \in Int /\ free \in Int
          /\ old.tokens \in Int
          /\ Full - (clock - MaxWait) - free <= old.tokens - old.last - excess[k]
      BY <2>1, <3>1
    <3>3. Covered(taken[k], Full, clock - MaxWait, free)
      BY <3>1, <3>2, <2>1, CoveredLater
    <3> QED  BY <3>3, <2>2, <1>1 DEF BucketCovered, LogKept
  <2> QED  BY <2>3, <2>4
<1> QED  BY <1>2, <1>3, <1>4

LEMMA LimiterStep ==
  ASSUME LimiterInvariant, [Next]_vars, "memory" \in Backends => RefillCovered
  PROVE  LimiterInvariant'
<1>1. CASE Tick
  BY <1>1, TickStep
<1>2. CASE Restart
  BY <1>2, RestartStep
<1>3. ASSUME NEW c \in Callers, Serve(c) PROVE LimiterInvariant'
  <2>1. CASE OfMemory(Memory!Serve(c))
    <3>1. RefillCovered
      BY <2>1 DEF OfMemory, LimiterInvariant, Typed
    <3> QED  BY <2>1, <3>1, MemoryServeStep
  <2>2. CASE OfRedis(Redis!Serve(c))
    <3>1. backend = "redis" /\ UNCHANGED backend
      BY <2>2 DEF OfRedis
    <3>2. CASE Redis!Resend(c)
      BY <3>1, <3>2, ResendStep
    <3>3. CASE Redis!Fail(c)
      BY <3>1, <3>3, FailStep
    <3>4. ASSUME NEW m \in sent, Redis!Run(m) PROVE LimiterInvariant'
      BY <3>1, <3>4, RunStep
    <3> QED  BY <2>2, <3>2, <3>3, <3>4 DEF OfRedis, Redis!Serve
  <2> QED  BY <1>3, <2>1, <2>2 DEF Serve
<1>4. ASSUME NEW c \in Callers, NEW k \in Clients, Arrive(c, k) PROVE LimiterInvariant'
  BY <1>4, ArriveStep
<1>5. ASSUME NEW m \in Redis!Script, Lose(m) PROVE LimiterInvariant'
  BY <1>5, LoseStep
<1>6. CASE UNCHANGED vars
  BY <1>6, StutterStep
<1> QED  BY <1>1, <1>2, <1>3, <1>4, <1>5, <1>6 DEF Next

(* No client gets more than burst and rate allow, in any span of time: with *)
(* Redis whatever the configuration, up to the disorder of the readings;    *)
(* with the memory limiter exactly, if its ten minutes cover a refill       *)
(* (internal/ratelimit/memory.go:34-71, redis.go:12-43, 68-77).             *)
THEOREM LimitersKeepTheLimit ==
  ASSUME "memory" \in Backends => RefillCovered
  PROVE  Spec => []RateLimited
<1>1. LimiterInvariant /\ [Next]_vars => LimiterInvariant'
  BY LimiterStep
<1> QED  BY <1>1, LimiterInit, InvariantLimits, PTL DEF Spec
=============================================================================
