---------------------------- MODULE AnswerProofs ----------------------------
(***************************************************************************)
(* What the limiters answer: their types, that they deny only who has      *)
(* spent everything, and that the memory limiter is one token bucket per   *)
(* client.  LimiterProofs bounds a client's tokens from above; here they   *)
(* are bounded from below, too.                                            *)
(***************************************************************************)
EXTENDS LimiterProofs, SequenceTheorems

(* The time that passes from a reading to a later one.                      *)
Since(t, read) == IF t > read THEN t - read ELSE 0

(* tokens at last are all that is not spent: the bucket is full, or since   *)
(* one token of the log everything was earned and taken, and none lost.     *)
Earned(log, tokens, last) ==
  \/ tokens = Full
  \/ \E i \in DOMAIN log :
       (Len(log) - i + 1) * Interval + tokens >= Full + Since(last, log[i].read)

LEMMA EarnedLater ==
  ASSUME NEW log \in Logs, NEW t \in 0 .. Full, NEW l \in Int, Earned(log, t, l),
         NEW now \in Int, NEW t2 \in Int,
         t2 = IF t + Since(now, l) > Full THEN Full ELSE t + Since(now, l)
  PROVE  Earned(log, t2, now)
<1>1. CASE t2 = Full
  BY <1>1 DEF Earned
<1>2. CASE t2 # Full
  <2>1. t2 = t + Since(now, l) /\ t # Full /\ Since(now, l) \in Nat
    BY <1>2, Constants DEF Since
  <2>2. PICK i \in DOMAIN log :
          (Len(log) - i + 1) * Interval + t >= Full + Since(l, log[i].read)
    BY <2>1 DEF Earned
  <2> DEFINE cost == (Len(log) - i + 1) * Interval
  <2>3. log[i].read \in Int /\ cost \in Int
    <3>1. log[i] \in Take /\ Len(log) - i + 1 \in Int
      BY DEF Logs
    <3> QED  BY <3>1, Constants DEF Take
  <2>4. cost + t >= Full + Since(l, log[i].read)
    BY <2>2
  <2> HIDE DEF cost
  <2>5. cost + t2 >= Full + Since(now, log[i].read)
    BY <2>1, <2>3, <2>4, Constants DEF Since
  <2> QED  BY <2>5 DEF Earned, cost
<1> QED  BY <1>1, <1>2

LEMMA EarnedTake ==
  ASSUME NEW log \in Logs, NEW take \in Take, NEW t \in 0 .. Full, Earned(log, t, take.read)
  PROVE  Earned(Append(log, take), t - Interval, take.read)
<1> DEFINE new == Append(log, take)
<1>1. Len(new) = Len(log) + 1 /\ Len(log) \in Nat /\ take.read \in Int
  BY DEF Logs, Take
<1>2. CASE t = Full
  <2>1. Len(new) \in DOMAIN new /\ new[Len(new)] = take
    BY <1>1 DEF Logs
  <2>2. (Len(new) - Len(new) + 1) * Interval = Interval
    BY <1>1, Constants
  <2>3. Since(take.read, take.read) = 0
    BY <1>1 DEF Since
  <2> HIDE DEF new
  <2>4. Interval + (t - Interval) >= Full + 0
    BY <1>2, Constants
  <2> QED  BY <2>1, <2>2, <2>3, <2>4 DEF Earned, new
<1>3. CASE t # Full
  <2>1. PICK i \in DOMAIN log :
          (Len(log) - i + 1) * Interval + t >= Full + Since(take.read, log[i].read)
    BY <1>3 DEF Earned
  <2> DEFINE n == Len(log) - i + 1
             cost == n * Interval
  <2>2. i \in DOMAIN new /\ new[i] = log[i] /\ log[i].read \in Int /\ i \in Int
    <3>1. log[i] \in Take /\ i \in DOMAIN new /\ new[i] = log[i] /\ i \in Int
      BY DEF Logs
    <3> QED  BY <3>1 DEF Take
  <2>3. n \in Int /\ Len(new) - i + 1 = n + 1
    BY <1>1, <2>2
  <2>4. (n + 1) * Interval = cost + Interval /\ cost \in Int
    BY <2>3, OneMore
  <2>5. cost + t >= Full + Since(take.read, log[i].read)
    BY <2>1
  <2>6. Since(take.read, log[i].read) \in Int
    BY <1>1, <2>2 DEF Since
  <2> HIDE DEF cost
  <2>7. (cost + Interval) + (t - Interval) >= Full + Since(take.read, log[i].read)
    BY <2>4, <2>5, <2>6, Constants
  <2> HIDE DEF new, n
  <2> QED  BY <2>2, <2>3, <2>4, <2>7 DEF Earned, new
<1> QED  BY <1>2, <1>3

LEMMA EarnedSpent ==
  ASSUME NEW log \in Logs, NEW t \in 0 .. Full, t < Interval, NEW l \in Int, Earned(log, t, l)
  PROVE  \E i \in DOMAIN log :
           (Len(log) - i + 2) * Interval > Full + Since(l, log[i].read)
<1>1. t # Full
  BY Constants
<1>2. PICK i \in DOMAIN log :
        (Len(log) - i + 1) * Interval + t >= Full + Since(l, log[i].read)
  BY <1>1 DEF Earned
<1> DEFINE n == Len(log) - i + 1
           cost == n * Interval
<1>3. n \in Int /\ Len(log) - i + 2 = n + 1 /\ log[i].read \in Int
  <2>1. log[i] \in Take /\ i \in Int /\ Len(log) \in Int
    BY DEF Logs
  <2> QED  BY <2>1 DEF Take
<1>4. (n + 1) * Interval = cost + Interval /\ cost \in Int
  BY <1>3, OneMore
<1>5. cost + t >= Full + Since(l, log[i].read) /\ Since(l, log[i].read) \in Int
  BY <1>2, <1>3 DEF Since
<1> HIDE DEF cost
<1>6. cost + Interval > Full + Since(l, log[i].read)
  BY <1>4, <1>5, Constants
<1>7. (Len(log) - i + 2) * Interval > Full + Since(l, log[i].read)
  <2> HIDE DEF n
  <2> QED  BY <1>3, <1>4, <1>6
<1> QED  BY <1>7

-----------------------------------------------------------------------------
(* The invariant                                                            *)

(* The last readings that calls and scripts can carry.                      *)
LastTick == IF backend = "memory" THEN MaxClock ELSE RedisClock
LastReading == IF backend = "memory" THEN MaxClock ELSE RedisClock + MaxSkew

Calls == [pc : {"asking"} \cup Answers, key : Clients, now : 0 .. LastReading]

KeptBucket == [tokens : 0 .. Full, last : 0 .. LastReading, keptUntil : Nat]

(* A script that can still be answered is one of its caller's call.         *)
SentForCall ==
  \A m \in sent :
    call[m.caller].pc = "asking" => m.attempt <= attempt[m.caller] /\ m.now = call[m.caller].now

LimiterTypes ==
  /\ backend \in Backends
  /\ clock \in 0 .. LastTick
  /\ call \in [Callers -> Calls]
  /\ buckets \in [Clients -> {Null} \cup KeptBucket]
  /\ taken \in [Clients -> Logs]
  /\ attempt \in [Callers -> 0 .. MaxAttempts]
  /\ sent \subseteq Redis!Script
  /\ SentForCall /\ (backend = "memory" => sent = {})
  /\ excess \in [Clients -> Nat]

(* What the memory limiter reads, nothing has been read after.              *)
ReadInOrder ==
  backend = "memory" => \A k \in Clients : buckets[k] # Null => buckets[k].last <= clock

NothingLost ==
  \A k \in Clients : buckets[k] # Null => Earned(taken[k], buckets[k].tokens, buckets[k].last)

(* Nor has the memory limiter given time for nothing.                       *)
NothingGiven ==
  backend = "memory" => \A k \in Clients : \A i \in DOMAIN taken[k] : taken[k][i].excess = 0

AnswerInvariant == LimiterTypes /\ ReadInOrder /\ NothingLost /\ NothingGiven

LEMMA AnswerInit == Init => AnswerInvariant
<1> SUFFICES ASSUME Init PROVE AnswerInvariant
  OBVIOUS
<1> USE DEF Init, Redis!Init, Redis!RateInit
<1>1. LastTick \in Nat /\ LastReading \in Nat
  BY RateAssumption, RedisAssumption DEF LastTick, LastReading
<1>2. call \in [Callers -> Calls]
  BY <1>1, RateAssumption DEF Calls, Answers
<1>3. LimiterTypes
  BY <1>1, <1>2, RedisAssumption DEF LimiterTypes, SentForCall, Logs
<1>4. ReadInOrder /\ NothingLost /\ NothingGiven
  BY DEF ReadInOrder, NothingLost, NothingGiven
<1> QED  BY <1>3, <1>4 DEF AnswerInvariant

LEMMA Horizons ==
  /\ LastTick \in 0 .. MaxClock /\ LastReading \in 0 .. MaxClock + MaxSkew
  /\ LastTick <= LastReading
  /\ backend = "redis" => LastReading = RedisClock + MaxSkew /\ LastTick = RedisClock
  /\ backend = "memory" => LastTick = MaxClock
BY RateAssumption, RedisAssumption DEF LastTick, LastReading

LEMMA TypesFollow == LimiterTypes => TypeOK
<1> SUFFICES ASSUME LimiterTypes PROVE TypeOK
  OBVIOUS
<1> USE DEF LimiterTypes
<1>1. clock \in 0 .. MaxClock
  BY Horizons, RateAssumption
<1>2. call \in [Callers -> [pc : {"asking"} \cup Answers, key : Clients, now : 0 .. MaxClock + MaxSkew]]
  <2>1. \A n \in 0 .. LastReading : n \in 0 .. MaxClock + MaxSkew
    BY Horizons, RateAssumption, RedisAssumption
  <2> QED  BY <2>1 DEF Calls
<1>3. ASSUME NEW k \in Clients
      PROVE  /\ buckets[k] # Null =>
                  /\ buckets[k].tokens \in 0 .. Full
                  /\ buckets[k].last \in 0 .. MaxClock + MaxSkew
                  /\ buckets[k].keptUntil \in Nat
             /\ \A i \in DOMAIN taken[k] : taken[k][i] \in Take
  <2>1. buckets[k] # Null => buckets[k] \in KeptBucket
    OBVIOUS
  <2>2. taken[k] \in Seq(Take)
    BY DEF Logs
  <2> QED  BY <2>1, <2>2, Horizons, RateAssumption, RedisAssumption DEF KeptBucket
<1> QED  BY <1>1, <1>2, <1>3 DEF TypeOK, SentForCall

LEMMA KeptIsBucket == ASSUME NEW b \in KeptBucket PROVE b # Null
<1>1. Full \in Int /\ LastReading \in Int
  BY Constants, Horizons
<1>2. b \in [tokens : Int, last : Int, keptUntil : Int]
  BY <1>1 DEF KeptBucket
<1> QED  BY <1>2, NoBucketAssumption

(* Steps that leave the buckets alone.                                      *)
LEMMA QuietAnswers ==
  ASSUME AnswerInvariant, UNCHANGED <<backend, buckets, taken, excess>>,
         clock' \in {clock, clock + 1}, clock' \in 0 .. LastTick,
         call' \in [Callers -> Calls], attempt' \in [Callers -> 0 .. MaxAttempts],
         sent' \subseteq Redis!Script, SentForCall', backend = "memory" => sent' = {}
  PROVE  AnswerInvariant'
<1> USE DEF AnswerInvariant
<1>1. LastTick' = LastTick /\ Calls' = Calls /\ KeptBucket' = KeptBucket
  BY DEF LastTick, LastReading, Calls, KeptBucket
<1>2. LimiterTypes'
  BY <1>1 DEF LimiterTypes, Redis!Script
<1>3. ReadInOrder'
  <2>1. clock \in Int
    BY Horizons DEF LimiterTypes
  <2>2. \A k \in Clients : buckets[k] # Null => buckets[k].last \in Int
    BY DEF LimiterTypes, KeptBucket
  <2> QED  BY <2>1, <2>2 DEF ReadInOrder
<1>4. NothingLost' /\ NothingGiven'
  BY DEF NothingLost, NothingGiven
<1> QED  BY <1>2, <1>3, <1>4

LEMMA TickAnswers == ASSUME AnswerInvariant, Tick PROVE AnswerInvariant'
<1> USE DEF AnswerInvariant, LimiterTypes
<1>1. CASE OfMemory(Memory!Tick)
  <2> USE <1>1 DEF OfMemory, Memory!Tick
  <2>1. clock' \in 0 .. LastTick
    BY Horizons
  <2> QED  BY <2>1, QuietAnswers DEF SentForCall
<1>2. CASE OfRedis(Redis!Tick)
  <2> USE <1>2 DEF OfRedis, Redis!Tick
  <2>1. clock' \in 0 .. LastTick
    BY Horizons
  <2> QED  BY <2>1, QuietAnswers DEF SentForCall
<1> QED  BY <1>1, <1>2 DEF Tick

LEMMA ArriveAnswers ==
  ASSUME AnswerInvariant, NEW c \in Callers, NEW k \in Clients, Arrive(c, k)
  PROVE  AnswerInvariant'
<1> USE DEF AnswerInvariant, LimiterTypes
<1>1. CASE OfMemory(Memory!Arrive(c, k))
  <2> USE <1>1 DEF OfMemory, Memory!Arrive, Memory!Ask
  <2>1. clock \in 0 .. LastReading
    BY Horizons
  <2>2. call' \in [Callers -> Calls]
    BY <2>1 DEF Calls
  <2> QED  BY <2>2, QuietAnswers DEF SentForCall
<1>2. CASE OfRedis(Redis!Arrive(c, k))
  <2> DEFINE now == clock + Skew[c]
             m == [caller |-> c, attempt |-> 1, now |-> now]
  <2>1. /\ call' = [call EXCEPT ![c] = [pc |-> "asking", key |-> k, now |-> now]]
        /\ attempt' = [attempt EXCEPT ![c] = 1] /\ sent' = sent \cup {m}
        /\ UNCHANGED <<clock, backend, buckets, taken, excess>> /\ backend = "redis"
        /\ \A n \in sent : n.caller # c
    BY <1>2 DEF OfRedis, Redis!Arrive, Redis!Ask, Redis!Send
  <2>2. now \in 0 .. LastReading /\ 1 \in 1 .. MaxAttempts
    <3>1. Skew[c] \in 0 .. MaxSkew /\ RedisClock \in Nat /\ MaxSkew \in Nat
      BY RedisAssumption
    <3> QED  BY <3>1, <2>1, Horizons, RedisAssumption
  <2>3. LastReading = RedisClock + MaxSkew
    BY <2>1, Horizons
  <2> HIDE DEF now
  <2>4. call' \in [Callers -> Calls]
    BY <2>1, <2>2 DEF Calls
  <2>5. attempt' \in [Callers -> 0 .. MaxAttempts]
    BY <2>1, <2>2
  <2>6. sent' \subseteq Redis!Script
    BY <2>1, <2>2, <2>3 DEF Redis!Script
  <2>7. SentForCall'
    <3> SUFFICES ASSUME NEW n \in sent', call'[n.caller].pc = "asking"
                 PROVE  n.attempt <= attempt'[n.caller] /\ n.now = call'[n.caller].now
      BY DEF SentForCall
    <3>1. CASE n = m
      BY <3>1, <2>1
    <3>2. CASE n \in sent
      <4>1. n.caller \in Callers /\ n.caller # c
        BY <3>2, <2>1 DEF Redis!Script
      <4> QED  BY <4>1, <3>2, <2>1 DEF SentForCall
    <3> QED  BY <3>1, <3>2, <2>1
  <2> QED  BY <2>1, <2>4, <2>5, <2>6, <2>7, QuietAnswers
<1> QED  BY <1>1, <1>2 DEF Arrive

LEMMA ResendAnswers ==
  ASSUME AnswerInvariant, NEW c \in Callers, backend = "redis", UNCHANGED backend, Redis!Resend(c)
  PROVE  AnswerInvariant'
<1> USE DEF AnswerInvariant, LimiterTypes
<1> DEFINE m == [caller |-> c, attempt |-> attempt[c] + 1, now |-> call[c].now]
<1>1. /\ sent' = sent \cup {m} /\ attempt' = [attempt EXCEPT ![c] = attempt[c] + 1]
      /\ call[c].pc = "asking" /\ attempt[c] < MaxAttempts
      /\ UNCHANGED <<clock, call, buckets, taken, excess>>
  BY DEF Redis!Resend, Redis!Send
<1>2. attempt[c] + 1 \in 1 .. MaxAttempts /\ call[c].now \in 0 .. RedisClock + MaxSkew
  BY <1>1, Horizons, RedisAssumption DEF Calls
<1>3. attempt' \in [Callers -> 0 .. MaxAttempts]
  BY <1>1, <1>2
<1>4. sent' \subseteq Redis!Script
  BY <1>1, <1>2 DEF Redis!Script
<1>5. SentForCall'
  <2> SUFFICES ASSUME NEW n \in sent', call[n.caller].pc = "asking"
               PROVE  n.attempt <= attempt'[n.caller] /\ n.now = call[n.caller].now
    BY <1>1 DEF SentForCall
  <2>1. CASE n = m
    BY <2>1, <1>1, <1>2
  <2>2. CASE n \in sent
    <3>1. n.caller \in Callers /\ n.attempt \in Int /\ attempt[n.caller] \in Int
      BY <2>2, RedisAssumption DEF Redis!Script
    <3>2. n.attempt <= attempt[n.caller] /\ n.now = call[n.caller].now
      BY <2>2 DEF SentForCall
    <3>3. attempt[n.caller] <= attempt'[n.caller]
      BY <3>1, <1>1
    <3> QED  BY <3>1, <3>2, <3>3, <1>3
  <2> QED  BY <2>1, <2>2, <1>1
<1> QED  BY <1>1, <1>3, <1>4, <1>5, QuietAnswers

(* A call that returns, and what that leaves of the calls and scripts.      *)
LEMMA ReturnAnswers ==
  ASSUME AnswerInvariant, NEW c \in Callers, NEW verdict \in Answers,
         call' = [call EXCEPT ![c] = [pc |-> verdict, key |-> @.key, now |-> 0]],
         \/ UNCHANGED attempt
         \/ attempt' = [attempt EXCEPT ![c] = 0],
         sent' \subseteq sent
  PROVE  /\ call' \in [Callers -> Calls]
         /\ attempt' \in [Callers -> 0 .. MaxAttempts]
         /\ SentForCall'
<1> USE DEF AnswerInvariant, LimiterTypes
<1>1. [pc |-> verdict, key |-> call[c].key, now |-> 0] \in Calls
  BY Horizons DEF Calls
<1>2. call' \in [Callers -> Calls]
  BY <1>1
<1>3. attempt' \in [Callers -> 0 .. MaxAttempts]
  BY RedisAssumption
<1>4. SentForCall'
  <2> SUFFICES ASSUME NEW n \in sent', call'[n.caller].pc = "asking"
               PROVE  n.attempt <= attempt'[n.caller] /\ n.now = call'[n.caller].now
    BY DEF SentForCall
  <2>1. n \in sent /\ n.caller \in Callers
    BY DEF Redis!Script
  <2>2. n.caller # c
    BY <2>1 DEF Answers
  <2> QED  BY <2>1, <2>2 DEF SentForCall
<1> QED  BY <1>2, <1>3, <1>4

LEMMA FailAnswers ==
  ASSUME AnswerInvariant, NEW c \in Callers, backend = "redis", UNCHANGED backend, Redis!Fail(c)
  PROVE  AnswerInvariant'
<1>1. /\ call' = [call EXCEPT ![c] = [pc |-> "idle", key |-> @.key, now |-> 0]]
      /\ attempt' = [attempt EXCEPT ![c] = 0]
      /\ UNCHANGED <<clock, buckets, taken, sent, excess>>
  BY DEF Redis!Fail, Redis!Return
<1>2. /\ call' \in [Callers -> Calls] /\ attempt' \in [Callers -> 0 .. MaxAttempts] /\ SentForCall'
  BY <1>1, ReturnAnswers DEF Answers
<1> QED  BY <1>1, <1>2, QuietAnswers DEF AnswerInvariant, LimiterTypes

LEMMA LoseAnswers == ASSUME AnswerInvariant, NEW m, Lose(m) PROVE AnswerInvariant'
<1>1. /\ sent' \subseteq sent /\ backend = "redis"
      /\ UNCHANGED <<clock, backend, call, attempt, buckets, taken, excess>>
  BY DEF Lose, OfRedis, Redis!Lose
<1>2. SentForCall'
  BY <1>1 DEF AnswerInvariant, LimiterTypes, SentForCall
<1> QED  BY <1>1, <1>2, QuietAnswers DEF AnswerInvariant, LimiterTypes

LEMMA StutterAnswers == ASSUME AnswerInvariant, UNCHANGED vars PROVE AnswerInvariant'
BY QuietAnswers DEF AnswerInvariant, LimiterTypes, SentForCall, vars

-----------------------------------------------------------------------------
(* Steps that give a bucket another value                                   *)

(* The bucket of k is replaced; others are left, or dropped.                *)
LEMMA BucketAnswers ==
  ASSUME AnswerInvariant, NEW k \in Clients, NEW bucket \in KeptBucket, NEW log \in Logs,
         UNCHANGED <<backend, clock>>,
         call' \in [Callers -> Calls], attempt' \in [Callers -> 0 .. MaxAttempts],
         sent' \subseteq sent, SentForCall', excess' \in [Clients -> Nat],
         buckets' = [j \in Clients |-> buckets'[j]], buckets'[k] = bucket,
         \A j \in Clients : j # k => buckets'[j] \in {Null, buckets[j]},
         taken' = [taken EXCEPT ![k] = log],
         Earned(log, bucket.tokens, bucket.last),
         backend = "memory" => /\ bucket.last <= clock
                               /\ \A i \in DOMAIN log : log[i].excess = 0
  PROVE  AnswerInvariant'
<1> USE DEF AnswerInvariant
<1>1. /\ LastTick' = LastTick /\ Calls' = Calls /\ KeptBucket' = KeptBucket
      /\ Redis!Script' = Redis!Script
  BY DEF LastTick, LastReading, Calls, KeptBucket, Redis!Script
<1>2. \A j \in Clients : buckets'[j] \in {Null} \cup KeptBucket
  BY DEF LimiterTypes
<1>3. buckets' \in [Clients -> {Null} \cup KeptBucket] /\ taken' \in [Clients -> Logs]
  BY <1>2 DEF LimiterTypes
<1>4. LimiterTypes'
  BY <1>1, <1>3 DEF LimiterTypes
<1>5. ReadInOrder'
  BY DEF ReadInOrder
<1>6. NothingLost'
  <2> SUFFICES ASSUME NEW j \in Clients, buckets'[j] # Null
               PROVE  Earned(taken'[j], buckets'[j].tokens, buckets'[j].last)
    BY DEF NothingLost, Earned
  <2>1. CASE j = k
    BY <2>1 DEF LimiterTypes
  <2>2. CASE j # k
    <3>1. buckets'[j] = buckets[j] /\ taken'[j] = taken[j]
      BY <2>2 DEF LimiterTypes
    <3> QED  BY <3>1 DEF NothingLost
  <2> QED  BY <2>1, <2>2
<1>7. NothingGiven'
  BY DEF NothingGiven, LimiterTypes
<1> QED  BY <1>4, <1>5, <1>6, <1>7

(* What a critical section finds once cleanup has dropped what it drops.    *)
LEMMA MemoryFinds ==
  ASSUME AnswerInvariant, backend = "memory", NEW k \in Clients, NEW now \in Int
  PROVE  LET b == Memory!Cleaned(now)[k]
         IN  /\ b \in {Null, buckets[k]}
             /\ Memory!Tokens(b) \in 0 .. Full
             /\ Earned(taken[k], Memory!Tokens(b), clock)
<1> DEFINE old == buckets[k]
           b == Memory!Cleaned(now)[k]
           t == Memory!Tokens(b)
<1> USE DEF AnswerInvariant, LimiterTypes
<1>1. b \in {Null, old}
  BY DEF Memory!Cleaned
<1>2. clock \in Int
  BY Horizons
<1>3. CASE b = Null
  <2>1. t = Full
    BY <1>3, SameFull DEF Memory!Tokens
  <2> HIDE DEF t
  <2> QED  BY <2>1, <1>1, Constants DEF Earned, t
<1>4. CASE b # Null
  <2>1. b = old /\ old \in KeptBucket /\ old # Null
    BY <1>1, <1>4
  <2>2. old.tokens \in 0 .. Full /\ old.last \in Int /\ old.last <= clock
    BY <2>1 DEF KeptBucket, ReadInOrder
  <2>3. t = Memory!Refilled(old.tokens, clock - old.last) /\ Since(clock, old.last) = clock - old.last
    BY <1>2, <1>4, <2>1, <2>2 DEF Memory!Tokens, Since
  <2>4. t = IF old.tokens + Since(clock, old.last) > Full THEN Full
                                                          ELSE old.tokens + Since(clock, old.last)
    BY <2>3, SameFull DEF Memory!Refilled
  <2>5. t \in 0 .. Full
    BY <2>2, <2>3, <2>4, <1>2, Constants
  <2>6. Earned(taken[k], old.tokens, old.last)
    BY <2>1 DEF NothingLost
  <2> HIDE DEF t
  <2>7. Earned(taken[k], t, clock)
    BY <1>2, <2>2, <2>4, <2>5, <2>6, EarnedLater
  <2> QED  BY <1>1, <2>5, <2>7 DEF t
<1> QED  BY <1>3, <1>4

LEMMA MemoryAnswers ==
  ASSUME AnswerInvariant, NEW c \in Callers, OfMemory(Memory!Serve(c))
  PROVE  AnswerInvariant'
<1> DEFINE k == call[c].key
           now == call[c].now
           kept == Memory!Cleaned(now)
           tokens == Memory!Tokens(kept[k])
<1> USE DEF AnswerInvariant, LimiterTypes
<1>1. backend = "memory" /\ UNCHANGED <<backend, attempt, sent, excess>>
  BY DEF OfMemory
<1>2. call[c].pc = "asking" /\ UNCHANGED clock
  BY DEF OfMemory, Memory!Serve, Memory!Allow, Memory!Deny
<1>3. k \in Clients /\ now \in 0 .. MaxClock /\ clock \in 0 .. MaxClock /\ taken[k] \in Logs
  BY <1>1, RateAssumption DEF Calls, LastReading, LastTick
<1>4. /\ \A j \in Clients : kept[j] \in {Null, buckets[j]}
      /\ tokens \in 0 .. Full /\ Earned(taken[k], tokens, clock)
  BY <1>1, <1>3, MemoryFinds
<1>5. KeptBucket = [tokens : 0 .. Full, last : 0 .. MaxClock, keptUntil : Nat]
  BY <1>1 DEF KeptBucket, LastReading
<1>6. kept = [j \in Clients |-> kept[j]]
  BY DEF Memory!Cleaned
<1> HIDE DEF tokens, kept
<1>7. CASE Memory!Allow(c)
  <2> DEFINE bucket == [tokens |-> tokens - Interval, last |-> clock, keptUntil |-> now + TTL]
             take == [at |-> clock, read |-> clock, excess |-> 0]
             log == Append(taken[k], take)
  <2>1. /\ tokens >= Interval
        /\ buckets' = [kept EXCEPT ![k] = bucket]
        /\ taken' = [taken EXCEPT ![k] = log]
        /\ call' = [call EXCEPT ![c] = [pc |-> "allowed", key |-> @.key, now |-> 0]]
    BY <1>3, <1>6, <1>7 DEF Memory!Allow, Memory!Used, Memory!Record, Memory!Return, tokens, kept
  <2>2. take \in Take /\ take.read = clock
    BY <1>3 DEF Take
  <2>3. log \in Logs
    BY <1>3, <2>2 DEF Logs
  <2>4. Earned(log, tokens - Interval, clock)
    <3> HIDE DEF take
    <3> QED  BY <1>3, <1>4, <2>2, EarnedTake
  <2>5. tokens - Interval \in 0 .. Full
    BY <1>4, <2>1, Constants
  <2>6. bucket \in KeptBucket /\ bucket.tokens = tokens - Interval /\ bucket.last = clock
    BY <1>3, <1>5, <2>5, Constants
  <2>7. call' \in [Callers -> Calls] /\ attempt' \in [Callers -> 0 .. MaxAttempts] /\ SentForCall'
    BY <1>1, <2>1, ReturnAnswers DEF Answers
  <2> HIDE DEF bucket, log
  <2>8. /\ buckets' = [j \in Clients |-> buckets'[j]] /\ buckets'[k] = bucket
        /\ \A j \in Clients : j # k => buckets'[j] \in {Null, buckets[j]}
    BY <1>3, <1>4, <1>6, <2>1
  <2>9. Earned(log, bucket.tokens, bucket.last) /\ bucket.last <= clock
    BY <1>3, <2>4, <2>6
  <2>10. sent' \subseteq sent /\ excess' \in [Clients -> Nat]
    BY <1>1
  <2>11. \A i \in DOMAIN log : log[i].excess = 0
    <3>1. \A i \in DOMAIN taken[k] : taken[k][i].excess = 0
      BY <1>1, <1>3 DEF NothingGiven
    <3> QED  BY <1>3, <3>1 DEF log, Logs
  <2> QED  BY <1>1, <1>2, <1>3, <2>1, <2>3, <2>6, <2>7, <2>8, <2>9, <2>10, <2>11, BucketAnswers
<1>8. CASE Memory!Deny(c)
  <2> DEFINE bucket == [kept[k] EXCEPT !.keptUntil = now + TTL]
  <2>1. /\ tokens < Interval
        /\ buckets' = [kept EXCEPT ![k] = bucket]
        /\ taken' = taken
        /\ call' = [call EXCEPT ![c] = [pc |-> "denied", key |-> @.key, now |-> 0]]
    BY <1>3, <1>6, <1>8 DEF Memory!Deny, Memory!Return, tokens, kept
  <2>2. kept[k] # Null
    BY <2>1, SameFull, Constants DEF Memory!Tokens, tokens
  <2>3. kept[k] = buckets[k] /\ kept[k] \in KeptBucket
    BY <1>3, <1>4, <2>2
  <2>4. /\ bucket \in KeptBucket /\ bucket.tokens = kept[k].tokens /\ bucket.last = kept[k].last
    BY <2>3, <1>3, <1>5, Constants
  <2>5. Earned(taken[k], bucket.tokens, bucket.last) /\ bucket.last <= clock
    BY <1>1, <1>3, <2>2, <2>3, <2>4 DEF NothingLost, ReadInOrder
  <2>6. call' \in [Callers -> Calls] /\ attempt' \in [Callers -> 0 .. MaxAttempts] /\ SentForCall'
    BY <1>1, <2>1, ReturnAnswers DEF Answers
  <2> HIDE DEF bucket
  <2>7. /\ buckets' = [j \in Clients |-> buckets'[j]] /\ buckets'[k] = bucket
        /\ \A j \in Clients : j # k => buckets'[j] \in {Null, buckets[j]}
    BY <1>3, <1>4, <1>6, <2>1
  <2>8. taken' = [taken EXCEPT ![k] = taken[k]]
    BY <1>3, <2>1
  <2>9. /\ sent' \subseteq sent /\ excess' \in [Clients -> Nat]
        /\ \A i \in DOMAIN taken[k] : taken[k][i].excess = 0
    BY <1>1, <1>3 DEF NothingGiven
  <2> QED  BY <1>2, <1>1, <1>3, <2>4, <2>5, <2>6, <2>7, <2>8, <2>9, BucketAnswers
<1> QED  BY <1>7, <1>8 DEF OfMemory, Memory!Serve

(* What a script finds, whatever reading it goes by.                        *)
LEMMA ScriptFinds ==
  ASSUME AnswerInvariant, backend = "redis", NEW k \in Clients, NEW now \in Int
  PROVE  LET tokens == Redis!Tokens(Redis!Bucket(k), now)
         IN  /\ tokens \in 0 .. Full
             /\ Earned(taken[k], tokens, now)
<1> DEFINE old == buckets[k]
           found == Redis!Bucket(k)
           t == Redis!Tokens(found, now)
<1> USE DEF AnswerInvariant, LimiterTypes
<1>1. found \in {Null, old}
  BY DEF Redis!Bucket
<1>2. CASE found = Null
  <2>1. t = Full
    BY <1>2, SameFull DEF Redis!Tokens
  <2> HIDE DEF t
  <2> QED  BY <2>1, Constants DEF Earned, t
<1>3. CASE found # Null
  <2>1. found = old /\ old \in KeptBucket /\ old # Null
    BY <1>1, <1>3
  <2>2. old.tokens \in 0 .. Full /\ old.last \in Int
    BY <2>1 DEF KeptBucket
  <2>3. t = IF old.tokens + Since(now, old.last) > Full THEN Full
                                                        ELSE old.tokens + Since(now, old.last)
    BY <1>3, <2>1, SameFull DEF Redis!Tokens, Redis!Refilled, Redis!Elapsed, Since
  <2>4. t \in 0 .. Full
    BY <2>2, <2>3, Constants DEF Since
  <2>5. Earned(taken[k], old.tokens, old.last)
    BY <2>1 DEF NothingLost
  <2> HIDE DEF t
  <2>6. Earned(taken[k], t, now)
    BY <2>2, <2>3, <2>4, <2>5, EarnedLater
  <2> QED  BY <2>4, <2>6 DEF t
<1> QED  BY <1>2, <1>3

LEMMA RunAnswers ==
  ASSUME AnswerInvariant, backend = "redis", UNCHANGED backend, NEW m \in sent, Redis!Run(m)
  PROVE  AnswerInvariant'
<1> DEFINE k == call[m.caller].key
           tokens == Redis!Tokens(Redis!Bucket(k), m.now)
           free == Redis!Excess(k, m.now)
           left(t) == [tokens |-> t, last |-> m.now, keptUntil |-> clock + Redis!StateTTL]
<1> USE DEF AnswerInvariant, LimiterTypes
<1>1. /\ m.caller \in Callers /\ k \in Clients /\ taken[k] \in Logs
      /\ m.now \in 0 .. LastReading /\ clock \in Nat
  BY Horizons DEF Calls, Redis!Script
<1>2. m.now \in Int
  BY <1>1, Horizons
<1>3. tokens \in 0 .. Full /\ Earned(taken[k], tokens, m.now)
  BY <1>1, <1>2, ScriptFinds
<1>4. free \in Nat
  BY <1>1, SameFull, Constants DEF Redis!Excess
<1>5. /\ UNCHANGED clock /\ sent' = sent \ {m}
      /\ excess' = [excess EXCEPT ![k] = free]
  BY DEF Redis!Run
<1>6. excess' \in [Clients -> Nat] /\ sent' \subseteq sent
  BY <1>1, <1>4, <1>5
<1>7. ASSUME NEW t \in 0 .. Full
      PROVE  left(t) \in KeptBucket /\ Redis!Kept(t, m.now) = left(t)
  BY <1>1, StateTTLCovers DEF KeptBucket, Redis!Kept, Redis!StateTTL, Redis!Full
<1>8. ASSUME NEW verdict \in Answers, Redis!Answer(m, verdict)
      PROVE  call' \in [Callers -> Calls] /\ attempt' \in [Callers -> 0 .. MaxAttempts] /\ SentForCall'
  <2>1. CASE UNCHANGED <<call, attempt>>
    BY <1>6, <2>1 DEF SentForCall
  <2>2. CASE /\ call' = [call EXCEPT ![m.caller] = [pc |-> verdict, key |-> @.key, now |-> 0]]
             /\ attempt' = [attempt EXCEPT ![m.caller] = 0]
    BY <1>1, <1>6, <2>2, ReturnAnswers
  <2> QED  BY <1>8, <2>1, <2>2 DEF Redis!Answer, Redis!Return
<1>9. ASSUME NEW t \in 0 .. Full, buckets' = [buckets EXCEPT ![k] = left(t)],
             NEW log \in Logs, taken' = [taken EXCEPT ![k] = log], Earned(log, t, m.now),
             NEW verdict \in Answers, Redis!Answer(m, verdict)
      PROVE  AnswerInvariant'
  <2> DEFINE bucket == left(t)
  <2>1. bucket \in KeptBucket /\ bucket.tokens = t /\ bucket.last = m.now
    BY <1>7
  <2> HIDE DEF bucket
  <2>2. Earned(log, bucket.tokens, bucket.last)
    BY <1>9, <2>1
  <2>3. /\ buckets' = [j \in Clients |-> buckets'[j]] /\ buckets'[k] = bucket
        /\ \A j \in Clients : j # k => buckets'[j] \in {Null, buckets[j]}
    BY <1>1, <1>9 DEF bucket
  <2>4. call' \in [Callers -> Calls] /\ attempt' \in [Callers -> 0 .. MaxAttempts] /\ SentForCall'
    BY <1>8, <1>9
  <2> QED  BY <1>1, <1>5, <1>6, <1>9, <2>1, <2>2, <2>3, <2>4, BucketAnswers
<1> HIDE DEF tokens, free, left
<1>10. CASE /\ tokens >= Interval
            /\ buckets' = [buckets EXCEPT ![k] = Redis!Kept(tokens - Interval, m.now)]
            /\ Redis!Record(k, [at |-> clock, read |-> m.now, excess |-> free])
            /\ Redis!Answer(m, "allowed")
  <2> DEFINE take == [at |-> clock, read |-> m.now, excess |-> free]
             log == Append(taken[k], take)
  <2>1. take \in Take /\ take.read = m.now
    BY <1>1, <1>2, <1>4 DEF Take
  <2>2. log \in Logs
    BY <1>1, <2>1 DEF Logs
  <2>3. tokens - Interval \in 0 .. Full
    BY <1>3, <1>10, Constants
  <2>4. taken' = [taken EXCEPT ![k] = log]
    BY <1>1, <1>10 DEF Redis!Record
  <2>5. Earned(log, tokens - Interval, m.now)
    <3> HIDE DEF take
    <3> QED  BY <1>1, <1>3, <2>1, EarnedTake
  <2>6. buckets' = [buckets EXCEPT ![k] = left(tokens - Interval)]
    BY <1>7, <1>10, <2>3
  <2> HIDE DEF log
  <2> QED  BY <1>9, <1>10, <2>2, <2>3, <2>4, <2>5, <2>6 DEF Answers
<1>11. CASE /\ tokens < Interval
            /\ buckets' = [buckets EXCEPT ![k] = Redis!Kept(tokens, m.now)]
            /\ Redis!Answer(m, "denied")
            /\ UNCHANGED taken
  <2>1. taken' = [taken EXCEPT ![k] = taken[k]]
    BY <1>1, <1>11
  <2>2. buckets' = [buckets EXCEPT ![k] = left(tokens)]
    BY <1>3, <1>7, <1>11
  <2> QED  BY <1>1, <1>3, <1>9, <1>11, <2>1, <2>2 DEF Answers
<1> QED  BY <1>10, <1>11 DEF Redis!Run, tokens, free

LEMMA RestartAnswers == ASSUME AnswerInvariant, Restart PROVE AnswerInvariant'
<1> USE DEF AnswerInvariant
<1>1. /\ backend = "redis" /\ backend' = "redis"
      /\ UNCHANGED <<clock, call, taken, attempt, sent>>
      /\ buckets' = [k \in Clients |-> Null]
      /\ excess' = [k \in Clients |-> excess[k] + Full + (MaxWait + MaxSkew)]
  BY SameFull DEF Restart, OfRedis, Redis!Restart
<1>2. excess' \in [Clients -> Nat]
  BY <1>1, Constants DEF LimiterTypes
<1>3. LastTick' = LastTick /\ Calls' = Calls /\ KeptBucket' = KeptBucket
  BY <1>1 DEF LastTick, LastReading, Calls, KeptBucket
<1>4. LimiterTypes'
  BY <1>1, <1>2, <1>3 DEF LimiterTypes, SentForCall, Redis!Script
<1>5. ReadInOrder' /\ NothingLost' /\ NothingGiven'
  BY <1>1 DEF ReadInOrder, NothingLost, NothingGiven
<1> QED  BY <1>4, <1>5

LEMMA AnswerStep == ASSUME AnswerInvariant, [Next]_vars PROVE AnswerInvariant'
<1>1. CASE Tick
  BY <1>1, TickAnswers
<1>2. CASE Restart
  BY <1>2, RestartAnswers
<1>3. ASSUME NEW c \in Callers, Serve(c) PROVE AnswerInvariant'
  <2>1. CASE OfMemory(Memory!Serve(c))
    BY <2>1, MemoryAnswers
  <2>2. CASE OfRedis(Redis!Serve(c))
    <3>1. backend = "redis" /\ UNCHANGED backend
      BY <2>2 DEF OfRedis
    <3>2. CASE Redis!Resend(c)
      BY <3>1, <3>2, ResendAnswers
    <3>3. CASE Redis!Fail(c)
      BY <3>1, <3>3, FailAnswers
    <3>4. ASSUME NEW m \in sent, Redis!Run(m) PROVE AnswerInvariant'
      BY <3>1, <3>4, RunAnswers
    <3> QED  BY <2>2, <3>2, <3>3, <3>4 DEF OfRedis, Redis!Serve
  <2> QED  BY <1>3, <2>1, <2>2 DEF Serve
<1>4. ASSUME NEW c \in Callers, NEW k \in Clients, Arrive(c, k) PROVE AnswerInvariant'
  BY <1>4, ArriveAnswers
<1>5. ASSUME NEW m \in Redis!Script, Lose(m) PROVE AnswerInvariant'
  BY <1>5, LoseAnswers
<1>6. CASE UNCHANGED vars
  BY <1>6, StutterAnswers
<1> QED  BY <1>1, <1>2, <1>3, <1>4, <1>5, <1>6 DEF Next

(* The limiters' state is what it should be: every bucket holds between     *)
(* nothing and burst tokens, and a script that can still be answered goes   *)
(* by its call's reading (internal/ratelimit/memory.go:34-73,               *)
(* redis.go:12-43, 79-103).                                                 *)
THEOREM LimitersTyped == Spec => []TypeOK
<1>1. AnswerInvariant /\ [Next]_vars => AnswerInvariant'
  BY AnswerStep
<1>2. AnswerInvariant => TypeOK
  BY TypesFollow DEF AnswerInvariant
<1> QED  BY <1>1, <1>2, AnswerInit, PTL DEF Spec

-----------------------------------------------------------------------------
(* Answers                                                                  *)

(* The only step of a denial is the one that finds no token.                *)
LEMMA DenialStep ==
  ASSUME AnswerInvariant, Next, NEW c \in Callers,
         call[c].pc = "asking", call'[c].pc = "denied"
  PROVE  Spent(taken[call[c].key], IF backend = "memory" THEN clock ELSE call[c].now)
<1> DEFINE k == call[c].key
           now == call[c].now
<1> USE DEF AnswerInvariant, LimiterTypes
<1>1. k \in Clients /\ taken[k] \in Logs /\ now \in Int /\ clock \in Int
  BY Horizons DEF Calls
<1>2. ASSUME NEW t \in 0 .. Full, t < Interval, NEW l \in Int, Earned(taken[k], t, l)
      PROVE  Spent(taken[k], l)
  BY <1>1, <1>2, EarnedSpent DEF Spent, Since
<1>3. ASSUME NEW d \in Callers, OfMemory(Memory!Serve(d))
      PROVE  Spent(taken[k], clock) /\ backend = "memory"
  <2> DEFINE tokens == Memory!Tokens(Memory!Cleaned(now)[k])
  <2>1. c = d /\ backend = "memory"
    BY <1>3 DEF OfMemory, Memory!Serve, Memory!Allow, Memory!Deny, Memory!Return
  <2>2. Memory!Deny(c)
    BY <1>3, <2>1 DEF OfMemory, Memory!Serve, Memory!Allow, Memory!Return
  <2>3. tokens < Interval
    BY <2>2 DEF Memory!Deny
  <2>4. tokens \in 0 .. Full /\ Earned(taken[k], tokens, clock)
    BY <1>1, <2>1, MemoryFinds
  <2> HIDE DEF tokens
  <2> QED  BY <1>1, <1>2, <2>1, <2>3, <2>4
<1>4. ASSUME NEW d \in Callers, OfRedis(Redis!Serve(d))
      PROVE  Spent(taken[k], now) /\ backend # "memory"
  <2>1. backend = "redis" /\ call' # call
    BY <1>4 DEF OfRedis
  <2>2. ~ Redis!Resend(d) /\ ~ Redis!Fail(d)
    BY <1>4 DEF Redis!Resend, Redis!Fail, Redis!Return
  <2>3. PICK m \in sent : Redis!Run(m)
    BY <1>4, <2>2 DEF OfRedis, Redis!Serve
  <2>4. m.caller \in Callers
    BY DEF Redis!Script
  <2> DEFINE tokens == Redis!Tokens(Redis!Bucket(call[m.caller].key), m.now)
  <2>5. m.caller = c
    BY <2>1, <2>3, <2>4 DEF Redis!Run, Redis!Answer, Redis!Return
  <2>6. tokens < Interval
    BY <2>1, <2>3, <2>5 DEF Redis!Run, Redis!Answer, Redis!Return
  <2>7. m.now = now
    BY <2>5 DEF SentForCall
  <2>8. tokens \in 0 .. Full /\ Earned(taken[k], tokens, now)
    BY <1>1, <2>1, <2>5, <2>7, ScriptFinds
  <2> HIDE DEF tokens
  <2> QED  BY <1>1, <1>2, <2>1, <2>6, <2>8
<1>5. ~ Tick /\ ~ Restart
  BY DEF Tick, Restart, OfMemory, OfRedis, Memory!Tick, Redis!Tick, Redis!Restart
<1>6. \A d \in Callers, j \in Clients : ~ Arrive(d, j)
  BY DEF Arrive, OfMemory, OfRedis, Memory!Arrive, Redis!Arrive, Memory!Ask, Redis!Ask
<1>7. \A m : ~ Lose(m)
  BY DEF Lose, OfRedis, Redis!Lose
<1> QED  BY <1>3, <1>4, <1>5, <1>6, <1>7 DEF Next, Serve

(* Nobody is denied who has waited long enough, whatever buckets are        *)
(* dropped, readings put back and scripts repeated in the meantime, and     *)
(* whatever the time to live (internal/ratelimit/memory.go:44-58,           *)
(* redis.go:22-34).                                                         *)
THEOREM DenialsAreEarned == Spec => DeniedOnlyWhenSpent
<1> DEFINE Denials ==
      \A c \in Callers :
        call[c].pc = "asking" /\ call'[c].pc = "denied"
          => Spent(taken[call[c].key], IF backend = "memory" THEN clock ELSE call[c].now)
<1>1. AnswerInvariant /\ [Next]_vars => AnswerInvariant'
  BY AnswerStep
<1>2. AnswerInvariant /\ [Next]_vars => [Denials]_vars
  BY DenialStep
<1> QED  BY <1>1, <1>2, AnswerInit, PTL DEF Spec, DeniedOnlyWhenSpent

-----------------------------------------------------------------------------
(* The memory limiter is the everlasting bucket                             *)

Asked == [c \in Callers |-> call[c].key]
Verdicts == [c \in Callers |-> call[c].pc]
Times(log) == [i \in DOMAIN log |-> log[i].at]
Allowed == [k \in Clients |-> Times(taken[k])]

(* The memory limiter takes a token when it reads the clock for it.         *)
LEMMA MemoryReads ==
  ASSUME LimiterInvariant, AnswerInvariant, backend = "memory", NEW k \in Clients, NEW i \in DOMAIN taken[k]
  PROVE  /\ taken[k][i].read = taken[k][i].at /\ taken[k][i].at \in Int
         /\ taken[k][i].excess = 0
<1>1. taken[k][i] \in Take
  BY DEF LimiterInvariant, Typed, Logs
<1>2. ReadsWithin(taken[k], 0, 0)
  BY DEF LimiterInvariant, LogKept, Early, Late
<1>3. taken[k][i].excess = 0
  BY DEF AnswerInvariant, NothingGiven
<1> QED  BY <1>1, <1>2, <1>3 DEF ReadsWithin, Take

(* A call finds a token exactly if one more is not too many.                *)
LEMMA MayBeAllowedIff ==
  ASSUME LimiterInvariant, AnswerInvariant, RefillCovered, backend = "memory",
         NEW c \in Callers, call[c].pc = "asking"
  PROVE  LET k == call[c].key
         IN  Bucket!MayBeAllowed(k)
               <=> Memory!Tokens(Memory!Cleaned(call[c].now)[k]) >= Interval
<1> DEFINE k == call[c].key
           log == taken[k]
           tokens == Memory!Tokens(Memory!Cleaned(call[c].now)[k])
           may == Bucket!MayBeAllowed(k)
<1>1. k \in Clients /\ log \in Logs /\ clock \in Int /\ call[c].now \in Int
  BY DEF LimiterInvariant, Typed
<1>2. may <=> \A i \in DOMAIN log : (Len(log) - i + 2) * Interval <= Full + (clock - log[i].at)
  <2>1. Len(Times(log)) = Len(log) /\ DOMAIN Times(log) = DOMAIN log
    BY <1>1 DEF Times, Logs
  <2>2. Full = Burst * Interval /\ Allowed[k] = Times(log)
    BY <1>1 DEF Full, Allowed
  <2>3. may <=> \A i \in DOMAIN Allowed[k] :
                  (Len(Allowed[k]) - i + 2) * Interval <= Burst * Interval + (clock - Allowed[k][i])
    BY DEF Bucket!MayBeAllowed, Allowed, Times
  <2> HIDE DEF may
  <2> QED  BY <2>1, <2>2, <2>3 DEF Times
<1>3. tokens \in 0 .. Full /\ Earned(log, tokens, clock) /\ Covered(log, tokens, clock, 0)
  BY <1>1, MemoryFinds, MemoryKept
<1> HIDE DEF tokens, may
<1>4. ASSUME tokens >= Interval, NEW i \in DOMAIN log
      PROVE  (Len(log) - i + 2) * Interval <= Full + (clock - log[i].at)
  <2> DEFINE n == Len(log) - i + 1
             cost == n * Interval
  <2>1. n \in Int /\ Len(log) - i + 2 = n + 1
    BY <1>1 DEF Logs
  <2>2. (n + 1) * Interval = cost + Interval /\ cost \in Int
    BY <2>1, OneMore
  <2>3. cost + tokens <= Full + (clock - log[i].read) + (0 - log[i].excess)
    BY <1>3 DEF Covered
  <2>4. log[i].read = log[i].at /\ log[i].at \in Int /\ log[i].excess = 0
    BY <1>1, MemoryReads
  <2> HIDE DEF cost, n
  <2>6. cost + Interval <= Full + (clock - log[i].at)
    BY <1>1, <1>3, <1>4, <2>2, <2>3, <2>4, Constants
  <2> QED  BY <2>1, <2>2, <2>6
<1>5. ASSUME tokens < Interval
      PROVE  ~ \A i \in DOMAIN log : (Len(log) - i + 2) * Interval <= Full + (clock - log[i].at)
  <2>1. PICK i \in DOMAIN log : (Len(log) - i + 2) * Interval > Full + Since(clock, log[i].read)
    BY <1>1, <1>3, <1>5, EarnedSpent
  <2> DEFINE cost == (Len(log) - i + 2) * Interval
  <2>2. log[i].read = log[i].at /\ log[i].at \in Int
    BY <1>1, MemoryReads
  <2>3. Since(clock, log[i].read) \in Int /\ Since(clock, log[i].read) >= clock - log[i].at
    BY <1>1, <2>2 DEF Since
  <2>4. cost \in Int
    <3>1. Len(log) - i + 2 \in Int
      BY <1>1 DEF Logs
    <3> QED  BY <3>1, Constants
  <2>5. cost > Full + Since(clock, log[i].read)
    BY <2>1
  <2> HIDE DEF cost
  <2>6. ~ (cost <= Full + (clock - log[i].at))
    BY <1>1, <2>2, <2>3, <2>4, <2>5, Constants
  <2> QED  BY <2>6 DEF cost
<1>6. tokens >= Interval \/ tokens < Interval
  BY <1>3, Constants
<1> QED
  <2>1. may <=> tokens >= Interval
    BY <1>2, <1>3, <1>4, <1>5, <1>6, Constants
  <2> QED  BY <2>1 DEF may, tokens

LEMMA TimesOfLog ==
  ASSUME NEW log \in Logs
  PROVE  /\ Times(log) \in Seq(Int) /\ Len(Times(log)) = Len(log)
         /\ \A i \in 1 .. Len(log) : Times(log)[i] = log[i].at
<1> DEFINE n == Len(log)
<1>1. n \in Nat /\ DOMAIN log = 1 .. n /\ \A i \in 1 .. n : log[i] \in Take
  BY DEF Logs
<1>2. \A i \in 1 .. n : log[i].at \in Int
  BY <1>1 DEF Take
<1>3. Times(log) = [i \in 1 .. n |-> log[i].at]
  BY <1>1 DEF Times
<1>4. Times(log) \in [1 .. n -> Int]
  BY <1>2, <1>3
<1> HIDE DEF n
<1>5. Times(log) \in Seq(Int) /\ Len(Times(log)) = n
  BY <1>1, <1>4
<1> QED  BY <1>3, <1>5 DEF n

LEMMA BucketTickStep ==
  ASSUME backend = "memory", Tick
  PROVE  Bucket!Tick
BY DEF Tick, OfMemory, OfRedis, Memory!Tick, Bucket!Tick

LEMMA BucketAskStep ==
  ASSUME LimiterInvariant, backend = "memory", NEW c \in Callers, NEW k \in Clients, Arrive(c, k)
  PROVE  Bucket!Ask(c, k)
<1>1. /\ call[c].pc # "asking"
      /\ call' = [call EXCEPT ![c] = [pc |-> "asking", key |-> k, now |-> clock]]
      /\ UNCHANGED <<clock, taken>>
  BY DEF Arrive, OfMemory, OfRedis, Memory!Arrive, Memory!Ask
<1>2. \A d \in Callers : /\ call'[d].key = IF d = c THEN k ELSE call[d].key
                         /\ call'[d].pc = IF d = c THEN "asking" ELSE call[d].pc
  BY <1>1 DEF LimiterInvariant, Typed
<1>3. Asked' = [Asked EXCEPT ![c] = k] /\ Verdicts' = [Verdicts EXCEPT ![c] = "asking"]
  BY <1>2 DEF Asked, Verdicts
<1>4. Allowed' = Allowed /\ Verdicts[c] # "asking"
  BY <1>1 DEF Allowed, Times, Verdicts
<1> QED  BY <1>1, <1>3, <1>4 DEF Bucket!Ask, Asked, Verdicts, Allowed, Times

LEMMA BucketAnswerStep ==
  ASSUME LimiterInvariant, AnswerInvariant, RefillCovered, backend = "memory",
         NEW c \in Callers, Serve(c)
  PROVE  Bucket!Allow(c) \/ Bucket!Deny(c)
<1> DEFINE k == call[c].key
           tokens == Memory!Tokens(Memory!Cleaned(call[c].now)[k])
<1>1. OfMemory(Memory!Serve(c)) /\ call[c].pc = "asking" /\ UNCHANGED clock
  BY DEF Serve, OfMemory, OfRedis, Memory!Serve, Memory!Allow, Memory!Deny
<1>2. k \in Clients /\ taken[k] \in Logs /\ taken \in [Clients -> Logs] /\ clock \in Int
  BY DEF LimiterInvariant, Typed
<1>3. Bucket!MayBeAllowed(k) <=> tokens >= Interval
  BY <1>1, MayBeAllowedIff
<1>4. Asked[c] = k /\ Verdicts[c] = "asking"
  BY <1>1 DEF Asked, Verdicts
<1>5. ASSUME NEW verdict \in Answers,
             call' = [call EXCEPT ![c] = [pc |-> verdict, key |-> @.key, now |-> 0]]
      PROVE  Asked' = Asked /\ Verdicts' = [Verdicts EXCEPT ![c] = verdict]
  <2>1. \A d \in Callers : /\ call'[d].key = call[d].key
                           /\ call'[d].pc = IF d = c THEN verdict ELSE call[d].pc
    BY <1>5 DEF LimiterInvariant, Typed
  <2> QED  BY <2>1 DEF Asked, Verdicts
<1> HIDE DEF tokens
<1>6. CASE Memory!Allow(c)
  <2> DEFINE take == [at |-> clock, read |-> clock, excess |-> 0]
             log == Append(taken[k], take)
  <2>1. /\ tokens >= Interval
        /\ taken' = [taken EXCEPT ![k] = log]
        /\ call' = [call EXCEPT ![c] = [pc |-> "allowed", key |-> @.key, now |-> 0]]
    BY <1>2, <1>6 DEF Memory!Allow, Memory!Record, Memory!Return, tokens
  <2>2. Times(log) = Append(Times(taken[k]), clock)
    <3>1. take \in Take /\ take.at = clock
      BY <1>2 DEF Take
    <3> HIDE DEF take
    <3>2. /\ log \in Logs /\ Len(log) = Len(taken[k]) + 1 /\ log[Len(taken[k]) + 1] = take
          /\ \A i \in 1 .. Len(taken[k]) : log[i] = taken[k][i]
          /\ Len(taken[k]) \in Nat
      BY <1>2, <3>1 DEF Logs
    <3> HIDE DEF log
    <3> DEFINE old == Times(taken[k])
               new == Append(old, clock)
    <3>3. old \in Seq(Int) /\ Len(old) = Len(taken[k]) /\ \A i \in 1 .. Len(old) : old[i] = taken[k][i].at
      BY <1>2, TimesOfLog
    <3>4. /\ Times(log) \in Seq(Int) /\ Len(Times(log)) = Len(log)
          /\ \A i \in 1 .. Len(log) : Times(log)[i] = log[i].at
      BY <3>2, TimesOfLog
    <3> HIDE DEF old
    <3>5. /\ new \in Seq(Int) /\ Len(new) = Len(old) + 1 /\ new[Len(old) + 1] = clock
          /\ \A i \in 1 .. Len(old) : new[i] = old[i]
      BY <1>2, <3>3
    <3> HIDE DEF new
    <3>6. \A i \in 1 .. Len(new) : Times(log)[i] = new[i]
      <4> SUFFICES ASSUME NEW i \in 1 .. Len(new) PROVE Times(log)[i] = new[i]
        OBVIOUS
      <4>1. Times(log)[i] = log[i].at
        BY <3>2, <3>3, <3>4, <3>5
      <4>2. CASE i = Len(taken[k]) + 1
        BY <4>1, <4>2, <3>1, <3>2, <3>3, <3>5
      <4>3. CASE i \in 1 .. Len(taken[k])
        BY <4>1, <4>3, <3>2, <3>3, <3>5
      <4> QED  BY <4>2, <4>3, <3>2, <3>3, <3>5
    <3>7. Times(log) = new
      BY <3>2, <3>3, <3>4, <3>5, <3>6, SeqEqual
    <3> QED  BY <3>7 DEF new, old
  <2> HIDE DEF log
  <2>3. Allowed' = [Allowed EXCEPT ![k] = Append(@, clock)]
    <3>1. \A j \in Clients : taken'[j] = IF j = k THEN log ELSE taken[j]
      BY <1>2, <2>1
    <3>2. Allowed' = [j \in Clients |-> Times(taken'[j])]
      BY DEF Allowed, Times
    <3> QED  BY <1>2, <2>2, <3>1, <3>2 DEF Allowed
  <2>4. Asked' = Asked /\ Verdicts' = [Verdicts EXCEPT ![c] = "allowed"]
    BY <1>5, <2>1 DEF Answers
  <2>5. Bucket!MayBeAllowed(Asked[c])
    BY <1>3, <1>4, <2>1
  <2> QED
    BY <1>1, <1>4, <2>3, <2>4, <2>5 DEF Bucket!Allow, Asked, Verdicts, Allowed, Times, Bucket!MayBeAllowed
<1>7. CASE Memory!Deny(c)
  <2>1. /\ tokens < Interval /\ UNCHANGED taken
        /\ call' = [call EXCEPT ![c] = [pc |-> "denied", key |-> @.key, now |-> 0]]
    BY <1>7 DEF Memory!Deny, Memory!Return, tokens
  <2>2. tokens \in Int
    BY <1>1, <1>2, MemoryFinds DEF tokens, LimiterInvariant, Typed
  <2>3. ~ Bucket!MayBeAllowed(Asked[c])
    BY <1>3, <1>4, <2>1, <2>2, Constants
  <2>4. Asked' = Asked /\ Verdicts' = [Verdicts EXCEPT ![c] = "denied"] /\ Allowed' = Allowed
    BY <1>5, <2>1 DEF Answers, Allowed, Times
  <2> QED
    BY <1>1, <1>4, <2>3, <2>4 DEF Bucket!Deny, Asked, Verdicts, Allowed, Times, Bucket!MayBeAllowed
<1> QED  BY <1>1, <1>6, <1>7 DEF OfMemory, Memory!Serve

(* If ten minutes cover a refill, every step of the memory limiter is one   *)
(* of the everlasting bucket: no answer shows that buckets are dropped      *)
(* (internal/ratelimit/memory.go:39-73).                                    *)
THEOREM MemoryKeepsTheBucket ==
  ASSUME "memory" \in Backends => RefillCovered
  PROVE  Spec => MemoryIsTokenBucket
<1>1. LimiterInvariant /\ [Next]_vars => LimiterInvariant'
  BY LimiterStep
<1>2. AnswerInvariant /\ [Next]_vars => AnswerInvariant'
  BY AnswerStep
<1>3. LimiterInvariant /\ AnswerInvariant /\ [Next]_vars
        => [backend = "memory" => [Bucket!Next]_(Bucket!vars)]_vars
  <2> SUFFICES ASSUME LimiterInvariant, AnswerInvariant, Next, backend = "memory"
               PROVE  Bucket!Next
    OBVIOUS
  <2>1. RefillCovered
    BY DEF LimiterInvariant, Typed
  <2>2. ASSUME NEW c \in Callers, Serve(c) PROVE Bucket!Next
    BY <2>1, <2>2, BucketAnswerStep DEF Bucket!Next
  <2>3. ASSUME NEW c \in Callers, NEW k \in Clients, Arrive(c, k) PROVE Bucket!Next
    BY <2>3, BucketAskStep DEF Bucket!Next
  <2>4. CASE Tick
    BY <2>4, BucketTickStep DEF Bucket!Next
  <2>5. ~ Restart /\ \A m : ~ Lose(m)
    BY DEF Restart, Lose, OfRedis
  <2> QED  BY <2>2, <2>3, <2>4, <2>5 DEF Next
<1> QED  BY <1>1, <1>2, <1>3, LimiterInit, AnswerInit, PTL DEF Spec, MemoryIsTokenBucket
=============================================================================
