--------------------------- MODULE MemoryLimiter ---------------------------
(***************************************************************************)
(* internal/ratelimit/memory.go: a token bucket per client in a map, under *)
(* a mutex.  Allow reads the clock, then waits for the mutex; cleanup goes *)
(* by that reading, the bucket itself (golang.org/x/time/rate) by one of   *)
(* its own.  A bucket is [tokens, last, keptUntil]; keptUntil stands for   *)
(* lastSeen + ttl.                                                         *)
(***************************************************************************)
EXTENDS RateLimit

vars == <<clock, call, buckets, taken>>

Init == RateInit

(* Bound: nobody waits for the mutex for longer than MaxWait.               *)
Tick ==
  /\ clock < MaxClock
  /\ \A c \in Callers : call[c].pc = "asking" => clock < call[c].now + MaxWait
  /\ clock' = clock + 1
  /\ UNCHANGED <<call, buckets, taken>>

Arrive(c, k) ==
  /\ Ask(c, k, clock)
  /\ UNCHANGED <<clock, buckets, taken>>

(* Variant: >= for >.                                                       *)
CleanedEarly(now) ==
  [k \in Clients |-> IF buckets[k] # Null /\ now >= buckets[k].keptUntil
                     THEN Null ELSE buckets[k]]

(* cleanup: the buckets with now - lastSeen > ttl are dropped.              *)
Cleaned(now) ==
  [k \in Clients |-> IF buckets[k] # Null /\ now > buckets[k].keptUntil
                     THEN Null ELSE buckets[k]]

(* A bucket of rate.Limiter starts full.  Its Allow advances it to the      *)
(* present, and leaves it as it was if there is no token.                   *)
Tokens(bucket) ==
  IF bucket = Null THEN Full ELSE Refilled(bucket.tokens, clock - bucket.last)

(* Variant: lastSeen is set when the entry is made and then left alone.     *)
UsedSeenOnce(bucket, now) ==
  [tokens    |-> Tokens(bucket) - Interval, last |-> clock,
   keptUntil |-> IF bucket = Null THEN now + TTL ELSE bucket.keptUntil]

Used(bucket, now) ==
  [tokens |-> Tokens(bucket) - Interval, last |-> clock, keptUntil |-> now + TTL]

(* The critical section.                                                    *)
Allow(c) ==
  LET k == call[c].key
      kept == Cleaned(call[c].now)
  IN  /\ call[c].pc = "asking"
      /\ Tokens(kept[k]) >= Interval
      /\ buckets' = [kept EXCEPT ![k] = Used(@, call[c].now)]
      /\ Record(k, [at |-> clock, read |-> clock, excess |-> 0])
      /\ Return(c, "allowed")
      /\ UNCHANGED clock

Deny(c) ==
  LET k == call[c].key
      kept == Cleaned(call[c].now)
  IN  /\ call[c].pc = "asking"
      /\ Tokens(kept[k]) < Interval
      /\ buckets' = [kept EXCEPT ![k].keptUntil = call[c].now + TTL]
      /\ Return(c, "denied")
      /\ UNCHANGED <<clock, taken>>

Serve(c) == Allow(c) \/ Deny(c)

Next == Tick \/ \E c \in Callers : Serve(c) \/ \E k \in Clients : Arrive(c, k)

Spec == Init /\ [][Next]_vars

Fairness == \A c \in Callers : WF_vars(Serve(c))
=============================================================================
