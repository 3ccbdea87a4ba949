----------------------------- MODULE RateLimit -----------------------------
(***************************************************************************)
(* internal/ratelimit/limiter.go: what the two limiters have in common,    *)
(* and what is asked of both.  The goroutines of withRateLimit call Allow  *)
(* with a client's address.                                                *)
(*                                                                         *)
(* Tokens are counted in the time it takes to earn them: one token is      *)
(* Interval units of time, a full bucket Burst * Interval.                 *)
(***************************************************************************)
EXTENDS Integers, Sequences

CONSTANTS
  Callers,  \* goroutines that call Allow, one call at a time
  Clients,  \* keys: client addresses
  Null,     \* no bucket
  Burst,    \* I8SL_GENERATION_BURST
  Interval, \* 60 / I8SL_GENERATION_RATE_PER_MINUTE seconds
  TTL,      \* ten minutes
  MaxWait,  \* how long after its reading of the clock a call can take effect
  MaxClock, \* bound: the clock stops here
  MaxTaken  \* bound: a client that has had so many tokens asks for no more

ASSUME RateAssumption ==
  /\ Clients # {}
  /\ Burst \in Nat \ {0} /\ Interval \in Nat \ {0}
  /\ TTL \in Nat /\ MaxWait \in Nat /\ MaxClock \in Nat /\ MaxTaken \in Nat
ASSUME NoBucketAssumption == Null \notin [tokens : Int, last : Int, keptUntil : Int]

Full == Burst * Interval

VARIABLES
  clock,
  call,    \* caller -> its last Allow: where it is ("idle": none, or it failed),
           \* the key, and until it returns its reading of the clock
  buckets, \* client -> its bucket
  taken    \* client -> the tokens taken from its buckets, a history

(* at: when; read: the clock reading the token was taken by; excess: the    *)
(* time that the client's buckets had been given for nothing until then.    *)
Take == [at : Int, read : Int, excess : Int]

Answers == {"allowed", "denied", "idle"}

RateInit ==
  /\ clock = 0
  /\ call = [c \in Callers |-> [pc |-> "idle", key |-> CHOOSE k \in Clients : TRUE, now |-> 0]]
  /\ buckets = [k \in Clients |-> Null]
  /\ taken = [k \in Clients |-> <<>>]

(* Variant: math.min is left out.                                           *)
RefilledPastFull(tokens, elapsed) == tokens + elapsed

(* A bucket after elapsed time: rate.Limiter's advance, and the script's.   *)
Refilled(tokens, elapsed) ==
  IF tokens + elapsed > Full THEN Full ELSE tokens + elapsed

(* Allow reads the clock and goes on to the mutex, or to Redis.             *)
Ask(c, k, now) ==
  /\ call[c].pc # "asking"
  /\ Len(taken[k]) < MaxTaken
  /\ call' = [call EXCEPT ![c] = [pc |-> "asking", key |-> k, now |-> now]]

Return(c, verdict) == call' = [call EXCEPT ![c] = [pc |-> verdict, key |-> @.key, now |-> 0]]

Record(k, take) == taken' = [taken EXCEPT ![k] = Append(@, take)]

-----------------------------------------------------------------------------
(* What is asked of a limiter                                               *)

(* In any span of time a client takes no more tokens than a full bucket and *)
(* what is earned in that span, up to the time its buckets got for nothing. *)
InLimit(log, tolerance) ==
  \A i, j \in DOMAIN log : i <= j =>
    (j - i + 1) * Interval
      <= Full + (log[j].at - log[i].at) + tolerance + (log[j].excess - log[i].excess)

LimitKept(tolerance) == \A k \in Clients : InLimit(taken[k], tolerance)

(* Since one of its earlier tokens the client has used up all that it had   *)
(* and earned: one more would have been too many at time t.                 *)
Spent(log, t) ==
  \E i \in DOMAIN log :
    (Len(log) - i + 2) * Interval
      > Full + (IF t > log[i].read THEN t - log[i].read ELSE 0)
=============================================================================
