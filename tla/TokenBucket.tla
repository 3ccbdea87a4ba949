---------------------------- MODULE TokenBucket ----------------------------
(***************************************************************************)
(* The limit as clients are to see it, with no bucket in it: a call is     *)
(* allowed exactly when, counting it, no span of time holds more allowed   *)
(* calls than Burst and what is earned in the span.                        *)
(***************************************************************************)
EXTENDS Integers, Sequences

CONSTANTS Callers, Clients, Burst, Interval

VARIABLES
  clock,
  asked,   \* caller -> the client it asks for
  verdict, \* caller -> the answer, or "asking"
  allowed  \* client -> when its calls were allowed

vars == <<clock, asked, verdict, allowed>>

Init ==
  /\ clock = 0
  /\ asked \in [Callers -> Clients]
  /\ verdict = [c \in Callers |-> "idle"]
  /\ allowed = [k \in Clients |-> <<>>]

MayBeAllowed(k) ==
  \A i \in DOMAIN allowed[k] :
    (Len(allowed[k]) - i + 2) * Interval <= Burst * Interval + (clock - allowed[k][i])

Tick == clock' = clock + 1 /\ UNCHANGED <<asked, verdict, allowed>>

Ask(c, k) ==
  /\ verdict[c] # "asking"
  /\ asked' = [asked EXCEPT ![c] = k]
  /\ verdict' = [verdict EXCEPT ![c] = "asking"]
  /\ UNCHANGED <<clock, allowed>>

Allow(c) ==
  /\ verdict[c] = "asking"
  /\ MayBeAllowed(asked[c])
  /\ allowed' = [allowed EXCEPT ![asked[c]] = Append(@, clock)]
  /\ verdict' = [verdict EXCEPT ![c] = "allowed"]
  /\ UNCHANGED <<clock, asked>>

Deny(c) ==
  /\ verdict[c] = "asking"
  /\ ~MayBeAllowed(asked[c])
  /\ verdict' = [verdict EXCEPT ![c] = "denied"]
  /\ UNCHANGED <<clock, asked, allowed>>

Next == Tick \/ \E c \in Callers : Allow(c) \/ Deny(c) \/ \E k \in Clients : Ask(c, k)

Spec == Init /\ [][Next]_vars
=============================================================================
