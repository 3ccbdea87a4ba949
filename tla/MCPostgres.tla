----------------------------- MODULE MCPostgres -----------------------------
(***************************************************************************)
(* PostgresShortener with values for TLC.  Two units of time are a second, *)
(* so a rule lives for one or two ticks; stored times are even.            *)
(***************************************************************************)
EXTENDS PostgresShortener, TLC

CONSTANTS c1, c2, r1, r2, r3, r4, r5, i1, i2

Input(alias, ttl, max) == [url |-> "public", alias |-> alias, ttl |-> ttl, max |-> max]

Wants(create, resolve, delete, get) ==
  [r \in Requests |->
     {op \in {"create"} : r \in create} \cup {op \in {"resolve"} : r \in resolve}
       \cup {op \in {"delete"} : r \in delete} \cup {op \in {"get"} : r \in get}]

OneHost == [r \in Requests |-> i1]

(* race: one alias, used up by one redirect or expired by the clock; two    *)
(* resolves race with each other, a delete, a second create and the sweeps. *)
RaceInputs == {Input(c1, 0, 1), Input(c1, 1, 0)}
RaceWorkload == Wants({r1, r4}, {r2, r3}, {r4}, {r4})
Resolvers == Permutations({r2, r3})

(* hosts: two instances, each with a cleaner and a single connection, and   *)
(* two codes for rules that expire; codes are generated or asked for.       *)
HostsInputs == {Input(Null, 1, 0), Input(c1, 0, 1)}
HostsWorkload == Wants({r1, r2}, {r3}, {r2, r3}, {})
TwoHosts == (r1 :> i1) @@ (r2 :> i2) @@ (r3 :> i1)

(* promises: every operation and every kind of input, times rounded to two  *)
(* units.                                                                   *)
PromisesInputs ==
  {Input(c1, 1, 1), Input(Null, 0, 2), Input(BadCode, 0, 0)}
PromisesWorkload == Wants({r1, r3}, {r2}, {r3}, {r3})

(* progress: one connection for two requests and the cleaner.               *)
ProgressInputs == {Input(c1, 1, 0), Input(Null, 0, 1)}
ProgressWorkload == Wants({r1, r3}, {r2, r3}, {r3}, {})

(* late_redirect: a resolve waits for the one connection while the clock    *)
(* passes the rule's expiry.                                                *)
LateInputs == {Input(c1, 1, 0)}
LateWorkload == Wants({r1}, {r2, r3}, {}, {})

(* huge_ttl: five seconds of two units each do not fit a Duration that      *)
(* holds -8 .. 7, as 2^34 seconds do not fit one of nanoseconds.            *)
HugeInputs == {Input(c1, ttl, 0) : ttl \in {1, 5}}
HugeWorkload == Wants({r1, r3}, {r2}, {}, {})
=============================================================================
