-------------------------- MODULE SqliteShortener --------------------------
(***************************************************************************)
(* The service over SQLite: internal/storage/sqlite/store.go in one server *)
(* process, with the cleanup goroutine of internal/app/app.go.  The        *)
(* process has one connection: whoever has it has the database.  Times are *)
(* stored as RFC3339Nano text; rows are read back as times, but the sweep  *)
(* compares them as text.                                                  *)
(***************************************************************************)
EXTENDS Service

CONSTANT Units \* what a written time may end in: a second, a tenth of it, ... , 1 ns

ASSUME UnitsAssumption ==
  /\ {1, Second} \subseteq Units
  /\ Units \subseteq 1 .. Second
  /\ \A u \in Units : Second % u = 0

VARIABLES
  conn, \* the request that has the connection
  sweep \* the cleanup goroutine and the s.Now() it passes to DeleteExpired

service == <<clock, faults, rules, pc, call, tries, seen, reply>>
vars == <<service, conn, sweep>>

IdleSweep == [pc |-> "idle", now |-> 0]

Init == ServiceInit /\ conn = Null /\ sweep = IdleSweep

-----------------------------------------------------------------------------
(* The text of a time, as far as its order goes                             *)

(* RFC3339Nano trims trailing zeros: t is written to the unit it ends in.   *)
Unit(t) == CHOOSE u \in Units : t % u = 0 /\ \A v \in Units : t % v = 0 => v <= u

(* <= on the text.  The Z that ends a time sorts after the point and every  *)
(* digit, so that a time comes after all those that begin with its digits.  *)
TextAtMost(t, now) ==
  \/ t + Unit(t) < now + Unit(now)
  \/ t + Unit(t) = now + Unit(now) /\ Unit(t) <= Unit(now)

(* Variant: a rule with one use left goes too.                              *)
StaleOneUseEarly(row, now) ==
  \/ row.expiresAt # Null /\ TextAtMost(row.expiresAt, now)
  \/ row.maxUsages # Null /\ row.usedCount + 1 >= row.maxUsages

(* The WHERE clause of DeleteExpired.                                       *)
Stale(row, now) ==
  \/ row.expiresAt # Null /\ TextAtMost(row.expiresAt, now)
  \/ row.maxUsages # Null /\ row.usedCount >= row.maxUsages

-----------------------------------------------------------------------------
(* The steps of calls                                                       *)

Tick == TimePasses /\ UNCHANGED <<conn, sweep>>

Receive(r) == (ArriveCreate(r) \/ ArriveLookup(r)) /\ UNCHANGED <<conn, sweep>>

TakeConnection(r) ==
  /\ conn = Null
  /\ Connect(r)
  /\ conn' = r
  /\ UNCHANGED sweep

(* Variant: no transaction, the SELECT gives its connection back.           *)
InTransactionUnheld(r) ==
  /\ \/ Load(r) /\ conn' = Null
     \/ UpdateUsage(r) /\ UNCHANGED conn
  /\ UNCHANGED sweep

(* The SELECT and the UPDATE of a resolve: the transaction keeps its        *)
(* connection.                                                              *)
InTransaction(r) ==
  /\ Load(r) \/ UpdateUsage(r)
  /\ UNCHANGED <<conn, sweep>>

(* A statement on its own, or the end of a transaction, gives it back.      *)
Finish(r) ==
  /\ \/ \E c \in Codes : Insert(r, c) \/ AliasTaken(r, c) \/ Collide(r, c)
     \/ Missing(r) \/ ReadRule(r) \/ Delete(r)
     \/ RefuseExpired(r) \/ CommitUsage(r)
  /\ conn' = Null
  /\ UNCHANGED sweep

(* The response to a get, built while others may have the connection.       *)
Respond(r) == ShowRule(r) /\ UNCHANGED <<conn, sweep>>

Serve(r) == TakeConnection(r) \/ InTransaction(r) \/ Finish(r) \/ Respond(r)

(* A statement fails, or a wait is cut short by its context.                *)
Fail(r) ==
  /\ AtStore(r)
  /\ GiveUp({r})
  /\ conn' = IF conn = r THEN Null ELSE conn
  /\ UNCHANGED sweep

-----------------------------------------------------------------------------
(* DeleteExpired, and the death of the process                              *)

SweepTick ==
  /\ sweep.pc = "idle"
  /\ sweep' = [pc |-> "waiting", now |-> clock]
  /\ UNCHANGED <<service, conn>>

SweepDelete ==
  /\ sweep.pc = "waiting"
  /\ conn = Null
  /\ rules' = [c \in Codes |->
       IF rules[c] # Null /\ Stale(rules[c], sweep.now) THEN Null ELSE rules[c]]
  /\ sweep' = IdleSweep
  /\ UNCHANGED <<clock, faults, pc, call, tries, seen, reply, conn>>

(* Variant: runCleanup returns on an error.                                 *)
SweepFailStopping ==
  /\ sweep.pc = "waiting"
  /\ Fault
  /\ sweep' = [sweep EXCEPT !.pc = "stopped"]
  /\ UNCHANGED <<clock, rules, pc, call, tries, seen, reply, conn>>

(* runCleanup logs the error and goes on.                                   *)
SweepFail ==
  /\ sweep.pc = "waiting"
  /\ Fault
  /\ sweep' = IdleSweep
  /\ UNCHANGED <<clock, rules, pc, call, tries, seen, reply, conn>>

(* The process dies and is started again: the file keeps what was committed.*)
Crash ==
  /\ {r \in Requests : Running(r)} # {}
  /\ GiveUp({r \in Requests : Running(r)})
  /\ conn' = Null
  /\ sweep' = IdleSweep

Next ==
  \/ Tick \/ SweepTick \/ SweepDelete \/ SweepFail \/ Crash
  \/ \E r \in Requests : Receive(r) \/ Serve(r) \/ Fail(r)

Spec == Init /\ [][Next]_vars

(* database/sql hands the connection out in order of arrival, so nobody is  *)
(* passed over for ever: strong fairness.  The clock runs.                  *)
Fairness ==
  /\ \A r \in Requests : SF_vars(Serve(r))
  /\ SF_vars(SweepTick) /\ SF_vars(SweepDelete)
  /\ WF_vars(Tick)

FairSpec == Spec /\ Fairness

-----------------------------------------------------------------------------
(* Whoever is in the middle of a statement or a transaction has the         *)
(* connection: why the single connection does for SQLite what row locks do  *)
(* for PostgreSQL.                                                          *)
ConnectionHeld ==
  /\ \A r \in Requests : pc[r] \in InSession => conn = r
  /\ sweep \in [pc : {"idle", "waiting"}, now : Nat]

(* The reading of the clock that a sweep goes by is an earlier one.         *)
SweepReadBefore == sweep.now <= clock

(* The connection keeps every checked row to one transaction, and so        *)
(* redirects of a rule to distinct numbers up to its limit: an inductive    *)
(* invariant.                                                               *)
SerialUsage == ConnectionHeld /\ SweepReadBefore /\ UsageInvariant
============================================================================
