------------------------ MODULE PostgresShortener ------------------------
(***************************************************************************)
(* The service over PostgreSQL: internal/storage/postgres/store.go, run by *)
(* any number of server instances on one database, with the cleanup        *)
(* goroutine of internal/app/app.go in each.  Statements run at READ       *)
(* COMMITTED; each instance has a pool of connections of its own.          *)
(*                                                                         *)
(* lock is external: the row locks of PostgreSQL, held by the transaction  *)
(* of a resolve or by the DELETE of a sweep.                               *)
(***************************************************************************)
EXTENDS Service, Functions

CONSTANTS
  Instances, \* server processes
  Cleaners,  \* those of them with I8SL_CLEANUP_INTERVAL > 0
  Host,      \* the instance that serves each request
  PoolSize   \* SetMaxOpenConns(10)

ASSUME ProcessAssumption ==
  /\ Cleaners \subseteq Instances
  /\ Host \in [Requests -> Instances]
  /\ Requests \cap Instances = {}
  /\ Null \notin Instances
  /\ PoolSize \in Nat \ {0}

VARIABLES
  lock, \* code -> the transaction that holds the row's lock
  sweep \* cleaner -> its DeleteExpired

service == <<clock, faults, rules, pc, call, tries, seen, reply>>
vars == <<service, lock, sweep>>

(* code and owner together are the row version a DELETE's snapshot found.   *)
IdleSweep == [pc |-> "idle", now |-> 0, targets |-> {}]

Init ==
  /\ ServiceInit
  /\ lock = [c \in Codes |-> Null]
  /\ sweep = [i \in Cleaners |-> IdleSweep]

Unlock(holder) == [c \in Codes |-> IF lock[c] = holder THEN Null ELSE lock[c]]

Connections(i) ==
  {r \in Requests : Host[r] = i /\ pc[r] \in InSession}
    \cup {k \in Cleaners : k = i /\ sweep[k].pc = "connected"}

FreeConnection(i) == Cardinality(Connections(i)) < PoolSize

-----------------------------------------------------------------------------
(* The steps of calls                                                       *)

Tick == TimePasses /\ UNCHANGED <<lock, sweep>>

Receive(r) == (ArriveCreate(r) \/ ArriveLookup(r)) /\ UNCHANGED <<lock, sweep>>

TakeConnection(r) ==
  /\ FreeConnection(Host[r])
  /\ Connect(r)
  /\ UNCHANGED <<lock, sweep>>

(* INSERT waits for a transaction that has deleted or updated the row that  *)
(* holds its key; a lock taken by FOR UPDATE alone does not hold it up.     *)
BeingWritten(c) ==
  \/ lock[c] \in Cleaners
  \/ lock[c] \in Requests /\ pc[lock[c]] = "updated"

InsertRow(r, c) ==
  /\ ~BeingWritten(c)
  /\ Insert(r, c) \/ AliasTaken(r, c) \/ Collide(r, c)
  /\ UNCHANGED <<lock, sweep>>

(* Statements that find no row, or read one without locking it.             *)
ReadRow(r) ==
  /\ Missing(r) \/ ReadRule(r)
  /\ UNCHANGED <<lock, sweep>>

(* The response to a get, which has given its connection back.              *)
Respond(r) == ShowRule(r) /\ UNCHANGED <<lock, sweep>>

(* Variant: SELECT without FOR UPDATE.                                      *)
LockRowWithoutLock(r) ==
  /\ Load(r)
  /\ lock[call[r].code] = Null
  /\ UNCHANGED <<lock, sweep>>

(* SELECT ... FOR UPDATE                                                    *)
LockRow(r) ==
  /\ Load(r)
  /\ lock[call[r].code] = Null
  /\ lock' = [lock EXCEPT ![call[r].code] = r]
  /\ UNCHANGED sweep

UpdateRow(r) == UpdateUsage(r) /\ UNCHANGED <<lock, sweep>>

(* Variant: no deferred Rollback.                                           *)
EndResolveLocked(r) ==
  /\ \/ RefuseExpired(r) /\ UNCHANGED lock
     \/ CommitUsage(r) /\ lock' = Unlock(r)
  /\ UNCHANGED sweep

(* The deferred Rollback, or the Commit, frees the lock.                    *)
EndResolve(r) ==
  /\ RefuseExpired(r) \/ CommitUsage(r)
  /\ lock' = Unlock(r)
  /\ UNCHANGED sweep

DeleteRow(r) ==
  /\ Delete(r)
  /\ lock[call[r].code] = Null
  /\ UNCHANGED <<lock, sweep>>

(* Variant: every error of a lookup is taken for sql.ErrNoRows.             *)
FailMissing(r) ==
  /\ AtStore(r)
  /\ IF call[r].op = "create" THEN GiveUp({r})
     ELSE /\ Fault /\ Answer(r, "not_found", Null, 0)
          /\ UNCHANGED <<clock, rules, call, tries, seen>>
  /\ lock' = Unlock(r)
  /\ UNCHANGED sweep

(* A statement fails, or a wait is cut short by its context; the deferred   *)
(* Rollback runs.                                                           *)
Fail(r) ==
  /\ AtStore(r)
  /\ GiveUp({r})
  /\ lock' = Unlock(r)
  /\ UNCHANGED sweep

-----------------------------------------------------------------------------
(* DeleteExpired: one DELETE statement, run by a goroutine per instance     *)

(* Variants: a rule with one use left goes too; used-up rules are left.     *)
StaleOneUseEarly(row, now) ==
  \/ row.expiresAt # Null /\ row.expiresAt <= StoredTime(now)
  \/ row.maxUsages # Null /\ row.usedCount + 1 >= row.maxUsages

StaleByTTLOnly(row, now) ==
  row.expiresAt # Null /\ row.expiresAt <= StoredTime(now)

(* The statement's WHERE clause.                                            *)
Stale(row, now) ==
  \/ row.expiresAt # Null /\ row.expiresAt <= StoredTime(now)
  \/ row.maxUsages # Null /\ row.usedCount >= row.maxUsages

SweepTick(i) ==
  /\ sweep[i].pc = "idle"
  /\ sweep' = [sweep EXCEPT ![i].pc = "waiting", ![i].now = clock]
  /\ UNCHANGED <<service, lock>>

SweepConnect(i) ==
  /\ sweep[i].pc = "waiting"
  /\ FreeConnection(i)
  /\ sweep' = [sweep EXCEPT ![i].pc = "connected",
       ![i].targets = {t \in [code : Codes, owner : Requests] :
          Holds(t.code, t.owner) /\ Stale(rules[t.code], sweep[i].now)}]
  /\ UNCHANGED <<service, lock>>

(* Variant: the codes to delete are read first and deleted by code after.   *)
SweepRowByCode(i) ==
  \E t \in sweep[i].targets :
    /\ sweep' = [sweep EXCEPT ![i].targets = @ \ {t}]
    /\ lock[t.code] = Null /\ lock' = [lock EXCEPT ![t.code] = i]
    /\ UNCHANGED service

(* The statement reaches a row of its snapshot: it locks it, after a wait   *)
(* if it must, or skips it if it is gone.                                   *)
SweepRow(i) ==
  \E t \in sweep[i].targets :
    /\ sweep' = [sweep EXCEPT ![i].targets = @ \ {t}]
    /\ IF Holds(t.code, t.owner) /\ Stale(rules[t.code], sweep[i].now)
         THEN lock[t.code] = Null /\ lock' = [lock EXCEPT ![t.code] = i]
         ELSE UNCHANGED lock
    /\ UNCHANGED service

SweepCommit(i) ==
  /\ sweep[i].pc = "connected" /\ sweep[i].targets = {}
  /\ rules' = [c \in Codes |-> IF lock[c] = i THEN Null ELSE rules[c]]
  /\ lock' = Unlock(i)
  /\ sweep' = [sweep EXCEPT ![i] = IdleSweep]
  /\ UNCHANGED <<clock, faults, pc, call, tries, seen, reply>>

(* The statement is rolled back; runCleanup logs the error and goes on.     *)
SweepAbort(i) ==
  /\ lock' = Unlock(i)
  /\ sweep' = [sweep EXCEPT ![i] = IdleSweep]
  /\ UNCHANGED <<clock, rules, pc, call, tries, seen, reply>>

SweepFail(i) ==
  /\ sweep[i].pc # "idle"
  /\ Fault
  /\ SweepAbort(i)

(* PostgreSQL breaks a cycle of lock waits by aborting one of its members.  *)
WaitsFor(i, j) == j # i /\ \E t \in sweep[i].targets : lock[t.code] = j

Deadlocked(i) ==
  \E S \in SUBSET Cleaners :
    i \in S /\ \E next \in Bijection(S, S) : \A j \in S : WaitsFor(j, next[j])

SweepDeadlock(i) ==
  /\ Deadlocked(i)
  /\ SweepAbort(i)
  /\ UNCHANGED faults

-----------------------------------------------------------------------------
(* An instance dies: PostgreSQL rolls its transactions back, its clients    *)
(* see their connections drop, and it is started again.                     *)
Served(i) == {r \in Requests : Host[r] = i /\ Running(r)}

Crash(i) ==
  /\ Served(i) # {}
  /\ GiveUp(Served(i))
  /\ lock' = [c \in Codes |-> IF lock[c] \in Served(i) \cup {i} THEN Null ELSE lock[c]]
  /\ sweep' = [k \in Cleaners |-> IF k = i THEN IdleSweep ELSE sweep[k]]

Serve(r) ==
  \/ TakeConnection(r) \/ ReadRow(r) \/ Respond(r)
  \/ LockRow(r) \/ UpdateRow(r) \/ EndResolve(r) \/ DeleteRow(r) \/ \E c \in Codes : InsertRow(r, c)

Sweep(i) ==
  \/ SweepTick(i) \/ SweepConnect(i) \/ SweepRow(i) \/ SweepCommit(i)
  \/ SweepDeadlock(i)

Next ==
  \/ Tick
  \/ \E r \in Requests : Receive(r) \/ Serve(r) \/ Fail(r)
  \/ \E i \in Cleaners : Sweep(i) \/ SweepFail(i)
  \/ \E i \in Instances : Crash(i)

Spec == Init /\ [][Next]_vars

(* database/sql hands connections out in order of arrival and PostgreSQL    *)
(* grants row locks in order, so nobody is passed over for ever: strong     *)
(* fairness.  Nothing obliges a client to call or the clock to advance.     *)
Fairness ==
  /\ \A r \in Requests : SF_vars(Serve(r))
  /\ \A i \in Cleaners : SF_vars(Sweep(i))

FairSpec == Spec /\ Fairness

-----------------------------------------------------------------------------
Transactions == Requests \cup Cleaners

Sweeps == [pc : {"idle", "waiting", "connected"}, now : Nat,
           targets : SUBSET [code : Codes, owner : Requests]]

(* Every variable stays in its domain; the clocks the code compares and     *)
(* stores are readings of s.Now(), and only validated calls go to the store.*)
TypeOK ==
  /\ ServiceTypeOK
  /\ lock \in [Codes -> Transactions \cup {Null}]
  /\ sweep \in [Cleaners -> Sweeps]

(* Whoever has locked a row has not finished with it: with                  *)
(* CheckedRowUnchanged, why nobody else can change it.                      *)
LocksHeld ==
  \A r \in Requests : pc[r] \in {"locked", "updated"} => lock[call[r].code] = r

(* Row locks keep every checked row to one transaction, and so redirects of *)
(* a rule to distinct numbers up to its limit: an inductive invariant.      *)
LockedUsage == TypeOK /\ LocksHeld /\ UsageInvariant

(* A sweep locks rows that its own, earlier reading of the clock condemns,  *)
(* and what it has locked nobody changes: why NothingLostEarly.             *)
SweepsLockStale ==
  \A i \in Cleaners :
    /\ sweep[i].now <= clock
    /\ sweep[i].pc # "connected" =>
         sweep[i].targets = {} /\ \A c \in Codes : lock[c] # i
    /\ \A c \in Codes : lock[c] = i =>
         rules[c] # Null /\ Stale(rules[c], sweep[i].now)
==========================================================================
