--------------------------- MODULE PostgresProofs ---------------------------
(***************************************************************************)
(* The service over PostgreSQL, for any number of requests, instances,     *)
(* codes, connections, faults and for any inputs.  ServiceProofs shows     *)
(* that the steps of calls keep UsageInvariant as long as nobody changes a *)
(* row that another transaction has checked; here the row locks show that. *)
(* What HistoryProofs and BookProofs show of calls then holds of the       *)
(* system, once its own steps, sweeps and crashes, are seen to be harmless.*)
(***************************************************************************)
EXTENDS PostgresShortener, BookProofs

LockTable == [Codes -> Transactions \cup {Null}]

LEMMA LockedUsageParts ==
  LockedUsage <=> /\ UsageInvariant /\ LocksHeld
                  /\ lock \in LockTable /\ sweep \in [Cleaners -> Sweeps]
BY DEF LockedUsage, TypeOK, UsageInvariant, LockTable

LEMMA LockedUsageNext ==
  ASSUME UsageInvariant', LocksHeld', lock' \in LockTable,
         sweep' \in [Cleaners -> Sweeps]
  PROVE  LockedUsage'
BY DEF LockedUsage, TypeOK, UsageInvariant, LockTable

LEMMA UnlockType ==
  ASSUME lock \in LockTable, NEW holder
  PROVE  Unlock(holder) \in LockTable
BY DEF LockTable, Unlock

(* A request that checks a row holds its lock.                              *)
LEMMA CheckedLocked ==
  ASSUME UsageInvariant, LocksHeld, NEW q \in Requests, Checking(q)
  PROVE  /\ call[q].code \in Codes
         /\ lock[call[q].code] = q
         /\ q # Null
         /\ rules[call[q].code] \in Rule
BY UsageInvariantParts, CheckedRow, NullAssumption DEF LocksHeld, Checking

(* Locks that others hold on rows they check are not taken away.            *)
Unrobbed(S) ==
  \A q \in Requests \ S : Checking(q) => lock'[call[q].code] = lock[call[q].code]

LEMMA UnlockRobsNobodyElse ==
  ASSUME UsageInvariant, LocksHeld, NEW holder, lock' = Unlock(holder)
  PROVE  Unrobbed({holder})
BY CheckedLocked DEF Unrobbed, Unlock

-----------------------------------------------------------------------------
(* A step that leaves r neither checking nor in possession of others' locks *)
(* keeps LocksHeld.                                                         *)
LEMMA LocksHeldFrame ==
  ASSUME UsageInvariant, LocksHeld, NEW r \in Requests,
         OthersStay(r), Unrobbed({r}), ~Checking(r)'
  PROVE  LocksHeld'
BY DEF LocksHeld, OthersStay, Unrobbed, Checking

LEMMA ReceiveStep ==
  ASSUME LockedUsage, NEW r \in Requests, Receive(r)
  PROVE  LockedUsage'
<1>1. UsageInvariant' 
  BY LockedUsageParts, ArriveKeeps DEF Receive
<1>2. PICK newCall \in Call : Arrive(r, newCall)
  BY LockedUsageParts, UsageInvariantParts, Arrival DEF Receive
<1>3. OthersStay(r) /\ ~Checking(r)'
  BY <1>2, LockedUsageParts, UsageInvariantParts, ArriveMoves DEF Checking
<1>4. LocksHeld'
  BY <1>3, LockedUsageParts, LocksHeldFrame DEF Receive, Unrobbed
<1> QED
  BY <1>1, <1>4, LockedUsageParts, LockedUsageNext DEF Receive

(* Steps of calls, one by one: what each does to rows and locks of others,  *)
(* and whether it leaves r checking.                                        *)
LEMMA ServeStep ==
  ASSUME LockedUsage, NEW r \in Requests, Serve(r)
  PROVE  LockedUsage'
<1>1. /\ UsageInvariant /\ LocksHeld /\ ServiceTypeOK
      /\ lock \in LockTable /\ sweep \in [Cleaners -> Sweeps]
  BY LockedUsageParts, UsageInvariantParts
<1>2. Act(r) /\ sweep' = sweep
  BY DEF Serve, Act, TakeConnection, ReadRow, Respond, LockRow, UpdateRow, EndResolve,
         DeleteRow, InsertRow
<1>3. OthersStay(r) /\ Running(r) /\ call' = call
  BY <1>1, <1>2, ActMoves
<1>4. ASSUME Undisturbed({r}), LocksHeld', lock' \in LockTable
      PROVE  LockedUsage'
  BY <1>1, <1>2, <1>4, ActKeeps, LockedUsageNext
<1>5. ASSUME rules' = rules, lock' = lock, pc'[r] \notin {"locked", "updated"}
      PROVE  LockedUsage'
  <2>1. Undisturbed({r}) /\ Unrobbed({r}) /\ ~Checking(r)'
    BY <1>5 DEF Undisturbed, Unrobbed, Checking
  <2> QED
    BY <1>1, <1>3, <1>4, <1>5, <2>1, LocksHeldFrame
<1>6. CASE TakeConnection(r)
  BY <1>1, <1>5, <1>6 DEF TakeConnection, Connect, ServiceTypeOK
<1>7. CASE ReadRow(r) \/ Respond(r)
  BY <1>1, <1>5, <1>7
  DEF ReadRow, Respond, Missing, ReadRule, ShowRule, Answer, ServiceTypeOK
<1>8. ASSUME NEW c \in Codes, Insert(r, c), lock' = lock
      PROVE  LockedUsage'
  <2>1. ~Checking(r)'
    BY <1>1, <1>8, DeliverMoves DEF Insert, Checking, ServiceTypeOK
  <2>2. ASSUME NEW q \in Requests, Checking(q)
        PROVE  rules'[call[q].code] = rules[call[q].code]
    BY <1>1, <1>8, <2>2, CheckedLocked, NullRuleAssumption DEF Insert, ServiceTypeOK
  <2>3. Undisturbed({r}) /\ Unrobbed({r})
    BY <1>8, <2>2 DEF Undisturbed, Unrobbed
  <2> QED
    BY <1>1, <1>3, <1>4, <1>8, <2>1, <2>3, LocksHeldFrame
<1>9. ASSUME NEW c \in Codes, AliasTaken(r, c) \/ Collide(r, c), lock' = lock
      PROVE  LockedUsage'
  BY <1>1, <1>5, <1>9 DEF AliasTaken, Collide, Answer, ServiceTypeOK
<1>10. CASE LockRow(r)
  <2>1. call[r].code \in Codes /\ lock[call[r].code] = Null
    BY <1>1, <1>3, <1>10, UsageInvariantParts, AcceptedCall DEF LockRow, Load
  <2>2. /\ rules' = rules /\ r \in Transactions
        /\ lock' = [lock EXCEPT ![call[r].code] = r]
    BY <1>10 DEF LockRow, Load, Transactions
  <2>3. lock' \in LockTable
    BY <1>1, <2>2 DEF LockTable
  <2>4. Unrobbed({r})
    BY <1>1, <2>1, <2>2, CheckedLocked DEF Unrobbed, LockTable
  <2>5. LocksHeld'
    BY <1>1, <1>3, <2>1, <2>2, <2>4
    DEF LocksHeld, OthersStay, Unrobbed, Checking, LockTable
  <2> QED
    BY <1>4, <2>2, <2>3, <2>5 DEF Undisturbed
<1>11. CASE UpdateRow(r)
  <2>1. rules' = rules /\ lock' = lock /\ pc[r] = "locked"
    BY <1>11 DEF UpdateRow, UpdateUsage
  <2>2. LocksHeld'
    BY <1>1, <1>3, <2>1 DEF LocksHeld, OthersStay
  <2> QED
    BY <1>1, <1>4, <2>1, <2>2 DEF Undisturbed
<1>12. CASE EndResolve(r)
  <2>1. Checking(r) /\ ~Checking(r)' /\ lock' = Unlock(r)
    BY <1>1, <1>12, DeliverMoves
    DEF EndResolve, RefuseExpired, CommitUsage, Answer, Checking, ServiceTypeOK
  <2>2. Unrobbed({r}) /\ lock' \in LockTable
    BY <1>1, <2>1, UnlockRobsNobodyElse, UnlockType
  <2>3. \A d \in Codes \ {call[r].code} : rules'[d] = rules[d]
    BY <1>1, <1>12 DEF EndResolve, RefuseExpired, CommitUsage, ServiceTypeOK
  <2>4. Undisturbed({r})
    BY <1>1, <2>1, <2>3, CheckedLocked DEF Undisturbed
  <2> QED
    BY <1>1, <1>3, <1>4, <2>1, <2>2, <2>4, LocksHeldFrame
<1>13. CASE DeleteRow(r)
  <2>1. ~Checking(r)' /\ lock' = lock /\ lock[call[r].code] = Null
    BY <1>1, <1>13, DeliverMoves DEF DeleteRow, Delete, Checking, ServiceTypeOK
  <2>2. \A d \in Codes \ {call[r].code} : rules'[d] = rules[d]
    BY <1>1, <1>13 DEF DeleteRow, Delete, ServiceTypeOK
  <2>3. Undisturbed({r}) /\ Unrobbed({r})
    BY <1>1, <2>1, <2>2, CheckedLocked DEF Undisturbed, Unrobbed
  <2> QED
    BY <1>1, <1>3, <1>4, <2>1, <2>3, LocksHeldFrame
<1> QED
  BY <1>6, <1>7, <1>8, <1>9, <1>10, <1>11, <1>12, <1>13 DEF Serve, InsertRow

-----------------------------------------------------------------------------
(* Calls that give up release their own locks and no others.                *)
LEMMA GiveUpStep ==
  ASSUME LockedUsage, NEW S \in SUBSET Requests, GiveUp(S),
         Unrobbed(S), lock' \in LockTable, sweep' \in [Cleaners -> Sweeps]
  PROVE  LockedUsage'
<1>1. UsageInvariant'
  BY LockedUsageParts, GiveUpKeeps
<1>2. LocksHeld'
  BY LockedUsageParts DEF GiveUp, LocksHeld, Unrobbed, Checking
<1> QED
  BY <1>1, <1>2, LockedUsageNext

LEMMA FailStep ==
  ASSUME LockedUsage, NEW r \in Requests, Fail(r)
  PROVE  LockedUsage'
<1>1. Unrobbed({r}) /\ lock' \in LockTable /\ sweep' \in [Cleaners -> Sweeps]
  BY LockedUsageParts, UnlockRobsNobodyElse, UnlockType DEF Fail
<1> QED
  BY <1>1, GiveUpStep DEF Fail

LEMMA CrashStep ==
  ASSUME LockedUsage, NEW i \in Instances, Crash(i)
  PROVE  LockedUsage'
<1>1. Served(i) \in SUBSET Requests /\ i \notin Requests
  BY ProcessAssumption DEF Served
<1>2. IdleSweep \in Sweeps
  BY DEF IdleSweep, Sweeps
<1>3. lock' \in LockTable /\ sweep' \in [Cleaners -> Sweeps]
  BY <1>2, LockedUsageParts DEF Crash, LockTable
<1>4. Unrobbed(Served(i))
  BY <1>1, LockedUsageParts, CheckedLocked DEF Crash, Unrobbed
<1> QED
  BY <1>1, <1>3, <1>4, GiveUpStep DEF Crash

-----------------------------------------------------------------------------
(* A sweep locks rows nobody has locked, and deletes those it has locked.   *)
LEMMA RemovalStep ==
  ASSUME LockedUsage, UNCHANGED <<pc, call, tries, seen, reply>>,
         clock' \in Nat, faults' \in Nat,
         rules' \in [Codes -> Rule \cup {Null}],
         \A c \in Codes : rules'[c] = rules[c] \/ rules'[c] = Null,
         Undisturbed({}), Unrobbed({}),
         lock' \in LockTable, sweep' \in [Cleaners -> Sweeps]
  PROVE  LockedUsage'
<1>1. UsageInvariant'
  BY LockedUsageParts, RemovalKeeps
<1>2. LocksHeld'
  BY LockedUsageParts DEF LocksHeld, Unrobbed, Checking
<1> QED
  BY <1>1, <1>2, LockedUsageNext

LEMMA SweepStep ==
  ASSUME LockedUsage, NEW i \in Cleaners, Sweep(i) \/ SweepFail(i)
  PROVE  LockedUsage'
<1>1. /\ UsageInvariant /\ LocksHeld /\ ServiceTypeOK
      /\ lock \in LockTable /\ sweep \in [Cleaners -> Sweeps]
  BY LockedUsageParts, UsageInvariantParts
<1>2. i \notin Requests /\ i # Null /\ i \in Transactions
  BY ProcessAssumption DEF Transactions
<1>3. sweep[i] \in Sweeps /\ IdleSweep \in Sweeps
  BY <1>1 DEF IdleSweep, Sweeps
<1>4. ASSUME UNCHANGED service, Unrobbed({}), lock' \in LockTable,
             sweep' \in [Cleaners -> Sweeps]
      PROVE  LockedUsage'
  BY <1>1, <1>4, RemovalStep DEF service, ServiceTypeOK, Undisturbed
<1>5. ASSUME lock' = Unlock(i)
      PROVE  Unrobbed({}) /\ lock' \in LockTable
  BY <1>1, <1>2, <1>5, UnlockRobsNobodyElse, UnlockType DEF Unrobbed
<1>6. CASE SweepTick(i)
  <2>1. [sweep[i] EXCEPT !.pc = "waiting", !.now = clock] \in Sweeps
    BY <1>1, <1>3 DEF Sweeps, ServiceTypeOK
  <2> QED
    BY <1>1, <1>4, <1>6, <2>1 DEF SweepTick, Unrobbed
<1>7. CASE SweepConnect(i)
  <2> DEFINE found == {t \in [code : Codes, owner : Requests] :
                         Holds(t.code, t.owner) /\ Stale(rules[t.code], sweep[i].now)}
  <2>1. [sweep[i] EXCEPT !.pc = "connected", !.targets = found] \in Sweeps
    BY <1>3 DEF Sweeps
  <2>2. sweep' = [sweep EXCEPT ![i] = [sweep[i] EXCEPT !.pc = "connected",
                                                       !.targets = found]]
    BY <1>1, <1>7 DEF SweepConnect
  <2> QED
    BY <1>1, <1>4, <1>7, <2>1, <2>2 DEF SweepConnect, Unrobbed
<1>8. CASE SweepRow(i)
  <2>1. PICK t \in sweep[i].targets :
          /\ sweep' = [sweep EXCEPT ![i].targets = @ \ {t}]
          /\ \/ UNCHANGED lock
             \/ lock[t.code] = Null /\ lock' = [lock EXCEPT ![t.code] = i]
    BY <1>8 DEF SweepRow
  <2>2. [sweep[i] EXCEPT !.targets = @ \ {t}] \in Sweeps
    BY <1>3 DEF Sweeps
  <2>3. sweep' \in [Cleaners -> Sweeps]
    BY <1>1, <2>1, <2>2
  <2>4. lock' \in LockTable
    BY <1>1, <1>2, <2>1 DEF LockTable
  <2>5. Unrobbed({})
    BY <1>1, <2>1, CheckedLocked DEF Unrobbed, LockTable
  <2> QED
    BY <1>4, <1>8, <2>3, <2>4, <2>5 DEF SweepRow
<1>9. CASE SweepCommit(i)
  <2>1. Undisturbed({})
    BY <1>1, <1>2, <1>9, CheckedLocked DEF SweepCommit, Undisturbed
  <2>2. /\ rules' \in [Codes -> Rule \cup {Null}]
        /\ \A c \in Codes : rules'[c] = rules[c] \/ rules'[c] = Null
    BY <1>1, <1>9 DEF SweepCommit, ServiceTypeOK
  <2>3. sweep' \in [Cleaners -> Sweeps]
    BY <1>1, <1>3, <1>9 DEF SweepCommit
  <2> QED
    BY <1>1, <1>5, <1>9, <2>1, <2>2, <2>3, RemovalStep DEF SweepCommit, ServiceTypeOK
<1>10. ASSUME SweepAbort(i), faults' \in Nat
       PROVE  LockedUsage'
  <2>1. sweep' \in [Cleaners -> Sweeps]
    BY <1>1, <1>3, <1>10 DEF SweepAbort
  <2>2. Unrobbed({}) /\ lock' \in LockTable
    BY <1>5, <1>10 DEF SweepAbort
  <2> QED
    BY <1>1, <1>10, <2>1, <2>2, RemovalStep DEF SweepAbort, ServiceTypeOK, Undisturbed
<1>11. CASE SweepFail(i) \/ SweepDeadlock(i)
  BY <1>1, <1>10, <1>11 DEF SweepFail, SweepDeadlock, Fault, ServiceTypeOK
<1> QED
  BY <1>6, <1>7, <1>8, <1>9, <1>11 DEF Sweep

-----------------------------------------------------------------------------
(* LockedUsage: every step keeps checked rows with the transactions that    *)
(* hold their locks, and redirects numbered within their limits.            *)
THEOREM LockedUsageHolds == Spec => []LockedUsage
<1>1. Init => LockedUsage
  <2> SUFFICES ASSUME Init PROVE LockedUsage
    OBVIOUS
  <2>1. IdleSweep \in Sweeps
    BY DEF IdleSweep, Sweeps
  <2>2. LocksHeld
    BY DEF Init, ServiceInit, LocksHeld
  <2> QED
    BY <2>1, <2>2, InitKeeps, LockedUsageParts DEF Init, LockTable
<1>2. LockedUsage /\ [Next]_vars => LockedUsage'
  <2> SUFFICES ASSUME LockedUsage, [Next]_vars PROVE LockedUsage'
    OBVIOUS
  <2>1. CASE UNCHANGED vars \/ Tick
    <3>1. /\ UNCHANGED <<faults, rules, pc, call, tries, seen, reply, lock, sweep>>
          /\ clock' \in {clock, clock + 1}
      BY <2>1 DEF vars, service, Tick, TimePasses
    <3> QED
      BY <3>1, LockedUsageParts, UsageInvariantParts, RemovalStep
      DEF ServiceTypeOK, Undisturbed, Unrobbed
  <2>2. CASE \E r \in Requests : Receive(r) \/ Serve(r) \/ Fail(r)
    BY <2>2, ReceiveStep, ServeStep, FailStep
  <2>3. CASE \E i \in Cleaners : Sweep(i) \/ SweepFail(i)
    BY <2>3, SweepStep
  <2>4. CASE \E i \in Instances : Crash(i)
    BY <2>4, CrashStep
  <2> QED
    BY <2>1, <2>2, <2>3, <2>4 DEF Next
<1> QED
  BY <1>1, <1>2, PTL DEF Spec

(* TypeOK: every variable stays in its domain.                              *)
THEOREM Typed == Spec => []TypeOK
<1>1. LockedUsage => TypeOK
  BY DEF LockedUsage
<1> QED
  BY <1>1, LockedUsageHolds, PTL

(* CheckedRowUnchanged: between ResolveRule's check and its commit the row  *)
(* belongs to that transaction alone.                                       *)
THEOREM CheckedRowsStay == Spec => []CheckedRowUnchanged
<1>1. LockedUsage => CheckedRowUnchanged
  BY DEF LockedUsage, UsageInvariant
<1> QED
  BY <1>1, LockedUsageHolds, PTL

(* UsageLimit: a rule redirects at most max_usages times, however many      *)
(* resolves of it run at once.                                              *)
THEOREM UsageLimitHolds == Spec => []UsageLimit
<1>1. LockedUsage => UsageLimit
  BY UsageLimitFollows DEF LockedUsage
<1> QED
  BY <1>1, LockedUsageHolds, PTL

-----------------------------------------------------------------------------
(* SweepsLockStale, and NothingLostEarly from it                            *)

CleanersLock(c) == lock[c] \in Cleaners

(* A step that leaves the sweeps and the rows they have locked alone.       *)
LEMMA SweepsFrame ==
  ASSUME LockedUsage, SweepsLockStale, sweep' = sweep, clock' \in {clock, clock + 1},
         \A c \in Codes : CleanersLock(c) => rules'[c] = rules[c],
         \A c \in Codes : lock'[c] = lock[c] \/ lock'[c] \notin Cleaners
  PROVE  SweepsLockStale'
<1>1. clock \in Nat /\ \A i \in Cleaners : sweep[i].now \in Nat
  BY LockedUsageParts, UsageInvariantParts DEF ServiceTypeOK, Sweeps
<1>2. \A i \in Cleaners : sweep'[i].now <= clock'
  BY <1>1 DEF SweepsLockStale
<1>3. \A i \in Cleaners, c \in Codes : lock'[c] = i => CleanersLock(c) /\ lock[c] = i
  BY DEF CleanersLock
<1> QED
  BY <1>2, <1>3 DEF SweepsLockStale, Stale

(* A call changes no row that a sweep has locked.                           *)
LEMMA ServeSweeps ==
  ASSUME LockedUsage, SweepsLockStale, NEW r \in Requests, Serve(r)
  PROVE  SweepsLockStale'
<1>1. /\ UsageInvariant /\ LocksHeld /\ ServiceTypeOK /\ lock \in LockTable
      /\ \A i \in Cleaners : i \notin Requests /\ i # Null
  BY LockedUsageParts, UsageInvariantParts, ProcessAssumption
<1>2. Act(r) /\ sweep' = sweep /\ clock' = clock
  BY DEF Serve, Act, TakeConnection, ReadRow, Respond, LockRow, UpdateRow, EndResolve,
         DeleteRow, InsertRow, Connect, Insert, AliasTaken, Collide, Missing, Load,
         RefuseExpired, UpdateUsage, CommitUsage, Delete, ReadRule, ShowRule
<1>3. \A c \in Codes : lock'[c] = lock[c] \/ lock'[c] \notin Cleaners
  BY <1>1 DEF Serve, TakeConnection, ReadRow, Respond, LockRow, UpdateRow, EndResolve,
              DeleteRow, InsertRow, Unlock, LockTable
<1>4. ASSUME NEW c \in Codes, CleanersLock(c)
      PROVE  rules'[c] = rules[c]
  <2>1. rules[c] # Null /\ lock[c] # Null /\ lock[c] # r
    BY <1>1, <1>4 DEF SweepsLockStale, CleanersLock
  <2>2. CASE rules' = rules
    BY <2>2
  <2>3. ASSUME NEW d \in Codes, Insert(r, d)
        PROVE  rules'[c] = rules[c]
    BY <1>1, <2>1, <2>3 DEF Insert, ServiceTypeOK
  <2>4. CASE CommitUsage(r) /\ EndResolve(r)
    <3>1. call[r].code # c
      BY <1>1, <2>1, <2>4, CheckedLocked DEF CommitUsage, Checking
    <3> QED
      BY <1>1, <2>4, <3>1 DEF CommitUsage, ServiceTypeOK
  <2>5. CASE DeleteRow(r)
    BY <1>1, <2>1, <2>5 DEF DeleteRow, Delete, ServiceTypeOK
  <2> QED
    BY <2>2, <2>3, <2>4, <2>5
    DEF Serve, TakeConnection, ReadRow, Respond, LockRow, UpdateRow, EndResolve, InsertRow,
        Connect, AliasTaken, Collide, Missing, Load, RefuseExpired, UpdateUsage, ReadRule,
        ShowRule
<1> QED
  BY <1>2, <1>3, <1>4, SweepsFrame

(* A sweep that starts, ends or fails holds no lock; one that goes on locks *)
(* stale rows.                                                              *)
LEMMA SweepSweeps ==
  ASSUME LockedUsage, SweepsLockStale, NEW i \in Cleaners, Sweep(i) \/ SweepFail(i)
  PROVE  SweepsLockStale'
<1>1. /\ ServiceTypeOK /\ lock \in LockTable /\ sweep \in [Cleaners -> Sweeps]
      /\ i # Null
  BY LockedUsageParts, UsageInvariantParts, ProcessAssumption
<1>2. clock \in Nat /\ 0 <= clock
  BY <1>1 DEF ServiceTypeOK
<1>3. CASE SweepTick(i)
  BY <1>1, <1>2, <1>3 DEF SweepTick, service, SweepsLockStale, Stale
<1>4. CASE SweepConnect(i)
  BY <1>1, <1>4 DEF SweepConnect, service, SweepsLockStale, Stale
<1>5. CASE SweepRow(i)
  <2>1. PICK t \in sweep[i].targets :
          /\ sweep' = [sweep EXCEPT ![i].targets = @ \ {t}]
          /\ \/ UNCHANGED lock
             \/ /\ Holds(t.code, t.owner) /\ Stale(rules[t.code], sweep[i].now)
                /\ lock[t.code] = Null /\ lock' = [lock EXCEPT ![t.code] = i]
    BY <1>5 DEF SweepRow
  <2>2. sweep[i].pc = "connected"
    BY <2>1 DEF SweepsLockStale
  <2>3. /\ \A k \in Cleaners : sweep'[k].now = sweep[k].now /\ sweep'[k].pc = sweep[k].pc
        /\ \A k \in Cleaners \ {i} : sweep'[k] = sweep[k]
    BY <1>1, <2>1 DEF Sweeps
  <2>4. clock' = clock /\ rules' = rules
    BY <1>5 DEF SweepRow, service
  <2>5. \A c \in Codes : \/ lock'[c] = lock[c]
                        \/ /\ lock'[c] = i /\ rules[c] # Null
                           /\ Stale(rules[c], sweep[i].now)
    BY <1>1, <2>1 DEF LockTable, Holds
  <2> QED
    BY <2>2, <2>3, <2>4, <2>5 DEF SweepsLockStale, Stale
<1>6. ASSUME lock' = Unlock(i), sweep' = [sweep EXCEPT ![i] = IdleSweep], clock' = clock,
             \A c \in Codes : lock[c] # i => rules'[c] = rules[c]
      PROVE  SweepsLockStale'
  <2>1. \A k \in Cleaners, c \in Codes : lock'[c] = k => k # i /\ lock[c] = k
    BY <1>1, <1>6, ProcessAssumption DEF Unlock, LockTable
  <2>2. sweep'[i] = IdleSweep /\ \A k \in Cleaners \ {i} : sweep'[k] = sweep[k]
    BY <1>1, <1>6
  <2> QED
    BY <1>2, <1>6, <2>1, <2>2 DEF SweepsLockStale, IdleSweep, Stale
<1>7. CASE SweepCommit(i)
  BY <1>6, <1>7 DEF SweepCommit
<1>8. CASE SweepFail(i) \/ SweepDeadlock(i)
  BY <1>6, <1>8 DEF SweepFail, SweepDeadlock, SweepAbort
<1> QED
  BY <1>3, <1>4, <1>5, <1>7, <1>8 DEF Sweep

LEMMA CrashSweeps ==
  ASSUME LockedUsage, SweepsLockStale, NEW i \in Instances, Crash(i)
  PROVE  SweepsLockStale'
<1>1. clock \in Nat /\ 0 <= clock /\ clock' = clock /\ rules' = rules
  BY LockedUsageParts, UsageInvariantParts DEF ServiceTypeOK, Crash, GiveUp
<1>2. \A k \in Cleaners, c \in Codes : lock'[c] = k => k # i /\ lock[c] = k
  BY ProcessAssumption DEF Crash
<1>3. \A k \in Cleaners : sweep'[k] = IF k = i THEN IdleSweep ELSE sweep[k]
  BY DEF Crash
<1> QED
  BY <1>1, <1>2, <1>3 DEF SweepsLockStale, IdleSweep, Stale

(* SweepsLockStale: what a sweep has locked is stale and stays as it is.    *)
THEOREM SweepsLockStaleHolds == Spec => []SweepsLockStale
<1>1. Init => SweepsLockStale
  <2> SUFFICES ASSUME Init PROVE SweepsLockStale
    OBVIOUS
  <2>1. \A i \in Cleaners : i # Null /\ sweep[i] = IdleSweep
    BY ProcessAssumption DEF Init
  <2>2. clock = 0 /\ \A c \in Codes : lock[c] = Null
    BY DEF Init, ServiceInit
  <2> QED
    BY <2>1, <2>2 DEF SweepsLockStale, IdleSweep
<1>2. LockedUsage /\ SweepsLockStale /\ [Next]_vars => SweepsLockStale'
  <2> SUFFICES ASSUME LockedUsage, SweepsLockStale, [Next]_vars PROVE SweepsLockStale'
    OBVIOUS
  <2>1. CASE UNCHANGED vars \/ Tick
    BY <2>1, SweepsFrame DEF vars, service, Tick, TimePasses
  <2>2. ASSUME NEW r \in Requests, Receive(r)
        PROVE  SweepsLockStale'
    BY <2>2, SweepsFrame DEF Receive, ArriveCreate, ArriveLookup, Arrive
  <2>3. ASSUME NEW r \in Requests, Fail(r)
        PROVE  SweepsLockStale'
    <3>1. Null \notin Cleaners
      BY ProcessAssumption
    <3> QED
      BY <2>3, <3>1, SweepsFrame DEF Fail, GiveUp, Unlock
  <2> QED
    BY <2>1, <2>2, <2>3, ServeSweeps, SweepSweeps, CrashSweeps DEF Next
<1> QED
  BY <1>1, <1>2, LockedUsageHolds, PTL DEF Spec

LEMMA StaleExpired ==
  ASSUME NEW row \in Rule, NEW now \in Nat, now <= clock, clock \in Nat, Stale(row, now)
  PROVE  Expired(row, clock + PurgeEarly)
<1>1. PurgeEarly \in Nat
  BY ServiceAssumption
<1>2. CASE row.expiresAt # Null /\ row.expiresAt <= StoredTime(now)
  <2>1. row.expiresAt \in Int
    BY <1>2 DEF Rule
  <2>2. StoredTime(now) \in Int /\ StoredTime(now) <= now
    BY StoredEarlier
  <2>3. clock + PurgeEarly >= row.expiresAt
    BY <1>1, <1>2, <2>1, <2>2
  <2> QED
    BY <1>2, <2>3 DEF Expired, ExpiredByTTL
<1>3. CASE row.maxUsages # Null /\ row.usedCount >= row.maxUsages
  BY <1>3 DEF Expired, ExpiredByUsage
<1> QED
  BY <1>2, <1>3 DEF Stale

(* NothingLostEarly: rows leave the table by deletes, or by sweeps after    *)
(* they have expired, although a sweep's clock reading and its row snapshot *)
(* are old when it commits.                                                 *)
THEOREM NothingIsLostEarly == Spec => NothingLostEarly
<1>1. ASSUME LockedUsage, SweepsLockStale, [Next]_vars,
             NEW c \in Codes, rules[c] # Null, rules'[c] = Null
      PROVE  \/ Expired(rules[c], clock + PurgeEarly)
             \/ \E r \in Requests : /\ call[r].op = "delete" /\ call[r].code = c
                                    /\ pc[r] # "done" /\ pc'[r] = "done"
  <2>1. /\ UsageInvariant /\ ServiceTypeOK /\ rules[c] \in Rule /\ clock \in Nat
        /\ \A i \in Cleaners : sweep[i].now \in Nat
    BY <1>1, LockedUsageParts, UsageInvariantParts DEF ServiceTypeOK, Sweeps
  <2>2. ASSUME NEW i \in Cleaners, SweepCommit(i)
        PROVE  Expired(rules[c], clock + PurgeEarly)
    <3>1. lock[c] = i
      BY <1>1, <2>2 DEF SweepCommit
    <3>2. Stale(rules[c], sweep[i].now) /\ sweep[i].now <= clock
      BY <1>1, <3>1 DEF SweepsLockStale
    <3> QED
      BY <2>1, <3>2, StaleExpired
  <2>3. ASSUME NEW r \in Requests, Serve(r)
        PROVE  /\ call[r].op = "delete" /\ call[r].code = c
               /\ pc[r] # "done" /\ pc'[r] = "done"
    <3>1. Act(r)
      BY <2>3 DEF Serve, Act, TakeConnection, ReadRow, Respond, LockRow, UpdateRow,
                  EndResolve, DeleteRow, InsertRow
    <3> QED
      BY <1>1, <2>1, <3>1, ActLeavesRows
  <2>4. CASE rules' = rules
    BY <1>1, <2>4
  <2> QED
    BY <1>1, <2>2, <2>3, <2>4
    DEF Next, Tick, TimePasses, Receive, ArriveCreate, ArriveLookup, Arrive, Fail, Crash,
        GiveUp, Sweep, SweepTick, SweepConnect, SweepRow, SweepDeadlock, SweepFail,
        SweepAbort, vars, service
<1>2. LockedUsage /\ SweepsLockStale /\ [Next]_vars =>
        [\A c \in Codes : rules[c] # Null /\ rules'[c] = Null =>
           \/ Expired(rules[c], clock + PurgeEarly)
           \/ \E r \in Requests : /\ call[r].op = "delete" /\ call[r].code = c
                                  /\ pc[r] # "done" /\ pc'[r] = "done"
        ]_<<rules, pc, call, clock>>
  BY <1>1
<1> QED
  BY <1>2, LockedUsageHolds, SweepsLockStaleHolds, PTL DEF Spec, NothingLostEarly

-----------------------------------------------------------------------------
(* What becomes of rules                                                    *)

LEMMA ServeActs ==
  ASSUME NEW r \in Requests, Serve(r)
  PROVE  Act(r)
BY DEF Serve, Act, TakeConnection, ReadRow, Respond, LockRow, UpdateRow, EndResolve, DeleteRow,
       InsertRow

(* What a step of the system is for the service: an arrival, a step of a    *)
(* call, calls that give up, or rows that leave and time that passes.       *)
LEMMA StepsOfTheService ==
  ASSUME LockedUsage, [Next]_vars
  PROVE  \/ \E r \in Requests : ArriveCreate(r) \/ ArriveLookup(r)
         \/ \E r \in Requests : Act(r)
         \/ \E S \in SUBSET Requests : (\A r \in S : Running(r)) /\ GiveUp(S)
         \/ /\ UNCHANGED <<pc, call, seen, reply>>
            /\ clock <= clock' /\ faults <= faults'
            /\ \A c \in Codes : rules'[c] = rules[c] \/ rules'[c] = Null
<1>1. clock \in Nat /\ faults \in Nat /\ rules \in [Codes -> Rule \cup {Null}]
  BY LockedUsageParts, UsageInvariantParts DEF ServiceTypeOK
<1>2. CASE UNCHANGED vars \/ Tick
  BY <1>1, <1>2 DEF vars, service, Tick, TimePasses
<1>3. ASSUME NEW r \in Requests, Receive(r) PROVE ArriveCreate(r) \/ ArriveLookup(r)
  BY <1>3 DEF Receive
<1>4. ASSUME NEW r \in Requests, Fail(r)
      PROVE  \E S \in SUBSET Requests : (\A q \in S : Running(q)) /\ GiveUp(S)
  BY <1>4 DEF Fail, AtStore, InSession, Running
<1>5. ASSUME NEW i \in Instances, Crash(i)
      PROVE  \E S \in SUBSET Requests : (\A q \in S : Running(q)) /\ GiveUp(S)
  BY <1>5 DEF Crash, Served
<1>6. ASSUME NEW i \in Cleaners, Sweep(i) \/ SweepFail(i)
      PROVE  /\ UNCHANGED <<pc, call, seen, reply>>
             /\ clock <= clock' /\ faults <= faults'
             /\ \A c \in Codes : rules'[c] = rules[c] \/ rules'[c] = Null
  <2>1. CASE SweepTick(i) \/ SweepConnect(i) \/ SweepRow(i)
    BY <1>1, <2>1 DEF SweepTick, SweepConnect, SweepRow, service
  <2>2. CASE SweepCommit(i)
    BY <1>1, <2>2 DEF SweepCommit
  <2>3. CASE SweepDeadlock(i) \/ SweepFail(i)
    BY <1>1, <2>3 DEF SweepDeadlock, SweepFail, SweepAbort, Fault
  <2> QED  BY <1>6, <2>1, <2>2, <2>3 DEF Sweep
<1> QED  BY <1>2, <1>3, <1>4, <1>5, <1>6, ServeActs DEF Next

(* History: what rows, replies and calls have to do with one another, from  *)
(* which the five invariants below follow.                                  *)
THEOREM HistoryHolds == Spec => []History
<1>1. Init => History
  BY InitHistory DEF Init
<1>2. LockedUsage /\ LockedUsage' /\ History /\ [Next]_vars => History'
  <2> SUFFICES ASSUME LockedUsage, LockedUsage', History, [Next]_vars PROVE History'
    OBVIOUS
  <2>1. UsageInvariant /\ UsageInvariant'
    BY DEF LockedUsage
  <2>2. CASE \E r \in Requests : ArriveCreate(r) \/ ArriveLookup(r)
    BY <2>1, <2>2, ArriveHistory
  <2>3. CASE \E r \in Requests : Act(r)
    BY <2>1, <2>3, ActHistory
  <2>4. CASE \E S \in SUBSET Requests : (\A r \in S : Running(r)) /\ GiveUp(S)
    BY <2>1, <2>4, GiveUpHistory
  <2>5. CASE /\ UNCHANGED <<pc, call, seen, reply>>
             /\ clock <= clock' /\ faults <= faults'
             /\ \A c \in Codes : rules'[c] = rules[c] \/ rules'[c] = Null
    BY <2>1, <2>5, RemovalHistory
  <2> QED  BY <2>2, <2>3, <2>4, <2>5, StepsOfTheService
<1> QED  BY <1>1, <1>2, LockedUsageHolds, PTL DEF Spec

LEMMA Consequences ==
  LockedUsage /\ History =>
    OneRulePerCreate /\ DeletedOnce /\ EndedStaysEnded /\ NoUseAfterExpiry /\ RedirectsAreCounted
BY HistoryFollows DEF LockedUsage

(* OneRulePerCreate: however often CreateRule's loop goes round, it leaves  *)
(* one row at most, and none if it refuses.                                 *)
THEOREM CreatesLeaveOneRule == Spec => []OneRulePerCreate
BY LockedUsageHolds, HistoryHolds, Consequences, PTL

(* DeletedOnce: of concurrent deletes of a rule one finds RowsAffected to   *)
(* be 1.                                                                    *)
THEOREM RulesAreDeletedOnce == Spec => []DeletedOnce
BY LockedUsageHolds, HistoryHolds, Consequences, PTL

(* EndedStaysEnded: a rule reported expired or deleted is not found active  *)
(* by any call that arrives after the report, on any instance.              *)
THEOREM EndingsAreFinal == Spec => []EndedStaysEnded
BY LockedUsageHolds, HistoryHolds, Consequences, PTL

(* NoUseAfterExpiry: last_used_at precedes expires_at as both are stored.   *)
THEOREM UsesPrecedeExpiry == Spec => []NoUseAfterExpiry
BY LockedUsageHolds, HistoryHolds, Consequences, PTL

(* RedirectsAreCounted: used_count is off by lost acknowledgements alone.   *)
THEOREM UsesAreCounted == Spec => []RedirectsAreCounted
BY LockedUsageHolds, HistoryHolds, Consequences, PTL

-----------------------------------------------------------------------------
(* The refinement                                                           *)

(* Sweeps take out of the book what has expired, and nothing else.          *)
LEMMA SweepIsBookStep ==
  ASSUME LockedUsage, SweepsLockStale, NEW i \in Cleaners, Sweep(i) \/ SweepFail(i)
  PROVE  BookStep
<1>1. /\ ServiceTypeOK /\ clock \in Nat
      /\ \A k \in Cleaners : sweep[k].now \in Nat
  BY LockedUsageParts, UsageInvariantParts DEF ServiceTypeOK, Sweeps
<1>2. CASE SweepCommit(i)
  <2>1. ASSUME NEW c \in Codes, lock[c] = i
        PROVE  Expired(rules[c], clock + PurgeEarly)
    <3>1. rules[c] \in Rule /\ Stale(rules[c], sweep[i].now) /\ sweep[i].now <= clock
      BY <1>1, <2>1 DEF SweepsLockStale, ServiceTypeOK
    <3> QED  BY <1>1, <3>1, StaleExpired
  <2>2. /\ rules' \in [Codes -> Rule \cup {Null}]
        /\ \A c \in Codes : \/ rules'[c] = rules[c]
                            \/ rules'[c] = Null /\ Expired(rules[c], clock + PurgeEarly)
    BY <1>1, <1>2, <2>1 DEF SweepCommit, ServiceTypeOK
  <2> QED  BY <1>1, <1>2, <2>2, PurgeIsBookStep DEF SweepCommit
<1>3. CASE SweepTick(i) \/ SweepConnect(i) \/ SweepRow(i)
  BY <1>3 DEF SweepTick, SweepConnect, SweepRow, service, BookStep, Book!vars, Views, Looked
<1>4. CASE SweepDeadlock(i) \/ SweepFail(i)
  BY <1>4 DEF SweepDeadlock, SweepFail, SweepAbort, BookStep, Book!vars, Views, Looked
<1> QED  BY <1>2, <1>3, <1>4 DEF Sweep

(* KeepsRuleBook: calls that run as several statements, on several          *)
(* instances, with sweeps and crashes among them, take effect as the single *)
(* steps of RuleBook.                                                       *)
THEOREM KeepsTheBook == Spec => KeepsRuleBook
<1>1. Init => Book!Init
  BY InitIsBookInit DEF Init
<1>2. LockedUsage /\ SweepsLockStale /\ History /\ [Next]_vars => [Book!Next]_(Book!vars)
  <2> SUFFICES ASSUME LockedUsage, SweepsLockStale, History, [Next]_vars PROVE BookStep
    BY DEF BookStep
  <2>1. UsageInvariant
    BY DEF LockedUsage
  <2>2. CASE UNCHANGED vars
    BY <2>2 DEF vars, service, BookStep, Book!vars, Views, Looked
  <2>3. CASE Tick
    BY <2>3, TickIsBookStep DEF Tick
  <2>4. ASSUME NEW r \in Requests, Receive(r) \/ Serve(r) PROVE BookStep
    BY <2>1, <2>4, ServeActs, ArriveIsBookStep, ActIsBookStep DEF Receive
  <2>5. ASSUME NEW r \in Requests, Fail(r) PROVE BookStep
    BY <2>1, <2>5, GiveUpIsBookStep DEF Fail, AtStore, InSession, Running
  <2>6. ASSUME NEW i \in Instances, Crash(i) PROVE BookStep
    BY <2>1, <2>6, GiveUpIsBookStep DEF Crash, Served
  <2> QED  BY <2>2, <2>3, <2>4, <2>5, <2>6, SweepIsBookStep DEF Next
<1> QED
  BY <1>1, <1>2, LockedUsageHolds, SweepsLockStaleHolds, HistoryHolds, PTL
  DEF Spec, KeepsRuleBook, Book!Spec

-----------------------------------------------------------------------------
(* TTLExpiresLater, which the multiplication by time.Second breaks for huge *)
(* ttl_seconds, holds for those that a time.Duration can take.              *)
THEOREM ShortTTLsExpireLater ==
  ASSUME ShortTTLs
  PROVE  Spec => []TTLExpiresLater
<1>1. Init => TTLExpiresLater
  BY DEF Init, ServiceInit, TTLExpiresLater, NoCall
<1>2. LockedUsage /\ TTLExpiresLater /\ [Next]_vars => TTLExpiresLater'
  BY StepsOfTheService, ArriveExpiresLater, CallsStay, LockedUsageParts, UsageInvariantParts
<1> QED  BY <1>1, <1>2, LockedUsageHolds, PTL DEF Spec
=============================================================================
