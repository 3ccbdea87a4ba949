---------------------------- MODULE SqliteProofs ----------------------------
(***************************************************************************)
(* The service over SQLite: the single connection keeps everybody else     *)
(* away from a row that a transaction has checked.  ServiceProofs,         *)
(* HistoryProofs and BookProofs do the rest.                               *)
(***************************************************************************)
EXTENDS SqliteShortener, BookProofs, WellFoundedInduction

LEMMA SerialUsageParts ==
  SerialUsage => UsageInvariant /\ ConnectionHeld /\ ServiceTypeOK /\ SweepReadBefore
BY UsageInvariantParts DEF SerialUsage

LEMMA RequestsNotNull == \A r \in Requests : r # Null
BY NullAssumption

(* A step of a call does not touch the clock.                               *)
LEMMA ClockStands ==
  ASSUME NEW r \in Requests, Act(r)
  PROVE  clock' = clock
BY DEF Act, Connect, Insert, AliasTaken, Collide, Missing, Load, RefuseExpired, UpdateUsage,
       CommitUsage, Delete, ReadRule, ShowRule

(* A step that r takes with the connection keeps both parts, wherever it    *)
(* leaves r.                                                                *)
LEMMA ActStep ==
  ASSUME SerialUsage, NEW r \in Requests, Act(r), conn \in {r, Null}, sweep' = sweep,
         pc'[r] \in InSession => conn' = r
  PROVE  SerialUsage'
<1>1. UsageInvariant /\ ConnectionHeld /\ ServiceTypeOK /\ SweepReadBefore
  BY SerialUsageParts
<1>2. OthersStay(r)
  BY <1>1, ActMoves
<1>3. \A q \in Requests \ {r} : pc[q] \notin InSession
  BY <1>1, RequestsNotNull DEF ConnectionHeld
<1>4. Undisturbed({r})
  BY <1>3 DEF Undisturbed, Checking, InSession
<1>5. UsageInvariant'
  BY <1>1, <1>4, ActKeeps
<1>6. ConnectionHeld'
  BY <1>1, <1>2, <1>3 DEF ConnectionHeld, OthersStay
<1>7. SweepReadBefore'
  BY <1>1, ClockStands DEF SweepReadBefore
<1> QED
  BY <1>5, <1>6, <1>7 DEF SerialUsage

LEMMA ReceiveStep ==
  ASSUME SerialUsage, NEW r \in Requests, Receive(r)
  PROVE  SerialUsage'
<1>1. UsageInvariant /\ ConnectionHeld /\ ServiceTypeOK /\ SweepReadBefore
  BY SerialUsageParts
<1>2. UsageInvariant'
  BY <1>1, ArriveKeeps DEF Receive
<1>3. PICK newCall \in Call : Arrive(r, newCall)
  BY <1>1, Arrival DEF Receive
<1>4. OthersStay(r) /\ pc'[r] \in {"waiting", "done"}
  BY <1>1, <1>3, ArriveMoves
<1>5. ConnectionHeld'
  BY <1>1, <1>4 DEF ConnectionHeld, OthersStay, InSession, Receive
<1>6. SweepReadBefore'
  BY <1>1, <1>3 DEF Receive, Arrive, SweepReadBefore
<1> QED
  BY <1>2, <1>5, <1>6 DEF SerialUsage

(* A response is built without the connection, whoever has it.              *)
LEMMA RespondStep ==
  ASSUME SerialUsage, NEW r \in Requests, Respond(r)
  PROVE  SerialUsage'
<1>1. UsageInvariant /\ ConnectionHeld /\ ServiceTypeOK /\ SweepReadBefore
  BY SerialUsageParts
<1>2. Act(r) /\ sweep' = sweep /\ conn' = conn /\ rules' = rules
  BY DEF Respond, ShowRule, Act
<1>3. OthersStay(r)
  BY <1>1, <1>2, ActMoves
<1>4. pc'[r] = "done"
  BY <1>1 DEF Respond, ShowRule, Answer, ServiceTypeOK
<1>5. UsageInvariant'
  BY <1>1, <1>2, ActKeeps DEF Undisturbed
<1>6. ConnectionHeld'
  BY <1>1, <1>2, <1>3, <1>4 DEF ConnectionHeld, OthersStay, InSession
<1>7. SweepReadBefore'
  BY <1>1, <1>2, ClockStands DEF SweepReadBefore
<1> QED
  BY <1>5, <1>6, <1>7 DEF SerialUsage

LEMMA ServeStep ==
  ASSUME SerialUsage, NEW r \in Requests, Serve(r)
  PROVE  SerialUsage'
<1>1. ConnectionHeld /\ ServiceTypeOK
  BY SerialUsageParts
<1>2. Act(r) /\ sweep' = sweep
  BY DEF Serve, Act, TakeConnection, InTransaction, Finish, Respond
<1>3. CASE TakeConnection(r)
  BY <1>2, <1>3, ActStep DEF TakeConnection
<1>4. CASE InTransaction(r)
  <2>1. pc[r] \in InSession /\ conn' = conn
    BY <1>4 DEF InTransaction, Load, UpdateUsage, InSession
  <2> QED
    BY <1>1, <1>2, <2>1, ActStep DEF ConnectionHeld
<1>5. CASE Finish(r)
  <2>1. pc[r] \in InSession
    BY <1>5 DEF Finish, Insert, AliasTaken, Collide, Inserting, Missing, ReadRule,
                Delete, RefuseExpired, CommitUsage, InSession
  <2>2. pc'[r] \in {"waiting", "read", "done"}
    <3>1. ASSUME NEW c \in Codes, Insert(r, c)
          PROVE  pc'[r] = "done"
      BY <1>1, <3>1, DeliverMoves DEF Insert, ServiceTypeOK
    <3>2. ASSUME NEW c \in Codes, AliasTaken(r, c) \/ Collide(r, c)
          PROVE  pc'[r] \in {"waiting", "done"}
      BY <1>1, <3>2 DEF AliasTaken, Collide, Answer, ServiceTypeOK
    <3>3. CASE Missing(r) \/ ReadRule(r) \/ RefuseExpired(r)
      BY <1>1, <3>3 DEF Missing, ReadRule, RefuseExpired, Answer, ServiceTypeOK
    <3>4. CASE Delete(r)
      BY <1>1, <3>4, DeliverMoves DEF Delete, ServiceTypeOK
    <3>5. CASE CommitUsage(r)
      BY <1>1, <3>5, DeliverMoves DEF CommitUsage, ServiceTypeOK
    <3> QED
      BY <1>5, <3>1, <3>2, <3>3, <3>4, <3>5 DEF Finish
  <2> QED
    BY <1>1, <1>2, <2>1, <2>2, ActStep DEF ConnectionHeld, InSession
<1>6. CASE Respond(r)
  BY <1>6, RespondStep
<1> QED
  BY <1>3, <1>4, <1>5, <1>6 DEF Serve

(* Calls that give up give their connection back.                           *)
LEMMA GiveUpStep ==
  ASSUME SerialUsage, Crash \/ \E r \in Requests : Fail(r)
  PROVE  SerialUsage'
<1>1. UsageInvariant /\ ConnectionHeld /\ ServiceTypeOK /\ SweepReadBefore
  BY SerialUsageParts
<1>2. ASSUME NEW S \in SUBSET Requests, GiveUp(S), sweep' \in {sweep, IdleSweep},
             \A q \in Requests \ S : pc[q] \in InSession => conn' = q
      PROVE  SerialUsage'
  <2>1. UsageInvariant'
    BY <1>1, <1>2, GiveUpKeeps
  <2>2. ConnectionHeld'
    BY <1>1, <1>2 DEF GiveUp, ConnectionHeld, IdleSweep, InSession
  <2>3. SweepReadBefore'
    BY <1>1, <1>2 DEF GiveUp, IdleSweep, SweepReadBefore, ServiceTypeOK
  <2> QED
    BY <2>1, <2>2, <2>3 DEF SerialUsage
<1>3. CASE Crash
  BY <1>2, <1>3 DEF Crash, Running, InSession
<1>4. ASSUME NEW r \in Requests, Fail(r)
      PROVE  SerialUsage'
  BY <1>1, <1>2, <1>4 DEF Fail, ConnectionHeld
<1> QED
  BY <1>3, <1>4

(* A sweep deletes while nobody has the connection.                         *)
LEMMA SweepStep ==
  ASSUME SerialUsage, Tick \/ SweepTick \/ SweepDelete \/ SweepFail \/ UNCHANGED vars
  PROVE  SerialUsage'
<1>1. UsageInvariant /\ ConnectionHeld /\ ServiceTypeOK /\ SweepReadBefore
  BY SerialUsageParts
<1>2. /\ UNCHANGED <<pc, call, tries, seen, reply, conn>>
      /\ clock' \in Nat /\ faults' \in Nat
      /\ rules' \in [Codes -> Rule \cup {Null}]
      /\ \A c \in Codes : rules'[c] = rules[c] \/ rules'[c] = Null
  BY <1>1 DEF Tick, TimePasses, SweepTick, SweepDelete, SweepFail, Fault, vars, service,
              ServiceTypeOK
<1>3. sweep' \in [pc : {"idle", "waiting"}, now : Nat]
  BY <1>1 DEF Tick, TimePasses, SweepTick, SweepDelete, SweepFail, vars, service,
              IdleSweep, ConnectionHeld, ServiceTypeOK
<1>4. Undisturbed({})
  <2>1. CASE SweepDelete
    BY <1>1, <2>1, RequestsNotNull
    DEF SweepDelete, ConnectionHeld, Undisturbed, Checking, InSession
  <2>2. CASE ~SweepDelete
    BY <2>2 DEF Tick, TimePasses, SweepTick, SweepFail, vars, service, Undisturbed
  <2> QED
    BY <2>1, <2>2
<1>5. UsageInvariant'
  BY <1>1, <1>2, <1>4, RemovalKeeps
<1>6. ConnectionHeld'
  BY <1>1, <1>2, <1>3 DEF ConnectionHeld
<1>7. SweepReadBefore'
  <2>1. sweep.now \in Nat /\ clock \in Nat
    BY <1>1 DEF ConnectionHeld, ServiceTypeOK
  <2> QED
    BY <1>1, <2>1 DEF Tick, TimePasses, SweepTick, SweepDelete, SweepFail, vars, service,
                      IdleSweep, SweepReadBefore
<1> QED
  BY <1>5, <1>6, <1>7 DEF SerialUsage

-----------------------------------------------------------------------------
(* SerialUsage: every step keeps checked rows with the transaction that has *)
(* the connection, and redirects numbered within their limits.              *)
THEOREM SerialUsageHolds == Spec => []SerialUsage
<1>1. Init => SerialUsage
  BY InitKeeps DEF Init, ServiceInit, SerialUsage, ConnectionHeld, SweepReadBefore,
                   IdleSweep, InSession
<1>2. SerialUsage /\ [Next]_vars => SerialUsage'
  BY ReceiveStep, ServeStep, GiveUpStep, SweepStep DEF Next
<1> QED
  BY <1>1, <1>2, PTL DEF Spec

(* UsageLimit: a rule redirects at most max_usages times, on SQLite too.    *)
THEOREM UsageLimitHoldsOnSqlite == Spec => []UsageLimit
<1>1. SerialUsage => UsageLimit
  BY UsageLimitFollows DEF SerialUsage
<1> QED
  BY <1>1, SerialUsageHolds, PTL

-----------------------------------------------------------------------------
(* The text order and the order of times                                    *)

(* Every time ends in some unit, at most a second.                          *)
LEMMA UnitType ==
  ASSUME NEW t \in Int
  PROVE  Unit(t) \in 1 .. Second
<1> DEFINE Ends(u) == t % u = 0
           Short == {n \in Nat : \E u \in Units : Ends(u) /\ n = Second - u}
<1>1. Second \in Nat /\ 1 \in Units /\ Units \subseteq 1 .. Second
  BY UnitsAssumption, DurationAssumption
<1>2. Second - 1 \in Short
  <2>1. Second - 1 \in Nat
    BY DurationAssumption
  <2>2. Ends(1)
    OBVIOUS
  <2> QED
    BY <1>1, <2>1, <2>2
<1>3. PICK n \in Short : \A m \in Short : ~(<<m, n>> \in OpToRel(<, Nat))
  <2>1. Short \subseteq Nat /\ Short # {}
    BY <1>2
  <2> QED
    BY <2>1, NatLessThanWellFounded, WFMin
<1>4. PICK u \in Units : Ends(u) /\ n = Second - u
  OBVIOUS
<1>5. ASSUME NEW v \in Units, Ends(v)
      PROVE  v <= u
  <2>1. Second - v \in Short
    BY <1>1, <1>5
  <2>2. ~(Second - v < n)
    BY <1>3, <2>1 DEF OpToRel
  <2> QED
    BY <1>1, <1>4, <2>2
<1>6. \E w \in Units : t % w = 0 /\ \A v \in Units : t % v = 0 => v <= w
  BY <1>4, <1>5
<1>7. Unit(t) \in Units
  BY <1>6 DEF Unit
<1> QED
  BY <1>1, <1>7

(* Text that sorts before that of now is of a time less than a second after *)
(* now.                                                                     *)
LEMMA TextOrder ==
  ASSUME NEW t \in Int, NEW now \in Int, TextAtMost(t, now)
  PROVE  t <= now + (Second - 1)
<1>1. Unit(t) \in 1 .. Second /\ Unit(now) \in 1 .. Second /\ Second \in Nat
  BY UnitType, DurationAssumption
<1>2. t + Unit(t) <= now + Unit(now)
  BY <1>1 DEF TextAtMost
<1> QED
  BY <1>1, <1>2

(* A row that a sweep deletes has less than a second to live.               *)
LEMMA StaleExpired ==
  ASSUME PurgeEarly >= Second - 1, SerialUsage, NEW row \in Rule, Stale(row, sweep.now)
  PROVE  Expired(row, clock + PurgeEarly)
<1>1. sweep.now \in Nat /\ clock \in Nat /\ sweep.now <= clock
  BY SerialUsageParts DEF ConnectionHeld, ServiceTypeOK, SweepReadBefore
<1>2. Second \in Nat /\ PurgeEarly \in Nat
  BY DurationAssumption, ServiceAssumption
<1>3. CASE row.expiresAt # Null /\ TextAtMost(row.expiresAt, sweep.now)
  <2>1. row.expiresAt \in Int
    BY <1>3 DEF Rule
  <2>2. row.expiresAt <= sweep.now + (Second - 1)
    BY <1>1, <1>3, <2>1, TextOrder
  <2>3. clock + PurgeEarly >= row.expiresAt
    BY <1>1, <1>2, <2>1, <2>2
  <2> QED
    BY <1>3, <2>3 DEF Expired, ExpiredByTTL
<1>4. CASE row.maxUsages # Null /\ row.usedCount >= row.maxUsages
  BY <1>4 DEF Expired, ExpiredByUsage
<1> QED
  BY <1>3, <1>4 DEF Stale

(* NothingLostEarly: the text comparison of DeleteExpired costs a rule less *)
(* than a second of its life; nothing else costs it any.                    *)
THEOREM LessThanASecondLost ==
  ASSUME PurgeEarly >= Second - 1
  PROVE  Spec => NothingLostEarly
<1>1. ASSUME SerialUsage, [Next]_vars, NEW c \in Codes, rules[c] # Null, rules'[c] = Null
      PROVE  \/ Expired(rules[c], clock + PurgeEarly)
             \/ \E r \in Requests : /\ call[r].op = "delete" /\ call[r].code = c
                                    /\ pc[r] # "done" /\ pc'[r] = "done"
  <2>1. CASE SweepDelete
    <3>1. rules[c] \in Rule /\ Stale(rules[c], sweep.now)
      BY <1>1, <2>1, SerialUsageParts DEF SweepDelete, ServiceTypeOK
    <3> QED
      BY <1>1, <3>1, StaleExpired
  <2>2. ASSUME NEW r \in Requests, Serve(r)
        PROVE  /\ call[r].op = "delete" /\ call[r].code = c
               /\ pc[r] # "done" /\ pc'[r] = "done"
    <3>1. Act(r)
      BY <2>2 DEF Serve, Act, TakeConnection, InTransaction, Finish, Respond
    <3> QED
      BY <1>1, <3>1, SerialUsageParts, ActLeavesRows
  <2>3. CASE rules' = rules
    BY <1>1, <2>3
  <2> QED
    BY <1>1, <2>1, <2>2, <2>3
    DEF Next, Tick, TimePasses, SweepTick, SweepFail, Crash, Fail, GiveUp, Receive,
        ArriveCreate, ArriveLookup, Arrive, vars, service
<1>2. SerialUsage /\ [Next]_vars =>
        [\A c \in Codes : rules[c] # Null /\ rules'[c] = Null =>
           \/ Expired(rules[c], clock + PurgeEarly)
           \/ \E r \in Requests : /\ call[r].op = "delete" /\ call[r].code = c
                                  /\ pc[r] # "done" /\ pc'[r] = "done"
        ]_<<rules, pc, call, clock>>
  BY <1>1
<1> QED
  BY <1>2, SerialUsageHolds, PTL DEF Spec, NothingLostEarly

-----------------------------------------------------------------------------
(* What becomes of rules                                                    *)

LEMMA ServeActs ==
  ASSUME NEW r \in Requests, Serve(r)
  PROVE  Act(r)
BY DEF Serve, Act, TakeConnection, InTransaction, Finish, Respond

(* What a step of the system is for the service.                            *)
LEMMA StepsOfTheService ==
  ASSUME SerialUsage, [Next]_vars
  PROVE  \/ \E r \in Requests : ArriveCreate(r) \/ ArriveLookup(r)
         \/ \E r \in Requests : Act(r)
         \/ \E S \in SUBSET Requests : (\A r \in S : Running(r)) /\ GiveUp(S)
         \/ /\ UNCHANGED <<pc, call, seen, reply>>
            /\ clock <= clock' /\ faults <= faults'
            /\ \A c \in Codes : rules'[c] = rules[c] \/ rules'[c] = Null
<1>1. clock \in Nat /\ faults \in Nat /\ rules \in [Codes -> Rule \cup {Null}]
  BY SerialUsageParts DEF ServiceTypeOK
<1>2. CASE UNCHANGED vars \/ Tick \/ SweepTick \/ SweepFail
  BY <1>1, <1>2 DEF vars, service, Tick, TimePasses, SweepTick, SweepFail, Fault
<1>3. CASE SweepDelete
  BY <1>1, <1>3 DEF SweepDelete
<1>4. CASE Crash
  BY <1>4 DEF Crash
<1>5. ASSUME NEW r \in Requests, Fail(r)
      PROVE  \E S \in SUBSET Requests : (\A q \in S : Running(q)) /\ GiveUp(S)
  BY <1>5 DEF Fail, AtStore, InSession, Running
<1>6. ASSUME NEW r \in Requests, Receive(r) PROVE ArriveCreate(r) \/ ArriveLookup(r)
  BY <1>6 DEF Receive
<1> QED  BY <1>2, <1>3, <1>4, <1>5, <1>6, ServeActs DEF Next

(* History, on SQLite too.                                                  *)
THEOREM HistoryHoldsOnSqlite == Spec => []History
<1>1. Init => History
  BY InitHistory DEF Init
<1>2. SerialUsage /\ SerialUsage' /\ History /\ [Next]_vars => History'
  <2> SUFFICES ASSUME SerialUsage, SerialUsage', History, [Next]_vars PROVE History'
    OBVIOUS
  <2>1. UsageInvariant /\ UsageInvariant'
    BY DEF SerialUsage
  <2>2. CASE \E r \in Requests : ArriveCreate(r) \/ ArriveLookup(r)
    BY <2>1, <2>2, ArriveHistory
  <2>3. CASE \E r \in Requests : Act(r)
    BY <2>1, <2>3, ActHistory
  <2>4. CASE \E S \in SUBSET Requests : (\A r \in S : Running(r)) /\ GiveUp(S)
    BY <2>1, <2>4, GiveUpHistory
  <2>5. CASE /\ UNCHANGED <<pc, call, seen, reply>>
             /\ clock <= clock' /\ faults <= faults'
             /\ \A c \in Codes : rules'[c] = rules[c] \/ rules'[c] = Null
    BY <2>1, <2>5, RemovalHistory
  <2> QED  BY <2>2, <2>3, <2>4, <2>5, StepsOfTheService
<1> QED  BY <1>1, <1>2, SerialUsageHolds, PTL DEF Spec

LEMMA Consequences ==
  SerialUsage /\ History =>
    OneRulePerCreate /\ DeletedOnce /\ EndedStaysEnded /\ NoUseAfterExpiry /\ RedirectsAreCounted
BY HistoryFollows DEF SerialUsage

(* OneRulePerCreate: the retry loop leaves one row at most.                 *)
THEOREM CreatesLeaveOneRuleOnSqlite == Spec => []OneRulePerCreate
BY SerialUsageHolds, HistoryHoldsOnSqlite, Consequences, PTL

(* DeletedOnce: one of the deletes of a rule is told that it deleted it.    *)
THEOREM RulesAreDeletedOnceOnSqlite == Spec => []DeletedOnce
BY SerialUsageHolds, HistoryHoldsOnSqlite, Consequences, PTL

(* EndedStaysEnded: no later call finds an ended rule active.               *)
THEOREM EndingsAreFinalOnSqlite == Spec => []EndedStaysEnded
BY SerialUsageHolds, HistoryHoldsOnSqlite, Consequences, PTL

(* NoUseAfterExpiry: last_used_at precedes expires_at.                      *)
THEOREM UsesPrecedeExpiryOnSqlite == Spec => []NoUseAfterExpiry
BY SerialUsageHolds, HistoryHoldsOnSqlite, Consequences, PTL

(* RedirectsAreCounted: used_count is off by lost acknowledgements alone.   *)
THEOREM UsesAreCountedOnSqlite == Spec => []RedirectsAreCounted
BY SerialUsageHolds, HistoryHoldsOnSqlite, Consequences, PTL

-----------------------------------------------------------------------------
(* The refinement                                                           *)

LEMMA SweepIsBookStep ==
  ASSUME PurgeEarly >= Second - 1, SerialUsage, SweepTick \/ SweepDelete \/ SweepFail
  PROVE  BookStep
<1>1. ServiceTypeOK
  BY SerialUsageParts
<1>2. CASE SweepDelete
  <2>1. ASSUME NEW c \in Codes, rules[c] # Null, Stale(rules[c], sweep.now)
        PROVE  Expired(rules[c], clock + PurgeEarly)
    BY <1>1, <2>1, StaleExpired DEF ServiceTypeOK
  <2>2. /\ rules' \in [Codes -> Rule \cup {Null}]
        /\ \A c \in Codes : \/ rules'[c] = rules[c]
                            \/ rules'[c] = Null /\ Expired(rules[c], clock + PurgeEarly)
    BY <1>1, <1>2, <2>1 DEF SweepDelete, ServiceTypeOK
  <2> QED  BY <1>1, <1>2, <2>2, PurgeIsBookStep DEF SweepDelete
<1>3. CASE SweepTick \/ SweepFail
  BY <1>3 DEF SweepTick, SweepFail, service, BookStep, Book!vars, Views, Looked
<1> QED  BY <1>2, <1>3

(* KeepsRuleBook: on SQLite the book may lose a rule up to a second early,  *)
(* for the text comparison of DeleteExpired.                                *)
THEOREM KeepsTheBookOnSqlite ==
  ASSUME PurgeEarly >= Second - 1
  PROVE  Spec => KeepsRuleBook
<1>1. Init => Book!Init
  BY InitIsBookInit DEF Init
<1>2. SerialUsage /\ History /\ [Next]_vars => [Book!Next]_(Book!vars)
  <2> SUFFICES ASSUME SerialUsage, History, [Next]_vars PROVE BookStep
    BY DEF BookStep
  <2>1. UsageInvariant
    BY DEF SerialUsage
  <2>2. CASE UNCHANGED vars
    BY <2>2 DEF vars, service, BookStep, Book!vars, Views, Looked
  <2>3. CASE Tick
    BY <2>3, TickIsBookStep DEF Tick
  <2>4. ASSUME NEW r \in Requests, Receive(r) \/ Serve(r) PROVE BookStep
    BY <2>1, <2>4, ServeActs, ArriveIsBookStep, ActIsBookStep DEF Receive
  <2>5. ASSUME NEW r \in Requests, Fail(r) PROVE BookStep
    BY <2>1, <2>5, GiveUpIsBookStep DEF Fail, AtStore, InSession, Running
  <2>6. CASE Crash
    BY <2>1, <2>6, GiveUpIsBookStep DEF Crash
  <2> QED  BY <2>2, <2>3, <2>4, <2>5, <2>6, SweepIsBookStep DEF Next
<1> QED
  BY <1>1, <1>2, SerialUsageHolds, HistoryHoldsOnSqlite, PTL DEF Spec, KeepsRuleBook, Book!Spec

-----------------------------------------------------------------------------
(* TTLExpiresLater, for the ttl_seconds that a time.Duration can take.      *)
THEOREM ShortTTLsExpireLaterOnSqlite ==
  ASSUME ShortTTLs
  PROVE  Spec => []TTLExpiresLater
<1>1. Init => TTLExpiresLater
  BY DEF Init, ServiceInit, TTLExpiresLater, NoCall
<1>2. SerialUsage /\ TTLExpiresLater /\ [Next]_vars => TTLExpiresLater'
  BY StepsOfTheService, ArriveExpiresLater, CallsStay, SerialUsageParts
<1> QED  BY <1>1, <1>2, SerialUsageHolds, PTL DEF Spec
=============================================================================
