------------------------------ MODULE Service ------------------------------
(***************************************************************************)
(* internal/shortener/service.go and what the two stores have in common:   *)
(* the same statements in the same order, up to the placeholders.  One     *)
(* action per step in which a handler's goroutine reaches the database or  *)
(* returns.  A request makes one service call and keeps its answer.        *)
(*                                                                         *)
(* These are steps of no system yet: PostgresShortener and                 *)
(* SqliteShortener add what connections, row locks and other transactions  *)
(* do to each of them.                                                     *)
(***************************************************************************)
EXTENDS Rules, FiniteSets

CONSTANTS
  Workload,    \* the operations each request may be
  MaxAttempts, \* for range 10
  PurgeEarly,  \* how long before its expiry a sweep may delete a rule
  MaxClock,    \* bound: the clock stops here
  MaxFaults    \* bound: connections lost, contexts cancelled, crashes

ASSUME ServiceAssumption ==
  /\ Workload \in [Requests -> SUBSET Operations]
  /\ MaxAttempts \in Nat \ {0} /\ PurgeEarly \in Nat
  /\ MaxClock \in Nat /\ MaxFaults \in Nat

VARIABLES
  clock,  \* time.Now().UTC(), the same on every instance
  faults, \* faults so far
  rules,  \* code -> committed row
  pc,     \* request -> where its goroutine is
  call,   \* request -> its service call
  tries,  \* request -> collisions so far in CreateRule's loop
  seen,   \* request -> the row its statement read
  reply   \* request -> what the client reads

InSession == {"connected", "locked", "updated"}

ServiceInit ==
  /\ clock = 0 /\ faults = 0
  /\ rules = [c \in Codes |-> Null]
  /\ pc = [r \in Requests |-> "idle"]
  /\ call = [r \in Requests |-> NoCall]
  /\ tries = [r \in Requests |-> 0]
  /\ seen = [r \in Requests |-> Null]
  /\ reply = [r \in Requests |-> NoReply]

Running(r) == pc[r] \notin {"idle", "done"}

(* It has a statement to wait for or to run, which may fail; a get that has *)
(* read its row has only its response left to build.                        *)
AtStore(r) == pc[r] \in {"waiting"} \cup InSession

Answer(r, kind, owner, n) ==
  /\ pc' = [pc EXCEPT ![r] = "done"]
  /\ reply' = [reply EXCEPT ![r] = Said(kind, owner, n)]

Fault ==
  /\ faults < MaxFaults
  /\ faults' = faults + 1

(* The answer to a statement that took effect, or the loss of its           *)
(* acknowledgement: the error goes to writeServiceError's default branch.   *)
Deliver(r, kind, owner, n) ==
  \/ Answer(r, kind, owner, n) /\ UNCHANGED faults
  \/ Answer(r, "internal_error", Null, 0) /\ Fault

TimePasses ==
  /\ clock < MaxClock
  /\ clock' = clock + 1
  /\ UNCHANGED <<faults, rules, pc, call, tries, seen, reply>>

(* A service call up to its store call: validated, then to the pool.        *)
Arrive(r, newCall) ==
  /\ pc[r] = "idle"
  /\ call' = [call EXCEPT ![r] = newCall]
  /\ IF Accepted(newCall)
       THEN pc' = [pc EXCEPT ![r] = "waiting"] /\ UNCHANGED reply
       ELSE Answer(r, "validation_error", Null, 0)
  /\ UNCHANGED <<clock, faults, rules, tries, seen>>

ArriveCreate(r) ==
  /\ "create" \in Workload[r]
  /\ \E input \in CreateInputs :
       Arrive(r, CreateCall(r, input, clock, Ended(reply)))

ArriveLookup(r) ==
  \E op \in Workload[r] \ {"create"}, code \in LookupCodes :
    Arrive(r, LookupCall(op, code, clock, Ended(reply)))

(* database/sql hands out a connection; the statement takes its snapshot.   *)
Connect(r) ==
  /\ pc[r] = "waiting"
  /\ pc' = [pc EXCEPT ![r] = "connected"]
  /\ seen' = IF call[r].op = "create" THEN seen
             ELSE [seen EXCEPT ![r] = rules[call[r].code]]
  /\ UNCHANGED <<clock, faults, rules, call, tries, reply>>

-----------------------------------------------------------------------------
(* CreateRule                                                               *)

Inserting(r, c) ==
  /\ pc[r] = "connected" /\ call[r].op = "create"
  /\ c = call[r].code \/ call[r].code = Null

(* Variant: INSERT ... ON CONFLICT DO UPDATE.                               *)
InsertUpserting(r, c) ==
  /\ Inserting(r, c)
  /\ rules' = [rules EXCEPT ![c] = Row(call[r].rule)]
  /\ Deliver(r, "created", r, 0)
  /\ UNCHANGED <<clock, call, tries, seen>>

(* Variant: the loop goes on after any error, not after ErrAlreadyExists    *)
(* alone.                                                                   *)
InsertRetryingErrors(r, c) ==
  /\ Inserting(r, c)
  /\ rules[c] = Null
  /\ rules' = [rules EXCEPT ![c] = Row(call[r].rule)]
  /\ \/ Answer(r, "created", r, 0) /\ UNCHANGED <<faults, tries>>
     \/ /\ Fault /\ tries[r] + 1 < MaxAttempts
        /\ tries' = [tries EXCEPT ![r] = @ + 1]
        /\ pc' = [pc EXCEPT ![r] = "waiting"] /\ UNCHANGED reply
  /\ UNCHANGED <<clock, call, seen>>

Insert(r, c) ==
  /\ Inserting(r, c)
  /\ rules[c] = Null
  /\ rules' = [rules EXCEPT ![c] = Row(call[r].rule)]
  /\ Deliver(r, "created", r, 0)
  /\ UNCHANGED <<clock, call, tries, seen>>

AliasTaken(r, c) ==
  /\ Inserting(r, c)
  /\ rules[c] # Null /\ call[r].code # Null
  /\ Answer(r, "already_exists", Null, 0)
  /\ UNCHANGED <<clock, faults, rules, call, tries, seen>>

(* Variant: the loop has no bound.                                          *)
CollideUncounted(r, c) ==
  /\ Inserting(r, c)
  /\ rules[c] # Null /\ call[r].code = Null
  /\ pc' = [pc EXCEPT ![r] = "waiting"]
  /\ UNCHANGED <<clock, faults, rules, call, tries, seen, reply>>

(* A generated code collides: the loop tries another, ten times in all.     *)
Collide(r, c) ==
  /\ Inserting(r, c)
  /\ rules[c] # Null /\ call[r].code = Null
  /\ tries' = [tries EXCEPT ![r] = @ + 1]
  /\ IF tries[r] + 1 < MaxAttempts
       THEN pc' = [pc EXCEPT ![r] = "waiting"] /\ UNCHANGED reply
       ELSE Answer(r, "internal_error", Null, 0)
  /\ UNCHANGED <<clock, faults, rules, call, seen>>

-----------------------------------------------------------------------------
(* ResolveRule, DeleteRule, GetRule                                         *)

(* The row version a statement works on: the latest version of the row its  *)
(* snapshot found, if that still exists.  A row inserted under the same     *)
(* code since the snapshot is not visible to it.                            *)
Visible(r) ==
  LET row == rules[call[r].code]
  IN  row # Null /\ seen[r] # Null /\ row.owner = seen[r].owner

(* Variant: DeleteRule does not look at RowsAffected.                       *)
MissingUnchecked(r) ==
  /\ pc[r] = "connected"
  /\ call[r].op \in {"resolve", "delete"} /\ ~Visible(r)
  /\ IF call[r].op = "delete" /\ seen[r] # Null
       THEN Answer(r, "deleted", seen[r].owner, 0)
       ELSE Answer(r, "not_found", Null, 0)
  /\ UNCHANGED <<clock, faults, rules, call, tries, seen>>

Missing(r) ==
  /\ pc[r] = "connected"
  /\ \/ call[r].op \in {"resolve", "delete"} /\ ~Visible(r)
     \/ call[r].op = "get" /\ seen[r] = Null
  /\ Answer(r, "not_found", Null, 0)
  /\ UNCHANGED <<clock, faults, rules, call, tries, seen>>

(* Variant: the check uses the row as it was before the wait for the lock.  *)
LoadUnread(r) ==
  /\ pc[r] = "connected" /\ call[r].op = "resolve"
  /\ Visible(r)
  /\ pc' = [pc EXCEPT ![r] = "locked"]
  /\ UNCHANGED <<clock, faults, rules, call, tries, seen, reply>>

(* The SELECT of ResolveRule's transaction.                                 *)
Load(r) ==
  /\ pc[r] = "connected" /\ call[r].op = "resolve"
  /\ Visible(r)
  /\ seen' = [seen EXCEPT ![r] = rules[call[r].code]]
  /\ pc' = [pc EXCEPT ![r] = "locked"]
  /\ UNCHANGED <<clock, faults, rules, call, tries, reply>>

RefuseExpired(r) ==
  /\ pc[r] = "locked"
  /\ Expired(seen[r], call[r].now)
  /\ Answer(r, "rule_expired", seen[r].owner, 0)
  /\ UNCHANGED <<clock, faults, rules, call, tries, seen>>

(* UPDATE rules SET used_count = used_count + 1                             *)
UpdateUsage(r) ==
  /\ pc[r] = "locked"
  /\ ~Expired(seen[r], call[r].now)
  /\ pc' = [pc EXCEPT ![r] = "updated"]
  /\ UNCHANGED <<clock, faults, rules, call, tries, seen, reply>>

(* Variant: SET last_used_at = now().                                       *)
UsedByDatabaseClock(row, now) ==
  IF row = Null THEN Null
  ELSE [row EXCEPT !.usedCount = @ + 1, !.lastUsedAt = StoredTime(clock)]

Used(row, now) ==
  IF row = Null THEN Null
  ELSE [row EXCEPT !.usedCount = @ + 1, !.lastUsedAt = StoredTime(now)]

(* Variant: the error of tx.Commit() is ignored.                            *)
CommitUsageUnchecked(r) ==
  /\ pc[r] = "updated"
  /\ \/ rules' = [rules EXCEPT ![call[r].code] = Used(@, call[r].now)] /\ UNCHANGED faults
     \/ Fault /\ UNCHANGED rules
  /\ Answer(r, "redirect", seen[r].owner, seen[r].usedCount + 1)
  /\ UNCHANGED <<clock, call, tries, seen>>

CommitUsage(r) ==
  /\ pc[r] = "updated"
  /\ rules' = [rules EXCEPT ![call[r].code] = Used(@, call[r].now)]
  /\ Deliver(r, "redirect", seen[r].owner, seen[r].usedCount + 1)
  /\ UNCHANGED <<clock, call, tries, seen>>

Delete(r) ==
  /\ pc[r] = "connected" /\ call[r].op = "delete"
  /\ Visible(r)
  /\ rules' = [rules EXCEPT ![call[r].code] = Null]
  /\ Deliver(r, "deleted", seen[r].owner, 0)
  /\ UNCHANGED <<clock, call, tries, seen>>

(* GetRule scans its row and returns: the statement is over.                *)
ReadRule(r) ==
  /\ pc[r] = "connected" /\ call[r].op = "get"
  /\ seen[r] # Null
  /\ pc' = [pc EXCEPT ![r] = "read"]
  /\ UNCHANGED <<clock, faults, rules, call, tries, seen, reply>>

(* ruleResponse computes is_expired with a clock reading of its own, of a   *)
(* row that others may have changed since.                                  *)
ShowRule(r) ==
  /\ pc[r] = "read"
  /\ Answer(r, IF Expired(seen[r], clock) THEN "info_expired" ELSE "info_active",
            seen[r].owner, 0)
  /\ UNCHANGED <<clock, faults, rules, call, tries, seen>>

(* The calls in S fail before they take effect: an error of the driver or a *)
(* cancelled context for one, a crash for all those of a process.           *)
GiveUp(S) ==
  /\ Fault
  /\ pc' = [r \in Requests |-> IF r \in S THEN "done" ELSE pc[r]]
  /\ reply' = [r \in Requests |-> IF r \in S THEN Said("internal_error", Null, 0)
                                 ELSE reply[r]]
  /\ UNCHANGED <<clock, rules, call, tries, seen>>

Holds(code, owner) == rules[code] # Null /\ rules[code].owner = owner
-----------------------------------------------------------------------------
(* The variables of the service stay in their domains.                      *)
ServiceTypeOK ==
  /\ clock \in Nat /\ faults \in Nat
  /\ rules \in [Codes -> Rule \cup {Null}]
  /\ pc \in [Requests -> InSession \cup {"idle", "waiting", "read", "done"}]
  /\ call \in [Requests -> Call]
  /\ tries \in [Requests -> Nat]
  /\ seen \in [Requests -> Rule \cup {Null}]
  /\ reply \in [Requests -> Reply]

Redirected(o) == {r \in Requests : reply[r].kind = "redirect" /\ reply[r].owner = o}

(* However many resolves of a rule run at once, on however many instances,  *)
(* no more than max_usages of them redirect.                                *)
UsageLimit ==
  \A o \in Requests :
    call[o].rule # Null /\ call[o].rule.maxUsages # Null
      => Cardinality(Redirected(o)) <= call[o].rule.maxUsages

(* used_count counts every redirect a client got, and beyond those only     *)
(* commits whose acknowledgement was lost.                                  *)
RedirectsAreCounted ==
  \A c \in Codes : rules[c] # Null =>
    LET got == Cardinality(Redirected(rules[c].owner))
    IN  got <= rules[c].usedCount /\ rules[c].usedCount <= got + faults

(* A row that a resolve has read and checked stays as it was read until     *)
(* that transaction ends: neither a delete, a sweep nor another resolve     *)
(* comes between the check and the UPDATE.                                  *)
CheckedRowUnchanged ==
  \A r \in Requests : pc[r] \in {"locked", "updated"} =>
    /\ call[r].op = "resolve"
    /\ seen[r] # Null /\ rules[call[r].code] = seen[r]

(* Once a client has been told that a rule is expired or deleted, no call   *)
(* that arrives later finds that rule active, even though each call judges  *)
(* expiry by a clock reading of its own and a row may be read long after.   *)
EndedStaysEnded ==
  \A r \in Requests :
    reply[r].kind \in {"redirect", "info_active"} => reply[r].owner \notin call[r].ended

(* The retry loop leaves at most one row behind, and none after a refusal.  *)
OneRulePerCreate ==
  \A r \in Requests :
    LET owned == {c \in Codes : Holds(c, r)}
    IN  /\ Cardinality(owned) <= 1
        /\ reply[r].kind \in {"already_exists", "validation_error"} => owned = {}

(* Concurrent deletes of a rule: one of them is told that it deleted it.    *)
DeletedOnce ==
  \A q, r \in Requests :
    reply[q].kind = "deleted" /\ reply[r].kind = "deleted" /\ q # r
      => reply[q].owner # reply[r].owner

(* last_used_at, the clock reading the expiry check used, precedes the      *)
(* stored expiry even after PostgreSQL has rounded both.                    *)
NoUseAfterExpiry ==
  \A c \in Codes :
    rules[c] # Null /\ rules[c].lastUsedAt # Null /\ rules[c].expiresAt # Null
      => rules[c].lastUsedAt < rules[c].expiresAt

(* A row leaves the table because a delete asked for it or because it has   *)
(* expired; the sweep's clock reading and its row snapshot are both stale   *)
(* when it commits.                                                         *)
NothingLostEarly ==
  [][\A c \in Codes : rules[c] # Null /\ rules'[c] = Null =>
       \/ Expired(rules[c], clock + PurgeEarly)
       \/ \E r \in Requests : /\ call[r].op = "delete" /\ call[r].code = c
                              /\ pc[r] # "done" /\ pc'[r] = "done"]_<<rules, pc, call, clock>>

(* What lookups have seen of the rules they asked for, until they answer.   *)
Looked(r) == call[r].op # "create" /\ pc[r] \in InSession \cup {"read"}

Views == [r \in Requests |-> IF Looked(r) THEN {Entry(seen[r])} ELSE {}]

Book == INSTANCE RuleBook WITH
  book   <- [c \in Codes |-> Entry(rules[c])],
  asked  <- call,
  found  <- Views,
  answer <- reply

(* The service keeps the promises of RuleBook: each call takes effect once, *)
(* in a single step, although it runs as several.                           *)
KeepsRuleBook == Book!Spec

(* Every call is answered: no lock or connection is held for ever.          *)
EveryRequestAnswered ==
  \A r \in Requests : pc[r] # "idle" ~> pc[r] = "done"

(* A row that has expired is eventually deleted, for all the faults and     *)
(* resolves that get in the way of a sweep.                                 *)
ExpiredEventuallyPurged ==
  \A c \in Codes, o \in Requests :
    Holds(c, o) /\ Expired(rules[c], clock) ~> ~Holds(c, o)

(* A redirect is decided on a rule that is active at that moment.           *)
RedirectOnlyWhenActive ==
  [][\A r \in Requests : pc[r] = "locked" /\ pc'[r] = "updated"
       => ~Expired(seen[r], clock)]_<<pc, seen, clock>>

(* A positive ttl_seconds puts the expiry of a created rule in the future.  *)
TTLExpiresLater ==
  \A r \in Requests :
    call[r].rule # Null /\ call[r].rule.expiresAt # Null
      => call[r].now < call[r].rule.expiresAt

-----------------------------------------------------------------------------
(* Why UsageLimit holds: an inductive invariant.  Redirects of a rule are   *)
(* numbered; the numbers differ, and none exceeds the limit.                *)

RunningCallsAccepted ==
  \A r \in Requests : Running(r) =>
    /\ Accepted(call[r]) /\ call[r].op # "none"
    /\ call[r].op = "create" => call[r].rule.owner = r
    /\ pc[r] = "read" => call[r].op = "get" /\ seen[r] # Null

(* The UPDATE follows only a check that the rule has a use left.            *)
UsesLeft ==
  \A r \in Requests :
    pc[r] = "updated" /\ seen[r].maxUsages # Null
      => seen[r].usedCount < seen[r].maxUsages

(* A row was made by one finished create, and keeps the limit asked for.    *)
RowsHaveOwners ==
  /\ \A c \in Codes : rules[c] # Null =>
       LET o == rules[c].owner
       IN  pc[o] = "done" /\ call[o].rule # Null
           /\ call[o].rule.maxUsages = rules[c].maxUsages
  /\ \A c, d \in Codes :
       rules[c] # Null /\ rules[d] # Null /\ rules[c].owner = rules[d].owner => c = d

RedirectsHaveOwners ==
  \A r \in Requests : reply[r].kind = "redirect" =>
    LET o == reply[r].owner
    IN  /\ pc[o] = "done" /\ call[o].rule # Null
        /\ reply[r].n >= 1
        /\ call[o].rule.maxUsages # Null => reply[r].n <= call[o].rule.maxUsages

RedirectsNumbered ==
  /\ \A q, r \in Requests :
       /\ reply[q].kind = "redirect" /\ reply[r].kind = "redirect"
       /\ reply[q].owner = reply[r].owner /\ reply[q].n = reply[r].n
       => q = r
  /\ \A c \in Codes, r \in Requests :
       rules[c] # Null /\ reply[r].kind = "redirect" /\ reply[r].owner = rules[c].owner
         => reply[r].n <= rules[c].usedCount

(* Every redirect has a number of its own, at most the limit of its rule    *)
(* and at most the used_count of its row: the ground of UsageLimit.         *)
UsageInvariant ==
  /\ ServiceTypeOK
  /\ RunningCallsAccepted
  /\ CheckedRowUnchanged
  /\ UsesLeft
  /\ RowsHaveOwners
  /\ RedirectsHaveOwners
  /\ RedirectsNumbered
============================================================================
