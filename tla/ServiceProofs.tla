--------------------------- MODULE ServiceProofs ---------------------------
(***************************************************************************)
(* UsageLimit, as far as the service and the statements of both stores go: *)
(* every step of a call preserves UsageInvariant, provided that nobody     *)
(* else's checked row changes.  PostgresProofs and SqliteProofs show that  *)
(* row locks and the single connection provide that.                       *)
(*                                                                         *)
(* First the types, operator by operator; then who moves; then each part   *)
(* of the invariant, step by step; last, why it implies UsageLimit.        *)
(***************************************************************************)
EXTENDS Service, FiniteSetTheorems, TLAPS

(* A stored time is a time: rounding to PostgreSQL's microseconds.          *)
LEMMA StoredTimeType ==
  ASSUME NEW t \in Int \cup {Null}
  PROVE  StoredTime(t) \in Int \cup {Null}
<1>1. CASE t = Null
  BY <1>1 DEF StoredTime
<1>2. CASE t # Null
  <2>1. t \in Int
    BY <1>2
  <2>2. t \div Precision \in Int
    BY <2>1, PrecisionAssumption
  <2> QED
    BY <1>2, <2>1, <2>2, PrecisionAssumption DEF StoredTime
<1> QED
  BY <1>1, <1>2

(* The INSERT writes the rule it was given, with its owner and its limit.   *)
LEMMA RowType ==
  ASSUME NEW rule \in Rule
  PROVE  /\ Row(rule) \in Rule
         /\ Row(rule).owner = rule.owner
         /\ Row(rule).maxUsages = rule.maxUsages
<1>1. StoredTime(rule.expiresAt) \in Int \cup {Null}
  BY StoredTimeType DEF Rule
<1> QED
  BY <1>1 DEF Row, Rule

(* The UPDATE changes used_count and last_used_at and nothing else.         *)
LEMMA UsedType ==
  ASSUME NEW row \in Rule, NEW now \in Int \cup {Null}
  PROVE  /\ Used(row, now) \in Rule
         /\ Used(row, now).owner = row.owner
         /\ Used(row, now).maxUsages = row.maxUsages
         /\ Used(row, now).usedCount = row.usedCount + 1
<1>1. StoredTime(now) \in Int \cup {Null}
  BY StoredTimeType
<1>2. row # Null
  BY NullRuleAssumption
<1>3. row.usedCount \in Nat /\ row.usedCount + 1 \in Nat
  BY DEF Rule
<1>4. Used(row, now) = [row EXCEPT !.usedCount = row.usedCount + 1,
                                   !.lastUsedAt = StoredTime(now)]
  BY <1>2 DEF Used
<1> QED
  BY <1>1, <1>3, <1>4 DEF Rule

(* A validated create carries a rule of its own.                            *)
LEMMA CreateCallType ==
  ASSUME NEW r \in Requests, NEW input \in CreateInputs, NEW now \in Nat,
         NEW ended \in SUBSET Requests
  PROVE  LET c == CreateCall(r, input, now, ended)
         IN  /\ c \in Call
             /\ c.op = "create"
             /\ Accepted(c) => c.rule.owner = r
<1> DEFINE rule == RuleFromInput(r, input, now)
<1>1. input \in Inputs
  BY InputAssumption
<1>2. Duration(input.ttl) \in Int
  BY <1>1, DurationAssumption DEF Duration, Inputs
<1>3. ValidInput(input) => rule \in Rule /\ rule.owner = r
  <2>1. SUFFICES ASSUME ValidInput(input) PROVE rule \in Rule /\ rule.owner = r
    OBVIOUS
  <2>2. (IF input.ttl > 0 THEN now + Duration(input.ttl) ELSE Null) \in Int \cup {Null}
    BY <1>2
  <2>3. (IF input.max > 0 THEN input.max ELSE Null) \in (Nat \ {0}) \cup {Null}
    BY <1>1 DEF Inputs
  <2> QED
    BY <2>2, <2>3 DEF RuleFromInput, Rule
<1>4. input.alias \in Codes \cup {BadCode, Null}
  BY <1>1 DEF Inputs
<1> QED
  BY <1>3, <1>4, NullRuleAssumption
  DEF CreateCall, Call, Operations, Accepted

(* A lookup that gets past validateCode asks for a well-formed code.        *)
LEMMA LookupCallType ==
  ASSUME NEW op \in Operations \ {"create"}, NEW code \in LookupCodes,
         NEW now \in Nat, NEW ended \in SUBSET Requests
  PROVE  LET c == LookupCall(op, code, now, ended)
         IN  c \in Call /\ c.op = op
BY InputAssumption DEF LookupCall, Call, Operations

(* What clients have been told is gone are rules.                           *)
LEMMA EndedType ==
  ASSUME NEW replies \in [Requests -> Reply]
  PROVE  Ended(replies) \in SUBSET Requests
BY DEF Ended, Reply

-----------------------------------------------------------------------------
(* Types                                                                    *)

Steps == InSession \cup {"idle", "waiting", "read", "done"}

LEMMA ErrorsAreReplies ==
  \A kind \in {"validation_error", "already_exists", "not_found", "internal_error"} :
    Said(kind, Null, 0) \in Reply
BY DEF Said, Reply

LEMMA AnswersAreReplies ==
  \A kind \in {"created", "redirect", "rule_expired", "deleted", "info_active",
               "info_expired"},
     owner \in Requests, n \in Nat : Said(kind, owner, n) \in Reply
BY DEF Said, Reply

(* An answer is an answer to r alone.                                       *)
LEMMA AnswerType ==
  ASSUME ServiceTypeOK, NEW r \in Requests, NEW kind, NEW owner, NEW n,
         Said(kind, owner, n) \in Reply, Answer(r, kind, owner, n)
  PROVE  pc' \in [Requests -> Steps] /\ reply' \in [Requests -> Reply]
BY DEF ServiceTypeOK, Answer, Steps

LEMMA DeliverType ==
  ASSUME ServiceTypeOK, NEW r \in Requests, NEW kind, NEW owner, NEW n,
         Said(kind, owner, n) \in Reply, Deliver(r, kind, owner, n)
  PROVE  pc' \in [Requests -> Steps] /\ reply' \in [Requests -> Reply] /\ faults' \in Nat
<1>1. CASE Answer(r, kind, owner, n) /\ UNCHANGED faults
  BY <1>1, AnswerType DEF ServiceTypeOK
<1>2. CASE Answer(r, "internal_error", Null, 0) /\ Fault
  <2>1. faults' \in Nat
    BY <1>2 DEF ServiceTypeOK, Fault
  <2> QED
    BY <1>2, <2>1, AnswerType, ErrorsAreReplies
<1> QED
  BY <1>1, <1>2 DEF Deliver

(* The call of a request at the store names a code or, for a create,        *)
(* carries a rule.                                                          *)
LEMMA AcceptedCall ==
  ASSUME ServiceTypeOK, RunningCallsAccepted, NEW r \in Requests, Running(r)
  PROVE  /\ call[r] \in Call
         /\ call[r].op = "create" => call[r].rule \in Rule /\ call[r].rule.owner = r
         /\ call[r].op # "create" => call[r].code \in Codes
BY DEF ServiceTypeOK, RunningCallsAccepted, Accepted, ValidCode, Call

Checking(r) == pc[r] \in {"locked", "updated"}
Checked == CheckedRowUnchanged /\ UsesLeft

(* What a request that is checking relies on.                               *)
LEMMA CheckedRow ==
  ASSUME ServiceTypeOK, RunningCallsAccepted, Checked, NEW q \in Requests, Checking(q)
  PROVE  /\ call[q].code \in Codes
         /\ seen[q] \in Rule
         /\ rules[call[q].code] = seen[q]
         /\ call[q].now \in Int \cup {Null}
<1>1. Running(q)
  BY DEF Checking, Running
<1>2. seen[q] \in Rule
  BY DEF Checked, Checking, CheckedRowUnchanged, ServiceTypeOK
<1> QED
  BY <1>1, <1>2, AcceptedCall DEF Checked, Checking, CheckedRowUnchanged, Call

LEMMA ArriveType ==
  ASSUME ServiceTypeOK, NEW r \in Requests, NEW newCall \in Call, Arrive(r, newCall)
  PROVE  ServiceTypeOK'
<1>1. call' \in [Requests -> Call]
  BY DEF ServiceTypeOK, Arrive
<1>2. pc' \in [Requests -> Steps] /\ reply' \in [Requests -> Reply]
  <2>1. CASE Accepted(newCall)
    BY <2>1 DEF ServiceTypeOK, Arrive, Steps
  <2>2. CASE ~Accepted(newCall)
    BY <2>2, AnswerType, ErrorsAreReplies DEF Arrive
  <2> QED
    BY <2>1, <2>2
<1> QED
  BY <1>1, <1>2 DEF ServiceTypeOK, Arrive, Steps

(* The call that arrives, create or lookup.                                 *)
LEMMA Arrival ==
  ASSUME ServiceTypeOK, NEW r \in Requests, ArriveCreate(r) \/ ArriveLookup(r)
  PROVE  \E newCall \in Call :
           /\ Arrive(r, newCall)
           /\ newCall.op # "none"
           /\ newCall.op = "create" /\ Accepted(newCall) => newCall.rule.owner = r
<1>1. clock \in Nat /\ Ended(reply) \in SUBSET Requests
  BY EndedType DEF ServiceTypeOK
<1>2. CASE ArriveCreate(r)
  <2>1. PICK input \in CreateInputs : Arrive(r, CreateCall(r, input, clock, Ended(reply)))
    BY <1>2 DEF ArriveCreate
  <2> QED
    BY <1>1, <2>1, CreateCallType
<1>3. CASE ArriveLookup(r)
  <2>1. Workload[r] \subseteq Operations
    BY ServiceAssumption
  <2>2. PICK op \in Workload[r] \ {"create"}, code \in LookupCodes :
          Arrive(r, LookupCall(op, code, clock, Ended(reply)))
    BY <1>3 DEF ArriveLookup
  <2>3. LET c == LookupCall(op, code, clock, Ended(reply))
        IN  c \in Call /\ c.op # "none" /\ c.op # "create"
    BY <1>1, <2>1, <2>2, LookupCallType DEF Operations
  <2> QED
    BY <2>2, <2>3
<1> QED
  BY <1>2, <1>3

(* The steps of a call at the store.                                        *)
Act(r) ==
  \/ Connect(r)
  \/ \E c \in Codes : Insert(r, c) \/ AliasTaken(r, c) \/ Collide(r, c)
  \/ Missing(r) \/ Load(r) \/ RefuseExpired(r) \/ UpdateUsage(r) \/ CommitUsage(r)
  \/ Delete(r) \/ ReadRule(r) \/ ShowRule(r)

LEMMA ActType ==
  ASSUME ServiceTypeOK, RunningCallsAccepted, Checked, NEW r \in Requests, Act(r)
  PROVE  ServiceTypeOK'
<1> USE DEF Steps
<1>1. CASE Connect(r)
  <2>1. call[r].op # "create" => rules[call[r].code] \in Rule \cup {Null}
    BY <1>1, AcceptedCall DEF Connect, Running, ServiceTypeOK
  <2>2. pc' \in [Requests -> Steps]
    BY <1>1 DEF Connect, ServiceTypeOK, InSession
  <2> QED
    BY <1>1, <2>1, <2>2 DEF Connect, ServiceTypeOK
<1>2. ASSUME NEW c \in Codes, Insert(r, c)
      PROVE  ServiceTypeOK'
  <2>1. Row(call[r].rule) \in Rule
    BY <1>2, AcceptedCall, RowType DEF Insert, Inserting, Running
  <2>2. Said("created", r, 0) \in Reply
    BY AnswersAreReplies
  <2> QED
    BY <1>2, <2>1, <2>2, DeliverType DEF Insert, ServiceTypeOK
<1>3. ASSUME NEW c \in Codes, AliasTaken(r, c)
      PROVE  ServiceTypeOK'
  BY <1>3, AnswerType, ErrorsAreReplies DEF AliasTaken, ServiceTypeOK
<1>4. ASSUME NEW c \in Codes, Collide(r, c)
      PROVE  ServiceTypeOK'
  <2>1. pc' \in [Requests -> Steps] /\ reply' \in [Requests -> Reply]
    <3>1. CASE tries[r] + 1 < MaxAttempts
      BY <1>4, <3>1 DEF Collide, ServiceTypeOK
    <3>2. CASE ~(tries[r] + 1 < MaxAttempts)
      BY <1>4, <3>2, AnswerType, ErrorsAreReplies DEF Collide
    <3> QED
      BY <3>1, <3>2
  <2>2. tries' \in [Requests -> Nat]
    BY <1>4 DEF Collide, ServiceTypeOK
  <2> QED
    BY <1>4, <2>1, <2>2 DEF Collide, ServiceTypeOK
<1>5. CASE Missing(r)
  BY <1>5, AnswerType, ErrorsAreReplies DEF Missing, ServiceTypeOK
<1>6. CASE Load(r)
  <2>1. rules[call[r].code] \in Rule \cup {Null}
    BY <1>6, AcceptedCall DEF Load, Running, ServiceTypeOK
  <2>2. pc' \in [Requests -> Steps]
    BY <1>6 DEF Load, ServiceTypeOK, InSession
  <2> QED
    BY <1>6, <2>1, <2>2 DEF Load, ServiceTypeOK
<1>7. CASE RefuseExpired(r)
  <2>1. seen[r] \in Rule
    BY <1>7, CheckedRow DEF RefuseExpired, Checking
  <2>2. Said("rule_expired", seen[r].owner, 0) \in Reply
    BY <2>1, AnswersAreReplies DEF Rule
  <2> QED
    BY <1>7, <2>2, AnswerType DEF RefuseExpired, ServiceTypeOK
<1>8. CASE UpdateUsage(r)
  BY <1>8 DEF UpdateUsage, ServiceTypeOK, InSession
<1>9. CASE CommitUsage(r)
  <2>1. /\ call[r].code \in Codes /\ call[r].now \in Int \cup {Null}
        /\ seen[r] \in Rule /\ rules[call[r].code] = seen[r]
    BY <1>9, CheckedRow DEF CommitUsage, Checking
  <2>2. seen[r].usedCount + 1 \in Nat
    BY <2>1 DEF Rule
  <2>3. Said("redirect", seen[r].owner, seen[r].usedCount + 1) \in Reply
    BY <2>1, <2>2, AnswersAreReplies DEF Rule
  <2>4. Used(rules[call[r].code], call[r].now) \in Rule
    BY <2>1, UsedType
  <2>5. rules' \in [Codes -> Rule \cup {Null}]
    BY <1>9, <2>1, <2>4 DEF CommitUsage, ServiceTypeOK
  <2> QED
    BY <1>9, <2>3, <2>5, DeliverType DEF CommitUsage, ServiceTypeOK
<1>10. CASE Delete(r)
  <2>1. seen[r] \in Rule
    BY <1>10 DEF Delete, Visible, ServiceTypeOK
  <2>2. Said("deleted", seen[r].owner, 0) \in Reply
    BY <2>1, AnswersAreReplies DEF Rule
  <2> QED
    BY <1>10, <2>2, DeliverType DEF Delete, ServiceTypeOK
<1>11. CASE ShowRule(r)
  <2>1. seen[r] \in Rule
    BY <1>11 DEF ShowRule, ServiceTypeOK, RunningCallsAccepted, Running
  <2>2. Said(IF Expired(seen[r], clock) THEN "info_expired" ELSE "info_active",
             seen[r].owner, 0) \in Reply
    BY <2>1, AnswersAreReplies DEF Rule
  <2> QED
    BY <1>11, <2>2, AnswerType DEF ShowRule, ServiceTypeOK
<1>12. CASE ReadRule(r)
  BY <1>12 DEF ReadRule, ServiceTypeOK
<1> QED
  BY <1>1, <1>2, <1>3, <1>4, <1>5, <1>6, <1>7, <1>8, <1>9, <1>10, <1>11, <1>12 DEF Act

(* Calls that give up are answered; nothing else happens to the service.    *)
LEMMA GiveUpType ==
  ASSUME ServiceTypeOK, NEW S, GiveUp(S)
  PROVE  ServiceTypeOK'
<1>1. Said("internal_error", Null, 0) \in Reply
  BY ErrorsAreReplies
<1>2. faults' \in Nat
  BY DEF GiveUp, Fault, ServiceTypeOK
<1> QED
  BY <1>1, <1>2 DEF GiveUp, ServiceTypeOK

-----------------------------------------------------------------------------
(* Who moves: a step of r leaves the calls and answers of others alone.     *)
OthersStay(r) ==
  \A q \in Requests \ {r} :
    pc'[q] = pc[q] /\ call'[q] = call[q] /\ reply'[q] = reply[q] /\ seen'[q] = seen[q]

LEMMA ArriveMoves ==
  ASSUME ServiceTypeOK, NEW r \in Requests, NEW newCall, Arrive(r, newCall)
  PROVE  /\ pc[r] = "idle"
         /\ OthersStay(r)
         /\ rules' = rules
         /\ call'[r] = newCall
         /\ \/ pc'[r] = "waiting" /\ Accepted(newCall) /\ reply'[r] = reply[r]
            \/ pc'[r] = "done" /\ reply'[r].kind = "validation_error"
<1>1. CASE Accepted(newCall)
  BY <1>1 DEF Arrive, OthersStay, ServiceTypeOK
<1>2. CASE ~Accepted(newCall)
  BY <1>2 DEF Arrive, Answer, Said, OthersStay, ServiceTypeOK
<1> QED
  BY <1>1, <1>2

LEMMA DeliverMoves ==
  ASSUME ServiceTypeOK, NEW r \in Requests, NEW kind, NEW owner, NEW n,
         Deliver(r, kind, owner, n)
  PROVE  /\ pc' = [pc EXCEPT ![r] = "done"]
         /\ reply'[r] = Said(kind, owner, n) \/ reply'[r].kind = "internal_error"
         /\ \A q \in Requests \ {r} : reply'[q] = reply[q]
BY DEF Deliver, Answer, Said, ServiceTypeOK

LEMMA ActMoves ==
  ASSUME ServiceTypeOK, NEW r \in Requests, Act(r)
  PROVE  /\ Running(r)
         /\ call' = call
         /\ OthersStay(r)
         /\ pc'[r] # "idle"
         /\ pc'[r] = "read" => call[r].op = "get" /\ seen'[r] # Null
<1> USE DEF OthersStay, Running, ServiceTypeOK
<1>1. CASE Connect(r)
  BY <1>1 DEF Connect
<1>2. ASSUME NEW c \in Codes, Insert(r, c)
      PROVE  Running(r) /\ call' = call /\ OthersStay(r) /\ pc'[r] \notin {"idle", "read"}
  BY <1>2, DeliverMoves DEF Insert, Inserting
<1>3. ASSUME NEW c \in Codes, AliasTaken(r, c) \/ Collide(r, c)
      PROVE  Running(r) /\ call' = call /\ OthersStay(r) /\ pc'[r] \notin {"idle", "read"}
  BY <1>3 DEF AliasTaken, Collide, Inserting, Answer
<1>4. CASE Missing(r) \/ ShowRule(r)
  BY <1>4 DEF Missing, ShowRule, Answer
<1>5. CASE Load(r) \/ UpdateUsage(r) \/ ReadRule(r)
  BY <1>5 DEF Load, UpdateUsage, ReadRule
<1>6. CASE RefuseExpired(r)
  BY <1>6 DEF RefuseExpired, Answer
<1>7. CASE CommitUsage(r)
  BY <1>7, DeliverMoves DEF CommitUsage
<1>8. CASE Delete(r)
  BY <1>8, DeliverMoves DEF Delete
<1> QED
  BY <1>1, <1>2, <1>3, <1>4, <1>5, <1>6, <1>7, <1>8 DEF Act

-----------------------------------------------------------------------------
(* Running calls were accepted, and a done request stays done.              *)
DoneStays ==
  \A o \in Requests : pc[o] = "done" => pc'[o] = "done" /\ call'[o] = call[o]

LEMMA ArriveRunning ==
  ASSUME ServiceTypeOK, RunningCallsAccepted, NEW r \in Requests,
         ArriveCreate(r) \/ ArriveLookup(r)
  PROVE  RunningCallsAccepted' /\ DoneStays
<1>1. PICK newCall \in Call :
        /\ Arrive(r, newCall)
        /\ newCall.op # "none"
        /\ newCall.op = "create" /\ Accepted(newCall) => newCall.rule.owner = r
  BY Arrival
<1> QED
  BY <1>1, ArriveMoves DEF RunningCallsAccepted, DoneStays, Running, OthersStay, Accepted

LEMMA ActRunning ==
  ASSUME ServiceTypeOK, RunningCallsAccepted, NEW r \in Requests, Act(r)
  PROVE  RunningCallsAccepted' /\ DoneStays
BY ActMoves DEF RunningCallsAccepted, DoneStays, Running, OthersStay, Accepted

LEMMA GiveUpRunning ==
  ASSUME ServiceTypeOK, RunningCallsAccepted, NEW S \in SUBSET Requests, GiveUp(S)
  PROVE  RunningCallsAccepted' /\ DoneStays
BY DEF GiveUp, RunningCallsAccepted, DoneStays, Running, Accepted

-----------------------------------------------------------------------------
(* A checked row stays as it was read if others leave it alone.             *)
Undisturbed(S) ==
  \A q \in Requests \ S : Checking(q) => rules'[call[q].code] = rules[call[q].code]

(* A step that does not put r itself into the checking state is harmless.   *)
LEMMA CheckedFrame ==
  ASSUME ServiceTypeOK, Checked, NEW r \in Requests,
         OthersStay(r), Undisturbed({r}), ~Checking(r)'
  PROVE  Checked'
BY DEF Checked, Checking, CheckedRowUnchanged, UsesLeft, OthersStay, Undisturbed

LEMMA ActChecked ==
  ASSUME ServiceTypeOK, RunningCallsAccepted, Checked, NEW r \in Requests, Act(r),
         Undisturbed({r})
  PROVE  Checked'
<1>1. OthersStay(r) /\ Running(r)
  BY ActMoves
<1>2. ASSUME pc'[r] \notin {"locked", "updated"} PROVE Checked'
  BY <1>1, <1>2, CheckedFrame DEF Checking
<1>3. CASE Connect(r)
  BY <1>2, <1>3 DEF Connect, ServiceTypeOK
<1>4. ASSUME NEW c \in Codes, Insert(r, c)
      PROVE  Checked'
  BY <1>2, <1>4, DeliverMoves DEF Insert, ServiceTypeOK
<1>5. ASSUME NEW c \in Codes, AliasTaken(r, c) \/ Collide(r, c)
      PROVE  Checked'
  BY <1>2, <1>5 DEF AliasTaken, Collide, Answer, ServiceTypeOK
<1>6. CASE Missing(r) \/ ReadRule(r) \/ ShowRule(r) \/ RefuseExpired(r)
  BY <1>2, <1>6 DEF Missing, ReadRule, ShowRule, RefuseExpired, Answer, ServiceTypeOK
<1>7. CASE CommitUsage(r)
  BY <1>2, <1>7, DeliverMoves DEF CommitUsage, ServiceTypeOK
<1>8. CASE Delete(r)
  BY <1>2, <1>8, DeliverMoves DEF Delete, ServiceTypeOK
<1>9. CASE Load(r)
  <2>1. call[r].op = "resolve" /\ call[r].code \in Codes /\ rules[call[r].code] # Null
    BY <1>1, <1>9, AcceptedCall DEF Load, Visible
  <2>2. /\ call' = call /\ rules' = rules /\ pc'[r] = "locked"
        /\ seen'[r] = rules[call[r].code]
    BY <1>9 DEF Load, ServiceTypeOK
  <2> QED
    BY <1>1, <2>1, <2>2 DEF Checked, CheckedRowUnchanged, UsesLeft, OthersStay
<1>10. CASE UpdateUsage(r)
  <2>1. seen[r] \in Rule
    BY <1>10, CheckedRow DEF UpdateUsage, Checking
  <2>2. seen[r].maxUsages # Null => seen[r].usedCount < seen[r].maxUsages
    BY <1>10, <2>1, NullAssumption DEF UpdateUsage, Expired, ExpiredByUsage, Rule
  <2> QED
    BY <1>10, <2>2 DEF UpdateUsage, Checked, CheckedRowUnchanged, UsesLeft, ServiceTypeOK
<1> QED
  BY <1>3, <1>4, <1>5, <1>6, <1>7, <1>8, <1>9, <1>10 DEF Act

LEMMA GiveUpChecked ==
  ASSUME ServiceTypeOK, Checked, NEW S \in SUBSET Requests, GiveUp(S)
  PROVE  Checked'
BY DEF GiveUp, Checked, CheckedRowUnchanged, UsesLeft

-----------------------------------------------------------------------------
(* The rows and the numbering of redirects                                  *)

Numbering == RowsHaveOwners /\ RedirectsHaveOwners /\ RedirectsNumbered

(* The owner of a row, and of a redirect, is a request.                     *)
LEMMA OwnersAreRequests ==
  ASSUME ServiceTypeOK
  PROVE  /\ \A c \in Codes : rules[c] # Null => rules[c] \in Rule /\ rules[c].owner \in Requests
         /\ \A r \in Requests : reply[r].kind = "redirect" =>
              reply[r].owner \in Requests /\ reply[r].n \in Nat
<1>1. \A row \in Rule : row.owner \in Requests
  BY DEF Rule
<1>2. \A s \in Reply : s.kind = "redirect" => s.owner \in Requests /\ s.n \in Nat
  BY DEF Reply
<1> QED
  BY <1>1, <1>2 DEF ServiceTypeOK

(* A step that adds no row, changes none and adds no redirect is harmless.  *)
LEMMA NumberingFrame ==
  ASSUME ServiceTypeOK, Numbering, DoneStays,
         \A c \in Codes : rules'[c] = rules[c] \/ rules'[c] = Null,
         \A q \in Requests : reply'[q].kind = "redirect" => reply'[q] = reply[q]
  PROVE  Numbering'
<1>1. RowsHaveOwners'
  BY OwnersAreRequests DEF Numbering, RowsHaveOwners, DoneStays
<1>2. RedirectsHaveOwners'
  BY OwnersAreRequests DEF Numbering, RedirectsHaveOwners, DoneStays
<1>3. RedirectsNumbered'
  BY DEF Numbering, RedirectsNumbered
<1> QED
  BY <1>1, <1>2, <1>3 DEF Numbering

(* The row a create inserts is its first and has no redirects yet.          *)
LEMMA InsertNumbering ==
  ASSUME ServiceTypeOK, RunningCallsAccepted, Numbering, DoneStays,
         NEW r \in Requests, NEW c \in Codes, Insert(r, c)
  PROVE  Numbering'
<1> DEFINE row == Row(call[r].rule)
<1>1. /\ call[r].rule \in Rule
      /\ row \in Rule /\ row.owner = r /\ row.maxUsages = call[r].rule.maxUsages
  BY AcceptedCall, RowType DEF Insert, Inserting, Running
<1>2. pc[r] # "done" /\ call' = call /\ pc'[r] = "done"
  BY DeliverMoves DEF Insert, Inserting, ServiceTypeOK
<1>3. rules'[c] = row /\ \A d \in Codes \ {c} : rules'[d] = rules[d]
  BY DEF Insert, ServiceTypeOK
<1>4. \A q \in Requests : reply'[q].kind = "redirect" => reply'[q] = reply[q]
  <2>1. /\ reply'[r] = Said("created", r, 0) \/ reply'[r].kind = "internal_error"
        /\ \A q \in Requests \ {r} : reply'[q] = reply[q]
    BY DeliverMoves DEF Insert
  <2>2. reply'[r].kind # "redirect"
    BY <2>1 DEF Said
  <2> QED
    BY <2>1, <2>2
<1>5. RowsHaveOwners'
  <2>1. \A d \in Codes \ {c} : rules'[d] # Null => rules'[d].owner # r
    BY <1>2, <1>3 DEF Numbering, RowsHaveOwners
  <2>2. call[r].rule # Null
    BY <1>1, NullRuleAssumption
  <2>3. ASSUME NEW d \in Codes, rules'[d] # Null
        PROVE  LET o == rules'[d].owner
               IN  pc'[o] = "done" /\ call'[o].rule # Null
                   /\ call'[o].rule.maxUsages = rules'[d].maxUsages
    <3>1. CASE d = c
      BY <1>1, <1>2, <1>3, <2>2, <3>1
    <3>2. CASE d # c
      BY <1>2, <1>3, <2>3, <3>2, OwnersAreRequests
      DEF Numbering, RowsHaveOwners, DoneStays
    <3> QED
      BY <3>1, <3>2
  <2>4. ASSUME NEW d \in Codes, NEW e \in Codes, rules'[d] # Null, rules'[e] # Null,
               rules'[d].owner = rules'[e].owner
        PROVE  d = e
    BY <1>1, <1>3, <2>1, <2>4 DEF Numbering, RowsHaveOwners
  <2> QED
    BY <2>3, <2>4 DEF RowsHaveOwners
<1>6. RedirectsHaveOwners'
  BY <1>2, <1>4, OwnersAreRequests DEF Numbering, RedirectsHaveOwners, DoneStays
<1>7. RedirectsNumbered'
  <2>1. ASSUME NEW q \in Requests, reply'[q].kind = "redirect"
        PROVE  reply'[q].owner # r
    BY <1>2, <1>4, <2>1 DEF Numbering, RedirectsHaveOwners
  <2> QED
    BY <1>1, <1>3, <1>4, <2>1 DEF Numbering, RedirectsNumbered
<1> QED
  BY <1>5, <1>6, <1>7 DEF Numbering

(* A redirect takes the number after the row's used_count, which no earlier *)
(* one has and the limit allows.                                            *)
LEMMA CommitNumbering ==
  ASSUME ServiceTypeOK, RunningCallsAccepted, Checked, Numbering, DoneStays,
         NEW r \in Requests, CommitUsage(r)
  PROVE  Numbering'
<1> DEFINE c == call[r].code
           row == rules[c]
           o == row.owner
<1>1. /\ c \in Codes /\ row = seen[r] /\ row \in Rule /\ row # Null
      /\ call[r].now \in Int \cup {Null}
  BY CheckedRow, NullRuleAssumption DEF CommitUsage, Checking
<1>2. o \in Requests /\ row.usedCount \in Nat
  BY <1>1 DEF Rule
<1>3. /\ rules'[c] \in Rule
      /\ rules'[c].owner = o
      /\ rules'[c].maxUsages = row.maxUsages
      /\ rules'[c].usedCount = row.usedCount + 1
      /\ \A d \in Codes \ {c} : rules'[d] = rules[d]
  <2>1. rules'[c] = Used(row, call[r].now)
    BY <1>1 DEF CommitUsage, ServiceTypeOK
  <2>2. \A d \in Codes \ {c} : rules'[d] = rules[d]
    BY <1>1 DEF CommitUsage, ServiceTypeOK
  <2> QED
    BY <1>1, <2>1, <2>2, UsedType
<1>4. /\ call' = call
      /\ \A q \in Requests \ {r} : reply'[q] = reply[q]
      /\ reply'[r].kind = "redirect" => reply'[r].owner = o /\ reply'[r].n = row.usedCount + 1
  <2>1. /\ \/ reply'[r] = Said("redirect", seen[r].owner, seen[r].usedCount + 1)
           \/ reply'[r].kind = "internal_error"
        /\ \A q \in Requests \ {r} : reply'[q] = reply[q]
    BY DeliverMoves DEF CommitUsage
  <2>2. call' = call
    BY DEF CommitUsage
  <2> QED
    BY <1>1, <2>1, <2>2 DEF Said
<1>5. /\ pc[o] = "done" /\ call[o].rule # Null
      /\ call[o].rule.maxUsages = row.maxUsages
  BY <1>1 DEF Numbering, RowsHaveOwners
<1>6. row.maxUsages # Null => row.usedCount + 1 <= row.maxUsages
  <2>1. row.maxUsages # Null => row.usedCount < row.maxUsages
    BY <1>1 DEF CommitUsage, Checked, UsesLeft
  <2>2. row.maxUsages # Null => row.maxUsages \in Nat
    BY <1>1 DEF Rule
  <2> QED
    BY <1>2, <2>1, <2>2
<1>7. RowsHaveOwners'
  <2>1. \A d \in Codes : (rules'[d] # Null <=> rules[d] # Null)
    BY <1>1, <1>3, NullRuleAssumption
  <2>2. \A d \in Codes : rules[d] # Null =>
          rules'[d].owner = rules[d].owner /\ rules'[d].maxUsages = rules[d].maxUsages
    BY <1>3
  <2> QED
    BY <2>1, <2>2, OwnersAreRequests DEF Numbering, RowsHaveOwners, DoneStays
<1>8. RedirectsHaveOwners'
  <2>1. ASSUME NEW q \in Requests, reply'[q].kind = "redirect"
        PROVE  LET p == reply'[q].owner
               IN  /\ pc'[p] = "done" /\ call'[p].rule # Null
                   /\ reply'[q].n >= 1
                   /\ call'[p].rule.maxUsages # Null
                        => reply'[q].n <= call'[p].rule.maxUsages
    <3>1. CASE q = r
      BY <1>2, <1>4, <1>5, <1>6, <2>1, <3>1 DEF DoneStays
    <3>2. CASE q # r
      BY <1>4, <2>1, <3>2, OwnersAreRequests DEF Numbering, RedirectsHaveOwners, DoneStays
    <3> QED
      BY <3>1, <3>2
  <2> QED
    BY <2>1 DEF RedirectsHaveOwners
<1>9. RedirectsNumbered'
  <2>1. \A q \in Requests \ {r} :
          reply[q].kind = "redirect" /\ reply[q].owner = o => reply[q].n <= row.usedCount
    BY <1>1 DEF Numbering, RedirectsNumbered
  <2>2. \A q \in Requests \ {r} :
          reply[q].kind = "redirect" /\ reply[q].owner = o
            => reply[q].n < row.usedCount + 1
    BY <1>2, <2>1, OwnersAreRequests
  <2>3. ASSUME NEW p \in Requests, NEW q \in Requests,
               reply'[p].kind = "redirect", reply'[q].kind = "redirect",
               reply'[p].owner = reply'[q].owner, reply'[p].n = reply'[q].n
        PROVE  p = q
    <3>1. CASE p # r /\ q # r
      BY <1>4, <2>3, <3>1 DEF Numbering, RedirectsNumbered
    <3>2. ASSUME NEW s \in Requests \ {r}, reply'[r].kind = "redirect",
                 reply[s].kind = "redirect", reply[s].owner = reply'[r].owner
          PROVE  reply[s].n # reply'[r].n
      BY <1>2, <1>4, <2>2, <3>2, OwnersAreRequests
    <3> QED
      BY <1>4, <2>3, <3>1, <3>2
  <2>4. ASSUME NEW d \in Codes, NEW q \in Requests, rules'[d] # Null,
               reply'[q].kind = "redirect", reply'[q].owner = rules'[d].owner
        PROVE  reply'[q].n <= rules'[d].usedCount
    <3>1. CASE q = r
      <4>1. rules[d] # Null /\ rules[d].owner = o
        BY <1>1, <1>3, <1>4, <2>4, <3>1
      <4>2. d = c
        BY <1>1, <4>1 DEF Numbering, RowsHaveOwners
      <4> QED
        BY <1>2, <1>3, <1>4, <2>4, <3>1, <4>2
    <3>2. CASE q # r /\ d = c
      BY <1>2, <1>3, <1>4, <2>2, <2>4, <3>2, OwnersAreRequests
    <3>3. CASE q # r /\ d # c
      BY <1>3, <1>4, <2>4, <3>3 DEF Numbering, RedirectsNumbered
    <3> QED
      BY <3>1, <3>2, <3>3
  <2> QED
    BY <2>3, <2>4 DEF RedirectsNumbered
<1> QED
  BY <1>7, <1>8, <1>9 DEF Numbering

(* Every other step of a call leaves rows and redirects as NumberingFrame   *)
(* wants them.                                                              *)
LEMMA ActNumbering ==
  ASSUME ServiceTypeOK, RunningCallsAccepted, Checked, Numbering, DoneStays,
         NEW r \in Requests, Act(r)
  PROVE  Numbering'
<1>1. OthersStay(r)
  BY ActMoves
<1>2. ASSUME rules' = rules, reply'[r] = reply[r] \/ reply'[r].kind # "redirect"
      PROVE  Numbering'
  BY <1>1, <1>2, NumberingFrame DEF OthersStay
<1>3. ASSUME NEW c \in Codes, Insert(r, c)
      PROVE  Numbering'
  BY <1>3, InsertNumbering
<1>4. ASSUME NEW c \in Codes, AliasTaken(r, c) \/ Collide(r, c)
      PROVE  Numbering'
  BY <1>2, <1>4 DEF AliasTaken, Collide, Answer, Said, ServiceTypeOK
<1>5. CASE Connect(r) \/ Load(r) \/ UpdateUsage(r) \/ ReadRule(r)
  BY <1>2, <1>5 DEF Connect, Load, UpdateUsage, ReadRule
<1>6. CASE Missing(r)
  BY <1>2, <1>6 DEF Missing, Answer, Said, ServiceTypeOK
<1>7. CASE ShowRule(r)
  <2>1. reply'[r].kind \in {"info_expired", "info_active"}
    BY <1>7 DEF ShowRule, Answer, Said, ServiceTypeOK
  <2> QED
    BY <1>2, <1>7, <2>1 DEF ShowRule
<1>8. CASE RefuseExpired(r)
  BY <1>2, <1>8 DEF RefuseExpired, Answer, Said, ServiceTypeOK
<1>10. CASE CommitUsage(r)
  BY <1>10, CommitNumbering
<1>11. CASE Delete(r)
  <2>1. \A c \in Codes : rules'[c] = rules[c] \/ rules'[c] = Null
    BY <1>11 DEF Delete, ServiceTypeOK
  <2>2. reply'[r] = Said("deleted", seen[r].owner, 0) \/ reply'[r].kind = "internal_error"
    BY <1>11, DeliverMoves DEF Delete
  <2>3. reply'[r].kind # "redirect"
    BY <2>2 DEF Said
  <2> QED
    BY <1>1, <2>1, <2>3, NumberingFrame DEF OthersStay
<1> QED
  BY <1>3, <1>4, <1>5, <1>6, <1>7, <1>8, <1>10, <1>11 DEF Act

LEMMA ArriveNumbering ==
  ASSUME ServiceTypeOK, Numbering, DoneStays, NEW r \in Requests,
         ArriveCreate(r) \/ ArriveLookup(r)
  PROVE  Numbering'
<1>1. PICK newCall \in Call : Arrive(r, newCall)
  BY Arrival
<1>2. \A q \in Requests : reply'[q].kind = "redirect" => reply'[q] = reply[q]
  BY <1>1, ArriveMoves DEF OthersStay
<1> QED
  BY <1>1, <1>2, ArriveMoves, NumberingFrame

LEMMA GiveUpNumbering ==
  ASSUME ServiceTypeOK, Numbering, DoneStays, NEW S \in SUBSET Requests, GiveUp(S)
  PROVE  Numbering'
<1>1. \A q \in Requests : reply'[q].kind = "redirect" => reply'[q] = reply[q]
  BY DEF GiveUp, Said
<1> QED
  BY <1>1, NumberingFrame DEF GiveUp

-----------------------------------------------------------------------------
(* UsageInvariant, for the stores to use: it holds at first and is kept by  *)
(* arrivals, by the steps of calls, by calls that give up, and by any step  *)
(* that only takes unchecked rows out of the table.                         *)
LEMMA UsageInvariantParts ==
  ASSUME UsageInvariant
  PROVE  ServiceTypeOK /\ RunningCallsAccepted /\ Checked /\ Numbering
BY DEF UsageInvariant, Checked, Numbering

LEMMA UsageInvariantNext ==
  ASSUME ServiceTypeOK', RunningCallsAccepted', Checked', Numbering'
  PROVE  UsageInvariant'
BY DEF UsageInvariant, Checked, Numbering

LEMMA InitKeeps ==
  ASSUME ServiceInit
  PROVE  UsageInvariant
<1>1. NoCall \in Call
  BY DEF NoCall, Call
<1>2. NoReply \in Reply /\ NoReply.kind = "none"
  BY DEF NoReply, Said, Reply
<1>3. ServiceTypeOK
  BY <1>1, <1>2, ServiceAssumption DEF ServiceInit, ServiceTypeOK
<1> QED
  BY <1>2, <1>3
  DEF ServiceInit, UsageInvariant, RunningCallsAccepted, Running, CheckedRowUnchanged,
      UsesLeft, RowsHaveOwners, RedirectsHaveOwners, RedirectsNumbered

LEMMA ArriveKeeps ==
  ASSUME UsageInvariant, NEW r \in Requests, ArriveCreate(r) \/ ArriveLookup(r)
  PROVE  UsageInvariant'
<1>1. PICK newCall \in Call : Arrive(r, newCall)
  BY UsageInvariantParts, Arrival
<1>2. ServiceTypeOK'
  BY <1>1, UsageInvariantParts, ArriveType
<1>3. OthersStay(r) /\ Undisturbed({r}) /\ ~Checking(r)'
  BY <1>1, UsageInvariantParts, ArriveMoves DEF Undisturbed, Checking
<1>4. Checked'
  BY <1>3, UsageInvariantParts, CheckedFrame
<1>5. RunningCallsAccepted' /\ DoneStays
  BY UsageInvariantParts, ArriveRunning
<1>6. Numbering'
  BY <1>5, UsageInvariantParts, ArriveNumbering
<1> QED
  BY <1>2, <1>4, <1>5, <1>6, UsageInvariantNext

LEMMA ActKeeps ==
  ASSUME UsageInvariant, NEW r \in Requests, Act(r), Undisturbed({r})
  PROVE  UsageInvariant'
<1>1. ServiceTypeOK'
  BY UsageInvariantParts, ActType
<1>2. RunningCallsAccepted' /\ DoneStays
  BY UsageInvariantParts, ActRunning
<1>3. Checked'
  BY UsageInvariantParts, ActChecked
<1>4. Numbering'
  BY <1>2, UsageInvariantParts, ActNumbering
<1> QED
  BY <1>1, <1>2, <1>3, <1>4, UsageInvariantNext

LEMMA GiveUpKeeps ==
  ASSUME UsageInvariant, NEW S \in SUBSET Requests, GiveUp(S)
  PROVE  UsageInvariant'
<1>1. ServiceTypeOK'
  BY UsageInvariantParts, GiveUpType
<1>2. RunningCallsAccepted' /\ DoneStays
  BY UsageInvariantParts, GiveUpRunning
<1>3. Checked'
  BY UsageInvariantParts, GiveUpChecked
<1>4. Numbering'
  BY <1>2, UsageInvariantParts, GiveUpNumbering
<1> QED
  BY <1>1, <1>2, <1>3, <1>4, UsageInvariantNext

LEMMA RemovalKeeps ==
  ASSUME UsageInvariant, UNCHANGED <<pc, call, tries, seen, reply>>,
         clock' \in Nat, faults' \in Nat,
         rules' \in [Codes -> Rule \cup {Null}],
         \A c \in Codes : rules'[c] = rules[c] \/ rules'[c] = Null,
         Undisturbed({})
  PROVE  UsageInvariant'
<1>1. ServiceTypeOK'
  BY UsageInvariantParts DEF ServiceTypeOK
<1>2. RunningCallsAccepted' /\ DoneStays
  BY UsageInvariantParts DEF RunningCallsAccepted, DoneStays, Running, Accepted
<1>3. Checked'
  BY UsageInvariantParts DEF Checked, CheckedRowUnchanged, UsesLeft, Undisturbed, Checking
<1>4. Numbering'
  BY <1>2, UsageInvariantParts, NumberingFrame
<1> QED
  BY <1>1, <1>2, <1>3, <1>4, UsageInvariantNext

(* The one step of a call that takes a row out of the table is a delete of  *)
(* its code.                                                                *)
LEMMA ActLeavesRows ==
  ASSUME UsageInvariant, NEW r \in Requests, Act(r), NEW c \in Codes,
         rules[c] # Null, rules'[c] = Null
  PROVE  /\ call[r].op = "delete" /\ call[r].code = c
         /\ pc[r] # "done" /\ pc'[r] = "done"
<1>1. ServiceTypeOK /\ RunningCallsAccepted /\ Checked
  BY UsageInvariantParts
<1>2. CASE Delete(r)
  <2>1. pc'[r] = "done"
    BY <1>1, <1>2, DeliverMoves DEF Delete, ServiceTypeOK
  <2>2. c = call[r].code
    BY <1>1, <1>2 DEF Delete, ServiceTypeOK
  <2> QED
    BY <1>2, <2>1, <2>2 DEF Delete
<1>3. ASSUME NEW d \in Codes, Insert(r, d)
      PROVE  FALSE
  <2>1. Row(call[r].rule) # Null
    BY <1>1, <1>3, AcceptedCall, RowType, NullRuleAssumption
    DEF Insert, Inserting, Running
  <2> QED
    BY <1>1, <1>3, <2>1 DEF Insert, ServiceTypeOK
<1>4. CASE CommitUsage(r)
  <2>1. /\ call[r].code \in Codes /\ call[r].now \in Int \cup {Null}
        /\ rules[call[r].code] \in Rule
    BY <1>1, <1>4, CheckedRow DEF CommitUsage, Checking
  <2>2. Used(rules[call[r].code], call[r].now) # Null
    BY <2>1, UsedType, NullRuleAssumption
  <2> QED
    BY <1>1, <1>4, <2>1, <2>2 DEF CommitUsage, ServiceTypeOK
<1>5. CASE rules' = rules
  BY <1>5
<1> QED
  BY <1>2, <1>3, <1>4, <1>5
  DEF Act, Connect, AliasTaken, Collide, Missing, Load, RefuseExpired, UpdateUsage,
      ReadRule, ShowRule

(* The redirects of a rule have numbers of their own in 1 .. max_usages, so *)
(* there are no more of them than that.                                     *)
LEMMA UsageLimitFollows ==
  UsageInvariant => UsageLimit
<1> SUFFICES ASSUME UsageInvariant, NEW o \in Requests,
                    call[o].rule # Null, call[o].rule.maxUsages # Null
             PROVE  Cardinality(Redirected(o)) <= call[o].rule.maxUsages
  BY DEF UsageLimit
<1> DEFINE max == call[o].rule.maxUsages
           number == [r \in Redirected(o) |-> reply[r].n]
<1>1. max \in Nat
  BY DEF UsageInvariant, ServiceTypeOK, Call, Rule
<1>2. \A r \in Redirected(o) : reply[r].n \in 1 .. max
  <2>1. ASSUME NEW r \in Redirected(o)
        PROVE  reply[r].n \in Nat /\ reply[r].n >= 1 /\ reply[r].n <= max
    <3>1. r \in Requests /\ reply[r].kind = "redirect" /\ reply[r].owner = o
      BY DEF Redirected
    <3>2. ServiceTypeOK /\ RedirectsHaveOwners
      BY DEF UsageInvariant
    <3> QED
      BY <3>1, <3>2, OwnersAreRequests DEF RedirectsHaveOwners
  <2> QED
    BY <1>1, <2>1
<1>3. \A q, r \in Redirected(o) : reply[q].n = reply[r].n => q = r
  BY DEF UsageInvariant, RedirectsNumbered, Redirected
<1>4. number \in Injection(Redirected(o), 1 .. max)
  BY <1>2, <1>3 DEF Injection, IsInjective
<1>5. IsFiniteSet(1 .. max) /\ Cardinality(1 .. max) = max
  <2>1. 0 \in Int /\ 1 \in Int /\ max \in Int
    BY <1>1
  <2>2. /\ IsFiniteSet(1 .. max)
        /\ Cardinality(1 .. max) = IF 1 > max THEN 0 ELSE max - 1 + 1
    BY <2>1, FS_Interval
  <2> QED
    BY <1>1, <2>2
<1>6. Cardinality(Redirected(o)) <= Cardinality(1 .. max)
  BY <1>4, <1>5, FS_Injection
<1> QED
  BY <1>5, <1>6

============================================================================
