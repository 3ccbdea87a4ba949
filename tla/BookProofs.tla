----------------------------- MODULE BookProofs -----------------------------
(***************************************************************************)
(* The service keeps RuleBook: every step of a call at either store is a   *)
(* step of the book that Service's mapping makes of rows and views, or     *)
(* changes nothing in it.  PostgresProofs and SqliteProofs add the sweeps. *)
(***************************************************************************)
EXTENDS HistoryProofs

BookStep == Book!Next \/ UNCHANGED Book!vars

-----------------------------------------------------------------------------
(* Entries                                                                  *)

(* An entry tells as much of a row as expiry depends on.                    *)
LEMMA EntryOfRule ==
  ASSUME NEW row \in Rule
  PROVE  /\ Book!Entry(row) = Entry(row) /\ Entry(row) \in Terms /\ Entry(row) # Null
         /\ Entry(row).owner = row.owner /\ Entry(row).usedCount = row.usedCount
         /\ \A now : Book!Expired(Entry(row), now) = Expired(row, now)
<1>1. row # Null
  BY NullRuleAssumption
<1>2. Entry(row) = [owner |-> row.owner, expiresAt |-> row.expiresAt,
                    maxUsages |-> row.maxUsages, usedCount |-> row.usedCount]
  BY <1>1 DEF Entry
<1>3. Entry(row) \in Terms
  BY <1>2 DEF Rule, Terms
<1>4. Book!Entry(row) = Entry(row)
  BY DEF Book!Entry, Entry
<1>5. \A now : Book!Expired(Entry(row), now) = Expired(row, now)
  BY <1>2 DEF Book!Expired, Book!ExpiredByTTL, Book!ExpiredByUsage, Expired, ExpiredByTTL,
              ExpiredByUsage
<1> QED  BY <1>2, <1>3, <1>4, <1>5, NullRuleAssumption

LEMMA EntryOfNull == Entry(Null) = Null
BY DEF Entry

LEMMA EntryOfUsed ==
  ASSUME NEW row \in Rule, NEW now \in Int \cup {Null}
  PROVE  Entry(Used(row, now)) = [Entry(row) EXCEPT !.usedCount = @ + 1]
<1>1. row # Null /\ Used(row, now) \in Rule /\ Used(row, now) # Null
  BY UsedType, NullRuleAssumption
<1>2. Used(row, now) = [row EXCEPT !.usedCount = row.usedCount + 1, !.lastUsedAt = StoredTime(now)]
  BY <1>1 DEF Used
<1> QED  BY <1>1, <1>2 DEF Entry, Rule

(* A call at the store is pending in the book.                              *)
LEMMA RunningPends ==
  ASSUME UsageInvariant, History, NEW r \in Requests, Running(r)
  PROVE  /\ Book!Pending(r, call[r].op) /\ call[r].op \in Operations
         /\ reply[r] = NoReply
         /\ call[r].op # "create" => call[r].code \in Codes
<1>1. ServiceTypeOK /\ RunningCallsAccepted /\ CallsInTime
  BY UsageInvariantParts DEF History, Origins
<1>2. reply[r] = NoReply
  BY <1>1 DEF CallsInTime, Running
<1>3. Accepted(call[r]) /\ call[r].op # "none" /\ call[r] \in Call
  BY <1>1 DEF RunningCallsAccepted, ServiceTypeOK
<1>4. Book!Accepted(call[r])
  BY <1>3 DEF Book!Accepted, Accepted, Book!ValidCode, ValidCode
<1>5. Book!NoReply = NoReply
  BY DEF Book!NoReply, NoReply, Book!Said, Said
<1> QED  BY <1>1, <1>2, <1>3, <1>4, <1>5, AcceptedCall DEF Book!Pending, Call

(* A call keeps what it saw while it goes on, and drops it with its answer. *)
LEMMA ViewsStay ==
  ASSUME NEW r \in Requests, OthersStay(r), Looked(r)' <=> Looked(r), Looked(r) => seen'[r] = seen[r]
  PROVE  Views' = Views
BY DEF Views, Looked, OthersStay

LEMMA ViewEnds ==
  ASSUME UsageInvariant, NEW r \in Requests, Act(r), pc'[r] = "done"
  PROVE  Views' = [Views EXCEPT ![r] = {}]
<1>1. OthersStay(r) /\ ~Looked(r)'
  BY ActOnward DEF Looked, InSession
<1>2. \A q \in Requests \ {r} : Views'[q] = Views[q]
  BY <1>1 DEF Views, Looked, OthersStay
<1> QED  BY <1>1, <1>2 DEF Views

(* An answer is the same reading in the book.                               *)
LEMMA AnswerReads ==
  ASSUME NEW r \in Requests, NEW kind, NEW owner, NEW n, Views' = [Views EXCEPT ![r] = {}]
  PROVE  /\ Answer(r, kind, owner, n) => Book!Reading(r, kind, owner, n)
         /\ Deliver(r, kind, owner, n) => Book!Told(r, kind, owner, n)
BY DEF Answer, Deliver, Book!Told, Book!Reading, Book!Said, Said

-----------------------------------------------------------------------------
(* The steps of calls                                                       *)

LEMMA ArriveIsBookStep ==
  ASSUME UsageInvariant, History, NEW r \in Requests, ArriveCreate(r) \/ ArriveLookup(r)
  PROVE  BookStep
<1>1. ASSUME NEW newCall, Arrive(r, newCall) PROVE Book!Ask(r, newCall)
  <2>1. call[r] = NoCall /\ Book!NoCall = NoCall
    BY <1>1 DEF Arrive, History, Origins, CallsInTime, Book!NoCall, NoCall
  <2>2. Book!Accepted(newCall) = Accepted(newCall)
    BY DEF Book!Accepted, Accepted, Book!ValidCode, ValidCode
  <2>3. OthersStay(r) /\ ~Looked(r) /\ ~Looked(r)'
    BY <1>1, UsageInvariantParts, ArriveMoves DEF Looked, InSession
  <2>4. Views' = Views
    BY <2>3, ViewsStay
  <2>5. Views' = [Views EXCEPT ![r] = {}]
    BY <2>3, <2>4 DEF Views
  <2> QED  BY <1>1, <2>1, <2>2, <2>4, <2>5, AnswerReads DEF Arrive, Book!Ask
<1>2. Book!Ended(reply) = Ended(reply)
  BY DEF Book!Ended, Ended
<1>3. CASE ArriveCreate(r)
  <2>1. PICK input \in CreateInputs : Arrive(r, CreateCall(r, input, clock, Ended(reply)))
    BY <1>3 DEF ArriveCreate
  <2>2. Book!CreateCall(r, input, clock, Ended(reply)) = CreateCall(r, input, clock, Ended(reply))
    BY DEF Book!CreateCall, CreateCall, Book!ValidInput, ValidInput, Book!ValidTarget,
           ValidTarget, Book!ValidCode, ValidCode, Book!RuleFromInput, RuleFromInput,
           Book!Duration, Duration
  <2> QED  BY <1>1, <1>2, <2>1, <2>2 DEF BookStep, Book!Next, Book!AskCreate
<1>4. CASE ArriveLookup(r)
  <2>1. PICK op \in Workload[r] \ {"create"}, code \in LookupCodes :
          Arrive(r, LookupCall(op, code, clock, Ended(reply)))
    BY <1>4 DEF ArriveLookup
  <2>2. op \in Operations \ {"create"} /\ Book!Operations = Operations
    BY ServiceAssumption DEF Book!Operations, Operations
  <2>3. Book!LookupCall(op, code, clock, Ended(reply)) = LookupCall(op, code, clock, Ended(reply))
    BY DEF Book!LookupCall, LookupCall
  <2> QED  BY <1>1, <1>2, <2>1, <2>2, <2>3 DEF BookStep, Book!Next, Book!AskLookup
<1> QED  BY <1>3, <1>4

(* The statement takes its snapshot, or the SELECT FOR UPDATE its row.      *)
LEMMA ReadIsBookStep ==
  ASSUME UsageInvariant, History, NEW r \in Requests, Connect(r) \/ Load(r)
  PROVE  BookStep
<1>1. Running(r) /\ ServiceTypeOK /\ OthersStay(r)
  BY UsageInvariantParts, ActOnward DEF Connect, Load, Running, Act
<1>2. CASE Connect(r) /\ call[r].op = "create"
  <2>1. Views' = Views
    BY <1>1, <1>2, ViewsStay DEF Connect, Looked
  <2> QED  BY <1>2, <2>1 DEF Connect, BookStep, Book!vars
<1>3. CASE /\ seen' = [seen EXCEPT ![r] = rules[call[r].code]]
           /\ call[r].op # "create" /\ pc'[r] \in InSession
           /\ UNCHANGED <<clock, rules, call, reply>>
  <2>1. /\ Book!Pending(r, call[r].op) /\ call[r].op \in Book!Operations \ {"create"}
        /\ call[r].code \in Codes
    BY <1>1, <1>3, RunningPends DEF Book!Operations, Operations
  <2>2. Views' = [Views EXCEPT ![r] = {[c \in Codes |-> Entry(rules[c])][call[r].code]}]
    <3>1. Views'[r] = {Entry(rules[call[r].code])}
      BY <1>1, <1>3 DEF Views, Looked, ServiceTypeOK
    <3>2. \A q \in Requests \ {r} : Views'[q] = Views[q]
      BY <1>1 DEF Views, Looked, OthersStay
    <3> QED  BY <2>1, <3>1, <3>2 DEF Views
  <2>3. Book!Look(r)
    BY <1>3, <2>1, <2>2 DEF Book!Look, Entry
  <2> QED  BY <2>3 DEF BookStep, Book!Next
<1>4. (Connect(r) /\ call[r].op # "create") \/ Load(r) => pc'[r] \in InSession
  BY <1>1 DEF Connect, Load, InSession, ServiceTypeOK
<1> QED  BY <1>2, <1>3, <1>4 DEF Connect, Load

(* Steps that leave the book as it is, but for an answer.                   *)
LEMMA CreateIsBookStep ==
  ASSUME UsageInvariant, History, NEW r \in Requests, NEW c \in Codes,
         Insert(r, c) \/ AliasTaken(r, c) \/ Collide(r, c)
  PROVE  BookStep
<1>1. Running(r) /\ ServiceTypeOK /\ call[r].op = "create" /\ (c = call[r].code \/ call[r].code = Null)
  BY UsageInvariantParts DEF Insert, AliasTaken, Collide, Inserting, Running
<1>2. Book!Pending(r, "create") /\ OthersStay(r)
  BY <1>1, RunningPends, ActOnward DEF Act
<1>3. CASE Insert(r, c)
  <2>1. /\ call[r].rule \in Rule /\ rules[c] = Null
        /\ rules' = [rules EXCEPT ![c] = Row(call[r].rule)]
    BY <1>3, InsertWrites
  <2>2. Row(call[r].rule) \in Rule
    BY <2>1, RowType
  <2>3. Book!Entry(Book!Row(call[r].rule)) = Entry(Row(call[r].rule))
    BY DEF Book!Row, Row, Book!StoredTime, StoredTime, Book!Entry, Entry
  <2>4. [d \in Codes |-> Entry(rules'[d])] =
          [[d \in Codes |-> Entry(rules[d])] EXCEPT ![c] = Entry(Row(call[r].rule))]
    BY <1>1, <2>1 DEF ServiceTypeOK
  <2>5. Views' = [Views EXCEPT ![r] = {}]
    BY <1>1, <1>3, InsertSays, ViewEnds DEF Act
  <2>6. Book!Create(r, c)
    BY <1>1, <1>2, <1>3, <2>1, <2>3, <2>4, <2>5, EntryOfNull, AnswerReads DEF Insert, Book!Create
  <2> QED  BY <2>6 DEF BookStep, Book!Next
<1>4. CASE AliasTaken(r, c)
  <2>1. c = call[r].code /\ call[r].code # Null /\ rules[c] \in Rule
    BY <1>1, <1>4 DEF AliasTaken, ServiceTypeOK
  <2>2. Entry(rules[c]) # Null
    BY <2>1, EntryOfRule
  <2>3. Views' = [Views EXCEPT ![r] = {}]
    BY <1>1, <1>4, ViewEnds DEF Act, AliasTaken, Answer, ServiceTypeOK
  <2>4. Book!Refuse(r)
    BY <1>2, <1>4, <2>1, <2>2, <2>3, AnswerReads DEF AliasTaken, Book!Refuse
  <2> QED  BY <2>4 DEF BookStep, Book!Next
<1>5. CASE Collide(r, c)
  <2>0. Views' = Views
    BY <1>1, <1>2, <1>5, ViewsStay DEF Collide, Looked
  <2>1. CASE UNCHANGED reply
    BY <1>5, <2>0, <2>1 DEF Collide, BookStep, Book!vars
  <2>2. CASE Answer(r, "internal_error", Null, 0)
    <3>1. reply' = [q \in Requests |-> IF q \in {r} THEN Book!Said("internal_error", Null, 0)
                                       ELSE reply[q]]
      BY <1>1, <2>2 DEF Answer, Book!Said, Said, ServiceTypeOK
    <3>2. {r} \in SUBSET {q \in Requests : \E op \in Book!Operations : Book!Pending(q, op)}
      BY <1>2 DEF Book!Operations
    <3>3. Views' = [q \in Requests |-> IF q \in {r} THEN {} ELSE Views[q]]
      BY <1>1, <2>0 DEF Views, Looked
    <3>4. Book!GiveUp
      BY <1>5, <3>1, <3>2, <3>3 DEF Collide, Book!GiveUp
    <3> QED  BY <3>4 DEF BookStep, Book!Next
  <2> QED  BY <1>5, <2>1, <2>2 DEF Collide
<1> QED  BY <1>3, <1>4, <1>5

LEMMA ResolveIsBookStep ==
  ASSUME UsageInvariant, History, NEW r \in Requests,
         RefuseExpired(r) \/ UpdateUsage(r) \/ CommitUsage(r)
  PROVE  BookStep
<1>1. Running(r) /\ ServiceTypeOK /\ Checking(r)
  BY UsageInvariantParts DEF RefuseExpired, UpdateUsage, CommitUsage, Running, Checking
<1>2. PICK c \in Codes :
        /\ c = call[r].code /\ seen[r] = rules[c] /\ rules[c] \in Rule /\ call[r].op = "resolve"
        /\ call[r].now \in Int \cup {Null}
  BY <1>1, UsageInvariantParts, CheckedRow DEF Checked, CheckedRowUnchanged, Checking
<1>3. Book!Pending(r, "resolve")
  BY <1>1, <1>2, RunningPends
<1>4. /\ Entry(rules[c]) # Null /\ Entry(rules[c]).owner = rules[c].owner
      /\ Entry(rules[c]).usedCount = rules[c].usedCount
      /\ \A now : Book!Expired(Entry(rules[c]), now) = Expired(rules[c], now)
  BY <1>2, EntryOfRule
<1>5. CASE RefuseExpired(r)
  <2>0. Views' = [Views EXCEPT ![r] = {}]
    BY <1>1, <1>5, ViewEnds DEF Act, RefuseExpired, Answer, ServiceTypeOK
  <2>1. Book!Reading(r, "rule_expired", rules[c].owner, 0)
    BY <1>2, <1>5, <2>0, AnswerReads DEF RefuseExpired
  <2>2. Book!Gone(r, c)
    BY <1>2, <1>3, <1>4, <1>5, <2>1 DEF RefuseExpired, Book!Gone
  <2> QED  BY <2>2 DEF BookStep, Book!Next
<1>6. CASE UpdateUsage(r)
  <2>1. OthersStay(r)
    BY <1>6, ActOnward DEF Act
  <2>2. Views' = Views
    BY <1>1, <1>6, <2>1, ViewsStay DEF UpdateUsage, Looked, InSession, ServiceTypeOK
  <2> QED  BY <1>6, <2>2 DEF UpdateUsage, BookStep, Book!vars
<1>7. CASE CommitUsage(r)
  <2>1. ~ Expired(rules[c], call[r].now)
    BY <1>2, <1>7 DEF CommitUsage, History, Uses, Decided
  <2>2. rules' = [rules EXCEPT ![c] = Used(rules[c], call[r].now)]
    BY <1>1, <1>2, <1>7 DEF CommitUsage, ServiceTypeOK
  <2>3. Entry(Used(rules[c], call[r].now)) = [Entry(rules[c]) EXCEPT !.usedCount = @ + 1]
    BY <1>2, EntryOfUsed
  <2>4. [d \in Codes |-> Entry(rules'[d])] =
          [[d \in Codes |-> Entry(rules[d])] EXCEPT ![c].usedCount = @ + 1]
    BY <1>1, <1>2, <2>2, <2>3 DEF ServiceTypeOK
  <2>5. Book!Told(r, "redirect", rules[c].owner, rules[c].usedCount + 1)
    <3>1. Views' = [Views EXCEPT ![r] = {}]
      BY <1>1, <1>7, CommitSays, ViewEnds DEF Act
    <3> QED  BY <1>2, <1>7, <3>1, AnswerReads DEF CommitUsage
  <2>6. Book!Redirect(r, c)
    BY <1>2, <1>3, <1>4, <1>7, <2>1, <2>4, <2>5 DEF CommitUsage, Book!Redirect
  <2> QED  BY <2>6 DEF BookStep, Book!Next
<1> QED  BY <1>5, <1>6, <1>7

LEMMA LookupIsBookStep ==
  ASSUME UsageInvariant, History, NEW r \in Requests,
         Missing(r) \/ Delete(r) \/ ReadRule(r) \/ ShowRule(r)
  PROVE  BookStep
<1>1. Running(r) /\ ServiceTypeOK /\ OthersStay(r) /\ call[r].op \in {"resolve", "delete", "get"}
  BY UsageInvariantParts, ActOnward
  DEF Missing, Delete, ReadRule, ShowRule, Running, RunningCallsAccepted, Act
<1>0. Looked(r) /\ Views[r] = {Entry(seen[r])}
  BY <1>1 DEF Missing, Delete, ReadRule, ShowRule, Looked, Views, InSession
<1>2. PICK c \in Codes : c = call[r].code
  BY <1>1, RunningPends
<1>3. Book!Pending(r, call[r].op) /\ call[r].op \in Book!Operations \ {"create"}
  BY <1>1, RunningPends DEF Book!Operations
<1>4. rules[c] \in Rule \cup {Null} /\ seen[r] \in Rule \cup {Null}
  BY <1>1 DEF ServiceTypeOK
<1>5. CASE Missing(r)
  <2>1. seen[r] = Null \/ rules[c] = Null \/ rules[c].owner # seen[r].owner
    BY <1>2, <1>5 DEF Missing, Visible
  <2>2. \/ Entry(seen[r]) = Null \/ Entry(rules[c]) = Null
        \/ Entry(rules[c]).owner # Entry(seen[r]).owner
    BY <1>4, <2>1, EntryOfRule, EntryOfNull
  <2>3. Book!Reading(r, "not_found", Null, 0)
    <3>1. Views' = [Views EXCEPT ![r] = {}]
      BY <1>1, <1>5, ViewEnds DEF Act, Missing, Answer, ServiceTypeOK
    <3> QED  BY <1>5, <3>1, AnswerReads DEF Missing
  <2>4. \E view \in Views[r] : \/ view = Null \/ Entry(rules[c]) = Null
                               \/ Entry(rules[c]).owner # view.owner
    BY <1>0, <2>2
  <2>5. Book!Missing(r, c)
    BY <1>2, <1>3, <1>5, <2>3, <2>4 DEF Missing, Book!Missing
  <2> QED  BY <2>5 DEF BookStep, Book!Next
<1>6. CASE Delete(r)
  <2>1. /\ rules[c] \in Rule /\ rules[c].owner = seen[r].owner /\ call[r].op = "delete"
        /\ rules' = [rules EXCEPT ![c] = Null]
    BY <1>2, <1>4, <1>6 DEF Delete, Visible
  <2>2. Entry(rules[c]) # Null /\ Entry(rules[c]).owner = seen[r].owner
    BY <2>1, EntryOfRule
  <2>3. [d \in Codes |-> Entry(rules'[d])] =
          [[d \in Codes |-> Entry(rules[d])] EXCEPT ![c] = Null]
    BY <1>1, <2>1, EntryOfNull DEF ServiceTypeOK
  <2>4. Book!Told(r, "deleted", seen[r].owner, 0)
    <3>1. Views' = [Views EXCEPT ![r] = {}]
      BY <1>1, <1>6, DeleteSays, ViewEnds DEF Act
    <3> QED  BY <1>6, <3>1, AnswerReads DEF Delete
  <2>5. Book!Delete(r, c)
    BY <1>2, <1>3, <1>6, <2>1, <2>2, <2>3, <2>4 DEF Delete, Book!Delete
  <2> QED  BY <2>5 DEF BookStep, Book!Next
<1>7. CASE ShowRule(r)
  <2>1. seen[r] \in Rule /\ call[r].op = "get"
    BY <1>1, <1>4, <1>7, UsageInvariantParts DEF ShowRule, RunningCallsAccepted
  <2>2. /\ Entry(seen[r]) # Null /\ Entry(seen[r]).owner = seen[r].owner
        /\ Book!Expired(Entry(seen[r]), clock) = Expired(seen[r], clock)
    BY <2>1, EntryOfRule
  <2>3. Book!Reading(r, IF Expired(seen[r], clock) THEN "info_expired" ELSE "info_active",
                     seen[r].owner, 0)
    <3>1. Views' = [Views EXCEPT ![r] = {}]
      BY <1>1, <1>7, ViewEnds DEF Act, ShowRule, Answer, ServiceTypeOK
    <3> QED  BY <1>7, <3>1, AnswerReads DEF ShowRule
  <2>4. Book!Inspect(r)
    BY <1>0, <1>3, <1>7, <2>1, <2>2, <2>3 DEF ShowRule, Book!Inspect
  <2> QED  BY <2>4 DEF BookStep, Book!Next
<1>8. CASE ReadRule(r)
  <2>1. Views' = Views
    BY <1>0, <1>1, <1>8, ViewsStay DEF ReadRule, Looked, ServiceTypeOK
  <2> QED  BY <1>8, <2>1 DEF ReadRule, BookStep, Book!vars
<1> QED  BY <1>5, <1>6, <1>7, <1>8

(* Every step of a call.                                                    *)
LEMMA ActIsBookStep ==
  ASSUME UsageInvariant, History, NEW r \in Requests, Act(r)
  PROVE  BookStep
BY ReadIsBookStep, CreateIsBookStep, ResolveIsBookStep, LookupIsBookStep DEF Act

-----------------------------------------------------------------------------
(* Steps that are nobody's call                                             *)

LEMMA GiveUpIsBookStep ==
  ASSUME UsageInvariant, History, NEW S \in SUBSET Requests, \A r \in S : Running(r), GiveUp(S)
  PROVE  BookStep
<1>1. reply' = [q \in Requests |-> IF q \in S THEN Book!Said("internal_error", Null, 0)
                                   ELSE reply[q]]
  BY DEF GiveUp, Book!Said, Said
<1>2. S \in SUBSET {q \in Requests : \E op \in Book!Operations : Book!Pending(q, op)}
  BY RunningPends DEF Book!Operations, Operations
<1>3. Views' = [q \in Requests |-> IF q \in S THEN {} ELSE Views[q]]
  BY DEF GiveUp, Views, Looked, InSession
<1>4. Book!GiveUp
  BY <1>1, <1>2, <1>3 DEF GiveUp, Book!GiveUp
<1> QED  BY <1>4 DEF BookStep, Book!Next

LEMMA TickIsBookStep ==
  ASSUME TimePasses
  PROVE  BookStep
BY DEF TimePasses, BookStep, Book!Next, Book!Tick, Views, Looked

(* Rows leave the book when they have expired.                              *)
LEMMA PurgeIsBookStep ==
  ASSUME ServiceTypeOK, UNCHANGED <<clock, pc, call, seen, reply>>,
         rules' \in [Codes -> Rule \cup {Null}],
         \A c \in Codes : \/ rules'[c] = rules[c]
                          \/ rules'[c] = Null /\ Expired(rules[c], clock + PurgeEarly)
  PROVE  BookStep
<1> DEFINE gone == {c \in Codes : rules[c] # Null /\ rules'[c] = Null}
<1>1. \A c \in gone : rules[c] \in Rule /\ Expired(rules[c], clock + PurgeEarly)
  BY DEF ServiceTypeOK
<1>2. gone \in SUBSET {c \in Codes :
         [d \in Codes |-> Entry(rules[d])][c] # Null
           /\ Book!Expired([d \in Codes |-> Entry(rules[d])][c], clock + PurgeEarly)}
  BY <1>1, EntryOfRule
<1>3. [c \in Codes |-> Entry(rules'[c])] =
        [c \in Codes |-> IF c \in gone THEN Null ELSE [d \in Codes |-> Entry(rules[d])][c]]
  BY EntryOfNull
<1>4. Book!Purge
  <2>1. Views' = Views
    BY DEF Views, Looked
  <2> HIDE DEF gone
  <2> QED  BY <1>2, <1>3, <2>1 DEF Book!Purge
<1> QED  BY <1>4 DEF BookStep, Book!Next

LEMMA InitIsBookInit ==
  ASSUME ServiceInit
  PROVE  Book!Init
<1>1. Book!NoCall = NoCall /\ Book!NoReply = NoReply
  BY DEF Book!NoCall, NoCall, Book!NoReply, NoReply, Book!Said, Said
<1>2. Views = [r \in Requests |-> {}]
  BY DEF ServiceInit, Views, Looked, InSession
<1> QED  BY <1>1, <1>2, EntryOfNull DEF ServiceInit, Book!Init
=============================================================================
