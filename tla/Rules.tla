------------------------------- MODULE Rules -------------------------------
(***************************************************************************)
(* The pure part of internal/shortener/service.go: what a rule is, which   *)
(* create inputs are accepted, which rule an accepted input becomes, and   *)
(* when a rule counts as expired.  Times are integers (nanoseconds in the  *)
(* code); a rule is identified by the request that created it, which also  *)
(* stands for the target URL that request stored.                          *)
(***************************************************************************)
EXTENDS Integers

CONSTANTS
  Requests,             \* HTTP requests; each one makes a single service call
  Codes,                \* well-formed short codes
  BadCode,              \* any string that aliasPattern rejects
  Null,                 \* nil pointers, absent rows, free locks
  Second,               \* time.Second, in units of time
  HalfRange,            \* 2^63: time.Duration holds -HalfRange .. HalfRange - 1
  Precision,            \* of a stored time: 1000 ns in PostgreSQL, 1 ns in SQLite
  RejectPrivateTargets, \* I8SL_REJECT_PRIVATE_TARGETS
  CreateInputs,         \* the create inputs that clients send
  LookupCodes           \* the codes they look up or delete

URLs == {"public", "private", "malformed"}

(* CreateInput, with every URL or alias abstracted to the class the         *)
(* validation puts it in; the empty alias is Null.                          *)
Inputs == [url : URLs, alias : Codes \cup {BadCode, Null}, ttl : Int, max : Int]

ASSUME BadCodeAssumption  == BadCode \notin Codes /\ Null \notin Codes
ASSUME NullAssumption     == Null \notin Requests /\ Null \notin Int
ASSUME DurationAssumption == Second \in Nat \ {0} /\ HalfRange \in Nat \ {0}
ASSUME PrecisionAssumption == Precision \in Nat \ {0}
ASSUME InputAssumption    == /\ CreateInputs \subseteq Inputs
                             /\ LookupCodes \subseteq Codes \cup {BadCode}

(* A row of the rules table.  created_at is written once and never read by  *)
(* the program, only shown; it is left out.                                 *)
Rule == [owner      : Requests,
         expiresAt  : Int \cup {Null},
         maxUsages  : (Nat \ {0}) \cup {Null},
         usedCount  : Nat,
         lastUsedAt : Int \cup {Null}]

(* What clients can tell of a row.                                          *)
Terms == [owner     : Requests,
          expiresAt : Int \cup {Null},
          maxUsages : (Nat \ {0}) \cup {Null},
          usedCount : Nat]

ASSUME NullRuleAssumption == Null \notin Rule /\ Null \notin Terms

ValidTarget(url) ==
  url = "public" \/ (url = "private" /\ ~RejectPrivateTargets)

ValidCode(code) == code \in Codes

ValidInput(input) ==
  /\ ValidTarget(input.url)
  /\ input.alias = Null \/ ValidCode(input.alias)
  /\ input.ttl >= 0
  /\ input.max >= 0

(* time.Duration(TTLSeconds) * time.Second, a 64-bit multiplication that    *)
(* wraps around.                                                            *)
Duration(ttl) == ((ttl * Second + HalfRange) % (2 * HalfRange)) - HalfRange

(* Variant: a max_usages of 0 is stored as a limit.                         *)
RuleFromInputZeroLimit(r, input, now) ==
  [owner |-> r, expiresAt |-> IF input.ttl > 0 THEN now + Duration(input.ttl) ELSE Null,
   maxUsages |-> input.max, usedCount |-> 0, lastUsedAt |-> Null]

RuleFromInput(r, input, now) ==
  [owner      |-> r,
   expiresAt  |-> IF input.ttl > 0 THEN now + Duration(input.ttl) ELSE Null,
   maxUsages  |-> IF input.max > 0 THEN input.max ELSE Null,
   usedCount  |-> 0,
   lastUsedAt |-> Null]

ExpiredByTTL(rule, now) == rule.expiresAt # Null /\ now >= rule.expiresAt

ExpiredByUsage(rule) == rule.maxUsages # Null /\ rule.usedCount >= rule.maxUsages

(* Rule.Expired                                                             *)
Expired(rule, now) == ExpiredByTTL(rule, now) \/ ExpiredByUsage(rule)

(* A time as the database keeps it: rounded down to its precision.          *)
StoredTime(t) == IF t = Null THEN Null ELSE (t \div Precision) * Precision

(* The row an INSERT writes for a rule.                                     *)
Row(rule) == [rule EXCEPT !.expiresAt = StoredTime(@)]

Entry(row) ==
  IF row = Null THEN Null
  ELSE [owner |-> row.owner, expiresAt |-> row.expiresAt,
        maxUsages |-> row.maxUsages, usedCount |-> row.usedCount]

-----------------------------------------------------------------------------
(* The service calls that HTTP requests make, and what their clients read.  *)

Operations == {"create", "resolve", "get", "delete"}

(* code: the code asked for, or the alias of a create (Null: to generate);  *)
(* now: the reading of s.Now() the call goes on to use; ended (a history    *)
(* of the model): the rules reported gone before the call arrived.          *)
Call == [op    : Operations \cup {"none"},
         code  : Codes \cup {BadCode, Null},
         now   : Int \cup {Null},
         rule  : Rule \cup {Null},
         ended : SUBSET Requests]

NoCall == [op |-> "none", code |-> Null, now |-> Null, rule |-> Null, ended |-> {}]

(* kind: the problem code or, in its place, the success; owner: the rule    *)
(* the answer is about; n: the used_count of a redirect.                    *)
Reply ==
  [kind  : {"created", "redirect", "rule_expired", "deleted", "info_active",
            "info_expired"},
   owner : Requests, n : Nat]
    \cup [kind  : {"none", "validation_error", "already_exists", "not_found",
                   "internal_error"},
          owner : {Null}, n : {0}]

Said(kind, owner, n) == [kind |-> kind, owner |-> owner, n |-> n]
NoReply == Said("none", Null, 0)

(* The rules that some client has been told are expired or deleted.         *)
Ended(replies) ==
  {replies[q].owner : q \in
     {p \in Requests : replies[p].kind \in {"rule_expired", "info_expired", "deleted"}}}

(* CreateRule up to its first store call: a rule if the input is valid.     *)
CreateCall(r, input, now, ended) ==
  [op |-> "create", code |-> input.alias, now |-> now, ended |-> ended,
   rule |-> IF ValidInput(input) THEN RuleFromInput(r, input, now) ELSE Null]

(* Variant: the service reads its clock once, when it starts.               *)
LookupCallAtStart(op, code, now, ended) ==
  [op |-> op, code |-> code, now |-> IF op = "resolve" THEN 0 ELSE Null,
   rule |-> Null, ended |-> ended]

(* GetRule, DeleteRule and ResolveRule up to the store call; only           *)
(* ResolveRule reads the clock.                                             *)
LookupCall(op, code, now, ended) ==
  [op |-> op, code |-> code, now |-> IF op = "resolve" THEN now ELSE Null,
   rule |-> Null, ended |-> ended]

Accepted(c) == IF c.op = "create" THEN c.rule # Null ELSE ValidCode(c.code)

=============================================================================
