---------------------------- MODULE HistoryProofs ----------------------------
(***************************************************************************)
(* What becomes of a rule over its life, as far as the service and the     *)
(* statements of both stores go: that it is made, deleted and counted once *)
(* and ends once.  PostgresProofs and SqliteProofs add their own steps.    *)
(***************************************************************************)
EXTENDS ServiceProofs

-----------------------------------------------------------------------------
(* The invariant                                                            *)

(* A call is made once, answered once, and goes by a reading of the clock   *)
(* that is behind it.                                                       *)
CallsInTime ==
  \A r \in Requests :
    /\ pc[r] = "idle" => call[r] = NoCall
    /\ pc[r] # "done" => reply[r] = NoReply
    /\ call[r].op = "resolve" => call[r].now \in Nat /\ call[r].now <= clock
    /\ call[r].rule # Null => call[r].rule.usedCount = 0 /\ call[r].rule.lastUsedAt = Null

(* The row has the terms of the create that made it.                        *)
AsCreated(row) ==
  /\ pc[row.owner] = "done" /\ call[row.owner].rule # Null
  /\ row.expiresAt = StoredTime(call[row.owner].rule.expiresAt)
  /\ row.maxUsages = call[row.owner].rule.maxUsages

(* What a statement saw of a row is what it was, or is, with fewer uses.    *)
RowsAsCreated ==
  /\ \A c \in Codes : rules[c] # Null =>
       AsCreated(rules[c]) /\ reply[rules[c].owner].kind \in {"created", "internal_error"}
  /\ \A r \in Requests : seen[r] # Null =>
       /\ AsCreated(seen[r])
       /\ \A c \in Codes : Holds(c, seen[r].owner) => seen[r].usedCount <= rules[c].usedCount

DeletedGone ==
  \A r \in Requests : reply[r].kind = "deleted" =>
    pc[reply[r].owner] = "done" /\ \A c \in Codes : ~Holds(c, reply[r].owner)

(* The rule of o is gone, or has expired for those who go by now.           *)
Over(o, now) == pc[o] = "done" /\ \A c \in Codes : Holds(c, o) => Expired(rules[c], now)

(* What was reported gone is over for every later call, whose clock reading *)
(* is a later one.                                                          *)
EndedKnown ==
  /\ \A o \in Ended(reply) : Over(o, clock)
  /\ \A r \in Requests : Running(r) /\ call[r].op = "resolve" =>
       \A o \in call[r].ended : Over(o, call[r].now)
  /\ \A r \in Requests : Running(r) /\ call[r].op = "get" =>
       \A o \in call[r].ended :
         /\ Over(o, clock)
         /\ pc[r] \in {"connected", "read"} /\ seen[r] # Null /\ seen[r].owner = o
              => Expired(seen[r], clock)

Decided == \A r \in Requests : pc[r] = "updated" => ~Expired(seen[r], call[r].now)

RedirectsFinite == \A o \in Requests : IsFiniteSet(Redirected(o))

Origins == CallsInTime /\ RowsAsCreated
Deletions == DeletedGone /\ DeletedOnce
Endings == EndedKnown /\ EndedStaysEnded
Uses == Decided /\ NoUseAfterExpiry
Counts == RedirectsFinite /\ RedirectsAreCounted

History == Origins /\ Deletions /\ Endings /\ Uses /\ Counts

-----------------------------------------------------------------------------
(* Rows grow older                                                          *)

(* The same row later: it has its owner and its terms, and no fewer uses.   *)
Later(row, old) ==
  /\ row.owner = old.owner /\ row.expiresAt = old.expiresAt /\ row.maxUsages = old.maxUsages
  /\ old.usedCount <= row.usedCount

(* A row comes from the row before it, or from a create that is running.    *)
RowsGrow ==
  \A c \in Codes : rules'[c] # Null =>
    \/ rules[c] # Null /\ Later(rules'[c], rules[c])
    \/ rules[c] = Null /\ pc[rules'[c].owner] # "done"

RepliesStay == \A o \in Requests : pc[o] = "done" => reply'[o] = reply[o]

(* What every step keeps.                                                   *)
Onward ==
  /\ ServiceTypeOK /\ ServiceTypeOK'
  /\ DoneStays /\ RepliesStay /\ RowsGrow
  /\ clock <= clock' /\ faults <= faults'

LEMMA LaterExpired ==
  ASSUME NEW old \in Rule, NEW row \in Rule, Later(row, old),
         NEW now \in Int, NEW later \in Int, now <= later, Expired(old, now)
  PROVE  Expired(row, later)
<1>1. old.usedCount \in Nat /\ row.usedCount \in Nat
  BY DEF Rule
<1>2. CASE ExpiredByTTL(old, now)
  <2>1. old.expiresAt \in Int
    BY <1>2 DEF ExpiredByTTL, Rule
  <2>2. later >= row.expiresAt
    BY <1>2, <2>1 DEF ExpiredByTTL, Later
  <2> QED  BY <1>2, <2>2 DEF ExpiredByTTL, Expired, Later
<1>3. CASE ExpiredByUsage(old)
  <2>1. old.maxUsages \in Nat
    BY <1>3 DEF ExpiredByUsage, Rule
  <2>2. row.usedCount >= row.maxUsages
    BY <1>1, <1>3, <2>1 DEF ExpiredByUsage, Later
  <2> QED  BY <1>3, <2>2 DEF ExpiredByUsage, Expired, Later
<1> QED  BY <1>2, <1>3 DEF Expired

LEMMA RowsAreRules ==
  ASSUME ServiceTypeOK
  PROVE  /\ \A c \in Codes : rules[c] # Null => rules[c] \in Rule /\ rules[c].usedCount \in Nat
         /\ \A r \in Requests : seen[r] # Null =>
              seen[r] \in Rule /\ seen[r].owner \in Requests /\ seen[r].usedCount \in Nat
BY DEF ServiceTypeOK, Rule

(* A row that a finished create holds, it held before.                      *)
LEMMA HeldBefore ==
  ASSUME Onward, NEW c \in Codes, NEW o, pc[o] = "done", Holds(c, o)'
  PROVE  /\ Holds(c, o) /\ Later(rules'[c], rules[c])
         /\ rules[c] \in Rule /\ rules'[c] \in Rule
BY DEF Onward, RowsGrow, Holds, Later, ServiceTypeOK

OverAfter(o, now) ==
  /\ pc'[o] = "done"
  /\ \A c \in Codes : rules'[c] # Null /\ rules'[c].owner = o => Expired(rules'[c], now)

(* What is over stays so.                                                   *)
LEMMA OverStays ==
  ASSUME Onward, NEW o \in Requests, NEW now \in Int, NEW later \in Int, now <= later,
         Over(o, now)
  PROVE  OverAfter(o, later)
<1>1. pc[o] = "done" /\ pc'[o] = "done"
  BY DEF Over, Onward, DoneStays
<1>2. ASSUME NEW c \in Codes, Holds(c, o)'
      PROVE  Expired(rules'[c], later)
  BY <1>1, <1>2, HeldBefore, LaterExpired DEF Over
<1> QED  BY <1>1, <1>2 DEF OverAfter, Holds

(* The terms of a row are those of its create at the end of a step, too.    *)
CreatedAfter(row) ==
  /\ pc'[row.owner] = "done" /\ call'[row.owner].rule # Null
  /\ row.expiresAt = StoredTime(call'[row.owner].rule.expiresAt)
  /\ row.maxUsages = call'[row.owner].rule.maxUsages

LEMMA TermsStay ==
  ASSUME Onward, NEW old \in Rule, NEW row \in Rule, Later(row, old), AsCreated(old)
  PROVE  CreatedAfter(row)
<1>1. old.owner \in Requests /\ row.owner = old.owner
  BY DEF Rule, Later
<1>2. call'[row.owner] = call[row.owner] /\ pc'[row.owner] = "done"
  BY <1>1 DEF AsCreated, Onward, DoneStays
<1> QED  BY <1>1, <1>2 DEF AsCreated, CreatedAfter, Later

LEMMA LaterItself ==
  ASSUME NEW row \in Rule
  PROVE  Later(row, row)
BY DEF Later, Rule

-----------------------------------------------------------------------------
(* The origin of rows: steps that create none                               *)

SeenBefore ==
  \A r \in Requests : seen'[r] # Null =>
    \/ seen'[r] = seen[r]
    \/ rules' = rules /\ \E c \in Codes : seen'[r] = rules[c]

LEMMA RowsOriginate ==
  ASSUME Onward, Origins, NEW c \in Codes, rules[c] # Null, rules'[c] # Null
  PROVE  AsCreated(rules[c])' /\ reply'[rules'[c].owner].kind \in {"created", "internal_error"}
<1>1. /\ rules[c] \in Rule /\ rules'[c] \in Rule /\ Later(rules'[c], rules[c])
      /\ AsCreated(rules[c]) /\ reply[rules[c].owner].kind \in {"created", "internal_error"}
  BY DEF Onward, RowsGrow, ServiceTypeOK, Origins, RowsAsCreated
<1>2. CreatedAfter(rules'[c])
  BY <1>1, TermsStay
<1>3. reply'[rules'[c].owner] = reply[rules[c].owner]
  BY <1>1 DEF Onward, RepliesStay, AsCreated, Later, Rule
<1> QED  BY <1>1, <1>2, <1>3 DEF CreatedAfter, AsCreated

LEMMA SeenOriginates ==
  ASSUME Onward, Origins, RowsHaveOwners, SeenBefore, NEW r \in Requests, seen'[r] # Null
  PROVE  /\ AsCreated(seen[r])'
         /\ \A c \in Codes : Holds(c, seen[r].owner)' => seen'[r].usedCount <= rules'[c].usedCount
<1>1. CASE seen'[r] = seen[r]
  <2>0. PICK o \in Requests : o = seen[r].owner
    BY <1>1, RowsAreRules DEF Onward
  <2>1. /\ seen[r] \in Rule /\ AsCreated(seen[r]) /\ pc[o] = "done"
        /\ \A c \in Codes : Holds(c, o) => seen[r].usedCount <= rules[c].usedCount
    BY <1>1, <2>0 DEF Origins, RowsAsCreated, Onward, ServiceTypeOK, AsCreated
  <2>2. CreatedAfter(seen'[r])
    BY <1>1, <2>1, TermsStay, LaterItself
  <2>3. ASSUME NEW c \in Codes, Holds(c, seen[r].owner)'
        PROVE  seen'[r].usedCount <= rules'[c].usedCount
    <3>1. Holds(c, o)'
      BY <1>1, <2>0, <2>3 DEF Holds
    <3>2. Holds(c, o) /\ Later(rules'[c], rules[c]) /\ rules[c] \in Rule /\ rules'[c] \in Rule
      BY <2>1, <3>1, HeldBefore
    <3>3. seen[r].usedCount <= rules[c].usedCount /\ rules[c].usedCount <= rules'[c].usedCount
      BY <2>1, <3>2 DEF Later
    <3>4. seen[r].usedCount \in Nat /\ rules[c].usedCount \in Nat /\ rules'[c].usedCount \in Nat
      BY <2>1, <3>2 DEF Rule
    <3> QED  BY <1>1, <3>3, <3>4
  <2> QED  BY <2>2, <2>3 DEF CreatedAfter, AsCreated
<1>2. CASE rules' = rules /\ \E c \in Codes : seen'[r] = rules[c]
  <2>1. PICK d \in Codes : seen'[r] = rules[d]
    BY <1>2
  <2>2. rules[d] \in Rule /\ AsCreated(rules[d])
    BY <2>1 DEF Origins, RowsAsCreated, Onward, ServiceTypeOK
  <2>3. CreatedAfter(seen'[r])
    BY <2>1, <2>2, TermsStay, LaterItself
  <2>4. ASSUME NEW c \in Codes, Holds(c, seen[r].owner)'
        PROVE  seen'[r].usedCount <= rules'[c].usedCount
    <3>1. c = d
      BY <1>2, <2>1, <2>2, <2>4, NullRuleAssumption DEF RowsHaveOwners, Holds
    <3> QED  BY <1>2, <2>1, <2>2, <3>1 DEF Rule
  <2> QED  BY <2>3, <2>4 DEF CreatedAfter, AsCreated
<1> QED  BY <1>1, <1>2 DEF SeenBefore

LEMMA OriginsFrame ==
  ASSUME Onward, Origins, RowsHaveOwners, SeenBefore, CallsInTime',
         \A c \in Codes : rules'[c] # Null => rules[c] # Null
  PROVE  Origins'
BY RowsOriginate, SeenOriginates DEF Origins, RowsAsCreated

-----------------------------------------------------------------------------
(* Deletions, endings, uses and counts: steps that add none                 *)

LEMMA OwnersOfReplies ==
  ASSUME ServiceTypeOK
  PROVE  \A r \in Requests :
           reply[r].kind \in {"created", "redirect", "rule_expired", "deleted", "info_active",
                              "info_expired"}
             => reply[r].owner \in Requests
<1>1. \A s \in Reply :
        s.kind \in {"created", "redirect", "rule_expired", "deleted", "info_active", "info_expired"}
          => s.owner \in Requests
  BY DEF Reply
<1> QED  BY <1>1 DEF ServiceTypeOK

LEMMA DeletionsFrame ==
  ASSUME Onward, Deletions, \A r \in Requests : reply'[r].kind = "deleted" => reply'[r] = reply[r]
  PROVE  Deletions'
<1>1. ASSUME NEW r \in Requests, reply'[r].kind = "deleted"
      PROVE  pc'[reply'[r].owner] = "done" /\ \A c \in Codes : ~ Holds(c, reply[r].owner)'
  <2>1. PICK o \in Requests : o = reply[r].owner
    BY <1>1, OwnersOfReplies DEF Onward
  <2>2. reply'[r].owner = o /\ pc[o] = "done" /\ \A c \in Codes : ~ Holds(c, o)
    BY <1>1, <2>1 DEF Deletions, DeletedGone
  <2>3. pc'[o] = "done" /\ \A c \in Codes : ~ Holds(c, o)'
    BY <2>2, HeldBefore DEF Onward, DoneStays
  <2> QED  BY <2>2, <2>3 DEF Holds
<1>2. DeletedOnce'
  BY DEF Deletions, DeletedOnce
<1> QED  BY <1>1, <1>2 DEF Deletions, DeletedGone

Endings3 == {"rule_expired", "info_expired", "deleted"}

(* A step keeps the endings if the answer it adds is one that may be given, *)
(* and the call it adds knows the replies so far.                           *)
LEMMA EndingsStep ==
  ASSUME Onward, Origins, Endings,
         \A q \in Requests :
           \/ reply'[q] = reply[q]
           \/ reply'[q].kind \in Endings3 /\ OverAfter(reply'[q].owner, clock')
           \/ reply'[q].kind \in {"redirect", "info_active"} /\ reply'[q].owner \notin call'[q].ended
           \/ reply'[q].kind \notin Endings3 \cup {"redirect", "info_active"},
         \A q \in Requests : Running(q)' =>
           \/ Running(q) /\ call'[q] = call[q]
           \/ /\ call'[q].ended = Ended(reply) /\ pc'[q] = "waiting"
              /\ call'[q].op = "resolve" => call'[q].now = clock,
         \A q \in Requests : pc'[q] \in {"connected", "read"} /\ call'[q].op = "get" =>
           \/ pc[q] \in {"connected", "read"} /\ seen'[q] = seen[q]
           \/ rules' = rules /\ (seen'[q] # Null => \E c \in Codes : seen'[q] = rules[c])
  PROVE  Endings'
<1>1. clock \in Int /\ clock' \in Int /\ clock <= clock'
  BY DEF Onward, ServiceTypeOK
<1>2. ASSUME NEW o \in Ended(reply)' PROVE OverAfter(o, clock')
  <2>1. PICK q \in Requests : reply'[q].kind \in Endings3 /\ o = reply'[q].owner
    BY DEF Ended, Endings3
  <2>2. CASE reply'[q] = reply[q]
    <3>1. o \in Ended(reply) /\ o \in Requests
      BY <2>1, <2>2, OwnersOfReplies DEF Ended, Endings3, Onward
    <3> QED  BY <1>1, <3>1, OverStays DEF Endings, EndedKnown
  <2> QED  BY <2>1, <2>2 DEF Endings3
<1>3. ASSUME NEW q \in Requests, Running(q)', call'[q].op = "resolve",
             NEW o \in Requests, o \in call'[q].ended
      PROVE  OverAfter(o, call'[q].now)
  <2>1. CASE Running(q) /\ call'[q] = call[q]
    <3>1. PICK now \in Int : now = call[q].now
      BY <1>3, <2>1 DEF Origins, CallsInTime
    <3>2. Over(o, now)
      BY <1>3, <2>1, <3>1 DEF Endings, EndedKnown
    <3> QED  BY <2>1, <3>1, <3>2, OverStays
  <2>2. CASE call'[q].ended = Ended(reply) /\ call'[q].now = clock
    <3>1. PICK now \in Int : now = clock
      BY <1>1
    <3>2. Over(o, now)
      BY <1>3, <2>2, <3>1 DEF Endings, EndedKnown
    <3> QED  BY <2>2, <3>1, <3>2, OverStays
  <2> QED  BY <1>3, <2>1, <2>2
<1>4. ASSUME NEW q \in Requests, Running(q)', call'[q].op = "get",
             NEW o \in Requests, o \in call'[q].ended
      PROVE  /\ OverAfter(o, clock')
             /\ pc'[q] \in {"connected", "read"} /\ seen'[q] # Null /\ seen'[q].owner = o
                  => Expired(seen'[q], clock')
  <2>1. Over(o, clock)
    BY <1>4 DEF Endings, EndedKnown
  <2>2. OverAfter(o, clock')
    BY <1>1, <2>1, OverStays
  <2>3. ASSUME pc'[q] \in {"connected", "read"}, seen'[q] # Null, seen'[q].owner = o
        PROVE  Expired(seen'[q], clock')
    <3>1. CASE pc[q] \in {"connected", "read"} /\ seen'[q] = seen[q]
      <4>1. Running(q) /\ call'[q] = call[q]
        BY <1>4, <2>3
      <4>2. Expired(seen[q], clock) /\ seen[q] \in Rule
        BY <1>4, <2>3, <3>1, <4>1, RowsAreRules DEF Endings, EndedKnown, Onward
      <4>3. PICK row \in Rule, now \in Int, later \in Int :
               row = seen[q] /\ now = clock /\ later = clock'
        BY <1>1, <4>2
      <4>4. Expired(row, now) /\ now <= later
        BY <1>1, <4>2, <4>3
      <4>5. Expired(row, later)
        BY <4>4, LaterItself, LaterExpired
      <4> QED  BY <3>1, <4>3, <4>5
    <3>2. CASE rules' = rules /\ \E c \in Codes : seen'[q] = rules[c]
      BY <2>2, <2>3, <3>2 DEF OverAfter, Holds
    <3> QED  BY <1>4, <2>3, <3>1, <3>2
  <2> QED  BY <2>2, <2>3
<1>5. ASSUME NEW q \in Requests, reply'[q].kind \in {"redirect", "info_active"}
      PROVE  reply'[q].owner \notin call'[q].ended
  <2>1. CASE reply'[q] = reply[q]
    <3>1. reply[q] # NoReply
      BY <1>5, <2>1 DEF NoReply, Said
    <3>2. call'[q] = call[q]
      BY <3>1 DEF Origins, CallsInTime, Onward, DoneStays
    <3> QED  BY <1>5, <2>1, <3>2 DEF Endings, EndedStaysEnded
  <2> QED  BY <1>5, <2>1 DEF Endings3
<1>6. \A q \in Requests : call'[q].ended \subseteq Requests
  BY DEF Onward, ServiceTypeOK, Call
<1>7. \A o \in Ended(reply)' : o \in Requests
  BY EndedType DEF Onward, ServiceTypeOK
<1>8. EndedKnown'
  BY <1>2, <1>3, <1>4, <1>6 DEF EndedKnown, Over, OverAfter, Holds
<1> QED  BY <1>5, <1>8 DEF Endings, EndedStaysEnded

LEMMA UsesFrame ==
  ASSUME Uses, \A q \in Requests : pc'[q] = "updated" =>
                 pc[q] = "updated" /\ seen'[q] = seen[q] /\ call'[q] = call[q],
         \A c \in Codes : rules'[c] # Null =>
           \/ rules[c] # Null /\ rules'[c].lastUsedAt = rules[c].lastUsedAt
                              /\ rules'[c].expiresAt = rules[c].expiresAt
           \/ rules'[c].lastUsedAt = Null
  PROVE  Uses'
BY DEF Uses, Decided, NoUseAfterExpiry

(* Redirects neither come nor go.                                           *)
SameRedirects ==
  \A q \in Requests : reply'[q] = reply[q] \/ (reply[q].kind # "redirect" /\ reply'[q].kind # "redirect")

LEMMA SameRedirected ==
  ASSUME SameRedirects, NEW o
  PROVE  {r \in Requests : reply'[r].kind = "redirect" /\ reply'[r].owner = o} = Redirected(o)
BY DEF SameRedirects, Redirected

LEMMA CountsFrame ==
  ASSUME Onward, Counts, SameRedirects,
         \A c \in Codes : rules'[c] # Null =>
           \/ rules[c] # Null /\ rules'[c].usedCount = rules[c].usedCount
           \/ rules'[c].usedCount = 0 /\ Redirected(rules'[c].owner) = {}
  PROVE  Counts'
<1>1. \A o \in Requests : Redirected(o)' = Redirected(o)
  BY SameRedirected DEF Redirected
<1>2. RedirectsFinite'
  BY <1>1 DEF Counts, RedirectsFinite
<1>3. ASSUME NEW c \in Codes, rules'[c] # Null
      PROVE  /\ Cardinality(Redirected(rules[c].owner)') <= rules'[c].usedCount
             /\ rules'[c].usedCount <= Cardinality(Redirected(rules[c].owner)') + faults'
  <2>1. PICK o \in Requests : o = rules'[c].owner
    BY <1>3 DEF Onward, ServiceTypeOK, Rule
  <2>2. Redirected(rules[c].owner)' = Redirected(o)
    BY <2>1, SameRedirected DEF Redirected
  <2>3. faults \in Nat /\ faults' \in Nat /\ faults <= faults'
    BY DEF Onward, ServiceTypeOK
  <2>4. CASE rules[c] # Null /\ rules'[c].usedCount = rules[c].usedCount
    <3>1. rules[c].owner = o
      BY <1>3, <2>1, <2>4 DEF Onward, RowsGrow, Later
    <3>2. /\ Cardinality(Redirected(o)) <= rules[c].usedCount
          /\ rules[c].usedCount <= Cardinality(Redirected(o)) + faults
      BY <2>4, <3>1 DEF Counts, RedirectsAreCounted
    <3>3. Cardinality(Redirected(o)) \in Nat /\ rules[c].usedCount \in Nat
      BY <2>4, RowsAreRules, FS_CardinalityType DEF Counts, RedirectsFinite, Onward
    <3> HIDE DEF Redirected
    <3> QED  BY <2>2, <2>3, <2>4, <3>2, <3>3
  <2>5. CASE rules'[c].usedCount = 0 /\ Redirected(rules'[c].owner) = {}
    <3>1. Redirected(o) = {} /\ Cardinality(Redirected(o)) = 0
      BY <2>1, <2>5, FS_EmptySet
    <3> HIDE DEF Redirected
    <3> QED  BY <2>2, <2>3, <2>5, <3>1
  <2> QED  BY <1>3, <2>4, <2>5
<1>4. RedirectsAreCounted'
  BY <1>3 DEF RedirectsAreCounted
<1> QED  BY <1>2, <1>4 DEF Counts

-----------------------------------------------------------------------------
(* What steps keep                                                          *)

LEMMA ParametersOfRows ==
  ASSUME NEW rule \in Rule
  PROVE  /\ Row(rule).expiresAt = StoredTime(rule.expiresAt)
         /\ Row(rule).usedCount = rule.usedCount /\ Row(rule).lastUsedAt = rule.lastUsedAt
BY DEF Row, Rule

LEMMA UsedIsLater ==
  ASSUME NEW row \in Rule, NEW now \in Int \cup {Null}
  PROVE  Later(Used(row, now), row) /\ Used(row, now).lastUsedAt = StoredTime(now)
<1>1. row # Null /\ row.usedCount \in Nat
  BY NullRuleAssumption DEF Rule
<1>2. Used(row, now).expiresAt = row.expiresAt /\ Used(row, now).lastUsedAt = StoredTime(now)
  BY <1>1 DEF Used, Rule
<1> QED  BY <1>1, <1>2, UsedType DEF Later

(* The step that writes a row under c, or none.                             *)
LEMMA InsertWrites ==
  ASSUME UsageInvariant, NEW r \in Requests, NEW c \in Codes, Insert(r, c)
  PROVE  /\ call[r].rule \in Rule /\ call[r].rule.owner = r /\ call[r].op = "create" /\ Running(r)
         /\ rules[c] = Null
         /\ rules' = [rules EXCEPT ![c] = Row(call[r].rule)]
         /\ rules'[c] = Row(call[r].rule) /\ rules'[c] \in Rule /\ rules'[c].owner = r
         /\ \A d \in Codes \ {c} : rules'[d] = rules[d]
<1>1. ServiceTypeOK /\ RunningCallsAccepted
  BY UsageInvariantParts
<1>2. call[r].rule \in Rule /\ call[r].rule.owner = r /\ call[r].op = "create" /\ Running(r)
  BY <1>1, AcceptedCall DEF Insert, Inserting, Running
<1> QED  BY <1>1, <1>2, RowType DEF Insert, ServiceTypeOK

LEMMA CommitWrites ==
  ASSUME UsageInvariant, NEW r \in Requests, CommitUsage(r)
  PROVE  \E c \in Codes :
           /\ c = call[r].code /\ seen[r] = rules[c] /\ rules[c] \in Rule
           /\ call[r].op = "resolve" /\ call[r].now \in Int \cup {Null} /\ Running(r)
           /\ rules'[c] = Used(rules[c], call[r].now) /\ rules'[c] \in Rule
           /\ Later(rules'[c], rules[c]) /\ rules'[c].usedCount = rules[c].usedCount + 1
           /\ rules'[c].lastUsedAt = StoredTime(call[r].now)
           /\ \A d \in Codes \ {c} : rules'[d] = rules[d]
<1>1. ServiceTypeOK /\ RunningCallsAccepted /\ Checked
  BY UsageInvariantParts
<1>2. /\ call[r].code \in Codes /\ seen[r] = rules[call[r].code] /\ seen[r] \in Rule
      /\ call[r].now \in Int \cup {Null}
  BY <1>1, CheckedRow DEF CommitUsage, Checking
<1>3. PICK c \in Codes : c = call[r].code
  BY <1>2
<1>4. call[r].op = "resolve" /\ Running(r)
  BY <1>1 DEF CommitUsage, Checked, CheckedRowUnchanged, Running
<1>5. rules'[c] = Used(rules[c], call[r].now) /\ \A d \in Codes \ {c} : rules'[d] = rules[d]
  BY <1>1, <1>2, <1>3 DEF CommitUsage, ServiceTypeOK
<1>6. PICK now \in Int \cup {Null} : now = call[r].now
  BY <1>2
<1>7. /\ Used(rules[c], now) \in Rule /\ Later(Used(rules[c], now), rules[c])
      /\ Used(rules[c], now).usedCount = rules[c].usedCount + 1
      /\ Used(rules[c], now).lastUsedAt = StoredTime(now)
  BY <1>2, <1>3, UsedType, UsedIsLater
<1> QED  BY <1>2, <1>3, <1>4, <1>5, <1>6, <1>7

LEMMA DeleteWrites ==
  ASSUME UsageInvariant, NEW r \in Requests, Delete(r)
  PROVE  \E c \in Codes :
           /\ c = call[r].code /\ call[r].op = "delete" /\ Running(r)
           /\ rules[c] \in Rule /\ seen[r] \in Rule /\ rules[c].owner = seen[r].owner
           /\ rules' = [rules EXCEPT ![c] = Null]
           /\ rules'[c] = Null /\ \A d \in Codes \ {c} : rules'[d] = rules[d]
<1>1. ServiceTypeOK /\ RunningCallsAccepted
  BY UsageInvariantParts
<1>2. call[r].op = "delete" /\ Running(r) /\ call[r].code \in Codes
  BY <1>1, AcceptedCall DEF Delete, Running
<1>3. PICK c \in Codes : c = call[r].code
  BY <1>2
<1> QED  BY <1>1, <1>2, <1>3 DEF Delete, Visible, ServiceTypeOK

(* Every other step of a call leaves the rows alone.                        *)
RowsStay(r) ==
  \/ Connect(r) \/ \E c \in Codes : AliasTaken(r, c) \/ Collide(r, c)
  \/ Missing(r) \/ Load(r) \/ RefuseExpired(r) \/ UpdateUsage(r)
  \/ ReadRule(r) \/ ShowRule(r)

LEMMA ActCases ==
  ASSUME NEW r \in Requests, Act(r)
  PROVE  \/ \E c \in Codes : Insert(r, c)
         \/ CommitUsage(r) \/ Delete(r) \/ RowsStay(r)
BY DEF Act, RowsStay

LEMMA RowsStaying ==
  ASSUME NEW r \in Requests, RowsStay(r)
  PROVE  rules' = rules
BY DEF RowsStay, Connect, AliasTaken, Collide, Missing, Load, RefuseExpired, UpdateUsage, ReadRule,
       ShowRule

LEMMA SameRowsGrow ==
  ASSUME ServiceTypeOK, \A c \in Codes : rules'[c] = rules[c] \/ rules'[c] = Null
  PROVE  RowsGrow
BY LaterItself DEF RowsGrow, ServiceTypeOK

LEMMA ActOnward ==
  ASSUME UsageInvariant, NEW r \in Requests, Act(r)
  PROVE  Onward /\ clock' = clock /\ call' = call /\ OthersStay(r) /\ Running(r) /\ pc'[r] # "idle"
<1>1. ServiceTypeOK /\ RunningCallsAccepted /\ Checked
  BY UsageInvariantParts
<1>2. ServiceTypeOK' /\ DoneStays
  BY <1>1, ActType, ActRunning
<1>3. /\ Running(r) /\ call' = call /\ OthersStay(r) /\ pc'[r] # "idle"
  BY <1>1, ActMoves
<1>4. RepliesStay
  BY <1>3 DEF RepliesStay, OthersStay, Running
<1>5. clock' = clock /\ faults <= faults'
  BY <1>1 DEF Act, Connect, Insert, AliasTaken, Collide, Missing, Load, RefuseExpired, UpdateUsage,
              CommitUsage, Delete, ReadRule, ShowRule, Deliver, Fault, ServiceTypeOK
<1>6. clock \in Nat
  BY <1>1 DEF ServiceTypeOK
<1>7. RowsGrow
  <2>1. ASSUME NEW c \in Codes, Insert(r, c) PROVE RowsGrow
    <3>1. pc[r] # "done"
      BY <2>1, InsertWrites DEF Running
    <3> QED  BY <1>1, <2>1, <3>1, InsertWrites, LaterItself DEF RowsGrow, ServiceTypeOK
  <2>2. CASE CommitUsage(r)
    <3>1. PICK c \in Codes :
            /\ rules[c] \in Rule /\ Later(rules'[c], rules[c])
            /\ \A d \in Codes \ {c} : rules'[d] = rules[d]
      BY <2>2, CommitWrites
    <3> QED  BY <1>1, <3>1, LaterItself, NullRuleAssumption DEF RowsGrow, ServiceTypeOK
  <2>3. CASE Delete(r)
    BY <1>1, <2>3, DeleteWrites, SameRowsGrow
  <2>4. CASE RowsStay(r)
    BY <1>1, <2>4, RowsStaying, SameRowsGrow
  <2> QED  BY <2>1, <2>2, <2>3, <2>4, ActCases
<1> QED  BY <1>1, <1>2, <1>3, <1>4, <1>5, <1>6, <1>7 DEF Onward

LEMMA ArriveOnward ==
  ASSUME UsageInvariant, NEW r \in Requests, ArriveCreate(r) \/ ArriveLookup(r)
  PROVE  Onward
<1>1. ServiceTypeOK /\ RunningCallsAccepted
  BY UsageInvariantParts
<1>2. PICK newCall \in Call : Arrive(r, newCall)
  BY <1>1, Arrival
<1>3. ServiceTypeOK' /\ DoneStays
  BY <1>1, <1>2, ArriveType, ArriveRunning
<1>4. OthersStay(r) /\ rules' = rules /\ pc[r] = "idle"
  BY <1>1, <1>2, ArriveMoves
<1>5. RowsGrow
  BY <1>1, <1>4, SameRowsGrow
<1>6. clock' = clock /\ faults' = faults /\ clock \in Nat /\ faults \in Nat
  BY <1>1, <1>2 DEF Arrive, ServiceTypeOK
<1> QED  BY <1>1, <1>3, <1>4, <1>5, <1>6 DEF Onward, RepliesStay, OthersStay

LEMMA GiveUpOnward ==
  ASSUME UsageInvariant, NEW S \in SUBSET Requests, \A r \in S : Running(r), GiveUp(S)
  PROVE  Onward
<1>1. ServiceTypeOK /\ RunningCallsAccepted
  BY UsageInvariantParts
<1>2. ServiceTypeOK' /\ DoneStays
  BY <1>1, GiveUpType, GiveUpRunning
<1>3. RowsGrow
  BY <1>1, SameRowsGrow DEF GiveUp
<1>4. RepliesStay
  BY DEF GiveUp, RepliesStay, Running
<1>5. clock <= clock' /\ faults <= faults'
  BY <1>1 DEF GiveUp, Fault, ServiceTypeOK
<1> QED  BY <1>1, <1>2, <1>3, <1>4, <1>5 DEF Onward

LEMMA RemovalOnward ==
  ASSUME UsageInvariant, UsageInvariant', UNCHANGED <<pc, call, reply>>,
         clock <= clock', faults <= faults',
         \A c \in Codes : rules'[c] = rules[c] \/ rules'[c] = Null
  PROVE  Onward
<1>1. ServiceTypeOK /\ ServiceTypeOK'
  BY DEF UsageInvariant
<1> QED  BY <1>1, SameRowsGrow DEF Onward, DoneStays, RepliesStay

-----------------------------------------------------------------------------
(* The steps of calls, part by part                                         *)

(* What a step of r that leaves the rows alone may say and see.             *)
LEMMA RowsStayMoves ==
  ASSUME ServiceTypeOK, NEW r \in Requests, RowsStay(r)
  PROVE  /\ faults' = faults
         /\ \/ reply'[r] = reply[r] /\ pc'[r] \in {"waiting", "connected", "locked", "updated", "read"}
            \/ /\ pc'[r] = "done"
               /\ reply'[r].kind \in {"already_exists", "not_found", "internal_error"}
            \/ /\ RefuseExpired(r) /\ pc'[r] = "done"
               /\ reply'[r].kind = "rule_expired" /\ reply'[r].owner = seen[r].owner
            \/ /\ ShowRule(r) /\ pc'[r] = "done" /\ reply'[r].owner = seen[r].owner
               /\ reply'[r].kind = IF Expired(seen[r], clock) THEN "info_expired"
                                  ELSE "info_active"
<1> USE DEF ServiceTypeOK
<1>1. CASE Connect(r) \/ Load(r) \/ UpdateUsage(r) \/ ReadRule(r)
  BY <1>1 DEF Connect, Load, UpdateUsage, ReadRule
<1>2. ASSUME NEW c \in Codes, AliasTaken(r, c) \/ Collide(r, c)
      PROVE  /\ faults' = faults
             /\ \/ reply'[r] = reply[r] /\ pc'[r] = "waiting"
                \/ pc'[r] = "done" /\ reply'[r].kind \in {"already_exists", "internal_error"}
  BY <1>2 DEF AliasTaken, Collide, Answer, Said
<1>3. CASE Missing(r)
  BY <1>3 DEF Missing, Answer, Said
<1>4. CASE RefuseExpired(r)
  BY <1>4 DEF RefuseExpired, Answer, Said
<1>5. CASE ShowRule(r)
  BY <1>5 DEF ShowRule, Answer, Said
<1> QED  BY <1>1, <1>2, <1>3, <1>4, <1>5 DEF RowsStay

LEMMA InsertSays ==
  ASSUME ServiceTypeOK, NEW r \in Requests, NEW c \in Codes, Insert(r, c)
  PROVE  pc'[r] = "done" /\ seen' = seen /\ reply'[r].kind \in {"created", "internal_error"}
BY DEF Insert, Deliver, Answer, Said, ServiceTypeOK

LEMMA CommitSays ==
  ASSUME ServiceTypeOK, NEW r \in Requests, CommitUsage(r)
  PROVE  /\ pc'[r] = "done" /\ seen' = seen
         /\ \/ /\ faults' = faults /\ reply'[r].kind = "redirect"
               /\ reply'[r].owner = seen[r].owner /\ reply'[r].n = seen[r].usedCount + 1
            \/ faults' = faults + 1 /\ reply'[r].kind = "internal_error"
BY DEF CommitUsage, Deliver, Answer, Said, Fault, ServiceTypeOK

LEMMA DeleteSays ==
  ASSUME ServiceTypeOK, NEW r \in Requests, Delete(r)
  PROVE  /\ pc'[r] = "done" /\ seen' = seen
         /\ \/ reply'[r].kind = "deleted" /\ reply'[r].owner = seen[r].owner
            \/ reply'[r].kind = "internal_error"
BY DEF Delete, Deliver, Answer, Said, Fault, ServiceTypeOK

LEMMA ActSees ==
  ASSUME UsageInvariant, NEW r \in Requests, Act(r)
  PROVE  /\ SeenBefore
         /\ \A q \in Requests : pc'[q] \in {"connected", "read"} /\ call'[q].op = "get" =>
              \/ pc[q] \in {"connected", "read"} /\ seen'[q] = seen[q]
              \/ rules' = rules /\ (seen'[q] # Null => \E c \in Codes : seen'[q] = rules[c])
<1>1. ServiceTypeOK /\ RunningCallsAccepted /\ OthersStay(r) /\ Running(r) /\ call' = call
  BY UsageInvariantParts, ActOnward
<1>2. CASE Connect(r)
  <2>1. rules' = rules /\ (call[r].op # "create" => call[r].code \in Codes)
    BY <1>1, <1>2, AcceptedCall DEF Connect
  <2>2. seen'[r] = IF call[r].op = "create" THEN seen[r] ELSE rules[call[r].code]
    BY <1>1, <1>2 DEF Connect, ServiceTypeOK
  <2> QED  BY <1>1, <2>1, <2>2 DEF SeenBefore, OthersStay
<1>3. CASE Load(r)
  <2>1. rules' = rules /\ call[r].code \in Codes /\ pc'[r] = "locked"
    BY <1>1, <1>3, AcceptedCall DEF Load, ServiceTypeOK
  <2>2. seen'[r] = rules[call[r].code]
    BY <1>1, <1>3 DEF Load, ServiceTypeOK
  <2> QED  BY <1>1, <2>1, <2>2 DEF SeenBefore, OthersStay
<1>4. ASSUME seen' = seen, pc'[r] \notin {"connected", "read"} \/ pc[r] = "connected"
      PROVE  /\ SeenBefore
             /\ \A q \in Requests : pc'[q] \in {"connected", "read"} =>
                  pc[q] \in {"connected", "read"} /\ seen'[q] = seen[q]
  BY <1>1, <1>4 DEF SeenBefore, OthersStay
<1>5. ASSUME NEW c \in Codes, AliasTaken(r, c) \/ Collide(r, c) \/ Insert(r, c)
      PROVE  seen' = seen /\ pc'[r] \notin {"connected", "read"}
  BY <1>1, <1>5, InsertSays DEF AliasTaken, Collide, Answer, ServiceTypeOK
<1>6. CASE Missing(r) \/ RefuseExpired(r) \/ UpdateUsage(r) \/ ReadRule(r) \/ ShowRule(r)
  BY <1>1, <1>4, <1>6
  DEF Missing, RefuseExpired, UpdateUsage, ReadRule, ShowRule, Answer, ServiceTypeOK
<1>7. CASE CommitUsage(r) \/ Delete(r)
  BY <1>1, <1>4, <1>7, CommitSays, DeleteSays
<1> QED  BY <1>2, <1>3, <1>4, <1>5, <1>6, <1>7 DEF Act

LEMMA ActCallsInTime ==
  ASSUME UsageInvariant, Origins, NEW r \in Requests, Act(r)
  PROVE  CallsInTime'
<1>1. ServiceTypeOK /\ OthersStay(r) /\ Running(r) /\ call' = call /\ clock' = clock /\ pc'[r] # "idle"
  BY UsageInvariantParts, ActOnward
<1>2. pc'[r] = "done" \/ reply'[r] = reply[r]
  BY <1>1, ActCases, RowsStayMoves, InsertSays, CommitSays, DeleteSays
<1> QED  BY <1>1, <1>2 DEF Origins, CallsInTime, OthersStay, Running

LEMMA ActOrigins ==
  ASSUME UsageInvariant, Origins, NEW r \in Requests, Act(r)
  PROVE  Origins'
<1>1. /\ ServiceTypeOK /\ RowsHaveOwners /\ Onward /\ OthersStay(r) /\ Running(r) /\ call' = call
      /\ SeenBefore /\ CallsInTime'
  BY UsageInvariantParts, ActOnward, ActSees, ActCallsInTime DEF Numbering
<1>2. ASSUME NEW c \in Codes, Insert(r, c)
      PROVE  Origins'
  <2>1. /\ call[r].rule \in Rule /\ rules'[c] = Row(call[r].rule) /\ rules'[c].owner = r
        /\ rules[c] = Null /\ \A d \in Codes \ {c} : rules'[d] = rules[d]
    BY <1>2, InsertWrites
  <2>2. pc'[r] = "done" /\ reply'[r].kind \in {"created", "internal_error"}
    BY <1>1, <1>2, InsertSays
  <2>3. AsCreated(rules[c])'
    BY <1>1, <2>1, <2>2, ParametersOfRows, RowType, NullRuleAssumption DEF AsCreated
  <2>4. ASSUME NEW d \in Codes, rules'[d] # Null
        PROVE  AsCreated(rules[d])' /\ reply'[rules'[d].owner].kind \in {"created", "internal_error"}
    BY <1>1, <2>1, <2>2, <2>3, <2>4, RowsOriginate
  <2>5. \A q \in Requests : seen'[q] # Null =>
          /\ AsCreated(seen[q])'
          /\ \A d \in Codes : Holds(d, seen[q].owner)' => seen'[q].usedCount <= rules'[d].usedCount
    BY <1>1, SeenOriginates
  <2> QED  BY <1>1, <2>4, <2>5 DEF Origins, RowsAsCreated
<1>3. ASSUME \A c \in Codes : rules'[c] # Null => rules[c] # Null
      PROVE  Origins'
  BY <1>1, <1>3, OriginsFrame
<1>4. CASE CommitUsage(r)
  BY <1>3, <1>4, CommitWrites, NullRuleAssumption
<1>5. CASE Delete(r)
  BY <1>3, <1>5, DeleteWrites
<1>6. CASE RowsStay(r)
  BY <1>3, <1>6, RowsStaying
<1> QED  BY <1>2, <1>4, <1>5, <1>6, ActCases

LEMMA ActDeletions ==
  ASSUME UsageInvariant, Origins, Deletions, NEW r \in Requests, Act(r)
  PROVE  Deletions'
<1>1. ServiceTypeOK /\ RowsHaveOwners /\ Onward /\ OthersStay(r) /\ Running(r)
  BY UsageInvariantParts, ActOnward DEF Numbering
<1>2. ASSUME reply'[r] = reply[r] \/ reply'[r].kind # "deleted"
      PROVE  Deletions'
  BY <1>1, <1>2, DeletionsFrame DEF OthersStay
<1>3. CASE Delete(r) /\ reply'[r].kind = "deleted"
  <2>1. PICK c \in Codes :
          /\ rules[c] \in Rule /\ seen[r] \in Rule /\ rules[c].owner = seen[r].owner
          /\ rules'[c] = Null /\ \A d \in Codes \ {c} : rules'[d] = rules[d]
    BY <1>3, DeleteWrites
  <2>2. PICK o \in Requests : o = rules[c].owner
    BY <2>1 DEF Rule
  <2>3. reply'[r].owner = o
    BY <1>1, <1>3, <2>1, <2>2, DeleteSays
  <2>4. rules[c] # Null /\ pc[o] = "done"
    BY <1>1, <2>1, <2>2, NullRuleAssumption DEF RowsHaveOwners
  <2>5. ASSUME NEW d \in Codes PROVE ~ Holds(d, o)'
    BY <1>1, <2>1, <2>2, <2>4 DEF RowsHaveOwners, Holds
  <2>6. pc'[o] = "done"
    BY <1>1, <2>4 DEF Onward, DoneStays
  <2>7. ASSUME NEW q \in Requests \ {r}, reply'[q].kind = "deleted"
        PROVE  reply'[q].owner # o /\ pc'[reply'[q].owner] = "done"
               /\ \A d \in Codes : ~ Holds(d, reply[q].owner)'
    <3>1. reply'[q] = reply[q]
      BY <1>1 DEF OthersStay
    <3>2. PICK p \in Requests : p = reply[q].owner
      BY <1>1, <2>7, <3>1, OwnersOfReplies
    <3>3. pc[p] = "done" /\ \A d \in Codes : ~ Holds(d, p)
      BY <2>7, <3>1, <3>2 DEF Deletions, DeletedGone
    <3>4. p # o
      BY <2>2, <2>4, <3>3 DEF Holds
    <3>5. pc'[p] = "done" /\ \A d \in Codes : ~ Holds(d, p)'
      BY <1>1, <3>3, HeldBefore DEF Onward, DoneStays
    <3> QED  BY <3>1, <3>2, <3>4, <3>5 DEF Holds
  <2>8. DeletedGone'
    BY <2>3, <2>5, <2>6, <2>7 DEF DeletedGone, Holds
  <2>9. DeletedOnce'
    <3>1. ASSUME NEW q \in Requests, NEW s \in Requests, q # s,
                 reply'[q].kind = "deleted", reply'[s].kind = "deleted"
          PROVE  reply'[q].owner # reply'[s].owner
      BY <1>1, <2>3, <2>7, <3>1 DEF Deletions, DeletedOnce, OthersStay
    <3> QED  BY <3>1 DEF DeletedOnce
  <2> QED  BY <2>8, <2>9 DEF Deletions
<1>4. ASSUME NEW c \in Codes, Insert(r, c) PROVE Deletions'
  BY <1>1, <1>2, <1>4, InsertSays
<1>5. CASE CommitUsage(r)
  BY <1>1, <1>2, <1>5, CommitSays
<1>6. CASE RowsStay(r)
  BY <1>1, <1>2, <1>6, RowsStayMoves
<1> QED  BY <1>2, <1>3, <1>4, <1>5, <1>6, ActCases

(* What a call saw of a row that is still there.                            *)
LEMMA SeenLater ==
  ASSUME Origins, ServiceTypeOK, NEW q \in Requests, seen[q] # Null,
         NEW c \in Codes, Holds(c, seen[q].owner)
  PROVE  Later(rules[c], seen[q]) /\ rules[c] \in Rule /\ seen[q] \in Rule
BY DEF Origins, RowsAsCreated, AsCreated, Holds, Later, ServiceTypeOK

LEMMA ActEndings ==
  ASSUME UsageInvariant, Origins, Endings, Uses, Deletions, NEW r \in Requests, Act(r)
  PROVE  Endings'
<1>1. /\ ServiceTypeOK /\ RowsHaveOwners /\ Onward /\ OthersStay(r) /\ Running(r)
      /\ call' = call /\ clock' = clock
  BY UsageInvariantParts, ActOnward DEF Numbering
<1>2. clock \in Int
  BY <1>1 DEF ServiceTypeOK
<1>3. ASSUME \/ reply'[r] = reply[r]
             \/ reply'[r].kind \in Endings3 /\ OverAfter(reply'[r].owner, clock')
             \/ /\ reply'[r].kind \in {"redirect", "info_active"}
                /\ reply'[r].owner \notin call'[r].ended
             \/ reply'[r].kind \notin Endings3 \cup {"redirect", "info_active"}
      PROVE  Endings'
  <2>1. \A q \in Requests : Running(q)' => Running(q) /\ call'[q] = call[q]
    BY <1>1 DEF OthersStay, Running
  <2>2. \A q \in Requests \ {r} : reply'[q] = reply[q]
    BY <1>1 DEF OthersStay
  <2> QED  BY <1>1, <1>3, <2>1, <2>2, ActSees, EndingsStep
<1>4. ASSUME NEW c \in Codes, Insert(r, c) PROVE Endings'
  BY <1>1, <1>3, <1>4, InsertSays DEF Endings3
<1>5. CASE CommitUsage(r)
  <2>1. PICK c \in Codes :
          /\ seen[r] = rules[c] /\ rules[c] \in Rule /\ call[r].op = "resolve"
    BY <1>5, CommitWrites
  <2>2. ~ Expired(rules[c], call[r].now)
    BY <1>5, <2>1 DEF Uses, Decided, CommitUsage
  <2>3. seen[r].owner \notin call[r].ended
    BY <1>1, <2>1, <2>2, NullRuleAssumption DEF Endings, EndedKnown, Over, Holds
  <2> QED  BY <1>1, <1>3, <1>5, <2>3, CommitSays DEF Endings3
<1>6. CASE Delete(r)
  <2>1. Deletions'
    BY ActDeletions
  <2>2. reply'[r].kind = "deleted" => OverAfter(reply'[r].owner, clock')
    BY <2>1 DEF Deletions, DeletedGone, OverAfter, Holds
  <2> QED  BY <1>1, <1>3, <1>6, <2>2, DeleteSays DEF Endings3
<1>7. CASE RefuseExpired(r)
  <2>1. /\ call[r].code \in Codes /\ seen[r] \in Rule /\ rules[call[r].code] = seen[r]
        /\ call[r].op = "resolve"
    BY <1>1, <1>7, UsageInvariantParts, CheckedRow
    DEF RefuseExpired, Checking, Checked, CheckedRowUnchanged
  <2>2. PICK row \in Rule, now \in Int, o \in Requests, c \in Codes :
          row = seen[r] /\ now = call[r].now /\ o = seen[r].owner /\ c = call[r].code
    BY <2>1 DEF Origins, CallsInTime, Rule
  <2>3. Expired(row, now) /\ now <= clock
    BY <1>7, <2>1, <2>2 DEF RefuseExpired, Origins, CallsInTime
  <2>4. Expired(row, clock)
    BY <1>2, <2>3, LaterItself, LaterExpired
  <2>5. pc'[o] = "done"
    BY <1>1, <2>1, <2>2, NullRuleAssumption DEF RowsHaveOwners, Onward, DoneStays
  <2>6. \A d \in Codes : Holds(d, o)' => d = c
    BY <1>1, <1>7, <2>1, <2>2, NullRuleAssumption DEF RowsHaveOwners, Holds, RefuseExpired
  <2>7. OverAfter(o, clock')
    BY <1>1, <1>7, <2>1, <2>2, <2>4, <2>5, <2>6 DEF OverAfter, Holds, RefuseExpired
  <2>8. reply'[r].kind = "rule_expired" /\ reply'[r].owner = o
    BY <1>1, <1>7, <2>2 DEF RefuseExpired, Answer, Said, ServiceTypeOK
  <2> QED  BY <1>3, <2>7, <2>8 DEF Endings3
<1>8. CASE ShowRule(r)
  <2>1. /\ seen[r] \in Rule /\ seen[r] # Null /\ pc[r] = "read" /\ call[r].op = "get"
        /\ rules' = rules
    BY <1>1, <1>8, RowsAreRules, UsageInvariantParts DEF ShowRule, RunningCallsAccepted
  <2>2. PICK row \in Rule, o \in Requests : row = seen[r] /\ o = seen[r].owner
    BY <2>1 DEF Rule
  <2>3. /\ reply'[r].owner = o
        /\ reply'[r].kind = IF Expired(row, clock) THEN "info_expired" ELSE "info_active"
    BY <1>1, <1>8, <2>2 DEF ShowRule, Answer, Said, ServiceTypeOK
  <2>4. CASE Expired(row, clock)
    <3>1. pc'[o] = "done"
      BY <1>1, <2>1, <2>2 DEF Origins, RowsAsCreated, AsCreated, Onward, DoneStays
    <3>2. ASSUME NEW d \in Codes, Holds(d, o)'
          PROVE  Expired(rules'[d], clock')
      <4>1. Holds(d, seen[r].owner)
        BY <2>1, <2>2, <3>2 DEF Holds
      <4>2. Later(rules[d], row) /\ rules[d] \in Rule
        BY <1>1, <2>1, <2>2, <4>1, SeenLater
      <4> QED  BY <1>1, <1>2, <2>1, <2>4, <4>2, LaterExpired
    <3> QED  BY <1>3, <2>3, <2>4, <3>1, <3>2 DEF OverAfter, Holds, Endings3
  <2>5. CASE ~ Expired(row, clock)
    <3>1. o \notin call[r].ended
      BY <1>1, <2>1, <2>2, <2>5 DEF Endings, EndedKnown
    <3> QED  BY <1>1, <1>3, <2>3, <2>5, <3>1
  <2> QED  BY <2>4, <2>5
<1>9. CASE RowsStay(r) /\ ~RefuseExpired(r) /\ ~ShowRule(r)
  <2>1. \/ reply'[r] = reply[r]
        \/ reply'[r].kind \in {"already_exists", "not_found", "internal_error"}
    BY <1>1, <1>9, RowsStayMoves
  <2> QED  BY <1>3, <2>1 DEF Endings3
<1> QED  BY <1>4, <1>5, <1>6, <1>7, <1>8, <1>9, ActCases

(* A stored reading of the clock is not later than the reading.             *)
LEMMA StoredEarlier ==
  ASSUME NEW t \in Int
  PROVE  StoredTime(t) \in Int /\ StoredTime(t) <= t
<1>1. t # Null
  BY NullAssumption
<1>2. t \div Precision \in Int /\ (t \div Precision) * Precision <= t
  BY PrecisionAssumption
<1> QED
  BY <1>1, <1>2, PrecisionAssumption DEF StoredTime

LEMMA ActUses ==
  ASSUME UsageInvariant, Origins, Uses, NEW r \in Requests, Act(r)
  PROVE  Uses'
<1>1. ServiceTypeOK /\ Onward /\ OthersStay(r) /\ Running(r) /\ call' = call
  BY UsageInvariantParts, ActOnward
<1>2. Decided'
  <2>1. ASSUME pc'[r] = "updated" PROVE ~ Expired(seen'[r], call'[r].now)
    <3>1. UpdateUsage(r)
      <4>1. RowsStay(r)
        BY <1>1, <2>1, ActCases, InsertSays, CommitSays, DeleteSays
      <4> QED  BY <1>1, <2>1, <4>1 DEF RowsStay, Connect, AliasTaken, Collide, Missing, Load,
                  RefuseExpired, ReadRule, ShowRule, Answer, ServiceTypeOK
    <3> QED  BY <3>1 DEF UpdateUsage
  <2> QED  BY <1>1, <2>1 DEF Uses, Decided, OthersStay
<1>3. ASSUME NEW c \in Codes, rules'[c] # Null, rules'[c].lastUsedAt # Null,
             rules'[c].expiresAt # Null
      PROVE  rules'[c].lastUsedAt < rules'[c].expiresAt
  <2>1. CASE rules'[c] = rules[c]
    BY <1>3, <2>1 DEF Uses, NoUseAfterExpiry
  <2>2. ASSUME Insert(r, c) PROVE FALSE
    <3>1. /\ rules'[c] = Row(call[r].rule) /\ call[r].rule \in Rule
      BY <2>2, InsertWrites
    <3>2. rules'[c].lastUsedAt = Null
      BY <3>1, ParametersOfRows, NullRuleAssumption DEF Origins, CallsInTime
    <3> QED  BY <1>3, <3>2
  <2>3. CASE CommitUsage(r) /\ rules'[c] # rules[c]
    <3>1. /\ seen[r] = rules[c] /\ rules[c] \in Rule /\ call[r].op = "resolve"
          /\ Later(rules'[c], rules[c]) /\ rules'[c].lastUsedAt = StoredTime(call[r].now)
      BY <2>3, CommitWrites
    <3>2. PICK now \in Int : now = call[r].now
      BY <3>1 DEF Origins, CallsInTime
    <3>3. ~ Expired(rules[c], now)
      BY <2>3, <3>1, <3>2 DEF Uses, Decided, CommitUsage
    <3>4. rules'[c].expiresAt = rules[c].expiresAt /\ rules[c].expiresAt \in Int
      BY <1>3, <3>1 DEF Later, Rule
    <3>5. ~ (now >= rules[c].expiresAt)
      BY <1>3, <3>3, <3>4 DEF Expired, ExpiredByTTL
    <3>6. StoredTime(now) \in Int /\ StoredTime(now) <= now
      BY StoredEarlier
    <3>7. StoredTime(now) < rules[c].expiresAt
      BY <3>4, <3>5, <3>6
    <3> QED  BY <3>1, <3>2, <3>4, <3>7
  <2>4. ASSUME NEW d \in Codes, Insert(r, d) PROVE c = d \/ rules'[c] = rules[c]
    BY <2>4, InsertWrites
  <2>5. CASE Delete(r)
    BY <1>3, <2>1, <2>5, DeleteWrites
  <2>6. CASE RowsStay(r)
    BY <2>1, <2>6, RowsStaying
  <2> QED  BY <2>1, <2>2, <2>3, <2>4, <2>5, <2>6, ActCases
<1> QED  BY <1>2, <1>3 DEF Uses, NoUseAfterExpiry

LEMMA ActCounts ==
  ASSUME UsageInvariant, Origins, Counts, NEW r \in Requests, Act(r)
  PROVE  Counts'
<1>1. /\ ServiceTypeOK /\ RowsHaveOwners /\ RedirectsHaveOwners /\ Onward /\ OthersStay(r)
      /\ Running(r) /\ call' = call
  BY UsageInvariantParts, ActOnward DEF Numbering
<1>2. reply[r].kind # "redirect"
  BY <1>1 DEF Origins, CallsInTime, NoReply, Said, Running
<1>3. ASSUME reply'[r].kind # "redirect",
             \A c \in Codes : rules'[c] # Null =>
               \/ rules[c] # Null /\ rules'[c].usedCount = rules[c].usedCount
               \/ rules'[c].usedCount = 0 /\ Redirected(rules'[c].owner) = {}
      PROVE  Counts'
  <2>1. SameRedirects
    BY <1>1, <1>2, <1>3 DEF SameRedirects, OthersStay
  <2> QED  BY <1>1, <1>3, <2>1, CountsFrame
<1>4. ASSUME NEW c \in Codes, Insert(r, c) PROVE Counts'
  <2>1. /\ rules'[c] = Row(call[r].rule) /\ call[r].rule \in Rule /\ rules'[c].owner = r
        /\ \A d \in Codes \ {c} : rules'[d] = rules[d]
    BY <1>4, InsertWrites
  <2>2. rules'[c].usedCount = 0
    BY <2>1, ParametersOfRows, NullRuleAssumption DEF Origins, CallsInTime
  <2>3. Redirected(r) = {}
    BY <1>1 DEF RedirectsHaveOwners, Redirected, Running
  <2> QED  BY <1>1, <1>3, <1>4, <2>1, <2>2, <2>3, InsertSays
<1>5. CASE CommitUsage(r)
  <2>1. PICK c \in Codes :
          /\ seen[r] = rules[c] /\ rules[c] \in Rule
          /\ Later(rules'[c], rules[c]) /\ rules'[c].usedCount = rules[c].usedCount + 1
          /\ \A d \in Codes \ {c} : rules'[d] = rules[d]
    BY <1>5, CommitWrites
  <2>2. PICK o \in Requests : o = rules[c].owner
    BY <2>1 DEF Rule
  <2>3. \A d \in Codes \ {c} : rules[d] # Null => rules[d].owner # o
    BY <1>1, <2>1, <2>2, NullRuleAssumption DEF RowsHaveOwners
  <2>4. \A p \in Requests \ {o} : Redirected(p)' = Redirected(p)
    <3>1. reply'[r].kind = "redirect" => reply'[r].owner = o
      BY <1>1, <1>5, <2>1, <2>2, CommitSays
    <3> QED  BY <1>1, <1>2, <3>1 DEF Redirected, OthersStay
  <2>5. \/ Redirected(o)' = Redirected(o) /\ faults' = faults + 1
        \/ Redirected(o)' = Redirected(o) \cup {r} /\ faults' = faults
    <3>1. \/ faults' = faults /\ reply'[r].kind = "redirect" /\ reply'[r].owner = o
          \/ faults' = faults + 1 /\ reply'[r].kind = "internal_error"
      BY <1>1, <1>5, <2>1, <2>2, CommitSays
    <3> QED  BY <1>1, <1>2, <3>1 DEF Redirected, OthersStay
  <2>6. IsFiniteSet(Redirected(o)) /\ r \notin Redirected(o)
    BY <1>2 DEF Counts, RedirectsFinite, Redirected
  <2> DEFINE got == Cardinality(Redirected(o))
  <2>7. /\ IsFiniteSet(Redirected(o) \cup {r})
        /\ Cardinality(Redirected(o) \cup {r}) = got + 1 /\ got \in Nat
    BY <2>6, FS_AddElement, FS_CardinalityType
  <2>8. RedirectsFinite'
    BY <2>4, <2>5, <2>6, <2>7 DEF Counts, RedirectsFinite
  <2>9. got <= rules[c].usedCount /\ rules[c].usedCount <= got + faults
    BY <2>1, <2>2, NullRuleAssumption DEF Counts, RedirectsAreCounted
  <2>10. faults \in Nat /\ rules[c].usedCount \in Nat
    BY <1>1, <2>1 DEF ServiceTypeOK, Rule
  <2>11. ASSUME NEW d \in Codes, rules'[d] # Null
         PROVE  /\ Cardinality(Redirected(rules[d].owner)') <= rules'[d].usedCount
                /\ rules'[d].usedCount <= Cardinality(Redirected(rules[d].owner)') + faults'
    <3>1. CASE d = c
      <4>1. Redirected(rules[d].owner)' = Redirected(o)'
        BY <2>1, <2>2, <3>1 DEF Later, Redirected
      <4>2. rules'[d].usedCount = rules[c].usedCount + 1
        BY <2>1, <3>1
      <4>3. CASE Redirected(o)' = Redirected(o) /\ faults' = faults + 1
        BY <2>7, <2>9, <2>10, <4>1, <4>2, <4>3
      <4>4. CASE Redirected(o)' = Redirected(o) \cup {r} /\ faults' = faults
        BY <2>7, <2>9, <2>10, <4>1, <4>2, <4>4
      <4> QED  BY <2>5, <4>3, <4>4
    <3>2. CASE d # c
      <4>1. rules'[d] = rules[d] /\ rules[d].owner \in Requests \ {o} /\ rules[d].usedCount \in Nat
        BY <1>1, <2>1, <2>3, <2>11, <3>2, RowsAreRules, OwnersAreRequests
      <4>2. PICK p \in Requests \ {o} : p = rules[d].owner
        BY <4>1
      <4>3. Redirected(rules[d].owner)' = Redirected(p)
        BY <2>4, <4>1, <4>2 DEF Redirected
      <4>4. /\ Cardinality(Redirected(p)) <= rules[d].usedCount
            /\ rules[d].usedCount <= Cardinality(Redirected(p)) + faults
        BY <2>11, <4>1, <4>2 DEF Counts, RedirectsAreCounted
      <4>5. Cardinality(Redirected(p)) \in Nat
        BY FS_CardinalityType DEF Counts, RedirectsFinite
      <4>6. faults' \in Nat /\ faults <= faults'
        BY <1>1 DEF Onward, ServiceTypeOK
      <4> QED  BY <2>10, <4>1, <4>3, <4>4, <4>5, <4>6
    <3> QED  BY <3>1, <3>2
  <2> QED  BY <2>8, <2>11 DEF Counts, RedirectsAreCounted
<1>6. CASE Delete(r)
  BY <1>1, <1>3, <1>6, DeleteWrites, DeleteSays
<1>7. CASE RowsStay(r)
  BY <1>1, <1>2, <1>3, <1>7, RowsStaying, RowsStayMoves
<1> QED  BY <1>4, <1>5, <1>6, <1>7, ActCases

-----------------------------------------------------------------------------
(* History, for the stores to use                                           *)

LEMMA ActHistory ==
  ASSUME UsageInvariant, History, NEW r \in Requests, Act(r)
  PROVE  History'
<1>1. Origins /\ Deletions /\ Endings /\ Uses /\ Counts
  BY DEF History
<1>2. Origins' /\ Deletions' /\ Endings' /\ Uses' /\ Counts'
  BY <1>1, ActOrigins, ActDeletions, ActEndings, ActUses, ActCounts
<1> QED  BY <1>2 DEF History

(* A step that changes no row, unless it takes it out of the table, and no  *)
(* statement's view, and gives no answer that says anything of a rule.      *)
LEMMA QuietStep ==
  ASSUME Onward, History, RowsHaveOwners, CallsInTime', seen' = seen,
         \A q \in Requests : pc'[q] \in {"connected", "read", "updated"} =>
           pc'[q] = pc[q] /\ call'[q] = call[q],
         \A c \in Codes : rules'[c] = rules[c] \/ rules'[c] = Null,
         \A q \in Requests :
           \/ reply'[q] = reply[q]
           \/ /\ reply[q].kind # "redirect"
              /\ reply'[q].kind \in {"validation_error", "internal_error"},
         \A q \in Requests : Running(q)' =>
           \/ Running(q) /\ call'[q] = call[q]
           \/ /\ call'[q].ended = Ended(reply) /\ pc'[q] = "waiting"
              /\ call'[q].op = "resolve" => call'[q].now = clock
  PROVE  History'
<1>1. Origins /\ Deletions /\ Endings /\ Uses /\ Counts
  BY DEF History
<1>2. Origins'
  BY <1>1, OriginsFrame DEF SeenBefore
<1>3. Deletions'
  BY <1>1, DeletionsFrame
<1>4. Endings'
  <2>1. \A q \in Requests :
          reply'[q] = reply[q] \/ reply'[q].kind \notin Endings3 \cup {"redirect", "info_active"}
    BY DEF Endings3
  <2>2. \A q \in Requests : pc'[q] \in {"connected", "read"} =>
          pc[q] \in {"connected", "read"} /\ seen'[q] = seen[q]
    OBVIOUS
  <2> QED  BY <1>1, <2>1, <2>2, EndingsStep
<1>5. Uses'
  <2>1. \A q \in Requests : pc'[q] = "updated" =>
          pc[q] = "updated" /\ seen'[q] = seen[q] /\ call'[q] = call[q]
    OBVIOUS
  <2> QED  BY <1>1, <2>1, UsesFrame
<1>6. Counts'
  <2>1. SameRedirects
    BY DEF SameRedirects
  <2> QED  BY <1>1, <2>1, CountsFrame
<1> QED  BY <1>2, <1>3, <1>4, <1>5, <1>6 DEF History

(* A call goes by the clock as it reads it, knows what clients know, and    *)
(* its rule has no uses yet.                                                *)
LEMMA ArrivalKnows ==
  ASSUME ServiceTypeOK, NEW r \in Requests, ArriveCreate(r) \/ ArriveLookup(r)
  PROVE  \E newCall :
           /\ Arrive(r, newCall)
           /\ newCall.ended = Ended(reply)
           /\ newCall.op = "resolve" => newCall.now = clock
           /\ newCall.rule # Null => newCall.rule.usedCount = 0 /\ newCall.rule.lastUsedAt = Null
<1>1. CASE ArriveCreate(r)
  <2>1. PICK input \in CreateInputs : Arrive(r, CreateCall(r, input, clock, Ended(reply)))
    BY <1>1 DEF ArriveCreate
  <2> QED  BY <2>1 DEF CreateCall, RuleFromInput
<1>2. CASE ArriveLookup(r)
  <2>1. PICK op \in Workload[r] \ {"create"}, code \in LookupCodes :
          Arrive(r, LookupCall(op, code, clock, Ended(reply)))
    BY <1>2 DEF ArriveLookup
  <2> QED  BY <2>1 DEF LookupCall
<1> QED  BY <1>1, <1>2

LEMMA ArriveHistory ==
  ASSUME UsageInvariant, History, NEW r \in Requests, ArriveCreate(r) \/ ArriveLookup(r)
  PROVE  History'
<1>1. ServiceTypeOK /\ RowsHaveOwners /\ Onward /\ CallsInTime
  BY UsageInvariantParts, ArriveOnward DEF Numbering, History, Origins
<1>2. PICK newCall :
        /\ Arrive(r, newCall)
        /\ newCall.ended = Ended(reply)
        /\ newCall.op = "resolve" => newCall.now = clock
        /\ newCall.rule # Null => newCall.rule.usedCount = 0 /\ newCall.rule.lastUsedAt = Null
  BY <1>1, ArrivalKnows
<1>3. /\ OthersStay(r) /\ rules' = rules /\ call'[r] = newCall /\ pc[r] = "idle"
      /\ \/ pc'[r] = "waiting" /\ reply'[r] = reply[r]
         \/ pc'[r] = "done" /\ reply'[r].kind = "validation_error"
  BY <1>1, <1>2, ArriveMoves
<1>4. clock' = clock /\ clock \in Nat /\ seen' = seen
  BY <1>1, <1>2 DEF Arrive, ServiceTypeOK
<1>5. reply[r].kind # "redirect"
  BY <1>1, <1>3 DEF CallsInTime, NoReply, Said
<1>6. CallsInTime'
  BY <1>1, <1>2, <1>3, <1>4 DEF CallsInTime, OthersStay
<1>7. /\ \A q \in Requests : pc'[q] \in {"connected", "read", "updated"} =>
           pc'[q] = pc[q] /\ call'[q] = call[q]
      /\ \A q \in Requests :
           \/ reply'[q] = reply[q]
           \/ /\ reply[q].kind # "redirect"
              /\ reply'[q].kind \in {"validation_error", "internal_error"}
  BY <1>3, <1>5 DEF OthersStay
<1>8. \A q \in Requests : Running(q)' =>
        \/ Running(q) /\ call'[q] = call[q]
        \/ /\ call'[q].ended = Ended(reply) /\ pc'[q] = "waiting"
           /\ call'[q].op = "resolve" => call'[q].now = clock
  BY <1>2, <1>3 DEF OthersStay, Running
<1> QED  BY <1>1, <1>3, <1>4, <1>6, <1>7, <1>8, QuietStep

LEMMA GiveUpHistory ==
  ASSUME UsageInvariant, History, NEW S \in SUBSET Requests, \A r \in S : Running(r), GiveUp(S)
  PROVE  History'
<1>1. RowsHaveOwners /\ Onward /\ CallsInTime
  BY UsageInvariantParts, GiveUpOnward DEF Numbering, History, Origins
<1>2. UNCHANGED <<rules, call, seen, clock>>
  BY DEF GiveUp
<1>3. /\ \A q \in S : pc'[q] = "done" /\ reply'[q].kind = "internal_error" /\ pc[q] # "done"
      /\ \A q \in Requests \ S : pc'[q] = pc[q] /\ reply'[q] = reply[q]
  BY DEF GiveUp, Said, Running
<1>4. \A q \in S : reply[q].kind # "redirect"
  BY <1>1, <1>3 DEF CallsInTime, NoReply, Said
<1>5. CallsInTime'
  BY <1>1, <1>2, <1>3 DEF CallsInTime
<1>6. /\ \A q \in Requests : pc'[q] \in {"connected", "read", "updated"} =>
           pc'[q] = pc[q] /\ call'[q] = call[q]
      /\ \A q \in Requests :
           \/ reply'[q] = reply[q]
           \/ /\ reply[q].kind # "redirect"
              /\ reply'[q].kind \in {"validation_error", "internal_error"}
      /\ \A q \in Requests : Running(q)' => Running(q) /\ call'[q] = call[q]
  BY <1>2, <1>3, <1>4 DEF Running
<1> QED  BY <1>1, <1>2, <1>5, <1>6, QuietStep

LEMMA RemovalHistory ==
  ASSUME UsageInvariant, UsageInvariant', History, UNCHANGED <<pc, call, seen, reply>>,
         clock <= clock', faults <= faults',
         \A c \in Codes : rules'[c] = rules[c] \/ rules'[c] = Null
  PROVE  History'
<1>1. RowsHaveOwners /\ Onward /\ CallsInTime /\ clock \in Nat /\ clock' \in Nat
  BY UsageInvariantParts, RemovalOnward DEF Numbering, History, Origins, Onward, ServiceTypeOK
<1>2. CallsInTime'
  BY <1>1 DEF CallsInTime
<1>3. \A q \in Requests : Running(q)' => Running(q) /\ call'[q] = call[q]
  BY DEF Running
<1> QED  BY <1>1, <1>2, <1>3, QuietStep

LEMMA InitHistory ==
  ASSUME ServiceInit
  PROVE  History
<1>1. \A r \in Requests : reply[r].kind = "none"
  BY DEF ServiceInit, NoReply, Said
<1>2. CallsInTime
  BY DEF ServiceInit, CallsInTime, NoCall
<1>3. Endings
  BY <1>1 DEF ServiceInit, Endings, EndedKnown, EndedStaysEnded, Ended, Running
<1>4. RedirectsFinite
  <2>1. \A o \in Requests : Redirected(o) = {}
    BY <1>1 DEF Redirected
  <2> QED  BY <2>1, FS_EmptySet DEF RedirectsFinite
<1> QED  BY <1>1, <1>2, <1>3, <1>4
  DEF ServiceInit, History, Origins, RowsAsCreated, Deletions, DeletedGone, DeletedOnce, Uses,
      Decided, NoUseAfterExpiry, Counts, RedirectsAreCounted

(* A create owns the one row it made, if it made one and that is still      *)
(* there.                                                                   *)
LEMMA OneRuleFollows ==
  UsageInvariant /\ History => OneRulePerCreate
<1> SUFFICES ASSUME UsageInvariant, History, NEW r \in Requests
             PROVE  /\ Cardinality({c \in Codes : Holds(c, r)}) <= 1
                    /\ reply[r].kind \in {"already_exists", "validation_error"}
                         => {c \in Codes : Holds(c, r)} = {}
  BY DEF OneRulePerCreate
<1> DEFINE owned == {c \in Codes : Holds(c, r)}
<1>1. RowsHaveOwners /\ RowsAsCreated
  BY DEF UsageInvariant, History, Origins
<1>2. \A c, d \in owned : c = d
  BY <1>1 DEF Holds, RowsHaveOwners
<1>3. Cardinality(owned) <= 1
  <2>1. CASE owned = {}
    BY <2>1, FS_EmptySet
  <2>2. ASSUME NEW c \in owned PROVE Cardinality(owned) <= 1
    <3>1. owned = {c}
      BY <1>2, <2>2
    <3>2. Cardinality({c}) = 1
      BY FS_Singleton
    <3> QED  BY <3>1, <3>2
  <2> QED  BY <2>1, <2>2
<1>4. \A c \in owned : reply[r].kind \in {"created", "internal_error"}
  BY <1>1 DEF Holds, RowsAsCreated
<1> QED  BY <1>3, <1>4

LEMMA HistoryFollows ==
  UsageInvariant /\ History =>
    OneRulePerCreate /\ DeletedOnce /\ EndedStaysEnded /\ NoUseAfterExpiry /\ RedirectsAreCounted
BY OneRuleFollows DEF History, Deletions, Endings, Uses, Counts

-----------------------------------------------------------------------------
(* Expiries in the future                                                   *)

(* ttl_seconds are few enough for a time.Duration.                          *)
ShortTTLs == \A input \in CreateInputs : input.ttl * Second < HalfRange

LEMMA DurationOfShort ==
  ASSUME NEW ttl \in Nat, ttl * Second < HalfRange
  PROVE  Duration(ttl) = ttl * Second
<1> DEFINE p == ttl * Second
<1>1. p \in Nat /\ p < HalfRange /\ HalfRange \in Nat \ {0}
  BY DurationAssumption
<1> HIDE DEF p
<1>2. (p + HalfRange) % (2 * HalfRange) = p + HalfRange
  BY <1>1
<1>3. Duration(ttl) = ((p + HalfRange) % (2 * HalfRange)) - HalfRange
  BY DEF Duration, p
<1> QED  BY <1>1, <1>2, <1>3 DEF p

LEMMA ArriveExpiresLater ==
  ASSUME ShortTTLs, ServiceTypeOK, TTLExpiresLater, NEW r \in Requests,
         ArriveCreate(r) \/ ArriveLookup(r)
  PROVE  TTLExpiresLater'
<1>1. ASSUME NEW newCall, Arrive(r, newCall),
             newCall.rule # Null /\ newCall.rule.expiresAt # Null
               => newCall.now < newCall.rule.expiresAt
      PROVE  TTLExpiresLater'
  BY <1>1, ArriveMoves DEF TTLExpiresLater, OthersStay
<1>2. CASE ArriveCreate(r)
  <2>1. PICK input \in CreateInputs : Arrive(r, CreateCall(r, input, clock, Ended(reply)))
    BY <1>2 DEF ArriveCreate
  <2>2. input.ttl \in Int /\ Second \in Nat \ {0} /\ clock \in Nat
    BY InputAssumption, DurationAssumption DEF Inputs, ServiceTypeOK
  <2>3. input.ttl > 0 => clock < clock + Duration(input.ttl)
    <3> SUFFICES ASSUME input.ttl > 0 PROVE clock < clock + Duration(input.ttl)
      OBVIOUS
    <3>1. Duration(input.ttl) = input.ttl * Second
      BY <2>2, DurationOfShort DEF ShortTTLs
    <3>2. input.ttl * Second \in Nat /\ input.ttl * Second > 0
      BY <2>2
    <3> QED  BY <2>2, <3>1, <3>2
  <2> QED  BY <1>1, <2>1, <2>3 DEF CreateCall, RuleFromInput
<1>3. CASE ArriveLookup(r)
  <2>1. PICK op \in Workload[r] \ {"create"}, code \in LookupCodes :
          Arrive(r, LookupCall(op, code, clock, Ended(reply)))
    BY <1>3 DEF ArriveLookup
  <2> QED  BY <1>1, <2>1 DEF LookupCall
<1> QED  BY <1>2, <1>3

(* Nothing else makes a call.                                               *)
LEMMA CallsStay ==
  ASSUME UsageInvariant, TTLExpiresLater,
         \/ \E r \in Requests : Act(r)
         \/ \E S \in SUBSET Requests : GiveUp(S)
         \/ UNCHANGED <<pc, call, seen, reply>>
  PROVE  TTLExpiresLater'
<1>1. call' = call
  BY ActOnward DEF GiveUp
<1> QED  BY <1>1 DEF TTLExpiresLater
=============================================================================
