------------------------------ MODULE RuleBook ------------------------------
(***************************************************************************)
(* What the service promises its clients, whatever store it runs on: a     *)
(* book of rules in which every call takes effect in one step, or not at   *)
(* all, between its arrival and its answer.                                *)
(*                                                                         *)
(*   - a redirect is counted, on a rule that had uses left and had not     *)
(*     expired when the call read the clock;                               *)
(*   - no rule is ever replaced; it leaves the book by a delete, once, or  *)
(*     after it has expired;                                               *)
(*   - a lookup answers from the book as it was at some moment during the  *)
(*     call, and not_found only if the rule was absent at some moment;     *)
(*   - internal_error promises only that the effect, if any, happened      *)
(*     once.                                                               *)
(***************************************************************************)
EXTENDS Rules

CONSTANT PurgeEarly \* how long before its expiry a rule may leave: 0, if it can

VARIABLES
  clock,
  book,  \* code -> the rule under that code, without lastUsedAt
  asked, \* request -> its call
  found, \* request -> {what its lookup last saw, a rule or Null}, {} before
  answer \* request -> what its client reads

vars == <<clock, book, asked, found, answer>>

Init ==
  /\ clock = 0
  /\ book = [c \in Codes |-> Null]
  /\ asked = [r \in Requests |-> NoCall]
  /\ found = [r \in Requests |-> {}]
  /\ answer = [r \in Requests |-> NoReply]

Tick == clock' = clock + 1 /\ UNCHANGED <<book, asked, found, answer>>

Pending(r, op) == asked[r].op = op /\ Accepted(asked[r]) /\ answer[r] = NoReply

Reading(r, kind, owner, n) ==
  /\ answer' = [answer EXCEPT ![r] = Said(kind, owner, n)]
  /\ found' = [found EXCEPT ![r] = {}]

(* The answer to a call that took effect, or an error in its place.         *)
Told(r, kind, owner, n) ==
  Reading(r, kind, owner, n) \/ Reading(r, "internal_error", Null, 0)

Ask(r, newCall) ==
  /\ asked[r] = NoCall
  /\ asked' = [asked EXCEPT ![r] = newCall]
  /\ IF Accepted(newCall) THEN UNCHANGED <<answer, found>>
                          ELSE Reading(r, "validation_error", Null, 0)
  /\ UNCHANGED <<clock, book>>

AskCreate(r) ==
  \E input \in CreateInputs : Ask(r, CreateCall(r, input, clock, Ended(answer)))

AskLookup(r) ==
  \E op \in Operations \ {"create"}, code \in LookupCodes :
    Ask(r, LookupCall(op, code, clock, Ended(answer)))

(* The moment from which a lookup will answer.                              *)
Look(r) ==
  /\ \E op \in Operations \ {"create"} : Pending(r, op)
  /\ found' = [found EXCEPT ![r] = {book[asked[r].code]}]
  /\ UNCHANGED <<clock, book, asked, answer>>

Create(r, c) ==
  /\ Pending(r, "create")
  /\ asked[r].code \in {c, Null}
  /\ book[c] = Null
  /\ book' = [book EXCEPT ![c] = Entry(Row(asked[r].rule))]
  /\ Told(r, "created", r, 0)
  /\ UNCHANGED <<clock, asked>>

Refuse(r) ==
  /\ Pending(r, "create")
  /\ asked[r].code # Null /\ book[asked[r].code] # Null
  /\ Reading(r, "already_exists", Null, 0)
  /\ UNCHANGED <<clock, book, asked>>

Redirect(r, c) ==
  /\ Pending(r, "resolve") /\ c = asked[r].code
  /\ book[c] # Null
  /\ ~Expired(book[c], asked[r].now)
  /\ book' = [book EXCEPT ![c].usedCount = @ + 1]
  /\ Told(r, "redirect", book[c].owner, book[c].usedCount + 1)
  /\ UNCHANGED <<clock, asked>>

Gone(r, c) ==
  /\ Pending(r, "resolve") /\ c = asked[r].code
  /\ book[c] # Null
  /\ Expired(book[c], asked[r].now)
  /\ Reading(r, "rule_expired", book[c].owner, 0)
  /\ UNCHANGED <<clock, book, asked>>

Delete(r, c) ==
  /\ Pending(r, "delete") /\ c = asked[r].code
  /\ book[c] # Null
  /\ book' = [book EXCEPT ![c] = Null]
  /\ Told(r, "deleted", book[c].owner, 0)
  /\ UNCHANGED <<clock, asked>>

(* Absent when looked at, or seen to leave since: another rule under the    *)
(* same code is not the one that was looked at.  A call that has not looked *)
(* cannot say this.                                                         *)
Missing(r, c) ==
  /\ \E op \in Operations \ {"create"} : Pending(r, op)
  /\ c = asked[r].code
  /\ \E view \in found[r] :
       view = Null \/ book[c] = Null \/ book[c].owner # view.owner
  /\ Reading(r, "not_found", Null, 0)
  /\ UNCHANGED <<clock, book, asked>>

Inspect(r) ==
  /\ Pending(r, "get")
  /\ \E view \in found[r] :
       /\ view # Null
       /\ Reading(r, IF Expired(view, clock) THEN "info_expired" ELSE "info_active",
                  view.owner, 0)
  /\ UNCHANGED <<clock, book, asked>>

GiveUp ==
  /\ \E S \in SUBSET {r \in Requests : \E op \in Operations : Pending(r, op)} :
       /\ answer' = [r \in Requests |-> IF r \in S THEN Said("internal_error", Null, 0)
                                        ELSE answer[r]]
       /\ found' = [r \in Requests |-> IF r \in S THEN {} ELSE found[r]]
  /\ UNCHANGED <<clock, book, asked>>

Purge ==
  /\ \E gone \in SUBSET {c \in Codes :
                          book[c] # Null /\ Expired(book[c], clock + PurgeEarly)} :
       book' = [c \in Codes |-> IF c \in gone THEN Null ELSE book[c]]
  /\ UNCHANGED <<clock, asked, found, answer>>

Next ==
  \/ Tick \/ Purge \/ GiveUp
  \/ \E r \in Requests :
       \/ AskCreate(r) \/ AskLookup(r) \/ Look(r) \/ Refuse(r)
       \/ Inspect(r)
       \/ \E c \in Codes :
            \/ Create(r, c) \/ Redirect(r, c) \/ Gone(r, c)
            \/ Delete(r, c) \/ Missing(r, c)

Spec == Init /\ [][Next]_vars
=============================================================================
