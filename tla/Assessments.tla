---------------------------- MODULE Assessments ----------------------------
(***************************************************************************)
(* Readiness-assessment intakes: create_readiness_assessment in            *)
(* src/src/lib.rs and the bounded store it fills.                          *)
(*                                                                         *)
(* A submission holds the write guard of the idempotency map from its look *)
(* at the key to the end of its insertion, with no await in between, so it *)
(* is one step.  The map is shared with the quote handlers, which without  *)
(* a database look at a key under one guard and insert it under another.   *)
(***************************************************************************)
EXTENDS Integers, Sequences, FiniteSets

CONSTANTS
    Keys,       \* (subject, idempotency key) pairs
    Requests,   \* normalised request bodies
    Handlers,   \* quote handlers: none, where a database is configured
    NoKey,      \* a quote handler between submissions
    Capacity,   \* READINESS_ASSESSMENT_CAPACITY
    MaxId       \* bound on the assessments recorded

ASSUME AssessmentAssumption ==
    /\ NoKey \notin Keys
    /\ Capacity \in Nat \ {0}
    /\ MaxId \in Nat

VARIABLES
    idem,       \* the idempotency map
    store,      \* the assessments held, oldest first
    looking,    \* the key a quote handler found unused and will insert
    lastId,     \* assessments recorded so far: the latest one's id
    answers     \* the assessments that 201 responses named, by key

vars == <<idem, store, looking, lastId, answers>>

Ids == Nat \ {0}

NoOp == [kind |-> "none", id |-> 0]

QuoteOp == [kind |-> "quote", id |-> 0]

AssessmentOp(i, r) == [kind |-> "assessment", id |-> i, request |-> r]

Op == {NoOp, QuoteOp} \cup [kind: {"assessment"}, id: Ids, request: Requests]

Assessment == [id: Ids, key: Keys]

Init ==
    /\ idem = [k \in Keys |-> NoOp]
    /\ store = <<>>
    /\ looking = [h \in Handlers |-> NoKey]
    /\ lastId = 0
    /\ answers = [k \in Keys |-> {}]

-----------------------------------------------------------------------------
(* Submissions *)

Answer(k, i) == answers' = [answers EXCEPT ![k] = @ \cup {i}]

Full == Len(store) >= Capacity

(* What is held when another record comes: the oldest one makes room. *)
Kept == IF Full THEN Tail(store) ELSE store

(* Mutants: the evicted record's key stays, or goes whatever it names. *)
ForgetNothing(ops) == ops

ForgetAlways(ops) ==
    IF Full THEN [ops EXCEPT ![Head(store).key] = NoOp] ELSE ops

(* Its key is forgotten, if the key still names it. *)
Forget(ops) ==
    IF Full /\ ops[Head(store).key].kind = "assessment"
            /\ ops[Head(store).key].id = Head(store).id
    THEN [ops EXCEPT ![Head(store).key] = NoOp]
    ELSE ops

(* Mutant: the key is not looked up. *)
RecordAnyway(k, r) ==
    /\ lastId < MaxId
    /\ lastId' = lastId + 1
    /\ idem' = Forget([idem EXCEPT ![k] = AssessmentOp(lastId', r)])
    /\ store' = Append(Kept, [id |-> lastId', key |-> k])
    /\ Answer(k, lastId')
    /\ UNCHANGED looking

(* An unused key: the operation and the record are inserted, and 201       *)
(* follows.                                                                *)
Record(k, r) ==
    /\ idem[k] = NoOp
    /\ lastId < MaxId
    /\ lastId' = lastId + 1
    /\ idem' = Forget([idem EXCEPT ![k] = AssessmentOp(lastId', r)])
    /\ store' = Append(Kept, [id |-> lastId', key |-> k])
    /\ Answer(k, lastId')
    /\ UNCHANGED looking

(* find_assessment, by id and subject. *)
Holds(s, i, k) == \E n \in 1..Len(s) : s[n] = [id |-> i, key |-> k]

(* The same intake again: 201 with the record held, or else 503. *)
Replay(k, r) ==
    /\ idem[k].kind = "assessment"
    /\ idem[k].request = r
    /\ IF Holds(store, idem[k].id, k)
       THEN Answer(k, idem[k].id)
       ELSE UNCHANGED answers
    /\ UNCHANGED <<idem, store, looking, lastId>>

(* A key of another operation or body: 409. *)
RejectReuse(k, r) ==
    /\ idem[k] # NoOp
    /\ idem[k].kind = "assessment" => idem[k].request # r
    /\ UNCHANGED vars

-----------------------------------------------------------------------------
(* Quote handlers without a database *)

QuoteLook(h, k) ==
    /\ looking[h] = NoKey
    /\ idem[k] = NoOp
    /\ looking' = [looking EXCEPT ![h] = k]
    /\ UNCHANGED <<idem, store, lastId, answers>>

(* The key is inserted, whatever the map holds by now ... *)
QuoteInsert(h) ==
    /\ looking[h] # NoKey
    /\ idem' = [idem EXCEPT ![looking[h]] = QuoteOp]
    /\ looking' = [looking EXCEPT ![h] = NoKey]
    /\ UNCHANGED <<store, lastId, answers>>

(* ... unless the handler ends before. *)
QuoteGiveUp(h) ==
    /\ looking[h] # NoKey
    /\ looking' = [looking EXCEPT ![h] = NoKey]
    /\ UNCHANGED <<idem, store, lastId, answers>>

Next ==
    \/ \E k \in Keys, r \in Requests : 
          Record(k, r) \/ Replay(k, r) \/ RejectReuse(k, r)
    \/ \E h \in Handlers :
          (\E k \in Keys : QuoteLook(h, k)) \/ QuoteInsert(h) \/ QuoteGiveUp(h)

Spec == Init /\ [][Next]_vars

-----------------------------------------------------------------------------
(* Properties *)

(* The entries and intakes keep their types: an entry of an intake has its *)
(* id and request.                                                         *)
TypeOK ==
    /\ idem \in [Keys -> Op]
    /\ store \in Seq(Assessment)
    /\ looking \in [Handlers -> Keys \cup {NoKey}]
    /\ lastId \in Nat
    /\ answers \in [Keys -> SUBSET Ids]

(* "its key does not point at a record that no longer exists": a replay    *)
(* never ends in 503, through evictions and quote handlers' insertions.    *)
NoDanglingKeys ==
    \A k \in Keys : idem[k].kind = "assessment" => Holds(store, idem[k].id, k)

(* Of all the assessments that responses to one key named, at most one is  *)
(* held: no key is recorded twice, even when a quote handler took the key  *)
(* over in between or the key's first assessment was evicted.              *)
OneAssessmentPerKey ==
    \A k \in Keys : \A i, j \in answers[k] :
        Holds(store, i, k) /\ Holds(store, j, k) => i = j

(* "1024 records, oldest evicted first": the store holds the latest        *)
(* assessments recorded, in order, and as many of them as it can.          *)
LatestHeld ==
    /\ Len(store) = (IF lastId < Capacity THEN lastId ELSE Capacity)
    /\ \A n \in 1..Len(store) : store[n].id = lastId - Len(store) + n

(* "Quote entries are never touched here", and an assessment's key is      *)
(* forgotten only together with the assessment.                            *)
KeysStay ==
    [][\A k \in Keys :
          /\ idem[k] = QuoteOp => idem'[k] = QuoteOp
          /\ idem[k].kind = "assessment" /\ idem'[k] = NoOp
                => ~Holds(store', idem[k].id, k)]_vars
=============================================================================
