-------------------------- MODULE ObservationLedger --------------------------
(***************************************************************************)
(* The ledger of signed readiness observations: ingest, KeyRing::verify    *)
(* and store_database in src/src/readiness_observation_ingest.rs, over the *)
(* table canonical_readiness_observation of src/db/schema.sql.             *)
(*                                                                         *)
(* A source posts a body under a key; the key gives the owner, and owner   *)
(* and source name a stream.  A transaction takes the stream's advisory    *)
(* lock, looks for the event, reads the stream's last record and appends.  *)
(* Every statement of the transaction sees what is committed when it runs  *)
(* (READ COMMITTED, PostgreSQL's default, which the code keeps).           *)
(*                                                                         *)
(* A body's SHA-256 stands for the body, and a record's digest for the     *)
(* sequence of bodies it commits to: both hashes are taken as injective.   *)
(***************************************************************************)
EXTENDS Integers, Sequences, FiniteSets

CONSTANTS
    Deliveries, \* requests, each handled once by some replica
    Sources,    \* source ids
    Orderly,    \* sources that send an event after the one before is receipted
    Owners,     \* owner subjects
    EventIds,
    Contents,   \* what else a body says
    KeyRing,    \* the keys of CANONICAL_READINESS_INGEST_KEYS_JSON
    I64Max,     \* the largest source sequence
    MaxTime     \* bound on the clock

(* An entry of the key document.  A bound that is not given is an empty    *)
(* set, one that is given a set of one element.                            *)
KeyInput ==
    [id : STRING, source : Sources, owner : Owners, from : SUBSET Nat, until : SUBSET Nat]

(* The documents KeyRing::parse takes; the process does not start on any   *)
(* other.  A key expires after it starts, and no id is used twice.         *)
parse(ring) ==
    /\ IsFiniteSet(ring) /\ Cardinality(ring) <= 128
    /\ \A k \in ring : \A start \in k.from, end \in k.until : start < end
    /\ \A k, l \in ring : k.id = l.id => k = l

(* An orderly source keeps its owner when its key is rotated. *)
ASSUME LedgerAssumption ==
    /\ Orderly \subseteq Sources
    /\ I64Max \in Nat \ {0}
    /\ MaxTime \in Nat
    /\ KeyRing \subseteq KeyInput
    /\ parse(KeyRing)
    /\ \A k, l \in KeyRing : k.source = l.source /\ k.source \in Orderly => k.owner = l.owner

VARIABLES
    clock,   \* half microseconds
    ledger,  \* the table's rows
    lock,    \* the deliveries that hold a stream's advisory lock
    pc,      \* what a delivery's handler does next
    req,     \* the body a delivery carried
    owner,   \* the owner its key named
    at,      \* when it was received, to the last digit of the clock
    prior,   \* the last record's digest, as its transaction read it
    reply    \* what it was answered

vars == <<clock, ledger, lock, pc, req, owner, at, prior, reply>>

Body == [source : Sources, event : EventIds, seq : 0 .. I64Max, content : Contents]

NoBody == [source |-> "none"]

(* validate_event's first condition, of the fields the ledger turns on. *)
Valid(b) == b.seq > 0

(* A timestamptz keeps microseconds: half of one is rounded to even. *)
to_char(t) == IF t % 4 = 1 THEN t - 1 ELSE IF t % 4 = 3 THEN t + 1 ELSE t

Receipt == [kind : {"accepted", "duplicate"}, id : Deliveries, at : Nat]

Refusal == [kind : {"rejected", "event-conflict", "sequence-conflict", "unavailable"}]

NoReply == [kind |-> "none"]

ZERO_RECORD_DIGEST == <<>>

record_digest(p, b) == Append(p, b)

Row == [owner : Owners, body : Body, prior : Seq(Body), digest : Seq(Body),
        receipt : Deliveries, at : Nat]

Init ==
    /\ clock = 0
    /\ ledger = {}
    /\ lock = {}
    /\ pc = [d \in Deliveries |-> "idle"]
    /\ req = [d \in Deliveries |-> NoBody]
    /\ owner = [d \in Deliveries |-> "none"]
    /\ at = [d \in Deliveries |-> 0]
    /\ prior = [d \in Deliveries |-> ZERO_RECORD_DIGEST]
    /\ reply = [d \in Deliveries |-> NoReply]

Stream(o, s) == {r \in ledger : r.owner = o /\ r.body.source = s}

Own(d) == Stream(owner[d], req[d].source)

Receipted(d) == reply[d].kind \in {"accepted", "duplicate"}

Tick ==
    /\ clock < MaxTime
    /\ clock' = clock + 1
    /\ UNCHANGED <<ledger, lock, pc, req, owner, at, prior, reply>>

-----------------------------------------------------------------------------
(* The sender *)

(* An orderly source sends one body per event and per sequence, as often   *)
(* as it likes, and an event once the one before it is receipted.          *)
InTurn(b) ==
    /\ \A d \in Deliveries :
         /\ req[d] \in Body
         /\ req[d].source = b.source
         /\ req[d].event = b.event \/ req[d].seq = b.seq
         => req[d] = b
    /\ b.seq > 1 => \E d \in Deliveries :
                      /\ Receipted(d)
                      /\ req[d].source = b.source
                      /\ req[d].seq = b.seq - 1

Sends(b) == b.source \in Orderly => InTurn(b)

-----------------------------------------------------------------------------
(* ingest *)

Accepts(k, b) ==
    /\ k.source = b.source
    /\ \A start \in k.from : start <= clock
    /\ \A end \in k.until : clock < end

(* Signed with a key that is valid now: the transaction begins. *)
Arrive(d, k, b) ==
    /\ pc[d] = "idle"
    /\ Sends(b)
    /\ Valid(b)
    /\ Accepts(k, b)
    /\ pc' = [pc EXCEPT ![d] = "lock"]
    /\ req' = [req EXCEPT ![d] = b]
    /\ owner' = [owner EXCEPT ![d] = k.owner]
    /\ at' = [at EXCEPT ![d] = clock]
    /\ UNCHANGED <<clock, ledger, lock, prior, reply>>

(* Malformed, wrongly signed, stale, or signed with a key that is not      *)
(* valid now.                                                              *)
Reject(d) ==
    /\ pc[d] = "idle"
    /\ pc' = [pc EXCEPT ![d] = "done"]
    /\ reply' = [reply EXCEPT ![d] = [kind |-> "rejected"]]
    /\ UNCHANGED <<clock, ledger, lock, req, owner, at, prior>>

-----------------------------------------------------------------------------
(* store_database *)

(* Mutant: the lock is per event, not per stream. *)
RivalsOnEvent(d) ==
    {e \in lock : owner[e] = owner[d] /\ req[e].source = req[d].source
                                      /\ req[e].event = req[d].event}

Rivals(d) == {e \in lock : owner[e] = owner[d] /\ req[e].source = req[d].source}

TakeLock(d) ==
    /\ pc[d] = "lock"
    /\ Rivals(d) = {}
    /\ lock' = lock \cup {d}
    /\ pc' = [pc EXCEPT ![d] = "find"]
    /\ UNCHANGED <<clock, ledger, req, owner, at, prior, reply>>

(* The transaction ends and its lock is released. *)
End(d, r) ==
    /\ pc' = [pc EXCEPT ![d] = "done"]
    /\ lock' = lock \ {d}
    /\ reply' = [reply EXCEPT ![d] = r]
    /\ UNCHANGED <<clock, req, owner, at, prior>>

IsLast(r, rows) == \A q \in rows : q.body.seq <= r.body.seq

(* Mutant: only the last record is looked at. *)
RecordedLast(d) == {r \in Own(d) : r.body.event = req[d].event /\ IsLast(r, Own(d))}

Recorded(d) == {r \in Own(d) : r.body.event = req[d].event}

(* Mutant: an event's content is not compared. *)
MatchesAnyContent(d, r) == r.body.seq = req[d].seq

Matches(d, r) == r.body = req[d] /\ r.body.seq = req[d].seq

FindNothing(d) ==
    /\ pc[d] = "find"
    /\ Recorded(d) = {}
    /\ pc' = [pc EXCEPT ![d] = "cursor"]
    /\ UNCHANGED <<clock, ledger, lock, req, owner, at, prior, reply>>

(* The event is recorded already: its own receipt, printed from the row. *)
Duplicate(d) ==
    /\ pc[d] = "find"
    /\ \E r \in Recorded(d) :
         /\ Matches(d, r)
         /\ End(d, [kind |-> "duplicate", id |-> r.receipt, at |-> to_char(r.at)])
    /\ UNCHANGED ledger

EventConflict(d) ==
    /\ pc[d] = "find"
    /\ \E r \in Recorded(d) : ~Matches(d, r)
    /\ End(d, [kind |-> "event-conflict"])
    /\ UNCHANGED ledger

(* The record the next one follows: its sequence and its digest. *)
Follows(d, n, p) ==
    \/ Own(d) = {} /\ n = 0 /\ p = ZERO_RECORD_DIGEST
    \/ \E r \in Own(d) : IsLast(r, Own(d)) /\ n = r.body.seq /\ p = r.digest

(* Mutant: gaps are accepted. *)
ExpectedLater(n, s) == s > n

(* checked_add *)
Expected(n, s) == n < I64Max /\ s = n + 1

ReadCursor(d) ==
    /\ pc[d] = "cursor"
    /\ \E n \in 0 .. I64Max, p \in {ZERO_RECORD_DIGEST} \cup {r.digest : r \in Own(d)} :
         /\ Follows(d, n, p)
         /\ Expected(n, req[d].seq)
         /\ prior' = [prior EXCEPT ![d] = p]
    /\ pc' = [pc EXCEPT ![d] = "insert"]
    /\ UNCHANGED <<clock, ledger, lock, req, owner, at, reply>>

SequenceConflict(d) ==
    /\ pc[d] = "cursor"
    /\ \E n \in 0 .. I64Max, p \in {ZERO_RECORD_DIGEST} \cup {r.digest : r \in Own(d)} :
         Follows(d, n, p) /\ ~Expected(n, req[d].seq)
    /\ End(d, [kind |-> "sequence-conflict"])
    /\ UNCHANGED ledger

NewRow(d) ==
    [owner |-> owner[d], body |-> req[d], prior |-> prior[d],
     digest |-> record_digest(prior[d], req[d]), receipt |-> d, at |-> at[d]]

(* The primary key and the unique sequence of the table. *)
Collides(d) ==
    \E r \in Own(d) : r.body.event = req[d].event \/ r.body.seq = req[d].seq

Insert(d) ==
    /\ pc[d] = "insert"
    /\ ~Collides(d)
    /\ ledger' = ledger \cup {NewRow(d)}

Commit(d) ==
    /\ Insert(d)
    /\ End(d, [kind |-> "accepted", id |-> d, at |-> at[d]])

(* The commit is made and its acknowledgement lost. *)
CommitUnacked(d) ==
    /\ Insert(d)
    /\ End(d, [kind |-> "unavailable"])

(* A statement fails, a constraint is violated, or the handler is dropped  *)
(* with its connection or its process.                                     *)
Abort(d) ==
    /\ pc[d] \notin {"idle", "done"}
    /\ End(d, [kind |-> "unavailable"])
    /\ UNCHANGED ledger

Next ==
    \/ Tick
    \/ \E d \in Deliveries :
         \/ \E k \in KeyRing, b \in Body : Arrive(d, k, b)
         \/ Reject(d) \/ TakeLock(d) \/ Abort(d)
         \/ FindNothing(d) \/ Duplicate(d) \/ EventConflict(d)
         \/ ReadCursor(d) \/ SequenceConflict(d)
         \/ Commit(d) \/ CommitUnacked(d)

Spec == Init /\ [][Next]_vars

-----------------------------------------------------------------------------
(* Properties *)

(* Handlers keep the types of the values they hold across statements. *)
TypeOK ==
    /\ clock \in Nat
    /\ ledger \subseteq Row
    /\ lock \subseteq Deliveries
    /\ pc \in [Deliveries -> {"idle", "lock", "find", "cursor", "insert", "done"}]
    /\ req \in [Deliveries -> Body \cup {NoBody}]
    /\ owner \in [Deliveries -> Owners \cup {"none"}]
    /\ at \in [Deliveries -> Nat]
    /\ prior \in [Deliveries -> Seq(Body)]
    /\ reply \in [Deliveries -> Receipt \cup Refusal \cup {NoReply}]

(* "Every later sequence is exactly the previous sequence plus one", and   *)
(* "each record stores the prior record digest": a stream has one record   *)
(* per event and per sequence, starts at 1 from the zero digest, and has   *)
(* under every other record the one it was chained to.                     *)
LedgerChained ==
    \A r \in ledger :
      /\ r.digest = record_digest(r.prior, r.body)
      /\ r.body.seq = 1 => r.prior = ZERO_RECORD_DIGEST
      /\ r.body.seq # 1 => \E q \in Stream(r.owner, r.body.source) :
                             q.body.seq = r.body.seq - 1 /\ q.digest = r.prior
      /\ \A q \in Stream(r.owner, r.body.source) :
           q.body.event = r.body.event \/ q.body.seq = r.body.seq => q = r

(* "the production constructor never acknowledges an observation until the *)
(* append-only ledger commits", and redelivery "returns the original       *)
(* receipt": a receipt names the one record of its event, and that record  *)
(* has the body the receipt was given for.  The time it gives is when the  *)
(* record was received, never when it was sent again; an exact retry gets  *)
(* the "original receivedAt" up to the digits the database keeps.          *)
ReceiptsHold ==
    \A d \in Deliveries : Receipted(d) =>
      \E r \in Own(d) : /\ r.body = req[d] /\ r.receipt = reply[d].id
                        /\ reply[d].at \in {r.at, to_char(r.at)}

(* A transaction that reached its insert violates no unique constraint:    *)
(* the advisory lock is enough.                                            *)
InsertsFit == \A d \in Deliveries : pc[d] = "insert" => ~Collides(d)

(* A source that sends an event only when the one before it is receipted   *)
(* never meets a conflict, however often it resends after lost             *)
(* acknowledgements, to whichever replica, and while its key is rotated.   *)
OrderlyNeverConflict ==
    \A d \in Deliveries :
      req[d] \in Body /\ req[d].source \in Orderly =>
        reply[d].kind \notin {"event-conflict", "sequence-conflict"}
=============================================================================
