---------------------------- MODULE QuoteMemory ----------------------------
(***************************************************************************)
(* The quote service without a database: the memory-only branches of       *)
(* create_quote, retry_quote, find_quote and update_quote_state in         *)
(* src/src/lib.rs.  Quotes and idempotency operations are two hash maps,   *)
(* each behind its own asynchronous read-write lock, and a handler takes   *)
(* and releases a lock once for every access it makes.                     *)
(*                                                                         *)
(* A slot is a permit of the analysis semaphore, as in QuoteLifecycle: it  *)
(* follows a submission through its handler and its worker.  Each access   *)
(* to a map is a step; code between two awaits runs with the access before *)
(* it.  The process's end forgets both maps and is not modelled.           *)
(*                                                                         *)
(* A ghost variable serves the properties: overlapped remembers the        *)
(* subjects that submitted while an earlier submission or analysis of      *)
(* theirs was still running.                                               *)
(***************************************************************************)
EXTENDS Integers, FiniteSets

CONSTANTS
    Quotes,     \* quote identifiers (UUIDs)
    Keys,       \* (subject, idempotency key) pairs
    Requests,   \* normalised request bodies
    Subjects,   \* authenticated subjects
    OwnerOf,    \* the subject of a key
    Nil,        \* no value
    Slots,      \* analysis permits
    Outcomes,   \* how an analysis may end: without a Gemini client, failed
    MaxDrops    \* bound on the handlers dropped in a behaviour

ASSUME MemoryAssumption ==
    /\ OwnerOf \in [Keys -> Subjects]
    /\ Outcomes \subseteq {"completed", "failed"} /\ Outcomes # {}
    /\ MaxDrops \in Nat
    /\ Nil \notin Quotes \cup Requests \cup Subjects \cup Keys

VARIABLES
    quotes,     \* status of a stored record, "absent" if there is none
    owner,      \* owner_subject of a stored record
    idem,       \* the idempotency map
    pc,         \* where a slot is
    job,        \* what a slot works on
    replies,    \* quotes that 202 responses named, by key of the submission
    drops,      \* handlers dropped so far
    overlapped  \* ghost: subjects with overlapping submissions

memoryVars == <<quotes, owner, idem, pc, job, replies, drops, overlapped>>

Status == {"queued", "analyzing", "completed", "failed"}

NoOp == [kind |-> "none", quote |-> Nil, request |-> Nil]

Op == [kind: {"create"}, quote: Quotes, request: Requests]
        \cup [kind: {"retry"}, quote: Quotes, request: {Nil}]

(* view is the status of the slot's own copy of the record. *)
Job == [key: Keys, kind: {"create", "retry"}, quote: Quotes \cup {Nil},
        request: Requests \cup {Nil}, view: Status \cup {"absent"}]

NoJob == [key |-> Nil, kind |-> "none", quote |-> Nil, request |-> Nil,
          view |-> "absent"]

(*   unseen     the key was not in the idempotency map                     *)
(*   found      retry only: the record was read and had failed             *)
(*   seen       the key named the same operation: its record is to be read *)
(*   storing    the operation is in the map, its record is to be written   *)
(*   restoring  a replay's record is to be written                         *)
HandlerPCs == {"unseen", "found", "seen", "storing", "restoring"}

WorkerPCs == {"spawned", "marked"}

PCs == {"idle"} \cup HandlerPCs \cup WorkerPCs

MemoryInit ==
    /\ quotes = [q \in Quotes |-> "absent"]
    /\ owner = [q \in Quotes |-> Nil]
    /\ idem = [k \in Keys |-> NoOp]
    /\ pc = [s \in Slots |-> "idle"]
    /\ job = [s \in Slots |-> NoJob]
    /\ replies = [k \in Keys |-> {}]
    /\ drops = 0
    /\ overlapped = {}

-----------------------------------------------------------------------------
Goto(s, l) == pc' = [pc EXCEPT ![s] = l]

Release(s) ==
    /\ Goto(s, "idle")
    /\ job' = [job EXCEPT ![s] = NoJob]

(* The map's entry for the key is replaced, whatever it was. *)
Insert(k, op) == idem' = [idem EXCEPT ![k] = op]

(* The record is stored under its id, whatever was there. *)
Write(q, status) == quotes' = [quotes EXCEPT ![q] = status]

Reply(k, q) == replies' = [replies EXCEPT ![k] = @ \cup {q}]

(* find_quote's own check: another subject's quote is not found. *)
Readable(q, k) == quotes[q] # "absent" /\ owner[q] = OwnerOf[k]

(* No id is drawn twice: neither map and no handler names it. *)
Fresh(q) ==
    /\ quotes[q] = "absent"
    /\ \A k \in Keys : idem[k].quote # q
    /\ \A s \in Slots : pc[s] \in {"seen", "storing"} => job[s].quote # q

-----------------------------------------------------------------------------
(* Handlers *)

(* The stored operation is the one now asked for. *)
Matches(op, j) ==
    /\ op.kind = j.kind
    /\ j.kind = "create" => op.request = j.request
    /\ j.kind = "retry" => op.quote = j.quote

(* A submission takes a permit, reads the idempotency map and releases its *)
(* lock: the key is unused, or names the same operation ...                *)
Admit(s, j) ==
    LET op == idem[j.key] IN
    /\ pc[s] = "idle"
    /\ \/ /\ op.kind = "none"
          /\ Goto(s, "unseen")
          /\ job' = [job EXCEPT ![s] = j]
       \/ /\ op.kind # "none"
          /\ Matches(op, j)
          /\ Goto(s, "seen")
          /\ job' = [job EXCEPT ![s] = [j EXCEPT !.quote = op.quote]]
    /\ overlapped' =
          IF \E t \in Slots : pc[t] # "idle" /\ OwnerOf[job[t].key] = OwnerOf[j.key]
          THEN overlapped \cup {OwnerOf[j.key]}
          ELSE overlapped
    /\ UNCHANGED <<quotes, owner, idem, replies, drops>>

(* ... or another one, 409: the permit goes back at once. *)
RejectReuse(s, j) ==
    /\ pc[s] = "idle"
    /\ idem[j.key].kind # "none"
    /\ ~Matches(idem[j.key], j)
    /\ UNCHANGED memoryVars

CreateJob(k, r) == [NoJob EXCEPT !.key = k, !.kind = "create", !.request = r]

RetryJob(k, q) == [NoJob EXCEPT !.key = k, !.kind = "retry", !.quote = q]

(* Bound: ids do not run out, so every admitted create must find one. *)
IdsLeft ==
    Cardinality({q \in Quotes : Fresh(q)}) >
        Cardinality({s \in Slots : pc[s] = "unseen" /\ job[s].kind = "create"})

(* Mutant: the operation is not remembered. *)
InsertCreateForgetful(s, q) ==
    /\ pc[s] = "unseen"
    /\ job[s].kind = "create"
    /\ Fresh(q)
    /\ job' = [job EXCEPT ![s].quote = q, ![s].view = "queued"]
    /\ Goto(s, "storing")
    /\ UNCHANGED <<quotes, owner, idem, replies, drops, overlapped>>

(* The new record takes its id, and the operation is written. *)
InsertCreate(s, q) ==
    /\ pc[s] = "unseen"
    /\ job[s].kind = "create"
    /\ Fresh(q)
    /\ Insert(job[s].key, [kind |-> "create", quote |-> q, request |-> job[s].request])
    /\ job' = [job EXCEPT ![s].quote = q, ![s].view = "queued"]
    /\ Goto(s, "storing")
    /\ UNCHANGED <<quotes, owner, replies, drops, overlapped>>

(* Mutant: the copy's status is not looked at. *)
FindFailedOrNot(s) ==
    LET q == job[s].quote IN
    /\ pc[s] = "unseen"
    /\ job[s].kind = "retry"
    /\ Readable(q, job[s].key)
    /\ Goto(s, "found")
    /\ UNCHANGED <<quotes, owner, idem, job, replies, drops, overlapped>>

(* The retry copies the record: not found, not failed, or it goes on. *)
FindFailed(s) ==
    LET q == job[s].quote IN
    /\ pc[s] = "unseen"
    /\ job[s].kind = "retry"
    /\ IF Readable(q, job[s].key) /\ quotes[q] = "failed"
       THEN Goto(s, "found") /\ UNCHANGED job
       ELSE Release(s)
    /\ UNCHANGED <<quotes, owner, idem, replies, drops, overlapped>>

InsertRetry(s) ==
    /\ pc[s] = "found"
    /\ Insert(job[s].key, [kind |-> "retry", quote |-> job[s].quote, request |-> Nil])
    /\ job' = [job EXCEPT ![s].view = "queued"]
    /\ Goto(s, "storing")
    /\ UNCHANGED <<quotes, owner, replies, drops, overlapped>>

(* A replay copies the record of the operation it found: if there is none, *)
(* create answers 503 and retry 404.  Only retry goes through find_quote;  *)
(* the owner of a create's record is its key's subject.                    *)
ReadRecord(s) ==
    LET q == job[s].quote IN
    /\ pc[s] = "seen"
    /\ IF job[s].kind = "retry" THEN Readable(q, job[s].key) ELSE quotes[q] # "absent"
    /\ job' = [job EXCEPT ![s].view = quotes[q]]
    /\ Goto(s, "restoring")
    /\ UNCHANGED <<quotes, owner, idem, replies, drops, overlapped>>

MissRecord(s) ==
    LET q == job[s].quote IN
    /\ pc[s] = "seen"
    /\ ~(IF job[s].kind = "retry" THEN Readable(q, job[s].key) ELSE quotes[q] # "absent")
    /\ Release(s)
    /\ UNCHANGED <<quotes, owner, idem, replies, drops, overlapped>>

(* Mutants: the record is not written, or no worker is spawned. *)
StoreNothing(s) ==
    LET j == job[s] IN
    /\ pc[s] = "storing"
    /\ Reply(j.key, j.quote)
    /\ Goto(s, "spawned")
    /\ UNCHANGED <<quotes, owner, idem, job, drops, overlapped>>

StoreWithoutWorker(s) ==
    LET j == job[s] IN
    /\ pc[s] = "storing"
    /\ Write(j.quote, j.view)
    /\ owner' = [owner EXCEPT ![j.quote] = OwnerOf[j.key]]
    /\ Reply(j.key, j.quote)
    /\ Release(s)
    /\ UNCHANGED <<idem, drops, overlapped>>

(* The record is written, its event published, the worker spawned and 202  *)
(* returned, without an await in between.                                  *)
Store(s) ==
    LET j == job[s] IN
    /\ pc[s] = "storing"
    /\ Write(j.quote, j.view)
    /\ owner' = [owner EXCEPT ![j.quote] = OwnerOf[j.key]]
    /\ Reply(j.key, j.quote)
    /\ Goto(s, "spawned")
    /\ UNCHANGED <<idem, job, drops, overlapped>>

(* A replay writes its copy too; there is no worker to spawn. *)
Restore(s) ==
    LET j == job[s] IN
    /\ pc[s] = "restoring"
    /\ Write(j.quote, j.view)
    /\ Reply(j.key, j.quote)
    /\ Release(s)
    /\ UNCHANGED <<owner, idem, drops, overlapped>>

(* The request's deadline or its client's disconnection drops the handler  *)
(* while it waits for a lock.                                              *)
DropHandler(s) ==
    /\ pc[s] \in HandlerPCs
    /\ drops < MaxDrops
    /\ drops' = drops + 1
    /\ Release(s)
    /\ UNCHANGED <<quotes, owner, idem, replies, overlapped>>

-----------------------------------------------------------------------------
(* Workers *)

MarkAnalyzing(s) ==
    /\ pc[s] = "spawned"
    /\ Write(job[s].quote, "analyzing")
    /\ Goto(s, "marked")
    /\ UNCHANGED <<owner, idem, job, replies, drops, overlapped>>

(* Gemini's answer, or its absence, decides the final status. *)
Settle(s) ==
    /\ pc[s] = "marked"
    /\ \E final \in Outcomes : Write(job[s].quote, final)
    /\ Release(s)
    /\ UNCHANGED <<owner, idem, replies, drops, overlapped>>

-----------------------------------------------------------------------------
Submit(s) ==
    \/ \E k \in Keys, r \in Requests : IdsLeft /\ Admit(s, CreateJob(k, r))
    \/ \E k \in Keys, q \in Quotes : Admit(s, RetryJob(k, q))
    \/ \E k \in Keys, r \in Requests : RejectReuse(s, CreateJob(k, r))
    \/ \E k \in Keys, q \in Quotes : RejectReuse(s, RetryJob(k, q))

Handle(s) ==
    \/ \E q \in Quotes : InsertCreate(s, q)
    \/ FindFailed(s) \/ InsertRetry(s)
    \/ ReadRecord(s) \/ MissRecord(s)
    \/ Store(s) \/ Restore(s)

Work(s) == MarkAnalyzing(s) \/ Settle(s)

MemoryNext == \E s \in Slots : Submit(s) \/ Handle(s) \/ Work(s) \/ DropHandler(s)

MemorySpec == MemoryInit /\ [][MemoryNext]_memoryVars

-----------------------------------------------------------------------------
(* Properties *)

(* The maps and what handlers hold between their guards keep their types. *)
MemoryTypeOK ==
    /\ quotes \in [Quotes -> Status \cup {"absent"}]
    /\ owner \in [Quotes -> Subjects \cup {Nil}]
    /\ idem \in [Keys -> Op \cup {NoOp}]
    /\ pc \in [Slots -> PCs]
    /\ job \in [Slots -> Job \cup {NoJob}]
    /\ replies \in [Keys -> SUBSET Quotes]
    /\ drops \in 0..MaxDrops
    /\ overlapped \subseteq Subjects

(* All 202 responses to one idempotency key name one quote, for a subject  *)
(* that waits for each analysis to end before it submits again.            *)
SerialRepliesAgree ==
    \A k \in Keys : OwnerOf[k] \notin overlapped =>
        \A p, q \in replies[k] : p = q

InFlight(q) == quotes[q] \in {"queued", "analyzing"}

Transitions == {<<"absent", "queued">>, <<"queued", "analyzing">>,
                <<"analyzing", "completed">>, <<"analyzing", "failed">>,
                <<"failed", "queued">>}

(* A stored record moves along the documented transitions only, for such a *)
(* subject.                                                                *)
SerialTransitions ==
    [][\A q \in Quotes :
          quotes'[q] # quotes[q] /\ owner'[q] \notin overlapped' =>
             <<quotes[q], quotes'[q]>> \in Transitions]_memoryVars

(* A key's replays fail for ever only if the handler that inserted it was  *)
(* dropped: otherwise its record is stored or about to be.                 *)
DanglingKeysNeedDrop ==
    drops = 0 =>
        \A k \in Keys : idem[k].kind # "none" =>
            \/ quotes[idem[k].quote] # "absent"
            \/ \E s \in Slots : pc[s] = "storing" /\ job[s].quote = idem[k].quote

(* A stored quote in flight has a worker that will settle it, for such a   *)
(* subject: record and worker appear together, so that a dropped handler   *)
(* orphans nothing, and no stale copy brings a settled record back.        *)
SerialQuotesDriven ==
    \A q \in Quotes : InFlight(q) /\ owner[q] \notin overlapped =>
        \E s \in Slots : pc[s] \in WorkerPCs /\ job[s].quote = q
=============================================================================
