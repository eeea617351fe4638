--------------------------- MODULE QuoteLifecycle ---------------------------
(***************************************************************************)
(* The PostgreSQL-backed quote service: the create and retry handlers of   *)
(* src/src/lib.rs, the transactions of src/src/persistence.rs they run,    *)
(* and the analysis worker a handler spawns.  Several replicas share the   *)
(* database.                                                               *)
(*                                                                         *)
(* A slot is one permit of a replica's analysis semaphore.  A handler      *)
(* takes the permit before its first write and hands it to the worker it   *)
(* spawns, so one slot follows a submission from admission to the end of   *)
(* its analysis, and a submission that finds no idle slot is refused.      *)
(*                                                                         *)
(* Every await is a point where other slots may run.  What can go wrong at *)
(* one is a fault: the database aborts the transaction, the commit takes   *)
(* effect but its acknowledgement is lost, the request's deadline or its   *)
(* client's disconnection drops the handler, or the replica stops.         *)
(***************************************************************************)
EXTENDS Integers, Sequences, FiniteSets

CONSTANTS
    Quotes,     \* quote identifiers (UUIDs)
    Keys,       \* (owner_subject, idempotency_key) pairs
    Requests,   \* normalised request bodies
    Subjects,   \* authenticated subjects, the tenants
    OwnerOf,    \* the subject of a key
    Nil,        \* stands for SQL NULL
    Replicas,   \* processes serving the API
    Slots,      \* analysis permits, of all replicas
    Home,       \* the replica a slot belongs to
    Configured, \* the replicas that have a Gemini client
    MaxFaults   \* bound on the faults of a behaviour

ASSUME LifecycleAssumption ==
    /\ OwnerOf \in [Keys -> Subjects]
    /\ Home \in [Slots -> Replicas]
    /\ Configured \subseteq Replicas
    /\ MaxFaults \in Nat
    /\ Nil \notin Quotes \cup Requests \cup Subjects \cup Keys

VARIABLES
    status,     \* canonical_quote.status, "absent" before the row exists
    owner,      \* canonical_quote.owner_subject
    ops,        \* canonical_quote_operation, by primary key
    log,        \* canonical_quote_event of a quote, by sequence_id
    attempts,   \* canonical_model_attempt of a quote, by insertion
    pc,         \* where a slot is
    job,        \* what a slot works on
    published,  \* positions in log sent to subscribers and webhooks
    replies,    \* quotes that 202 responses named, by key of the submission
    faults      \* faults so far

dbVars == <<status, owner, ops, log, attempts>>
vars == <<status, owner, ops, log, attempts, pc, job, published, replies, faults>>

(* The mapping to the contract: its variables are columns of the tables. *)
Contract == INSTANCE QuoteContract WITH status <- status, owner <- owner, ops <- ops

-----------------------------------------------------------------------------
(* State *)

Status == {"queued", "analyzing", "completed", "failed"}

AttemptStatus == {"started", "completed", "failed"}

NoOp == [kind |-> "none", quote |-> Nil, request |-> Nil]

Op == [kind: {"create"}, quote: Quotes, request: Requests]
        \cup [kind: {"retry"}, quote: Quotes, request: {Nil}]

(* A create handler's job names a quote only once its insert is done. *)
Job == [key: Keys, kind: {"create", "retry"}, quote: Quotes \cup {Nil},
        request: Requests \cup {Nil}, event: Nat, attempt: Nat,
        outcome: {"none", "completed", "failed"}]

NoJob == [key |-> Nil, kind |-> "none", quote |-> Nil, request |-> Nil,
          event |-> 0, attempt |-> 0, outcome |-> "none"]

(* The handler, from admission to its response ...                         *)
(*   accepted   permit and quota granted, no transaction yet               *)
(*   keyed      transaction open, idempotency lock held, key unused        *)
(*   rowed      retry only: the quote's row is locked and failed           *)
(*   committed  transaction committed, worker not spawned                  *)
HandlerPCs == {"accepted", "keyed", "rowed", "committed"}

(* ... and the worker it spawns.                                           *)
(*   spawned    the analyzing update is due                                *)
(*   marked     analyzing is committed, not published                      *)
(*   announced  analyzing is published, the model attempt is due           *)
(*   prompted   the provider's answer is due                               *)
(*   answered   the final update is due                                    *)
(*   settled    the final status is committed, not published               *)
(*   closing    the model attempt's completion is due                      *)
WorkerPCs == {"spawned", "marked", "announced", "prompted", "answered",
              "settled", "closing"}

PCs == {"idle"} \cup HandlerPCs \cup WorkerPCs

Init ==
    /\ status = [q \in Quotes |-> "absent"]
    /\ owner = [q \in Quotes |-> Nil]
    /\ ops = [k \in Keys |-> NoOp]
    /\ log = [q \in Quotes |-> <<>>]
    /\ attempts = [q \in Quotes |-> <<>>]
    /\ pc = [s \in Slots |-> "idle"]
    /\ job = [s \in Slots |-> NoJob]
    /\ published = [q \in Quotes |-> {}]
    /\ replies = [k \in Keys |-> {}]
    /\ faults = 0

-----------------------------------------------------------------------------
(* Locks.  Both live until the transaction ends. *)

(* Mutant: the transaction takes no row lock. *)
RowFreeUnlocked(q) == TRUE

(* Mutant: the transaction takes no advisory lock. *)
KeyFreeUnlocked(k) == TRUE

(* pg_advisory_xact_lock on the owner's key. *)
KeyFree(k) == \A t \in Slots : pc[t] \in {"keyed", "rowed"} => job[t].key # k

(* SELECT ... FOR UPDATE on the quote's row. *)
RowFree(q) == \A t \in Slots : pc[t] = "rowed" => job[t].quote # q

-----------------------------------------------------------------------------
(* How a step ends *)

Goto(s, l) == pc' = [pc EXCEPT ![s] = l]

(* The handler returns or the worker ends: the permit is released. *)
Release(s) ==
    /\ Goto(s, "idle")
    /\ job' = [job EXCEPT ![s] = NoJob]

Fault ==
    /\ faults < MaxFaults
    /\ faults' = faults + 1

NoFault == UNCHANGED faults

(* The transaction's caller learns of the commit and goes on at l ... *)
Acked(s, l, j) ==
    /\ Goto(s, l)
    /\ job' = [job EXCEPT ![s] = j]
    /\ NoFault

(* ... or it took effect, and the caller sees an error and gives up. *)
Unacked(s) == Release(s) /\ Fault

(* UPDATE canonical_quote and insert_event, in one transaction. *)
Record(q, new) ==
    /\ status' = [status EXCEPT ![q] = new]
    /\ log' = [log EXCEPT ![q] = Append(@, new)]

(* Mutant: the event is dropped. *)
PublishNothing(s) == UNCHANGED published

Publish(s) ==
    published' = [published EXCEPT ![job[s].quote] = @ \cup {job[s].event}]

Reply(k, q) == replies' = [replies EXCEPT ![k] = @ \cup {q}]

-----------------------------------------------------------------------------
(* Handlers *)

(* A submission is authenticated, parsed, granted a permit and counted     *)
(* against the rate window.                                                *)
AcceptCreate(s, k, r) ==
    /\ pc[s] = "idle"
    /\ Goto(s, "accepted")
    /\ job' = [job EXCEPT ![s] =
                 [NoJob EXCEPT !.key = k, !.kind = "create", !.request = r]]
    /\ UNCHANGED <<dbVars, published, replies, faults>>

AcceptRetry(s, k, q) ==
    /\ pc[s] = "idle"
    /\ Goto(s, "accepted")
    /\ job' = [job EXCEPT ![s] =
                 [NoJob EXCEPT !.key = k, !.kind = "retry", !.quote = q]]
    /\ UNCHANGED <<dbVars, published, replies, faults>>

(* The stored operation is the one now asked for. *)
Matches(o, j) ==
    /\ o.kind = j.kind
    /\ j.kind = "create" => o.request = j.request
    /\ j.kind = "retry" => o.quote = j.quote

(* The handler holds the key's lock and reads the operation stored under   *)
(* it: another operation or payload, 409 ...                               *)
RejectReuse(s) ==
    LET o == ops[job[s].key] IN
    /\ pc[s] = "accepted"
    /\ KeyFree(job[s].key)
    /\ o.kind # "none"
    /\ ~Matches(o, job[s])
    /\ Release(s)
    /\ UNCHANGED <<dbVars, published, replies, faults>>

(* ... the same one, 202 with the quote it created or requeued and no      *)
(* second analysis ...                                                     *)
Replay(s) ==
    LET o == ops[job[s].key] IN
    /\ pc[s] = "accepted"
    /\ KeyFree(job[s].key)
    /\ o.kind # "none"
    /\ Matches(o, job[s])
    /\ Reply(job[s].key, o.quote)
    /\ Release(s)
    /\ UNCHANGED <<dbVars, published, faults>>

(* ... or none: the transaction goes on. *)
LockKey(s) ==
    /\ pc[s] = "accepted"
    /\ KeyFree(job[s].key)
    /\ ops[job[s].key].kind = "none"
    /\ Goto(s, "keyed")
    /\ UNCHANGED <<dbVars, job, published, replies, faults>>

(* The insert of quote, operation and event, with the id drawn for it.  A  *)
(* key already present would violate the operation table's primary key.    *)
CommitCreate(s, q) ==
    LET j == job[s] IN
    /\ pc[s] = "keyed"
    /\ j.kind = "create"
    /\ status[q] = "absent"
    /\ ops[j.key].kind = "none"
    /\ Record(q, "queued")
    /\ owner' = [owner EXCEPT ![q] = OwnerOf[j.key]]
    /\ ops' = [ops EXCEPT ![j.key] =
                 [kind |-> "create", quote |-> q, request |-> j.request]]
    /\ \/ Acked(s, "committed", [j EXCEPT !.quote = q, !.event = Len(log'[q])])
       \/ Unacked(s)
    /\ UNCHANGED <<attempts, published, replies>>

(* The owner has no active context, 503: rolled back. *)
RejectContext(s) ==
    /\ pc[s] = "keyed"
    /\ job[s].kind = "create"
    /\ Release(s)
    /\ UNCHANGED <<dbVars, published, replies, faults>>

(* Mutant: the lookup has no owner predicate. *)
LockRowOfAnyone(s) ==
    LET q == job[s].quote IN
    /\ pc[s] = "keyed"
    /\ job[s].kind = "retry"
    /\ RowFree(q)
    /\ status[q] = "failed"
    /\ Goto(s, "rowed")
    /\ UNCHANGED <<dbVars, job, published, replies, faults>>

(* Mutant: any quote that is not completed can be retried. *)
LockRowUnlessCompleted(s) ==
    LET q == job[s].quote IN
    /\ pc[s] = "keyed"
    /\ job[s].kind = "retry"
    /\ owner[q] = OwnerOf[job[s].key]
    /\ RowFree(q)
    /\ status[q] # "completed"
    /\ Goto(s, "rowed")
    /\ UNCHANGED <<dbVars, job, published, replies, faults>>

(* The row lock and the checks under it. *)
LockRow(s) ==
    LET q == job[s].quote IN
    /\ pc[s] = "keyed"
    /\ job[s].kind = "retry"
    /\ owner[q] = OwnerOf[job[s].key]
    /\ RowFree(q)
    /\ status[q] = "failed"
    /\ Goto(s, "rowed")
    /\ UNCHANGED <<dbVars, job, published, replies, faults>>

(* Mutant: a quote that has not failed gets no answer. *)
RejectRetryOfOthersOnly(s) ==
    /\ pc[s] = "keyed"
    /\ job[s].kind = "retry"
    /\ owner[job[s].quote] # OwnerOf[job[s].key]
    /\ Release(s)
    /\ UNCHANGED <<dbVars, published, replies, faults>>

(* No such row of this owner, 404, or one that has not failed, 409. *)
RejectRetry(s) ==
    LET q == job[s].quote IN
    /\ pc[s] = "keyed"
    /\ job[s].kind = "retry"
    /\ \/ owner[q] # OwnerOf[job[s].key]
       \/ RowFree(q) /\ status[q] # "failed"
    /\ Release(s)
    /\ UNCHANGED <<dbVars, published, replies, faults>>

CommitRetry(s) ==
    LET j == job[s] IN
    /\ pc[s] = "rowed"
    /\ ops[j.key].kind = "none"
    /\ Record(j.quote, "queued")
    /\ ops' = [ops EXCEPT ![j.key] =
                 [kind |-> "retry", quote |-> j.quote, request |-> Nil]]
    /\ \/ Acked(s, "committed", [j EXCEPT !.event = Len(log'[j.quote])])
       \/ Unacked(s)
    /\ UNCHANGED <<owner, attempts, published, replies>>

(* The database fails before the commit, 503: rolled back. *)
AbortTransaction(s) ==
    /\ pc[s] \in {"accepted", "keyed", "rowed"}
    /\ Release(s)
    /\ Fault
    /\ UNCHANGED <<dbVars, published, replies>>

(* Mutant: no worker is spawned. *)
SpawnNothing(s) ==
    /\ pc[s] = "committed"
    /\ Publish(s)
    /\ Reply(job[s].key, job[s].quote)
    /\ Release(s)
    /\ UNCHANGED <<dbVars, faults>>

(* The record is cached, the event published and the worker spawned with   *)
(* the permit, with no await between the last two; the response follows.   *)
Spawn(s) ==
    /\ pc[s] = "committed"
    /\ Publish(s)
    /\ Reply(job[s].key, job[s].quote)
    /\ Goto(s, "spawned")
    /\ UNCHANGED <<dbVars, job, faults>>

(* The request's deadline passes or its client goes away: the handler is   *)
(* dropped at its await, and with it an open transaction.                  *)
DropHandler(s) ==
    /\ pc[s] \in HandlerPCs
    /\ Release(s)
    /\ Fault
    /\ UNCHANGED <<dbVars, published, replies>>

-----------------------------------------------------------------------------
(* Workers *)

(* update_quote is an unconditional UPDATE: it waits for the row's lock    *)
(* but looks at no status.                                                 *)
MarkAnalyzing(s) ==
    LET j == job[s] IN
    /\ pc[s] = "spawned"
    /\ RowFree(j.quote)
    /\ Record(j.quote, "analyzing")
    /\ \/ Acked(s, "marked", [j EXCEPT !.event = Len(log'[j.quote])])
       \/ Unacked(s)
    /\ UNCHANGED <<owner, ops, attempts, published, replies>>

(* The worker returns when that update fails. *)
FailMark(s) ==
    /\ pc[s] = "spawned"
    /\ Release(s)
    /\ Fault
    /\ UNCHANGED <<dbVars, published, replies>>

Announce(s) ==
    /\ pc[s] = "marked"
    /\ Publish(s)
    /\ Goto(s, "announced")
    /\ UNCHANGED <<dbVars, job, replies, faults>>

(* Mutant: without a client the worker waits. *)
NoProviderWaits(s) ==
    /\ pc[s] = "announced"
    /\ Home[s] \notin Configured
    /\ UNCHANGED vars

(* No Gemini client on this replica: failed, without an attempt. *)
NoProvider(s) ==
    /\ pc[s] = "announced"
    /\ Home[s] \notin Configured
    /\ Goto(s, "answered")
    /\ job' = [job EXCEPT ![s].outcome = "failed"]
    /\ UNCHANGED <<dbVars, published, replies, faults>>

(* start_model_attempt; the worker goes on whether or not it is recorded. *)
StartAttempt(s) ==
    LET q == job[s].quote IN
    /\ pc[s] = "announced"
    /\ Home[s] \in Configured
    /\ Goto(s, "prompted")
    /\ \/ /\ attempts' = [attempts EXCEPT ![q] = Append(@, "started")]
          /\ \/ /\ job' = [job EXCEPT ![s].attempt = Len(attempts'[q])]
                /\ NoFault
             \/ UNCHANGED job /\ Fault
       \/ UNCHANGED <<attempts, job>> /\ Fault
    /\ UNCHANGED <<status, owner, ops, log, published, replies>>

(* The provider returns an analysis or an error code. *)
Analyze(s) ==
    /\ pc[s] = "prompted"
    /\ \E result \in {"completed", "failed"} :
          job' = [job EXCEPT ![s].outcome = result]
    /\ Goto(s, "answered")
    /\ UNCHANGED <<dbVars, published, replies, faults>>

(* The final update.  Its result is ignored: after an error the worker     *)
(* publishes nothing and goes on to close the attempt.                     *)
Settle(s) ==
    LET j == job[s] IN
    /\ pc[s] = "answered"
    /\ RowFree(j.quote)
    /\ Record(j.quote, j.outcome)
    /\ \/ Acked(s, "settled", [j EXCEPT !.event = Len(log'[j.quote])])
       \/ Goto(s, "closing") /\ UNCHANGED job /\ Fault
    /\ UNCHANGED <<owner, ops, attempts, published, replies>>

FailSettle(s) ==
    /\ pc[s] = "answered"
    /\ Goto(s, "closing")
    /\ Fault
    /\ UNCHANGED <<dbVars, job, published, replies>>

PublishFinal(s) ==
    /\ pc[s] = "settled"
    /\ Publish(s)
    /\ Goto(s, "closing")
    /\ UNCHANGED <<dbVars, job, replies, faults>>

(* Mutant: every attempt is closed as completed. *)
CloseAttemptAsCompleted(s) ==
    LET j == job[s] IN
    /\ pc[s] = "closing"
    /\ attempts' = IF j.attempt # 0
                   THEN [attempts EXCEPT ![j.quote][j.attempt] = "completed"]
                   ELSE attempts
    /\ Release(s)
    /\ UNCHANGED <<status, owner, ops, log, published, replies, faults>>

(* finish_model_attempt updates the attempt only WHERE status = 'started'; *)
(* the worker then ends, whatever the result.                              *)
CloseAttempt(s) ==
    LET j == job[s]
        open == j.attempt # 0 /\ attempts[j.quote][j.attempt] = "started"
    IN
    /\ pc[s] = "closing"
    /\ \/ /\ attempts' = IF open
                         THEN [attempts EXCEPT ![j.quote][j.attempt] = j.outcome]
                         ELSE attempts
          /\ NoFault
       \/ j.attempt # 0 /\ UNCHANGED attempts /\ Fault
    /\ Release(s)
    /\ UNCHANGED <<status, owner, ops, log, published, replies>>

-----------------------------------------------------------------------------
(* A replica stops: its handlers and workers vanish where they are. *)
Crash(r) ==
    /\ \E s \in Slots : Home[s] = r /\ pc[s] # "idle"
    /\ pc' = [s \in Slots |-> IF Home[s] = r THEN "idle" ELSE pc[s]]
    /\ job' = [s \in Slots |-> IF Home[s] = r THEN NoJob ELSE job[s]]
    /\ Fault
    /\ UNCHANGED <<dbVars, published, replies>>

-----------------------------------------------------------------------------
Submit(s) ==
    \/ \E k \in Keys, r \in Requests : AcceptCreate(s, k, r)
    \/ \E k \in Keys, q \in Quotes : AcceptRetry(s, k, q)

Handle(s) ==
    \/ RejectReuse(s) \/ Replay(s) \/ LockKey(s)
    \/ \E q \in Quotes : CommitCreate(s, q)
    \/ RejectContext(s)
    \/ LockRow(s) \/ RejectRetry(s) \/ CommitRetry(s)
    \/ Spawn(s)

Work(s) ==
    \/ MarkAnalyzing(s) \/ Announce(s) \/ NoProvider(s) \/ StartAttempt(s)
    \/ Analyze(s) \/ Settle(s) \/ PublishFinal(s) \/ CloseAttempt(s)

Fail(s) ==
    AbortTransaction(s) \/ DropHandler(s) \/ FailMark(s) \/ FailSettle(s)

Next ==
    \/ \E s \in Slots : Submit(s) \/ Handle(s) \/ Work(s) \/ Fail(s)
    \/ \E r \in Replicas : Crash(r)

Spec == Init /\ [][Next]_vars

(* Tokio keeps polling a task whose await is ready, and PostgreSQL queues  *)
(* lock waiters, so a handler or worker that can go on again and again     *)
(* does.  Nobody has to submit, and no fault has to happen.                *)
Fairness == \A s \in Slots : SF_vars(Handle(s)) /\ WF_vars(Work(s))

FairSpec == Spec /\ Fairness

-----------------------------------------------------------------------------
(* Properties *)

(* Every row, operation and handler keeps its type, the values handlers    *)
(* hold across awaits included.                                            *)
TypeOK ==
    /\ status \in [Quotes -> Status \cup {"absent"}]
    /\ owner \in [Quotes -> Subjects \cup {Nil}]
    /\ ops \in [Keys -> Op \cup {NoOp}]
    /\ log \in [Quotes -> Seq(Status)]
    /\ attempts \in [Quotes -> Seq(AttemptStatus)]
    /\ pc \in [Slots -> PCs]
    /\ job \in [Slots -> Job \cup {NoJob}]
    /\ published \in [Quotes -> SUBSET Nat]
    /\ replies \in [Keys -> SUBSET Quotes]
    /\ faults \in 0..MaxFaults

(* Slot s is the one that will next change the status of quote q. *)
Drives(s, q) ==
    /\ pc[s] \in {"committed", "spawned", "marked", "announced", "prompted",
                  "answered"}
    /\ job[s].quote = q

InFlight(q) == status[q] \in {"queued", "analyzing"}

(* In flight for ever: nobody drives it, and retry refuses it. *)
Orphan(q) == InFlight(q) /\ ~\E s \in Slots : Drives(s, q)

(* update_quote looks at no status before it overwrites one, so two runs   *)
(* of the same quote would overwrite each other.  Create's fresh id and    *)
(* retry's row lock keep every quote to one run, on all replicas together. *)
OneDriver ==
    \A q \in Quotes : \A s, t \in Slots :
        Drives(s, q) /\ Drives(t, q) => s = t

(* The advisory lock makes find_operation's answer stay true until commit: *)
(* no submission, on any replica, runs into the operation table's primary  *)
(* key, which would answer a first submission 503.                         *)
NoKeyCollision ==
    \A s \in Slots :
        pc[s] \in {"keyed", "rowed"} => ops[job[s].key].kind = "none"

(* The event table is the quote's status history: its last row is the      *)
(* current status, and consecutive rows are transitions of the documented  *)
(* state machine.                                                          *)
LegalHistory ==
    \A q \in Quotes :
        /\ status[q] = (IF log[q] = <<>> THEN "absent" ELSE log[q][Len(log[q])])
        /\ \A i \in 1..Len(log[q]) - 1 :
              <<log[q][i], log[q][i+1]>> \in
                 {<<"queued", "analyzing">>, <<"analyzing", "completed">>,
                  <<"analyzing", "failed">>, <<"failed", "queued">>}

(* Every accepted operation queues its quote exactly once, and no other    *)
(* thing does: a replay starts no second analysis.                         *)
OneRunPerOperation ==
    \A q \in Quotes :
        Cardinality({i \in 1..Len(log[q]) : log[q][i] = "queued"})
          = Cardinality({k \in Keys : ops[k].quote = q})

(* All 202 responses to one owner's idempotency key name one quote, which  *)
(* belongs to that owner.                                                  *)
RepliesAgree ==
    \A k \in Keys : \A q \in replies[k] :
        q = ops[k].quote /\ owner[q] = OwnerOf[k]

(* A quote is left in flight with nobody working on it only after a fault. *)
OrphansNeedFault == faults = 0 => \A q \in Quotes : ~Orphan(q)

(* Once orphaned a quote keeps its status: neither a replay of its key,    *)
(* nor a retry, nor any surviving task can revive it.                      *)
OrphansAreInert ==
    [][\A q \in Quotes : Orphan(q) => status'[q] = status[q]]_vars

(* A model attempt recorded as completed is the quote's last one, and the  *)
(* quote is completed, or stuck in analyzing because the update that       *)
(* should have said so failed; it is never requeued or failed.             *)
CompletedAttemptIsFinal ==
    \A q \in Quotes : \A i \in 1..Len(attempts[q]) :
        attempts[q][i] = "completed" =>
            /\ i = Len(attempts[q])
            /\ status[q] = "completed" \/ (status[q] = "analyzing" /\ Orphan(q))

(* Subscribers and webhooks are told committed events only, and of every   *)
(* one of them unless a fault intervenes: what is not yet published is     *)
(* what some slot is about to publish.                                     *)
PublishedEvents ==
    \A q \in Quotes :
        /\ published[q] \subseteq 1..Len(log[q])
        /\ faults = 0 =>
              \A i \in 1..Len(log[q]) \ published[q] : \E s \in Slots :
                 /\ pc[s] \in {"committed", "marked", "settled"}
                 /\ job[s].quote = q
                 /\ job[s].event = i

(* The service implements its contract: create and requeue are atomic and  *)
(* idempotent, and a quote moves along the documented transitions only.    *)
ImplementsContract == Contract!ContractSpec

(* A quote in flight reaches completed or failed, unless it is orphaned. *)
InFlightResolves ==
    \A q \in Quotes : InFlight(q) ~> (~InFlight(q) \/ Orphan(q))

(* Every admitted submission gets its answer: waiting for an idempotency   *)
(* or row lock never lasts for ever.                                       *)
SubmissionsAnswered ==
    \A s \in Slots : pc[s] \in HandlerPCs ~> pc[s] \notin HandlerPCs
=============================================================================
