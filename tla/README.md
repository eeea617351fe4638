# Verification of the Canonical API server

TLA+ models of the stateful parts of the Canonical API server (`src/`), the TLC
runs that check them on small instances, and TLAPS proofs of their main
properties for every instance. `PROJECT.json` names, for each definition, the
source lines it stands for, for each run what it checks, for each property the
mutation of the code that breaks it, and the hazards the properties are for.

## 1. The system

The server is one axum process per replica. With `DATABASE_URL` set, replicas
share a PostgreSQL database; without it the process keeps quotes in memory.

| Component | State | Operations | Talks to |
|---|---|---|---|
| Quote service over PostgreSQL (`lib.rs`, `persistence.rs`, `db/schema.sql`) | tables `canonical_quote`, `_quote_operation`, `_quote_event`, `_model_attempt`; per request a handler and then a worker task | create, retry, replay; the worker's update to analyzing, model attempt, final update, closing of the attempt | admission, Gemini client, event stream, webhooks |
| Memory-only quote service (`lib.rs`) | maps `quotes` and `idempotency` behind `RwLock`s | the same, guard by guard | the same, and assessments (shared map) |
| Submission admission (`QuoteAdmission`) | one queue of instants per subject and one for all, behind a mutex; a semaphore of analysis permits | `check_submission`, `reserve_analysis` | every submission |
| Readiness assessments (`lib.rs`) | bounded deque of intakes; entries of the shared idempotency map | create, replay, reject, evict, list, get | memory-only quotes, webhooks |
| Observation ingest (`readiness_observation_ingest.rs`) | append-only table `canonical_readiness_observation`; key ring | verify, find, chain, append | PostgreSQL; the sources |
| Gemini client (`gemini.rs`) | circuit breaker behind a mutex | analyze: look, attempts, report | the provider; called by workers |
| Server lifecycle (`shutdown.rs`, `main.rs`) | reducer state, deadline task, stdin watcher, axum_server handle | signals, deadline, Ctrl-D, end or failure of the server | everything: its end drops all tasks |
| Quote event stream (`lib.rs`, `contract.rs`) | broadcast channel of 256 events, one receiver per WebSocket | publish, subscribe, forward | workers and handlers |
| Webhooks (`webhook.rs`) | none; one task per event | three attempts under one id and signature | receivers |
| Telemetry (`telemetry.rs`) | guard count, logger slot | begin, end, emit, retire | the process |
| Quote reads (`lib.rs`, `persistence.rs`, `contract.rs`) | none | list by cursor, get | the tables or the map; every record passes the contract mapping |
| GRC work queue (`grc_work_queue.rs`) | none; reads ten tables another service fills | one query per request | PostgreSQL |
| Envelope and authentication (`lib.rs`) | none | header limits, deadline, tokens, scopes | drops a handler at its deadline |
| Pure or constant parts | none | frameworks, pre-interest, web data plane, GRC catalog, flags, readiness probe, RPC routes | |

What is hard here, and therefore what the models keep:

* **Handlers are cancelled.** The request's deadline (`enforce_request_envelope`)
  or a disconnect drops a handler at any await. Between a commit and the
  `tokio::spawn` of the worker that leaves a quote nobody works on. The
  repository's README says there is no recovery; the models say exactly when
  that happens and that nothing else is affected.
* **Replicas interleave** on one database, ordered only by advisory locks, row
  locks and unique constraints; commits succeed without their acknowledgement
  arriving.
* **Check, then act, in memory**: the memory-only paths release one guard before
  taking the next.
* **Clocks are read before locks are taken**, so queues are not sorted.
* **Late reports**: model calls outlast the circuit's open period.
* **Races at the end** of the server between signals, deadline, drain and failure.
* **Two reads, one message**: a stream pairs an event with a record read later,
  from a channel that is bounded and local to its replica.
* **Deliveries are tasks** that nothing orders, repeated when an answer is lost.
* **Validation at two places**: what `gemini.rs` admits, `contract.rs` must show.
* **A shared logger is retired** by whoever drops the last guard, under two locks.

What makes each part correct:

* quotes: one run drives a quote at a time; its history follows the documented
  state machine; all answers to a key name one quote of the key's owner; only a
  fault leaves a quote stuck; every admitted submission is answered;
* admission: the quotas hold of any window, the bounded map never forgets a
  quota, `Retry-After` is long enough;
* assessments: a key never points at a missing intake, no key is held twice,
  eviction touches its own key only;
* ledger: a gapless hash chain per stream, durable receipts, no conflict for a
  source that keeps order;
* circuit: opens only after a streak, and is not held open for ever by calls
  that were already out;
* shutdown: a signal ends the server, graceful means nothing was cut, forced has
  its cause;
* event stream and webhooks: a stream that has caught up shows the record as it
  is, a run is never seen to go backwards, a message does not contradict itself,
  and a receiver that keeps the highest sequence ends with the quote's status;
* contract: only an analysis with numbers or lists out of range is stored and
  cannot be shown;
* list: following the cursor shows every quote once, newest first;
* telemetry: no emission on a closed logger, no logger retired under a live
  guard, no call that waits for ever on either lock;
* work queue: what a page leaves out is counted and not more urgent than what it
  shows, and waiting never makes work less urgent.

## 2. Modules

Each component has a module; `MC…` extends it with constants for TLC and
`…Proofs` with theorems (`GrcProofs` those of Assessments and GrcWorkQueue,
`ProcessProofs` those of Shutdown and QuoteMemory). `QuoteLifecycle` instantiates `QuoteContract`;
`QuoteReads` extends `QuoteEvents`, which extends `QuoteView`.
Operators named as mutants in a comment are plausible errors in the code; no
specification uses them.

### QuoteContract, QuoteLifecycle

`QuoteContract` is the abstract specification: a key creates a quote or requeues
a failed one, atomically and once; a quote goes queued → analyzing → completed
or failed.

`QuoteLifecycle` is the implementation. The variables are the four tables
(`status`, `owner`, `ops`, `log`, `attempts`) and, per slot, `pc` and `job`. A
slot is one permit of a replica's semaphore: the code takes the permit before
the first write and moves it into the worker, so a slot follows a submission
from admission to the end of its analysis.

| Action | Code |
|---|---|
| `AcceptCreate`, `AcceptRetry` | the handlers up to the transaction (`lib.rs:629`, `742`) |
| `LockKey`, `RejectReuse`, `Replay` | advisory lock and `find_operation` in one step: the statement after the lock sees what its holder committed |
| `CommitCreate`, `RejectContext` | the rest of `create_quote`; its writes become visible together, at commit |
| `LockRow`, `RejectRetry`, `CommitRetry` | `SELECT … FOR UPDATE` of `retry_quote`, its early returns, its commit |
| `Spawn` | publish the queued event, spawn the worker, answer 202 |
| `MarkAnalyzing`, `Announce`, `NoProvider`, `StartAttempt`, `Analyze`, `Settle`, `PublishFinal`, `CloseAttempt` | `run_quote_analysis`, one action per await |
| `AbortTransaction`, `FailMark`, `FailSettle`, `DropHandler`, `Crash` | faults: a failing statement or commit (before or after it took effect), a failed update, a cancelled handler, a stopped replica |

`published` and `replies` record what the outside was told; `faults` counts
faults up to `MaxFaults`.

### QuoteMemory

The same handlers with `state.database == None`: `quotes` and `idem` are the two
maps and every guard is one action, so what a handler read under one guard may
be old under the next. `overlapped` records the subjects that submitted while
one of their analyses or submissions was running. An id is `Fresh` when neither
map and no handler names it; a handler that was given an id keeps naming it when
the key's entry is overwritten. Without overlap the service
behaves as documented; with it two documented statements fail (section 5).

### Admission

`ReadClock` takes the stamp and a separate step enters the mutex. The queues are
represented by the sequence `accepted` of all entries and the position of each
queue's head, which is what `discard_expired` moves; a subject's queue is the
subject's entries from its head on. `retry_after_seconds` is modelled with a
clock finer than a second, so that its rounding matters; `limited` keeps which
queue a call was refused by and until when the client was told to wait.

### Assessments

One action holds the map's write guard for as long as the code does. Quote
handlers are there for what they do to the shared map: `QuoteLook` and
`QuoteInsert` are two guards, and the insert overwrites. The webhook that a
recorded intake sends changes nothing here.

### ObservationLedger

One delivery is one request, to any replica. Its transaction takes the stream's
advisory lock, and each statement (find the event, read the cursor, insert and
commit) is an action that sees what is committed when it runs. A body's hash is
the body and a record's digest the sequence of bodies it commits to, which makes
both hashes injective. `parse` is what `KeyRing::parse` demands of the configured
keys, an assumption of the module; a key without `validFrom` or `validUntil` has
no bound there. Time is counted in half microseconds: `to_char` rounds to what a
`timestamptz` keeps, which is why a retry's receipt may name another time than the
first, by less than a microsecond (`ReceiptsHold`, section 5). `Sends` constrains the sources in `Orderly`, which
send an event when its predecessor is receipted and resend as often as they like;
the others send anything.

### GeminiCircuit

A call looks at the circuit once, makes up to `MAX_ATTEMPTS` requests of at most
`AttemptTime` each, and reports once. A success that reports late closes a circuit
that opened meanwhile; the code means it to, and no property forbids it. `Tick` lets no request outlast its timeout.
That a call with its answer reports before time passes idealises an await on an
uncontended mutex; `OutageBounded` depends on it only by the length of that wait.
`u32` saturation of the count is out of reach of any threshold and left out.

### Shutdown

`reduce` is the guards `Starts` and `Forces`; the loop's three arms are
`StartGraceful`, `ForceShutdown` and `Ignore`; the server's end is `Complete` or
`Break`, selected against events in any order. `Return` is what the end of
`main` does to what is still running. axum_server is modelled from its use:
draining, it ends when its connections are gone; told to close, it ends.

### QuoteView, QuoteEvents, QuoteReads

`QuoteView` holds the pure part: which analyses `validate_analysis` admits
(`ValidAnalysis`), which of them `quote_estimate` can show (`Estimable`, with the
checked multiplication and both conversions at their widths), the confidence,
and the message `quote_status_event` builds from an event and a record.

`QuoteEvents` follows one quote. `log` is its event table and, in its last entry,
its status; the commits are those of `QuoteLifecycle` without their
transactions, ordered as the worker orders them: commit, publish, go on. A retry
needs a failed status only, so it may overtake the publication of that failure.
`PublishEvent` sends to the channel of the replica that committed (`here` is the
replica whose streams are modelled) and starts the webhook delivery; `LoseEvent`
is a publisher that ends in between.

| Action | Code |
|---|---|
| `Connect` | `quote_events` up to the permit |
| `ReadLatestEvent` | `latest_event`, before the upgrade |
| `Subscribe` | `state.events.subscribe()` in `stream_quote_events` |
| `Greet`, `GreetNobody` | the initial event with the record read after subscribing; nothing when the record cannot be read or mapped |
| `Receive`, `Lag` | `recv`: the next event, one of another quote, or `Lagged`, which the loop ignores |
| `ShowEvent` | the record as it is now, mapped and sent; a record that cannot be mapped ends the stream |
| `Disconnect` | a close, a failed read or a failed send |
| `Accepted`, `Rejected`, `Again`, `GiveUp` | one turn of `dispatch`; the request may have had its effect although no answer came |

`shown` keeps what a client was sent, with the sequence the record stood at.
Streams, deliveries and readers share nothing but what is committed and
published, so a behaviour has one kind of `audience`, which keeps the product of
their states out of the run.

`QuoteReads` adds the subject's other quotes and a client that walks the list.
`created_at` is fixed when a create begins and the quote becomes visible when it
commits, so quotes appear behind a cursor as well as before it. `Before` is the
order of both storage modes; ids are ordered independently of time.

### Telemetry

`slot` is `ORES_LOGGER`, `readers` the holders of its read lock, `active` the
count of guards and `lifecycle` the holder of that count's mutex; loggers are
numbered as they are built. Each lock operation of
`with_ores_logger`, `begin_telemetry_lifetime`, `end_telemetry_lifetime` and
`retire_logger` is a step, and `held` is the logger a thread holds a reference
to. A thread that waits is in a call: `CallInit` and `DropGuard` begin one, in
`beginning` and `ending` it waits for the mutex, in `building` and `retiring` for
the write lock. A writer that finds readers parks (`parked`), and later readers
wait behind it (`ReadersWait`), as the standard library's lock makes them on
Linux; this is what the comment at `telemetry.rs:70-72` is about. A lock that
becomes free is granted to any waiter. The model was also run changed: with a
second read lock taken inside an emission TLC reports a deadlock, and with
`ReadersWait = FALSE` readers that follow each other keep a writer waiting for
ever, so that `CallsReturn` fails.

### GrcWorkQueue

The query of `grc_work_queue.rs` as operators, one per branch of its UNION, over
rows that keep the columns the query reads; `Page` is its ORDER BY and LIMIT,
`AuthenticateTenant` the decision between trusted headers and bearer token,
`ListWorkItems` the handler. `TablesAssumption` is what the query relies on: a
tenant and an id name one row of a table. Time passes; the tables stay as they are, since one
request is one snapshot.

## 3. Runs

All finish within five minutes on two workers.

| Run | Instance | Shows |
|---|---|---|
| `quote_lifecycle` | 4 keys of 2 tenants, 2 quotes, 2 replicas with a slot each, one of them without a provider, 1 fault | eight properties of the PostgreSQL service, the refinement `ImplementsContract` among them |
| `quote_progress` | 2 keys, 1 quote, 2 requests, 2 replicas, 1 fault, fair | submissions are answered, quotes resolve |
| `quote_memory` | 3 keys of 2 tenants, 3 quotes, 2 slots, 1 drop | idempotency and state machine for subjects that do not overlap; dangling keys only after a drop |
| `admission` | 4 subjects, 2 concurrent calls, quotas 2 and 3, a map of 3, a window of a second and a half in three ticks | quotas, eviction, Retry-After |
| `assessments` | 4 keys, 6 intakes through a store of 2, 2 quote handlers | three properties of the shared map |
| `observation_ledger` | 3 deliveries, an orderly and a free source, rotated keys, sequences up to an `I64Max` of 2 | four properties of the ledger |
| `gemini_circuit` | 4 calls of up to 2 attempts, threshold 2, calls that outlast the open period | the two promises of the breaker |
| `shutdown` | 3 signals, 2 connections, 1 analysis, terminal or not, fair | two safety properties and the end of every drain |
| `shutdown_jobs` | the same | a finding |
| `quote_events` | 4 events of one quote on two replicas, 2 clients for 1 permit, a channel of 2 with an event of another quote, 3 delivery attempts; 4 quotes of 2 subjects, pages of 1 and 2 | what streams, webhook receivers and readers are told |
| `telemetry` | 2 owners, 2 callers, 3 calls of `init()`, errors without end, fair | the shared logger and its two locks |
| `grc_work_queue` | every shape of a row of each kind with a rival of its tenant or another's, a page of 1, a clock that passes every window | the page and the passing of time |

Why these bounds are enough to be interesting. Two slots give every pair of
handlers and workers, and both locks have a contender; three keys of one tenant
allow a create, a retry and a retry of the retry; one fault already reaches every
fault action, and what a second adds to a quote that is already an orphan is
nothing (`OrphansAreInert`). Without a database three quotes are needed: a dropped handler's
id, the one that replaced it under the key, and one still to be drawn. Four
subjects could overflow a map of three. A window of three
ticks lets an entry with an earlier timestamp stand behind a later one and still
be live, so that `Retry-After` depends on which of them it is computed from. Six
intakes pass a store of two three times over, so a key is evicted, reused and
evicted again. Three deliveries are a record, its successor and a resend.
`I64Max` is reached, so `checked_add` fails in the run. Two failures open a
circuit that four calls can open, close and open again. Three signals are one to
drain, one to force and one too late. Four events are a run that fails and the
retry that overtakes the publication of its end, or a complete run and one
event to spare; with a channel of two and an event of another quote a stream is
overtaken. Three quotes of one subject over pages of one and two put a page
boundary on each side of a tie and of a quote that appears late. The widths of
`QuoteView` are scaled (a u64 ends at 40, an i64 at 19, ten cents a unit) so that
a fee can overflow in cents without overflowing itself, and a week can exceed an
i64. Two guards and two callers give every overlap of drop, take, emission and
rebuild; three calls of `init()` are a lifetime, one that overlaps its end and one
more. Calls of `init()` without end are left out, since guards that follow each
other for ever may take the mutex past a waiting thread for ever: neither the code
nor its lock orders them. Each bound is a constant; the proofs drop all of them
except the caps on counters (`MaxFaults`, `MaxTime`, …), which they leave arbitrary.

Symmetry is used on sets whose members nothing tells apart, in runs without
liveness. Deadlock is not checked in `admission`, `observation_ledger` and
`gemini_circuit`, where the clock's bound and one-shot deliveries and calls end
every behaviour, in `shutdown`, where the server is meant to end, and in
`quote_events`, where a quote's events are bounded and nobody need connect. It is
checked in `telemetry`: a caller can always report an error unless it waits.

**Fairness.** `quote_progress`: strong fairness of a handler's steps, because
PostgreSQL grants a contended lock in the order of the waiters and every holder
ends its transaction, so a handler whose lock becomes free again and again gets
it; weak fairness of a worker's steps, because Tokio polls a ready task and the
Gemini client has timeouts. No fairness of submissions and faults. `shutdown`:
weak fairness of listeners, the timer, the loop and the server's end. None of
clients, analyses or Ctrl-D: `SignalsEndServer` holds for clients that never
disconnect. `telemetry`: weak fairness of every step a call has begun, because
the locks' holders are running threads and every critical section is finite, and
strong fairness of taking the write lock, because a parked writer keeps later
readers out and the lock is handed to it; none of beginning a call or of dropping
a guard.

## 4. Proofs

All theorems hold for arbitrary constants under the `ASSUME` of each module
(types of constants, positive thresholds, finitely many ids, ids that name one
row, and what `KeyRing::parse` enforces), which TLC evaluates in the runs. Every
safety property of a passing run is a theorem.

**QuoteLifecycleProofs.** `OneDriver` is not inductive: that a worker may
overwrite a status without looking at it rests on what its handler saw under
locks it no longer holds. The invariant adds `KeyLocks` and `RowLocks` (a lock
has one holder, and the row's holder saw a failed quote of its owner),
`DriverStatus` (a driver knows its quote's status), `OpsOwned` and
`CommittedStored` (an operation names an existing quote of the key's owner).
A retry finds a quote failed, so by `DriverStatus` nobody drives it.
`KeysNeverCollide` is what the advisory lock is for: without it the primary key
would still refuse the second insert, and no other property would notice. From
the invariant follow `SingleDriver`, `KeysNeverCollide`, `NoOrphanWithoutFault`,
`HistoriesAreLegal`, `OrphansStayOrphans`, `RepliesAlwaysAgree` and the
refinement `ServiceImplementsContract`; `TypeCorrect` comes first.

Three further invariants build on it. `RunsCounted` counts: a quote's queued
events are as many as the keys whose operation names it, because the two are
added in one commit and a key is never given a second operation
(`RunsMatchOperations`, which no run repeats). `EventInv` adds to `PublishedEvents` that an event a
slot still owes is committed, so that publishing it is sound, and uses
`OneDriver` so that no other slot's step can take its place
(`EventsReachSubscribers`). `AttemptInv` says per slot what it may still do to
the attempt it started: a slot that will close its attempt as completed has
settled its quote, or failed to and left it an orphan, and by `FinalStays` such a
quote keeps its status (`CompletedAttemptsAreFinal`).

**AdmissionProofs.** Entries are out of order, so "the head has not expired"
says nothing about the rest of a queue. `Kept` says what is needed instead:
whatever is younger than the window has been discarded from neither queue.
`Sizes` bounds the queues; `QueuesAgree` makes every live subject occupy an entry
of the global queue, so that a global quota of at most the map's capacity leaves
room: `EvictionIsDead`, `QuotasAlwaysHold`. For `RetryAfterIsEnough` the invariant
has `Outlasted`: the front of the queue that was full will have expired. The
sweep then removes at least the front (`ExpiredFrontLeavesRoom`), and by `Sizes` a
queue is never more than full, so there is room, whatever the order behind it.

**GrcProofs.** Assessments: `Known` (a stored intake's key names it or a quote)
and `KeysDiffer` (no two stored intakes share a key) make eviction harmless:
`KeysNeverDangle`, `StoreIsLatest`, `KeyHasOneAssessment`, `KeysOutliveIntakes`.
GrcWorkQueue: `BeforeOrder` shows that urgency, NULLS LAST, date, kind and id
order a tenant's rows strictly and totally; a row that comes before another has
fewer rows before it (`PrecedingGrows`), so the number of rows before a row is an
injection of the page into `0..Limit-1`, and what is left out comes after all of
the page (`PageOf`): `PagesAreHonest`. `WaitingWorkRises` follows branch by branch
from `DueStays`, what is due stays due.

**ObservationLedgerProofs.** `Exclusive` (one transaction per stream holds the
lock), `ReadsHold` (what it read is still so when it inserts), `Dense` (a stream
has every sequence below each of its records), `RowsCarried` and `Discipline`
(what an orderly source has sent) give `LedgerIsChained`, `ReceiptsAreDurable`,
`InsertsAlwaysFit` and `OrderlySourcesNeverConflict`.

**GeminiCircuitProofs.** `NoneSince` (no call passed the circuit since it
opened) and `InTime` (a call is within its attempts' time) bound the outage:
`OpenAfterStreak`, `OutagesAreBounded`.

**ProcessProofs.** Shutdown: `OnePlace` (a single signal is with its listener, in
the channel or counted, never in two of these places), `Sent` (a deadline in the
channel comes from a timer that is over) and `InStep` (phase, count, server and
reason go together): `GracefulIsGraceful`, `ForcesHaveCauses`.

QuoteMemory: the properties speak of one subject, and the maps are shared by all,
so the invariant has to say who may write what. `OneClaimant`: of all subjects
that own a record, hold a key that names it or run a handler that was given its
id, there is one. `Alone`: a subject that never overlapped has one slot.
`Serial`: what that slot read of the maps (an unused key, a failed record, the
copy it will write back) is still so when it acts on it, since whoever could
have changed it would be a slot of the same subject. `Replied` ties the responses
to the key's entry. From it `SerialRepliesAlwaysAgree`, `QuotesAreDriven`,
`RecordsMoveForward`, and, whether submissions overlap or not,
`KeysDangleOnlyAfterDrops` and `MemoryTypesHold`.

**TelemetryProofs.** `Emission` (who emits holds the read lock and the logger in
the slot), `Mutex` (one owner at a time retires, and meanwhile nobody has a
guard), `Count` (the count is the number of guards) and `Spent` (a logger closed
or about to be is older than the one in the slot) are what the two locks are for: `EmissionsAreSafe`,
`LiveGuardsKeepLogger`, and `LoggersAreClosed`, that no logger is dropped open.

**QuoteEventsProofs.** The parts of the invariant are operators of the values they
relate (a log, a channel, one stream's position, event and messages), so a step
keeps them wherever it leaves those values alone. `Behind(l, x, y)` says that the
event `x`, told after `y`, belongs to another run if it is the earlier one.
`RunsWait` (an event that is not published is followed by a retry or by nothing)
makes whatever is published come `Behind` everything told so far; `ChannelOrder`,
`Ahead` and `InOrder` carry this through the channel, the receiver and the
messages. `Current` (what a receiver has taken is not newer than the record shown
last) rests on the record being read after the event; `CompletedIsLast` makes
stage and estimate agree; `HookInv` says what the receiver can have. From it:
`StreamsCatchUp`, `RunsAreSeenInOrder`, `MessagesAlwaysAgree`,
`UnreadableHasCause`, `ReceiversAlwaysConverge`; `ReadsChangeNothing` extends them
to the specification with readers, which the run checks.

`WalksAreComplete` is about the walk over the list. `WalkOk` adds to the property
what is still to come: whatever the subject had at the first page is on a page
already or comes after the cursor, and everything listed is the cursor or before
it. It survives quotes that appear on either side of the cursor because times
never change (`WalkOkGrows`), and one more page keeps it (`WalkOkPage`) because
LIMIT leaves out only older rows (`FirstRowsAhead`) and the last row of a full
page exists (`OldestRow`). A set of rows has an oldest because counting the rows
ahead of each is one-to-one (`NewerFewer`) and naturals are well-founded.

Only model-checked: the four liveness properties `InFlightResolves`,
`SubmissionsAnswered`, `SignalsEndServer` and `CallsReturn` (fairness and ENABLED
are out of the prover's reach), and the finding of `shutdown_jobs`. Type
invariants that are not theorems of their own are conjuncts of proved invariants.
No module declares a RECURSIVE operator.

## 5. Where code and documentation disagree

* `shutdown_jobs`: `docs/graceful-shutdown-validation.md` promises that accepted
  background jobs drain until the deadline; the drain waits for connections only.

Consequences of the models that hold by the same code and have no run of their
own:

* Without a database, overlapping first submissions of one key both find it
  unused (`lib.rs:671-702`) and create two quotes, where `README.md:52-54`
  promises the original result to a replay. `SerialRepliesAgree` says when the
  promise holds.
* Without a database, a replay copies a record under one guard and writes it back
  under another (`lib.rs:681-716`), for example analyzing over completed, and no
  worker is left; `README.md:45-46` knows no way back from completed.
  `SerialTransitions` says when this cannot happen.
* `docs/readiness-observation-ingest.md:101` promises the original `receivedAt`
  to an exact retry; the first receipt has the digits of the handler's clock, a
  retry's is printed from the database, rounded to microseconds
  (`readiness_observation_ingest.rs:648-651`). The receipt id is the same
  (`ReceiptsHold`), and the time differs by its rounding only.
* A completed quote whose fees overflow an i64 in cents, or with a list that
  holds something other than texts, answers 503 on GET, ends its streams and
  fails every page of the list that contains it, so that a walk over the list
  cannot get past it; it is completed, so it cannot be retried.
  `UnreadableNeedsCause` says these are the only cases.
* A stream can miss the final stage of a quote and show its estimate with an
  earlier stage: the record is read after the event. Events of another replica
  never reach it. Across a retry the end of the failed run may follow the
  retry's first event; within a run the order holds (`OrderWithinRun`).
* A failed automation run leaves the work queue a month after it started,
  inspected or not (the exception in `WaitingRaises`), and an AI system whose
  review is overdue stays medium.
* Without a database the list is ordered by the text of `created_at`, whose
  fraction has as many digits as it needs: a total order, and not always that of
  time.

Met while reading, not stated as runs: the same shutdown document says readiness
becomes unavailable before the listener stops accepting, and no such flag exists;
the comment at `shutdown.rs:311` on losing every lifecycle input describes a case
that cannot occur while the loop holds a sender of its own; the schema's key
pattern excludes `/`, which `lib.rs` admits in idempotency keys; `is_rfc3339` in
`pre_interest.rs` admits the 31st of any month, which the candidate table's
`timestamptz` would refuse.

## 6. Not modelled, and limits

* Header limits, scopes, text validation, formatting and logging: they decide
  before any state changes, or change none. Webhook signatures.
* PostgreSQL is READ COMMITTED with working locks; locks' 64-bit hashes are taken
  as collision-free (a collision only makes strangers wait). A lock statement
  that fails is an aborted transaction.
* axum_server may accept a connection already in the backlog as a drain starts;
  the model closes the listener at once. Installing signal handlers succeeds.
* `store_memory` of the ingest service is reached by its own tests only.
* The stream follows the PostgreSQL mode; without a database the initial event
  carries sequence 0 and the status found first. Pings are answered and other
  messages of a client ignored, which changes nothing. The capacity of Tokio's
  channel is rounded up to a power of two; the model takes any.
* The web data plane and pre-interest registration are pure functions that no
  handler of the repository drives: there is no state for a model to follow, and
  what could be wrong is in text, hashes and constant tables.
* Components listed as `not_modelled` in `PROJECT.json`, each with its reason.

## 7. Plan

1. Proofs: that the memory-only service implements `QuoteContract` for subjects
   whose submissions do not overlap; the safety core of the liveness properties,
   that a slot waiting for a lock waits for a slot that does not wait.
2. The web data plane's receipt state machine, and the transaction of pre-interest
   registration that `docs/pre-interest-registration.md` describes, once handlers
   drive them.
