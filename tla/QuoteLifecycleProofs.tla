------------------------ MODULE QuoteLifecycleProofs ------------------------
(***************************************************************************)
(* Proofs about QuoteLifecycle, for any number of quotes, keys, tenants,   *)
(* replicas, permits and faults.                                           *)
(***************************************************************************)
EXTENDS QuoteLifecycle, SequenceTheorems, FiniteSetTheorems, TLAPS

(* Overwriting an element of a sequence, or none if there is no such       *)
(* position, gives a sequence over the same set.                           *)
LEMMA SeqExcept ==
    ASSUME NEW S, NEW seq \in Seq(S), NEW i, NEW e \in S
    PROVE  [seq EXCEPT ![i] = e] \in Seq(S)
<1>1. CASE i \in 1..Len(seq)
  BY <1>1, ExceptSeq
<1>2. CASE i \notin 1..Len(seq)
  <2>1. [seq EXCEPT ![i] = e] = seq
    BY <1>2
  <2> QED
    BY <2>1
<1> QED
  BY <1>1, <1>2

-----------------------------------------------------------------------------
(* Types *)

(* What a job holds at each point of the handler and the worker. *)
SlotOK(l, j) ==
    /\ l = "idle" => j = NoJob
    /\ l # "idle" =>
         /\ j \in Job
         /\ j.kind = "create" => j.request \in Requests
         /\ j.kind = "retry" => j.quote \in Quotes
    /\ l \notin {"idle", "accepted", "keyed"} => j.quote \in Quotes
    /\ l = "rowed" => j.kind = "retry"
    /\ l \in {"answered", "settled", "closing"} => j.outcome # "none"

JobOK == \A s \in Slots : SlotOK(pc[s], job[s])

TypeInv == TypeOK /\ JobOK

SlotTypes ==
    /\ pc \in [Slots -> PCs]
    /\ job \in [Slots -> Job \cup {NoJob}]

(* A step that moves one slot to a point its new job fits keeps the slots  *)
(* well typed.                                                             *)
LEMMA SlotStep ==
    ASSUME SlotTypes, JobOK, NEW s \in Slots, NEW l \in PCs, NEW j, SlotOK(l, j),
           pc' = [pc EXCEPT ![s] = l], job' = [job EXCEPT ![s] = j]
    PROVE  SlotTypes' /\ JobOK'
<1>1. j \in Job \cup {NoJob}
  BY DEF SlotOK
<1>2. \A t \in Slots : SlotOK(pc'[t], job'[t])
  BY DEF SlotTypes, JobOK
<1> QED
  BY <1>1, <1>2 DEF SlotTypes, JobOK

(* A slot whose handler or worker is gone is well typed. *)
LEMMA ReleaseStep ==
    ASSUME SlotTypes, JobOK, NEW s \in Slots, Release(s)
    PROVE  SlotTypes' /\ JobOK'
<1>1. SlotOK("idle", NoJob) /\ "idle" \in PCs
  BY DEF SlotOK, PCs
<1> QED
  BY <1>1, SlotStep DEF Release, Goto

(* A slot that only moves on keeps its job. *)
LEMMA GotoStep ==
    ASSUME SlotTypes, JobOK, NEW s \in Slots, NEW l \in PCs, SlotOK(l, job[s]),
           Goto(s, l), UNCHANGED job
    PROVE  SlotTypes' /\ JobOK'
<1>1. job' = [job EXCEPT ![s] = job[s]]
  BY DEF SlotTypes
<1> QED
  BY <1>1, SlotStep DEF Goto

LEMMA TypeInit == Init => TypeInv
  BY LifecycleAssumption
  DEF Init, TypeInv, TypeOK, JobOK, SlotOK, PCs, Status, Op, NoOp, Job, NoJob

(* A released slot, in a step that leaves the database alone. *)
LEMMA TypeRelease ==
    ASSUME TypeInv, NEW s \in Slots, Release(s),
           Fault \/ NoFault, UNCHANGED <<dbVars, published, replies>>
    PROVE  TypeInv'
<1>1. SlotTypes' /\ JobOK'
  BY ReleaseStep DEF TypeInv, TypeOK, SlotTypes
<1>2. faults' \in 0..MaxFaults
  BY LifecycleAssumption DEF TypeInv, TypeOK, Fault, NoFault
<1> QED
  BY <1>1, <1>2 DEF TypeInv, TypeOK, SlotTypes, dbVars

(* A slot that moves on to l with job j, in such a step. *)
LEMMA TypeMove ==
    ASSUME TypeInv, NEW s \in Slots, NEW l \in PCs, NEW j, SlotOK(l, j),
           pc' = [pc EXCEPT ![s] = l], job' = [job EXCEPT ![s] = j],
           Fault \/ NoFault, UNCHANGED <<dbVars, published, replies>>
    PROVE  TypeInv'
<1>1. SlotTypes' /\ JobOK'
  BY SlotStep DEF TypeInv, TypeOK, SlotTypes
<1>2. faults' \in 0..MaxFaults
  BY LifecycleAssumption DEF TypeInv, TypeOK, Fault, NoFault
<1> QED
  BY <1>1, <1>2 DEF TypeInv, TypeOK, SlotTypes, dbVars

(* A status update, acknowledged or not, followed by a move to l. *)
LEMMA TypeRecord ==
    ASSUME TypeInv, NEW q \in Quotes, NEW new \in Status, Record(q, new)
    PROVE  /\ status' \in [Quotes -> Status \cup {"absent"}]
           /\ log' \in [Quotes -> Seq(Status)]
           /\ Len(log'[q]) \in Nat
<1>1. log' \in [Quotes -> Seq(Status)] /\ status' \in [Quotes -> Status \cup {"absent"}]
  BY DEF TypeInv, TypeOK, Record
<1> QED
  BY <1>1

LEMMA TypeCommit ==
    ASSUME TypeInv, NEW s \in Slots, NEW l \in PCs, NEW j, SlotOK(l, j),
           Acked(s, l, j) \/ Unacked(s)
    PROVE  SlotTypes' /\ JobOK' /\ faults' \in 0..MaxFaults
<1>1. SlotTypes /\ JobOK /\ faults \in 0..MaxFaults
  BY DEF TypeInv, TypeOK, SlotTypes
<1>2. CASE Acked(s, l, j)
  BY <1>1, <1>2, SlotStep DEF Acked, Goto, NoFault
<1>3. CASE Unacked(s)
  BY <1>1, <1>3, ReleaseStep, LifecycleAssumption DEF Unacked, Fault
<1> QED
  BY <1>2, <1>3

LEMMA TypeSubmit == ASSUME TypeInv, NEW s \in Slots, Submit(s) PROVE TypeInv'
<1>1. "accepted" \in PCs
  BY DEF PCs, HandlerPCs
<1>2. ASSUME NEW k \in Keys, NEW r \in Requests, AcceptCreate(s, k, r) PROVE TypeInv'
  <2> DEFINE j == [NoJob EXCEPT !.key = k, !.kind = "create", !.request = r]
  <2>1. SlotOK("accepted", j)
    BY DEF SlotOK, Job, NoJob
  <2> HIDE DEF j
  <2>2. pc' = [pc EXCEPT ![s] = "accepted"] /\ job' = [job EXCEPT ![s] = j]
    BY <1>2 DEF AcceptCreate, Goto, j
  <2> QED
    BY <1>1, <1>2, <2>1, <2>2, TypeMove DEF AcceptCreate, NoFault
<1>3. ASSUME NEW k \in Keys, NEW q \in Quotes, AcceptRetry(s, k, q) PROVE TypeInv'
  <2> DEFINE j == [NoJob EXCEPT !.key = k, !.kind = "retry", !.quote = q]
  <2>1. SlotOK("accepted", j)
    BY DEF SlotOK, Job, NoJob
  <2> HIDE DEF j
  <2>2. pc' = [pc EXCEPT ![s] = "accepted"] /\ job' = [job EXCEPT ![s] = j]
    BY <1>3 DEF AcceptRetry, Goto, j
  <2> QED
    BY <1>1, <1>3, <2>1, <2>2, TypeMove DEF AcceptRetry, NoFault
<1> QED
  BY <1>2, <1>3 DEF Submit

LEMMA TypeHandle == ASSUME TypeInv, NEW s \in Slots, Handle(s) PROVE TypeInv'
<1>0. SlotOK(pc[s], job[s]) /\ SlotTypes /\ JobOK
  BY DEF TypeInv, TypeOK, JobOK, SlotTypes
<1>1. CASE RejectReuse(s)
  BY <1>1, TypeRelease DEF RejectReuse, NoFault
<1>2. CASE RejectContext(s)
  BY <1>2, TypeRelease DEF RejectContext, NoFault
<1>3. CASE RejectRetry(s)
  BY <1>3, TypeRelease DEF RejectRetry, NoFault
<1>4. CASE Replay(s)
  <2>1. job[s].key \in Keys
    BY <1>0, <1>4 DEF Replay, SlotOK, Job
  <2>2. ops[job[s].key].quote \in Quotes
    BY <1>4, <2>1 DEF Replay, TypeInv, TypeOK, Op, NoOp
  <2>3. replies' \in [Keys -> SUBSET Quotes]
    BY <1>4, <2>1, <2>2 DEF Replay, Reply, TypeInv, TypeOK
  <2>4. SlotTypes' /\ JobOK'
    BY <1>0, <1>4, ReleaseStep DEF Replay
  <2> QED
    BY <1>4, <2>3, <2>4 DEF Replay, TypeInv, TypeOK, SlotTypes, dbVars
<1>5. CASE LockKey(s)
  <2>1. SlotOK("keyed", job[s]) /\ "keyed" \in PCs
    BY <1>0, <1>5 DEF LockKey, SlotOK, PCs, HandlerPCs
  <2>2. job' = [job EXCEPT ![s] = job[s]] /\ pc' = [pc EXCEPT ![s] = "keyed"]
    BY <1>0, <1>5 DEF LockKey, Goto, SlotTypes
  <2> QED
    BY <1>5, <2>1, <2>2, TypeMove DEF LockKey, NoFault
<1>6. CASE LockRow(s)
  <2>1. SlotOK("rowed", job[s]) /\ "rowed" \in PCs
    BY <1>0, <1>6 DEF LockRow, SlotOK, PCs, HandlerPCs
  <2>2. job' = [job EXCEPT ![s] = job[s]] /\ pc' = [pc EXCEPT ![s] = "rowed"]
    BY <1>0, <1>6 DEF LockRow, Goto, SlotTypes
  <2> QED
    BY <1>6, <2>1, <2>2, TypeMove DEF LockRow, NoFault
<1>7. ASSUME NEW q \in Quotes, CommitCreate(s, q) PROVE TypeInv'
  <2> DEFINE j == [job[s] EXCEPT !.quote = q, !.event = Len(log'[q])]
  <2>1. job[s] \in Job /\ job[s].key \in Keys /\ job[s].request \in Requests
    BY <1>0, <1>7 DEF CommitCreate, SlotOK, Job
  <2>2. /\ log' \in [Quotes -> Seq(Status)]
        /\ status' \in [Quotes -> Status \cup {"absent"}]
        /\ Len(log'[q]) \in Nat
    BY <1>7, TypeRecord DEF CommitCreate, Status
  <2>3. SlotOK("committed", j) /\ "committed" \in PCs
    BY <2>1, <2>2 DEF SlotOK, Job, PCs, HandlerPCs
  <2> HIDE DEF j
  <2>4. Acked(s, "committed", j) \/ Unacked(s)
    BY <1>7 DEF CommitCreate, j
  <2>5. SlotTypes' /\ JobOK' /\ faults' \in 0..MaxFaults
    BY <2>3, <2>4, TypeCommit
  <2>6. ops' \in [Keys -> Op \cup {NoOp}]
    BY <1>7, <2>1 DEF TypeInv, TypeOK, CommitCreate, Op
  <2>7. owner' \in [Quotes -> Subjects \cup {Nil}]
    BY <1>7, <2>1, LifecycleAssumption DEF TypeInv, TypeOK, CommitCreate
  <2> QED
    BY <1>7, <2>2, <2>5, <2>6, <2>7 DEF CommitCreate, TypeInv, TypeOK, SlotTypes
<1>8. CASE CommitRetry(s)
  <2> DEFINE q == job[s].quote
             j == [job[s] EXCEPT !.event = Len(log'[q])]
  <2>1. job[s] \in Job /\ job[s].key \in Keys /\ q \in Quotes /\ job[s].kind = "retry"
    BY <1>0, <1>8 DEF CommitRetry, SlotOK, Job
  <2>2. /\ log' \in [Quotes -> Seq(Status)]
        /\ status' \in [Quotes -> Status \cup {"absent"}]
        /\ Len(log'[q]) \in Nat
    BY <1>8, <2>1, TypeRecord DEF CommitRetry, Status
  <2>3. SlotOK("committed", j) /\ "committed" \in PCs
    BY <2>1, <2>2 DEF SlotOK, Job, PCs, HandlerPCs
  <2>4. Acked(s, "committed", j) \/ Unacked(s)
    BY <1>8 DEF CommitRetry
  <2> HIDE DEF j
  <2>5. SlotTypes' /\ JobOK' /\ faults' \in 0..MaxFaults
    BY <2>3, <2>4, TypeCommit
  <2>6. ops' \in [Keys -> Op \cup {NoOp}]
    BY <1>8, <2>1 DEF TypeInv, TypeOK, CommitRetry, Op
  <2> QED
    BY <1>8, <2>2, <2>5, <2>6 DEF CommitRetry, TypeInv, TypeOK, SlotTypes
<1>9. CASE Spawn(s)
  <2>1. job[s] \in Job /\ job[s].quote \in Quotes /\ job[s].key \in Keys /\ job[s].event \in Nat
    BY <1>0, <1>9 DEF Spawn, SlotOK, Job
  <2>2. SlotOK("spawned", job[s]) /\ "spawned" \in PCs
    BY <1>0, <1>9 DEF Spawn, SlotOK, PCs, WorkerPCs
  <2>3. SlotTypes' /\ JobOK'
    BY <1>0, <1>9, <2>2, GotoStep DEF Spawn
  <2>4. published' \in [Quotes -> SUBSET Nat]
    BY <1>9, <2>1 DEF Spawn, Publish, TypeInv, TypeOK
  <2>5. replies' \in [Keys -> SUBSET Quotes]
    BY <1>9, <2>1 DEF Spawn, Reply, TypeInv, TypeOK
  <2> QED
    BY <1>9, <2>3, <2>4, <2>5 DEF Spawn, TypeInv, TypeOK, SlotTypes, dbVars
<1> QED
  BY <1>1, <1>2, <1>3, <1>4, <1>5, <1>6, <1>7, <1>8, <1>9 DEF Handle

LEMMA TypeWork == ASSUME TypeInv, NEW s \in Slots, Work(s) PROVE TypeInv'
<1>0. SlotOK(pc[s], job[s]) /\ SlotTypes /\ JobOK
  BY DEF TypeInv, TypeOK, JobOK, SlotTypes
<1>1. CASE MarkAnalyzing(s)
  <2> DEFINE q == job[s].quote
             j == [job[s] EXCEPT !.event = Len(log'[q])]
  <2>1. job[s] \in Job /\ q \in Quotes
    BY <1>0, <1>1 DEF MarkAnalyzing, SlotOK
  <2>2. /\ log' \in [Quotes -> Seq(Status)]
        /\ status' \in [Quotes -> Status \cup {"absent"}]
        /\ Len(log'[q]) \in Nat
    BY <1>1, <2>1, TypeRecord DEF MarkAnalyzing, Status
  <2>3. SlotOK("marked", j) /\ "marked" \in PCs
    BY <1>0, <1>1, <2>1, <2>2 DEF SlotOK, Job, PCs, WorkerPCs, MarkAnalyzing
  <2>4. Acked(s, "marked", j) \/ Unacked(s)
    BY <1>1 DEF MarkAnalyzing
  <2> HIDE DEF j
  <2>5. SlotTypes' /\ JobOK' /\ faults' \in 0..MaxFaults
    BY <2>3, <2>4, TypeCommit
  <2> QED
    BY <1>1, <2>2, <2>5 DEF MarkAnalyzing, TypeInv, TypeOK, SlotTypes
<1>2. CASE Announce(s)
  <2>1. job[s].quote \in Quotes /\ job[s].event \in Nat
    BY <1>0, <1>2 DEF Announce, SlotOK, Job
  <2>2. SlotOK("announced", job[s]) /\ "announced" \in PCs
    BY <1>0, <1>2 DEF Announce, SlotOK, PCs, WorkerPCs
  <2>3. SlotTypes' /\ JobOK'
    BY <1>0, <1>2, <2>2, GotoStep DEF Announce
  <2>4. published' \in [Quotes -> SUBSET Nat]
    BY <1>2, <2>1 DEF Announce, Publish, TypeInv, TypeOK
  <2> QED
    BY <1>2, <2>3, <2>4 DEF Announce, TypeInv, TypeOK, SlotTypes, dbVars
<1>3. CASE NoProvider(s)
  <2> DEFINE j == [job[s] EXCEPT !.outcome = "failed"]
  <2>1. SlotOK("answered", j) /\ "answered" \in PCs
    BY <1>0, <1>3 DEF NoProvider, SlotOK, Job, PCs, WorkerPCs
  <2>2. pc' = [pc EXCEPT ![s] = "answered"] /\ job' = [job EXCEPT ![s] = j]
    BY <1>3 DEF NoProvider, Goto
  <2> HIDE DEF j
  <2> QED
    BY <1>3, <2>1, <2>2, TypeMove DEF NoProvider, NoFault
<1>4. CASE StartAttempt(s)
  <2> DEFINE q == job[s].quote
             j == [job[s] EXCEPT !.attempt = Len(attempts'[q])]
  <2>1. job[s] \in Job /\ q \in Quotes
    BY <1>0, <1>4 DEF StartAttempt, SlotOK
  <2>2. /\ attempts' \in [Quotes -> Seq(AttemptStatus)]
        /\ Len(attempts'[q]) \in Nat
    <3>1. "started" \in AttemptStatus
      BY DEF AttemptStatus
    <3>2. attempts' \in [Quotes -> Seq(AttemptStatus)]
      <4>1. \/ attempts' = attempts
            \/ attempts' = [attempts EXCEPT ![q] = Append(attempts[q], "started")]
        BY <1>4 DEF StartAttempt
      <4>2. attempts \in [Quotes -> Seq(AttemptStatus)]
        BY DEF TypeInv, TypeOK
      <4>3. Append(attempts[q], "started") \in Seq(AttemptStatus)
        BY <2>1, <3>1, <4>2
      <4> QED
        BY <2>1, <4>1, <4>2, <4>3
    <3> QED
      BY <2>1, <3>2
  <2>3. SlotOK("prompted", j) /\ SlotOK("prompted", job[s]) /\ "prompted" \in PCs
    BY <1>0, <1>4, <2>1, <2>2 DEF StartAttempt, SlotOK, Job, PCs, WorkerPCs
  <2>4. job' = [job EXCEPT ![s] = j] \/ job' = job
    BY <1>4 DEF StartAttempt
  <2> HIDE DEF j
  <2>5. SlotTypes' /\ JobOK'
    <3>1. CASE job' = job
      BY <1>0, <1>4, <2>3, <3>1, GotoStep DEF StartAttempt
    <3>2. CASE job' = [job EXCEPT ![s] = j]
      BY <1>0, <1>4, <2>3, <3>2, SlotStep DEF StartAttempt, Goto
    <3> QED
      BY <2>4, <3>1, <3>2
  <2>6. faults' \in 0..MaxFaults
    BY <1>4, LifecycleAssumption DEF StartAttempt, Fault, NoFault, TypeInv, TypeOK
  <2> QED
    BY <1>4, <2>2, <2>5, <2>6 DEF StartAttempt, TypeInv, TypeOK, SlotTypes
<1>5. CASE Analyze(s)
  <2>1. PICK result \in {"completed", "failed"} :
             job' = [job EXCEPT ![s] = [job[s] EXCEPT !.outcome = result]]
    BY <1>5 DEF Analyze
  <2> DEFINE j == [job[s] EXCEPT !.outcome = result]
  <2>2. SlotOK("answered", j) /\ "answered" \in PCs
    BY <1>0, <1>5 DEF Analyze, SlotOK, Job, PCs, WorkerPCs
  <2> HIDE DEF j
  <2>3. pc' = [pc EXCEPT ![s] = "answered"] /\ job' = [job EXCEPT ![s] = j]
    BY <1>5, <2>1 DEF Analyze, Goto, j
  <2> QED
    BY <1>5, <2>2, <2>3, TypeMove DEF Analyze, NoFault
<1>6. CASE Settle(s)
  <2> DEFINE q == job[s].quote
             j == [job[s] EXCEPT !.event = Len(log'[q])]
  <2>1. job[s] \in Job /\ q \in Quotes /\ job[s].outcome \in {"completed", "failed"}
    BY <1>0, <1>6 DEF Settle, SlotOK, Job
  <2>2. /\ log' \in [Quotes -> Seq(Status)]
        /\ status' \in [Quotes -> Status \cup {"absent"}]
        /\ Len(log'[q]) \in Nat
    BY <1>6, <2>1, TypeRecord DEF Settle, Status
  <2>3. SlotOK("settled", j) /\ "settled" \in PCs
    BY <1>0, <1>6, <2>1, <2>2 DEF SlotOK, Job, PCs, WorkerPCs, Settle
  <2>4. SlotOK("closing", job[s]) /\ "closing" \in PCs
    BY <1>0, <1>6, <2>1 DEF SlotOK, PCs, WorkerPCs, Settle
  <2>5. Acked(s, "settled", j) \/ (Goto(s, "closing") /\ UNCHANGED job /\ Fault)
    BY <1>6 DEF Settle
  <2> HIDE DEF j
  <2>6. SlotTypes' /\ JobOK' /\ faults' \in 0..MaxFaults
    <3>1. CASE Acked(s, "settled", j)
      BY <2>3, <3>1, TypeCommit
    <3>2. CASE Goto(s, "closing") /\ UNCHANGED job /\ Fault
      BY <1>0, <2>4, <3>2, GotoStep, LifecycleAssumption DEF Fault, TypeInv, TypeOK
    <3> QED
      BY <2>5, <3>1, <3>2
  <2> QED
    BY <1>6, <2>2, <2>6 DEF Settle, TypeInv, TypeOK, SlotTypes
<1>7. CASE PublishFinal(s)
  <2>1. job[s].quote \in Quotes /\ job[s].event \in Nat
    BY <1>0, <1>7 DEF PublishFinal, SlotOK, Job
  <2>2. SlotOK("closing", job[s]) /\ "closing" \in PCs
    BY <1>0, <1>7 DEF PublishFinal, SlotOK, PCs, WorkerPCs
  <2>3. SlotTypes' /\ JobOK'
    BY <1>0, <1>7, <2>2, GotoStep DEF PublishFinal
  <2>4. published' \in [Quotes -> SUBSET Nat]
    BY <1>7, <2>1 DEF PublishFinal, Publish, TypeInv, TypeOK
  <2> QED
    BY <1>7, <2>3, <2>4 DEF PublishFinal, TypeInv, TypeOK, SlotTypes, dbVars
<1>8. CASE CloseAttempt(s)
  <2> DEFINE q == job[s].quote
             i == job[s].attempt
  <2>1. q \in Quotes /\ i \in Nat /\ job[s].outcome \in {"completed", "failed"}
    BY <1>0, <1>8 DEF CloseAttempt, SlotOK, Job
  <2>2. attempts' \in [Quotes -> Seq(AttemptStatus)]
    <3>1. attempts[q] \in Seq(AttemptStatus)
      BY <2>1 DEF TypeInv, TypeOK
    <3>2. job[s].outcome \in AttemptStatus
      BY <2>1 DEF AttemptStatus
    <3>3. [attempts[q] EXCEPT ![i] = job[s].outcome] \in Seq(AttemptStatus)
      BY <2>1, <3>1, <3>2, SeqExcept
    <3> QED
      BY <1>8, <2>1, <3>3 DEF CloseAttempt, TypeInv, TypeOK
  <2>3. SlotTypes' /\ JobOK'
    BY <1>0, <1>8, ReleaseStep DEF CloseAttempt
  <2>4. faults' \in 0..MaxFaults
    BY <1>8, LifecycleAssumption DEF CloseAttempt, Fault, NoFault, TypeInv, TypeOK
  <2> QED
    BY <1>8, <2>2, <2>3, <2>4 DEF CloseAttempt, TypeInv, TypeOK, SlotTypes
<1> QED
  BY <1>1, <1>2, <1>3, <1>4, <1>5, <1>6, <1>7, <1>8 DEF Work

LEMMA TypeFail == ASSUME TypeInv, NEW s \in Slots, Fail(s) PROVE TypeInv'
<1>0. SlotOK(pc[s], job[s]) /\ SlotTypes
  BY DEF TypeInv, TypeOK, JobOK, SlotTypes
<1>1. CASE AbortTransaction(s)
  BY <1>1, TypeRelease DEF AbortTransaction
<1>2. CASE DropHandler(s)
  BY <1>2, TypeRelease DEF DropHandler
<1>3. CASE FailMark(s)
  BY <1>3, TypeRelease DEF FailMark
<1>4. CASE FailSettle(s)
  <2>1. SlotOK("closing", job[s]) /\ "closing" \in PCs
    BY <1>0, <1>4 DEF FailSettle, SlotOK, PCs, WorkerPCs
  <2>2. pc' = [pc EXCEPT ![s] = "closing"] /\ job' = [job EXCEPT ![s] = job[s]]
    BY <1>0, <1>4 DEF FailSettle, Goto, SlotTypes
  <2> QED
    BY <1>4, <2>1, <2>2, TypeMove DEF FailSettle
<1> QED
  BY <1>1, <1>2, <1>3, <1>4 DEF Fail

LEMMA TypeCrash == ASSUME TypeInv, NEW r \in Replicas, Crash(r) PROVE TypeInv'
<1>1. SlotTypes'
  BY DEF Crash, TypeInv, TypeOK, SlotTypes, PCs
<1>2. JobOK'
  BY DEF Crash, TypeInv, TypeOK, JobOK, SlotOK
<1>3. faults' \in 0..MaxFaults
  BY LifecycleAssumption DEF Crash, Fault, TypeInv, TypeOK
<1> QED
  BY <1>1, <1>2, <1>3 DEF Crash, TypeInv, TypeOK, SlotTypes, dbVars

LEMMA TypeNext == TypeInv /\ [Next]_vars => TypeInv'
<1>1. ASSUME TypeInv, UNCHANGED vars PROVE TypeInv'
  BY <1>1 DEF vars, TypeInv, TypeOK, JobOK
<1> QED
  BY <1>1, TypeSubmit, TypeHandle, TypeWork, TypeFail, TypeCrash DEF Next

LEMMA TypeInvariance == Spec => []TypeInv
  BY TypeInit, TypeNext, PTL DEF Spec

(* Every variable keeps its type whatever the interleaving and the faults: *)
(* in particular every status written is one db/schema.sql allows.         *)
THEOREM TypeCorrect == Spec => []TypeOK
<1>1. TypeInv => TypeOK
  BY DEF TypeInv
<1> QED
  BY <1>1, TypeInvariance, PTL

-----------------------------------------------------------------------------
(* Locks and drivers.                                                      *)
(*                                                                         *)
(* OneDriver is not inductive: that a retry finds no other driver rests on *)
(* the row lock (RowLocks), on a failed quote having no driver             *)
(* (DriverStatus), and, for the operation it stores, on the key's lock     *)
(* (KeyLocks).                                                             *)

HoldsKey == {"keyed", "rowed"}
DrivesQueued == {"committed", "spawned"}
DrivesAnalyzing == {"marked", "announced", "prompted", "answered"}

(* The advisory lock has one holder. *)
KeyLocks ==
    \A s, t \in Slots :
        pc[s] \in HoldsKey /\ pc[t] \in HoldsKey /\ job[s].key = job[t].key => s = t

(* The row lock has one holder, which has seen a failed quote of its owner. *)
RowLocks ==
    /\ \A s, t \in Slots :
          pc[s] = "rowed" /\ pc[t] = "rowed" /\ job[s].quote = job[t].quote => s = t
    /\ \A s \in Slots : pc[s] = "rowed" =>
          /\ status[job[s].quote] = "failed"
          /\ owner[job[s].quote] = OwnerOf[job[s].key]

(* A driver knows its quote's status without reading it. *)
DriverStatus ==
    \A s \in Slots :
        /\ pc[s] \in DrivesQueued => status[job[s].quote] = "queued"
        /\ pc[s] \in DrivesAnalyzing => status[job[s].quote] = "analyzing"

(* A stored operation names an existing quote of the key's owner. *)
OpsOwned ==
    \A k \in Keys : ops[k].kind # "none" =>
        /\ status[ops[k].quote] # "absent"
        /\ owner[ops[k].quote] = OwnerOf[k]

(* What a handler is about to answer is what it stored. *)
CommittedStored ==
    \A s \in Slots : pc[s] = "committed" =>
        /\ ops[job[s].key].kind # "none"
        /\ ops[job[s].key].quote = job[s].quote

SlotInv ==
    /\ KeyLocks
    /\ NoKeyCollision
    /\ RowLocks
    /\ OneDriver
    /\ DriverStatus
    /\ OpsOwned
    /\ CommittedStored
    /\ OrphansNeedFault

LEMMA SlotInvInit == Init => SlotInv
  BY DEF Init, SlotInv, KeyLocks, NoKeyCollision, RowLocks, OneDriver, Drives,
         DriverStatus, OpsOwned, CommittedStored, OrphansNeedFault, Orphan,
         InFlight, NoOp, HoldsKey, DrivesQueued, DrivesAnalyzing

LEMMA DrivesPCs ==
    ASSUME NEW s \in Slots, NEW q
    PROVE  Drives(s, q) <=> (pc[s] \in DrivesQueued \cup DrivesAnalyzing
                               /\ job[s].quote = q)
  BY DEF Drives, DrivesQueued, DrivesAnalyzing

(* A step of slot s that touches neither quotes nor operations, takes no   *)
(* lock, and gives up driving a quote only by a fault.                     *)
QuietMove(s, l, j) ==
    /\ pc' = [pc EXCEPT ![s] = l]
    /\ job' = [job EXCEPT ![s] = j]
    /\ UNCHANGED <<status, owner, ops>>
    /\ l \notin HoldsKey \cup {"committed"}
    /\ l \in DrivesQueued => pc[s] \in DrivesQueued /\ j.quote = job[s].quote
    /\ l \in DrivesAnalyzing => pc[s] \in DrivesAnalyzing /\ j.quote = job[s].quote
    /\ \/ Fault
       \/ /\ NoFault
          /\ pc[s] \in DrivesQueued => l \in DrivesQueued
          /\ pc[s] \in DrivesAnalyzing => l \in DrivesAnalyzing

LEMMA QuietStep ==
    ASSUME TypeInv, SlotInv, NEW s \in Slots, NEW l, NEW j, QuietMove(s, l, j)
    PROVE  SlotInv'
<1>1. /\ pc'[s] = l /\ job'[s] = j
      /\ \A t \in Slots : t # s => pc'[t] = pc[t] /\ job'[t] = job[t]
  BY DEF QuietMove, TypeInv, TypeOK
<1>2. KeyLocks' /\ NoKeyCollision'
  BY <1>1 DEF QuietMove, SlotInv, KeyLocks, NoKeyCollision, HoldsKey
<1>3. RowLocks'
  BY <1>1 DEF QuietMove, SlotInv, RowLocks, HoldsKey
<1>4. DriverStatus'
  BY <1>1 DEF QuietMove, SlotInv, DriverStatus
<1>5. \A t \in Slots, q \in Quotes : Drives(t, q)' => Drives(t, q)
  BY <1>1, DrivesPCs DEF QuietMove, Drives, DrivesQueued, DrivesAnalyzing
<1>6. OneDriver'
  BY <1>5 DEF SlotInv, OneDriver
<1>7. OpsOwned' /\ CommittedStored'
  BY <1>1 DEF QuietMove, SlotInv, OpsOwned, CommittedStored
<1>8. OrphansNeedFault'
  <2>1. CASE Fault
    BY <2>1 DEF Fault, OrphansNeedFault, TypeInv, TypeOK
  <2>2. CASE ~Fault
    <3>1. \A t \in Slots, q \in Quotes : Drives(t, q) => Drives(t, q)'
      BY <1>1, <2>2 DEF QuietMove, Drives, DrivesQueued, DrivesAnalyzing
    <3> QED
      BY <2>2, <3>1 DEF QuietMove, NoFault, SlotInv, OrphansNeedFault, Orphan, InFlight
  <2> QED
    BY <2>1, <2>2
<1> QED
  BY <1>2, <1>3, <1>4, <1>6, <1>7, <1>8 DEF SlotInv

(* The handler takes the key's lock. *)
LEMMA LockKeyStep == ASSUME TypeInv, SlotInv, NEW s \in Slots, LockKey(s) PROVE SlotInv'
<1>1. /\ pc'[s] = "keyed" /\ job' = job /\ UNCHANGED <<status, owner, ops, faults>>
      /\ \A t \in Slots : t # s => pc'[t] = pc[t]
  BY DEF LockKey, Goto, TypeInv, TypeOK, dbVars
<1>2. KeyLocks'
  BY <1>1 DEF LockKey, KeyFree, SlotInv, KeyLocks, HoldsKey
<1>3. NoKeyCollision'
  BY <1>1 DEF LockKey, SlotInv, NoKeyCollision
<1>4. RowLocks' /\ DriverStatus' /\ OpsOwned' /\ CommittedStored'
  BY <1>1 DEF SlotInv, RowLocks, DriverStatus, OpsOwned, CommittedStored,
              DrivesQueued, DrivesAnalyzing
<1>5. \A t \in Slots, q \in Quotes : Drives(t, q)' <=> Drives(t, q)
  BY <1>1 DEF LockKey, Drives
<1> QED
  BY <1>1, <1>2, <1>3, <1>4, <1>5 DEF SlotInv, OneDriver, OrphansNeedFault, Orphan, InFlight

(* The handler takes the row's lock. *)
LEMMA LockRowStep == ASSUME TypeInv, SlotInv, NEW s \in Slots, LockRow(s) PROVE SlotInv'
<1>1. /\ pc[s] = "keyed" /\ pc'[s] = "rowed" /\ job' = job
      /\ UNCHANGED <<status, owner, ops, faults>>
      /\ \A t \in Slots : t # s => pc'[t] = pc[t]
  BY DEF LockRow, Goto, TypeInv, TypeOK, dbVars
<1>2. KeyLocks' /\ NoKeyCollision'
  BY <1>1 DEF SlotInv, KeyLocks, NoKeyCollision, HoldsKey
<1>3. RowLocks'
  BY <1>1 DEF LockRow, RowFree, SlotInv, RowLocks
<1>4. DriverStatus' /\ OpsOwned' /\ CommittedStored'
  BY <1>1 DEF SlotInv, DriverStatus, OpsOwned, CommittedStored,
              DrivesQueued, DrivesAnalyzing
<1>5. \A t \in Slots, q \in Quotes : Drives(t, q)' <=> Drives(t, q)
  BY <1>1 DEF Drives
<1> QED
  BY <1>1, <1>2, <1>3, <1>4, <1>5 DEF SlotInv, OneDriver, OrphansNeedFault, Orphan, InFlight

(* The two ways a commit ends, seen from the slots. *)
LEMMA CommitEnds ==
    ASSUME TypeInv, NEW s \in Slots, NEW l, NEW j, Acked(s, l, j) \/ Unacked(s)
    PROVE  /\ \/ pc'[s] = l /\ job'[s] = j /\ faults' = faults
              \/ pc'[s] = "idle" /\ job'[s] = NoJob /\ faults' # 0
           /\ \A t \in Slots : t # s => pc'[t] = pc[t] /\ job'[t] = job[t]
  BY DEF Acked, Unacked, Release, Goto, Fault, NoFault, TypeInv, TypeOK

(* A submission's transaction commits: its quote, until now driven by      *)
(* nobody, is queued and driven by s alone, if by anyone.                  *)
Queues(s, q, op) ==
    LET k == job[s].key IN
    /\ pc[s] \in HoldsKey
    /\ status[q] \in {"absent", "failed"}
    /\ status' = [status EXCEPT ![q] = "queued"]
    /\ ops' = [ops EXCEPT ![k] = op]
    /\ op.kind # "none" /\ op.quote = q
    /\ \/ status[q] = "absent" /\ owner' = [owner EXCEPT ![q] = OwnerOf[k]]
       \/ pc[s] = "rowed" /\ job[s].quote = q /\ owner[q] = OwnerOf[k] /\ UNCHANGED owner
    /\ \/ /\ pc'[s] = "committed"
          /\ job'[s].key = k /\ job'[s].quote = q
          /\ faults' = faults
       \/ pc'[s] = "idle" /\ faults' # 0
    /\ \A t \in Slots : t # s => pc'[t] = pc[t] /\ job'[t] = job[t]

LEMMA QueuesStep ==
    ASSUME TypeInv, SlotInv, NEW s \in Slots, NEW q \in Quotes, NEW op, job[s].key \in Keys,
           Queues(s, q, op)
    PROVE  SlotInv'
<1> DEFINE k == job[s].key
<1>1. \A t \in Slots : t # s => pc'[t] = pc[t] /\ job'[t] = job[t]
  BY DEF Queues
<1>2. \A t \in Slots : t # s /\ pc[t] \in HoldsKey => job[t].key # k
  BY DEF SlotInv, KeyLocks, Queues
<1>3. ops[k].kind = "none"
  BY DEF SlotInv, NoKeyCollision, Queues, HoldsKey
<1>4. \A p \in Quotes : p # q => status'[p] = status[p] /\ owner'[p] = owner[p]
  BY DEF Queues, TypeInv, TypeOK
<1>5. status'[q] = "queued" /\ owner'[q] = OwnerOf[k]
  BY DEF Queues, TypeInv, TypeOK
<1>6. ops'[k] = op /\ \A h \in Keys : h # k => ops'[h] = ops[h]
  BY DEF Queues, TypeInv, TypeOK
<1>7. KeyLocks'
  BY <1>1 DEF SlotInv, KeyLocks, Queues, HoldsKey
<1>8. NoKeyCollision'
  <2> SUFFICES ASSUME NEW t \in Slots, pc'[t] \in {"keyed", "rowed"}
               PROVE  ops'[job'[t].key].kind = "none"
    BY DEF NoKeyCollision
  <2>1. t # s
    BY DEF Queues
  <2>2. job[t].key \in Keys /\ job[t].key # k
    BY <1>1, <1>2, <2>1 DEF HoldsKey, TypeInv, JobOK, SlotOK, Job
  <2> QED
    BY <1>1, <1>6, <2>1, <2>2 DEF SlotInv, NoKeyCollision
<1>9. \A t \in Slots : pc[t] \in DrivesQueued \cup DrivesAnalyzing => job[t].quote # q
  BY DEF SlotInv, DriverStatus, Queues
<1>10. \A t \in Slots : pc[t] \in DrivesQueued \cup DrivesAnalyzing => job[t].quote \in Quotes
  BY DEF TypeInv, JobOK, SlotOK, DrivesQueued, DrivesAnalyzing
<1>11. RowLocks'
  <2>1. \A t \in Slots : pc'[t] = "rowed" => t # s /\ job'[t].quote # q /\ job[t].quote \in Quotes
    BY <1>1 DEF SlotInv, RowLocks, Queues, TypeInv, JobOK, SlotOK
  <2> QED
    BY <1>1, <1>4, <2>1 DEF SlotInv, RowLocks
<1>12. DriverStatus'
  <2>1. \A t \in Slots : t # s => DriverStatus!(t)'
    BY <1>1, <1>4, <1>9, <1>10 DEF SlotInv, DriverStatus
  <2>2. DriverStatus!(s)'
    BY <1>5 DEF Queues, DrivesQueued, DrivesAnalyzing
  <2> QED
    BY <2>1, <2>2 DEF DriverStatus
<1>13. \A t \in Slots, p \in Quotes : t # s => (Drives(t, p)' <=> Drives(t, p))
  BY <1>1 DEF Drives
<1>14. \A p \in Quotes : Drives(s, p)' => p = q
  BY DEF Drives, Queues
<1>15. OneDriver'
  BY <1>9, <1>13, <1>14, DrivesPCs DEF SlotInv, OneDriver
<1>16. OpsOwned'
  <2> SUFFICES ASSUME NEW h \in Keys, ops'[h].kind # "none"
               PROVE  status'[ops'[h].quote] # "absent" /\ owner'[ops'[h].quote] = OwnerOf[h]
    BY DEF OpsOwned
  <2>1. CASE h = k
    BY <1>5, <1>6, <2>1 DEF Queues
  <2>2. CASE h # k
    <3>1. ops[h].quote \in Quotes
      BY <1>6, <2>2 DEF TypeInv, TypeOK, Op, NoOp
    <3>2. status[ops[h].quote] # "absent" /\ owner[ops[h].quote] = OwnerOf[h]
      BY <1>6, <2>2 DEF SlotInv, OpsOwned
    <3>3. CASE ops[h].quote # q
      BY <1>4, <1>6, <2>2, <3>1, <3>2, <3>3
    <3>4. CASE ops[h].quote = q
      BY <1>5, <1>6, <2>2, <3>2, <3>4 DEF Queues
    <3> QED
      BY <3>3, <3>4
  <2> QED
    BY <2>1, <2>2
<1>17. CommittedStored'
  <2> SUFFICES ASSUME NEW t \in Slots, pc'[t] = "committed"
               PROVE  ops'[job'[t].key].kind # "none" /\ ops'[job'[t].key].quote = job'[t].quote
    BY DEF CommittedStored
  <2>1. CASE t = s
    BY <1>6, <2>1 DEF Queues
  <2>2. CASE t # s
    <3>1. job[t].key \in Keys /\ job[t].key # k
      BY <1>1, <1>3, <2>2 DEF SlotInv, CommittedStored, TypeInv, JobOK, SlotOK, Job
    <3> QED
      BY <1>1, <1>6, <2>2, <3>1 DEF SlotInv, CommittedStored
  <2> QED
    BY <2>1, <2>2
<1>18. OrphansNeedFault'
  <2>1. CASE faults' # 0
    BY <2>1 DEF OrphansNeedFault
  <2>2. CASE faults' = 0
    <3>1. Drives(s, q)' /\ faults = 0
      BY <2>2 DEF Queues, Drives
    <3>2. ASSUME NEW p \in Quotes, p # q PROVE ~Orphan(p)'
      <4>1. ~Orphan(p)
        BY <3>1 DEF SlotInv, OrphansNeedFault
      <4>2. ~Drives(s, p)
        BY DEF Drives, Queues, HoldsKey
      <4> QED
        BY <1>4, <1>13, <3>2, <4>1, <4>2 DEF Orphan, InFlight
    <3> QED
      BY <3>1, <3>2 DEF OrphansNeedFault, Orphan
  <2> QED
    BY <2>1, <2>2
<1> QED
  BY <1>7, <1>8, <1>11, <1>12, <1>15, <1>16, <1>17, <1>18 DEF SlotInv

LEMMA CommitCreateStep ==
    ASSUME TypeInv, SlotInv, NEW s \in Slots, NEW q \in Quotes, CommitCreate(s, q)
    PROVE  SlotInv'
<1> DEFINE op == [kind |-> "create", quote |-> q, request |-> job[s].request]
           j == [job[s] EXCEPT !.quote = q, !.event = Len(log'[q])]
<1>1. job[s] \in Job /\ job[s].key \in Keys
  BY DEF CommitCreate, TypeInv, JobOK, SlotOK, Job
<1>2. j.key = job[s].key /\ j.quote = q
  BY <1>1 DEF Job
<1>3. Acked(s, "committed", j) \/ Unacked(s)
  BY DEF CommitCreate
<1> HIDE DEF j
<1>4. /\ \/ pc'[s] = "committed" /\ job'[s] = j /\ faults' = faults
         \/ pc'[s] = "idle" /\ faults' # 0
      /\ \A t \in Slots : t # s => pc'[t] = pc[t] /\ job'[t] = job[t]
  BY <1>3, CommitEnds
<1>5. /\ pc[s] = "keyed" /\ status[q] = "absent"
      /\ status' = [status EXCEPT ![q] = "queued"]
      /\ owner' = [owner EXCEPT ![q] = OwnerOf[job[s].key]]
      /\ ops' = [ops EXCEPT ![job[s].key] = op]
  BY DEF CommitCreate, Record
<1>6. op.kind # "none" /\ op.quote = q
  OBVIOUS
<1> HIDE DEF op
<1>7. Queues(s, q, op)
  BY <1>2, <1>4, <1>5, <1>6 DEF Queues, HoldsKey
<1> QED
  BY <1>1, <1>7, QueuesStep

LEMMA CommitRetryStep ==
    ASSUME TypeInv, SlotInv, NEW s \in Slots, CommitRetry(s)
    PROVE  SlotInv'
<1> DEFINE q == job[s].quote
           op == [kind |-> "retry", quote |-> q, request |-> Nil]
           j == [job[s] EXCEPT !.event = Len(log'[q])]
<1>1. job[s] \in Job /\ job[s].key \in Keys /\ q \in Quotes
  BY DEF CommitRetry, TypeInv, JobOK, SlotOK, Job
<1>2. j.key = job[s].key /\ j.quote = q
  BY <1>1 DEF Job
<1>3. Acked(s, "committed", j) \/ Unacked(s)
  BY DEF CommitRetry
<1> HIDE DEF j
<1>4. status[q] = "failed" /\ owner[q] = OwnerOf[job[s].key]
  BY DEF CommitRetry, SlotInv, RowLocks
<1>5. /\ \/ pc'[s] = "committed" /\ job'[s] = j /\ faults' = faults
         \/ pc'[s] = "idle" /\ faults' # 0
      /\ \A t \in Slots : t # s => pc'[t] = pc[t] /\ job'[t] = job[t]
  BY <1>3, CommitEnds
<1>6. /\ pc[s] = "rowed"
      /\ status' = [status EXCEPT ![q] = "queued"]
      /\ ops' = [ops EXCEPT ![job[s].key] = op]
      /\ UNCHANGED owner
  BY DEF CommitRetry, Record
<1>7. op.kind # "none" /\ op.quote = q
  OBVIOUS
<1> HIDE DEF op
<1>8. Queues(s, q, op)
  BY <1>2, <1>4, <1>5, <1>6, <1>7 DEF Queues, HoldsKey
<1> QED
  BY <1>1, <1>8, QueuesStep

(* A worker's status update: the driver of q overwrites q's status and     *)
(* stays its driver, or leaves it final, or is gone through a fault.       *)
Advances(s, q, new) ==
    /\ pc[s] \in DrivesQueued \cup DrivesAnalyzing
    /\ job[s].quote = q
    /\ status' = [status EXCEPT ![q] = new]
    /\ UNCHANGED <<owner, ops>>
    /\ new # "absent"
    /\ \/ /\ pc'[s] = "marked" /\ new = "analyzing" /\ job'[s].quote = q
          /\ faults' = faults
       \/ pc'[s] = "idle" /\ faults' # 0
       \/ /\ pc'[s] \in {"settled", "closing"} /\ new \in {"completed", "failed"}
          /\ faults' = faults \/ faults' # 0
    /\ \A t \in Slots : t # s => pc'[t] = pc[t] /\ job'[t] = job[t]

LEMMA AdvancesStep ==
    ASSUME TypeInv, SlotInv, NEW s \in Slots, NEW q \in Quotes, NEW new, Advances(s, q, new)
    PROVE  SlotInv'
<1>1. \A t \in Slots : t # s => pc'[t] = pc[t] /\ job'[t] = job[t]
  BY DEF Advances
<1>2. /\ status'[q] = new
      /\ \A p \in Quotes : p # q => status'[p] = status[p]
  BY DEF Advances, TypeInv, TypeOK
<1>3. KeyLocks' /\ NoKeyCollision'
  BY <1>1 DEF Advances, SlotInv, KeyLocks, NoKeyCollision, HoldsKey
<1>4. RowLocks'
  <2>1. status[q] # "failed"
    BY DEF Advances, SlotInv, DriverStatus
  <2>2. \A t \in Slots : pc'[t] = "rowed" => t # s /\ job[t].quote # q /\ job[t].quote \in Quotes
    BY <1>1, <2>1 DEF Advances, SlotInv, RowLocks, TypeInv, JobOK, SlotOK
  <2> QED
    BY <1>1, <1>2, <2>2 DEF Advances, SlotInv, RowLocks
<1>5. \A t \in Slots : t # s /\ pc[t] \in DrivesQueued \cup DrivesAnalyzing =>
          job[t].quote # q /\ job[t].quote \in Quotes
  BY DrivesPCs DEF Advances, SlotInv, OneDriver, TypeInv, JobOK, SlotOK,
                   DrivesQueued, DrivesAnalyzing
<1>6. DriverStatus'
  <2>1. \A t \in Slots : t # s => DriverStatus!(t)'
    BY <1>1, <1>2, <1>5 DEF SlotInv, DriverStatus
  <2>2. DriverStatus!(s)'
    BY <1>2 DEF Advances, DrivesQueued, DrivesAnalyzing
  <2> QED
    BY <2>1, <2>2 DEF DriverStatus
<1>7. \A t \in Slots, p \in Quotes : t # s => (Drives(t, p)' <=> Drives(t, p))
  BY <1>1 DEF Drives
<1>8. \A p \in Quotes : Drives(s, p)' => p = q
  BY DEF Drives, Advances
<1>9. OneDriver'
  BY <1>5, <1>7, <1>8, DrivesPCs DEF SlotInv, OneDriver
<1>10. OpsOwned'
  <2>1. \A k \in Keys : ops[k].kind # "none" => ops[k].quote \in Quotes
    BY DEF TypeInv, TypeOK, Op, NoOp
  <2> QED
    BY <1>2, <2>1 DEF Advances, SlotInv, OpsOwned
<1>11. CommittedStored'
  BY <1>1 DEF Advances, SlotInv, CommittedStored
<1>12. OrphansNeedFault'
  <2>1. CASE faults' # 0
    BY <2>1 DEF OrphansNeedFault
  <2>2. CASE faults' = 0
    <3>1. ~Orphan(q)'
      BY <1>2, <2>2 DEF Advances, Orphan, InFlight, Drives
    <3>2. ASSUME NEW p \in Quotes, p # q PROVE ~Orphan(p)'
      <4>1. ~Orphan(p)
        BY <2>2 DEF Advances, SlotInv, OrphansNeedFault
      <4>2. ~Drives(s, p)
        BY <3>2 DEF Drives, Advances
      <4> QED
        BY <1>2, <1>7, <3>2, <4>1, <4>2 DEF Orphan, InFlight
    <3> QED
      BY <3>1, <3>2 DEF OrphansNeedFault
  <2> QED
    BY <2>1, <2>2
<1> QED
  BY <1>3, <1>4, <1>6, <1>9, <1>10, <1>11, <1>12 DEF SlotInv

LEMMA MarkAnalyzingStep ==
    ASSUME TypeInv, SlotInv, NEW s \in Slots, MarkAnalyzing(s)
    PROVE  SlotInv'
<1> DEFINE q == job[s].quote
           j == [job[s] EXCEPT !.event = Len(log'[q])]
<1>1. job[s] \in Job /\ q \in Quotes
  BY DEF MarkAnalyzing, TypeInv, JobOK, SlotOK
<1>2. j.quote = q
  BY <1>1 DEF Job
<1>3. Acked(s, "marked", j) \/ Unacked(s)
  BY DEF MarkAnalyzing
<1> HIDE DEF j
<1>4. Advances(s, q, "analyzing")
  BY <1>2, <1>3, CommitEnds DEF Advances, MarkAnalyzing, Record, DrivesQueued
<1> QED
  BY <1>1, <1>4, AdvancesStep

LEMMA SettleStep ==
    ASSUME TypeInv, SlotInv, NEW s \in Slots, Settle(s)
    PROVE  SlotInv'
<1> DEFINE q == job[s].quote
           j == [job[s] EXCEPT !.event = Len(log'[q])]
<1>1. q \in Quotes /\ job[s].outcome \in {"completed", "failed"}
  BY DEF Settle, TypeInv, JobOK, SlotOK, Job
<1>2. Acked(s, "settled", j) \/ (Goto(s, "closing") /\ UNCHANGED job /\ Fault)
  BY DEF Settle
<1> HIDE DEF j
<1>3. /\ pc'[s] \in {"settled", "closing"}
      /\ faults' = faults \/ faults' # 0
      /\ \A t \in Slots : t # s => pc'[t] = pc[t] /\ job'[t] = job[t]
  BY <1>2 DEF Acked, Goto, Fault, NoFault, TypeInv, TypeOK
<1>4. Advances(s, q, job[s].outcome)
  BY <1>1, <1>3 DEF Advances, Settle, Record, DrivesAnalyzing
<1> QED
  BY <1>1, <1>4, AdvancesStep

LEMMA CrashStep == ASSUME TypeInv, SlotInv, NEW r \in Replicas, Crash(r) PROVE SlotInv'
<1>1. /\ \A t \in Slots : pc'[t] = "idle" \/ (pc'[t] = pc[t] /\ job'[t] = job[t])
      /\ UNCHANGED <<status, owner, ops>>
      /\ faults' # 0
  BY DEF Crash, Fault, dbVars, TypeInv, TypeOK
<1>2. KeyLocks' /\ NoKeyCollision'
  BY <1>1 DEF SlotInv, KeyLocks, NoKeyCollision, HoldsKey
<1>3. RowLocks'
  BY <1>1 DEF SlotInv, RowLocks
<1>4. OneDriver'
  BY <1>1 DEF SlotInv, OneDriver, Drives
<1>5. DriverStatus'
  BY <1>1 DEF SlotInv, DriverStatus, DrivesQueued, DrivesAnalyzing
<1>6. OpsOwned' /\ CommittedStored' /\ OrphansNeedFault'
  BY <1>1 DEF SlotInv, OpsOwned, CommittedStored, OrphansNeedFault
<1> QED
  BY <1>2, <1>3, <1>4, <1>5, <1>6 DEF SlotInv

(* Every other step of a slot is quiet. *)
LEMMA QuietRelease ==
    ASSUME TypeInv, SlotInv, NEW s \in Slots, Release(s), UNCHANGED <<status, owner, ops>>,
           Fault \/ (NoFault /\ pc[s] \notin DrivesQueued \cup DrivesAnalyzing)
    PROVE  SlotInv'
<1>1. QuietMove(s, "idle", NoJob)
  BY DEF QuietMove, Release, Goto, HoldsKey, DrivesQueued, DrivesAnalyzing
<1> QED
  BY <1>1, QuietStep

LEMMA QuietGoto ==
    ASSUME TypeInv, SlotInv, NEW s \in Slots, NEW l, Goto(s, l), job' = job,
           UNCHANGED <<status, owner, ops>>,
           l \notin HoldsKey \cup {"committed"},
           l \in DrivesQueued => pc[s] \in DrivesQueued,
           l \in DrivesAnalyzing => pc[s] \in DrivesAnalyzing,
           \/ Fault
           \/ /\ NoFault
              /\ pc[s] \in DrivesQueued => l \in DrivesQueued
              /\ pc[s] \in DrivesAnalyzing => l \in DrivesAnalyzing
    PROVE  SlotInv'
<1>1. job' = [job EXCEPT ![s] = job[s]]
  BY DEF TypeInv, TypeOK
<1>2. QuietMove(s, l, job[s])
  BY <1>1 DEF QuietMove, Goto
<1> QED
  BY <1>2, QuietStep

LEMMA SlotInvSubmit == ASSUME TypeInv, SlotInv, NEW s \in Slots, Submit(s) PROVE SlotInv'
<1>1. ASSUME NEW k \in Keys, NEW r \in Requests, AcceptCreate(s, k, r) PROVE SlotInv'
  <2> DEFINE j == [NoJob EXCEPT !.key = k, !.kind = "create", !.request = r]
  <2>1. job' = [job EXCEPT ![s] = j]
    BY <1>1 DEF AcceptCreate
  <2> HIDE DEF j
  <2>2. QuietMove(s, "accepted", j)
    BY <1>1, <2>1 DEF AcceptCreate, Goto, QuietMove, NoFault, dbVars, HoldsKey,
                      DrivesQueued, DrivesAnalyzing
  <2> QED
    BY <2>2, QuietStep
<1>2. ASSUME NEW k \in Keys, NEW q \in Quotes, AcceptRetry(s, k, q) PROVE SlotInv'
  <2> DEFINE j == [NoJob EXCEPT !.key = k, !.kind = "retry", !.quote = q]
  <2>1. job' = [job EXCEPT ![s] = j]
    BY <1>2 DEF AcceptRetry
  <2> HIDE DEF j
  <2>2. QuietMove(s, "accepted", j)
    BY <1>2, <2>1 DEF AcceptRetry, Goto, QuietMove, NoFault, dbVars, HoldsKey,
                      DrivesQueued, DrivesAnalyzing
  <2> QED
    BY <2>2, QuietStep
<1> QED
  BY <1>1, <1>2 DEF Submit

LEMMA SlotInvHandle == ASSUME TypeInv, SlotInv, NEW s \in Slots, Handle(s) PROVE SlotInv'
<1>1. CASE RejectReuse(s)
  BY <1>1, QuietRelease DEF RejectReuse, NoFault, dbVars, DrivesQueued, DrivesAnalyzing
<1>2. CASE Replay(s)
  BY <1>2, QuietRelease DEF Replay, NoFault, dbVars, DrivesQueued, DrivesAnalyzing
<1>3. CASE RejectContext(s)
  BY <1>3, QuietRelease DEF RejectContext, NoFault, dbVars, DrivesQueued, DrivesAnalyzing
<1>4. CASE RejectRetry(s)
  BY <1>4, QuietRelease DEF RejectRetry, NoFault, dbVars, DrivesQueued, DrivesAnalyzing
<1>5. CASE Spawn(s)
  BY <1>5, QuietGoto DEF Spawn, NoFault, dbVars, HoldsKey, DrivesQueued, DrivesAnalyzing
<1> QED
  BY <1>1, <1>2, <1>3, <1>4, <1>5, LockKeyStep, LockRowStep, CommitCreateStep, CommitRetryStep
  DEF Handle

LEMMA SlotInvWork == ASSUME TypeInv, SlotInv, NEW s \in Slots, Work(s) PROVE SlotInv'
<1>0. pc[s] = "announced" \/ pc[s] = "prompted" => job[s] \in Job
  BY DEF TypeInv, JobOK, SlotOK
<1>1. CASE Announce(s)
  BY <1>1, QuietGoto DEF Announce, NoFault, dbVars, HoldsKey, DrivesQueued, DrivesAnalyzing
<1>2. CASE NoProvider(s)
  <2> DEFINE j == [job[s] EXCEPT !.outcome = "failed"]
  <2>1. j.quote = job[s].quote
    BY <1>0, <1>2 DEF NoProvider, Job
  <2>2. job' = [job EXCEPT ![s] = j]
    BY <1>2 DEF NoProvider
  <2> HIDE DEF j
  <2>3. QuietMove(s, "answered", j)
    BY <1>2, <2>1, <2>2 DEF NoProvider, Goto, QuietMove, NoFault, dbVars, HoldsKey,
                            DrivesQueued, DrivesAnalyzing
  <2> QED
    BY <2>3, QuietStep
<1>3. CASE StartAttempt(s)
  <2> DEFINE j == [job[s] EXCEPT !.attempt = Len(attempts'[job[s].quote])]
  <2>1. j.quote = job[s].quote
    BY <1>0, <1>3 DEF StartAttempt, Job
  <2>2. \/ job' = [job EXCEPT ![s] = j] /\ NoFault
        \/ job' = job /\ Fault
    BY <1>3 DEF StartAttempt
  <2> HIDE DEF j
  <2>3. CASE job' = [job EXCEPT ![s] = j] /\ NoFault
    <3>1. QuietMove(s, "prompted", j)
      BY <1>3, <2>1, <2>3 DEF StartAttempt, Goto, QuietMove, HoldsKey,
                              DrivesQueued, DrivesAnalyzing
    <3> QED
      BY <3>1, QuietStep
  <2>4. CASE job' = job /\ Fault
    BY <1>3, <2>4, QuietGoto DEF StartAttempt, HoldsKey, DrivesQueued, DrivesAnalyzing
  <2> QED
    BY <2>2, <2>3, <2>4
<1>4. CASE Analyze(s)
  <2>1. PICK result \in {"completed", "failed"} : job' = [job EXCEPT ![s].outcome = result]
    BY <1>4 DEF Analyze
  <2> DEFINE j == [job[s] EXCEPT !.outcome = result]
  <2>2. j.quote = job[s].quote
    BY <1>0, <1>4 DEF Analyze, Job
  <2>3. job' = [job EXCEPT ![s] = j]
    BY <2>1
  <2> HIDE DEF j
  <2>4. QuietMove(s, "answered", j)
    BY <1>4, <2>2, <2>3 DEF Analyze, Goto, QuietMove, NoFault, dbVars, HoldsKey,
                            DrivesQueued, DrivesAnalyzing
  <2> QED
    BY <2>4, QuietStep
<1>5. CASE PublishFinal(s)
  BY <1>5, QuietGoto DEF PublishFinal, NoFault, dbVars, HoldsKey, DrivesQueued, DrivesAnalyzing
<1>6. CASE CloseAttempt(s)
  BY <1>6, QuietRelease DEF CloseAttempt, dbVars, DrivesQueued, DrivesAnalyzing
<1> QED
  BY <1>1, <1>2, <1>3, <1>4, <1>5, <1>6, MarkAnalyzingStep, SettleStep DEF Work

LEMMA SlotInvFail == ASSUME TypeInv, SlotInv, NEW s \in Slots, Fail(s) PROVE SlotInv'
<1>1. CASE AbortTransaction(s)
  BY <1>1, QuietRelease DEF AbortTransaction, dbVars
<1>2. CASE DropHandler(s)
  BY <1>2, QuietRelease DEF DropHandler, dbVars
<1>3. CASE FailMark(s)
  BY <1>3, QuietRelease DEF FailMark, dbVars
<1>4. CASE FailSettle(s)
  BY <1>4, QuietGoto DEF FailSettle, dbVars, HoldsKey, DrivesQueued, DrivesAnalyzing
<1> QED
  BY <1>1, <1>2, <1>3, <1>4 DEF Fail

LEMMA SlotInvNext == TypeInv /\ SlotInv /\ [Next]_vars => SlotInv'
<1>1. ASSUME SlotInv, UNCHANGED vars PROVE SlotInv'
  BY <1>1 DEF vars, SlotInv, KeyLocks, NoKeyCollision, RowLocks, OneDriver, Drives,
              DriverStatus, OpsOwned, CommittedStored, OrphansNeedFault, Orphan, InFlight
<1> QED
  BY <1>1, SlotInvSubmit, SlotInvHandle, SlotInvWork, SlotInvFail, CrashStep DEF Next

LEMMA SlotInvariance == Spec => []SlotInv
<1>1. Init => SlotInv
  BY SlotInvInit
<1> QED
  BY <1>1, TypeInvariance, SlotInvNext, PTL DEF Spec

(* However many replicas and permits there are, no two tasks ever work on  *)
(* the same quote: the unconditional updates of run_quote_analysis never   *)
(* overwrite one another.                                                  *)
THEOREM SingleDriver == Spec => []OneDriver
<1>1. SlotInv => OneDriver
  BY DEF SlotInv
<1> QED
  BY <1>1, SlotInvariance, PTL

(* The advisory lock of lock_idempotency makes the check before the insert *)
(* of canonical_quote_operation sound.                                     *)
THEOREM KeysNeverCollide == Spec => []NoKeyCollision
<1>1. SlotInv => NoKeyCollision
  BY DEF SlotInv
<1> QED
  BY <1>1, SlotInvariance, PTL

(* Without a fault no quote is ever left in flight with nobody on it. *)
THEOREM NoOrphanWithoutFault == Spec => []OrphansNeedFault
<1>1. SlotInv => OrphansNeedFault
  BY DEF SlotInv
<1> QED
  BY <1>1, SlotInvariance, PTL

-----------------------------------------------------------------------------
(* Histories, replies and the contract *)

(* Four actions write quotes, their events or the operations. *)
LEMMA Writers ==
    ASSUME [Next]_vars
    PROVE  \/ UNCHANGED <<status, owner, ops, log>>
           \/ \E s \in Slots :
                \/ \E q \in Quotes : CommitCreate(s, q)
                \/ CommitRetry(s) \/ MarkAnalyzing(s) \/ Settle(s)
<1>1. ASSUME NEW s \in Slots, Submit(s) PROVE UNCHANGED <<status, owner, ops, log>>
  BY <1>1 DEF Submit, AcceptCreate, AcceptRetry, dbVars
<1>2. ASSUME NEW s \in Slots, Fail(s) PROVE UNCHANGED <<status, owner, ops, log>>
  BY <1>2 DEF Fail, AbortTransaction, DropHandler, FailMark, FailSettle, dbVars
<1>3. ASSUME NEW r \in Replicas, Crash(r) PROVE UNCHANGED <<status, owner, ops, log>>
  BY <1>3 DEF Crash, dbVars
<1>4. ASSUME NEW s \in Slots, Handle(s)
      PROVE  \/ UNCHANGED <<status, owner, ops, log>>
             \/ \E q \in Quotes : CommitCreate(s, q)
             \/ CommitRetry(s)
  BY <1>4 DEF Handle, RejectReuse, Replay, LockKey, RejectContext, LockRow, RejectRetry,
              Spawn, dbVars
<1>5. ASSUME NEW s \in Slots, Work(s)
      PROVE  UNCHANGED <<status, owner, ops, log>> \/ MarkAnalyzing(s) \/ Settle(s)
  BY <1>5 DEF Work, Announce, NoProvider, StartAttempt, Analyze, PublishFinal,
              CloseAttempt, dbVars
<1>6. CASE UNCHANGED vars
  BY <1>6 DEF vars
<1> QED
  BY <1>1, <1>2, <1>3, <1>4, <1>5, <1>6 DEF Next

(* What each of them finds and writes: the quote it names and the          *)
(* transition it makes.                                                    *)
LEMMA WriterMoves ==
    ASSUME TypeInv, SlotInv, NEW s \in Slots
    PROVE  /\ CommitRetry(s) =>
                /\ job[s].quote \in Quotes /\ job[s].key \in Keys
                /\ status[job[s].quote] = "failed"
                /\ owner[job[s].quote] = OwnerOf[job[s].key]
                /\ Record(job[s].quote, "queued")
           /\ MarkAnalyzing(s) =>
                /\ job[s].quote \in Quotes
                /\ status[job[s].quote] = "queued" /\ Drives(s, job[s].quote)
                /\ Record(job[s].quote, "analyzing")
                /\ UNCHANGED <<owner, ops>>
           /\ Settle(s) =>
                /\ job[s].quote \in Quotes
                /\ status[job[s].quote] = "analyzing" /\ Drives(s, job[s].quote)
                /\ job[s].outcome \in {"completed", "failed"}
                /\ Record(job[s].quote, job[s].outcome)
                /\ UNCHANGED <<owner, ops>>
<1>1. ASSUME CommitRetry(s)
      PROVE  /\ job[s].quote \in Quotes /\ job[s].key \in Keys
             /\ status[job[s].quote] = "failed"
             /\ owner[job[s].quote] = OwnerOf[job[s].key]
             /\ Record(job[s].quote, "queued")
  <2>1. pc[s] = "rowed" /\ Record(job[s].quote, "queued")
    BY <1>1 DEF CommitRetry
  <2>2. job[s].quote \in Quotes /\ job[s].key \in Keys
    BY <2>1 DEF TypeInv, JobOK, SlotOK, Job
  <2> QED
    BY <2>1, <2>2 DEF SlotInv, RowLocks
<1>2. ASSUME MarkAnalyzing(s)
      PROVE  /\ job[s].quote \in Quotes
             /\ status[job[s].quote] = "queued" /\ Drives(s, job[s].quote)
             /\ Record(job[s].quote, "analyzing")
             /\ UNCHANGED <<owner, ops>>
  <2>1. pc[s] = "spawned" /\ Record(job[s].quote, "analyzing") /\ UNCHANGED <<owner, ops>>
    BY <1>2 DEF MarkAnalyzing
  <2>2. job[s].quote \in Quotes
    BY <2>1 DEF TypeInv, JobOK, SlotOK
  <2> QED
    BY <2>1, <2>2 DEF SlotInv, DriverStatus, DrivesQueued, Drives
<1>3. ASSUME Settle(s)
      PROVE  /\ job[s].quote \in Quotes
             /\ status[job[s].quote] = "analyzing" /\ Drives(s, job[s].quote)
             /\ job[s].outcome \in {"completed", "failed"}
             /\ Record(job[s].quote, job[s].outcome)
             /\ UNCHANGED <<owner, ops>>
  <2>1. /\ pc[s] = "answered" /\ Record(job[s].quote, job[s].outcome)
        /\ UNCHANGED <<owner, ops>>
    BY <1>3 DEF Settle
  <2>2. job[s].quote \in Quotes /\ job[s].outcome \in {"completed", "failed"}
    BY <2>1 DEF TypeInv, JobOK, SlotOK, Job
  <2> QED
    BY <2>1, <2>2 DEF SlotInv, DriverStatus, DrivesAnalyzing, Drives
<1> QED
  BY <1>1, <1>2, <1>3

(* Appending a legal successor of the last event keeps a history legal. *)
LEMMA RecordLegal ==
    ASSUME TypeInv, LegalHistory, NEW q \in Quotes, NEW new \in Status, Record(q, new),
           <<status[q], new>> \in
              {<<"absent", "queued">>, <<"queued", "analyzing">>, <<"analyzing", "completed">>,
               <<"analyzing", "failed">>, <<"failed", "queued">>}
    PROVE  LegalHistory'
<1> SUFFICES ASSUME NEW p \in Quotes PROVE LegalHistory!(p)'
  BY DEF LegalHistory
<1>1. CASE p # q
  <2>1. status'[p] = status[p] /\ log'[p] = log[p]
    BY <1>1 DEF Record, TypeInv, TypeOK
  <2> QED
    BY <2>1 DEF LegalHistory
<1>2. CASE p = q
  <2> DEFINE h == log[q]
             n == Len(h)
  <2>1. h \in Seq(Status) /\ n \in Nat
    BY DEF TypeInv, TypeOK
  <2>2. status'[q] = new /\ log'[q] = Append(h, new)
    BY DEF Record, TypeInv, TypeOK
  <2>3. /\ Len(Append(h, new)) = n + 1 /\ Append(h, new)[n + 1] = new
        /\ \A i \in 1..n : Append(h, new)[i] = h[i]
    BY <2>1
  <2>4. Append(h, new) # <<>>
    BY <2>3, <2>1
  <2>5. status[q] = (IF h = <<>> THEN "absent" ELSE h[n])
    BY DEF LegalHistory
  <2>6. \A i \in 1..n - 1 :
           <<h[i], h[i+1]>> \in
              {<<"queued", "analyzing">>, <<"analyzing", "completed">>,
               <<"analyzing", "failed">>, <<"failed", "queued">>}
    BY DEF LegalHistory
  <2>7. ASSUME NEW i \in 1..n
        PROVE  <<Append(h, new)[i], Append(h, new)[i+1]>> \in
                 {<<"queued", "analyzing">>, <<"analyzing", "completed">>,
                  <<"analyzing", "failed">>, <<"failed", "queued">>}
    <3>1. CASE i = n
      <4>1. h # <<>> /\ h[n] \in Status
        BY <2>1, <3>1, <2>7
      <4>2. status[q] = h[n] /\ status[q] # "absent"
        BY <2>5, <4>1 DEF Status
      <4>3. Append(h, new)[i] = status[q] /\ Append(h, new)[i+1] = new
        BY <2>3, <2>7, <3>1, <4>2
      <4> QED
        BY <4>2, <4>3
    <3>2. CASE i # n
      <4>1. i \in 1..n - 1 /\ i \in 1..n /\ i + 1 \in 1..n
        BY <2>1, <2>7, <3>2
      <4> QED
        BY <2>3, <2>6, <4>1
    <3> QED
      BY <3>1, <3>2
  <2>8. Len(log'[q]) - 1 = n
    BY <2>1, <2>2, <2>3
  <2>9. log'[q][Len(log'[q])] = new
    BY <2>2, <2>3
  <2> QED
    BY <1>2, <2>2, <2>4, <2>7, <2>8, <2>9
<1> QED
  BY <1>1, <1>2

LEMMA LegalHistoryNext == TypeInv /\ SlotInv /\ LegalHistory /\ [Next]_vars => LegalHistory'
<1> SUFFICES ASSUME TypeInv, SlotInv, LegalHistory, [Next]_vars PROVE LegalHistory'
  OBVIOUS
<1>1. CASE UNCHANGED <<status, owner, ops, log>>
  BY <1>1 DEF LegalHistory
<1>2. ASSUME NEW s \in Slots, NEW q \in Quotes, CommitCreate(s, q) PROVE LegalHistory'
  BY <1>2, RecordLegal DEF CommitCreate, Status
<1>3. ASSUME NEW s \in Slots, CommitRetry(s) PROVE LegalHistory'
  BY <1>3, WriterMoves, RecordLegal DEF Status
<1>4. ASSUME NEW s \in Slots, MarkAnalyzing(s) PROVE LegalHistory'
  BY <1>4, WriterMoves, RecordLegal DEF Status
<1>5. ASSUME NEW s \in Slots, Settle(s) PROVE LegalHistory'
  BY <1>5, WriterMoves, RecordLegal DEF Status
<1> QED
  BY <1>1, <1>2, <1>3, <1>4, <1>5, Writers

(* The event table and the status column agree in every reachable state,   *)
(* and the events are a walk along the documented transitions, whatever    *)
(* handlers, workers and replicas fail in between.                         *)
THEOREM HistoriesAreLegal == Spec => []LegalHistory
<1>1. Init => LegalHistory
  BY DEF Init, LegalHistory
<1> QED
  BY <1>1, TypeInvariance, SlotInvariance, LegalHistoryNext, PTL DEF Spec

(* Neither a completed quote nor an orphan is ever written again. *)
LEMMA SettledOrOrphanKept ==
    ASSUME TypeInv, SlotInv, [Next]_vars, NEW q \in Quotes,
           Orphan(q) \/ status[q] = "completed"
    PROVE  status'[q] = status[q]
<1>1. ASSUME NEW p \in Quotes, NEW new, Record(p, new), p # q PROVE status'[q] = status[q]
  BY <1>1 DEF Record, TypeInv, TypeOK
<1>2. CASE UNCHANGED <<status, owner, ops, log>>
  BY <1>2
<1>3. ASSUME NEW s \in Slots, NEW p \in Quotes, CommitCreate(s, p)
      PROVE  status'[q] = status[q]
  BY <1>1, <1>3 DEF CommitCreate, Orphan, InFlight
<1>4. ASSUME NEW s \in Slots, CommitRetry(s) PROVE status'[q] = status[q]
  BY <1>1, <1>4, WriterMoves DEF Orphan, InFlight
<1>5. ASSUME NEW s \in Slots, MarkAnalyzing(s) PROVE status'[q] = status[q]
  BY <1>1, <1>5, WriterMoves DEF Orphan
<1>6. ASSUME NEW s \in Slots, Settle(s) PROVE status'[q] = status[q]
  BY <1>1, <1>6, WriterMoves DEF Orphan
<1> QED
  BY <1>2, <1>3, <1>4, <1>5, <1>6, Writers

(* An orphaned quote is never written again: the writers are its driver,   *)
(* and submissions for absent or failed quotes.                            *)
THEOREM OrphansStayOrphans == Spec => OrphansAreInert
<1>1. TypeInv /\ SlotInv /\ [Next]_vars =>
         [\A q \in Quotes : Orphan(q) => status'[q] = status[q]]_vars
  BY SettledOrOrphanKept
<1> QED
  BY <1>1, TypeInvariance, SlotInvariance, PTL DEF Spec, OrphansAreInert

(* A step of the service is a step of its contract, or none. *)
LEMMA ContractStep ==
    ASSUME TypeInv, SlotInv, [Next]_vars
    PROVE  [Contract!ContractNext]_(Contract!contractVars)
<1>1. CASE UNCHANGED <<status, owner, ops, log>>
  BY <1>1 DEF Contract!contractVars
<1>2. ASSUME NEW s \in Slots, NEW q \in Quotes, CommitCreate(s, q)
      PROVE  Contract!ContractNext
  <2>1. job[s].key \in Keys /\ job[s].request \in Requests
    BY <1>2 DEF CommitCreate, TypeInv, JobOK, SlotOK, Job
  <2>2. Contract!Create(job[s].key, q, job[s].request)
    BY <1>2 DEF CommitCreate, Record, Contract!Create, Contract!CreateOp
  <2> QED
    BY <2>1, <2>2 DEF Contract!ContractNext
<1>3. ASSUME NEW s \in Slots, CommitRetry(s) PROVE Contract!ContractNext
  <2>1. Contract!Requeue(job[s].key, job[s].quote)
    BY <1>3, WriterMoves DEF CommitRetry, Record, Contract!Requeue, Contract!RetryOp
  <2> QED
    BY <1>3, <2>1, WriterMoves DEF Contract!ContractNext
<1>4. ASSUME NEW s \in Slots, MarkAnalyzing(s) PROVE Contract!ContractNext
  <2>1. Contract!Begin(job[s].quote)
    BY <1>4, WriterMoves DEF Record, Contract!Begin
  <2> QED
    BY <1>4, <2>1, WriterMoves DEF Contract!ContractNext
<1>5. ASSUME NEW s \in Slots, Settle(s) PROVE Contract!ContractNext
  <2>1. Contract!Finish(job[s].quote)
    BY <1>5, WriterMoves DEF Record, Contract!Finish
  <2> QED
    BY <1>5, <2>1, WriterMoves DEF Contract!ContractNext
<1> QED
  BY <1>1, <1>2, <1>3, <1>4, <1>5, Writers

(* The handlers, transactions and workers implement the contract: what a   *)
(* client sees of a quote is created once, requeued only by its owner and  *)
(* only from failed, and recorded under one idempotency key per run.       *)
THEOREM ServiceImplementsContract == Spec => ImplementsContract
<1>1. Init => Contract!ContractInit
  BY DEF Init, NoOp, Contract!ContractInit, Contract!NoOp
<1>2. TypeInv /\ SlotInv /\ [Next]_vars => [Contract!ContractNext]_(Contract!contractVars)
  BY ContractStep
<1> QED
  BY <1>1, <1>2, TypeInvariance, SlotInvariance, PTL
  DEF Spec, ImplementsContract, Contract!ContractSpec

(* A response names the stored operation's quote. *)
RepliesStored ==
    \A k \in Keys : \A q \in replies[k] : ops[k].kind # "none" /\ q = ops[k].quote

LEMMA RepliesStoredNext ==
    TypeInv /\ SlotInv /\ RepliesStored /\ [Next]_vars => RepliesStored'
<1> SUFFICES ASSUME TypeInv, SlotInv, RepliesStored, [Next]_vars PROVE RepliesStored'
  OBVIOUS
<1>1. CASE UNCHANGED <<ops, replies>>
  BY <1>1 DEF RepliesStored
<1>2. ASSUME NEW k \in Keys, NEW q, ops[k].kind # "none", q = ops[k].quote,
             Reply(k, q), UNCHANGED ops
      PROVE  RepliesStored'
  BY <1>2 DEF RepliesStored, Reply, TypeInv, TypeOK
<1>3. ASSUME NEW s \in Slots, Replay(s) PROVE RepliesStored'
  <2>1. job[s].key \in Keys
    BY <1>3 DEF Replay, TypeInv, JobOK, SlotOK, Job
  <2> QED
    BY <1>2, <1>3, <2>1 DEF Replay, dbVars
<1>4. ASSUME NEW s \in Slots, Spawn(s) PROVE RepliesStored'
  <2>1. job[s].key \in Keys
    BY <1>4 DEF Spawn, TypeInv, JobOK, SlotOK, Job
  <2> QED
    BY <1>2, <1>4, <2>1 DEF Spawn, SlotInv, CommittedStored, dbVars
<1>5. ASSUME NEW k \in Keys, NEW op, ops[k].kind = "none", ops' = [ops EXCEPT ![k] = op],
             UNCHANGED replies
      PROVE  RepliesStored'
  BY <1>5 DEF RepliesStored, TypeInv, TypeOK
<1>6. ASSUME NEW s \in Slots, NEW q \in Quotes, CommitCreate(s, q) PROVE RepliesStored'
  <2>1. job[s].key \in Keys
    BY <1>6 DEF CommitCreate, TypeInv, JobOK, SlotOK, Job
  <2> QED
    BY <1>5, <1>6, <2>1 DEF CommitCreate
<1>7. ASSUME NEW s \in Slots, CommitRetry(s) PROVE RepliesStored'
  <2>1. job[s].key \in Keys
    BY <1>7, WriterMoves
  <2> QED
    BY <1>5, <1>7, <2>1 DEF CommitRetry
<1>8. ASSUME NEW s \in Slots, Submit(s) \/ Work(s) \/ Fail(s) PROVE UNCHANGED <<ops, replies>>
  BY <1>8 DEF Submit, AcceptCreate, AcceptRetry, Work, MarkAnalyzing, Announce, NoProvider,
              StartAttempt, Analyze, Settle, PublishFinal, CloseAttempt, Fail,
              AbortTransaction, DropHandler, FailMark, FailSettle, dbVars
<1>9. ASSUME NEW s \in Slots, Handle(s) PROVE RepliesStored'
  <2>1. CASE RejectReuse(s) \/ LockKey(s) \/ RejectContext(s) \/ LockRow(s) \/ RejectRetry(s)
    BY <1>1, <2>1 DEF RejectReuse, LockKey, RejectContext, LockRow, RejectRetry, dbVars
  <2> QED
    BY <1>3, <1>4, <1>6, <1>7, <1>9, <2>1 DEF Handle
<1>10. ASSUME NEW r \in Replicas, Crash(r) PROVE UNCHANGED <<ops, replies>>
  BY <1>10 DEF Crash, dbVars
<1>11. CASE UNCHANGED vars
  BY <1>1, <1>11 DEF vars
<1> QED
  BY <1>1, <1>8, <1>9, <1>10, <1>11 DEF Next

(* However often and wherever a submission is repeated, every 202 response *)
(* names the same quote, and never one of another tenant.                  *)
THEOREM RepliesAlwaysAgree == Spec => []RepliesAgree
<1>1. Init => RepliesStored
  BY DEF Init, RepliesStored
<1>2. Spec => []RepliesStored
  BY <1>1, TypeInvariance, SlotInvariance, RepliesStoredNext, PTL DEF Spec
<1>3. SlotInv /\ RepliesStored => RepliesAgree
  BY DEF SlotInv, OpsOwned, RepliesStored, RepliesAgree
<1> QED
  BY <1>2, <1>3, SlotInvariance, PTL

-----------------------------------------------------------------------------
(* Runs and operations *)

QueuedAt(h) == {i \in 1..Len(h) : h[i] = "queued"}

OpsNaming(o, q) == {k \in Keys : o[k].quote = q}

(* As many events say queued as operations name the quote; the operations  *)
(* are finitely many even if keys are not.                                 *)
Counted(h, o, q) ==
    /\ IsFiniteSet(OpsNaming(o, q))
    /\ Cardinality(QueuedAt(h)) = Cardinality(OpsNaming(o, q))

RunsCounted == \A q \in Quotes : Counted(log[q], ops, q)

(* An event that does not queue the quote is not counted ... *)
LEMMA QueuedAtOther ==
    ASSUME NEW h \in Seq(Status), NEW new \in Status, new # "queued"
    PROVE  QueuedAt(Append(h, new)) = QueuedAt(h)
<1>1. /\ Len(h) \in Nat /\ Len(Append(h, new)) = Len(h) + 1
      /\ Append(h, new)[Len(h) + 1] = new
      /\ \A i \in 1..Len(h) : Append(h, new)[i] = h[i]
  OBVIOUS
<1>2. \A i \in 1..(Len(h) + 1) : i \in 1..Len(h) \/ i = Len(h) + 1
  BY <1>1
<1>3. \A i \in 1..Len(h) : i \in 1..(Len(h) + 1)
  BY <1>1
<1> QED
  BY <1>1, <1>2, <1>3 DEF QueuedAt

(* ... and one that does is counted once. *)
LEMMA QueuedAtQueued ==
    ASSUME NEW h \in Seq(Status)
    PROVE  /\ IsFiniteSet(QueuedAt(h))
           /\ Cardinality(QueuedAt(Append(h, "queued"))) = Cardinality(QueuedAt(h)) + 1
<1> DEFINE n == Len(h)
           g == Append(h, "queued")
<1>1. /\ n \in Nat /\ Len(g) = n + 1 /\ g[n + 1] = "queued"
      /\ \A i \in 1..n : g[i] = h[i]
  OBVIOUS
<1>2. \A i \in 1..(n + 1) : i \in 1..n \/ i = n + 1
  BY <1>1
<1>3. n + 1 \notin 1..n /\ n + 1 \in 1..(n + 1) /\ \A i \in 1..n : i \in 1..(n + 1)
  BY <1>1
<1> HIDE DEF n, g
<1>4. QueuedAt(g) = QueuedAt(h) \cup {n + 1} /\ n + 1 \notin QueuedAt(h)
  BY <1>1, <1>2, <1>3 DEF QueuedAt, n
<1>5. IsFiniteSet(QueuedAt(h))
  <2>1. IsFiniteSet(1..n) /\ QueuedAt(h) \in SUBSET (1..n)
    BY <1>1, FS_Interval DEF QueuedAt, n
  <2> QED
    BY <2>1, FS_Subset
<1> QED
  BY <1>4, <1>5, FS_AddElement DEF g

(* A commit under an unused key queues its quote and no other. *)
LEMMA CommitCounted ==
    ASSUME TypeInv, RunsCounted, NEW q \in Quotes, NEW k \in Keys, NEW op,
           ops[k].kind = "none", op.quote = q,
           Record(q, "queued"), ops' = [ops EXCEPT ![k] = op]
    PROVE  RunsCounted'
<1>1. ops[k].quote \notin Quotes
  <2>1. ops[k] \in Op \cup {NoOp}
    BY DEF TypeInv, TypeOK
  <2>2. ops[k] = NoOp
    BY <2>1 DEF Op
  <2> QED
    BY <2>2, LifecycleAssumption DEF NoOp
<1>2. ops'[k] = op /\ \A h \in Keys : h # k => ops'[h] = ops[h]
  BY DEF TypeInv, TypeOK
<1>3. /\ log'[q] = Append(log[q], "queued") /\ log[q] \in Seq(Status)
      /\ \A p \in Quotes : p # q => log'[p] = log[p]
  BY DEF Record, TypeInv, TypeOK
<1> SUFFICES ASSUME NEW p \in Quotes PROVE Counted(log'[p], ops', p)
  BY DEF RunsCounted
<1>4. Counted(log[p], ops, p)
  BY DEF RunsCounted
<1>5. CASE p # q
  <2>1. OpsNaming(ops', p) = OpsNaming(ops, p)
    BY <1>1, <1>2, <1>5 DEF OpsNaming
  <2> QED
    BY <1>3, <1>4, <1>5, <2>1 DEF Counted
<1>6. CASE p = q
  <2>1. OpsNaming(ops', q) = OpsNaming(ops, q) \cup {k} /\ k \notin OpsNaming(ops, q)
    <3>1. k \notin OpsNaming(ops, q) /\ k \in OpsNaming(ops', q)
      BY <1>1, <1>2 DEF OpsNaming
    <3>2. \A h \in Keys : h # k => (h \in OpsNaming(ops', q) <=> h \in OpsNaming(ops, q))
      BY <1>2 DEF OpsNaming
    <3>3. OpsNaming(ops', q) \subseteq Keys /\ OpsNaming(ops, q) \subseteq Keys
      BY DEF OpsNaming
    <3> QED
      BY <3>1, <3>2, <3>3
  <2>2. /\ IsFiniteSet(OpsNaming(ops, q))
        /\ Cardinality(QueuedAt(log[q])) = Cardinality(OpsNaming(ops, q))
    BY <1>4, <1>6 DEF Counted
  <2>3. /\ IsFiniteSet(OpsNaming(ops', q))
        /\ Cardinality(OpsNaming(ops', q)) = Cardinality(OpsNaming(ops, q)) + 1
    <3> DEFINE S == OpsNaming(ops, q)
    <3>1. IsFiniteSet(S) /\ k \notin S
      BY <2>1, <2>2
    <3> HIDE DEF S
    <3>2. IsFiniteSet(S \cup {k}) /\ Cardinality(S \cup {k}) = Cardinality(S) + 1
      BY <3>1, FS_AddElement
    <3> QED
      BY <2>1, <3>2 DEF S
  <2>4. Cardinality(QueuedAt(log'[q])) = Cardinality(QueuedAt(log[q])) + 1
    BY <1>3, QueuedAtQueued
  <2> QED
    BY <1>6, <2>2, <2>3, <2>4 DEF Counted
<1> QED
  BY <1>5, <1>6

(* A worker's update queues nothing. *)
LEMMA UpdateCounted ==
    ASSUME TypeInv, RunsCounted, NEW q \in Quotes, NEW new \in Status, new # "queued",
           Record(q, new), UNCHANGED ops
    PROVE  RunsCounted'
<1>1. /\ log'[q] = Append(log[q], new) /\ log[q] \in Seq(Status)
      /\ \A p \in Quotes : p # q => log'[p] = log[p]
  BY DEF Record, TypeInv, TypeOK
<1>2. QueuedAt(log'[q]) = QueuedAt(log[q])
  BY <1>1, QueuedAtOther
<1>3. \A p \in Quotes : QueuedAt(log'[p]) = QueuedAt(log[p])
  BY <1>1, <1>2
<1> QED
  BY <1>3 DEF RunsCounted, Counted

LEMMA RunsCountedNext == TypeInv /\ SlotInv /\ RunsCounted /\ [Next]_vars => RunsCounted'
<1> SUFFICES ASSUME TypeInv, SlotInv, RunsCounted, [Next]_vars PROVE RunsCounted'
  OBVIOUS
<1>1. CASE UNCHANGED <<status, owner, ops, log>>
  BY <1>1 DEF RunsCounted
<1>2. ASSUME NEW s \in Slots, NEW q \in Quotes, CommitCreate(s, q) PROVE RunsCounted'
  <2> DEFINE op == [kind |-> "create", quote |-> q, request |-> job[s].request]
  <2>1. job[s].key \in Keys
    BY <1>2 DEF CommitCreate, TypeInv, JobOK, SlotOK, Job
  <2>2. op.quote = q
    OBVIOUS
  <2>3. /\ ops[job[s].key].kind = "none" /\ Record(q, "queued")
        /\ ops' = [ops EXCEPT ![job[s].key] = op]
    BY <1>2 DEF CommitCreate
  <2> HIDE DEF op
  <2> QED
    BY <2>1, <2>2, <2>3, CommitCounted
<1>3. ASSUME NEW s \in Slots, CommitRetry(s) PROVE RunsCounted'
  <2> DEFINE op == [kind |-> "retry", quote |-> job[s].quote, request |-> Nil]
  <2>1. job[s].key \in Keys /\ job[s].quote \in Quotes
    BY <1>3, WriterMoves
  <2>2. op.quote = job[s].quote
    OBVIOUS
  <2>3. /\ ops[job[s].key].kind = "none" /\ Record(job[s].quote, "queued")
        /\ ops' = [ops EXCEPT ![job[s].key] = op]
    BY <1>3 DEF CommitRetry
  <2> HIDE DEF op
  <2> QED
    BY <2>1, <2>2, <2>3, CommitCounted
<1>4. ASSUME NEW s \in Slots, MarkAnalyzing(s) PROVE RunsCounted'
  BY <1>4, WriterMoves, UpdateCounted DEF Status
<1>5. ASSUME NEW s \in Slots, Settle(s) PROVE RunsCounted'
  <2>1. /\ job[s].quote \in Quotes /\ job[s].outcome \in Status /\ job[s].outcome # "queued"
        /\ Record(job[s].quote, job[s].outcome) /\ UNCHANGED ops
    BY <1>5, WriterMoves DEF Status
  <2> QED
    BY <2>1, UpdateCounted
<1> QED
  BY <1>1, <1>2, <1>3, <1>4, <1>5, Writers

(* Every accepted create or retry queues its quote exactly once, and       *)
(* nothing else does, however submissions are repeated, raced or cut off:  *)
(* the rows of canonical_quote_operation account for every analysis run.   *)
THEOREM RunsMatchOperations == Spec => []OneRunPerOperation
<1>1. Init => RunsCounted
  <2> SUFFICES ASSUME Init, NEW q \in Quotes PROVE Counted(log[q], ops, q)
    BY DEF RunsCounted
  <2>1. OpsNaming(ops, q) = {} /\ QueuedAt(log[q]) = {}
    BY LifecycleAssumption DEF Init, OpsNaming, QueuedAt, NoOp
  <2> QED
    BY <2>1, FS_EmptySet DEF Counted
<1>2. Spec => []RunsCounted
  BY <1>1, TypeInvariance, SlotInvariance, RunsCountedNext, PTL DEF Spec
<1>3. RunsCounted => OneRunPerOperation
  BY DEF RunsCounted, Counted, QueuedAt, OpsNaming, OneRunPerOperation
<1> QED
  BY <1>2, <1>3, PTL

-----------------------------------------------------------------------------
(* Events and their publication *)

Publishing == {"committed", "marked", "settled"}

(* Slot s is about to publish event i of quote q. *)
Owes(s, q, i) == pc[s] \in Publishing /\ job[s].quote = q /\ job[s].event = i

(* What a slot is about to publish is committed. *)
OwedCommitted ==
    \A s \in Slots : pc[s] \in Publishing => job[s].event \in 1..Len(log[job[s].quote])

EventInv == OwedCommitted /\ PublishedEvents

LEMMA PublishedOwes ==
    PublishedEvents <=>
        \A q \in Quotes :
            /\ published[q] \subseteq 1..Len(log[q])
            /\ faults = 0 => \A i \in 1..Len(log[q]) \ published[q] :
                                \E s \in Slots : Owes(s, q, i)
  BY DEF PublishedEvents, Owes, Publishing

(* A step that neither commits nor publishes an event; what a slot owes is *)
(* forgotten only by a fault.                                              *)
KeepsEvents ==
    /\ UNCHANGED <<log, published>>
    /\ \A t \in Slots : pc'[t] \in Publishing =>
          /\ pc[t] \in Publishing
          /\ job'[t].quote = job[t].quote /\ job'[t].event = job[t].event
    /\ \/ faults' # 0
       \/ /\ faults' = faults
          /\ \A t \in Slots : pc[t] \in Publishing =>
                /\ pc'[t] \in Publishing
                /\ job'[t].quote = job[t].quote /\ job'[t].event = job[t].event

LEMMA KeepsEventsStep == ASSUME EventInv, KeepsEvents PROVE EventInv'
<1>1. OwedCommitted'
  BY DEF EventInv, OwedCommitted, KeepsEvents
<1>2. ASSUME faults' = 0, NEW q \in Quotes, NEW i, NEW s \in Slots, Owes(s, q, i)
      PROVE  Owes(s, q, i)'
  BY <1>2 DEF KeepsEvents, Owes
<1>3. faults' = 0 => faults = 0
  BY DEF KeepsEvents
<1>4. log' = log /\ published' = published
  BY DEF KeepsEvents
<1>5. PublishedEvents
  BY DEF EventInv
<1>6. PublishedEvents'
  BY <1>2, <1>3, <1>4, <1>5, PublishedOwes DEF Owes, Publishing, PublishedEvents
<1> QED
  BY <1>1, <1>6 DEF EventInv

(* A step of slot s that commits an event, which it then owes unless a     *)
(* fault ends it.                                                          *)
Commits(s, q, new) ==
    /\ Record(q, new)
    /\ UNCHANGED published
    /\ pc[s] \notin Publishing
    /\ \/ /\ pc'[s] \in Publishing /\ faults' = faults
          /\ job'[s].quote = q /\ job'[s].event = Len(log'[q])
       \/ pc'[s] \notin Publishing /\ faults' # 0
    /\ \A t \in Slots : t # s => pc'[t] = pc[t] /\ job'[t] = job[t]

LEMMA CommitsStep ==
    ASSUME TypeInv, EventInv, NEW s \in Slots, NEW q \in Quotes, NEW new \in Status,
           Commits(s, q, new)
    PROVE  EventInv'
<1>1. /\ log[q] \in Seq(Status) /\ log'[q] = Append(log[q], new)
      /\ \A p \in Quotes : p # q => log'[p] = log[p]
  BY DEF Commits, Record, TypeInv, TypeOK
<1>2. Len(log[q]) \in Nat /\ Len(log'[q]) = Len(log[q]) + 1
  BY <1>1
<1>3. \A p \in Quotes : \A i \in 1..Len(log[p]) : i \in 1..Len(log'[p])
  BY <1>1, <1>2
<1>4. \A i \in 1..Len(log'[q]) : i \in 1..Len(log[q]) \/ i = Len(log'[q])
  BY <1>2
<1>5. Len(log'[q]) \in 1..Len(log'[q])
  BY <1>2
<1>6. \A t \in Slots : t # s => pc'[t] = pc[t] /\ job'[t] = job[t]
  BY DEF Commits
<1>7. \A t \in Slots : pc[t] \in Publishing => job[t].quote \in Quotes
  BY DEF TypeInv, JobOK, SlotOK, Publishing
<1>8. OwedCommitted'
  <2> SUFFICES ASSUME NEW t \in Slots, pc'[t] \in Publishing
               PROVE  job'[t].event \in 1..Len(log'[job'[t].quote])
    BY DEF OwedCommitted
  <2>1. CASE t = s
    BY <1>5, <2>1 DEF Commits
  <2>2. CASE t # s
    BY <1>3, <1>6, <1>7, <2>2 DEF EventInv, OwedCommitted
  <2> QED
    BY <2>1, <2>2
<1>9. ASSUME NEW t \in Slots, NEW p \in Quotes, NEW i, Owes(t, p, i) PROVE Owes(t, p, i)'
  <2>1. t # s
    BY <1>9 DEF Owes, Commits
  <2>2. pc'[t] = pc[t] /\ job'[t] = job[t]
    BY <1>6, <2>1
  <2> QED
    BY <1>9, <2>2 DEF Owes
<1>10. published' = published /\ (faults' = 0 => faults = 0 /\ Owes(s, q, Len(log[q]))')
  BY DEF Commits, Owes
<1>11. \A p \in Quotes :
          /\ published[p] \subseteq 1..Len(log[p])
          /\ faults = 0 => \A i \in 1..Len(log[p]) \ published[p] :
                              \E t \in Slots : Owes(t, p, i)
  BY PublishedOwes DEF EventInv
<1>12. ASSUME NEW p \in Quotes
       PROVE  /\ published'[p] \subseteq 1..Len(log'[p])
              /\ faults' = 0 => \A i \in 1..Len(log'[p]) \ published'[p] :
                                   \E t \in Slots : Owes(t, p, i)'
  <2>1. published'[p] \subseteq 1..Len(log'[p])
    BY <1>3, <1>10, <1>11
  <2>2. ASSUME faults' = 0, NEW i \in 1..Len(log'[p]), i \notin published'[p]
        PROVE  \E t \in Slots : Owes(t, p, i)'
    <3>1. CASE i \in 1..Len(log[p])
      <4>1. PICK t \in Slots : Owes(t, p, i)
        BY <1>10, <1>11, <2>2, <3>1
      <4> QED
        BY <1>9, <4>1
    <3>2. CASE i \notin 1..Len(log[p])
      <4>1. p = q /\ i = Len(log'[q])
        BY <1>1, <1>4, <2>2, <3>2
      <4> QED
        BY <1>10, <2>2, <4>1 DEF Owes
    <3> QED
      BY <3>1, <3>2
  <2> QED
    BY <2>1, <2>2
<1>13. PublishedEvents'
  BY <1>12 DEF PublishedEvents, Owes, Publishing
<1> QED
  BY <1>8, <1>13 DEF EventInv

(* A slot publishes the event it owes. *)
LEMMA PublishStep ==
    ASSUME TypeInv, EventInv, NEW s \in Slots, pc[s] \in Publishing, Publish(s),
           NEW l, l \notin Publishing, Goto(s, l), UNCHANGED <<log, job, faults>>
    PROVE  EventInv'
<1> DEFINE q == job[s].quote
           e == job[s].event
<1>1. q \in Quotes /\ e \in 1..Len(log[q])
  BY DEF EventInv, OwedCommitted, TypeInv, JobOK, SlotOK, Publishing
<1>2. /\ pc'[s] = l /\ job' = job /\ log' = log /\ faults' = faults
      /\ \A t \in Slots : t # s => pc'[t] = pc[t]
  BY DEF Goto, TypeInv, TypeOK
<1>3. /\ published'[q] = published[q] \cup {e}
      /\ \A p \in Quotes : p # q => published'[p] = published[p]
  BY <1>1 DEF Publish, TypeInv, TypeOK
<1>4. OwedCommitted'
  BY <1>2 DEF EventInv, OwedCommitted
<1>5. \A t \in Slots, p \in Quotes : \A i :
         Owes(t, p, i) => Owes(t, p, i)' \/ (p = q /\ i = e)
  BY <1>2 DEF Owes
<1>6. \A p \in Quotes :
          /\ published[p] \subseteq 1..Len(log[p])
          /\ faults = 0 => \A i \in 1..Len(log[p]) \ published[p] :
                              \E t \in Slots : Owes(t, p, i)
  BY PublishedOwes DEF EventInv
<1> HIDE DEF q, e
<1>7. ASSUME NEW p \in Quotes
      PROVE  /\ published'[p] \subseteq 1..Len(log[p])
             /\ faults = 0 => \A i \in 1..Len(log[p]) \ published'[p] :
                                 \E t \in Slots : Owes(t, p, i)'
  <2>1. published[p] \subseteq published'[p] /\ (p = q => e \in published'[p])
    BY <1>3
  <2>2. published'[p] \subseteq 1..Len(log[p])
    BY <1>1, <1>3, <1>6
  <2> QED
    BY <1>5, <1>6, <2>1, <2>2
<1>8. PublishedEvents'
  BY <1>2, <1>7 DEF PublishedEvents, Owes, Publishing
<1> QED
  BY <1>4, <1>8 DEF EventInv

(* A slot moves on without events, and owes nothing before or after, or is *)
(* ended by a fault.                                                       *)
LEMMA KeepsEventsMove ==
    ASSUME TypeInv, NEW s \in Slots, NEW l, Goto(s, l), l \notin Publishing,
           \A t \in Slots : t # s => job'[t] = job[t],
           UNCHANGED <<log, published>>,
           Fault \/ (NoFault /\ pc[s] \notin Publishing)
    PROVE  KeepsEvents
<1>1. pc'[s] = l /\ \A t \in Slots : t # s => pc'[t] = pc[t]
  BY DEF Goto, TypeInv, TypeOK
<1>2. faults' # 0 \/ (faults' = faults /\ pc[s] \notin Publishing)
  BY DEF Fault, NoFault, TypeInv, TypeOK
<1> QED
  BY <1>1, <1>2 DEF KeepsEvents

LEMMA JobElsewhere ==
    ASSUME TypeInv, NEW s \in Slots, NEW j, job' = [job EXCEPT ![s] = j] \/ job' = job
    PROVE  \A t \in Slots : t # s => job'[t] = job[t]
  BY DEF TypeInv, TypeOK

LEMMA EventsSubmit == ASSUME TypeInv, EventInv, NEW s \in Slots, Submit(s) PROVE EventInv'
<1>1. /\ Goto(s, "accepted") /\ UNCHANGED <<log, published, faults>> /\ pc[s] = "idle"
      /\ \A t \in Slots : t # s => job'[t] = job[t]
  BY DEF Submit, AcceptCreate, AcceptRetry, dbVars, TypeInv, TypeOK
<1>2. KeepsEvents
  BY <1>1, KeepsEventsMove DEF NoFault, Publishing
<1> QED
  BY <1>2, KeepsEventsStep

LEMMA EventsHandle ==
    ASSUME TypeInv, SlotInv, EventInv, NEW s \in Slots, Handle(s) PROVE EventInv'
<1>1. CASE RejectReuse(s) \/ Replay(s) \/ RejectContext(s) \/ RejectRetry(s)
  <2>1. /\ Release(s) /\ UNCHANGED <<log, published, faults>>
        /\ pc[s] \in {"accepted", "keyed"}
    BY <1>1 DEF RejectReuse, Replay, RejectContext, RejectRetry, dbVars
  <2>2. KeepsEvents
    BY <2>1, KeepsEventsMove, JobElsewhere DEF Release, NoFault, Publishing
  <2> QED
    BY <2>2, KeepsEventsStep
<1>2. CASE LockKey(s) \/ LockRow(s)
  <2>1. PICK l \in {"keyed", "rowed"} : Goto(s, l)
    BY <1>2 DEF LockKey, LockRow
  <2>2. /\ UNCHANGED <<log, published, faults, job>>
        /\ pc[s] \in {"accepted", "keyed"}
    BY <1>2 DEF LockKey, LockRow, dbVars
  <2>3. KeepsEvents
    BY <2>1, <2>2, KeepsEventsMove DEF NoFault, Publishing
  <2> QED
    BY <2>3, KeepsEventsStep
<1>3. ASSUME NEW q \in Quotes, CommitCreate(s, q) PROVE EventInv'
  <2> DEFINE j == [job[s] EXCEPT !.quote = q, !.event = Len(log'[q])]
  <2>1. job[s] \in Job
    BY <1>3 DEF CommitCreate, TypeInv, JobOK, SlotOK
  <2>2. j.quote = q /\ j.event = Len(log'[q])
    BY <2>1 DEF Job
  <2>3. Acked(s, "committed", j) \/ Unacked(s)
    BY <1>3 DEF CommitCreate
  <2> HIDE DEF j
  <2>4. Commits(s, q, "queued")
    <3>1. /\ \/ pc'[s] = "committed" /\ job'[s] = j /\ faults' = faults
             \/ pc'[s] = "idle" /\ faults' # 0
          /\ \A t \in Slots : t # s => pc'[t] = pc[t] /\ job'[t] = job[t]
      BY <2>3, CommitEnds
    <3>2. /\ pc[s] \in {"keyed", "rowed"} /\ Record(q, "queued")
          /\ UNCHANGED published
      BY <1>3 DEF CommitCreate
    <3> QED
      BY <2>2, <3>1, <3>2 DEF Commits, Publishing
  <2> QED
    BY <2>4, CommitsStep DEF Status
<1>4. CASE CommitRetry(s)
  <2> DEFINE q == job[s].quote
             j == [job[s] EXCEPT !.event = Len(log'[q])]
  <2>1. job[s] \in Job /\ q \in Quotes
    BY <1>4 DEF CommitRetry, TypeInv, JobOK, SlotOK
  <2>2. j.quote = q /\ j.event = Len(log'[q])
    BY <2>1 DEF Job
  <2>3. Acked(s, "committed", j) \/ Unacked(s)
    BY <1>4 DEF CommitRetry
  <2> HIDE DEF j
  <2>4. Commits(s, q, "queued")
    <3>1. /\ \/ pc'[s] = "committed" /\ job'[s] = j /\ faults' = faults
             \/ pc'[s] = "idle" /\ faults' # 0
          /\ \A t \in Slots : t # s => pc'[t] = pc[t] /\ job'[t] = job[t]
      BY <2>3, CommitEnds
    <3>2. /\ pc[s] \in {"keyed", "rowed"} /\ Record(q, "queued")
          /\ UNCHANGED published
      BY <1>4 DEF CommitRetry
    <3> QED
      BY <2>2, <3>1, <3>2 DEF Commits, Publishing
  <2> QED
    BY <2>1, <2>4, CommitsStep DEF Status
<1>5. CASE Spawn(s)
  BY <1>5, PublishStep DEF Spawn, dbVars, Publishing
<1> QED
  BY <1>1, <1>2, <1>3, <1>4, <1>5 DEF Handle

LEMMA EventsWork ==
    ASSUME TypeInv, SlotInv, EventInv, NEW s \in Slots, Work(s) PROVE EventInv'
<1>1. CASE MarkAnalyzing(s)
  <2> DEFINE q == job[s].quote
             j == [job[s] EXCEPT !.event = Len(log'[q])]
  <2>1. job[s] \in Job /\ q \in Quotes
    BY <1>1 DEF MarkAnalyzing, TypeInv, JobOK, SlotOK
  <2>2. j.quote = q /\ j.event = Len(log'[q])
    BY <2>1 DEF Job
  <2>3. Acked(s, "marked", j) \/ Unacked(s)
    BY <1>1 DEF MarkAnalyzing
  <2> HIDE DEF j
  <2>4. Commits(s, q, "analyzing")
    BY <1>1, <2>2, <2>3, CommitEnds DEF MarkAnalyzing, Commits, Publishing
  <2> QED
    BY <2>1, <2>4, CommitsStep DEF Status
<1>2. CASE Settle(s)
  <2> DEFINE q == job[s].quote
             j == [job[s] EXCEPT !.event = Len(log'[q])]
  <2>1. job[s] \in Job /\ q \in Quotes /\ job[s].outcome \in Status
    BY <1>2 DEF Settle, TypeInv, JobOK, SlotOK, Job, Status
  <2>2. j.quote = q /\ j.event = Len(log'[q])
    BY <2>1 DEF Job
  <2>3. Acked(s, "settled", j) \/ (Goto(s, "closing") /\ UNCHANGED job /\ Fault)
    BY <1>2 DEF Settle
  <2> HIDE DEF j
  <2>4. /\ \/ pc'[s] = "settled" /\ job'[s] = j /\ faults' = faults
           \/ pc'[s] = "closing" /\ faults' # 0
        /\ \A t \in Slots : t # s => pc'[t] = pc[t] /\ job'[t] = job[t]
    BY <2>3 DEF Acked, Goto, Fault, NoFault, TypeInv, TypeOK
  <2>5. Commits(s, q, job[s].outcome)
    BY <1>2, <2>2, <2>4 DEF Settle, Commits, Publishing
  <2> QED
    BY <2>1, <2>5, CommitsStep
<1>3. CASE Announce(s) \/ PublishFinal(s)
  BY <1>3, PublishStep DEF Announce, PublishFinal, dbVars, Publishing
<1>4. CASE NoProvider(s) \/ StartAttempt(s) \/ Analyze(s)
  <2>1. /\ Goto(s, "answered") \/ Goto(s, "prompted")
        /\ pc[s] \in {"announced", "prompted"} /\ UNCHANGED <<log, published>>
        /\ Fault \/ NoFault
    BY <1>4 DEF NoProvider, StartAttempt, Analyze, NoFault, dbVars
  <2>2. \A t \in Slots : t # s => job'[t] = job[t]
    BY <1>4 DEF NoProvider, StartAttempt, Analyze, TypeInv, TypeOK
  <2>3. KeepsEvents
    BY <2>1, <2>2, KeepsEventsMove DEF Publishing
  <2> QED
    BY <2>3, KeepsEventsStep
<1>5. CASE CloseAttempt(s)
  <2>1. KeepsEvents
    BY <1>5, KeepsEventsMove, JobElsewhere DEF CloseAttempt, Release, Publishing
  <2> QED
    BY <2>1, KeepsEventsStep
<1> QED
  BY <1>1, <1>2, <1>3, <1>4, <1>5 DEF Work

LEMMA EventsFail == ASSUME TypeInv, EventInv, NEW s \in Slots, Fail(s) PROVE EventInv'
<1>1. /\ Goto(s, "idle") \/ Goto(s, "closing")
      /\ Fault /\ UNCHANGED <<log, published>>
      /\ \A t \in Slots : t # s => job'[t] = job[t]
  BY DEF Fail, AbortTransaction, DropHandler, FailMark, FailSettle, Release, dbVars,
         TypeInv, TypeOK
<1>2. KeepsEvents
  BY <1>1, KeepsEventsMove DEF Publishing
<1> QED
  BY <1>2, KeepsEventsStep

LEMMA EventsCrash == ASSUME TypeInv, EventInv, NEW r \in Replicas, Crash(r) PROVE EventInv'
<1>1. KeepsEvents
  BY DEF Crash, Fault, dbVars, TypeInv, TypeOK, KeepsEvents, Publishing
<1> QED
  BY <1>1, KeepsEventsStep

LEMMA EventsNext == TypeInv /\ SlotInv /\ EventInv /\ [Next]_vars => EventInv'
<1>1. ASSUME EventInv, UNCHANGED vars PROVE EventInv'
  <2>1. KeepsEvents
    BY <1>1 DEF vars, KeepsEvents
  <2> QED
    BY <1>1, <2>1, KeepsEventsStep
<1> QED
  BY <1>1, EventsSubmit, EventsHandle, EventsWork, EventsFail, EventsCrash DEF Next

(* Subscribers and webhooks are told of committed events only, and without *)
(* a fault of every one of them: an event committed and not yet published  *)
(* is in the hands of exactly the handler or worker that will publish it.  *)
THEOREM EventsReachSubscribers == Spec => []PublishedEvents
<1>1. Init => EventInv
  BY DEF Init, EventInv, OwedCommitted, PublishedEvents, Publishing
<1>2. EventInv => PublishedEvents
  BY DEF EventInv
<1> QED
  BY <1>1, <1>2, TypeInvariance, SlotInvariance, EventsNext, PTL DEF Spec

-----------------------------------------------------------------------------
(* Model attempts *)

(* A quote that no step will write again. *)
Final(q) == status[q] = "completed" \/ (status[q] = "analyzing" /\ Orphan(q))

(* What a worker remembers of its attempt: none before it is started, the  *)
(* quote's last one while it drives the quote, and, if the provider        *)
(* answered, the last one of a quote that is final.                        *)
AttemptHeld(s) ==
    LET a == job[s].attempt
        last == Len(attempts[job[s].quote])
    IN
    /\ pc[s] \notin {"prompted", "answered", "settled", "closing"} => a = 0
    /\ pc[s] \in {"prompted", "answered"} => a = 0 \/ a = last
    /\ pc[s] \in {"settled", "closing"} /\ job[s].outcome = "completed" =>
          Final(job[s].quote) /\ (a = 0 \/ a = last)

AttemptInv == (\A s \in Slots : AttemptHeld(s)) /\ CompletedAttemptIsFinal

(* A driver's quote is not final. *)
LEMMA DrivenNotFinal ==
    ASSUME SlotInv, NEW s \in Slots, pc[s] \in DrivesQueued \cup DrivesAnalyzing
    PROVE  ~Final(job[s].quote)
<1>1. Drives(s, job[s].quote)
  BY DrivesPCs
<1>2. status[job[s].quote] \in {"queued", "analyzing"}
  BY DEF SlotInv, DriverStatus
<1> QED
  BY <1>1, <1>2 DEF Final, Orphan

(* A step of slot t leaves every other slot where it is. *)
LEMMA Bystander ==
    ASSUME TypeInv, NEW s \in Slots, NEW t \in Slots, t # s,
           Submit(t) \/ Handle(t) \/ Work(t) \/ Fail(t)
    PROVE  pc'[s] = pc[s] /\ job'[s] = job[s]
<1>1. CASE Submit(t)
  BY <1>1 DEF Submit, AcceptCreate, AcceptRetry, Goto, TypeInv, TypeOK
<1>2. CASE Handle(t)
  BY <1>2 DEF Handle, RejectReuse, Replay, LockKey, CommitCreate, RejectContext,
      LockRow, RejectRetry, CommitRetry, Spawn, Acked, Unacked, Release, Goto,
      TypeInv, TypeOK
<1>3. CASE Work(t)
  BY <1>3 DEF Work, MarkAnalyzing, Announce, NoProvider, StartAttempt, Analyze,
      Settle, PublishFinal, CloseAttempt, Acked, Unacked, Release, Goto, TypeInv, TypeOK
<1>4. CASE Fail(t)
  BY <1>4 DEF Fail, AbortTransaction, DropHandler, FailMark, FailSettle,
      Release, Goto, TypeInv, TypeOK
<1> QED
  BY <1>1, <1>2, <1>3, <1>4

(* A slot drives an analyzing quote only because it drove that quote before. *)
LEMMA StillDriving ==
    ASSUME TypeInv, [Next]_vars, NEW s \in Slots, pc'[s] \in DrivesAnalyzing
    PROVE  /\ pc[s] \in DrivesQueued \cup DrivesAnalyzing
           /\ job'[s].quote = job[s].quote
<1> USE DEF DrivesAnalyzing, DrivesQueued
<1>1. CASE UNCHANGED vars
  BY <1>1 DEF vars
<1>2. ASSUME NEW t \in Slots, t # s, Submit(t) \/ Handle(t) \/ Work(t) \/ Fail(t)
      PROVE  pc'[s] = pc[s] /\ job'[s] = job[s]
  BY <1>2, Bystander
<1>3. ~(Submit(s) \/ Handle(s) \/ Fail(s))
  <2>1. \A l : Goto(s, l) => pc'[s] = l
    BY DEF Goto, TypeInv, TypeOK
  <2>2. ~Submit(s)
    BY <2>1 DEF Submit, AcceptCreate, AcceptRetry
  <2>3. ~Handle(s)
    BY <2>1 DEF Handle, RejectReuse, Replay, LockKey, CommitCreate, RejectContext,
        LockRow, RejectRetry, CommitRetry, Spawn, Acked, Unacked, Release
  <2>4. ~Fail(s)
    BY <2>1 DEF Fail, AbortTransaction, DropHandler, FailMark, FailSettle, Release
  <2> QED
    BY <2>2, <2>3, <2>4
<1>4. CASE Work(s)
  <2>1. \A l : Goto(s, l) => pc'[s] = l
    BY DEF Goto, TypeInv, TypeOK
  <2>2. pc[s] \in {"spawned", "marked", "announced", "prompted"}
    BY <1>4, <2>1 DEF Work, MarkAnalyzing, Announce, NoProvider, StartAttempt, Analyze,
        Settle, PublishFinal, CloseAttempt, Acked, Unacked, Release
  <2>3. job[s] \in Job
    BY <2>2 DEF TypeInv, JobOK, SlotOK
  <2>4. \/ job'[s] = job[s]
        \/ \E e : job'[s] = [job[s] EXCEPT !.event = e]
        \/ \E o : job'[s] = [job[s] EXCEPT !.outcome = o]
        \/ \E a : job'[s] = [job[s] EXCEPT !.attempt = a]
    <3>1. CASE MarkAnalyzing(s)
      BY <2>1, <3>1 DEF MarkAnalyzing, Acked, Unacked, Release, TypeInv, TypeOK
    <3>2. CASE Announce(s)
      BY <3>2 DEF Announce
    <3>3. CASE NoProvider(s)
      BY <3>3 DEF NoProvider, TypeInv, TypeOK
    <3>4. CASE StartAttempt(s)
      <4>1. \/ job' = job
            \/ job' = [job EXCEPT ![s] =
                         [job[s] EXCEPT !.attempt = Len(attempts'[job[s].quote])]]
        BY <3>4 DEF StartAttempt
      <4> QED
        BY <4>1 DEF TypeInv, TypeOK
    <3>5. CASE Analyze(s)
      BY <3>5 DEF Analyze, TypeInv, TypeOK
    <3> QED
      BY <1>4, <2>2, <3>1, <3>2, <3>3, <3>4, <3>5
      DEF Work, Settle, PublishFinal, CloseAttempt
  <2> QED
    BY <2>2, <2>3, <2>4 DEF Job
<1>5. ASSUME NEW r \in Replicas, Crash(r)
      PROVE  pc'[s] = pc[s] /\ job'[s] = job[s]
  BY <1>5 DEF Crash, TypeInv, TypeOK
<1> QED
  BY <1>1, <1>2, <1>3, <1>4, <1>5 DEF Next

LEMMA FinalStays ==
    ASSUME TypeInv, SlotInv, [Next]_vars, NEW q \in Quotes, Final(q)
    PROVE  Final(q)'
<1>1. status'[q] = status[q]
  BY SettledOrOrphanKept DEF Final
<1>2. CASE status[q] = "analyzing" /\ Orphan(q)
  <2>1. SlotInv'
    BY SlotInvNext
  <2>2. ASSUME NEW s \in Slots, Drives(s, q)' PROVE FALSE
    <3>1. pc'[s] \in DrivesQueued \cup DrivesAnalyzing /\ job'[s].quote = q
      BY <2>2 DEF Drives, DrivesQueued, DrivesAnalyzing
    <3>2. pc'[s] \in DrivesAnalyzing
      BY <1>1, <1>2, <2>1, <3>1 DEF SlotInv, DriverStatus
    <3>3. Drives(s, q)
      BY <3>1, <3>2, StillDriving, DrivesPCs
    <3> QED
      BY <1>2, <3>3 DEF Orphan
  <2> QED
    BY <1>1, <1>2, <2>2 DEF Final, Orphan, InFlight
<1> QED
  BY <1>1, <1>2 DEF Final

(* Two actions write model attempts. *)
LEMMA AttemptWriters ==
    ASSUME [Next]_vars
    PROVE  attempts' = attempts \/ \E s \in Slots : StartAttempt(s) \/ CloseAttempt(s)
<1>1. ASSUME NEW s \in Slots, Submit(s) \/ Handle(s) \/ Fail(s) PROVE attempts' = attempts
  <2>1. CASE Submit(s)
    BY <2>1 DEF Submit, AcceptCreate, AcceptRetry, dbVars
  <2>2. CASE Handle(s)
    BY <2>2 DEF Handle, RejectReuse, Replay, LockKey, CommitCreate, RejectContext, LockRow,
        RejectRetry, CommitRetry, Spawn, dbVars
  <2>3. CASE Fail(s)
    BY <2>3 DEF Fail, AbortTransaction, DropHandler, FailMark, FailSettle, dbVars
  <2> QED
    BY <1>1, <2>1, <2>2, <2>3
<1>2. ASSUME NEW s \in Slots, Work(s)
      PROVE  attempts' = attempts \/ StartAttempt(s) \/ CloseAttempt(s)
  BY <1>2 DEF Work, MarkAnalyzing, Announce, NoProvider, Analyze, Settle, PublishFinal, dbVars
<1>3. ASSUME NEW r \in Replicas, Crash(r) PROVE attempts' = attempts
  BY <1>3 DEF Crash, dbVars
<1>4. CASE UNCHANGED vars
  BY <1>4 DEF vars
<1> QED
  BY <1>1, <1>2, <1>3, <1>4 DEF Next

(* What StartAttempt and CloseAttempt make of the attempts. *)
LEMMA StartedAttempts ==
    ASSUME TypeInv, NEW s \in Slots, StartAttempt(s)
    PROVE  /\ job[s].quote \in Quotes /\ pc[s] = "announced"
           /\ attempts[job[s].quote] \in Seq(AttemptStatus)
           /\ \/ attempts' = attempts
              \/ attempts' = [attempts EXCEPT ![job[s].quote] =
                                Append(attempts[job[s].quote], "started")]
<1>1. pc[s] = "announced"
  BY DEF StartAttempt
<1>2. job[s].quote \in Quotes
  BY <1>1 DEF TypeInv, JobOK, SlotOK
<1>3. attempts[job[s].quote] \in Seq(AttemptStatus)
  BY <1>2 DEF TypeInv, TypeOK
<1>4. \/ attempts' = attempts
      \/ attempts' = [attempts EXCEPT ![job[s].quote] =
                        Append(attempts[job[s].quote], "started")]
  BY DEF StartAttempt
<1> QED
  BY <1>1, <1>2, <1>3, <1>4

LEMMA ClosedAttempts ==
    ASSUME TypeInv, NEW s \in Slots, CloseAttempt(s)
    PROVE  /\ job[s].quote \in Quotes /\ pc[s] = "closing"
           /\ attempts[job[s].quote] \in Seq(AttemptStatus)
           /\ job[s].outcome \in AttemptStatus
           /\ \/ attempts' = attempts
              \/ /\ job[s].attempt # 0
                 /\ attempts' = [attempts EXCEPT ![job[s].quote] =
                        [attempts[job[s].quote] EXCEPT ![job[s].attempt] = job[s].outcome]]
<1>1. pc[s] = "closing"
  BY DEF CloseAttempt
<1>2. job[s].quote \in Quotes /\ job[s].outcome \in AttemptStatus
  BY <1>1 DEF TypeInv, JobOK, SlotOK, Job, AttemptStatus
<1>3. attempts[job[s].quote] \in Seq(AttemptStatus)
  BY <1>2 DEF TypeInv, TypeOK
<1>4. \/ attempts' = attempts
      \/ /\ job[s].attempt # 0
         /\ attempts' = [attempts EXCEPT ![job[s].quote] =
                [attempts[job[s].quote] EXCEPT ![job[s].attempt] = job[s].outcome]]
  BY DEF CloseAttempt
<1> QED
  BY <1>1, <1>2, <1>3, <1>4

(* Overwriting an element changes neither the length nor other elements. *)
LEMMA ExceptElements ==
    ASSUME NEW S, NEW h \in Seq(S), NEW a, NEW e \in S
    PROVE  /\ Len([h EXCEPT ![a] = e]) = Len(h)
           /\ \A i \in 1..Len(h) :
                 [h EXCEPT ![a] = e][i] = IF i = a THEN e ELSE h[i]
<1>1. CASE a \in 1..Len(h)
  BY <1>1, ExceptSeq
<1>2. CASE a \notin 1..Len(h)
  <2>1. [h EXCEPT ![a] = e] = h
    BY <1>2
  <2> QED
    BY <1>2, <2>1
<1> QED
  BY <1>1, <1>2

(* A quote gets another attempt only from its driver. *)
LEMMA AttemptsLengthen ==
    ASSUME TypeInv, [Next]_vars, NEW q \in Quotes,
           Len(attempts'[q]) # Len(attempts[q])
    PROVE  \E s \in Slots : pc[s] = "announced" /\ job[s].quote = q /\ StartAttempt(s)
<1>1. PICK s \in Slots : StartAttempt(s) \/ CloseAttempt(s)
  BY AttemptWriters
<1>2. CASE StartAttempt(s)
  <2>1. job[s].quote = q
    BY <1>2, StartedAttempts DEF TypeInv, TypeOK
  <2> QED
    BY <1>2, <2>1, StartedAttempts
<1>3. CASE CloseAttempt(s)
  <2> DEFINE p == job[s].quote
             h == [attempts[p] EXCEPT ![job[s].attempt] = job[s].outcome]
  <2>1. /\ p \in Quotes /\ attempts[p] \in Seq(AttemptStatus)
        /\ attempts' = attempts \/ attempts' = [attempts EXCEPT ![p] = h]
    BY <1>3, ClosedAttempts
  <2>2. Len(h) = Len(attempts[p])
    BY <1>3, <2>1, ClosedAttempts, ExceptElements
  <2> HIDE DEF h
  <2>3. \A r \in Quotes : r # p => attempts'[r] = attempts[r]
    BY <2>1 DEF TypeInv, TypeOK
  <2>4. attempts'[p] = attempts[p] \/ attempts'[p] = h
    BY <2>1 DEF TypeInv, TypeOK
  <2> QED
    BY <2>2, <2>3, <2>4
<1> QED
  BY <1>1, <1>2, <1>3

(* A completed attempt stays the last one of a final quote. *)
LEMMA CompletedStep ==
    ASSUME TypeInv, SlotInv, AttemptInv, [Next]_vars
    PROVE  CompletedAttemptIsFinal'
<1> SUFFICES ASSUME NEW q \in Quotes, NEW i \in 1..Len(attempts'[q]),
                    attempts'[q][i] = "completed"
             PROVE  i = Len(attempts'[q]) /\ Final(q)'
  BY DEF CompletedAttemptIsFinal, Final
<1>1. ASSUME NEW p \in Quotes, NEW n \in 1..Len(attempts[p]), attempts[p][n] = "completed"
      PROVE  n = Len(attempts[p]) /\ Final(p)
  BY <1>1 DEF AttemptInv, CompletedAttemptIsFinal, Final
<1>2. Final(q) => Final(q)'
  BY FinalStays
<1>3. CASE attempts'[q] = attempts[q]
  BY <1>1, <1>2, <1>3
<1>4. ASSUME NEW s \in Slots, StartAttempt(s), attempts'[q] # attempts[q] PROVE FALSE
  <2> DEFINE h == attempts[q]
  <2>1. job[s].quote = q /\ pc[s] = "announced" /\ h \in Seq(AttemptStatus)
    BY <1>4, StartedAttempts DEF TypeInv, TypeOK
  <2>2. attempts'[q] = Append(h, "started")
    BY <1>4, <2>1, StartedAttempts DEF TypeInv, TypeOK
  <2>3. /\ Len(h) \in Nat /\ Len(Append(h, "started")) = Len(h) + 1
        /\ Append(h, "started")[Len(h) + 1] = "started"
        /\ \A n \in 1..Len(h) : Append(h, "started")[n] = h[n]
    BY <2>1
  <2>4. i \in 1..Len(h) \/ i = Len(h) + 1
    BY <2>2, <2>3
  <2>5. i \in 1..Len(h) /\ h[i] = "completed"
    BY <2>2, <2>3, <2>4
  <2>6. Final(q)
    BY <1>1, <2>5
  <2> QED
    BY <2>1, <2>6, DrivenNotFinal DEF DrivesAnalyzing
<1>5. ASSUME NEW s \in Slots, CloseAttempt(s), attempts'[q] # attempts[q]
      PROVE  i = Len(attempts'[q]) /\ Final(q)'
  <2> DEFINE h == attempts[q]
             a == job[s].attempt
  <2>1. job[s].quote = q /\ pc[s] = "closing" /\ h \in Seq(AttemptStatus) /\ a # 0
    BY <1>5, ClosedAttempts DEF TypeInv, TypeOK
  <2>2. attempts'[q] = [h EXCEPT ![a] = job[s].outcome]
    BY <1>5, <2>1, ClosedAttempts DEF TypeInv, TypeOK
  <2>3. /\ Len(attempts'[q]) = Len(h)
        /\ attempts'[q][i] = IF i = a THEN job[s].outcome ELSE h[i]
    BY <1>5, <2>1, <2>2, ClosedAttempts, ExceptElements
  <2>4. CASE i # a
    BY <1>1, <1>2, <2>3, <2>4
  <2>5. CASE i = a
    <3>1. job[s].outcome = "completed"
      BY <2>3, <2>5
    <3>2. Final(q) /\ a = Len(h)
      BY <2>1, <3>1 DEF AttemptInv, AttemptHeld
    <3> QED
      BY <1>2, <2>3, <2>5, <3>2
  <2> QED
    BY <2>4, <2>5
<1> QED
  BY <1>3, <1>4, <1>5, AttemptWriters

(* A slot that does not move keeps what it remembers of its attempt. *)
LEMMA HeldByOthers ==
    ASSUME TypeInv, SlotInv, AttemptInv, [Next]_vars, NEW t \in Slots,
           pc'[t] = pc[t], job'[t] = job[t]
    PROVE  AttemptHeld(t)'
<1> DEFINE q == job[t].quote
<1>1. AttemptHeld(t)
  BY DEF AttemptInv
<1>2. CASE pc[t] \notin {"prompted", "answered", "settled", "closing"}
  BY <1>1, <1>2 DEF AttemptHeld
<1>3. CASE pc[t] \in {"prompted", "answered", "settled", "closing"}
  <2>1. q \in Quotes
    BY <1>3 DEF TypeInv, JobOK, SlotOK
  <2>2. Final(q) => Final(q)'
    BY <2>1, FinalStays
  <2>3. ASSUME pc[t] \in {"prompted", "answered"} \/ Final(q)
        PROVE  Len(attempts'[q]) = Len(attempts[q])
    <3> SUFFICES ASSUME Len(attempts'[q]) # Len(attempts[q]) PROVE FALSE
      OBVIOUS
    <3>1. PICK s \in Slots : pc[s] = "announced" /\ job[s].quote = q
      BY <2>1, AttemptsLengthen
    <3>2. ~Final(q)
      BY <3>1, DrivenNotFinal DEF DrivesAnalyzing
    <3>3. Drives(s, q) /\ Drives(t, q)
      BY <2>3, <3>1, <3>2 DEF Drives
    <3> QED
      BY <2>1, <2>3, <3>1, <3>2, <3>3 DEF SlotInv, OneDriver
  <2>4. job'[t].quote = q
    OBVIOUS
  <2> HIDE DEF q
  <2>5. Final(q)' <=> Final(job[t].quote)'
    BY <2>4 DEF Final, Orphan, InFlight, Drives, q
  <2> QED
    BY <1>1, <1>3, <2>2, <2>3, <2>4, <2>5 DEF AttemptHeld, q
<1> QED
  BY <1>2, <1>3

(* A slot short of its attempt remembers none. *)
LEMMA HeldNone ==
    ASSUME NEW s \in Slots, job'[s].attempt = 0,
           pc'[s] \notin {"settled", "closing"}
    PROVE  AttemptHeld(s)'
  BY DEF AttemptHeld

LEMMA NoAttemptYet ==
    ASSUME AttemptInv, NEW s \in Slots,
           pc[s] \notin {"prompted", "answered", "settled", "closing"}
    PROVE  job[s].attempt = 0
  BY DEF AttemptInv, AttemptHeld

LEMMA HeldReleased == ASSUME TypeInv, NEW s \in Slots, Release(s) PROVE AttemptHeld(s)'
<1>1. pc'[s] = "idle" /\ job'[s] = NoJob
  BY DEF Release, Goto, TypeInv, TypeOK
<1> QED
  BY <1>1, HeldNone DEF NoJob

LEMMA HeldSubmit ==
    ASSUME TypeInv, AttemptInv, NEW s \in Slots, Submit(s)
    PROVE  AttemptHeld(s)'
<1>1. pc'[s] = "accepted"
  BY DEF Submit, AcceptCreate, AcceptRetry, Goto, TypeInv, TypeOK
<1>2. job'[s].attempt = 0
  BY DEF Submit, AcceptCreate, AcceptRetry, NoJob, TypeInv, TypeOK
<1> QED
  BY <1>1, <1>2, HeldNone

LEMMA HeldHandle ==
    ASSUME TypeInv, AttemptInv, NEW s \in Slots, Handle(s)
    PROVE  AttemptHeld(s)'
<1>1. CASE RejectReuse(s) \/ Replay(s) \/ RejectContext(s) \/ RejectRetry(s)
  BY <1>1, HeldReleased DEF RejectReuse, Replay, RejectContext, RejectRetry
<1>2. CASE LockKey(s) \/ LockRow(s) \/ Spawn(s)
  <2>1. /\ pc[s] \in {"accepted", "keyed", "committed"} /\ job' = job
        /\ pc'[s] \in {"keyed", "rowed", "spawned"}
    BY <1>2 DEF LockKey, LockRow, Spawn, Goto, TypeInv, TypeOK
  <2> QED
    BY <2>1, NoAttemptYet, HeldNone
<1>3. ASSUME NEW j, j.attempt = 0, Acked(s, "committed", j) \/ Unacked(s)
      PROVE  AttemptHeld(s)'
  <2>1. CASE Acked(s, "committed", j)
    <3>1. pc'[s] = "committed" /\ job'[s] = j
      BY <2>1 DEF Acked, Goto, TypeInv, TypeOK
    <3> QED
      BY <1>3, <3>1, HeldNone
  <2>2. CASE Unacked(s)
    BY <2>2, HeldReleased DEF Unacked
  <2> QED
    BY <1>3, <2>1, <2>2
<1>4. ASSUME NEW q \in Quotes, CommitCreate(s, q) PROVE AttemptHeld(s)'
  <2> DEFINE j == [job[s] EXCEPT !.quote = q, !.event = Len(log'[q])]
  <2>1. pc[s] = "keyed" /\ (Acked(s, "committed", j) \/ Unacked(s))
    BY <1>4 DEF CommitCreate
  <2>2. job[s].attempt = 0 /\ job[s] \in Job
    BY <2>1, NoAttemptYet DEF TypeInv, JobOK, SlotOK
  <2>3. j.attempt = 0
    BY <2>2 DEF Job
  <2> HIDE DEF j
  <2> QED
    BY <1>3, <2>1, <2>3
<1>5. CASE CommitRetry(s)
  <2> DEFINE j == [job[s] EXCEPT !.event = Len(log'[job[s].quote])]
  <2>1. pc[s] = "rowed" /\ (Acked(s, "committed", j) \/ Unacked(s))
    BY <1>5 DEF CommitRetry
  <2>2. job[s].attempt = 0 /\ job[s] \in Job
    BY <2>1, NoAttemptYet DEF TypeInv, JobOK, SlotOK
  <2>3. j.attempt = 0
    BY <2>2 DEF Job
  <2> HIDE DEF j
  <2> QED
    BY <1>3, <2>1, <2>3
<1> QED
  BY <1>1, <1>2, <1>4, <1>5 DEF Handle

(* The slot that settles a quote, or fails to, drove it: if the provider   *)
(* answered, the quote is final.                                           *)
LEMMA HeldClosing ==
    ASSUME TypeInv, SlotInv, AttemptInv, [Next]_vars, NEW s \in Slots,
           pc[s] = "answered", pc'[s] \in {"settled", "closing"},
           job'[s].quote = job[s].quote, job'[s].attempt = job[s].attempt,
           job'[s].outcome = job[s].outcome,
           attempts' = attempts,
           job[s].outcome = "completed" => Final(job[s].quote)'
    PROVE  AttemptHeld(s)'
<1>1. job[s].attempt = 0 \/ job[s].attempt = Len(attempts[job[s].quote])
  BY DEF AttemptInv, AttemptHeld
<1> QED
  BY <1>1 DEF AttemptHeld, Final, Orphan, InFlight, Drives

LEMMA HeldWork ==
    ASSUME TypeInv, SlotInv, AttemptInv, [Next]_vars, NEW s \in Slots, Work(s)
    PROVE  AttemptHeld(s)'
<1>0. pc[s] \in WorkerPCs => job[s] \in Job /\ job[s].quote \in Quotes
  BY DEF TypeInv, JobOK, SlotOK, WorkerPCs
<1>1. CASE MarkAnalyzing(s)
  <2> DEFINE j == [job[s] EXCEPT !.event = Len(log'[job[s].quote])]
  <2>1. pc[s] = "spawned" /\ (Acked(s, "marked", j) \/ Unacked(s))
    BY <1>1 DEF MarkAnalyzing
  <2>2. job[s].attempt = 0 /\ job[s] \in Job
    BY <1>0, <2>1, NoAttemptYet DEF WorkerPCs
  <2>3. j.attempt = 0
    BY <2>2 DEF Job
  <2> HIDE DEF j
  <2>4. CASE Acked(s, "marked", j)
    <3>1. pc'[s] = "marked" /\ job'[s] = j
      BY <2>4 DEF Acked, Goto, TypeInv, TypeOK
    <3> QED
      BY <2>3, <3>1, HeldNone
  <2>5. CASE Unacked(s)
    BY <2>5, HeldReleased DEF Unacked
  <2> QED
    BY <2>1, <2>4, <2>5
<1>2. CASE Announce(s)
  <2>1. pc[s] = "marked" /\ pc'[s] = "announced" /\ job' = job
    BY <1>2 DEF Announce, Goto, TypeInv, TypeOK
  <2> QED
    BY <2>1, NoAttemptYet, HeldNone
<1>3. CASE NoProvider(s)
  <2>1. /\ pc[s] = "announced" /\ pc'[s] = "answered"
        /\ job'[s] = [job[s] EXCEPT !.outcome = "failed"]
    BY <1>3 DEF NoProvider, Goto, TypeInv, TypeOK
  <2>2. job'[s].attempt = job[s].attempt
    BY <1>0, <2>1 DEF WorkerPCs, Job
  <2> QED
    BY <2>1, <2>2, NoAttemptYet, HeldNone
<1>4. CASE StartAttempt(s)
  <2> DEFINE q == job[s].quote
             j == [job[s] EXCEPT !.attempt = Len(attempts'[q])]
  <2>1. /\ pc[s] = "announced" /\ pc'[s] = "prompted"
        /\ job' = job \/ job' = [job EXCEPT ![s] = j]
    BY <1>4 DEF StartAttempt, Goto, TypeInv, TypeOK
  <2>2. job[s] \in Job
    BY <1>0, <2>1 DEF WorkerPCs
  <2>3. j.attempt = Len(attempts'[q]) /\ j.quote = q
    BY <2>2 DEF Job
  <2> HIDE DEF j
  <2>4. CASE job' = job
    BY <2>1, <2>4, NoAttemptYet, HeldNone
  <2>5. CASE job' = [job EXCEPT ![s] = j]
    <3>1. job'[s] = j
      BY <2>5 DEF TypeInv, TypeOK
    <3>2. job'[s].attempt = Len(attempts'[job'[s].quote])
      BY <2>3, <3>1
    <3> QED
      BY <2>1, <3>2 DEF AttemptHeld
  <2> QED
    BY <2>1, <2>4, <2>5
<1>5. CASE Analyze(s)
  <2>1. PICK result \in {"completed", "failed"} : job' = [job EXCEPT ![s].outcome = result]
    BY <1>5 DEF Analyze
  <2>2. /\ pc[s] = "prompted" /\ pc'[s] = "answered" /\ attempts' = attempts
        /\ job'[s] = [job[s] EXCEPT !.outcome = result]
    BY <1>5, <2>1 DEF Analyze, Goto, dbVars, TypeInv, TypeOK
  <2>3. job'[s].attempt = job[s].attempt /\ job'[s].quote = job[s].quote
    BY <1>0, <2>2 DEF WorkerPCs, Job
  <2> QED
    BY <2>2, <2>3 DEF AttemptInv, AttemptHeld
<1>6. CASE Settle(s)
  <2> DEFINE q == job[s].quote
             j == [job[s] EXCEPT !.event = Len(log'[q])]
  <2>1. /\ pc[s] = "answered" /\ attempts' = attempts /\ Record(q, job[s].outcome)
        /\ Acked(s, "settled", j) \/ (Goto(s, "closing") /\ UNCHANGED job)
    BY <1>6 DEF Settle
  <2>2. job[s] \in Job /\ q \in Quotes
    BY <1>0, <2>1 DEF WorkerPCs
  <2>3. j.quote = q /\ j.attempt = job[s].attempt /\ j.outcome = job[s].outcome
    BY <2>2 DEF Job
  <2> HIDE DEF j
  <2>4. pc'[s] \in {"settled", "closing"} /\ (job'[s] = j \/ job'[s] = job[s])
    BY <2>1 DEF Acked, Goto, TypeInv, TypeOK
  <2>5. /\ job'[s].quote = job[s].quote /\ job'[s].attempt = job[s].attempt
        /\ job'[s].outcome = job[s].outcome
    BY <2>3, <2>4
  <2>6. status'[q] = job[s].outcome
    BY <2>1, <2>2 DEF Record, TypeInv, TypeOK
  <2>7. job[s].outcome = "completed" => Final(job[s].quote)'
    BY <2>5, <2>6 DEF Final
  <2> QED
    BY <2>1, <2>4, <2>5, <2>7, HeldClosing
<1>7. CASE PublishFinal(s)
  <2>1. pc[s] = "settled" /\ pc'[s] = "closing" /\ job' = job /\ attempts' = attempts
    BY <1>7 DEF PublishFinal, Goto, dbVars, TypeInv, TypeOK
  <2>2. job[s].quote \in Quotes
    BY <1>0, <2>1 DEF WorkerPCs
  <2>3. Final(job[s].quote) => Final(job[s].quote)'
    BY <2>1, <2>2, FinalStays DEF Final, Orphan, InFlight, Drives
  <2> QED
    BY <2>1, <2>3 DEF AttemptInv, AttemptHeld
<1>8. CASE CloseAttempt(s)
  BY <1>8, HeldReleased DEF CloseAttempt
<1> QED
  BY <1>1, <1>2, <1>3, <1>4, <1>5, <1>6, <1>7, <1>8 DEF Work

LEMMA HeldFail ==
    ASSUME TypeInv, SlotInv, AttemptInv, [Next]_vars, NEW s \in Slots, Fail(s)
    PROVE  AttemptHeld(s)'
<1>1. CASE AbortTransaction(s) \/ DropHandler(s) \/ FailMark(s)
  BY <1>1, HeldReleased DEF AbortTransaction, DropHandler, FailMark
<1>2. CASE FailSettle(s)
  <2> DEFINE q == job[s].quote
  <2>1. /\ pc[s] = "answered" /\ pc'[s] = "closing" /\ job' = job
        /\ attempts' = attempts /\ status' = status
        /\ \A t \in Slots : t # s => pc'[t] = pc[t]
    BY <1>2 DEF FailSettle, Goto, dbVars, TypeInv, TypeOK
  <2>2. q \in Quotes
    BY <2>1 DEF TypeInv, JobOK, SlotOK
  <2>3. status[q] = "analyzing" /\ Drives(s, q)
    BY <2>1 DEF SlotInv, DriverStatus, DrivesAnalyzing, Drives
  <2>4. ASSUME NEW t \in Slots, Drives(t, q)' PROVE FALSE
    <3>1. t # s
      BY <2>1, <2>4 DEF Drives
    <3>2. Drives(t, q)
      BY <2>1, <2>4, <3>1 DEF Drives
    <3> QED
      BY <2>2, <2>3, <3>1, <3>2 DEF SlotInv, OneDriver
  <2>5. Final(job[s].quote)'
    BY <2>1, <2>3, <2>4 DEF Final, Orphan, InFlight, Drives
  <2> QED
    BY <2>1, <2>5, HeldClosing
<1> QED
  BY <1>1, <1>2 DEF Fail

LEMMA AttemptNext == TypeInv /\ SlotInv /\ AttemptInv /\ [Next]_vars => AttemptInv'
<1> SUFFICES ASSUME TypeInv, SlotInv, AttemptInv, [Next]_vars PROVE AttemptInv'
  OBVIOUS
<1>1. CompletedAttemptIsFinal'
  BY CompletedStep
<1> SUFFICES ASSUME NEW t \in Slots PROVE AttemptHeld(t)'
  BY <1>1 DEF AttemptInv
<1>2. CASE UNCHANGED vars
  BY <1>2, HeldByOthers DEF vars
<1>3. ASSUME NEW s \in Slots, Submit(s) \/ Handle(s) \/ Work(s) \/ Fail(s)
      PROVE  AttemptHeld(t)'
  <2>1. CASE t = s
    BY <1>3, <2>1, HeldSubmit, HeldHandle, HeldWork, HeldFail
  <2>2. CASE t # s
    BY <1>3, <2>2, Bystander, HeldByOthers
  <2> QED
    BY <2>1, <2>2
<1>4. ASSUME NEW r \in Replicas, Crash(r) PROVE AttemptHeld(t)'
  <2>1. \/ pc'[t] = pc[t] /\ job'[t] = job[t]
        \/ pc'[t] = "idle" /\ job'[t] = NoJob
    BY <1>4 DEF Crash
  <2> QED
    BY <2>1, HeldByOthers, HeldNone DEF NoJob
<1> QED
  BY <1>2, <1>3, <1>4 DEF Next

(* A model attempt closed as completed is the quote's last, and the quote  *)
(* is completed, or was left in analyzing because the update that should   *)
(* have completed it failed: finish_model_attempt, which runs after that   *)
(* update and ignores its result, never contradicts the quote.             *)
THEOREM CompletedAttemptsAreFinal == Spec => []CompletedAttemptIsFinal
<1>1. Init => AttemptInv
  BY DEF Init, AttemptInv, AttemptHeld, CompletedAttemptIsFinal, NoJob
<1>2. AttemptInv => CompletedAttemptIsFinal
  BY DEF AttemptInv
<1> QED
  BY <1>1, <1>2, TypeInvariance, SlotInvariance, AttemptNext, PTL DEF Spec
=============================================================================
