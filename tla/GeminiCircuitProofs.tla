------------------------- MODULE GeminiCircuitProofs -------------------------
(***************************************************************************)
(* Proofs about GeminiCircuit, for any calls, thresholds and times.        *)
(***************************************************************************)
EXTENDS GeminiCircuit, TLAPS

InFlight(c) == pc[c] \in {"sending", "succeeded", "failed"}

(* A call is within the time its attempts allow. *)
InTime ==
    \A c \in Calls : InFlight(c) =>
      /\ began[c] <= clock
      /\ clock <= due[c]
      /\ due[c] <= began[c] + attempt[c] * AttemptTime

(* The count of failures is the streak, and opened the circuit. *)
Counted ==
    /\ streak = failures
    /\ openUntil # None => failures >= CIRCUIT_FAILURE_THRESHOLD

(* No call passed the circuit since it opened. *)
NoneSince ==
    openUntil # None =>
      /\ openedAt <= clock
      /\ \A c \in Calls : InFlight(c) => began[c] <= openedAt

Inv == TypeOK /\ InTime /\ Counted /\ NoneSince /\ OutageBounded

-----------------------------------------------------------------------------
(* Attempts take no more time than all attempts. *)
LEMMA AttemptsTake ==
    ASSUME NEW a \in 0 .. MAX_ATTEMPTS
    PROVE  /\ a * AttemptTime \in Nat
           /\ (a + 1) * AttemptTime = a * AttemptTime + AttemptTime
           /\ MAX_ATTEMPTS * AttemptTime \in Nat
           /\ a * AttemptTime <= MAX_ATTEMPTS * AttemptTime
BY CircuitAssumption

(* Initially the circuit is closed and no call is out. *)
LEMMA InitInv == Init => Inv
BY CircuitAssumption
DEF Init, Inv, TypeOK, InTime, Counted, NoneSince, OutageBounded, InFlight

(* Time passes while every request that is out has time left. *)
LEMMA TickInv == ASSUME Inv, Tick PROVE Inv'
<1> USE DEF Inv, Tick, circuit
<1>1. TypeOK'
  BY DEF TypeOK
<1>2. InTime'
  <2> SUFFICES ASSUME NEW c \in Calls, InFlight(c)
               PROVE  /\ began[c] <= clock + 1
                      /\ clock + 1 <= due[c]
                      /\ due[c] <= began[c] + attempt[c] * AttemptTime
    BY DEF InTime, InFlight
  <2>1. pc[c] = "sending"
    BY DEF InFlight
  <2>2. clock < due[c] /\ clock \in Nat /\ due[c] \in Nat /\ began[c] \in Nat
    BY <2>1 DEF TypeOK
  <2> QED
    BY <2>2 DEF InTime
<1>3. Counted' /\ OutageBounded'
  BY DEF Counted, OutageBounded
<1>4. NoneSince'
  BY DEF NoneSince, InFlight, TypeOK
<1> QED
  BY <1>1, <1>2, <1>3, <1>4

(* A call that is refused, moves on or ends leaves the circuit alone. *)
LEMMA MoveInv ==
    ASSUME Inv, NEW c \in Calls, NEW s \in {"succeeded", "failed", "done"}, Become(c, s),
           s = "done" \/ pc[c] = "sending",
           UNCHANGED <<clock, circuit, attempt, due, began, streak, openedAt>>
    PROVE  Inv'
<1> USE DEF Inv, circuit
<1>0. \A d \in Calls : InFlight(d)' => InFlight(d)
  BY DEF InFlight, Become, TypeOK
<1>1. TypeOK'
  BY DEF TypeOK, Become
<1>2. InTime'
  BY <1>0 DEF InTime
<1>3. Counted' /\ OutageBounded'
  BY DEF Counted, OutageBounded
<1>4. NoneSince'
  BY <1>0 DEF NoneSince
<1> QED
  BY <1>1, <1>2, <1>3, <1>4

(* A call passes the circuit only when it is closed or closes it. *)
LEMMA BeginInv ==
    ASSUME Inv, NEW c \in Calls, Begin(c)
    PROVE  Inv'
<1> USE DEF Inv
<1>0. openUntil' = None /\ clock' = clock
  BY DEF Begin, circuit
<1>1. TypeOK'
  BY CircuitAssumption DEF Begin, Become, TypeOK, circuit
<1>2. InTime'
  <2> SUFFICES ASSUME NEW d \in Calls, InFlight(d)'
               PROVE  /\ began'[d] <= clock
                      /\ clock <= due'[d]
                      /\ due'[d] <= began'[d] + attempt'[d] * AttemptTime
    BY <1>0 DEF InTime
  <2>1. CASE d = c
    <3>1. began'[c] = clock /\ due'[c] = clock + AttemptTime /\ attempt'[c] = 1
      BY DEF Begin, TypeOK
    <3> QED
      BY <2>1, <3>1, CircuitAssumption DEF TypeOK
  <2>2. CASE d # c
    <3>1. /\ began'[d] = began[d] /\ due'[d] = due[d] /\ attempt'[d] = attempt[d]
          /\ InFlight(d)
      BY <2>2 DEF Begin, Become, TypeOK, InFlight
    <3> QED
      BY <3>1 DEF InTime
  <2> QED
    BY <2>1, <2>2
<1>3. Counted'
  BY <1>0 DEF Begin, Counted, circuit
<1>4. NoneSince' /\ OutageBounded'
  BY <1>0 DEF NoneSince, OutageBounded
<1> QED
  BY <1>1, <1>2, <1>3, <1>4

(* Another attempt has its own timeout. *)
LEMMA RetryInv ==
    ASSUME Inv, NEW c \in Calls, Retry(c)
    PROVE  Inv'
<1> USE DEF Inv, circuit
<1>0. /\ pc[c] = "sending" /\ attempt[c] < MAX_ATTEMPTS
      /\ UNCHANGED <<clock, circuit, pc, began, streak, openedAt>>
  BY DEF Retry
<1>1. TypeOK'
  BY CircuitAssumption DEF Retry, TypeOK
<1>2. InTime'
  <2> SUFFICES ASSUME NEW d \in Calls, InFlight(d)
               PROVE  /\ began[d] <= clock
                      /\ clock <= due'[d]
                      /\ due'[d] <= began[d] + attempt'[d] * AttemptTime
    BY <1>0 DEF InTime, InFlight
  <2>0. /\ began[d] \in Nat /\ due[d] \in Nat /\ clock \in Nat
        /\ attempt[d] \in 0 .. MAX_ATTEMPTS
    BY DEF TypeOK
  <2>1. CASE d = c
    <3>1. due'[c] = clock + AttemptTime /\ attempt'[c] = attempt[c] + 1
      BY DEF Retry, TypeOK
    <3>2. clock <= began[c] + attempt[c] * AttemptTime /\ began[c] <= clock
      BY <2>0, <2>1, AttemptsTake DEF InTime
    <3> QED
      BY <2>0, <2>1, <3>1, <3>2, AttemptsTake, CircuitAssumption
  <2>2. CASE d # c
    <3>1. due'[d] = due[d] /\ attempt'[d] = attempt[d]
      BY <2>2 DEF Retry, TypeOK
    <3> QED
      BY <3>1 DEF InTime
  <2> QED
    BY <2>1, <2>2
<1>3. Counted' /\ OutageBounded'
  BY <1>0 DEF Counted, OutageBounded
<1>4. NoneSince'
  BY <1>0 DEF NoneSince, InFlight
<1> QED
  BY <1>1, <1>2, <1>3, <1>4

(* A success, however late, closes the circuit. *)
LEMMA RecordSuccessInv ==
    ASSUME Inv, NEW c \in Calls, RecordSuccess(c)
    PROVE  Inv'
<1> USE DEF Inv, RecordSuccess
<1>0. \A d \in Calls : InFlight(d)' => InFlight(d)
  BY DEF InFlight, Become, TypeOK
<1>1. TypeOK'
  BY DEF TypeOK, Become
<1>2. InTime'
  BY <1>0 DEF InTime
<1>3. Counted' /\ OutageBounded' /\ NoneSince'
  BY DEF Counted, OutageBounded, NoneSince
<1> QED
  BY <1>1, <1>2, <1>3

(* A failure that opens the circuit, or keeps it open, comes from a call   *)
(* that passed it before it opened.                                        *)
LEMMA RecordFailureInv ==
    ASSUME Inv, NEW c \in Calls, RecordFailure(c)
    PROVE  Inv'
<1> USE DEF Inv
<1>0. /\ pc[c] = "failed" /\ Become(c, "done")
      /\ failures' = failures + 1 /\ streak' = streak + 1
      /\ UNCHANGED <<clock, attempt, due, began>>
  BY DEF RecordFailure
<1>1. \A d \in Calls : InFlight(d)' => InFlight(d)
  BY <1>0 DEF InFlight, Become, TypeOK
<1>2. TypeOK'
  BY <1>0, CircuitAssumption DEF RecordFailure, TypeOK, Become
<1>3. InTime'
  BY <1>0, <1>1 DEF InTime
<1>4. Counted'
  BY <1>0, CircuitAssumption DEF RecordFailure, Counted, TypeOK
<1>5. InFlight(c)
  BY <1>0 DEF InFlight
<1>6. /\ clock \in Nat /\ openedAt \in Nat /\ began[c] \in Nat /\ due[c] \in Nat
      /\ attempt[c] \in 0 .. MAX_ATTEMPTS
      /\ clock <= due[c] /\ due[c] <= began[c] + attempt[c] * AttemptTime
      /\ \A d \in Calls : InFlight(d) => began[d] <= clock
  BY <1>5 DEF TypeOK, InTime
<1>7. clock <= began[c] + MAX_ATTEMPTS * AttemptTime
  BY <1>6, AttemptsTake
<1>8. NoneSince' /\ OutageBounded'
  <2>1. CASE failures' < CIRCUIT_FAILURE_THRESHOLD
    <3>1. openUntil' = openUntil /\ openedAt' = openedAt
      BY <1>0, <2>1, CircuitAssumption DEF RecordFailure, TypeOK
    <3> QED
      BY <1>0, <1>1, <3>1 DEF NoneSince, OutageBounded
  <2>2. CASE failures' >= CIRCUIT_FAILURE_THRESHOLD /\ openUntil = None
    <3>1. openUntil' = clock + CIRCUIT_OPEN_FOR /\ openedAt' = clock
      BY <2>2 DEF RecordFailure
    <3>2. NoneSince'
      BY <1>0, <1>1, <1>6, <3>1 DEF NoneSince
    <3>3. OutageBounded'
      BY <1>6, <3>1, AttemptsTake, CircuitAssumption DEF OutageBounded
    <3> QED
      BY <3>2, <3>3
  <2>3. CASE failures' >= CIRCUIT_FAILURE_THRESHOLD /\ openUntil # None
    <3>1. openUntil' = clock + CIRCUIT_OPEN_FOR /\ openedAt' = openedAt
      BY <2>3 DEF RecordFailure
    <3>2. openedAt <= clock /\ began[c] <= openedAt
      BY <1>5, <2>3 DEF NoneSince
    <3>3. NoneSince'
      BY <1>0, <1>1, <2>3, <3>1 DEF NoneSince
    <3>4. OutageBounded'
      BY <1>6, <1>7, <3>1, <3>2, AttemptsTake, CircuitAssumption DEF OutageBounded
    <3> QED
      BY <3>3, <3>4
  <2>4. failures' \in Nat
    BY <1>2 DEF TypeOK
  <2> QED
    BY <2>1, <2>2, <2>3, <2>4, CircuitAssumption
<1> QED
  BY <1>2, <1>3, <1>4, <1>8

(* Every step keeps the invariant. *)
LEMMA NextInv == Inv /\ [Next]_vars => Inv'
<1> SUFFICES ASSUME Inv, [Next]_vars PROVE Inv'
  OBVIOUS
<1>1. CASE Tick
  BY <1>1, TickInv
<1>2. ASSUME NEW c \in Calls, Begin(c)
      PROVE  Inv'
  BY <1>2, BeginInv
<1>3. ASSUME NEW c \in Calls, Retry(c)
      PROVE  Inv'
  BY <1>3, RetryInv
<1>4. ASSUME NEW c \in Calls, Refuse(c) \/ Succeed(c) \/ Fail(c) \/ Discard(c)
      PROVE  Inv'
  BY <1>4, MoveInv DEF Refuse, Succeed, Fail, Discard
<1>5. ASSUME NEW c \in Calls, RecordSuccess(c)
      PROVE  Inv'
  BY <1>5, RecordSuccessInv
<1>6. ASSUME NEW c \in Calls, RecordFailure(c)
      PROVE  Inv'
  BY <1>6, RecordFailureInv
<1>7. CASE UNCHANGED vars
  BY <1>7
  DEF vars, circuit, Inv, TypeOK, InTime, Counted, NoneSince, OutageBounded, InFlight
<1> QED
  BY <1>1, <1>2, <1>3, <1>4, <1>5, <1>6, <1>7 DEF Next

(* The invariant holds throughout. *)
LEMMA AlwaysInv == Spec => []Inv
BY InitInv, NextInv, PTL DEF Spec

(* The circuit opens only after an unbroken streak of failures, however    *)
(* calls overlap.                                                          *)
THEOREM OpenAfterStreak == Spec => []OpensAfterStreak
<1>1. Inv => OpensAfterStreak
  BY DEF Inv, Counted, OpensAfterStreak
<1> QED
  BY <1>1, AlwaysInv, PTL

(* An outage lasts no longer than one call and one open period. *)
THEOREM OutagesAreBounded == Spec => []OutageBounded
<1>1. Inv => OutageBounded
  BY DEF Inv
<1> QED
  BY <1>1, AlwaysInv, PTL
=============================================================================
