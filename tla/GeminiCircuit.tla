---------------------------- MODULE GeminiCircuit ----------------------------
(***************************************************************************)
(* The model client of src/src/gemini.rs: analyze, its bounded retries,    *)
(* and the circuit breaker that all analyses of a process share.           *)
(*                                                                         *)
(* A call looks at the circuit once, before its first request, and reports *)
(* to it once, after its last.  Requests of other calls, and whole open    *)
(* periods, fall between the two.                                          *)
(***************************************************************************)
EXTENDS Integers, Sequences

CONSTANTS
    Calls,        \* analyses, each of which calls the model once
    MAX_ATTEMPTS,
    CIRCUIT_FAILURE_THRESHOLD,
    CIRCUIT_OPEN_FOR,
    AttemptTime,  \* the request timeout and the longest delay before a retry
    None,         \* open_until of a closed circuit
    MaxTime       \* bound on the clock

ASSUME CircuitAssumption ==
    /\ MAX_ATTEMPTS \in Nat \ {0}
    /\ CIRCUIT_FAILURE_THRESHOLD \in Nat \ {0}
    /\ CIRCUIT_OPEN_FOR \in Nat
    /\ AttemptTime \in Nat \ {0}
    /\ None \notin Nat
    /\ MaxTime \in Nat

VARIABLES
    clock,
    failures,   \* CircuitState.failures
    openUntil,  \* CircuitState.open_until
    pc,         \* what a call does next
    attempt,    \* the attempt a call makes
    due,        \* when that attempt times out
    began,      \* when the call passed the circuit
    streak,     \* failures reported since a success or since the circuit's expiry
    openedAt    \* when the circuit last opened

circuit == <<failures, openUntil>>

vars == <<clock, circuit, pc, attempt, due, began, streak, openedAt>>

Init ==
    /\ clock = 0
    /\ failures = 0
    /\ openUntil = None
    /\ pc = [c \in Calls |-> "idle"]
    /\ attempt = [c \in Calls |-> 0]
    /\ due = [c \in Calls |-> 0]
    /\ began = [c \in Calls |-> 0]
    /\ streak = 0
    /\ openedAt = 0

(* A request that is out is answered or fails by its timeout, and a call   *)
(* that has its answer reports it without delay.                           *)
Tick ==
    /\ clock < MaxTime
    /\ \A c \in Calls : /\ pc[c] = "sending" => clock < due[c]
                        /\ pc[c] \notin {"succeeded", "failed"}
    /\ clock' = clock + 1
    /\ UNCHANGED <<circuit, pc, attempt, due, began, streak, openedAt>>

Become(c, s) == pc' = [pc EXCEPT ![c] = s]

-----------------------------------------------------------------------------
(* build_prompt and before_request *)

Open == openUntil # None /\ clock < openUntil

(* The prompt is too large, or the circuit is open. *)
Refuse(c) ==
    /\ pc[c] = "idle"
    /\ Become(c, "done")
    /\ UNCHANGED <<clock, circuit, attempt, due, began, streak, openedAt>>

(* Mutant: an expired circuit is passed and left as it is. *)
BeginUnreset(c) ==
    /\ pc[c] = "idle"
    /\ ~Open
    /\ UNCHANGED <<circuit, streak>>
    /\ Become(c, "sending")
    /\ attempt' = [attempt EXCEPT ![c] = 1]
    /\ due' = [due EXCEPT ![c] = clock + AttemptTime]
    /\ began' = [began EXCEPT ![c] = clock]
    /\ UNCHANGED <<clock, openedAt>>

(* The first call after an open period closes the circuit. *)
Begin(c) ==
    /\ pc[c] = "idle"
    /\ ~Open
    /\ IF openUntil # None
       THEN failures' = 0 /\ openUntil' = None /\ streak' = 0
       ELSE UNCHANGED <<circuit, streak>>
    /\ Become(c, "sending")
    /\ attempt' = [attempt EXCEPT ![c] = 1]
    /\ due' = [due EXCEPT ![c] = clock + AttemptTime]
    /\ began' = [began EXCEPT ![c] = clock]
    /\ UNCHANGED <<clock, openedAt>>

-----------------------------------------------------------------------------
(* execute_with_retries *)

(* 429, a server error, no connection or a timeout, with an attempt left. *)
Retry(c) ==
    /\ pc[c] = "sending"
    /\ attempt[c] < MAX_ATTEMPTS
    /\ attempt' = [attempt EXCEPT ![c] = @ + 1]
    /\ due' = [due EXCEPT ![c] = clock + AttemptTime]
    /\ UNCHANGED <<clock, circuit, pc, began, streak, openedAt>>

Succeed(c) ==
    /\ pc[c] = "sending"
    /\ Become(c, "succeeded")
    /\ UNCHANGED <<clock, circuit, attempt, due, began, streak, openedAt>>

(* The same failures on the last attempt, or any other transport error. *)
Fail(c) ==
    /\ pc[c] = "sending"
    /\ Become(c, "failed")
    /\ UNCHANGED <<clock, circuit, attempt, due, began, streak, openedAt>>

(* Another rejection, or an answer that is too large or not an analysis:   *)
(* no operational failure, so nothing is reported.                         *)
Discard(c) ==
    /\ pc[c] = "sending"
    /\ Become(c, "done")
    /\ UNCHANGED <<clock, circuit, attempt, due, began, streak, openedAt>>

-----------------------------------------------------------------------------
(* record_success and record_failure *)

(* Mutant: failures are counted across successes. *)
RecordSuccessUncounted(c) ==
    /\ pc[c] = "succeeded"
    /\ Become(c, "done")
    /\ openUntil' = None
    /\ streak' = 0
    /\ UNCHANGED <<clock, failures, attempt, due, began, openedAt>>

RecordSuccess(c) ==
    /\ pc[c] = "succeeded"
    /\ Become(c, "done")
    /\ failures' = 0
    /\ openUntil' = None
    /\ streak' = 0
    /\ UNCHANGED <<clock, attempt, due, began, openedAt>>

RecordFailure(c) ==
    /\ pc[c] = "failed"
    /\ Become(c, "done")
    /\ failures' = failures + 1
    /\ streak' = streak + 1
    /\ IF failures' >= CIRCUIT_FAILURE_THRESHOLD
       THEN /\ openUntil' = clock + CIRCUIT_OPEN_FOR
            /\ openedAt' = IF openUntil = None THEN clock ELSE openedAt
       ELSE UNCHANGED <<openUntil, openedAt>>
    /\ UNCHANGED <<clock, attempt, due, began>>

Next ==
    \/ Tick
    \/ \E c \in Calls :
         \/ Refuse(c) \/ Begin(c)
         \/ Retry(c) \/ Succeed(c) \/ Fail(c) \/ Discard(c)
         \/ RecordSuccess(c) \/ RecordFailure(c)

Spec == Init /\ [][Next]_vars

-----------------------------------------------------------------------------
(* Properties *)

(* The fields keep their types, and a call makes no more than its attempts. *)
TypeOK ==
    /\ clock \in Nat
    /\ failures \in Nat
    /\ openUntil \in Nat \cup {None}
    /\ pc \in [Calls -> {"idle", "sending", "succeeded", "failed", "done"}]
    /\ attempt \in [Calls -> 0 .. MAX_ATTEMPTS]
    /\ due \in [Calls -> Nat]
    /\ began \in [Calls -> Nat]
    /\ streak \in Nat
    /\ openedAt \in Nat

(* A circuit that refuses calls saw CIRCUIT_FAILURE_THRESHOLD failures     *)
(* reported with no success between them, in the order in which            *)
(* overlapping calls reported.                                             *)
OpensAfterStreak == openUntil # None => streak >= CIRCUIT_FAILURE_THRESHOLD

(* Late failures of calls that were out when the circuit opened keep it    *)
(* open, but no longer than one call can take and one open period: calls   *)
(* let through later never extend it.                                      *)
OutageBounded ==
    openUntil # None =>
      openUntil <= openedAt + MAX_ATTEMPTS * AttemptTime + CIRCUIT_OPEN_FOR
=============================================================================
