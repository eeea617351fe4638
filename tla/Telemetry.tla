------------------------------ MODULE Telemetry ------------------------------
(***************************************************************************)
(* The shared Ores logger of src/src/telemetry.rs: a slot behind a         *)
(* read/write lock, a mutex-protected count of the TelemetryGuards alive,  *)
(* emissions that build the logger on demand, and the last guard's drop,   *)
(* which takes the logger out of the slot and closes it.                   *)
(*                                                                         *)
(* Writing under the write lock takes one step here, since nothing blocks  *)
(* there; an emission holds the read lock from Look to Emit.  A writer     *)
(* that finds readers parks, and readers that come later wait behind it if *)
(* the standard library's lock makes them (ReadersWait: it leaves that     *)
(* open, and does so on Linux).  The number of a logger is the value of    *)
(* LOGGER_BUILDS when it was built.                                        *)
(***************************************************************************)
EXTENDS Integers, FiniteSets

CONSTANTS
    Owners,     \* threads that call init() and drop the guard they get
    Callers,    \* threads that report RPC errors
    MaxInits,   \* bound on the calls of init() in a behaviour
    ReadersWait \* a reader waits behind a parked writer

ASSUME TelemetryAssumption ==
    /\ Owners \cap Callers = {}
    /\ IsFiniteSet(Owners)
    /\ MaxInits \in Nat
    /\ ReadersWait \in BOOLEAN

VARIABLES
    slot,       \* ORES_LOGGER: the active logger, 0 for None
    active,     \* ACTIVE_TELEMETRY_GUARDS
    lifecycle,  \* owners holding that count's mutex beyond one step
    readers,    \* threads holding the slot's read lock
    parked,     \* threads parked until the readers have gone, to write
    pc,         \* where a thread is
    held,       \* the logger a thread emits to or is to close, 0 if none
    closed,     \* the loggers closed
    builds,     \* LOGGER_BUILDS
    inits       \* calls of init() so far

vars == <<slot, active, lifecycle, readers, parked, pc, held, closed, builds, inits>>

Threads == Owners \cup Callers

(*   out       not in a call, holds no guard                               *)
(*   beginning in init(), waits for the mutex to count its guard           *)
(*   looking   in with_ores_logger, about to take the read lock            *)
(*   building  in with_ores_logger, found the slot empty                   *)
(*   emitting  holds the read lock and writes a record                     *)
(*   live      init() has returned the guard                               *)
(*   ending    in the guard's drop, waits for the mutex                    *)
(*   retiring  the last guard's drop, about to take the write lock         *)
(*   closing   the logger is out of the slot, close() is due               *)
PCs ==
    {"out", "beginning", "looking", "building", "emitting", "live", "ending", "retiring",
     "closing"}

(* Where an owner's guard is counted. *)
Guarded == {"looking", "building", "emitting", "live", "ending"}

Writers == {"building", "retiring"}

TypeOK ==
    /\ slot \in Nat
    /\ active \in Nat
    /\ lifecycle \subseteq Owners
    /\ readers \subseteq Threads
    /\ parked \subseteq Threads
    /\ pc \in [Threads -> PCs]
    /\ held \in [Threads -> Nat]
    /\ closed \subseteq Nat
    /\ builds \in Nat
    /\ inits \in Nat

Init ==
    /\ slot = 0
    /\ active = 0
    /\ lifecycle = {}
    /\ readers = {}
    /\ parked = {}
    /\ pc = [t \in Threads |-> "out"]
    /\ held = [t \in Threads |-> 0]
    /\ closed = {}
    /\ builds = 0
    /\ inits = 0

-----------------------------------------------------------------------------
Goto(t, l) == pc' = [pc EXCEPT ![t] = l]

Hold(t, l) == held' = [held EXCEPT ![t] = l]

(* init() is called. *)
CallInit(o) ==
    /\ pc[o] = "out"
    /\ inits < MaxInits
    /\ inits' = inits + 1
    /\ Goto(o, "beginning")
    /\ UNCHANGED <<slot, active, lifecycle, readers, parked, held, closed, builds>>

(* begin_telemetry_lifetime counts the guard under the mutex; the logger   *)
(* is used next.                                                           *)
BeginTelemetryLifetime(o) ==
    /\ pc[o] = "beginning"
    /\ lifecycle = {}
    /\ active' = active + 1
    /\ Goto(o, "looking")
    /\ UNCHANGED <<slot, lifecycle, readers, parked, held, closed, builds, inits>>

(* log_rpc_error: no guard is needed, a late error may find none alive. *)
LogRpcError(c) ==
    /\ pc[c] = "out"
    /\ Goto(c, "looking")
    /\ UNCHANGED <<slot, active, lifecycle, readers, parked, held, closed, builds, inits>>

(* Mutant: the logger is handed out and the read lock released. *)
LookAndRelease(t) ==
    /\ pc[t] = "looking"
    /\ Goto(t, IF slot = 0 THEN "building" ELSE "emitting")
    /\ Hold(t, slot)
    /\ UNCHANGED <<slot, active, lifecycle, readers, parked, closed, builds, inits>>

(* with_ores_logger, under the read lock: it is kept if there is a logger. *)
Look(t) ==
    /\ pc[t] = "looking"
    /\ ReadersWait => parked = {}
    /\ Goto(t, IF slot = 0 THEN "building" ELSE "emitting")
    /\ Hold(t, slot)
    /\ readers' = IF slot = 0 THEN readers ELSE readers \cup {t}
    /\ UNCHANGED <<slot, active, lifecycle, parked, closed, builds, inits>>

(* The write lock is asked for and emissions are in flight. *)
Park(t) ==
    /\ pc[t] \in Writers
    /\ readers # {}
    /\ t \notin parked
    /\ parked' = parked \cup {t}
    /\ UNCHANGED <<slot, active, lifecycle, readers, pc, held, closed, builds, inits>>

(* with_ores_logger, under the write lock, then round again. *)
Build(t) ==
    /\ pc[t] = "building"
    /\ readers = {}
    /\ slot' = IF slot = 0 THEN builds + 1 ELSE slot
    /\ builds' = IF slot = 0 THEN builds + 1 ELSE builds
    /\ Goto(t, "looking")
    /\ UNCHANGED <<active, lifecycle, readers, parked, held, closed, inits>>

(* The record is written and the read lock released; init() returns its    *)
(* guard, log_rpc_error returns.  The last reader wakes the writers.       *)
Emit(t) ==
    /\ pc[t] = "emitting"
    /\ Goto(t, IF t \in Owners THEN "live" ELSE "out")
    /\ Hold(t, 0)
    /\ readers' = readers \ {t}
    /\ parked' = IF readers \ {t} = {} THEN {} ELSE parked
    /\ UNCHANGED <<slot, active, lifecycle, closed, builds, inits>>

(* The guard is dropped ... *)
DropGuard(o) ==
    /\ pc[o] = "live"
    /\ Goto(o, "ending")
    /\ UNCHANGED <<slot, active, lifecycle, readers, parked, held, closed, builds, inits>>

(* Mutant: the mutex is released before the retirement. *)
EndWithoutMutex(o) ==
    /\ pc[o] = "ending"
    /\ lifecycle = {}
    /\ active' = IF active = 0 THEN 0 ELSE active - 1
    /\ Goto(o, IF active = 1 THEN "retiring" ELSE "out")
    /\ UNCHANGED <<slot, lifecycle, readers, parked, held, closed, builds, inits>>

(* ... and end_telemetry_lifetime gets the mutex, up to retire_logger,     *)
(* which runs, for the last guard only, with the mutex held.               *)
EndTelemetryLifetime(o) ==
    /\ pc[o] = "ending"
    /\ lifecycle = {}
    /\ active' = IF active = 0 THEN 0 ELSE active - 1
    /\ lifecycle' = IF active = 1 THEN {o} ELSE {}
    /\ Goto(o, IF active = 1 THEN "retiring" ELSE "out")
    /\ UNCHANGED <<slot, readers, parked, held, closed, builds, inits>>

(* retire_logger: taken under the write lock, released at once ... *)
TakeLogger(o) ==
    /\ pc[o] = "retiring"
    /\ readers = {}
    /\ Hold(o, slot)
    /\ slot' = 0
    /\ Goto(o, "closing")
    /\ UNCHANGED <<active, lifecycle, readers, parked, closed, builds, inits>>

(* Mutant: the mutex is never released once the logger is closed. *)
CloseAndKeepMutex(o) ==
    /\ pc[o] = "closing"
    /\ closed' = closed \cup ({held[o]} \ {0})
    /\ Hold(o, 0)
    /\ Goto(o, "out")
    /\ UNCHANGED <<slot, active, lifecycle, readers, parked, builds, inits>>

(* ... and closed if there was one; then the mutex is released. *)
CloseLogger(o) ==
    /\ pc[o] = "closing"
    /\ closed' = closed \cup ({held[o]} \ {0})
    /\ Hold(o, 0)
    /\ lifecycle' = lifecycle \ {o}
    /\ Goto(o, "out")
    /\ UNCHANGED <<slot, active, readers, parked, builds, inits>>

(* A call in progress goes on.  Starting a call and dropping a guard are   *)
(* the threads' own choices.                                               *)
Continue(t) ==
    \/ Look(t) \/ Park(t) \/ Build(t) \/ Emit(t)
    \/ BeginTelemetryLifetime(t) \/ EndTelemetryLifetime(t)
    \/ TakeLogger(t) \/ CloseLogger(t)

Next ==
    \/ \E o \in Owners : CallInit(o) \/ DropGuard(o)
    \/ \E c \in Callers : LogRpcError(c)
    \/ \E t \in Threads : Continue(t)

Spec == Init /\ [][Next]_vars

(* A thread that can go on does.  Errors are reported without end, so the  *)
(* write lock may only be free now and then: a thread that keeps asking    *)
(* gets it.                                                                *)
Fairness ==
    \A t \in Threads :
        /\ WF_vars(Continue(t))
        /\ SF_vars(Build(t) \/ TakeLogger(t))

FairSpec == Spec /\ Fairness

-----------------------------------------------------------------------------
(* Properties *)

(* No record is written to a closed logger, which would panic, however     *)
(* retirement overlaps emissions (with_ores_logger keeps the read lock).   *)
NoEmissionOnClosed == \A t \in Threads : pc[t] = "emitting" => held[t] \notin closed

(* As long as a guard is alive the logger stays in the slot: a drop and an *)
(* init that overlap never retire the logger under the new owner (the      *)
(* mutex is held through retire_logger).                                   *)
LiveOwnersKeepLogger == \A o \in Owners : pc[o] \in {"live", "ending"} => slot # 0

(* Every call returns: emissions, init() and drops of guards that overlap  *)
(* on the two locks never wait for each other for ever.  A thread waiting  *)
(* for the mutex, for the write lock or behind a parked writer has not     *)
(* returned, and errors are reported without end meanwhile.                *)
CallsReturn == \A t \in Threads : (pc[t] \notin {"out", "live"}) ~> (pc[t] \in {"out", "live"})
=============================================================================
