--------------------------- MODULE TelemetryProofs ---------------------------
(***************************************************************************)
(* Telemetry's safety, for any owners, callers and number of calls: no     *)
(* record is written to a closed logger, a live guard keeps its logger,    *)
(* and no logger is lost open.                                             *)
(***************************************************************************)
EXTENDS Telemetry, FiniteSetTheorems, TLAPS

-----------------------------------------------------------------------------
(* The inductive invariant.  The mutex keeps every guard out between the   *)
(* count's fall to zero and the end of the retirement, which is why the    *)
(* logger of a live guard stays (Mutex, Count).  The read lock keeps the   *)
(* logger of an emission in the slot (ReadLock, Emission), and loggers     *)
(* outside the slot are older than the one in it (Spent).                  *)

GuardedOwners == {o \in Owners : pc[o] \in Guarded}

ReadLock == readers = {t \in Threads : pc[t] = "emitting"}

Emission == \A t \in Threads : pc[t] = "emitting" => held[t] = slot /\ slot # 0

Mutex ==
    /\ \A o \in Owners : o \in lifecycle <=> pc[o] \in {"retiring", "closing"}
    /\ \A o, p \in lifecycle : o = p
    /\ lifecycle # {} => \A o \in Owners : pc[o] \notin Guarded

Bystanders ==
    \A c \in Callers : pc[c] \notin {"beginning", "live", "ending", "retiring", "closing"}

Count == active = Cardinality(GuardedOwners)

Spent ==
    /\ slot <= builds
    /\ \A l \in closed : l <= builds /\ (slot # 0 => l < slot)
    /\ \A o \in Owners :
          pc[o] = "closing" => held[o] <= builds /\ (slot # 0 => held[o] < slot)

(* Every logger ever built is in the slot, about to be closed, or closed:  *)
(* none is lost open when it is replaced or retired (get_or_insert_with,   *)
(* retire_logger).                                                         *)
NoLoggerLost ==
    \A l \in 1..builds :
        \/ l = slot
        \/ l \in closed
        \/ \E o \in Owners : pc[o] = "closing" /\ held[o] = l

Inv ==
    /\ TypeOK /\ ReadLock /\ Emission /\ Mutex /\ Bystanders /\ Count
    /\ LiveOwnersKeepLogger /\ Spent /\ NoLoggerLost
-----------------------------------------------------------------------------
(* The count *)

(* Finitely many owners hold a guard. *)
LEMMA CountFinite == IsFiniteSet(GuardedOwners)
BY TelemetryAssumption, FS_Subset DEF GuardedOwners

(* A thread that neither gets nor gives up a guard leaves the count alone. *)
LEMMA CountStays ==
    ASSUME TypeOK, Count, NEW t \in Threads, NEW l \in PCs,
           pc' = [pc EXCEPT ![t] = l],
           t \in Owners => (pc[t] \in Guarded <=> l \in Guarded),
           active' = active
    PROVE  Count'
<1>1. GuardedOwners' = GuardedOwners
  BY DEF GuardedOwners, TypeOK, Threads
<1> QED
  BY <1>1 DEF Count

(* init counts its guard. *)
LEMMA CountGrows ==
    ASSUME TypeOK, Count, NEW o \in Owners, pc[o] = "beginning",
           pc' = [pc EXCEPT ![o] = "looking"], active' = active + 1
    PROVE  Count'
<1>1. GuardedOwners' = GuardedOwners \cup {o}
  BY DEF GuardedOwners, TypeOK, Threads, Guarded
<1>2. o \notin GuardedOwners
  BY DEF GuardedOwners, Guarded
<1>3. Cardinality(GuardedOwners \cup {o}) = Cardinality(GuardedOwners) + 1
  BY <1>2, CountFinite, FS_AddElement
<1> QED
  BY <1>1, <1>3 DEF Count

(* The guard that is dropped was counted, and the count reaches zero only  *)
(* when no other owner holds a guard.                                      *)
LEMMA CountFalls ==
    ASSUME TypeOK, Count, NEW o \in Owners, pc[o] = "ending",
           NEW l \in {"out", "retiring"}, pc' = [pc EXCEPT ![o] = l],
           active' = IF active = 0 THEN 0 ELSE active - 1
    PROVE  /\ Count'
           /\ active # 0
           /\ active = 1 => \A p \in Owners : pc'[p] \notin Guarded
<1>1. GuardedOwners' = GuardedOwners \ {o}
  BY DEF GuardedOwners, TypeOK, Threads, Guarded
<1>2. o \in GuardedOwners
  BY DEF GuardedOwners, Guarded
<1>3. Cardinality(GuardedOwners \ {o}) = Cardinality(GuardedOwners) - 1
  BY <1>2, CountFinite, FS_RemoveElement
<1>4. active # 0
  BY <1>2, CountFinite, FS_EmptySet DEF Count
<1>5. Count'
  BY <1>1, <1>3, <1>4 DEF Count
<1>6. ASSUME active = 1 PROVE GuardedOwners' = {}
  <2>1. Cardinality(GuardedOwners \ {o}) = 0
    BY <1>3, <1>6 DEF Count
  <2>2. IsFiniteSet(GuardedOwners \ {o})
    BY CountFinite, FS_Subset
  <2> QED
    BY <1>1, <2>1, <2>2, FS_EmptySet
<1> QED
  BY <1>4, <1>5, <1>6 DEF GuardedOwners

-----------------------------------------------------------------------------
(* Every action preserves the invariant *)

LEMMA CallKeepsInv ==
    ASSUME Inv, NEW o \in Owners, CallInit(o)
    PROVE  Inv'
<1> USE DEF Inv
<1>1. TypeOK'
  BY DEF CallInit, Goto, TypeOK, PCs, Threads
<1>2. ReadLock' /\ Emission'
  BY DEF CallInit, Goto, TypeOK, Threads, ReadLock, Emission
<1>3. Mutex' /\ Bystanders'
  BY TelemetryAssumption DEF CallInit, Goto, TypeOK, Threads, Mutex, Bystanders, Guarded
<1>4. Count'
  BY CountStays DEF CallInit, Goto, Threads, PCs, Guarded
<1>5. LiveOwnersKeepLogger' /\ Spent' /\ NoLoggerLost'
  BY DEF CallInit, Goto, TypeOK, Threads, LiveOwnersKeepLogger, Spent, NoLoggerLost
<1> QED
  BY <1>1, <1>2, <1>3, <1>4, <1>5

LEMMA BeginKeepsInv ==
    ASSUME Inv, NEW t \in Threads, BeginTelemetryLifetime(t)
    PROVE  Inv'
<1> USE DEF Inv
<1>0. PICK o \in Owners : o = t
  BY DEF BeginTelemetryLifetime, Threads, Bystanders
<1> USE <1>0
<1>1. TypeOK'
  BY DEF BeginTelemetryLifetime, Goto, TypeOK, PCs, Threads
<1>2. ReadLock' /\ Emission'
  BY DEF BeginTelemetryLifetime, Goto, TypeOK, Threads, ReadLock, Emission
<1>3. Mutex' /\ Bystanders'
  BY TelemetryAssumption DEF BeginTelemetryLifetime, Goto, TypeOK, Threads, Mutex, Bystanders
<1>4. Count'
  BY CountGrows DEF BeginTelemetryLifetime, Goto
<1>5. LiveOwnersKeepLogger' /\ Spent' /\ NoLoggerLost'
  BY DEF BeginTelemetryLifetime, Goto, TypeOK, Threads, LiveOwnersKeepLogger, Spent, NoLoggerLost
<1> QED
  BY <1>1, <1>2, <1>3, <1>4, <1>5

LEMMA LogKeepsInv ==
    ASSUME Inv, NEW c \in Callers, LogRpcError(c)
    PROVE  Inv'
<1> USE DEF Inv
<1>0. c \notin Owners
  BY TelemetryAssumption
<1>1. TypeOK'
  BY DEF LogRpcError, Goto, TypeOK, PCs, Threads
<1>2. ReadLock' /\ Emission'
  BY DEF LogRpcError, Goto, TypeOK, Threads, ReadLock, Emission
<1>3. Mutex' /\ Bystanders'
  BY <1>0 DEF LogRpcError, Goto, TypeOK, Threads, Mutex, Bystanders
<1>4. Count'
  BY <1>0, CountStays DEF LogRpcError, Goto, Threads, PCs
<1>5. LiveOwnersKeepLogger' /\ Spent' /\ NoLoggerLost'
  BY <1>0 DEF LogRpcError, Goto, TypeOK, Threads, LiveOwnersKeepLogger, Spent, NoLoggerLost
<1> QED
  BY <1>1, <1>2, <1>3, <1>4, <1>5

LEMMA LookKeepsInv ==
    ASSUME Inv, NEW t \in Threads, Look(t)
    PROVE  Inv'
<1> USE DEF Inv
<1>1. TypeOK'
  BY DEF Look, Goto, Hold, TypeOK, PCs
<1>2. ReadLock'
  BY DEF Look, Goto, TypeOK, ReadLock
<1>3. Emission'
  BY DEF Look, Goto, Hold, TypeOK, Emission
<1>4. Mutex'
  BY DEF Look, Goto, TypeOK, Threads, Mutex, Guarded
<1>5. Bystanders'
  BY DEF Look, Goto, TypeOK, Threads, Bystanders
<1>6. Count'
  BY CountStays DEF Look, Goto, PCs, Guarded
<1>7. LiveOwnersKeepLogger' /\ Spent' /\ NoLoggerLost'
  BY DEF Look, Goto, Hold, TypeOK, Threads, LiveOwnersKeepLogger, Spent, NoLoggerLost
<1> QED
  BY <1>1, <1>2, <1>3, <1>4, <1>5, <1>6, <1>7

LEMMA ParkKeepsInv ==
    ASSUME Inv, NEW t \in Threads, Park(t)
    PROVE  Inv'
<1> USE DEF Inv
<1>1. TypeOK'
  BY DEF Park, TypeOK
<1>2. Count'
  BY DEF Park, Count, GuardedOwners
<1> QED
  BY <1>1, <1>2 DEF Park, ReadLock, Emission, Mutex, Bystanders, LiveOwnersKeepLogger,
                    Spent, NoLoggerLost

LEMMA BuildKeepsInv ==
    ASSUME Inv, NEW t \in Threads, Build(t)
    PROVE  Inv'
<1> USE DEF Inv
<1>0. \A u \in Threads : pc[u] # "emitting"
  BY DEF Build, ReadLock
<1>1. TypeOK'
  BY DEF Build, Goto, TypeOK, PCs
<1>2. ReadLock' /\ Emission'
  BY <1>0 DEF Build, Goto, TypeOK, ReadLock, Emission
<1>3. Mutex'
  BY DEF Build, Goto, TypeOK, Threads, Mutex, Guarded
<1>4. Bystanders'
  BY DEF Build, Goto, TypeOK, Threads, Bystanders
<1>5. Count'
  BY CountStays DEF Build, Goto, PCs, Guarded
<1>6. LiveOwnersKeepLogger'
  BY DEF Build, Goto, TypeOK, Threads, LiveOwnersKeepLogger
<1>7. Spent'
  BY DEF Build, Goto, TypeOK, Threads, Spent
<1>8. NoLoggerLost'
  BY DEF Build, Goto, TypeOK, Threads, NoLoggerLost
<1> QED
  BY <1>1, <1>2, <1>3, <1>4, <1>5, <1>6, <1>7, <1>8

LEMMA EmitKeepsInv ==
    ASSUME Inv, NEW t \in Threads, Emit(t)
    PROVE  Inv'
<1> USE DEF Inv
<1>1. TypeOK'
  BY DEF Emit, Goto, Hold, TypeOK, PCs
<1>2. ReadLock' /\ Emission'
  BY DEF Emit, Goto, Hold, TypeOK, ReadLock, Emission
<1>3. Mutex'
  BY DEF Emit, Goto, TypeOK, Threads, Mutex, Guarded
<1>4. Bystanders'
  BY TelemetryAssumption DEF Emit, Goto, TypeOK, Threads, Bystanders
<1>5. Count'
  BY CountStays DEF Emit, Goto, PCs, Guarded
<1>6. LiveOwnersKeepLogger'
  BY DEF Emit, Goto, TypeOK, Threads, LiveOwnersKeepLogger, Emission
<1>7. Spent' /\ NoLoggerLost'
  BY DEF Emit, Goto, Hold, TypeOK, Threads, Spent, NoLoggerLost
<1> QED
  BY <1>1, <1>2, <1>3, <1>4, <1>5, <1>6, <1>7

LEMMA DropKeepsInv ==
    ASSUME Inv, NEW o \in Owners, DropGuard(o)
    PROVE  Inv'
<1> USE DEF Inv
<1>1. TypeOK'
  BY DEF DropGuard, Goto, TypeOK, PCs, Threads
<1>2. ReadLock' /\ Emission'
  BY DEF DropGuard, Goto, TypeOK, Threads, ReadLock, Emission
<1>3. Mutex' /\ Bystanders'
  BY TelemetryAssumption DEF DropGuard, Goto, TypeOK, Threads, Mutex, Bystanders, Guarded
<1>4. Count'
  BY CountStays DEF DropGuard, Goto, Threads, PCs, Guarded
<1>5. LiveOwnersKeepLogger' /\ Spent' /\ NoLoggerLost'
  BY DEF DropGuard, Goto, TypeOK, Threads, LiveOwnersKeepLogger, Spent, NoLoggerLost
<1> QED
  BY <1>1, <1>2, <1>3, <1>4, <1>5

LEMMA EndKeepsInv ==
    ASSUME Inv, NEW t \in Threads, EndTelemetryLifetime(t)
    PROVE  Inv'
<1> USE DEF Inv
<1>0. PICK o \in Owners : o = t
  BY DEF EndTelemetryLifetime, Threads, Bystanders
<1> USE <1>0
<1>1. TypeOK'
  BY DEF EndTelemetryLifetime, Goto, TypeOK, PCs, Threads
<1>2. ReadLock' /\ Emission'
  BY DEF EndTelemetryLifetime, Goto, TypeOK, Threads, ReadLock, Emission
<1>3. /\ Count'
      /\ active = 1 => \A p \in Owners : pc'[p] \notin Guarded
  BY CountFalls DEF EndTelemetryLifetime, Goto
<1>4. Mutex'
  BY <1>3 DEF EndTelemetryLifetime, Goto, TypeOK, Threads, Mutex
<1>5. Bystanders'
  BY TelemetryAssumption DEF EndTelemetryLifetime, Goto, TypeOK, Threads, Bystanders
<1>6. LiveOwnersKeepLogger' /\ Spent' /\ NoLoggerLost'
  BY DEF EndTelemetryLifetime, Goto, TypeOK, Threads, LiveOwnersKeepLogger, Spent, NoLoggerLost
<1> QED
  BY <1>1, <1>2, <1>3, <1>4, <1>5, <1>6

LEMMA TakeKeepsInv ==
    ASSUME Inv, NEW t \in Threads, TakeLogger(t)
    PROVE  Inv'
<1> USE DEF Inv
<1>0. /\ t \in Owners /\ t \in lifecycle
      /\ \A o \in Owners : pc[o] \notin Guarded
      /\ \A u \in Threads : pc[u] # "emitting"
  BY DEF TakeLogger, Threads, Bystanders, Mutex, ReadLock
<1>1. TypeOK'
  BY DEF TakeLogger, Goto, Hold, TypeOK, PCs
<1>2. ReadLock' /\ Emission'
  BY <1>0 DEF TakeLogger, Goto, Hold, TypeOK, ReadLock, Emission
<1>3. Mutex'
  BY <1>0 DEF TakeLogger, Goto, TypeOK, Threads, Mutex, Guarded
<1>4. Bystanders'
  BY <1>0, TelemetryAssumption DEF TakeLogger, Goto, TypeOK, Threads, Bystanders
<1>5. Count'
  BY CountStays DEF TakeLogger, Goto, PCs, Guarded
<1>6. LiveOwnersKeepLogger'
  BY <1>0 DEF TakeLogger, Goto, TypeOK, Threads, LiveOwnersKeepLogger, Guarded
<1>7. Spent'
  BY DEF TakeLogger, Goto, Hold, TypeOK, Threads, Spent
<1>8. NoLoggerLost'
  <2> SUFFICES ASSUME NEW l \in 1..builds PROVE NoLoggerLost!(l)'
    BY DEF NoLoggerLost, TakeLogger
  <2>1. CASE l = slot
    BY <1>0, <2>1 DEF TakeLogger, Goto, Hold, TypeOK, Threads
  <2>2. CASE l \in closed
    BY <2>2 DEF TakeLogger
  <2>3. CASE \E o \in Owners : pc[o] = "closing" /\ held[o] = l
    BY <2>3 DEF TakeLogger, Goto, Hold, TypeOK, Threads
  <2> QED
    BY <2>1, <2>2, <2>3 DEF NoLoggerLost
<1> QED
  BY <1>1, <1>2, <1>3, <1>4, <1>5, <1>6, <1>7, <1>8

LEMMA CloseKeepsInv ==
    ASSUME Inv, NEW t \in Threads, CloseLogger(t)
    PROVE  Inv'
<1> USE DEF Inv
<1>0. t \in Owners
  BY DEF CloseLogger, Threads, Bystanders
<1>1. TypeOK'
  BY DEF CloseLogger, Goto, Hold, TypeOK, PCs
<1>2. ReadLock' /\ Emission'
  BY DEF CloseLogger, Goto, Hold, TypeOK, ReadLock, Emission
<1>3. Mutex'
  BY <1>0 DEF CloseLogger, Goto, TypeOK, Threads, Mutex, Guarded
<1>4. Bystanders'
  BY DEF CloseLogger, Goto, TypeOK, Threads, Bystanders
<1>5. Count'
  BY CountStays DEF CloseLogger, Goto, PCs, Guarded
<1>6. LiveOwnersKeepLogger'
  BY DEF CloseLogger, Goto, TypeOK, Threads, LiveOwnersKeepLogger
<1>7. Spent'
  BY <1>0 DEF CloseLogger, Goto, Hold, TypeOK, Threads, Spent
<1>8. NoLoggerLost'
  BY DEF CloseLogger, Goto, Hold, TypeOK, Threads, NoLoggerLost
<1> QED
  BY <1>1, <1>2, <1>3, <1>4, <1>5, <1>6, <1>7, <1>8

(* The invariant is inductive. *)
LEMMA InvHolds == Spec => []Inv
<1>1. Init => Inv
  <2> SUFFICES ASSUME Init PROVE Inv
    OBVIOUS
  <2>1. GuardedOwners = {}
    BY DEF Init, GuardedOwners, Guarded, Threads
  <2>2. Count
    BY <2>1, FS_EmptySet DEF Init, Count
  <2> QED
    BY <2>2 DEF Init, Inv, TypeOK, ReadLock, Emission, Mutex, Bystanders,
                LiveOwnersKeepLogger, Spent, NoLoggerLost, PCs, Threads
<1>2. Inv /\ [Next]_vars => Inv'
  <2> SUFFICES ASSUME Inv, [Next]_vars PROVE Inv'
    OBVIOUS
  <2>1. ASSUME NEW o \in Owners, CallInit(o) PROVE Inv'
    BY <2>1, CallKeepsInv
  <2>2. ASSUME NEW o \in Owners, DropGuard(o) PROVE Inv'
    BY <2>2, DropKeepsInv
  <2>3. ASSUME NEW c \in Callers, LogRpcError(c) PROVE Inv'
    BY <2>3, LogKeepsInv
  <2>4. ASSUME NEW t \in Threads, Continue(t) PROVE Inv'
    BY <2>4, LookKeepsInv, ParkKeepsInv, BuildKeepsInv, EmitKeepsInv, BeginKeepsInv,
       EndKeepsInv, TakeKeepsInv, CloseKeepsInv DEF Continue
  <2>5. CASE UNCHANGED vars
    BY <2>5 DEF vars, Inv, TypeOK, ReadLock, Emission, Mutex, Bystanders, Count,
                GuardedOwners, LiveOwnersKeepLogger, Spent, NoLoggerLost
  <2> QED
    BY <2>1, <2>2, <2>3, <2>4, <2>5 DEF Next
<1> QED
  BY <1>1, <1>2, PTL DEF Spec

-----------------------------------------------------------------------------
(* An emission never meets a closed logger, however the last guard's drop  *)
(* overlaps it: its read lock keeps the logger in the slot, and what is    *)
(* closed is older than what is in the slot (with_ores_logger).            *)
THEOREM EmissionsAreSafe == Spec => []NoEmissionOnClosed
<1>1. Inv => NoEmissionOnClosed
  BY DEF Inv, TypeOK, Emission, Spent, NoEmissionOnClosed
<1> QED
  BY <1>1, InvHolds, PTL

(* A live guard's logger is never retired: the count is zero while a       *)
(* retirement holds the mutex (end_telemetry_lifetime).                    *)
THEOREM LiveGuardsKeepLogger == Spec => []LiveOwnersKeepLogger
<1>1. Inv => LiveOwnersKeepLogger
  BY DEF Inv
<1> QED
  BY <1>1, InvHolds, PTL

(* No logger is dropped open: each one built is in the slot, being closed, *)
(* or closed (retire_logger and get_or_insert_with).                       *)
THEOREM LoggersAreClosed == Spec => []NoLoggerLost
<1>1. Inv => NoLoggerLost
  BY DEF Inv
<1> QED
  BY <1>1, InvHolds, PTL
=============================================================================
