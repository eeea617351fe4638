---------------------------- MODULE ProcessProofs ----------------------------
(***************************************************************************)
(* What one process is trusted with: that it stops when it is told to      *)
(* (Shutdown, for any number of signals, connections and analyses) and the *)
(* quotes it keeps in memory when it has no database (QuoteMemory, for any *)
(* number of subjects, keys, quotes and permits, and any number of         *)
(* dropped handlers).                                                      *)
(***************************************************************************)
EXTENDS Shutdown, QuoteMemory, TLAPS

-----------------------------------------------------------------------------
(* The end of the server *)

(* No event in the channel is a signal. *)
NoSignals(s) == \A i \in 1 .. Len(s) : s[i] \notin Signals

(* A single signal is in one place: with its listener, in the channel or   *)
(* counted.                                                                *)
OnePlace ==
    /\ raised = 0 => pending = {} /\ signalCount = 0 /\ NoSignals(events)
    /\ raised = 1 =>
         /\ signalCount <= 1
         /\ signalCount = 1 => pending = {} /\ NoSignals(events)
         /\ pending # {} => NoSignals(events)
         /\ \A s, t \in pending : s = t
         /\ \A i, j \in 1 .. Len(events) :
              events[i] \in Signals /\ events[j] \in Signals => i = j

(* What the channel holds was sent: the deadline by a timer that is over,  *)
(* and a failure by nobody.                                                *)
Sent ==
    \A i \in 1 .. Len(events) :
      /\ events[i] # "DrainFailed"
      /\ events[i] = "Deadline" => timer = "over"

(* The phase goes with the count, the timer, the server and the reason. *)
InStep ==
    /\ signalCount = IF forcedBy \in Signals THEN 2
                     ELSE IF trigger \in Signals THEN 1 ELSE 0
    /\ Serving /\ phase = "Running" =>
         trigger = "none" /\ forcedBy = "none" /\ timer = "off" /\ server = "serving"
    /\ Serving /\ phase = "Draining" =>
         trigger \in Signals /\ forcedBy = "none" /\ server = "draining"
    /\ Serving /\ phase = "Forcing" => forcedBy # "none" /\ server = "closing"
    /\ Serving => phase # "Stopped"
    /\ forcedBy # "none" /\ Serving => trigger \in Signals
    /\ Serving => forcedBy # "DrainFailed"

Inv == TypeOK /\ OnePlace /\ Sent /\ InStep /\ GracefulCutsNothing /\ ForceHasCause

-----------------------------------------------------------------------------
(* Initially no signal was raised. *)
LEMMA InitInv == Init => Inv
BY ShutdownAssumption
DEF Init, Inv, TypeOK, OnePlace, NoSignals, Sent, InStep, GracefulCutsNothing,
    ForceHasCause, Signals, Events, Phases, Serving

(* The channel after an event was sent, and after one was taken. *)
LEMMA Appended ==
    ASSUME NEW s \in Seq(Events), NEW e \in Events
    PROVE  /\ Append(s, e) \in Seq(Events)
           /\ Len(Append(s, e)) = Len(s) + 1
           /\ \A i \in 1 .. Len(s) : Append(s, e)[i] = s[i]
           /\ Append(s, e)[Len(s) + 1] = e
           /\ Len(s) \in Nat
OBVIOUS

LEMMA Taken ==
    ASSUME NEW s \in Seq(Events), s # <<>>
    PROVE  /\ Tail(s) \in Seq(Events)
           /\ Head(s) = s[1]
           /\ Len(s) \in Nat \ {0}
           /\ Len(Tail(s)) = Len(s) - 1
           /\ \A i \in 1 .. Len(Tail(s)) : Tail(s)[i] = s[i + 1]
OBVIOUS

(* A signal is raised. *)
LEMMA RaiseInv ==
    ASSUME Inv, NEW e \in Signals, Raise(e)
    PROVE  Inv'
<1> USE DEF Inv, Raise, state, load, result
<1>1. TypeOK'
  BY DEF TypeOK
<1>2. OnePlace'
  <2>1. raised \in Nat /\ Len(events) \in Nat
    BY DEF TypeOK
  <2>2. raised' # 0 /\ (raised' = 1 => raised = 0)
    BY <2>1
  <2>3. raised = 0 => pending' = {e}
    BY DEF OnePlace
  <2> QED
    BY <2>1, <2>2, <2>3 DEF OnePlace, NoSignals
<1>3. Sent' /\ InStep' /\ GracefulCutsNothing'
  BY DEF Sent, InStep, GracefulCutsNothing, Serving
<1>4. ForceHasCause'
  BY DEF ForceHasCause, TypeOK
<1> QED
  BY <1>1, <1>2, <1>3, <1>4

(* A listener passes its signal on. *)
LEMMA ListenInv ==
    ASSUME Inv, NEW e \in Signals, Listen(e)
    PROVE  Inv'
<1> USE DEF Inv, Listen, Send, state, load, result
<1>0. e \in Events /\ events \in Seq(Events) /\ raised \in Nat
  BY DEF Events, TypeOK
<1>1. TypeOK'
  BY <1>0, Appended DEF TypeOK
<1>2. OnePlace'
  <2>1. raised # 0
    BY DEF OnePlace
  <2> SUFFICES ASSUME raised = 1
               PROVE  /\ signalCount = 0
                      /\ pending' = {}
                      /\ \A i, j \in 1 .. Len(events') :
                           events'[i] \in Signals /\ events'[j] \in Signals => i = j
    BY <2>1 DEF OnePlace
  <2>2. signalCount = 0 /\ pending' = {} /\ NoSignals(events)
    BY DEF OnePlace, TypeOK
  <2>3. \A i \in 1 .. Len(events') : events'[i] \in Signals => i = Len(events) + 1
    BY <1>0, <2>2, Appended DEF NoSignals
  <2> QED
    BY <2>2, <2>3
<1>3. Sent'
  BY <1>0, Appended DEF Sent, Signals
<1>4. InStep' /\ GracefulCutsNothing' /\ ForceHasCause'
  BY DEF InStep, GracefulCutsNothing, ForceHasCause, Serving
<1> QED
  BY <1>1, <1>2, <1>3, <1>4

(* Another event is sent: the end of the grace period or of the input. *)
LEMMA SendInv ==
    ASSUME Inv, NEW e \in {"Deadline", "Eof"}, Serving, Send(e) \/ UNCHANGED events,
           timer' \in {"off", "running", "over"}, watcher' \in {"off", "reading", "over"},
           timer' = timer \/ (timer = "running" /\ timer' = "over"),
           e = "Deadline" => timer' = "over",
           UNCHANGED <<tty, state, pending, server, load, result, raised>>
    PROVE  Inv'
<1> USE DEF Inv, Send, state, load, result
<1>0. e \in Events /\ e \notin Signals /\ events \in Seq(Events)
  BY DEF Events, Signals, TypeOK
<1>1. TypeOK'
  BY <1>0, Appended DEF TypeOK
<1>2. CASE UNCHANGED events
  <2>1. OnePlace' /\ Sent'
    BY <1>2 DEF OnePlace, Sent
  <2>2. InStep' /\ GracefulCutsNothing' /\ ForceHasCause'
    BY DEF InStep, GracefulCutsNothing, ForceHasCause, Serving
  <2> QED
    BY <1>1, <2>1, <2>2
<1>3. CASE events' = Append(events, e)
  <2>1. \A i \in 1 .. Len(events') :
          \/ i \in 1 .. Len(events) /\ events'[i] = events[i]
          \/ events'[i] = e
    BY <1>0, <1>3, Appended
  <2>2. OnePlace'
    BY <1>0, <2>1 DEF OnePlace, NoSignals
  <2>3. Sent'
    BY <2>1 DEF Sent
  <2>4. InStep' /\ GracefulCutsNothing' /\ ForceHasCause'
    BY DEF InStep, GracefulCutsNothing, ForceHasCause, Serving
  <2> QED
    BY <1>1, <2>2, <2>3, <2>4
<1> QED
  BY <1>2, <1>3

(* What the channel holds once an event is taken from it, given that a     *)
(* signal taken is counted.                                                *)
LEMMA TakeInv ==
    ASSUME Inv, NEW e \in Events, NextEvent(e),
           UNCHANGED <<pending, raised>>,
           signalCount' \in {signalCount, signalCount + 1},
           signalCount' # signalCount => e \in Signals
    PROVE  OnePlace'
<1> USE DEF Inv, NextEvent
<1>0. /\ events \in Seq(Events) /\ signalCount \in 0 .. 2 /\ raised \in Nat
      /\ e = events[1] /\ Len(events) \in Nat \ {0}
      /\ Len(events') = Len(events) - 1
      /\ \A i \in 1 .. Len(events') : events'[i] = events[i + 1]
  BY Taken DEF TypeOK
<1>1. NoSignals(events) => NoSignals(events')
  BY <1>0 DEF NoSignals
<1>2. CASE raised = 0
  <2>1. e \notin Signals
    BY <1>0, <1>2 DEF OnePlace, NoSignals
  <2> QED
    BY <1>1, <1>2, <2>1 DEF OnePlace
<1>3. CASE raised = 1
  <2>1. \A i, j \in 1 .. Len(events') :
          events'[i] \in Signals /\ events'[j] \in Signals => i = j
    <3> SUFFICES ASSUME NEW i \in 1 .. Len(events'), NEW j \in 1 .. Len(events'),
                        events'[i] \in Signals, events'[j] \in Signals
                 PROVE  i = j
      OBVIOUS
    <3>1. /\ i + 1 \in 1 .. Len(events) /\ j + 1 \in 1 .. Len(events)
          /\ events[i + 1] \in Signals /\ events[j + 1] \in Signals
      BY <1>0
    <3>2. i + 1 = j + 1
      BY <1>3, <3>1 DEF OnePlace
    <3> QED
      BY <3>2
  <2>2. CASE e \notin Signals
    BY <1>1, <1>3, <2>1, <2>2 DEF OnePlace
  <2>3. CASE e \in Signals
    <3>1. 1 \in 1 .. Len(events)
      BY <1>0
    <3>2. ~NoSignals(events)
      BY <1>0, <2>3, <3>1 DEF NoSignals
    <3>3. pending = {} /\ signalCount = 0
      BY <1>0, <1>3, <3>2 DEF OnePlace
    <3>4. NoSignals(events')
      <4> SUFFICES ASSUME NEW i \in 1 .. Len(events'), events'[i] \in Signals PROVE FALSE
        BY DEF NoSignals
      <4>1. i + 1 \in 1 .. Len(events) /\ events[i + 1] \in Signals
        BY <1>0
      <4>2. i + 1 = 1
        BY <1>0, <1>3, <2>3, <3>1, <4>1 DEF OnePlace
      <4> QED
        BY <4>2
    <3> QED
      BY <1>0, <1>3, <2>1, <3>3, <3>4 DEF OnePlace
  <2> QED
    BY <2>2, <2>3
<1>4. CASE raised \notin {0, 1}
  BY <1>4 DEF OnePlace
<1> QED
  BY <1>2, <1>3, <1>4

(* The rest of the channel is as it was sent. *)
LEMMA RestSent ==
    ASSUME Inv, NEW e \in Events, NextEvent(e),
           timer' = timer \/ timer' = "over" \/ timer # "over"
    PROVE  /\ events' \in Seq(Events)
           /\ e # "DrainFailed"
           /\ e = "Deadline" => timer = "over"
           /\ Sent'
<1> USE DEF Inv, NextEvent
<1>0. /\ e = events[1] /\ Len(events) \in Nat \ {0}
      /\ events' \in Seq(Events)
      /\ Len(events') = Len(events) - 1
      /\ \A i \in 1 .. Len(events') : events'[i] = events[i + 1]
  BY Taken DEF TypeOK
<1>1. 1 \in 1 .. Len(events)
  BY <1>0
<1>2. \A i \in 1 .. Len(events') : i + 1 \in 1 .. Len(events)
  BY <1>0
<1> QED
  BY <1>0, <1>1, <1>2 DEF Sent

(* The drain starts. *)
LEMMA StartInv ==
    ASSUME Inv, NEW e \in Events, StartGraceful(e)
    PROVE  Inv'
<1> USE DEF Inv, load, result
<1>0. /\ NextEvent(e) /\ Serving /\ phase = "Running" /\ e \in Signals
      /\ phase' = "Draining" /\ trigger' = e /\ signalCount' = signalCount + 1
      /\ server' = "draining" /\ timer' = "running"
      /\ UNCHANGED <<tty, forcedBy, pending, load, result, raised>>
  BY DEF StartGraceful, Starts, NextEvent
<1>1. trigger = "none" /\ forcedBy = "none" /\ timer = "off" /\ signalCount = 0
  BY <1>0 DEF InStep, Signals
<1>2. events' \in Seq(Events) /\ Sent'
  BY <1>0, <1>1, RestSent
<1>3. TypeOK'
  BY <1>0, <1>1, <1>2 DEF StartGraceful, TypeOK, Phases, Events, Signals
<1>4. OnePlace'
  BY <1>0, <1>1, TakeInv
<1>5. InStep'
  BY <1>0, <1>1 DEF InStep, Serving, Signals
<1>6. GracefulCutsNothing' /\ ForceHasCause'
  BY <1>0, <1>1 DEF GracefulCutsNothing, ForceHasCause, Signals
<1> QED
  BY <1>2, <1>3, <1>4, <1>5, <1>6

(* The drain is forced. *)
LEMMA ForceInv ==
    ASSUME Inv, NEW e \in Events, ForceShutdown(e)
    PROVE  Inv'
<1> USE DEF Inv, load, result
<1>0. /\ NextEvent(e) /\ Serving /\ phase = "Draining"
      /\ e = "Eof" => tty /\ trigger = "SigInt"
      /\ phase' = "Forcing" /\ forcedBy' = e /\ server' = "closing"
      /\ signalCount' = IF e \in Signals THEN signalCount + 1 ELSE signalCount
      /\ timer' = IF timer = "running" THEN "over" ELSE timer
      /\ UNCHANGED <<tty, trigger, pending, watcher, load, result, raised>>
  BY DEF ForceShutdown, Forces, NextEvent, Aborted, Signals
<1>1. trigger \in Signals /\ forcedBy = "none" /\ signalCount = 1
  BY <1>0 DEF InStep, Signals
<1>2. /\ events' \in Seq(Events) /\ Sent'
      /\ e # "DrainFailed"
      /\ e = "Deadline" => timer = "over"
  BY <1>0, RestSent
<1>3. TypeOK'
  BY <1>0, <1>1, <1>2 DEF TypeOK, Phases
<1>4. OnePlace'
  BY <1>0, <1>1, TakeInv
<1>5. InStep'
  BY <1>0, <1>1, <1>2 DEF InStep, Serving, Events, Signals
<1>6. GracefulCutsNothing'
  BY <1>0 DEF GracefulCutsNothing, Serving
<1>7. e \in Signals => raised' >= 2
  <2> SUFFICES ASSUME e \in Signals PROVE raised' >= 2
    OBVIOUS
  <2>1. raised' = raised /\ raised \in Nat
    BY <1>0 DEF TypeOK
  <2>2. raised # 0
    BY <1>1 DEF OnePlace
  <2>3. ~NoSignals(events)
    <3>1. e = events[1] /\ 1 \in 1 .. Len(events)
      BY <1>0, Taken DEF NextEvent, TypeOK
    <3> QED
      BY <3>1 DEF NoSignals
  <2>4. raised # 1
    BY <1>1, <2>3 DEF OnePlace
  <2> QED
    BY <2>1, <2>2, <2>4
<1>8. ForceHasCause'
  BY <1>0, <1>1, <1>2, <1>7 DEF ForceHasCause, Signals
<1> QED
  BY <1>2, <1>3, <1>4, <1>5, <1>6, <1>8

(* An event that says nothing new is dropped. *)
LEMMA IgnoreInv ==
    ASSUME Inv, NEW e \in Events, Ignore(e)
    PROVE  Inv'
<1> USE DEF Inv, Ignore, state, load, result
<1>1. events' \in Seq(Events) /\ Sent'
  BY RestSent
<1>2. TypeOK'
  BY <1>1 DEF TypeOK
<1>3. OnePlace'
  BY TakeInv DEF TypeOK
<1>4. InStep' /\ GracefulCutsNothing' /\ ForceHasCause'
  BY DEF InStep, GracefulCutsNothing, ForceHasCause, Serving
<1> QED
  BY <1>1, <1>2, <1>3, <1>4

(* The server has ended. *)
LEMMA CompleteInv == ASSUME Inv, Complete PROVE Inv'
<1> USE DEF Inv
<1>0. /\ Serving
      /\ server = "closing" \/ (server = "draining" /\ conns = 0)
      /\ phase' = "Stopped"
      /\ outcome' = IF forcedBy = "none" THEN "graceful" ELSE forcedBy
      /\ timer' = IF timer = "running" THEN "over" ELSE timer
      /\ server' = "ended"
      /\ cut' = conns /\ conns' = 0 /\ lost' = jobs /\ jobs' = 0
      /\ UNCHANGED <<tty, trigger, signalCount, forcedBy, events, pending, watcher, raised>>
  BY DEF Complete, Return, Aborted
<1>1. TypeOK'
  BY <1>0 DEF TypeOK, Phases
<1>2. OnePlace' /\ Sent'
  BY <1>0 DEF OnePlace, Sent
<1>3. outcome' # "none"
  BY <1>0
<1>4. InStep'
  BY <1>0, <1>3 DEF InStep, Serving
<1>5. GracefulCutsNothing'
  <2>1. server = "closing" => forcedBy # "none" /\ forcedBy # "graceful"
    BY <1>0 DEF InStep, TypeOK, Phases, Events, Signals
  <2> QED
    BY <1>0, <2>1 DEF GracefulCutsNothing
<1>6. forcedBy # "DrainFailed"
  BY <1>0 DEF InStep
<1>7. ForceHasCause'
  BY <1>0, <1>6 DEF ForceHasCause
<1> QED
  BY <1>1, <1>2, <1>4, <1>5, <1>7

(* The server has failed. *)
LEMMA BreakInv == ASSUME Inv, Break PROVE Inv'
<1> USE DEF Inv
<1>0. /\ Serving
      /\ trigger' = IF phase = "Running" THEN "DrainFailed" ELSE trigger
      /\ IF phase \in {"Running", "Draining"}
         THEN phase' = "Forcing" /\ forcedBy' = "DrainFailed"
         ELSE UNCHANGED <<phase, forcedBy>>
      /\ outcome' = "error"
      /\ timer' = IF timer = "running" THEN "over" ELSE timer
      /\ server' = "ended"
      /\ cut' = conns /\ conns' = 0 /\ lost' = jobs /\ jobs' = 0
      /\ UNCHANGED <<tty, signalCount, events, pending, watcher, raised>>
  BY DEF Break, Return, Aborted, Forces
<1>1. TypeOK'
  BY <1>0 DEF TypeOK, Phases, Events
<1>2. OnePlace' /\ Sent'
  BY <1>0 DEF OnePlace, Sent
<1>3. InStep'
  BY <1>0 DEF InStep, Serving, Signals
<1>4. GracefulCutsNothing'
  BY <1>0 DEF GracefulCutsNothing
<1>5. ForceHasCause'
  BY <1>0 DEF ForceHasCause, InStep, Signals
<1> QED
  BY <1>1, <1>2, <1>3, <1>4, <1>5

(* Clients come and go. *)
LEMMA ClientInv ==
    ASSUME Inv, Connect \/ Disconnect \/ StartJob \/ EndJob
    PROVE  Inv'
<1> USE DEF Inv
<1>0. /\ conns' \in Nat /\ jobs' \in Nat
      /\ UNCHANGED <<tty, state, events, pending, timer, watcher, server, result, raised>>
  BY DEF Connect, Disconnect, StartJob, EndJob, TypeOK
<1>1. TypeOK'
  BY <1>0 DEF TypeOK, state, result
<1>2. OnePlace' /\ Sent' /\ InStep'
  BY <1>0 DEF OnePlace, Sent, InStep, Serving, state, result
<1>3. GracefulCutsNothing' /\ ForceHasCause'
  BY <1>0 DEF GracefulCutsNothing, ForceHasCause, state, result
<1> QED
  BY <1>1, <1>2, <1>3

(* Every step keeps the invariant. *)
LEMMA NextInv == Inv /\ [Next]_vars => Inv'
<1> SUFFICES ASSUME Inv, [Next]_vars PROVE Inv'
  OBVIOUS
<1>1. ASSUME NEW e \in Signals, Raise(e) PROVE Inv'
  BY <1>1, RaiseInv
<1>2. ASSUME NEW e \in Signals, Listen(e) PROVE Inv'
  BY <1>2, ListenInv
<1>3. CASE Expire
  BY <1>3, SendInv DEF Expire, Inv, TypeOK
<1>4. CASE EndOfInput
  BY <1>4, SendInv DEF EndOfInput, Inv, TypeOK
<1>5. ASSUME NEW e \in Events, StartGraceful(e) \/ ForceShutdown(e) \/ Ignore(e) PROVE Inv'
  BY <1>5, StartInv, ForceInv, IgnoreInv
<1>6. CASE Complete
  BY <1>6, CompleteInv
<1>7. CASE Break
  BY <1>7, BreakInv
<1>8. CASE Connect \/ Disconnect \/ StartJob \/ EndJob
  BY <1>8, ClientInv
<1>9. CASE UNCHANGED vars
  BY <1>9
  DEF vars, state, load, result, Inv, TypeOK, OnePlace, Sent, InStep, Serving,
      GracefulCutsNothing, ForceHasCause
<1> QED
  BY <1>1, <1>2, <1>3, <1>4, <1>5, <1>6, <1>7, <1>8, <1>9 DEF Next, Loop

(* The invariant holds throughout. *)
LEMMA AlwaysInv == Spec => []Inv
BY InitInv, NextInv, PTL DEF Spec

(* A graceful outcome cut no connection, for any races of signals,         *)
(* deadline and drain.                                                     *)
THEOREM GracefulIsGraceful == Spec => []GracefulCutsNothing
<1>1. Inv => GracefulCutsNothing
  BY DEF Inv
<1> QED
  BY <1>1, AlwaysInv, PTL

(* One signal never forces the end; every forced end has its cause. *)
THEOREM ForcesHaveCauses == Spec => []ForceHasCause
<1>1. Inv => ForceHasCause
  BY DEF Inv
<1> QED
  BY <1>1, AlwaysInv, PTL
-----------------------------------------------------------------------------
(* Quotes in memory                                                        *)
(*                                                                         *)
(* A subject that never overlapped has at most one slot (Alone), and what  *)
(* that slot read of the maps is still so when it writes (Serial), because *)
(* nobody else writes what it read: an operation is written only by slots  *)
(* of the key's subject, and a record only by slots of the one subject     *)
(* that may ever have been given its id (OneClaimant).  The last holds     *)
(* although keys are overwritten and handlers dropped, because a new id is *)
(* one that no map and no handler names (FreshUnclaimed).                  *)

(* What a slot holds, by where it is. *)
SlotTyped(p, j) ==
    /\ p \in PCs
    /\ p = "idle" => j = NoJob
    /\ p # "idle" => j \in Job
    /\ p = "unseen" =>
          IF j.kind = "create" THEN j.request \in Requests ELSE j.quote \in Quotes
    /\ p \notin {"idle", "unseen"} => j.quote \in Quotes
    /\ p = "found" => j.kind = "retry"
    /\ p = "storing" => j.view = "queued"
    /\ p = "restoring" => j.view \in Status

SlotsTyped == \A s \in Slots : SlotTyped(pc[s], job[s])

Given == {"found", "seen", "storing", "restoring", "spawned", "marked"}

(* A subject may come to write a quote: it is its own, or one of its keys  *)
(* or handlers was given the id.                                           *)
Claims(q, u) ==
    \/ owner[q] = u
    \/ \E k \in Keys : idem[k].quote = q /\ OwnerOf[k] = u
    \/ \E s \in Slots : pc[s] \in Given /\ job[s].quote = q /\ OwnerOf[job[s].key] = u

OneClaimant == \A q \in Quotes, u, v \in Subjects : Claims(q, u) /\ Claims(q, v) => u = v

Owned == \A q \in Quotes : quotes[q] = "absent" <=> owner[q] = Nil

Stored ==
    \A s \in Slots : pc[s] \in {"found", "restoring", "spawned", "marked"} =>
        quotes[job[s].quote] # "absent"

(* A subject that never overlapped has one slot at most. *)
Alone ==
    \A s, t \in Slots :
        /\ pc[s] # "idle" /\ pc[t] # "idle"
        /\ OwnerOf[job[s].key] = OwnerOf[job[t].key]
        /\ OwnerOf[job[s].key] \notin overlapped
        => s = t

(* What a handler or worker of such a subject knows of the maps. *)
SlotSerial(p, j, im, qs) ==
    /\ p \in {"unseen", "found"} => im[j.key].kind = "none"
    /\ p \in {"seen", "restoring", "storing"} => im[j.key].quote = j.quote
    /\ p = "found" => qs[j.quote] = "failed"
    /\ p = "storing" => qs[j.quote] = IF j.kind = "create" THEN "absent" ELSE "failed"
    /\ p = "restoring" => qs[j.quote] = j.view
    /\ p = "spawned" => qs[j.quote] = "queued"
    /\ p = "marked" => qs[j.quote] = "analyzing"

Serial ==
    \A s \in Slots : pc[s] # "idle" /\ OwnerOf[job[s].key] \notin overlapped =>
        SlotSerial(pc[s], job[s], idem, quotes)

(* The key of such a subject still names what was replied. *)
Replied == \A k \in Keys : OwnerOf[k] \notin overlapped => replies[k] \subseteq {idem[k].quote}

Typed == MemoryTypeOK /\ SlotsTyped

MemInv ==
    /\ Typed /\ OneClaimant /\ Owned /\ Stored
    /\ Alone /\ Serial /\ Replied /\ SerialQuotesDriven
    /\ DanglingKeysNeedDrop

-----------------------------------------------------------------------------
(* One slot moves *)

Move(s, p, j) ==
    /\ pc' = [pc EXCEPT ![s] = p]
    /\ job' = [job EXCEPT ![s] = j]

LEMMA Moved ==
    ASSUME Typed, NEW s \in Slots, NEW p, NEW j, Move(s, p, j)
    PROVE  /\ pc'[s] = p /\ job'[s] = j
           /\ \A t \in Slots : t # s => pc'[t] = pc[t] /\ job'[t] = job[t]
<1>1. pc \in [Slots -> PCs] /\ job \in [Slots -> Job \cup {NoJob}]
  BY DEF Typed, MemoryTypeOK
<1> QED
  BY <1>1 DEF Move

LEMMA SlotHeld ==
    ASSUME Typed, NEW s \in Slots
    PROVE  /\ SlotTyped(pc[s], job[s]) /\ pc[s] \in PCs
           /\ pc[s] # "idle" =>
                /\ job[s] \in Job /\ job[s].key \in Keys /\ OwnerOf[job[s].key] \in Subjects
                /\ OwnerOf[job[s].key] # Nil
           /\ pc[s] \in Given => job[s].quote \in Quotes
<1>1. SlotTyped(pc[s], job[s])
  BY DEF Typed, SlotsTyped
<1>2. pc[s] # "idle" => job[s] \in Job /\ job[s].key \in Keys
  BY <1>1 DEF SlotTyped, Job
<1>3. \A k \in Keys : OwnerOf[k] \in Subjects /\ OwnerOf[k] # Nil
  BY MemoryAssumption
<1>4. pc[s] \in Given => job[s].quote \in Quotes
  BY <1>1 DEF SlotTyped, Given
<1> QED
  BY <1>1, <1>2, <1>3, <1>4 DEF SlotTyped

LEMMA TypedStep ==
    ASSUME Typed, NEW s \in Slots, NEW p, NEW j, Move(s, p, j), SlotTyped(p, j),
           quotes' \in [Quotes -> Status \cup {"absent"}],
           owner' \in [Quotes -> Subjects \cup {Nil}],
           idem' \in [Keys -> Op \cup {NoOp}],
           replies' \in [Keys -> SUBSET Quotes],
           drops' \in 0..MaxDrops, overlapped' \subseteq Subjects
    PROVE  Typed'
<1>1. pc \in [Slots -> PCs] /\ job \in [Slots -> Job \cup {NoJob}]
  BY DEF Typed, MemoryTypeOK
<1>2. p \in PCs /\ j \in Job \cup {NoJob}
  BY DEF SlotTyped
<1>3. pc' \in [Slots -> PCs] /\ job' \in [Slots -> Job \cup {NoJob}]
  BY <1>1, <1>2 DEF Move
<1>4. SlotsTyped'
  BY Moved DEF Typed, SlotsTyped
<1> QED
  BY <1>3, <1>4 DEF Typed, MemoryTypeOK

LEMMA ClaimsStep ==
    ASSUME Typed, OneClaimant, NEW s \in Slots, NEW p, NEW j, Move(s, p, j),
           \A q \in Quotes, u \in Subjects : owner'[q] = u => Claims(q, u),
           \A k \in Keys : idem'[k].quote \in Quotes => Claims(idem'[k].quote, OwnerOf[k]),
           p \in Given => Claims(j.quote, OwnerOf[j.key])
    PROVE  OneClaimant'
<1>1. ASSUME NEW q \in Quotes, NEW u \in Subjects, Claims(q, u)' PROVE Claims(q, u)
  <2>1. CASE owner'[q] = u
    BY <2>1
  <2>2. ASSUME NEW k \in Keys, idem'[k].quote = q, OwnerOf[k] = u PROVE Claims(q, u)
    BY <2>2
  <2>3. ASSUME NEW t \in Slots, pc'[t] \in Given, job'[t].quote = q, OwnerOf[job'[t].key] = u
        PROVE  Claims(q, u)
    <3>1. CASE t = s
      BY <2>3, <3>1, Moved
    <3>2. CASE t # s
      <4>1. pc[t] \in Given /\ job[t].quote = q /\ OwnerOf[job[t].key] = u
        BY <2>3, <3>2, Moved
      <4> QED
        BY <4>1 DEF Claims
    <3> QED
      BY <3>1, <3>2
  <2> QED
    BY <1>1, <2>1, <2>2, <2>3 DEF Claims
<1> QED
  BY <1>1 DEF OneClaimant

LEMMA StoredStep ==
    ASSUME Typed, Stored, NEW s \in Slots, NEW p, NEW j, Move(s, p, j),
           \A q \in Quotes : quotes[q] # "absent" => quotes'[q] # "absent",
           p \in {"found", "restoring", "spawned", "marked"} => quotes'[j.quote] # "absent"
    PROVE  Stored'
<1> SUFFICES ASSUME NEW t \in Slots, pc'[t] \in {"found", "restoring", "spawned", "marked"}
             PROVE  quotes'[job'[t].quote] # "absent"
  BY DEF Stored
<1>1. CASE t = s
  BY <1>1, Moved
<1>2. CASE t # s
  <2>1. pc[t] = pc'[t] /\ job'[t] = job[t]
    BY <1>2, Moved
  <2>2. quotes[job[t].quote] # "absent" /\ job[t].quote \in Quotes
    BY <2>1, SlotHeld DEF Stored, Given
  <2> QED
    BY <2>1, <2>2
<1> QED
  BY <1>1, <1>2

LEMMA AloneStep ==
    ASSUME Typed, Alone, NEW s \in Slots, NEW p, NEW j, Move(s, p, j),
           overlapped' = overlapped,
           p = "idle" \/ (pc[s] # "idle" /\ j.key = job[s].key)
    PROVE  Alone'
<1> SUFFICES ASSUME NEW a \in Slots, NEW b \in Slots,
                    pc'[a] # "idle", pc'[b] # "idle",
                    OwnerOf[job'[a].key] = OwnerOf[job'[b].key],
                    OwnerOf[job'[a].key] \notin overlapped'
             PROVE  a = b
  BY DEF Alone
<1>1. \A t \in Slots : pc'[t] # "idle" => pc[t] # "idle" /\ job'[t].key = job[t].key
  BY Moved
<1> QED
  BY <1>1 DEF Alone

(* What a slot's step changes of the maps is its own. *)
Within(s) ==
    /\ \A k \in Keys : k # job[s].key => idem'[k] = idem[k]
    /\ \A q \in Quotes : quotes'[q] # quotes[q] =>
          q = job[s].quote /\ Claims(q, OwnerOf[job[s].key])

LEMMA SerialStep ==
    ASSUME Typed, OneClaimant, Alone, Serial,
           NEW s \in Slots, NEW p, NEW j, Move(s, p, j), overlapped' = overlapped,
           pc[s] # "idle", Within(s),
           p # "idle" => j.key = job[s].key,
           OwnerOf[job[s].key] \notin overlapped /\ p # "idle" => SlotSerial(p, j, idem', quotes')
    PROVE  Serial'
<1> SUFFICES ASSUME NEW t \in Slots, pc'[t] # "idle", OwnerOf[job'[t].key] \notin overlapped'
             PROVE  SlotSerial(pc'[t], job'[t], idem', quotes')
  BY DEF Serial
<1>1. CASE t = s
  BY <1>1, Moved
<1>2. CASE t # s
  <2>1. pc[t] = pc'[t] /\ job'[t] = job[t] /\ OwnerOf[job[t].key] \notin overlapped
    BY <1>2, Moved
  <2>2. OwnerOf[job[s].key] # OwnerOf[job[t].key]
    BY <1>2, <2>1 DEF Alone
  <2>3. SlotSerial(pc[t], job[t], idem, quotes)
    BY <2>1 DEF Serial
  <2>4. idem'[job[t].key] = idem[job[t].key]
    BY <2>1, <2>2, SlotHeld DEF Within
  <2>5. pc[t] \in Given => quotes'[job[t].quote] = quotes[job[t].quote]
    <3>1. pc[t] \in Given => /\ Claims(job[t].quote, OwnerOf[job[t].key])
                             /\ job[t].quote \in Quotes
      BY SlotHeld DEF Claims
    <3>2. OwnerOf[job[s].key] \in Subjects /\ OwnerOf[job[t].key] \in Subjects
      BY <2>1, SlotHeld
    <3> QED
      BY <2>2, <3>1, <3>2 DEF Within, OneClaimant
  <2> QED
    BY <2>1, <2>3, <2>4, <2>5 DEF SlotSerial, Given
<1> QED
  BY <1>1, <1>2

LEMMA DrivenStep ==
    ASSUME Typed, SerialQuotesDriven, NEW s \in Slots, NEW p, NEW j, Move(s, p, j),
           overlapped' = overlapped,
           \A q \in Quotes : /\ InFlight(q)' /\ owner'[q] \notin overlapped
                             => \/ p \in WorkerPCs /\ j.quote = q
                                \/ /\ InFlight(q) /\ owner[q] \notin overlapped
                                   /\ ~(pc[s] \in WorkerPCs /\ job[s].quote = q)
    PROVE  SerialQuotesDriven'
<1> SUFFICES ASSUME NEW q \in Quotes, InFlight(q)', owner'[q] \notin overlapped'
             PROVE  \E t \in Slots : pc'[t] \in WorkerPCs /\ job'[t].quote = q
  BY DEF SerialQuotesDriven
<1>1. CASE p \in WorkerPCs /\ j.quote = q
  BY <1>1, Moved
<1>2. CASE /\ InFlight(q) /\ owner[q] \notin overlapped
           /\ ~(pc[s] \in WorkerPCs /\ job[s].quote = q)
  <2>1. PICK t \in Slots : pc[t] \in WorkerPCs /\ job[t].quote = q
    BY <1>2 DEF SerialQuotesDriven
  <2>2. t # s
    BY <1>2, <2>1
  <2> QED
    BY <2>1, <2>2, Moved
<1> QED
  BY <1>1, <1>2

LEMMA DanglingStep ==
    ASSUME Typed, DanglingKeysNeedDrop, NEW s \in Slots, NEW p, NEW j, Move(s, p, j),
           drops' = drops,
           \A q \in Quotes : quotes[q] # "absent" => quotes'[q] # "absent",
           pc[s] = "storing" => quotes'[job[s].quote] # "absent",
           \A k \in Keys : idem'[k] = idem[k] \/ (p = "storing" /\ j.quote = idem'[k].quote)
    PROVE  DanglingKeysNeedDrop'
<1> SUFFICES ASSUME drops = 0, NEW k \in Keys, idem'[k].kind # "none"
             PROVE  \/ quotes'[idem'[k].quote] # "absent"
                    \/ \E t \in Slots : pc'[t] = "storing" /\ job'[t].quote = idem'[k].quote
  BY DEF DanglingKeysNeedDrop
<1>1. CASE p = "storing" /\ j.quote = idem'[k].quote
  BY <1>1, Moved
<1>2. CASE idem'[k] = idem[k]
  <2>1. idem[k].quote \in Quotes
    BY <1>2 DEF Typed, MemoryTypeOK, Op, NoOp
  <2>2. CASE quotes[idem[k].quote] # "absent"
    BY <1>2, <2>1, <2>2
  <2>3. ASSUME NEW t \in Slots, pc[t] = "storing", job[t].quote = idem[k].quote
        PROVE  \/ quotes'[idem'[k].quote] # "absent"
               \/ \E x \in Slots : pc'[x] = "storing" /\ job'[x].quote = idem'[k].quote
    <3>1. CASE t = s
      BY <1>2, <2>3, <3>1
    <3>2. CASE t # s
      BY <1>2, <2>3, <3>2, Moved
    <3> QED
      BY <3>1, <3>2
  <2> QED
    BY <1>2, <2>2, <2>3 DEF DanglingKeysNeedDrop
<1> QED
  BY <1>1, <1>2

LEMMA RepliedStep ==
    ASSUME Replied, overlapped' = overlapped,
           \A k \in Keys : OwnerOf[k] \notin overlapped =>
               \/ replies'[k] = replies[k] /\ idem'[k] = idem[k]
               \/ replies'[k] \subseteq {idem'[k].quote}
    PROVE  Replied'
BY DEF Replied

(* A step of a handler that leaves the maps alone. *)
LEMMA QuietStep ==
    ASSUME MemInv, NEW s \in Slots, NEW p, NEW j, Move(s, p, j),
           UNCHANGED <<quotes, owner, idem, replies, overlapped>>,
           pc[s] \in HandlerPCs, p \notin WorkerPCs, SlotTyped(p, j),
           p # "idle" => j.key = job[s].key,
           p \in Given => Claims(j.quote, OwnerOf[j.key]),
           p \in {"found", "restoring"} => quotes[j.quote] # "absent",
           OwnerOf[job[s].key] \notin overlapped /\ p # "idle" => SlotSerial(p, j, idem, quotes),
           drops' \in 0..MaxDrops,
           \/ drops' = drops /\ pc[s] # "storing"
           \/ drops' # 0
    PROVE  MemInv'
<1>1. /\ Typed /\ OneClaimant /\ Owned /\ Stored /\ Alone /\ Serial /\ Replied
      /\ SerialQuotesDriven /\ DanglingKeysNeedDrop
  BY DEF MemInv
<1>2. pc[s] # "idle" /\ pc[s] \notin WorkerPCs
  BY DEF HandlerPCs, WorkerPCs
<1>3. Typed'
  <2>1. /\ quotes' \in [Quotes -> Status \cup {"absent"}]
        /\ owner' \in [Quotes -> Subjects \cup {Nil}]
        /\ idem' \in [Keys -> Op \cup {NoOp}]
        /\ replies' \in [Keys -> SUBSET Quotes]
        /\ overlapped' \subseteq Subjects
    BY <1>1 DEF Typed, MemoryTypeOK
  <2> QED
    BY <1>1, <2>1, TypedStep
<1>4. OneClaimant'
  <2>1. \A q \in Quotes, u \in Subjects : owner'[q] = u => Claims(q, u)
    BY DEF Claims
  <2>2. \A k \in Keys : idem'[k].quote \in Quotes => Claims(idem'[k].quote, OwnerOf[k])
    BY DEF Claims
  <2> QED
    BY <1>1, <2>1, <2>2, ClaimsStep
<1>5. Owned'
  BY <1>1 DEF Owned
<1>6. Stored'
  <2>1. p \in {"found", "restoring", "spawned", "marked"} => quotes'[j.quote] # "absent"
    BY DEF WorkerPCs
  <2> QED
    BY <1>1, <2>1, StoredStep
<1>7. Alone'
  BY <1>1, <1>2, AloneStep
<1>8. Serial'
  <2>1. Within(s)
    BY DEF Within
  <2> QED
    BY <1>1, <1>2, <2>1, SerialStep
<1>9. Replied'
  BY <1>1 DEF Replied
<1>10. SerialQuotesDriven'
  <2>1. \A q \in Quotes : InFlight(q)' => InFlight(q)
    BY DEF InFlight
  <2> QED
    BY <1>1, <1>2, <2>1, DrivenStep
<1>11. DanglingKeysNeedDrop'
  <2>1. CASE drops' = drops /\ pc[s] # "storing"
    BY <1>1, <2>1, DanglingStep
  <2>2. CASE drops' # 0
    BY <2>2 DEF DanglingKeysNeedDrop
  <2> QED
    BY <2>1, <2>2
<1> QED
  BY <1>3, <1>4, <1>5, <1>6, <1>7, <1>8, <1>9, <1>10, <1>11 DEF MemInv

(* The permit goes back and nothing else changes. *)
LEMMA LeaveStep ==
    ASSUME MemInv, NEW s \in Slots, Release(s), pc[s] \in HandlerPCs,
           UNCHANGED <<quotes, owner, idem, replies, overlapped>>,
           drops' \in 0..MaxDrops,
           \/ drops' = drops /\ pc[s] # "storing"
           \/ drops' # 0
    PROVE  MemInv'
<1>1. Move(s, "idle", NoJob)
  BY DEF Release, Goto, Move
<1>2. SlotTyped("idle", NoJob)
  BY DEF SlotTyped, PCs
<1> QED
  BY <1>1, <1>2, QuietStep DEF Given, WorkerPCs

LEMMA DropKeeps ==
    ASSUME MemInv, NEW s \in Slots, DropHandler(s) PROVE MemInv'
<1>1. drops \in Nat /\ MaxDrops \in Nat
  BY MemoryAssumption DEF MemInv, Typed, MemoryTypeOK
<1>2. drops' \in 0..MaxDrops /\ drops' # 0
  BY <1>1 DEF DropHandler
<1> QED
  BY <1>2, LeaveStep DEF DropHandler

LEMMA DropsTyped == MemInv => drops \in 0..MaxDrops
BY DEF MemInv, Typed, MemoryTypeOK

LEMMA MissKeeps ==
    ASSUME MemInv, NEW s \in Slots, MissRecord(s) PROVE MemInv'
BY DropsTyped, LeaveStep DEF MissRecord, HandlerPCs

LEMMA FindKeeps ==
    ASSUME MemInv, NEW s \in Slots, FindFailed(s) PROVE MemInv'
<1> DEFINE q == job[s].quote
<1>1. /\ pc[s] = "unseen" /\ job[s].kind = "retry"
      /\ UNCHANGED <<quotes, owner, idem, replies, drops, overlapped>>
  BY DEF FindFailed
<1>2. CASE Release(s)
  BY <1>1, <1>2, DropsTyped, LeaveStep DEF HandlerPCs
<1>3. CASE Readable(q, job[s].key) /\ quotes[q] = "failed" /\ Goto(s, "found") /\ UNCHANGED job
  <2>1. Typed /\ Serial
    BY DEF MemInv
  <2>2. job \in [Slots -> Job \cup {NoJob}]
    BY <2>1 DEF Typed, MemoryTypeOK
  <2>3. Move(s, "found", job[s])
    BY <1>3, <2>2 DEF Goto, Move
  <2>4. SlotTyped("found", job[s])
    BY <1>1, <2>1, SlotHeld DEF SlotTyped, PCs, HandlerPCs
  <2>5. Claims(q, OwnerOf[job[s].key])
    BY <1>3 DEF Claims, Readable
  <2>6. OwnerOf[job[s].key] \notin overlapped => SlotSerial("found", job[s], idem, quotes)
    BY <1>1, <1>3, <2>1 DEF Serial, SlotSerial
  <2> QED
    BY <1>1, <1>3, <2>3, <2>4, <2>5, <2>6, DropsTyped, QuietStep
       DEF HandlerPCs, WorkerPCs
<1> QED
  BY <1>2, <1>3 DEF FindFailed

LEMMA ReadKeeps ==
    ASSUME MemInv, NEW s \in Slots, ReadRecord(s) PROVE MemInv'
<1> DEFINE q == job[s].quote
           j == [job[s] EXCEPT !.view = quotes[q]]
<1>1. /\ pc[s] = "seen" /\ quotes[q] # "absent"
      /\ job' = [job EXCEPT ![s].view = quotes[q]] /\ Goto(s, "restoring")
      /\ UNCHANGED <<quotes, owner, idem, replies, drops, overlapped>>
  BY DEF ReadRecord, Readable
<1>2. Typed /\ Serial
  BY DEF MemInv
<1>3. /\ job[s] \in Job /\ q \in Quotes /\ quotes[q] \in Status
      /\ job \in [Slots -> Job \cup {NoJob}]
  BY <1>1, <1>2, SlotHeld DEF Typed, MemoryTypeOK, Given
<1>4. Move(s, "restoring", j)
  BY <1>1, <1>3 DEF Goto, Move
<1>5. /\ j \in Job /\ j.key = job[s].key /\ j.quote = q /\ j.kind = job[s].kind
      /\ j.view = quotes[q]
  BY <1>3 DEF Job
<1>6. SlotTyped("restoring", j)
  BY <1>3, <1>5 DEF SlotTyped, PCs, HandlerPCs
<1>7. Claims(q, OwnerOf[job[s].key])
  BY <1>1 DEF Claims, Given
<1>8. OwnerOf[job[s].key] \notin overlapped => idem[job[s].key].quote = q
  BY <1>1, <1>2 DEF Serial, SlotSerial
<1> HIDE DEF j
<1>9. OwnerOf[job[s].key] \notin overlapped => SlotSerial("restoring", j, idem, quotes)
  BY <1>5, <1>8 DEF SlotSerial
<1> QED
  BY <1>1, <1>4, <1>5, <1>6, <1>7, <1>9, DropsTyped, QuietStep DEF HandlerPCs, WorkerPCs

(* A step that inserts an operation and goes on to store its record. *)
LEMMA InsertStep ==
    ASSUME MemInv, NEW s \in Slots, NEW j, NEW op, Move(s, "storing", j),
           pc[s] \in {"unseen", "found"},
           idem' = [idem EXCEPT ![job[s].key] = op],
           UNCHANGED <<quotes, owner, replies, drops, overlapped>>,
           SlotTyped("storing", j), j.key = job[s].key,
           op \in Op, op.quote = j.quote,
           OneClaimant',
           OwnerOf[job[s].key] \notin overlapped =>
              quotes[j.quote] = IF j.kind = "create" THEN "absent" ELSE "failed"
    PROVE  MemInv'
<1>1. /\ Typed /\ OneClaimant /\ Owned /\ Stored /\ Alone /\ Serial /\ Replied
      /\ SerialQuotesDriven /\ DanglingKeysNeedDrop
  BY DEF MemInv
<1>2. /\ idem \in [Keys -> Op \cup {NoOp}] /\ job[s].key \in Keys
      /\ replies \in [Keys -> SUBSET Quotes] /\ Nil \notin Quotes
  BY <1>1, SlotHeld, MemoryAssumption DEF Typed, MemoryTypeOK
<1>3. /\ idem' \in [Keys -> Op \cup {NoOp}] /\ idem'[job[s].key] = op
      /\ \A k \in Keys : k # job[s].key => idem'[k] = idem[k]
  BY <1>2
<1>4. Typed'
  <2>1. /\ quotes' \in [Quotes -> Status \cup {"absent"}]
        /\ owner' \in [Quotes -> Subjects \cup {Nil}]
        /\ replies' \in [Keys -> SUBSET Quotes]
        /\ drops' \in 0..MaxDrops
        /\ overlapped' \subseteq Subjects
    BY <1>1 DEF Typed, MemoryTypeOK
  <2> QED
    BY <1>1, <1>3, <2>1, TypedStep
<1>5. Owned'
  BY <1>1 DEF Owned
<1>6. Stored'
  BY <1>1, StoredStep
<1>7. Alone'
  BY <1>1, AloneStep
<1>8. Serial'
  <2>1. Within(s)
    BY <1>3 DEF Within
  <2>2. OwnerOf[job[s].key] \notin overlapped => SlotSerial("storing", j, idem', quotes')
    BY <1>3 DEF SlotSerial
  <2> QED
    BY <1>1, <2>1, <2>2, SerialStep
<1>9. Replied'
  <2>1. OwnerOf[job[s].key] \notin overlapped => idem[job[s].key].kind = "none"
    BY <1>1 DEF Serial, SlotSerial
  <2>2. \A x \in Op : x.kind # "none"
    BY DEF Op
  <2>3. OwnerOf[job[s].key] \notin overlapped => idem[job[s].key].quote = Nil
    BY <1>2, <2>1, <2>2 DEF NoOp
  <2>4. OwnerOf[job[s].key] \notin overlapped => replies[job[s].key] = {}
    BY <1>1, <1>2, <2>3 DEF Replied
  <2> QED
    BY <1>1, <1>3, <2>4, RepliedStep
<1>10. SerialQuotesDriven'
  <2>1. \A q \in Quotes : InFlight(q)' => InFlight(q)
    BY DEF InFlight
  <2> QED
    BY <1>1, <2>1, DrivenStep DEF WorkerPCs
<1>11. DanglingKeysNeedDrop'
  <2>1. \A k \in Keys : idem'[k] = idem[k] \/ j.quote = idem'[k].quote
    BY <1>3
  <2> QED
    BY <1>1, <2>1, DanglingStep
<1> QED
  BY <1>4, <1>5, <1>6, <1>7, <1>8, <1>9, <1>10, <1>11 DEF MemInv

(* The id is new: nobody claims it yet. *)
LEMMA FreshUnclaimed ==
    ASSUME MemInv, NEW q \in Quotes, Fresh(q), NEW u \in Subjects
    PROVE  ~Claims(q, u)
<1>1. Typed /\ Owned /\ Stored
  BY DEF MemInv
<1>2. owner[q] # u
  BY <1>1, MemoryAssumption DEF Owned, Fresh
<1>3. \A t \in Slots : pc[t] \in Given => job[t].quote # q
  BY <1>1 DEF Given, Fresh, Stored
<1> QED
  BY <1>2, <1>3 DEF Claims, Fresh

LEMMA InsertCreateKeeps ==
    ASSUME MemInv, NEW s \in Slots, NEW q \in Quotes, InsertCreate(s, q) PROVE MemInv'
<1> DEFINE k == job[s].key
           j == [job[s] EXCEPT !.quote = q, !.view = "queued"]
           op == [kind |-> "create", quote |-> q, request |-> job[s].request]
<1>1. /\ pc[s] = "unseen" /\ job[s].kind = "create" /\ Fresh(q)
      /\ idem' = [idem EXCEPT ![k] = op]
      /\ job' = [job EXCEPT ![s].quote = q, ![s].view = "queued"]
      /\ Goto(s, "storing")
      /\ UNCHANGED <<quotes, owner, replies, drops, overlapped>>
  BY DEF InsertCreate, Insert
<1>2. Typed /\ OneClaimant
  BY DEF MemInv
<1>3. /\ job[s] \in Job /\ k \in Keys /\ job \in [Slots -> Job \cup {NoJob}]
      /\ OwnerOf[k] \in Subjects /\ idem \in [Keys -> Op \cup {NoOp}]
  BY <1>1, <1>2, SlotHeld DEF Typed, MemoryTypeOK
<1>4. Move(s, "storing", j)
  BY <1>1, <1>3 DEF Goto, Move
<1>5. /\ j \in Job /\ j.key = k /\ j.quote = q /\ j.kind = "create" /\ j.view = "queued"
  BY <1>1, <1>3 DEF Job, Status
<1>6. SlotTyped("storing", j)
  BY <1>5 DEF SlotTyped, PCs, HandlerPCs
<1>7. op \in Op /\ op.quote = q
  <2>1. job[s].request \in Requests
    BY <1>1, <1>2, SlotHeld DEF SlotTyped
  <2> QED
    BY <2>1 DEF Op
<1>8. idem'[k] = op /\ \A x \in Keys : x # k => idem'[x] = idem[x]
  BY <1>1, <1>3
<1> HIDE DEF j, op
<1>9. ASSUME NEW x \in Quotes, NEW u \in Subjects, Claims(x, u)'
      PROVE  IF x = q THEN u = OwnerOf[k] ELSE Claims(x, u)
  <2>1. CASE owner'[x] = u
    <3>1. Claims(x, u)
      BY <1>1, <2>1 DEF Claims
    <3> QED
      BY <1>1, <3>1, FreshUnclaimed
  <2>2. ASSUME NEW y \in Keys, idem'[y].quote = x, OwnerOf[y] = u
        PROVE  IF x = q THEN u = OwnerOf[k] ELSE Claims(x, u)
    <3>1. CASE y = k
      BY <1>7, <1>8, <2>2, <3>1
    <3>2. CASE y # k
      <4>1. Claims(x, u)
        BY <1>8, <2>2, <3>2 DEF Claims
      <4> QED
        BY <1>1, <4>1, FreshUnclaimed
    <3> QED
      BY <3>1, <3>2
  <2>3. ASSUME NEW t \in Slots, pc'[t] \in Given, job'[t].quote = x, OwnerOf[job'[t].key] = u
        PROVE  IF x = q THEN u = OwnerOf[k] ELSE Claims(x, u)
    <3>1. CASE t = s
      BY <1>2, <1>4, <1>5, <2>3, <3>1, Moved
    <3>2. CASE t # s
      <4>1. pc[t] \in Given /\ job[t].quote = x /\ OwnerOf[job[t].key] = u
        BY <1>2, <1>4, <2>3, <3>2, Moved
      <4>2. Claims(x, u)
        BY <4>1 DEF Claims
      <4> QED
        BY <1>1, <4>2, FreshUnclaimed
    <3> QED
      BY <3>1, <3>2
  <2> QED
    BY <1>9, <2>1, <2>2, <2>3 DEF Claims
<1>10. OneClaimant'
  <2> SUFFICES ASSUME NEW x \in Quotes, NEW u \in Subjects, NEW v \in Subjects,
                      Claims(x, u)', Claims(x, v)'
               PROVE  u = v
    BY DEF OneClaimant
  <2> QED
    BY <1>2, <1>9 DEF OneClaimant
<1>11. quotes[q] = "absent"
  BY <1>1 DEF Fresh
<1> QED
  BY <1>1, <1>4, <1>5, <1>6, <1>7, <1>10, <1>11, InsertStep

LEMMA InsertRetryKeeps ==
    ASSUME MemInv, NEW s \in Slots, InsertRetry(s) PROVE MemInv'
<1> DEFINE k == job[s].key
           q == job[s].quote
           j == [job[s] EXCEPT !.view = "queued"]
           op == [kind |-> "retry", quote |-> q, request |-> Nil]
<1>1. /\ pc[s] = "found"
      /\ idem' = [idem EXCEPT ![k] = op]
      /\ job' = [job EXCEPT ![s].view = "queued"]
      /\ Goto(s, "storing")
      /\ UNCHANGED <<quotes, owner, replies, drops, overlapped>>
  BY DEF InsertRetry, Insert
<1>2. Typed /\ OneClaimant /\ Serial
  BY DEF MemInv
<1>3. /\ job[s] \in Job /\ k \in Keys /\ job \in [Slots -> Job \cup {NoJob}]
      /\ q \in Quotes /\ idem \in [Keys -> Op \cup {NoOp}] /\ job[s].kind = "retry"
  BY <1>1, <1>2, SlotHeld DEF Typed, MemoryTypeOK, Given, SlotTyped
<1>4. Move(s, "storing", j)
  BY <1>1, <1>3 DEF Goto, Move
<1>5. /\ j \in Job /\ j.key = k /\ j.quote = q /\ j.kind = "retry" /\ j.view = "queued"
  BY <1>1, <1>3 DEF Job, Status
<1>6. SlotTyped("storing", j)
  BY <1>3, <1>5 DEF SlotTyped, PCs, HandlerPCs
<1>7. op \in Op /\ op.quote = q
  BY <1>3 DEF Op
<1>8. idem'[k] = op /\ \A x \in Keys : x # k => idem'[x] = idem[x]
  BY <1>1, <1>3
<1> HIDE DEF j, op
<1>9. Claims(q, OwnerOf[k])
  BY <1>1 DEF Claims, Given
<1>10. OneClaimant'
  <2>1. \A x \in Quotes, u \in Subjects : owner'[x] = u => Claims(x, u)
    BY <1>1 DEF Claims
  <2>2. \A y \in Keys : idem'[y].quote \in Quotes => Claims(idem'[y].quote, OwnerOf[y])
    BY <1>7, <1>8, <1>9 DEF Claims
  <2> QED
    BY <1>2, <1>4, <1>5, <1>9, <2>1, <2>2, ClaimsStep
<1>11. OwnerOf[k] \notin overlapped => quotes[q] = "failed"
  BY <1>1, <1>2 DEF Serial, SlotSerial
<1> QED
  BY <1>1, <1>4, <1>5, <1>6, <1>7, <1>10, <1>11, InsertStep

(* A stored record belongs to the subject whose handler or worker has it. *)
LEMMA WritersOwn ==
    ASSUME MemInv, NEW s \in Slots, pc[s] \in {"restoring", "spawned", "marked"}
    PROVE  owner[job[s].quote] = OwnerOf[job[s].key]
<1> DEFINE q == job[s].quote
           u == OwnerOf[job[s].key]
<1>1. Typed /\ OneClaimant /\ Owned /\ Stored
  BY DEF MemInv
<1>2. q \in Quotes /\ u \in Subjects /\ owner[q] \in Subjects \cup {Nil}
  BY <1>1, SlotHeld DEF Typed, MemoryTypeOK, Given
<1>3. owner[q] # Nil
  BY <1>1, <1>2 DEF Owned, Stored
<1>4. Claims(q, u) /\ Claims(q, owner[q])
  BY DEF Claims, Given
<1> HIDE DEF q, u
<1> QED
  BY <1>1, <1>2, <1>3, <1>4 DEF OneClaimant, q, u

(* A step that writes the record of its slot's quote. *)
LEMMA WriteStep ==
    ASSUME MemInv, NEW s \in Slots, NEW p, NEW j, Move(s, p, j), NEW status \in Status,
           pc[s] \in {"storing", "restoring", "spawned", "marked"},
           quotes' = [quotes EXCEPT ![job[s].quote] = status],
           owner' = [owner EXCEPT ![job[s].quote] = OwnerOf[job[s].key]],
           replies' \in [Keys -> SUBSET Quotes],
           UNCHANGED <<idem, drops, overlapped>>,
           SlotTyped(p, j), p # "idle" => j = job[s] /\ p \in WorkerPCs,
           OwnerOf[job[s].key] \notin overlapped =>
              /\ p # "idle" => SlotSerial(p, j, idem, [quotes EXCEPT ![job[s].quote] = status])
              /\ \/ p # "idle"
                 \/ status \notin {"queued", "analyzing"}
                 \/ quotes[job[s].quote] = status /\ pc[s] \notin WorkerPCs,
           \A k \in Keys : OwnerOf[k] \notin overlapped =>
              replies'[k] = replies[k] \/ replies'[k] \subseteq {idem[k].quote}
    PROVE  MemInv'
<1> DEFINE q == job[s].quote
           u == OwnerOf[job[s].key]
<1>1. /\ Typed /\ OneClaimant /\ Owned /\ Stored /\ Alone /\ Serial /\ Replied
      /\ SerialQuotesDriven /\ DanglingKeysNeedDrop
  BY DEF MemInv
<1>2. /\ q \in Quotes /\ u \in Subjects /\ u # Nil
      /\ quotes \in [Quotes -> Status \cup {"absent"}]
      /\ owner \in [Quotes -> Subjects \cup {Nil}]
      /\ idem \in [Keys -> Op \cup {NoOp}]
      /\ drops \in 0..MaxDrops /\ overlapped \subseteq Subjects
  BY <1>1, SlotHeld DEF Typed, MemoryTypeOK, Given
<1>3. /\ quotes' \in [Quotes -> Status \cup {"absent"}] /\ quotes'[q] = status
      /\ owner' \in [Quotes -> Subjects \cup {Nil}] /\ owner'[q] = u
      /\ \A x \in Quotes : x # q => quotes'[x] = quotes[x] /\ owner'[x] = owner[x]
  BY <1>2
<1>4. status # "absent"
  BY DEF Status
<1>5. Claims(q, u)
  BY DEF Claims, Given
<1>6. Typed'
  BY <1>1, <1>2, <1>3, TypedStep
<1>7. OneClaimant'
  <2>1. \A x \in Quotes, v \in Subjects : owner'[x] = v => Claims(x, v)
    BY <1>3, <1>5 DEF Claims
  <2>2. \A y \in Keys : idem'[y].quote \in Quotes => Claims(idem'[y].quote, OwnerOf[y])
    BY DEF Claims
  <2>3. p \in Given => Claims(j.quote, OwnerOf[j.key])
    BY <1>5 DEF Given
  <2> QED
    BY <1>1, <2>1, <2>2, <2>3, ClaimsStep
<1>8. Owned'
  BY <1>1, <1>2, <1>3, <1>4 DEF Owned
<1>9. \A x \in Quotes : quotes[x] # "absent" => quotes'[x] # "absent"
  BY <1>3, <1>4
<1>10. Stored'
  <2>1. p \in {"found", "restoring", "spawned", "marked"} => quotes'[j.quote] # "absent"
    BY <1>3, <1>4
  <2> QED
    BY <1>1, <1>9, <2>1, StoredStep
<1>11. Alone'
  BY <1>1, AloneStep
<1>12. Serial'
  <2>1. Within(s)
    BY <1>3, <1>5 DEF Within
  <2>2. u \notin overlapped /\ p # "idle" => SlotSerial(p, j, idem', quotes')
    OBVIOUS
  <2> QED
    BY <1>1, <2>1, <2>2, SerialStep
<1>13. Replied'
  BY <1>1, RepliedStep
<1>14. SerialQuotesDriven'
  <2>1. ASSUME NEW x \in Quotes, InFlight(x)', owner'[x] \notin overlapped
        PROVE  \/ p \in WorkerPCs /\ j.quote = x
               \/ /\ InFlight(x) /\ owner[x] \notin overlapped
                  /\ ~(pc[s] \in WorkerPCs /\ job[s].quote = x)
    <3>1. CASE x = q
      <4>1. u \notin overlapped /\ status \in {"queued", "analyzing"}
        BY <1>3, <2>1, <3>1 DEF InFlight
      <4>2. CASE p # "idle"
        BY <3>1, <4>2
      <4>3. CASE quotes[q] = status /\ pc[s] \notin WorkerPCs
        <5>1. pc[s] = "storing" => status \notin {"queued", "analyzing"}
          BY <1>1, <4>1, <4>3 DEF Serial, SlotSerial
        <5>2. owner[q] = u
          BY <4>1, <4>3, <5>1, WritersOwn DEF WorkerPCs
        <5> QED
          BY <3>1, <4>1, <4>3, <5>2 DEF InFlight
      <4> QED
        BY <4>1, <4>2, <4>3
    <3>2. CASE x # q
      BY <1>3, <2>1, <3>2 DEF InFlight
    <3> QED
      BY <3>1, <3>2
  <2> QED
    BY <1>1, <2>1, DrivenStep
<1>15. DanglingKeysNeedDrop'
  BY <1>1, <1>3, <1>4, <1>9, DanglingStep
<1> QED
  BY <1>6, <1>7, <1>8, <1>10, <1>11, <1>12, <1>13, <1>14, <1>15 DEF MemInv

LEMMA ReplyTyped ==
    ASSUME Typed, NEW k \in Keys, NEW q \in Quotes, Reply(k, q)
    PROVE  /\ replies' \in [Keys -> SUBSET Quotes]
           /\ replies'[k] = replies[k] \cup {q}
           /\ \A x \in Keys : x # k => replies'[x] = replies[x]
BY DEF Typed, MemoryTypeOK, Reply

LEMMA StoreKeeps ==
    ASSUME MemInv, NEW s \in Slots, Store(s) PROVE MemInv'
<1> DEFINE k == job[s].key
           q == job[s].quote
<1>1. /\ pc[s] = "storing" /\ Write(q, job[s].view)
      /\ owner' = [owner EXCEPT ![q] = OwnerOf[k]]
      /\ Reply(k, q) /\ Goto(s, "spawned")
      /\ UNCHANGED <<idem, job, drops, overlapped>>
  BY DEF Store
<1>2. Typed /\ Serial /\ Replied
  BY DEF MemInv
<1>3. /\ job[s].view = "queued" /\ q \in Quotes /\ k \in Keys
      /\ job \in [Slots -> Job \cup {NoJob}]
      /\ quotes \in [Quotes -> Status \cup {"absent"}]
  BY <1>1, <1>2, SlotHeld DEF Typed, MemoryTypeOK, SlotTyped, Given
<1>4. quotes' = [quotes EXCEPT ![q] = "queued"] /\ "queued" \in Status
  BY <1>1, <1>3 DEF Write, Status
<1>5. Move(s, "spawned", job[s])
  BY <1>1, <1>3 DEF Goto, Move
<1>6. SlotTyped("spawned", job[s])
  BY <1>1, <1>2, SlotHeld DEF SlotTyped, PCs, WorkerPCs
<1>7. SlotSerial("spawned", job[s], idem, [quotes EXCEPT ![q] = "queued"])
  BY <1>3 DEF SlotSerial
<1>8. /\ replies' \in [Keys -> SUBSET Quotes]
      /\ \A x \in Keys : OwnerOf[x] \notin overlapped =>
            replies'[x] = replies[x] \/ replies'[x] \subseteq {idem[x].quote}
  <2>1. OwnerOf[k] \notin overlapped => idem[k].quote = q
    BY <1>1, <1>2 DEF Serial, SlotSerial
  <2>2. OwnerOf[k] \notin overlapped => replies[k] \subseteq {idem[k].quote}
    BY <1>2, <1>3 DEF Replied
  <2> QED
    BY <1>1, <1>2, <1>3, <2>1, <2>2, ReplyTyped
<1> QED
  BY <1>1, <1>4, <1>5, <1>6, <1>7, <1>8, WriteStep DEF WorkerPCs

LEMMA RestoreKeeps ==
    ASSUME MemInv, NEW s \in Slots, Restore(s) PROVE MemInv'
<1> DEFINE k == job[s].key
           q == job[s].quote
           v == job[s].view
<1>1. /\ pc[s] = "restoring" /\ Write(q, v) /\ Reply(k, q) /\ Release(s)
      /\ UNCHANGED <<owner, idem, drops, overlapped>>
  BY DEF Restore
<1>2. Typed /\ Serial /\ Replied
  BY DEF MemInv
<1>3. /\ v \in Status /\ q \in Quotes /\ k \in Keys
      /\ owner \in [Quotes -> Subjects \cup {Nil}]
  BY <1>1, <1>2, SlotHeld DEF Typed, MemoryTypeOK, SlotTyped, Given
<1>4. owner' = [owner EXCEPT ![q] = OwnerOf[k]]
  BY <1>1, <1>3, WritersOwn
<1>5. Move(s, "idle", NoJob) /\ SlotTyped("idle", NoJob)
  BY <1>1 DEF Release, Goto, Move, SlotTyped, PCs
<1>6. quotes' = [quotes EXCEPT ![q] = v]
  BY <1>1 DEF Write
<1>7. OwnerOf[k] \notin overlapped => quotes[q] = v /\ idem[k].quote = q
  BY <1>1, <1>2 DEF Serial, SlotSerial
<1>8. /\ replies' \in [Keys -> SUBSET Quotes]
      /\ \A x \in Keys : OwnerOf[x] \notin overlapped =>
            replies'[x] = replies[x] \/ replies'[x] \subseteq {idem[x].quote}
  <2>1. OwnerOf[k] \notin overlapped => replies[k] \subseteq {idem[k].quote}
    BY <1>2, <1>3 DEF Replied
  <2> QED
    BY <1>1, <1>2, <1>3, <1>7, <2>1, ReplyTyped
<1> HIDE DEF v
<1> QED
  BY <1>1, <1>3, <1>4, <1>5, <1>6, <1>7, <1>8, WriteStep DEF WorkerPCs

LEMMA MarkKeeps ==
    ASSUME MemInv, NEW s \in Slots, MarkAnalyzing(s) PROVE MemInv'
<1> DEFINE q == job[s].quote
<1>1. /\ pc[s] = "spawned" /\ quotes' = [quotes EXCEPT ![q] = "analyzing"]
      /\ Goto(s, "marked") /\ UNCHANGED <<owner, idem, job, replies, drops, overlapped>>
  BY DEF MarkAnalyzing, Write
<1>2. Typed
  BY DEF MemInv
<1>3. /\ q \in Quotes /\ job \in [Slots -> Job \cup {NoJob}]
      /\ quotes \in [Quotes -> Status \cup {"absent"}]
      /\ owner \in [Quotes -> Subjects \cup {Nil}]
      /\ replies \in [Keys -> SUBSET Quotes]
  BY <1>1, <1>2, SlotHeld DEF Typed, MemoryTypeOK, Given
<1>4. owner' = [owner EXCEPT ![q] = OwnerOf[job[s].key]]
  BY <1>1, <1>3, WritersOwn
<1>5. Move(s, "marked", job[s])
  BY <1>1, <1>3 DEF Goto, Move
<1>6. SlotTyped("marked", job[s])
  BY <1>1, <1>2, SlotHeld DEF SlotTyped, PCs, WorkerPCs
<1>7. SlotSerial("marked", job[s], idem, [quotes EXCEPT ![q] = "analyzing"])
  BY <1>3 DEF SlotSerial
<1>8. "analyzing" \in Status
  BY DEF Status
<1> QED
  BY <1>1, <1>3, <1>4, <1>5, <1>6, <1>7, <1>8, WriteStep DEF WorkerPCs

LEMMA SettleKeeps ==
    ASSUME MemInv, NEW s \in Slots, Settle(s) PROVE MemInv'
<1> DEFINE q == job[s].quote
<1>1. PICK final \in Outcomes : quotes' = [quotes EXCEPT ![q] = final]
  BY DEF Settle, Write
<1>2. /\ pc[s] = "marked" /\ Release(s)
      /\ UNCHANGED <<owner, idem, replies, drops, overlapped>>
  BY DEF Settle
<1>3. Typed
  BY DEF MemInv
<1>4. /\ q \in Quotes /\ owner \in [Quotes -> Subjects \cup {Nil}]
      /\ replies \in [Keys -> SUBSET Quotes]
  BY <1>2, <1>3, SlotHeld DEF Typed, MemoryTypeOK, Given
<1>5. owner' = [owner EXCEPT ![q] = OwnerOf[job[s].key]]
  BY <1>2, <1>4, WritersOwn
<1>6. Move(s, "idle", NoJob) /\ SlotTyped("idle", NoJob)
  BY <1>2 DEF Release, Goto, Move, SlotTyped, PCs
<1>7. final \in Status /\ final \notin {"queued", "analyzing"}
  BY MemoryAssumption DEF Status
<1> QED
  BY <1>1, <1>2, <1>4, <1>5, <1>6, <1>7, WriteStep

LEMMA AdmitStep ==
    ASSUME MemInv, NEW s \in Slots, NEW p \in {"unseen", "seen"}, NEW j, Move(s, p, j),
           pc[s] = "idle", SlotTyped(p, j),
           p = "unseen" => idem[j.key].kind = "none",
           p = "seen" => idem[j.key].quote = j.quote,
           overlapped' = IF \E t \in Slots : pc[t] # "idle" /\ OwnerOf[job[t].key] = OwnerOf[j.key]
                         THEN overlapped \cup {OwnerOf[j.key]}
                         ELSE overlapped,
           UNCHANGED <<quotes, owner, idem, replies, drops>>
    PROVE  MemInv'
<1>1. /\ Typed /\ OneClaimant /\ Owned /\ Stored /\ Alone /\ Serial /\ Replied
      /\ SerialQuotesDriven /\ DanglingKeysNeedDrop
  BY DEF MemInv
<1>2. /\ pc'[s] = p /\ job'[s] = j
      /\ \A t \in Slots : t # s => pc'[t] = pc[t] /\ job'[t] = job[t]
  BY <1>1, Moved
<1>3. j.key \in Keys /\ OwnerOf[j.key] \in Subjects /\ p # "idle"
  BY MemoryAssumption DEF SlotTyped, Job
<1>4. /\ overlapped \subseteq overlapped'
      /\ OwnerOf[j.key] \notin overlapped' =>
            \A t \in Slots : pc[t] # "idle" => OwnerOf[job[t].key] # OwnerOf[j.key]
  OBVIOUS
<1>5. Typed'
  <2>1. /\ quotes' \in [Quotes -> Status \cup {"absent"}]
        /\ owner' \in [Quotes -> Subjects \cup {Nil}]
        /\ idem' \in [Keys -> Op \cup {NoOp}]
        /\ replies' \in [Keys -> SUBSET Quotes]
        /\ drops' \in 0..MaxDrops
        /\ overlapped' \subseteq Subjects
    BY <1>1, <1>3 DEF Typed, MemoryTypeOK
  <2> QED
    BY <1>1, <2>1, TypedStep
<1>6. OneClaimant'
  <2>1. \A x \in Quotes, v \in Subjects : owner'[x] = v => Claims(x, v)
    BY DEF Claims
  <2>2. \A y \in Keys : idem'[y].quote \in Quotes => Claims(idem'[y].quote, OwnerOf[y])
    BY DEF Claims
  <2>3. p \in Given => Claims(j.quote, OwnerOf[j.key])
    BY <1>3 DEF Given, Claims
  <2> QED
    BY <1>1, <2>1, <2>2, <2>3, ClaimsStep
<1>7. Owned'
  BY <1>1 DEF Owned
<1>8. Stored'
  BY <1>1, StoredStep
<1>9. Alone'
  <2> SUFFICES ASSUME NEW a \in Slots, NEW b \in Slots,
                      pc'[a] # "idle", pc'[b] # "idle",
                      OwnerOf[job'[a].key] = OwnerOf[job'[b].key],
                      OwnerOf[job'[a].key] \notin overlapped'
               PROVE  a = b
    BY DEF Alone
  <2>1. CASE a # s /\ b # s
    BY <1>1, <1>2, <1>4, <2>1 DEF Alone
  <2>2. CASE a = s /\ b # s
    BY <1>2, <1>4, <2>2
  <2>3. CASE a # s /\ b = s
    BY <1>2, <1>4, <2>3
  <2> QED
    BY <2>1, <2>2, <2>3
<1>10. Serial'
  <2> SUFFICES ASSUME NEW t \in Slots, pc'[t] # "idle", OwnerOf[job'[t].key] \notin overlapped'
               PROVE  SlotSerial(pc'[t], job'[t], idem', quotes')
    BY DEF Serial
  <2>1. CASE t = s
    BY <1>2, <2>1 DEF SlotSerial
  <2>2. CASE t # s
    BY <1>1, <1>2, <1>4, <2>2 DEF Serial
  <2> QED
    BY <2>1, <2>2
<1>11. Replied'
  BY <1>1, <1>4 DEF Replied
<1>12. SerialQuotesDriven'
  <2> SUFFICES ASSUME NEW q \in Quotes, InFlight(q)', owner'[q] \notin overlapped'
               PROVE  \E t \in Slots : pc'[t] \in WorkerPCs /\ job'[t].quote = q
    BY DEF SerialQuotesDriven
  <2>1. PICK t \in Slots : pc[t] \in WorkerPCs /\ job[t].quote = q
    BY <1>1, <1>4 DEF SerialQuotesDriven, InFlight
  <2>2. t # s
    BY <2>1 DEF WorkerPCs
  <2> QED
    BY <1>2, <2>1, <2>2
<1>13. DanglingKeysNeedDrop'
  BY <1>1, DanglingStep
<1> QED
  BY <1>5, <1>6, <1>7, <1>8, <1>9, <1>10, <1>11, <1>12, <1>13 DEF MemInv

LEMMA AdmitKeeps ==
    ASSUME MemInv, NEW s \in Slots, NEW j, SlotTyped("unseen", j), Admit(s, j) PROVE MemInv'
<1> DEFINE op == idem[j.key]
           i == [j EXCEPT !.quote = op.quote]
<1>1. /\ pc[s] = "idle"
      /\ overlapped' = IF \E t \in Slots : pc[t] # "idle" /\ OwnerOf[job[t].key] = OwnerOf[j.key]
                       THEN overlapped \cup {OwnerOf[j.key]}
                       ELSE overlapped
      /\ UNCHANGED <<quotes, owner, idem, replies, drops>>
  BY DEF Admit
<1>2. j \in Job /\ j.key \in Keys
  BY DEF SlotTyped, Job
<1>3. CASE op.kind = "none" /\ Goto(s, "unseen") /\ job' = [job EXCEPT ![s] = j]
  <2>1. Move(s, "unseen", j)
    BY <1>3 DEF Move, Goto
  <2> QED
    BY <1>1, <1>3, <2>1, AdmitStep
<1>4. CASE op.kind # "none" /\ Goto(s, "seen") /\ job' = [job EXCEPT ![s] = i]
  <2>1. Move(s, "seen", i)
    BY <1>4 DEF Move, Goto
  <2>2. op \in Op /\ op.quote \in Quotes
    BY <1>2, <1>4 DEF MemInv, Typed, MemoryTypeOK, Op, NoOp
  <2>3. i \in Job /\ i.key = j.key /\ i.quote = op.quote
    BY <1>2, <2>2 DEF Job
  <2>4. SlotTyped("seen", i)
    BY <2>2, <2>3 DEF SlotTyped, PCs, HandlerPCs
  <2> HIDE DEF i
  <2> QED
    BY <1>1, <2>1, <2>3, <2>4, AdmitStep
<1> QED
  BY <1>3, <1>4 DEF Admit

LEMMA CreateJobTyped ==
    ASSUME NEW k \in Keys, NEW r \in Requests PROVE SlotTyped("unseen", CreateJob(k, r))
<1> DEFINE j == CreateJob(k, r)
<1>1. /\ j \in Job /\ j.key = k /\ j.kind = "create" /\ j.request = r
  BY DEF CreateJob, NoJob, Job
<1> HIDE DEF j
<1>2. SlotTyped("unseen", j)
  BY <1>1 DEF SlotTyped, PCs, HandlerPCs
<1> QED
  BY <1>2 DEF j

LEMMA RetryJobTyped ==
    ASSUME NEW k \in Keys, NEW q \in Quotes PROVE SlotTyped("unseen", RetryJob(k, q))
<1> DEFINE j == RetryJob(k, q)
<1>1. /\ j \in Job /\ j.key = k /\ j.kind = "retry" /\ j.quote = q
  BY DEF RetryJob, NoJob, Job
<1> HIDE DEF j
<1>2. SlotTyped("unseen", j)
  BY <1>1 DEF SlotTyped, PCs, HandlerPCs
<1> QED
  BY <1>2 DEF j

LEMMA MemInvStutter ==
    ASSUME MemInv, UNCHANGED memoryVars PROVE MemInv'
<1>1. UNCHANGED <<quotes, owner, idem, pc, job, replies, drops, overlapped>>
  BY DEF memoryVars
<1>2. Typed'
  BY <1>1 DEF MemInv, Typed, MemoryTypeOK, SlotsTyped
<1>3. OneClaimant' /\ Owned' /\ Stored'
  BY <1>1 DEF MemInv, OneClaimant, Claims, Owned, Stored
<1>4. Alone' /\ Serial' /\ Replied'
  BY <1>1 DEF MemInv, Alone, Serial, Replied
<1>5. SerialQuotesDriven' /\ DanglingKeysNeedDrop'
  BY <1>1 DEF MemInv, SerialQuotesDriven, InFlight, DanglingKeysNeedDrop
<1> QED
  BY <1>2, <1>3, <1>4, <1>5 DEF MemInv

LEMMA MemInvNext == MemInv /\ [MemoryNext]_memoryVars => MemInv'
<1> SUFFICES ASSUME MemInv, [MemoryNext]_memoryVars PROVE MemInv'
  OBVIOUS
<1>1. CASE UNCHANGED memoryVars
  BY <1>1, MemInvStutter
<1>2. ASSUME NEW s \in Slots, Submit(s) PROVE MemInv'
  <2>1. CASE \E k \in Keys, r \in Requests : Admit(s, CreateJob(k, r))
    BY <2>1, CreateJobTyped, AdmitKeeps
  <2>2. CASE \E k \in Keys, q \in Quotes : Admit(s, RetryJob(k, q))
    BY <2>2, RetryJobTyped, AdmitKeeps
  <2>3. CASE UNCHANGED memoryVars
    BY <2>3, MemInvStutter
  <2> QED
    BY <1>2, <2>1, <2>2, <2>3 DEF Submit, RejectReuse
<1>3. ASSUME NEW s \in Slots, Handle(s) PROVE MemInv'
  BY <1>3, InsertCreateKeeps, FindKeeps, InsertRetryKeeps, ReadKeeps, MissKeeps,
     StoreKeeps, RestoreKeeps DEF Handle
<1>4. ASSUME NEW s \in Slots, Work(s) PROVE MemInv'
  BY <1>4, MarkKeeps, SettleKeeps DEF Work
<1>5. ASSUME NEW s \in Slots, DropHandler(s) PROVE MemInv'
  BY <1>5, DropKeeps
<1> QED
  BY <1>1, <1>2, <1>3, <1>4, <1>5 DEF MemoryNext

LEMMA MemInvInit == MemoryInit => MemInv
<1> SUFFICES ASSUME MemoryInit PROVE MemInv
  OBVIOUS
<1>1. /\ quotes = [q \in Quotes |-> "absent"] /\ owner = [q \in Quotes |-> Nil]
      /\ idem = [k \in Keys |-> NoOp] /\ pc = [s \in Slots |-> "idle"]
      /\ job = [s \in Slots |-> NoJob] /\ replies = [k \in Keys |-> {}]
      /\ drops = 0 /\ overlapped = {}
  BY DEF MemoryInit
<1>2. NoOp.kind = "none" /\ NoOp.quote = Nil /\ Nil \notin Quotes \cup Subjects
  BY MemoryAssumption DEF NoOp
<1>3. Typed
  BY <1>1, MemoryAssumption DEF Typed, MemoryTypeOK, SlotsTyped, SlotTyped, PCs
<1>4. OneClaimant
  BY <1>1, <1>2 DEF OneClaimant, Claims, Given
<1>5. Owned /\ Stored
  BY <1>1 DEF Owned, Stored
<1>6. Alone /\ Serial /\ Replied
  BY <1>1 DEF Alone, Serial, Replied
<1>7. SerialQuotesDriven /\ DanglingKeysNeedDrop
  BY <1>1, <1>2 DEF SerialQuotesDriven, InFlight, DanglingKeysNeedDrop
<1> QED
  BY <1>3, <1>4, <1>5, <1>6, <1>7 DEF MemInv

(* The maps and what handlers hold keep their types. *)
THEOREM MemoryTypesHold == MemorySpec => []MemoryTypeOK
<1>1. MemInv => MemoryTypeOK
  BY DEF MemInv, Typed
<1> QED
  BY <1>1, MemInvInit, MemInvNext, PTL DEF MemorySpec

(* All 202 responses to one idempotency key name one quote, for a subject  *)
(* that waits for each analysis to end before it submits again.            *)
THEOREM SerialRepliesAlwaysAgree == MemorySpec => []SerialRepliesAgree
<1>1. MemInv => SerialRepliesAgree
  BY DEF MemInv, Replied, SerialRepliesAgree
<1> QED
  BY <1>1, MemInvInit, MemInvNext, PTL DEF MemorySpec

(* A key names a record that is neither stored nor about to be only if a   *)
(* handler was dropped.                                                    *)
THEOREM KeysDangleOnlyAfterDrops == MemorySpec => []DanglingKeysNeedDrop
<1>1. MemInv => DanglingKeysNeedDrop
  BY DEF MemInv
<1> QED
  BY <1>1, MemInvInit, MemInvNext, PTL DEF MemorySpec

(* A stored quote in flight has a worker, for such a subject, whatever the *)
(* other subjects do and whichever handlers are dropped.                   *)
THEOREM QuotesAreDriven == MemorySpec => []SerialQuotesDriven
<1>1. MemInv => SerialQuotesDriven
  BY DEF MemInv
<1> QED
  BY <1>1, MemInvInit, MemInvNext, PTL DEF MemorySpec

(* Who changes the status of a record, and how. *)
LEMMA StatusMoves ==
    ASSUME MemInv, [MemoryNext]_memoryVars, NEW q \in Quotes, quotes'[q] # quotes[q],
           owner'[q] \notin overlapped'
    PROVE  <<quotes[q], quotes'[q]>> \in Transitions
<1>1. Typed /\ OneClaimant /\ Serial
  BY DEF MemInv
<1>2. quotes \in [Quotes -> Status \cup {"absent"}] /\ owner \in [Quotes -> Subjects \cup {Nil}]
  BY <1>1 DEF Typed, MemoryTypeOK
<1>3. \/ quotes' = quotes
      \/ \E s \in Slots : Store(s) \/ Restore(s) \/ MarkAnalyzing(s) \/ Settle(s)
  BY DEF MemoryNext, memoryVars, Submit, Admit, RejectReuse, Handle, InsertCreate, FindFailed,
         InsertRetry, ReadRecord, MissRecord, Work, DropHandler
<1>4. PICK s \in Slots : Store(s) \/ Restore(s) \/ MarkAnalyzing(s) \/ Settle(s)
  BY <1>3
<1>5. /\ pc[s] \in {"storing", "restoring", "spawned", "marked"} /\ overlapped' = overlapped
      /\ \E status : quotes' = [quotes EXCEPT ![job[s].quote] = status]
      /\ \/ pc[s] = "storing" /\ owner' = [owner EXCEPT ![job[s].quote] = OwnerOf[job[s].key]]
         \/ pc[s] # "storing" /\ owner' = owner
  BY <1>4 DEF Store, Restore, MarkAnalyzing, Settle, Write
<1>6. q = job[s].quote
  BY <1>2, <1>5
<1>7. owner'[q] = OwnerOf[job[s].key]
  BY <1>2, <1>5, <1>6, WritersOwn
<1>8. SlotSerial(pc[s], job[s], idem, quotes)
  BY <1>1, <1>5, <1>7 DEF Serial
<1>9. SlotTyped(pc[s], job[s])
  BY <1>1, SlotHeld
<1>10. CASE Store(s)
  <2>1. pc[s] = "storing" /\ quotes'[q] = job[s].view
    BY <1>2, <1>6, <1>10 DEF Store, Write
  <2>2. job[s].view = "queued" /\ quotes[q] \in {"absent", "failed"}
    BY <1>6, <1>8, <1>9, <2>1 DEF SlotTyped, SlotSerial
  <2> QED
    BY <2>1, <2>2 DEF Transitions
<1>11. CASE Restore(s)
  <2>1. pc[s] = "restoring" /\ quotes'[q] = job[s].view
    BY <1>2, <1>6, <1>11 DEF Restore, Write
  <2> QED
    BY <1>6, <1>8, <2>1 DEF SlotSerial
<1>12. CASE MarkAnalyzing(s)
  <2>1. pc[s] = "spawned" /\ quotes'[q] = "analyzing"
    BY <1>2, <1>6, <1>12 DEF MarkAnalyzing, Write
  <2> QED
    BY <1>6, <1>8, <2>1 DEF SlotSerial, Transitions
<1>13. CASE Settle(s)
  <2>1. pc[s] = "marked" /\ quotes'[q] \in Outcomes
    BY <1>2, <1>6, <1>13 DEF Settle, Write
  <2> QED
    BY <1>6, <1>8, <2>1, MemoryAssumption DEF SlotSerial, Transitions
<1> QED
  BY <1>4, <1>10, <1>11, <1>12, <1>13

(* A stored record moves along the documented transitions only, for such a *)
(* subject: no stale copy a replay writes back undoes one.                 *)
THEOREM RecordsMoveForward == MemorySpec => SerialTransitions
<1>1. MemInv /\ [MemoryNext]_memoryVars =>
         [\A q \in Quotes :
             quotes'[q] # quotes[q] /\ owner'[q] \notin overlapped' =>
                <<quotes[q], quotes'[q]>> \in Transitions]_memoryVars
  BY StatusMoves
<1> QED
  BY <1>1, MemInvInit, MemInvNext, PTL DEF MemorySpec, SerialTransitions
=============================================================================
