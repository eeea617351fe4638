------------------------------ MODULE Shutdown ------------------------------
(***************************************************************************)
(* The server's lifecycle: reduce and serve_with_events in                 *)
(* src/src/shutdown.rs, the tasks that feed its channel, and main's exit.  *)
(*                                                                         *)
(* Signals, a deadline timer and a watcher of standard input send events   *)
(* into one channel.  The serving loop selects, in any order, between the  *)
(* next event and the end of the HTTP server, an axum_server whose handle  *)
(* can be told to drain (graceful_shutdown) or to close (shutdown).        *)
(*                                                                         *)
(* The loop keeps a sender of the channel itself, so the channel is never  *)
(* closed while it runs.  When the loop returns, main returns and the      *)
(* runtime drops every task that is still running.                         *)
(***************************************************************************)
EXTENDS Integers, Sequences

CONSTANTS
    MaxSignals, \* bound on the signals raised
    MaxConns,   \* bound on open connections
    MaxJobs     \* bound on running quote analyses

ASSUME ShutdownAssumption == MaxSignals \in Nat /\ MaxConns \in Nat /\ MaxJobs \in Nat

VARIABLES
    tty,         \* whether standard input is a terminal
    phase,       \* State.phase
    trigger,     \* State.trigger, "none" if there is none
    signalCount, \* State.signal_count
    forcedBy,    \* State.forced_by, "none" if there is none
    events,      \* the channel
    pending,     \* signals raised that their listener task has not seen
    timer,       \* the deadline task
    watcher,     \* the thread that watches standard input
    server,      \* the HTTP server
    conns,       \* open connections
    jobs,        \* quote analyses running as tasks of their own
    outcome,     \* what serve returned, "none" while it runs
    cut,         \* connections that were open when the server closed
    lost,        \* analyses that were running when main returned
    raised       \* signals raised so far

state == <<phase, trigger, signalCount, forcedBy>>
load == <<conns, jobs>>
result == <<outcome, cut, lost>>

vars == <<tty, state, events, pending, timer, watcher, server, load, result, raised>>

Signals == {"SigInt", "SigTerm"}

Events == Signals \cup {"Eof", "Deadline", "DrainFailed"}

Phases == {"Running", "Draining", "Forcing", "Stopped"}

Init ==
    /\ tty \in BOOLEAN
    /\ phase = "Running"
    /\ trigger = "none"
    /\ signalCount = 0
    /\ forcedBy = "none"
    /\ events = <<>>
    /\ pending = {}
    /\ timer = "off"
    /\ watcher = "off"
    /\ server = "serving"
    /\ conns = 0
    /\ jobs = 0
    /\ outcome = "none"
    /\ cut = 0
    /\ lost = 0
    /\ raised = 0

Serving == outcome = "none"

-----------------------------------------------------------------------------
(* What feeds the channel *)

(* The operating system raises a signal; one that its listener has not     *)
(* seen yet swallows the next of its kind.                                 *)
Raise(e) ==
    /\ Serving
    /\ raised < MaxSignals
    /\ raised' = raised + 1
    /\ pending' = pending \cup {e}
    /\ UNCHANGED <<tty, state, events, timer, watcher, server, load, result>>

Send(e) == events' = Append(events, e)

(* Mutant: one signal is delivered more than once. *)
ListenAgain(e) ==
    /\ Serving
    /\ e \in pending
    /\ Send(e)
    /\ UNCHANGED <<tty, state, pending, timer, watcher, server, load, result, raised>>

(* A signal's listener task passes it on. *)
Listen(e) ==
    /\ Serving
    /\ e \in pending
    /\ pending' = pending \ {e}
    /\ Send(e)
    /\ UNCHANGED <<tty, state, timer, watcher, server, load, result, raised>>

(* The grace period ends. *)
Expire ==
    /\ Serving
    /\ timer = "running"
    /\ timer' = "over"
    /\ Send("Deadline")
    /\ UNCHANGED <<tty, state, pending, watcher, server, load, result, raised>>

(* Ctrl-D, or the watcher fails to start or to read, which it only logs. *)
EndOfInput ==
    /\ Serving
    /\ watcher = "reading"
    /\ watcher' = "over"
    /\ Send("Eof") \/ UNCHANGED events
    /\ UNCHANGED <<tty, state, pending, timer, server, load, result, raised>>

-----------------------------------------------------------------------------
(* reduce *)

Starts(e) == phase = "Running" /\ e \in Signals

(* Everything forces a drain, but the end of input only after Ctrl-C. *)
Forces(e) ==
    /\ phase = "Draining"
    /\ \/ e \in Signals \cup {"Deadline", "DrainFailed"}
       \/ e = "Eof" /\ tty /\ trigger = "SigInt"

-----------------------------------------------------------------------------
(* The serving loop *)

NextEvent(e) ==
    /\ Serving
    /\ events # <<>>
    /\ e = Head(events)
    /\ events' = Tail(events)

(* Mutant: the deadline does not start to run. *)
StartGracefulWithoutDeadline(e) ==
    /\ NextEvent(e)
    /\ Starts(e)
    /\ phase' = "Draining"
    /\ trigger' = e
    /\ signalCount' = signalCount + 1
    /\ watcher' = IF tty /\ e = "SigInt" THEN "reading" ELSE watcher
    /\ server' = "draining"
    /\ UNCHANGED <<tty, forcedBy, pending, timer, load, result, raised>>

(* The listener closes, the deadline starts to run, and in a terminal      *)
(* Ctrl-C arms Ctrl-D.                                                     *)
StartGraceful(e) ==
    /\ NextEvent(e)
    /\ Starts(e)
    /\ phase' = "Draining"
    /\ trigger' = e
    /\ signalCount' = signalCount + 1
    /\ watcher' = IF tty /\ e = "SigInt" THEN "reading" ELSE watcher
    /\ server' = "draining"
    /\ timer' = "running"
    /\ UNCHANGED <<tty, forcedBy, pending, load, result, raised>>

Aborted == IF timer = "running" THEN "over" ELSE timer

(* Mutant: the reason is not kept. *)
ForceSilently(e) ==
    /\ NextEvent(e)
    /\ Forces(e)
    /\ phase' = "Forcing"
    /\ signalCount' = IF e \in Signals THEN signalCount + 1 ELSE signalCount
    /\ timer' = Aborted
    /\ server' = "closing"
    /\ UNCHANGED <<tty, trigger, forcedBy, pending, watcher, load, result, raised>>

(* The timer is aborted and the server told to close. *)
ForceShutdown(e) ==
    /\ NextEvent(e)
    /\ Forces(e)
    /\ phase' = "Forcing"
    /\ forcedBy' = e
    /\ signalCount' = IF e \in Signals THEN signalCount + 1 ELSE signalCount
    /\ timer' = Aborted
    /\ server' = "closing"
    /\ UNCHANGED <<tty, trigger, pending, watcher, load, result, raised>>

Ignore(e) ==
    /\ NextEvent(e)
    /\ ~Starts(e)
    /\ ~Forces(e)
    /\ UNCHANGED <<tty, state, pending, timer, watcher, server, load, result, raised>>

(* serve returns, main returns, and the runtime drops its tasks. *)
Return(o) ==
    /\ outcome' = o
    /\ timer' = Aborted
    /\ server' = "ended"
    /\ cut' = conns
    /\ conns' = 0
    /\ lost' = jobs
    /\ jobs' = 0

(* The server ends when it is told to close, or is drained. *)
Complete ==
    /\ Serving
    /\ server = "closing" \/ (server = "draining" /\ conns = 0)
    /\ phase' = "Stopped"
    /\ Return(IF forcedBy = "none" THEN "graceful" ELSE forcedBy)
    /\ UNCHANGED <<tty, trigger, signalCount, forcedBy, events, pending, watcher, raised>>

(* The server fails: reduce is given DrainFailed. *)
Break ==
    /\ Serving
    /\ trigger' = IF phase = "Running" THEN "DrainFailed" ELSE trigger
    /\ IF phase = "Running" \/ Forces("DrainFailed")
       THEN phase' = "Forcing" /\ forcedBy' = "DrainFailed"
       ELSE UNCHANGED <<phase, forcedBy>>
    /\ Return("error")
    /\ UNCHANGED <<tty, signalCount, events, pending, watcher, raised>>

-----------------------------------------------------------------------------
(* Clients *)

Connect ==
    /\ Serving
    /\ server = "serving"
    /\ conns < MaxConns
    /\ conns' = conns + 1
    /\ UNCHANGED <<tty, state, events, pending, timer, watcher, server, jobs, result, raised>>

Disconnect ==
    /\ Serving
    /\ conns > 0
    /\ conns' = conns - 1
    /\ UNCHANGED <<tty, state, events, pending, timer, watcher, server, jobs, result, raised>>

(* A submission on an open connection spawns an analysis. *)
StartJob ==
    /\ Serving
    /\ conns > 0
    /\ jobs < MaxJobs
    /\ jobs' = jobs + 1
    /\ UNCHANGED <<tty, state, events, pending, timer, watcher, server, conns, result, raised>>

EndJob ==
    /\ Serving
    /\ jobs > 0
    /\ jobs' = jobs - 1
    /\ UNCHANGED <<tty, state, events, pending, timer, watcher, server, conns, result, raised>>

Loop == \E e \in Events : StartGraceful(e) \/ ForceShutdown(e) \/ Ignore(e)

Next ==
    \/ \E e \in Signals : Raise(e) \/ Listen(e)
    \/ Expire \/ EndOfInput
    \/ Loop \/ Complete \/ Break
    \/ Connect \/ Disconnect \/ StartJob \/ EndJob

Spec == Init /\ [][Next]_vars

(* The runtime polls the listeners, the timer and the loop.  Nothing makes *)
(* a client disconnect, an analysis end or a user press Ctrl-D.            *)
Fairness ==
    /\ \A e \in Signals : WF_vars(Listen(e))
    /\ WF_vars(Expire)
    /\ WF_vars(Loop)
    /\ WF_vars(Complete)

FairSpec == Spec /\ Fairness

-----------------------------------------------------------------------------
(* Properties *)

(* The state's fields keep their types: no more than two signals are ever  *)
(* counted.                                                                *)
TypeOK ==
    /\ tty \in BOOLEAN
    /\ phase \in Phases
    /\ trigger \in Signals \cup {"none", "DrainFailed"}
    /\ signalCount \in 0 .. 2
    /\ forcedBy \in Events \cup {"none"}
    /\ events \in Seq(Events)
    /\ pending \subseteq Signals
    /\ timer \in {"off", "running", "over"}
    /\ watcher \in {"off", "reading", "over"}
    /\ server \in {"serving", "draining", "closing", "ended"}
    /\ conns \in Nat /\ jobs \in Nat /\ cut \in Nat /\ lost \in Nat /\ raised \in Nat
    /\ outcome \in Events \cup {"none", "graceful", "error"}

(* The drain's comment asks that "a timeout is logged as forced rather     *)
(* than silently reported as graceful": a graceful outcome cut no          *)
(* connection, in whatever order events and the server's end were          *)
(* selected.                                                               *)
GracefulCutsNothing == outcome = "graceful" => cut = 0

(* One signal never forces: what forced the end was a second signal,       *)
(* Ctrl-D in a terminal after Ctrl-C, the deadline, or the server's own    *)
(* failure.                                                                *)
ForceHasCause ==
    /\ forcedBy \in Signals => signalCount = 2 /\ raised >= 2
    /\ forcedBy = "Eof" => tty /\ trigger = "SigInt"
    /\ forcedBy = "Deadline" => timer = "over"
    /\ forcedBy = "DrainFailed" => outcome = "error"

(* A signal ends the server, even if its clients never disconnect. *)
SignalsEndServer == pending # {} ~> outcome # "none"

-----------------------------------------------------------------------------
(* docs/graceful-shutdown-validation.md: "Connections and accepted         *)
(* background jobs drain until the configured deadline."  An end that no   *)
(* deadline forced lost no job; see Shutdown_jobs.cfg.                     *)
JobsDrain == outcome = "graceful" => lost = 0
=============================================================================
