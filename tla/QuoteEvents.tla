----------------------------- MODULE QuoteEvents -----------------------------
(***************************************************************************)
(* Who hears of a quote's status, and what: the WebSocket stream of        *)
(* src/src/lib.rs, the process-local broadcast channel behind it, and the  *)
(* webhook deliveries of src/src/webhook.rs, over the events one quote     *)
(* commits on this replica and on others.                                  *)
(*                                                                         *)
(* The commits are those of QuoteLifecycle without their transactions: a   *)
(* run commits an event, publishes it, and only then goes on, while a      *)
(* retry may be accepted before the failed run has published its end.  A   *)
(* position in log is the event's sequence; the event and the record are   *)
(* written in one transaction, so the record's status is the last one.     *)
(*                                                                         *)
(* Streams and deliveries share nothing but the event published, and       *)
(* QuoteReads' client nothing but the record, so a behaviour has one kind  *)
(* of audience.                                                            *)
(***************************************************************************)
EXTENDS QuoteView, Sequences, FiniteSets

CONSTANTS
    Streams,        \* connections that clients may open on the quote
    Sockets,        \* permits of the WebSocket semaphore
    Capacity,       \* of the broadcast channel
    Analyses,       \* what the provider may answer
    Attempts,       \* DELIVERY_ATTEMPTS
    MaxEvents,      \* bound on the quote's events
    MaxNoise        \* bound on the events of other quotes

ASSUME EventsAssumption ==
    /\ {Sockets, Capacity, Attempts, MaxEvents} \subseteq Nat \ {0}
    /\ MaxNoise \in Nat
    /\ \A a \in Analyses, f \in Fees \cup Weeks : a[f] = Bad \/ a[f] \in Nat

VARIABLES
    log,        \* canonical_quote_event: status and replica of each event
    analysis,   \* canonical_quote.analysis_json, Bad before it is completed
    pending,    \* events committed and not yet published
    published,  \* events published, here or on another replica
    channel,    \* events sent to the channel of this replica, Noise for others'
    pc,         \* where a stream is
    cursor,     \* what a stream's receiver has taken from the channel
    event,      \* the event a stream is about to show
    shown,      \* what a stream's client was shown
    lagged,     \* whether a stream's receiver was overtaken
    audience,   \* who is looked at: "streams", "webhook" or "reader"
    delivery,   \* how far the delivery of an event is
    tries,      \* the attempts made in vain while it lasts
    received    \* the payloads the webhook's receiver has

sourceVars == <<log, analysis, pending, published, channel>>
streamVars == <<pc, cursor, event, shown, lagged>>
hookVars == <<delivery, tries, received>>
vars == <<log, analysis, pending, published, channel, pc, cursor, event, shown, lagged,
          audience, delivery, tries, received>>

Noise == 0

Last == Len(log)

Status == log[Last].status

(*   closed     no connection                                              *)
(*   reserved   quote_events has a permit, latest_event is due             *)
(*   upgrading  the initial event is read, the socket is not yet up        *)
(*   greeting   subscribed, the record for the initial event is due        *)
(*   open       waits for an event or a message                            *)
(*   showing    took an event, the record for it is due                    *)
StreamPCs == {"closed", "reserved", "upgrading", "greeting", "open", "showing"}

Statuses == {"queued", "analyzing", "completed", "failed"}

Message ==
    [sequence: Nat, stage: {"queued", "analyzing", "ready", "failed"}, terminal: BOOLEAN,
     estimate: {"none", "low", "medium", "high"}, problem: BOOLEAN]

TypeOK ==
    /\ log \in Seq([status: Statuses, here: BOOLEAN])
    /\ log # <<>>
    /\ analysis \in Analyses \cup {Bad}
    /\ pending \subseteq 1..Last
    /\ published \subseteq 1..Last
    /\ channel \in Seq(Nat)
    /\ pc \in [Streams -> StreamPCs]
    /\ cursor \in [Streams -> Nat]
    /\ event \in [Streams -> 0..Last]
    /\ shown \in [Streams -> Seq([version: 1..Last, message: Message])]
    /\ lagged \in [Streams -> BOOLEAN]
    /\ audience \in {"streams", "webhook", "reader"}
    /\ delivery \in [1..MaxEvents -> {"none", "sending", "delivered", "rejected", "unavailable"}]
    /\ tries \in [1..MaxEvents -> 0..Attempts]
    /\ received \subseteq [sequence: Nat, status: STRING]

(* One create on either replica, published or not, begins a behaviour. *)
Init ==
    /\ log \in {<<[status |-> "queued", here |-> h]>> : h \in BOOLEAN}
    /\ analysis = Bad
    /\ pending = {1}
    /\ published = {}
    /\ channel = <<>>
    /\ pc = [s \in Streams |-> "closed"]
    /\ cursor = [s \in Streams |-> 0]
    /\ event = [s \in Streams |-> 0]
    /\ shown = [s \in Streams |-> <<>>]
    /\ lagged = [s \in Streams |-> FALSE]
    /\ audience \in {"streams", "webhook", "reader"}
    /\ delivery = [i \in 1..MaxEvents |-> "none"]
    /\ tries = [i \in 1..MaxEvents |-> 0]
    /\ received = {}

-----------------------------------------------------------------------------
(* The source of events *)

Commit(status, here) ==
    /\ Last < MaxEvents
    /\ log' = Append(log, [status |-> status, here |-> here])
    /\ pending' = pending \cup {Last + 1}
    /\ UNCHANGED <<published, channel, streamVars, audience, hookVars>>

(* Mutant: the run goes on before its event is published. *)
CommitAnalyzingEarly ==
    /\ Status = "queued"
    /\ Commit("analyzing", log[Last].here)
    /\ UNCHANGED analysis

(* The worker's updates, each after the previous event was published. *)
CommitAnalyzing ==
    /\ Status = "queued"
    /\ Last \in published
    /\ Commit("analyzing", log[Last].here)
    /\ UNCHANGED analysis

CommitFinal ==
    /\ Status = "analyzing"
    /\ Last \in published
    /\ \/ \E a \in Analyses : /\ ValidAnalysis(a)
                              /\ Commit("completed", log[Last].here)
                              /\ analysis' = a
       \/ Commit("failed", log[Last].here) /\ UNCHANGED analysis

(* A retry, on any replica. *)
CommitRetry(here) ==
    /\ Status = "failed"
    /\ Commit("queued", here)
    /\ UNCHANGED analysis

(* publish_event: the channel of the replica that committed the event, and *)
(* a task that delivers it to the webhook.                                 *)
PublishEvent(i) ==
    /\ i \in pending
    /\ pending' = pending \ {i}
    /\ published' = published \cup {i}
    /\ channel' = IF log[i].here THEN Append(channel, i) ELSE channel
    /\ delivery' = IF audience = "webhook" THEN [delivery EXCEPT ![i] = "sending"] ELSE delivery
    /\ UNCHANGED <<log, analysis, streamVars, audience, tries, received>>

(* The handler or worker ends between commit and publication; its run ends *)
(* with it.                                                                *)
LoseEvent(i) ==
    /\ i \in pending
    /\ pending' = pending \ {i}
    /\ UNCHANGED <<log, analysis, published, channel, streamVars, audience, hookVars>>

(* Other quotes of this replica publish on the same channel. *)
PublishOther ==
    /\ audience = "streams"
    /\ Cardinality({i \in DOMAIN channel : channel[i] = Noise}) < MaxNoise
    /\ channel' = Append(channel, Noise)
    /\ UNCHANGED <<log, analysis, pending, published, streamVars, audience, hookVars>>

-----------------------------------------------------------------------------
(* Streams *)

Goto(s, l) == pc' = [pc EXCEPT ![s] = l]

(* The connection ends and its permit is released. *)
EndStream(s) ==
    /\ Goto(s, "closed")
    /\ cursor' = [cursor EXCEPT ![s] = 0]
    /\ event' = [event EXCEPT ![s] = 0]
    /\ shown' = [shown EXCEPT ![s] = <<>>]
    /\ lagged' = [lagged EXCEPT ![s] = FALSE]

(* quote_events: the quote is the subject's and a permit is free; without  *)
(* one the answer is 503.                                                  *)
Connect(s) ==
    /\ audience = "streams"
    /\ pc[s] = "closed"
    /\ Cardinality({t \in Streams : pc[t] # "closed"}) < Sockets
    /\ Goto(s, "reserved")
    /\ UNCHANGED <<sourceVars, cursor, event, shown, lagged, audience, hookVars>>

(* latest_event, the initial event. *)
ReadLatestEvent(s) ==
    /\ pc[s] = "reserved"
    /\ event' = [event EXCEPT ![s] = Last]
    /\ Goto(s, "upgrading")
    /\ UNCHANGED <<sourceVars, cursor, shown, lagged, audience, hookVars>>

(* stream_quote_events subscribes: it will receive what is sent from now. *)
Subscribe(s) ==
    /\ pc[s] = "upgrading"
    /\ cursor' = [cursor EXCEPT ![s] = Len(channel)]
    /\ Goto(s, "greeting")
    /\ UNCHANGED <<sourceVars, event, shown, lagged, audience, hookVars>>

(* Mutant: the stream keeps the record it read first. *)
ShowEarlier(s) ==
    shown' = [shown EXCEPT ![s] =
                Append(@, [version |-> IF @ = <<>> THEN Last ELSE @[1].version,
                           message |-> QuoteStatusEvent(event[s], log[event[s]].status,
                               log[IF @ = <<>> THEN Last ELSE @[1].version].status, analysis)])]

(* find_quote and send_json: the record as it is now, with the event.  The *)
(* version is the sequence of the event written with the record.           *)
Show(s) ==
    shown' = [shown EXCEPT ![s] =
                Append(@, [version |-> Last,
                           message |-> QuoteStatusEvent(event[s], log[event[s]].status,
                                                        Status, analysis)])]

(* Mutant: the initial event is shown with the record quote_events found. *)
GreetWithFirstRecord(s) ==
    /\ pc[s] = "greeting"
    /\ shown' = [shown EXCEPT ![s] =
                   Append(@, [version |-> event[s],
                              message |-> QuoteStatusEvent(event[s], log[event[s]].status,
                                                           log[event[s]].status, analysis)])]
    /\ Goto(s, "open")
    /\ UNCHANGED <<sourceVars, cursor, event, lagged, audience, hookVars>>

(* The initial event is shown with the record read after subscribing, or   *)
(* not at all when the record cannot be read or mapped.                    *)
Greet(s) ==
    /\ pc[s] = "greeting"
    /\ IF Readable(Status, analysis) THEN Show(s) ELSE UNCHANGED shown
    /\ Goto(s, "open")
    /\ UNCHANGED <<sourceVars, cursor, event, lagged, audience, hookVars>>

GreetNobody(s) ==
    /\ pc[s] = "greeting"
    /\ Goto(s, "open")
    /\ UNCHANGED <<sourceVars, cursor, event, shown, lagged, audience, hookVars>>

(* recv: a receiver that was overtaken is told so and goes on with the     *)
(* oldest event kept, which the stream does not mention to its client ...  *)
Lag(s) ==
    /\ pc[s] = "open"
    /\ Len(channel) - cursor[s] > Capacity
    /\ cursor' = [cursor EXCEPT ![s] = Len(channel) - Capacity]
    /\ lagged' = [lagged EXCEPT ![s] = TRUE]
    /\ UNCHANGED <<sourceVars, pc, event, shown, audience, hookVars>>

(* ... otherwise it takes the next; those of other quotes are skipped. *)
Receive(s) ==
    LET next == channel[cursor[s] + 1] IN
    /\ pc[s] = "open"
    /\ cursor[s] < Len(channel)
    /\ Len(channel) - cursor[s] <= Capacity
    /\ cursor' = [cursor EXCEPT ![s] = @ + 1]
    /\ IF next = Noise
       THEN UNCHANGED <<pc, event>>
       ELSE /\ event' = [event EXCEPT ![s] = next]
            /\ Goto(s, "showing")
    /\ UNCHANGED <<sourceVars, shown, lagged, audience, hookVars>>

(* The event is shown with the record as it is by now; a record that       *)
(* cannot be mapped ends the stream.                                       *)
ShowEvent(s) ==
    /\ pc[s] = "showing"
    /\ IF Readable(Status, analysis)
       THEN Show(s) /\ Goto(s, "open") /\ UNCHANGED <<cursor, event, lagged>>
       ELSE EndStream(s)
    /\ UNCHANGED <<sourceVars, audience, hookVars>>

(* The client leaves, a read or a send fails. *)
Disconnect(s) ==
    /\ pc[s] # "closed"
    /\ EndStream(s)
    /\ UNCHANGED <<sourceVars, audience, hookVars>>

-----------------------------------------------------------------------------
(* Webhook deliveries *)

(* Mutant: the sequence counts what the receiver got so far. *)
PayloadByPublication(i) ==
    [sequence |-> Cardinality({p.sequence : p \in received}) + 1,
     status |-> PublicStatus(log[i].status)]

(* WebhookEvent::from: the id is the quote's and the sequence. *)
Payload(i) == [sequence |-> i, status |-> PublicStatus(log[i].status)]

(* One turn of dispatch's loop: the request may have its effect on the     *)
(* receiver, and the answer may reach the dispatcher.                      *)
Attempt(i, arrived, next, n) ==
    /\ delivery[i] = "sending"
    /\ received' = IF arrived THEN received \cup {Payload(i)} ELSE received
    /\ delivery' = [delivery EXCEPT ![i] = next]
    /\ tries' = [tries EXCEPT ![i] = n]
    /\ UNCHANGED <<sourceVars, streamVars, audience>>

(* 2xx *)
Accepted(i) == Attempt(i, TRUE, "delivered", 0)

(* 4xx other than 408 and 429. *)
Rejected(i) == Attempt(i, FALSE, "rejected", 0)

(* Any other answer, or none in time, with or without an effect: the same  *)
(* request again ...                                                       *)
Again(i) ==
    /\ tries[i] + 1 < Attempts
    /\ \E arrived \in BOOLEAN : Attempt(i, arrived, "sending", tries[i] + 1)

(* ... unless it was the last attempt. *)
GiveUp(i) ==
    /\ tries[i] + 1 = Attempts
    /\ \E arrived \in BOOLEAN : Attempt(i, arrived, "unavailable", 0)

-----------------------------------------------------------------------------
Source ==
    \/ CommitAnalyzing
    \/ CommitFinal
    \/ \E h \in BOOLEAN : CommitRetry(h)
    \/ \E i \in pending : PublishEvent(i) \/ LoseEvent(i)
    \/ PublishOther

Stream(s) ==
    \/ Connect(s)
    \/ ReadLatestEvent(s)
    \/ Subscribe(s)
    \/ Greet(s)
    \/ GreetNobody(s)
    \/ Lag(s)
    \/ Receive(s)
    \/ ShowEvent(s)
    \/ Disconnect(s)

Deliver(i) == Accepted(i) \/ Rejected(i) \/ Again(i) \/ GiveUp(i)

Next ==
    \/ Source
    \/ \E s \in Streams : Stream(s)
    \/ \E i \in published : Deliver(i)

Spec == Init /\ [][Next]_vars

-----------------------------------------------------------------------------
(* Properties *)

Heard == {channel[i] : i \in DOMAIN channel}

(* The sequence of what a client was last shown of the record. *)
Version(s) == shown[s][Len(shown[s])].version

(* A stream that has taken everything from the channel, was not overtaken  *)
(* and has shown something has shown the record as it is, unless later     *)
(* events never reached this replica's channel: stream_quote_events        *)
(* subscribes before it reads the record, so nothing falls in between.     *)
CaughtUpStreamsAreCurrent ==
    \A s \in Streams :
        /\ pc[s] = "open"
        /\ cursor[s] = Len(channel)
        /\ ~lagged[s]
        /\ shown[s] # <<>>
        => \A i \in (Version(s) + 1)..Last : i \notin Heard

(* A retry lies between two events. *)
Retried(m, n) == \E k \in (m + 1)..n : log[k].status = "queued"

(* Within one run of the analysis a client never sees the status go back.  *)
(* Only the end of a failed run may come after the retry's first event,    *)
(* when the retry was accepted before that end was published.              *)
OrderWithinRun ==
    \A s \in Streams : \A i, j \in DOMAIN shown[s] :
        LET m == shown[s][i].message.sequence
            n == shown[s][j].message.sequence
        IN  i < j /\ n < m => Retried(n, m)

(* Stage, estimate and problem of a message come from two reads and agree: *)
(* the record is never older than the event, ready comes with an estimate, *)
(* failed with a problem unless the quote was requeued since.              *)
MessagesAgree ==
    \A s \in Streams : \A i \in DOMAIN shown[s] :
        LET m == shown[s][i].message IN
        /\ m.sequence <= shown[s][i].version
        /\ m.stage = "ready" => m.estimate # "none"
        /\ m.stage = "failed" => m.problem \/ shown[s][i].version > m.sequence

(* A completed quote that cannot be shown, in any response or on the       *)
(* stream, has fees or weeks too large for i64 or a list with an element   *)
(* that is not a text: everything else quote_estimate asks for,            *)
(* validate_analysis has checked.                                          *)
UnreadableNeedsCause ==
    Status = "completed" /\ ~Readable(Status, analysis) =>
        \/ \E f \in Fees : ~CentsFit(analysis[f])
        \/ \E f \in Weeks : analysis[f] > MaxI64
        \/ \E f \in TextLists : \E item \in analysis[f] : ~Text(item)

(* A receiver that keeps the payload of the highest sequence, as README.md *)
(* advises, ends with the quote's status once it got every event at least  *)
(* once, in whatever order and however often.                              *)
ReceiversConverge ==
    audience = "webhook" /\ (\A i \in 1..Last : delivery[i] = "delivered") =>
        \A p \in received :
            (\A q \in received : q.sequence <= p.sequence) => p.status = PublicStatus(Status)
=============================================================================
