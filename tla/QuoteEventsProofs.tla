-------------------------- MODULE QuoteEventsProofs --------------------------
(***************************************************************************)
(* What subscribers and the webhook's receiver are told of a quote, for    *)
(* any number of streams, events, permits, attempts and any capacity of    *)
(* the channel.                                                            *)
(***************************************************************************)
EXTENDS QuoteReads, FiniteSetTheorems, WellFoundedInduction, TLAPS

Entry == [status: Statuses, here: BOOLEAN]

Shown == [version: Nat, message: Message]

Deliveries == {"none", "sending", "delivered", "rejected", "unavailable"}

-----------------------------------------------------------------------------
(* The inductive invariant.  Its parts are operators of the values they    *)
(* relate, so that a step that leaves those values alone keeps them.       *)

(* In the log l, an event x told after the event y is of the same run only *)
(* if it is the later one.                                                 *)
Behind(l, x, y) == x < y => \E k \in (x + 1)..y : l[k].status = "queued"

Typed ==
    /\ log \in Seq(Entry)
    /\ log # <<>>
    /\ pending \subseteq 1..Len(log)
    /\ published \subseteq 1..Len(log)
    /\ channel \in Seq(Nat)
    /\ pc \in [Streams -> StreamPCs]
    /\ cursor \in [Streams -> Nat]
    /\ event \in [Streams -> Nat]
    /\ shown \in [Streams -> Seq(Shown)]
    /\ lagged \in [Streams -> BOOLEAN]
    /\ delivery \in [1..MaxEvents -> Deliveries]

(* A run goes on only after its event is published: what follows an event  *)
(* that is not is a retry.                                                 *)
RunsWait ==
    \A i \in 1..(Len(log) - 1) : i \notin published => log[i + 1].status = "queued"

CompletedIsLast == \A i \in 1..Len(log) : log[i].status = "completed" => i = Len(log)

AnalysisIsValid ==
    log[Len(log)].status = "completed" => analysis \in Analyses /\ ValidAnalysis(analysis)

Published ==
    /\ Len(log) <= MaxEvents
    /\ pending \cap published = {}
    /\ \A k \in 1..Len(channel) : channel[k] # 0 => channel[k] \in published

ChannelOrder ==
    \A a, b \in 1..Len(channel) :
        a < b /\ channel[b] # 0 => Behind(log, channel[b], channel[a])

Agrees(m, version) ==
    /\ m.sequence <= version
    /\ m.stage = "ready" => m.estimate # "none"
    /\ m.stage = "failed" => m.problem \/ version > m.sequence

Shape(l, ch, p, c, e, sh) ==
    /\ c <= Len(ch)
    /\ e <= Len(l)
    /\ p \in {"upgrading", "greeting", "showing"} => e # 0
    /\ p \notin {"open", "showing"} => sh = <<>>
    /\ \A i \in 1..Len(sh) :
          /\ sh[i].message.sequence \in 1..Len(l)
          /\ Agrees(sh[i].message, sh[i].version)

(* What a stream has still to take from the channel comes after what it    *)
(* has taken and what it has shown ...                                     *)
Ahead(l, ch, p, c, e, sh) ==
    p \in {"greeting", "open", "showing"} =>
        \A k \in (c + 1)..Len(ch) : ch[k] # 0 =>
            /\ Behind(l, ch[k], e)
            /\ \A i \in 1..Len(sh) : Behind(l, ch[k], sh[i].message.sequence)

(* ... and so does what it is about to show. *)
InOrder(l, p, e, sh) ==
    /\ p = "showing" => \A i \in 1..Len(sh) : Behind(l, e, sh[i].message.sequence)
    /\ \A i, j \in 1..Len(sh) :
          i < j => Behind(l, sh[j].message.sequence, sh[i].message.sequence)

(* What a stream has taken is not newer than what it has shown last. *)
Current(ch, p, c, sh, lg) ==
    p = "open" /\ ~lg /\ sh # <<>> => \A k \in 1..c : ch[k] <= sh[Len(sh)].version

StreamOk(l, ch, p, c, e, sh, lg) ==
    /\ Shape(l, ch, p, c, e, sh)
    /\ Ahead(l, ch, p, c, e, sh)
    /\ InOrder(l, p, e, sh)
    /\ Current(ch, p, c, sh, lg)

StreamInv(s) == StreamOk(log, channel, pc[s], cursor[s], event[s], shown[s], lagged[s])

(* The payload of an event of the log l. *)
Told(l, i) == [sequence |-> i, status |-> PublicStatus(l[i].status)]

(* The receiver has payloads of events only, and of all those delivered. *)
HookInv ==
    /\ \A p \in received : \E i \in 1..Len(log) : p = Told(log, i)
    /\ \A i \in 1..Len(log) : delivery[i] = "delivered" => Told(log, i) \in received
    /\ \A i \in 1..MaxEvents : delivery[i] # "none" => i \in published

SourceInv == RunsWait /\ CompletedIsLast /\ AnalysisIsValid /\ Published /\ ChannelOrder

Inv == Typed /\ SourceInv /\ (\A s \in Streams : StreamInv(s)) /\ HookInv

-----------------------------------------------------------------------------
(* The values a stream's part of the invariant is about *)

(* An event more leaves the earlier ones as they are. *)
LEMMA LongerSeq ==
    ASSUME NEW S, NEW q \in Seq(S), NEW x \in S
    PROVE  /\ Append(q, x) \in Seq(S) /\ Append(q, x) # <<>>
           /\ Len(Append(q, x)) = Len(q) + 1 /\ Len(q) \in Nat
           /\ Append(q, x)[Len(q) + 1] = x
           /\ \A i \in 1..Len(q) : Append(q, x)[i] = q[i]
  OBVIOUS

LEMMA LastOrEarlier ==
    ASSUME NEW n \in Nat, NEW k \in 1..(n + 1)
    PROVE  k = n + 1 \/ k \in 1..n
  OBVIOUS

LEMMA BehindStays ==
    ASSUME NEW l \in Seq(Entry), NEW x \in Entry, NEW m \in Nat, NEW n \in Nat,
           n <= Len(l), Behind(l, m, n)
    PROVE  Behind(Append(l, x), m, n)
<1> SUFFICES ASSUME m < n PROVE \E k \in (m + 1)..n : Append(l, x)[k].status = "queued"
  BY DEF Behind
<1>1. PICK k \in (m + 1)..n : l[k].status = "queued"
  BY DEF Behind
<1>2. k \in 1..Len(l)
  OBVIOUS
<1> QED
  BY <1>1, <1>2, LongerSeq

LEMMA LogGrows ==
    ASSUME NEW l \in Seq(Entry), NEW x \in Entry, NEW ch \in Seq(Nat), NEW p, NEW c \in Nat,
           NEW e \in Nat, NEW sh \in Seq(Shown), NEW lg, StreamOk(l, ch, p, c, e, sh, lg)
    PROVE  StreamOk(Append(l, x), ch, p, c, e, sh, lg)
<1> DEFINE ll == Append(l, x)
<1>1. Len(ll) = Len(l) + 1 /\ Len(l) \in Nat
  BY LongerSeq
<1>2. \A i \in 1..Len(sh) : sh[i].message.sequence \in 1..Len(l)
  BY DEF StreamOk, Shape
<1>3. \A m, n \in Nat : n <= Len(l) /\ Behind(l, m, n) => Behind(ll, m, n)
  BY BehindStays
<1>e. e <= Len(l)
  BY DEF StreamOk, Shape
<1> HIDE DEF ll
<1>4. Shape(ll, ch, p, c, e, sh)
  BY <1>1 DEF StreamOk, Shape
<1>5. Ahead(ll, ch, p, c, e, sh)
  <2> SUFFICES ASSUME p \in {"greeting", "open", "showing"},
                      NEW k \in (c + 1)..Len(ch), ch[k] # 0
               PROVE  /\ Behind(ll, ch[k], e)
                      /\ \A i \in 1..Len(sh) : Behind(ll, ch[k], sh[i].message.sequence)
    BY DEF Ahead
  <2>1. ch[k] \in Nat
    OBVIOUS
  <2>2. Behind(l, ch[k], e) /\ \A i \in 1..Len(sh) : Behind(l, ch[k], sh[i].message.sequence)
    BY DEF StreamOk, Ahead
  <2> QED
    BY <1>1, <1>2, <1>3, <1>e, <2>1, <2>2
<1>6. InOrder(ll, p, e, sh)
  <2>1. p = "showing" => \A i \in 1..Len(sh) : Behind(ll, e, sh[i].message.sequence)
    BY <1>1, <1>2, <1>3 DEF StreamOk, InOrder
  <2>2. \A i, j \in 1..Len(sh) :
           i < j => Behind(ll, sh[j].message.sequence, sh[i].message.sequence)
    BY <1>1, <1>2, <1>3 DEF StreamOk, InOrder
  <2> QED
    BY <2>1, <2>2 DEF InOrder
<1> QED
  BY <1>4, <1>5, <1>6 DEF StreamOk, ll

(* The channel takes an event that comes after all others, or one of       *)
(* another quote.                                                          *)
LEMMA ChannelGrows ==
    ASSUME NEW l \in Seq(Entry), NEW ch \in Seq(Nat), NEW p, NEW c \in Nat, NEW e \in Nat,
           NEW sh \in Seq(Shown), NEW lg, StreamOk(l, ch, p, c, e, sh, lg),
           NEW x \in Nat, x # 0 => \A y \in 0..Len(l) : Behind(l, x, y)
    PROVE  StreamOk(l, Append(ch, x), p, c, e, sh, lg)
<1> DEFINE cc == Append(ch, x)
<1>1. Len(cc) = Len(ch) + 1 /\ Len(ch) \in Nat /\ cc[Len(ch) + 1] = x
  OBVIOUS
<1>2. \A k \in 1..Len(ch) : cc[k] = ch[k]
  OBVIOUS
<1>3. c <= Len(ch) /\ e \in 0..Len(l)
  BY DEF StreamOk, Shape
<1>4. \A i \in 1..Len(sh) : sh[i].message.sequence \in 0..Len(l)
  BY DEF StreamOk, Shape
<1> HIDE DEF cc
<1>5. Shape(l, cc, p, c, e, sh)
  BY <1>1 DEF StreamOk, Shape
<1>6. Ahead(l, cc, p, c, e, sh)
  <2> SUFFICES ASSUME p \in {"greeting", "open", "showing"},
                      NEW k \in (c + 1)..Len(cc), cc[k] # 0
               PROVE  /\ Behind(l, cc[k], e)
                      /\ \A i \in 1..Len(sh) : Behind(l, cc[k], sh[i].message.sequence)
    BY DEF Ahead
  <2>1. CASE k = Len(ch) + 1
    BY <1>1, <1>3, <1>4, <2>1
  <2>2. CASE k # Len(ch) + 1
    <3>1. k \in (c + 1)..Len(ch) /\ k \in 1..Len(ch)
      BY <1>1, <2>2
    <3> QED
      BY <1>2, <3>1 DEF StreamOk, Ahead
  <2> QED
    BY <2>1, <2>2
<1>7. Current(cc, p, c, sh, lg)
  <2> SUFFICES ASSUME p = "open", ~lg, sh # <<>>, NEW k \in 1..c
               PROVE  cc[k] <= sh[Len(sh)].version
    BY DEF Current
  <2>1. ch[k] <= sh[Len(sh)].version
    BY DEF StreamOk, Current
  <2> QED
    BY <1>1, <1>2, <1>3, <2>1
<1> QED
  BY <1>5, <1>6, <1>7 DEF StreamOk, cc

-----------------------------------------------------------------------------
(* The steps of one stream *)

LEMMA StreamOpens ==
    ASSUME NEW l, NEW ch, NEW c, NEW e, NEW sh, NEW lg,
           StreamOk(l, ch, "closed", c, e, sh, lg)
    PROVE  StreamOk(l, ch, "reserved", c, e, sh, lg)
  BY DEF StreamOk, Shape, Ahead, InOrder, Current

LEMMA StreamReads ==
    ASSUME NEW l \in Seq(Entry), l # <<>>, NEW ch, NEW c, NEW e, NEW sh, NEW lg,
           StreamOk(l, ch, "reserved", c, e, sh, lg)
    PROVE  StreamOk(l, ch, "upgrading", c, Len(l), sh, lg)
<1>1. Len(l) # 0 /\ Len(l) \in Nat
  OBVIOUS
<1>2. sh = <<>>
  BY DEF StreamOk, Shape
<1> QED
  BY <1>1, <1>2 DEF StreamOk, Shape, Ahead, InOrder, Current

LEMMA StreamSubscribes ==
    ASSUME NEW l, NEW ch \in Seq(Nat), NEW c, NEW e, NEW sh, NEW lg,
           StreamOk(l, ch, "upgrading", c, e, sh, lg)
    PROVE  StreamOk(l, ch, "greeting", Len(ch), e, sh, lg)
<1>1. Len(ch) \in Nat /\ sh = <<>>
  BY DEF StreamOk, Shape
<1> QED
  BY <1>1 DEF StreamOk, Shape, Ahead, InOrder, Current

LEMMA StreamGreetsNobody ==
    ASSUME NEW l, NEW ch, NEW c, NEW e, NEW sh, NEW lg,
           StreamOk(l, ch, "greeting", c, e, sh, lg)
    PROVE  StreamOk(l, ch, "open", c, e, sh, lg)
<1>1. sh = <<>>
  BY DEF StreamOk, Shape
<1> QED
  BY <1>1 DEF StreamOk, Shape, Ahead, InOrder, Current

LEMMA StreamLags ==
    ASSUME NEW l, NEW ch \in Seq(Nat), NEW c \in Nat, NEW e, NEW sh, NEW lg,
           NEW d \in Nat, c < d, d <= Len(ch),
           StreamOk(l, ch, "open", c, e, sh, lg)
    PROVE  StreamOk(l, ch, "open", d, e, sh, TRUE)
<1>1. Ahead(l, ch, "open", d, e, sh)
  <2>1. \A k \in (d + 1)..Len(ch) : k \in (c + 1)..Len(ch)
    OBVIOUS
  <2> QED
    BY <2>1 DEF StreamOk, Ahead
<1> QED
  BY <1>1 DEF StreamOk, Shape, InOrder, Current

(* recv hands out an event of another quote. *)
LEMMA StreamSkips ==
    ASSUME NEW l, NEW ch \in Seq(Nat), NEW c \in Nat, NEW e, NEW sh \in Seq(Shown), NEW lg,
           c < Len(ch), ch[c + 1] = 0,
           StreamOk(l, ch, "open", c, e, sh, lg)
    PROVE  StreamOk(l, ch, "open", c + 1, e, sh, lg)
<1>1. Ahead(l, ch, "open", c + 1, e, sh)
  <2>1. \A k \in (c + 1 + 1)..Len(ch) : k \in (c + 1)..Len(ch)
    OBVIOUS
  <2> QED
    BY <2>1 DEF StreamOk, Ahead
<1>2. Current(ch, "open", c + 1, sh, lg)
  <2> SUFFICES ASSUME ~lg, sh # <<>>, NEW k \in 1..(c + 1)
               PROVE  ch[k] <= sh[Len(sh)].version
    BY DEF Current
  <2>1. CASE k = c + 1
    <3>1. sh[Len(sh)] \in Shown
      OBVIOUS
    <3> QED
      BY <2>1, <3>1 DEF Shown
  <2>2. CASE k # c + 1
    <3>1. k \in 1..c
      BY <2>2
    <3> QED
      BY <3>1 DEF StreamOk, Current
  <2> QED
    BY <2>1, <2>2
<1>3. Shape(l, ch, "open", c + 1, e, sh)
  BY DEF StreamOk, Shape
<1> QED
  BY <1>1, <1>2, <1>3 DEF StreamOk, InOrder

(* recv hands out an event of the quote. *)
LEMMA StreamTakes ==
    ASSUME NEW l \in Seq(Entry), NEW ch \in Seq(Nat), NEW c \in Nat, NEW e,
           NEW sh \in Seq(Shown), NEW lg,
           c < Len(ch), ch[c + 1] \in 1..Len(l),
           \A b \in 1..Len(ch) : c + 1 < b /\ ch[b] # 0 => Behind(l, ch[b], ch[c + 1]),
           StreamOk(l, ch, "open", c, e, sh, lg)
    PROVE  StreamOk(l, ch, "showing", c + 1, ch[c + 1], sh, lg)
<1>0. \A k \in (c + 1 + 1)..Len(ch) : k \in (c + 1)..Len(ch) /\ k \in 1..Len(ch) /\ c + 1 < k
  OBVIOUS
<1>1. Ahead(l, ch, "showing", c + 1, ch[c + 1], sh)
  BY <1>0 DEF StreamOk, Ahead
<1>2. InOrder(l, "showing", ch[c + 1], sh)
  <2>1. c + 1 \in (c + 1)..Len(ch) /\ ch[c + 1] # 0
    OBVIOUS
  <2> QED
    BY <2>1 DEF StreamOk, Ahead, InOrder
<1>3. Shape(l, ch, "showing", c + 1, ch[c + 1], sh)
  <2>1. c + 1 <= Len(ch) /\ ch[c + 1] <= Len(l) /\ ch[c + 1] # 0
    OBVIOUS
  <2> QED
    BY <2>1 DEF StreamOk, Shape
<1> QED
  BY <1>1, <1>2, <1>3 DEF StreamOk, Current

LEMMA StreamEnds ==
    ASSUME NEW l \in Seq(Entry), NEW ch \in Seq(Nat)
    PROVE  StreamOk(l, ch, "closed", 0, 0, <<>>, FALSE)
<1>1. Len(l) \in Nat /\ Len(ch) \in Nat
  OBVIOUS
<1> QED
  BY <1>1 DEF StreamOk, Shape, Ahead, InOrder, Current

(* A stream shows its event with the record as it is now. *)
LEMMA StreamShows ==
    ASSUME NEW l \in Seq(Entry), NEW ch \in Seq(Nat), NEW p \in {"greeting", "showing"},
           NEW c \in Nat, NEW e \in Nat, NEW sh \in Seq(Shown), NEW lg,
           NEW m \in Message, m.sequence = e, Agrees(m, Len(l)),
           \A k \in 1..Len(ch) : ch[k] <= Len(l),
           StreamOk(l, ch, p, c, e, sh, lg)
    PROVE  /\ Append(sh, [version |-> Len(l), message |-> m]) \in Seq(Shown)
           /\ StreamOk(l, ch, "open", c, e, Append(sh, [version |-> Len(l), message |-> m]), lg)
<1> DEFINE n == [version |-> Len(l), message |-> m]
           ss == Append(sh, n)
<1>0. n \in Shown /\ n.version = Len(l) /\ n.message = m
  BY DEF Shown
<1> HIDE DEF n
<1>1. /\ ss \in Seq(Shown) /\ ss # <<>>
      /\ Len(ss) = Len(sh) + 1 /\ Len(sh) \in Nat
      /\ ss[Len(sh) + 1] = n
      /\ \A i \in 1..Len(sh) : ss[i] = sh[i]
  BY <1>0, LongerSeq
<1>2. e \in 1..Len(l) /\ c <= Len(ch)
  BY DEF StreamOk, Shape
<1> HIDE DEF ss
<1>s. \A i \in 1..Len(ss) : i = Len(sh) + 1 \/ i \in 1..Len(sh)
  BY <1>1, LastOrEarlier
<1>3. Shape(l, ch, "open", c, e, ss)
  <2>1. \A i \in 1..Len(ss) : /\ ss[i].message.sequence \in 1..Len(l)
                             /\ Agrees(ss[i].message, ss[i].version)
    BY <1>0, <1>1, <1>2, <1>s DEF StreamOk, Shape
  <2> QED
    BY <1>2, <2>1 DEF Shape
<1>4. Ahead(l, ch, "open", c, e, ss)
  BY <1>0, <1>1, <1>s DEF StreamOk, Ahead
<1>5. InOrder(l, "open", e, ss)
  <2> SUFFICES ASSUME NEW i \in 1..Len(ss), NEW j \in 1..Len(ss), i < j
               PROVE  Behind(l, ss[j].message.sequence, ss[i].message.sequence)
    BY DEF InOrder
  <2>1. i \in 1..Len(sh)
    BY <1>1
  <2>2. CASE j = Len(sh) + 1
    <3>1. sh # <<>>
      BY <2>1
    <3>2. p = "showing"
      BY <3>1 DEF StreamOk, Shape
    <3> QED
      BY <1>0, <1>1, <2>1, <2>2, <3>2 DEF StreamOk, InOrder
  <2>3. CASE j \in 1..Len(sh)
    BY <1>1, <2>1, <2>3 DEF StreamOk, InOrder
  <2> QED
    BY <1>s, <2>2, <2>3
<1>6. Current(ch, "open", c, ss, lg)
  <2>1. ss[Len(ss)].version = Len(l)
    BY <1>0, <1>1
  <2>2. \A k \in 1..c : k \in 1..Len(ch)
    BY <1>2
  <2> QED
    BY <2>1, <2>2 DEF Current
<1> QED
  BY <1>1, <1>3, <1>4, <1>5, <1>6 DEF StreamOk, ss, n

(* The message for an event of a log in which nothing follows a completed  *)
(* event agrees with the record.                                           *)
LEMMA MessageAgrees ==
    ASSUME NEW l \in Seq(Entry), l # <<>>, NEW e \in 1..Len(l), NEW a,
           \A i \in 1..Len(l) : l[i].status = "completed" => i = Len(l)
    PROVE  LET m == QuoteStatusEvent(e, l[e].status, l[Len(l)].status, a)
           IN  m \in Message /\ m.sequence = e /\ Agrees(m, Len(l))
<1> DEFINE es == l[e].status
           rs == l[Len(l)].status
           m == QuoteStatusEvent(e, es, rs, a)
<1>1. es \in Statuses /\ rs \in Statuses /\ Len(l) \in Nat /\ Len(l) \in 1..Len(l)
  <2>1. Len(l) \in Nat /\ Len(l) \in 1..Len(l)
    OBVIOUS
  <2>2. l[e] \in Entry /\ l[Len(l)] \in Entry
    BY <2>1
  <2> QED
    BY <2>1, <2>2 DEF Entry
<1>2. es = "completed" => e = Len(l)
  OBVIOUS
<1>3. /\ QuoteEstimate(rs, a) \in {"none", "low", "medium", "high"}
      /\ rs = "completed" => QuoteEstimate(rs, a) # "none"
  <2>1. ASSUME NEW services PROVE Confidence(services) \in {"low", "medium", "high"}
    BY Zenon DEF Confidence
  <2>2. Confidence(a.recommended_services) \in {"low", "medium", "high"}
    BY <2>1
  <2> QED
    BY <2>2 DEF QuoteEstimate
<1>4. PublicStatus(es) \in {"queued", "analyzing", "ready", "failed"}
  BY <1>1 DEF PublicStatus, Statuses
<1>5. PublicStatus(es) = "ready" => es = "completed"
  BY <1>1 DEF PublicStatus, Statuses
<1>6. PublicStatus(es) = "failed" => es = "failed"
  BY <1>1 DEF PublicStatus, Statuses
<1>7. e = Len(l) => es = rs
  OBVIOUS
<1> HIDE DEF es, rs
<1>8. m \in Message /\ m.sequence = e
  BY <1>1, <1>3, <1>4 DEF QuoteStatusEvent, Message
<1>9. Agrees(m, Len(l))
  <2>1. m.sequence <= Len(l)
    BY <1>1, <1>8
  <2>2. m.stage = "ready" => m.estimate # "none"
    BY <1>2, <1>3, <1>5, <1>7 DEF QuoteStatusEvent
  <2>3. m.stage = "failed" => m.problem \/ Len(l) > m.sequence
    <3>1. m.problem = (rs = "failed") /\ m.stage = PublicStatus(es)
      BY DEF QuoteStatusEvent
    <3>2. CASE e = Len(l)
      BY <1>6, <1>7, <3>1, <3>2
    <3>3. CASE e # Len(l)
      BY <1>1, <1>8, <3>3
    <3> QED
      BY <3>2, <3>3
  <2> QED
    BY <2>1, <2>2, <2>3 DEF Agrees
<1> QED
  BY <1>8, <1>9 DEF es, rs

-----------------------------------------------------------------------------
(* The actions *)

LEMMA InitInv == Init => Inv
<1> SUFFICES ASSUME Init PROVE Inv
  OBVIOUS
<1>1. PICK h \in BOOLEAN : log = <<[status |-> "queued", here |-> h]>>
  BY DEF Init
<1>2. /\ log \in Seq(Entry) /\ log # <<>> /\ Len(log) = 1
      /\ log[1].status = "queued"
  BY <1>1 DEF Entry, Statuses
<1>3. channel \in Seq(Nat) /\ Len(channel) = 0
  BY DEF Init
<1>4. MaxEvents \in Nat \ {0}
  BY EventsAssumption
<1>5. Typed
  BY <1>2, <1>3 DEF Init, Typed, StreamPCs, Deliveries
<1>6. SourceInv
  BY <1>2, <1>3, <1>4 DEF Init, SourceInv, RunsWait, CompletedIsLast, AnalysisIsValid,
                          Published, ChannelOrder
<1>7. ASSUME NEW s \in Streams PROVE StreamInv(s)
  <2>1. pc[s] = "closed" /\ cursor[s] = 0 /\ event[s] = 0 /\ shown[s] = <<>> /\ lagged[s] = FALSE
    BY DEF Init
  <2> QED
    BY <1>2, <1>3, <2>1, StreamEnds DEF StreamInv
<1>8. HookInv
  BY <1>2, <1>4 DEF Init, HookInv
<1> QED
  BY <1>5, <1>6, <1>7, <1>8 DEF Inv

(* The commits of a run and of a retry. *)
LEMMA CommitKeepsInv ==
    ASSUME Inv, NEW st \in Statuses, NEW h \in BOOLEAN, Commit(st, h),
           Last \in published \/ st = "queued",
           Status # "completed",
           st = "completed" => analysis' \in Analyses /\ ValidAnalysis(analysis')
    PROVE  Inv'
<1> DEFINE x == [status |-> st, here |-> h]
<1>0. /\ log' = Append(log, x) /\ Len(log) < MaxEvents
      /\ pending' = pending \cup {Len(log) + 1}
      /\ published' = published /\ channel' = channel
      /\ pc' = pc /\ cursor' = cursor /\ event' = event /\ shown' = shown /\ lagged' = lagged
      /\ delivery' = delivery /\ received' = received
  BY DEF Commit, Last, streamVars, hookVars
<1>x. x \in Entry /\ x.status = st
  BY DEF Entry
<1> HIDE DEF x
<1>t. Typed /\ SourceInv /\ HookInv /\ \A s \in Streams : StreamInv(s)
  BY DEF Inv
<1>1. /\ log \in Seq(Entry) /\ log' \in Seq(Entry) /\ log' # <<>>
      /\ Len(log') = Len(log) + 1 /\ Len(log) \in Nat \ {0}
      /\ log'[Len(log) + 1] = x
      /\ \A i \in 1..Len(log) : log'[i] = log[i]
  <2>1. log \in Seq(Entry) /\ log # <<>>
    BY <1>t DEF Typed
  <2>2. Len(log) # 0
    BY <2>1
  <2> QED
    BY <1>0, <1>x, <2>1, <2>2, LongerSeq
<1>2. pending \subseteq 1..Len(log) /\ published \subseteq 1..Len(log) /\ channel \in Seq(Nat)
  BY <1>t DEF Typed
<1>3. Typed'
  <2>1. pending' \subseteq 1..Len(log')
    <3>1. \A i \in pending : i \in 1..(Len(log) + 1)
      BY <1>1, <1>2
    <3>2. Len(log) + 1 \in 1..(Len(log) + 1)
      BY <1>1
    <3> QED
      BY <1>0, <1>1, <3>1, <3>2
  <2>2. published' \subseteq 1..Len(log')
    BY <1>0, <1>1, <1>2
  <2> QED
    BY <1>0, <1>1, <1>t, <2>1, <2>2 DEF Typed
<1>4. SourceInv'
  <2>1. RunsWait'
    <3> SUFFICES ASSUME NEW i \in 1..Len(log), i \notin published
                 PROVE  log'[i + 1].status = "queued"
      BY <1>0, <1>1 DEF RunsWait
    <3>1. CASE i = Len(log)
      BY <1>1, <1>x, <3>1 DEF Last
    <3>2. CASE i # Len(log)
      <4>1. i \in 1..(Len(log) - 1) /\ i + 1 \in 1..Len(log)
        BY <1>1, <3>2
      <4> QED
        BY <1>1, <1>t, <4>1 DEF SourceInv, RunsWait
    <3> QED
      BY <3>1, <3>2
  <2>2. CompletedIsLast'
    <3>1. \A i \in 1..Len(log) : log[i].status # "completed"
      BY <1>t DEF SourceInv, CompletedIsLast, Status, Last
    <3> SUFFICES ASSUME NEW i \in 1..(Len(log) + 1), log'[i].status = "completed"
                 PROVE  i = Len(log) + 1
      BY <1>1 DEF CompletedIsLast
    <3> QED
      BY <1>1, <3>1
  <2>3. AnalysisIsValid'
    BY <1>1, <1>x DEF AnalysisIsValid
  <2>4. Published'
    <3>1. Len(log) + 1 \notin published
      BY <1>1, <1>2
    <3>2. Len(log') <= MaxEvents
      BY <1>0, <1>1, EventsAssumption
    <3> QED
      BY <1>0, <1>t, <3>1, <3>2 DEF SourceInv, Published
  <2>5. ChannelOrder'
    <3> SUFFICES ASSUME NEW a \in 1..Len(channel), NEW b \in 1..Len(channel), a < b,
                        channel[b] # 0
                 PROVE  Behind(log', channel[b], channel[a])
      BY <1>0 DEF ChannelOrder
    <3>1. Behind(log, channel[b], channel[a])
      BY <1>t DEF SourceInv, ChannelOrder
    <3>2. channel[a] \in Nat /\ channel[b] \in Nat
      BY <1>2
    <3>3. channel[a] <= Len(log)
      BY <1>1, <1>2, <1>t, <3>2 DEF SourceInv, Published
    <3> QED
      BY <1>0, <1>1, <1>x, <3>1, <3>2, <3>3, BehindStays
  <2> QED
    BY <2>1, <2>2, <2>3, <2>4, <2>5 DEF SourceInv
<1>5. ASSUME NEW s \in Streams PROVE StreamInv(s)'
  <2>1. cursor[s] \in Nat /\ event[s] \in Nat /\ shown[s] \in Seq(Shown)
    BY <1>t DEF Typed
  <2>2. StreamOk(log', channel, pc[s], cursor[s], event[s], shown[s], lagged[s])
    BY <1>0, <1>1, <1>2, <1>x, <1>t, <2>1, LogGrows DEF StreamInv
  <2> QED
    BY <1>0, <2>2 DEF StreamInv
<1>6. HookInv'
  <2>1. \A i \in 1..Len(log) : Told(log', i) = Told(log, i)
    BY <1>1 DEF Told
  <2>2. Len(log) + 1 \in 1..MaxEvents /\ Len(log) + 1 \notin published
    BY <1>0, <1>1, <1>2, EventsAssumption
  <2>3. delivery[Len(log) + 1] = "none"
    BY <1>t, <2>2 DEF HookInv
  <2>4. \A i \in 1..Len(log') : i \in 1..Len(log) \/ i = Len(log) + 1
    BY <1>1
  <2>5. \A i \in 1..Len(log) : i \in 1..Len(log')
    BY <1>1
  <2>6. \A p \in received' : \E i \in 1..Len(log') : p = Told(log', i)
    BY <1>0, <1>t, <2>1, <2>5 DEF HookInv
  <2>7. \A i \in 1..Len(log') : delivery'[i] = "delivered" => Told(log', i) \in received'
    BY <1>0, <1>t, <2>1, <2>3, <2>4 DEF HookInv
  <2> QED
    BY <1>0, <1>t, <2>6, <2>7 DEF HookInv
<1> QED
  BY <1>3, <1>4, <1>5, <1>6 DEF Inv

LEMMA WorkerKeepsInv ==
    ASSUME Inv, CommitAnalyzing \/ CommitFinal \/ \E h \in BOOLEAN : CommitRetry(h)
    PROVE  Inv'
<1>1. log[Last].here \in BOOLEAN
  <2>1. log \in Seq(Entry) /\ log # <<>>
    BY DEF Inv, Typed
  <2>2. log[Len(log)] \in Entry
    BY <2>1
  <2> QED
    BY <2>2 DEF Last, Entry
<1>2. CASE CommitAnalyzing
  BY <1>1, <1>2, CommitKeepsInv DEF CommitAnalyzing, Statuses
<1>3. CASE CommitFinal
  <2>1. CASE \E a \in Analyses : /\ ValidAnalysis(a)
                                 /\ Commit("completed", log[Last].here)
                                 /\ analysis' = a
    BY <1>1, <1>3, <2>1, CommitKeepsInv DEF CommitFinal, Statuses
  <2>2. CASE Commit("failed", log[Last].here)
    BY <1>1, <1>3, <2>2, CommitKeepsInv DEF CommitFinal, Statuses
  <2> QED
    BY <1>3, <2>1, <2>2 DEF CommitFinal
<1>4. CASE \E h \in BOOLEAN : CommitRetry(h)
  BY <1>4, CommitKeepsInv DEF CommitRetry, Statuses
<1> QED
  BY <1>2, <1>3, <1>4

(* What is not yet published is followed by a retry, so it may come late. *)
LEMMA PendingIsBehind ==
    ASSUME Inv, NEW i \in pending, NEW y \in 0..Len(log)
    PROVE  Behind(log, i, y)
<1> SUFFICES ASSUME i < y PROVE \E k \in (i + 1)..y : log[k].status = "queued"
  BY DEF Behind
<1>1. Len(log) \in Nat /\ i \in 1..Len(log) /\ i \notin published
  BY DEF Inv, Typed, SourceInv, Published
<1>2. i \in 1..(Len(log) - 1) /\ i + 1 \in (i + 1)..y
  BY <1>1
<1>3. log[i + 1].status = "queued"
  BY <1>1, <1>2 DEF Inv, SourceInv, RunsWait
<1> QED
  BY <1>2, <1>3

(* The channel takes one more event. *)
LEMMA SentKeepsOrder ==
    ASSUME Inv, NEW x \in Nat, x # 0 => \A y \in 0..Len(log) : Behind(log, x, y),
           log' = log, channel' = Append(channel, x)
    PROVE  /\ channel' \in Seq(Nat)
           /\ ChannelOrder'
           /\ Len(channel') = Len(channel) + 1
           /\ channel'[Len(channel) + 1] = x
           /\ \A k \in 1..Len(channel) : channel'[k] = channel[k]
<1>1. channel \in Seq(Nat) /\ Len(log) \in Nat /\ published \subseteq 1..Len(log)
  BY DEF Inv, Typed
<1>2. /\ channel' \in Seq(Nat) /\ Len(channel') = Len(channel) + 1 /\ Len(channel) \in Nat
      /\ channel'[Len(channel) + 1] = x
      /\ \A k \in 1..Len(channel) : channel'[k] = channel[k]
  BY <1>1, LongerSeq
<1>3. \A a \in 1..Len(channel) : channel[a] \in 0..Len(log)
  <2> SUFFICES ASSUME NEW a \in 1..Len(channel) PROVE channel[a] \in 0..Len(log)
    OBVIOUS
  <2>1. channel[a] \in Nat
    BY <1>1
  <2>2. channel[a] # 0 => channel[a] \in published
    BY DEF Inv, SourceInv, Published
  <2> QED
    BY <1>1, <2>1, <2>2
<1>4. ChannelOrder'
  <2> SUFFICES ASSUME NEW a \in 1..Len(channel'), NEW b \in 1..Len(channel'), a < b,
                      channel'[b] # 0
               PROVE  Behind(log, channel'[b], channel'[a])
    BY DEF ChannelOrder
  <2>0. Len(channel) \in Nat /\ a \in 1..(Len(channel) + 1) /\ b \in 1..(Len(channel) + 1)
    BY <1>2
  <2>1. a \in 1..Len(channel)
    BY <2>0
  <2>2. CASE b = Len(channel) + 1
    BY <1>2, <1>3, <2>1, <2>2
  <2>3. CASE b # Len(channel) + 1
    <3>1. b \in 1..Len(channel)
      BY <2>0, <2>3, LastOrEarlier
    <3> QED
      BY <1>2, <2>1, <3>1 DEF Inv, SourceInv, ChannelOrder
  <2> QED
    BY <2>2, <2>3
<1> QED
  BY <1>2, <1>4

LEMMA PublishEventKeepsInv ==
    ASSUME Inv, NEW i \in pending, PublishEvent(i)
    PROVE  Inv'
<1>0. /\ log' = log /\ analysis' = analysis
      /\ pending' = pending \ {i} /\ published' = published \cup {i}
      /\ channel' = IF log[i].here THEN Append(channel, i) ELSE channel
      /\ delivery' = IF audience = "webhook" THEN [delivery EXCEPT ![i] = "sending"] ELSE delivery
      /\ pc' = pc /\ cursor' = cursor /\ event' = event /\ shown' = shown /\ lagged' = lagged
      /\ received' = received
  BY DEF PublishEvent, streamVars
<1>t. Typed /\ SourceInv /\ HookInv /\ \A s \in Streams : StreamInv(s)
  BY DEF Inv
<1>1. /\ log \in Seq(Entry) /\ i \in 1..Len(log) /\ i \in Nat /\ i # 0 /\ Len(log) <= MaxEvents
      /\ channel \in Seq(Nat) /\ Len(log) \in Nat /\ MaxEvents \in Nat
  BY <1>t, EventsAssumption DEF Typed, SourceInv, Published
<1>2. \A y \in 0..Len(log) : Behind(log, i, y)
  BY PendingIsBehind
<1>3. channel' \in Seq(Nat) /\ ChannelOrder'
  <2>1. CASE log[i].here
    BY <1>0, <1>1, <1>2, <2>1, SentKeepsOrder
  <2>2. CASE ~log[i].here
    BY <1>0, <1>1, <1>t, <2>2 DEF SourceInv, ChannelOrder
  <2> QED
    BY <2>1, <2>2
<1>4. \A k \in 1..Len(channel') : channel'[k] # 0 => channel'[k] \in published'
  <2>1. CASE log[i].here
    <3>1. /\ Len(channel') = Len(channel) + 1 /\ channel'[Len(channel) + 1] = i
          /\ \A k \in 1..Len(channel) : channel'[k] = channel[k]
      BY <1>0, <1>1, <1>2, <2>1, SentKeepsOrder
    <3>2. \A k \in 1..Len(channel') : k = Len(channel) + 1 \/ k \in 1..Len(channel)
      BY <1>1, <3>1, LastOrEarlier
    <3> QED
      BY <1>0, <1>t, <3>1, <3>2 DEF SourceInv, Published
  <2>2. CASE ~log[i].here
    BY <1>0, <1>t, <2>2 DEF SourceInv, Published
  <2> QED
    BY <2>1, <2>2
<1>5. delivery' \in [1..MaxEvents -> Deliveries]
  BY <1>0, <1>t DEF Typed, Deliveries
<1>6. Typed'
  <2>1. published' \subseteq 1..Len(log')
    BY <1>0, <1>1, <1>t DEF Typed
  <2>2. pending' \subseteq 1..Len(log')
    BY <1>0, <1>t DEF Typed
  <2> QED
    BY <1>0, <1>3, <1>5, <1>t, <2>1, <2>2 DEF Typed
<1>7. SourceInv'
  <2>1. RunsWait'
    BY <1>0, <1>t DEF SourceInv, RunsWait
  <2>2. CompletedIsLast' /\ AnalysisIsValid'
    BY <1>0, <1>t DEF SourceInv, CompletedIsLast, AnalysisIsValid
  <2>3. Published'
    BY <1>0, <1>4, <1>t DEF SourceInv, Published
  <2> QED
    BY <1>3, <2>1, <2>2, <2>3 DEF SourceInv
<1>8. ASSUME NEW s \in Streams PROVE StreamInv(s)'
  <2>1. cursor[s] \in Nat /\ event[s] \in Nat /\ shown[s] \in Seq(Shown)
    BY <1>t DEF Typed
  <2>2. StreamOk(log, channel, pc[s], cursor[s], event[s], shown[s], lagged[s])
    BY <1>t DEF StreamInv
  <2>3. StreamOk(log, channel', pc[s], cursor[s], event[s], shown[s], lagged[s])
    BY <1>0, <1>1, <1>2, <2>1, <2>2, ChannelGrows
  <2> QED
    BY <1>0, <2>3 DEF StreamInv
<1>9. HookInv'
  <2>1. \A j \in 1..MaxEvents : j # i => delivery'[j] = delivery[j]
    BY <1>0, <1>t DEF Typed
  <2>2. delivery'[i] # "delivered" \/ delivery' = delivery
    BY <1>0, <1>1, <1>t DEF Typed
  <2>3. \A j \in 1..Len(log) : j \in 1..MaxEvents
    BY <1>1
  <2>4. \A j \in 1..Len(log) : delivery'[j] = "delivered" => delivery[j] = "delivered"
    BY <2>1, <2>2, <2>3
  <2>5. \A j \in 1..MaxEvents : delivery'[j] # "none" => j \in published'
    BY <1>0, <1>t, <2>1 DEF HookInv
  <2> QED
    BY <1>0, <1>t, <2>4, <2>5 DEF HookInv
<1> QED
  BY <1>6, <1>7, <1>8, <1>9 DEF Inv

LEMMA LoseEventKeepsInv ==
    ASSUME Inv, NEW i \in pending, LoseEvent(i)
    PROVE  Inv'
<1>0. /\ log' = log /\ analysis' = analysis /\ pending' = pending \ {i}
      /\ published' = published /\ channel' = channel
      /\ pc' = pc /\ cursor' = cursor /\ event' = event /\ shown' = shown /\ lagged' = lagged
      /\ delivery' = delivery /\ received' = received
  BY DEF LoseEvent, streamVars, hookVars
<1>1. Typed'
  BY <1>0 DEF Inv, Typed
<1>2. SourceInv'
  BY <1>0 DEF Inv, SourceInv, RunsWait, CompletedIsLast, AnalysisIsValid, Published, ChannelOrder
<1>3. (\A s \in Streams : StreamInv(s)') /\ HookInv'
  BY <1>0 DEF Inv, StreamInv, HookInv
<1> QED
  BY <1>1, <1>2, <1>3 DEF Inv

LEMMA PublishOtherKeepsInv ==
    ASSUME Inv, PublishOther
    PROVE  Inv'
<1>0. /\ log' = log /\ analysis' = analysis /\ pending' = pending
      /\ published' = published /\ channel' = Append(channel, 0)
      /\ pc' = pc /\ cursor' = cursor /\ event' = event /\ shown' = shown /\ lagged' = lagged
      /\ delivery' = delivery /\ received' = received
  BY DEF PublishOther, Noise, streamVars, hookVars
<1>t. Typed /\ SourceInv /\ HookInv /\ \A s \in Streams : StreamInv(s)
  BY DEF Inv
<1>1. /\ channel' \in Seq(Nat) /\ ChannelOrder'
      /\ Len(channel') = Len(channel) + 1 /\ channel'[Len(channel) + 1] = 0
      /\ \A k \in 1..Len(channel) : channel'[k] = channel[k]
  BY <1>0, SentKeepsOrder
<1>2. log \in Seq(Entry) /\ channel \in Seq(Nat) /\ Len(channel) \in Nat
  BY <1>t DEF Typed
<1>3. \A k \in 1..Len(channel') : k = Len(channel) + 1 \/ k \in 1..Len(channel)
  BY <1>1, <1>2
<1>4. Typed'
  BY <1>0, <1>1, <1>t DEF Typed
<1>5. SourceInv'
  <2>1. Published'
    BY <1>0, <1>1, <1>3, <1>t DEF SourceInv, Published
  <2>2. RunsWait' /\ CompletedIsLast' /\ AnalysisIsValid'
    BY <1>0, <1>t DEF SourceInv, RunsWait, CompletedIsLast, AnalysisIsValid
  <2> QED
    BY <1>1, <2>1, <2>2 DEF SourceInv
<1>6. ASSUME NEW s \in Streams PROVE StreamInv(s)'
  <2>1. cursor[s] \in Nat /\ event[s] \in Nat /\ shown[s] \in Seq(Shown)
    BY <1>t DEF Typed
  <2>2. StreamOk(log, channel, pc[s], cursor[s], event[s], shown[s], lagged[s])
    BY <1>t DEF StreamInv
  <2>3. StreamOk(log, channel', pc[s], cursor[s], event[s], shown[s], lagged[s])
    BY <1>0, <1>2, <2>1, <2>2, ChannelGrows
  <2> QED
    BY <1>0, <2>3 DEF StreamInv
<1>7. HookInv'
  BY <1>0, <1>t DEF HookInv
<1> QED
  BY <1>4, <1>5, <1>6, <1>7 DEF Inv

Moved(s, p, c, e, sh, lg) ==
    /\ pc' = [pc EXCEPT ![s] = p]
    /\ cursor' = [cursor EXCEPT ![s] = c]
    /\ event' = [event EXCEPT ![s] = e]
    /\ shown' = [shown EXCEPT ![s] = sh]
    /\ lagged' = [lagged EXCEPT ![s] = lg]

(* One stream goes on and nothing else changes. *)
LEMMA StreamMoves ==
    ASSUME Inv, NEW s \in Streams, UNCHANGED <<sourceVars, delivery, received>>,
           NEW p \in StreamPCs, NEW c \in Nat, NEW e \in Nat, NEW sh \in Seq(Shown),
           NEW lg \in BOOLEAN, Moved(s, p, c, e, sh, lg),
           StreamOk(log, channel, p, c, e, sh, lg)
    PROVE  Inv'
<1>0. /\ log' = log /\ analysis' = analysis /\ pending' = pending
      /\ published' = published /\ channel' = channel
      /\ delivery' = delivery /\ received' = received
  BY DEF sourceVars
<1>t. Typed /\ SourceInv /\ HookInv /\ \A t \in Streams : StreamInv(t)
  BY DEF Inv
<1>1. Typed'
  BY <1>0, <1>t DEF Moved, Typed
<1>2. SourceInv'
  BY <1>0, <1>t DEF SourceInv, RunsWait, CompletedIsLast, AnalysisIsValid, Published, ChannelOrder
<1>3. ASSUME NEW t \in Streams PROVE StreamInv(t)'
  <2>1. CASE t = s
    <3>1. pc'[t] = p /\ cursor'[t] = c /\ event'[t] = e /\ shown'[t] = sh /\ lagged'[t] = lg
      BY <1>t, <2>1 DEF Moved, Typed
    <3> QED
      BY <1>0, <3>1 DEF StreamInv
  <2>2. CASE t # s
    <3>1. /\ pc'[t] = pc[t] /\ cursor'[t] = cursor[t] /\ event'[t] = event[t]
          /\ shown'[t] = shown[t] /\ lagged'[t] = lagged[t]
      BY <1>t, <2>2 DEF Moved, Typed
    <3> QED
      BY <1>0, <1>t, <3>1 DEF StreamInv
  <2> QED
    BY <2>1, <2>2
<1>4. HookInv'
  BY <1>0, <1>t DEF HookInv
<1> QED
  BY <1>1, <1>2, <1>3, <1>4 DEF Inv

(* What is known of a stream and its surroundings before it moves. *)
LEMMA StreamFacts ==
    ASSUME Inv, NEW s \in Streams
    PROVE  /\ log \in Seq(Entry) /\ log # <<>> /\ channel \in Seq(Nat)
           /\ pc[s] \in StreamPCs /\ cursor[s] \in Nat /\ event[s] \in Nat
           /\ shown[s] \in Seq(Shown) /\ lagged[s] \in BOOLEAN
           /\ pc = [pc EXCEPT ![s] = pc[s]]
           /\ cursor = [cursor EXCEPT ![s] = cursor[s]]
           /\ event = [event EXCEPT ![s] = event[s]]
           /\ shown = [shown EXCEPT ![s] = shown[s]]
           /\ lagged = [lagged EXCEPT ![s] = lagged[s]]
           /\ StreamOk(log, channel, pc[s], cursor[s], event[s], shown[s], lagged[s])
<1>1. Typed /\ StreamInv(s)
  BY DEF Inv
<1>2. /\ log \in Seq(Entry) /\ log # <<>> /\ channel \in Seq(Nat)
      /\ pc[s] \in StreamPCs /\ cursor[s] \in Nat /\ event[s] \in Nat
      /\ shown[s] \in Seq(Shown) /\ lagged[s] \in BOOLEAN
  BY <1>1 DEF Typed
<1>3. /\ pc = [pc EXCEPT ![s] = pc[s]]
      /\ cursor = [cursor EXCEPT ![s] = cursor[s]]
      /\ event = [event EXCEPT ![s] = event[s]]
      /\ shown = [shown EXCEPT ![s] = shown[s]]
      /\ lagged = [lagged EXCEPT ![s] = lagged[s]]
  BY <1>1 DEF Typed
<1> QED
  BY <1>1, <1>2, <1>3 DEF StreamInv

LEMMA ChannelBounded ==
    ASSUME Inv, NEW k \in 1..Len(channel)
    PROVE  channel[k] \in 0..Len(log)
<1>1. channel[k] \in Nat /\ Len(log) \in Nat
  BY DEF Inv, Typed
<1>2. channel[k] # 0 => channel[k] \in 1..Len(log)
  BY DEF Inv, Typed, SourceInv, Published
<1> QED
  BY <1>1, <1>2

LEMMA EndStreamKeepsInv ==
    ASSUME Inv, NEW s \in Streams, EndStream(s), UNCHANGED <<sourceVars, delivery, received>>
    PROVE  Inv'
<1>1. Moved(s, "closed", 0, 0, <<>>, FALSE)
  BY DEF EndStream, Goto, Moved
<1>2. "closed" \in StreamPCs /\ <<>> \in Seq(Shown)
  BY DEF StreamPCs
<1>3. StreamOk(log, channel, "closed", 0, 0, <<>>, FALSE)
  BY StreamFacts, StreamEnds
<1> QED
  BY <1>1, <1>2, <1>3, StreamMoves

LEMMA ShowKeepsInv ==
    ASSUME Inv, NEW s \in Streams, pc[s] \in {"greeting", "showing"}, Show(s), Goto(s, "open"),
           UNCHANGED <<cursor, event, lagged>>, UNCHANGED <<sourceVars, delivery, received>>
    PROVE  Inv'
<1> DEFINE m == QuoteStatusEvent(event[s], log[event[s]].status, log[Len(log)].status, analysis)
           n == [version |-> Len(log), message |-> m]
<1>f. /\ log \in Seq(Entry) /\ log # <<>> /\ channel \in Seq(Nat)
      /\ cursor[s] \in Nat /\ event[s] \in Nat /\ shown[s] \in Seq(Shown) /\ lagged[s] \in BOOLEAN
      /\ StreamOk(log, channel, pc[s], cursor[s], event[s], shown[s], lagged[s])
  BY StreamFacts
<1>1. shown' = [shown EXCEPT ![s] = Append(shown[s], n)]
  BY DEF Show, Status, Last
<1>2. event[s] \in 1..Len(log)
  BY StreamFacts DEF StreamOk, Shape
<1>3. \A i \in 1..Len(log) : log[i].status = "completed" => i = Len(log)
  BY DEF Inv, SourceInv, CompletedIsLast
<1>4. m \in Message /\ m.sequence = event[s] /\ Agrees(m, Len(log))
  BY <1>2, <1>3, StreamFacts, MessageAgrees
<1>5. \A k \in 1..Len(channel) : channel[k] <= Len(log)
  BY ChannelBounded
<1> HIDE DEF m
<1>6. /\ Append(shown[s], n) \in Seq(Shown)
      /\ StreamOk(log, channel, "open", cursor[s], event[s], Append(shown[s], n), lagged[s])
  BY <1>4, <1>5, <1>f, StreamShows
<1> HIDE DEF n
<1>7. Moved(s, "open", cursor[s], event[s], Append(shown[s], n), lagged[s])
  BY <1>1, StreamFacts DEF Goto, Moved
<1>8. "open" \in StreamPCs
  BY DEF StreamPCs
<1> QED
  BY <1>6, <1>7, <1>8, <1>f, StreamMoves

LEMMA StreamKeepsInv ==
    ASSUME Inv, NEW s \in Streams, Stream(s)
    PROVE  Inv'
<1>u. UNCHANGED <<sourceVars, delivery, received>>
  BY DEF Stream, Connect, ReadLatestEvent, Subscribe, Greet, GreetNobody, Lag, Receive,
         ShowEvent, Disconnect, hookVars
<1>f. /\ log \in Seq(Entry) /\ log # <<>> /\ channel \in Seq(Nat)
      /\ pc[s] \in StreamPCs /\ cursor[s] \in Nat /\ event[s] \in Nat
      /\ shown[s] \in Seq(Shown) /\ lagged[s] \in BOOLEAN
      /\ StreamOk(log, channel, pc[s], cursor[s], event[s], shown[s], lagged[s])
  BY StreamFacts
<1>s. /\ pc = [pc EXCEPT ![s] = pc[s]]
      /\ cursor = [cursor EXCEPT ![s] = cursor[s]]
      /\ event = [event EXCEPT ![s] = event[s]]
      /\ shown = [shown EXCEPT ![s] = shown[s]]
      /\ lagged = [lagged EXCEPT ![s] = lagged[s]]
  BY StreamFacts
<1>p. /\ "reserved" \in StreamPCs /\ "upgrading" \in StreamPCs /\ "greeting" \in StreamPCs
      /\ "open" \in StreamPCs /\ "showing" \in StreamPCs
  BY DEF StreamPCs
<1>l. Len(log) \in Nat /\ Len(channel) \in Nat
  BY <1>f
<1>1. CASE Connect(s)
  <2>1. StreamOk(log, channel, "reserved", cursor[s], event[s], shown[s], lagged[s])
    BY <1>1, <1>f, StreamOpens DEF Connect
  <2>2. Moved(s, "reserved", cursor[s], event[s], shown[s], lagged[s])
    BY <1>1, <1>s DEF Connect, Goto, Moved
  <2> QED
    BY <1>u, <1>f, <1>p, <2>1, <2>2, StreamMoves
<1>2. CASE ReadLatestEvent(s)
  <2>1. StreamOk(log, channel, "upgrading", cursor[s], Len(log), shown[s], lagged[s])
    BY <1>2, <1>f, StreamReads DEF ReadLatestEvent
  <2>2. Moved(s, "upgrading", cursor[s], Len(log), shown[s], lagged[s])
    BY <1>2, <1>s DEF ReadLatestEvent, Goto, Last, Moved
  <2> QED
    BY <1>u, <1>f, <1>p, <1>l, <2>1, <2>2, StreamMoves
<1>3. CASE Subscribe(s)
  <2>1. StreamOk(log, channel, "greeting", Len(channel), event[s], shown[s], lagged[s])
    BY <1>3, <1>f, StreamSubscribes DEF Subscribe
  <2>2. Moved(s, "greeting", Len(channel), event[s], shown[s], lagged[s])
    BY <1>3, <1>s DEF Subscribe, Goto, Moved
  <2> QED
    BY <1>u, <1>f, <1>p, <1>l, <2>1, <2>2, StreamMoves
<1>4. CASE pc[s] = "greeting" /\ Goto(s, "open") /\ UNCHANGED <<cursor, event, shown, lagged>>
  <2>1. StreamOk(log, channel, "open", cursor[s], event[s], shown[s], lagged[s])
    BY <1>4, <1>f, StreamGreetsNobody
  <2>2. Moved(s, "open", cursor[s], event[s], shown[s], lagged[s])
    BY <1>4, <1>s DEF Goto, Moved
  <2> QED
    BY <1>u, <1>f, <1>p, <2>1, <2>2, StreamMoves
<1>5. CASE Greet(s)
  <2>1. pc[s] = "greeting" /\ Goto(s, "open") /\ UNCHANGED <<cursor, event, lagged>>
    BY <1>5 DEF Greet
  <2>2. Show(s) \/ UNCHANGED shown
    BY <1>5 DEF Greet
  <2> QED
    BY <1>4, <1>u, <2>1, <2>2, ShowKeepsInv
<1>6. CASE GreetNobody(s)
  BY <1>4, <1>6 DEF GreetNobody
<1>7. CASE Lag(s)
  <2> DEFINE d == Len(channel) - Capacity
  <2>1. d \in Nat /\ cursor[s] < d /\ d <= Len(channel)
    <3>1. Capacity \in Nat
      BY EventsAssumption
    <3> QED
      BY <1>7, <1>f, <1>l, <3>1 DEF Lag
  <2>2. pc[s] = "open" /\ Moved(s, "open", d, event[s], shown[s], TRUE)
    BY <1>7, <1>s DEF Lag, Moved
  <2> HIDE DEF d
  <2>3. StreamOk(log, channel, "open", d, event[s], shown[s], TRUE)
    BY <1>f, <2>1, <2>2, StreamLags
  <2> QED
    BY <1>u, <1>f, <1>p, <2>1, <2>2, <2>3, StreamMoves
<1>8. CASE Receive(s)
  <2> DEFINE next == channel[cursor[s] + 1]
  <2>1. /\ pc[s] = "open" /\ cursor[s] < Len(channel)
        /\ cursor' = [cursor EXCEPT ![s] = cursor[s] + 1] /\ UNCHANGED <<shown, lagged>>
    BY <1>8 DEF Receive
  <2>2. cursor[s] + 1 \in 1..Len(channel) /\ cursor[s] + 1 \in Nat
    BY <1>f, <1>l, <2>1
  <2>3. CASE next = 0
    <3>1. StreamOk(log, channel, "open", cursor[s] + 1, event[s], shown[s], lagged[s])
      BY <1>f, <2>1, <2>3, StreamSkips
    <3>2. Moved(s, "open", cursor[s] + 1, event[s], shown[s], lagged[s])
      BY <1>8, <1>s, <2>1, <2>3 DEF Receive, Noise, Moved
    <3> QED
      BY <1>u, <1>f, <1>p, <2>2, <3>1, <3>2, StreamMoves
  <2>4. CASE next # 0
    <3>1. next \in 1..Len(log)
      BY <1>l, <2>2, <2>4, ChannelBounded
    <3>2. \A b \in 1..Len(channel) :
             cursor[s] + 1 < b /\ channel[b] # 0 => Behind(log, channel[b], next)
      BY <2>2 DEF Inv, SourceInv, ChannelOrder
    <3>3. StreamOk(log, channel, "showing", cursor[s] + 1, next, shown[s], lagged[s])
      BY <1>f, <2>1, <3>1, <3>2, StreamTakes
    <3>4. Moved(s, "showing", cursor[s] + 1, next, shown[s], lagged[s])
      BY <1>8, <1>s, <2>1, <2>4 DEF Receive, Noise, Goto, Moved
    <3>5. next \in Nat
      BY <3>1
    <3> QED
      BY <1>u, <1>f, <1>p, <2>2, <3>3, <3>4, <3>5, StreamMoves
  <2> QED
    BY <2>3, <2>4
<1>9. CASE ShowEvent(s)
  <2>1. \/ Show(s) /\ Goto(s, "open") /\ UNCHANGED <<cursor, event, lagged>>
        \/ EndStream(s)
    BY <1>9 DEF ShowEvent
  <2>2. pc[s] = "showing"
    BY <1>9 DEF ShowEvent
  <2> QED
    BY <1>u, <2>1, <2>2, ShowKeepsInv, EndStreamKeepsInv
<1>10. CASE Disconnect(s)
  BY <1>u, <1>10, EndStreamKeepsInv DEF Disconnect
<1> QED
  BY <1>1, <1>2, <1>3, <1>5, <1>6, <1>7, <1>8, <1>9, <1>10 DEF Stream

LEMMA AttemptKeepsInv ==
    ASSUME Inv, NEW i \in published, NEW arrived \in BOOLEAN, NEW next \in Deliveries, NEW n,
           Attempt(i, arrived, next, n), next = "delivered" => arrived
    PROVE  Inv'
<1>0. /\ log' = log /\ analysis' = analysis /\ pending' = pending
      /\ published' = published /\ channel' = channel
      /\ pc' = pc /\ cursor' = cursor /\ event' = event /\ shown' = shown /\ lagged' = lagged
      /\ delivery' = [delivery EXCEPT ![i] = next]
      /\ received' = IF arrived THEN received \cup {Told(log, i)} ELSE received
  BY DEF Attempt, Payload, Told, sourceVars, streamVars
<1>t. Typed /\ SourceInv /\ HookInv /\ \A s \in Streams : StreamInv(s)
  BY DEF Inv
<1>1. Typed'
  <2>1. delivery' \in [1..MaxEvents -> Deliveries]
    BY <1>0, <1>t DEF Typed
  <2> QED
    BY <1>0, <1>t, <2>1 DEF Typed
<1>2. SourceInv'
  BY <1>0, <1>t DEF SourceInv, RunsWait, CompletedIsLast, AnalysisIsValid, Published, ChannelOrder
<1>3. \A s \in Streams : StreamInv(s)'
  BY <1>0, <1>t DEF StreamInv
<1>4. HookInv'
  <2>1. i \in 1..Len(log)
    BY <1>t DEF Typed
  <2>2. \A j \in 1..Len(log) : j \in 1..MaxEvents
    BY <1>t, EventsAssumption DEF SourceInv, Published, Typed
  <2>3. delivery'[i] = next /\ \A j \in 1..MaxEvents : j # i => delivery'[j] = delivery[j]
    BY <1>0, <1>t, <2>1, <2>2 DEF Typed
  <2>4. \A p \in received' : \E j \in 1..Len(log') : p = Told(log', j)
    BY <1>0, <1>t, <2>1 DEF HookInv
  <2>5. \A j \in 1..Len(log') : delivery'[j] = "delivered" => Told(log', j) \in received'
    BY <1>0, <1>t, <2>2, <2>3 DEF HookInv
  <2>6. \A j \in 1..MaxEvents : delivery'[j] # "none" => j \in published'
    BY <1>0, <1>t, <2>3 DEF HookInv
  <2> QED
    BY <2>4, <2>5, <2>6 DEF HookInv
<1> QED
  BY <1>1, <1>2, <1>3, <1>4 DEF Inv

LEMMA NextKeepsInv == Inv /\ [Next]_vars => Inv'
<1> SUFFICES ASSUME Inv, [Next]_vars PROVE Inv'
  OBVIOUS
<1>1. CASE Source
  BY <1>1, WorkerKeepsInv, PublishEventKeepsInv, LoseEventKeepsInv, PublishOtherKeepsInv
     DEF Source
<1>2. CASE \E s \in Streams : Stream(s)
  BY <1>2, StreamKeepsInv
<1>3. CASE \E i \in published : Deliver(i)
  <2> PICK i \in published : Deliver(i)
    BY <1>3
  <2>1. {"sending", "delivered", "rejected", "unavailable"} \subseteq Deliveries
    BY DEF Deliveries
  <2>2. CASE Accepted(i)
    BY <2>1, <2>2, AttemptKeepsInv DEF Accepted
  <2>3. CASE Rejected(i)
    BY <2>1, <2>3, AttemptKeepsInv DEF Rejected
  <2>4. CASE Again(i)
    BY <2>1, <2>4, AttemptKeepsInv DEF Again
  <2>5. CASE GiveUp(i)
    BY <2>1, <2>5, AttemptKeepsInv DEF GiveUp
  <2> QED
    BY <2>2, <2>3, <2>4, <2>5 DEF Deliver
<1>4. CASE UNCHANGED vars
  <2>0. /\ log' = log /\ analysis' = analysis /\ pending' = pending
        /\ published' = published /\ channel' = channel
        /\ pc' = pc /\ cursor' = cursor /\ event' = event /\ shown' = shown /\ lagged' = lagged
        /\ delivery' = delivery /\ received' = received
    BY <1>4 DEF vars
  <2>1. Typed' /\ HookInv' /\ \A s \in Streams : StreamInv(s)'
    BY <2>0 DEF Inv, Typed, HookInv, StreamInv
  <2>2. SourceInv'
    BY <2>0 DEF Inv, SourceInv, RunsWait, CompletedIsLast, AnalysisIsValid, Published, ChannelOrder
  <2> QED
    BY <2>1, <2>2 DEF Inv
<1> QED
  BY <1>1, <1>2, <1>3, <1>4 DEF Next

LEMMA InvHolds == Spec => []Inv
  BY InitInv, NextKeepsInv, PTL DEF Spec

-----------------------------------------------------------------------------
(* A stream that has taken everything and was not overtaken shows the      *)
(* record as it is, but for events that never came to its channel          *)
(* (stream_quote_events).                                                  *)
THEOREM StreamsCatchUp == Spec => []CaughtUpStreamsAreCurrent
<1>1. Inv => CaughtUpStreamsAreCurrent
  <2> SUFFICES ASSUME Inv, NEW s \in Streams, pc[s] = "open", cursor[s] = Len(channel),
                      ~lagged[s], shown[s] # <<>>,
                      NEW i \in (Version(s) + 1)..Last, i \in Heard
               PROVE  FALSE
    BY DEF CaughtUpStreamsAreCurrent
  <2>1. PICK k \in 1..Len(channel) : channel[k] = i
    BY DEF Heard, Inv, Typed
  <2>2. channel[k] <= Version(s)
    BY DEF Inv, StreamInv, StreamOk, Current, Version
  <2>3. Version(s) \in Nat
    <3>1. shown[s] \in Seq(Shown) /\ shown[s] # <<>>
      BY DEF Inv, Typed
    <3>2. shown[s][Len(shown[s])] \in Shown
      BY <3>1
    <3> QED
      BY <3>2 DEF Version, Shown
  <2> QED
    BY <2>1, <2>2, <2>3
<1> QED
  BY <1>1, InvHolds, PTL

(* No client sees a run of the analysis go back, whichever way             *)
(* publications of handlers and workers overlap (publish_event).           *)
THEOREM RunsAreSeenInOrder == Spec => []OrderWithinRun
<1>1. Inv => OrderWithinRun
  <2> SUFFICES ASSUME Inv, NEW s \in Streams, NEW i \in DOMAIN shown[s], NEW j \in DOMAIN shown[s],
                      i < j, shown[s][j].message.sequence < shown[s][i].message.sequence
               PROVE  Retried(shown[s][j].message.sequence, shown[s][i].message.sequence)
    BY DEF OrderWithinRun
  <2>1. i \in 1..Len(shown[s]) /\ j \in 1..Len(shown[s])
    BY DEF Inv, Typed
  <2>2. Behind(log, shown[s][j].message.sequence, shown[s][i].message.sequence)
    BY <2>1 DEF Inv, StreamInv, StreamOk, InOrder
  <2> QED
    BY <2>2 DEF Behind, Retried
<1> QED
  BY <1>1, InvHolds, PTL

(* A message never contradicts itself, though its stage and its estimate   *)
(* come from two reads (quote_status_event).                               *)
THEOREM MessagesAlwaysAgree == Spec => []MessagesAgree
<1>1. Inv => MessagesAgree
  <2> SUFFICES ASSUME Inv, NEW s \in Streams, NEW i \in DOMAIN shown[s]
               PROVE  Agrees(shown[s][i].message, shown[s][i].version)
    BY DEF MessagesAgree, Agrees
  <2>1. i \in 1..Len(shown[s])
    BY DEF Inv, Typed
  <2> QED
    BY <2>1 DEF Inv, StreamInv, StreamOk, Shape
<1> QED
  BY <1>1, InvHolds, PTL

(* Of all that quote_estimate asks for, only the widths and the texts of   *)
(* lists can be missing in an analysis that validate_analysis let pass.    *)
THEOREM UnreadableHasCause == Spec => []UnreadableNeedsCause
<1>1. Inv => UnreadableNeedsCause
  <2> SUFFICES ASSUME Inv, Status = "completed",
                      \A f \in Fees : CentsFit(analysis[f]),
                      \A f \in Weeks : ~(analysis[f] > MaxI64),
                      \A f \in TextLists : \A item \in analysis[f] : Text(item)
               PROVE  Estimable(analysis)
    BY DEF UnreadableNeedsCause, Readable
  <2>1. analysis \in Analyses /\ ValidAnalysis(analysis)
    BY DEF Inv, SourceInv, AnalysisIsValid, Status, Last
  <2>2. \A f \in Fees \cup Weeks : U64(analysis[f]) /\ analysis[f] \in Nat
    BY <2>1, EventsAssumption DEF ValidAnalysis, U64
  <2>3. \A f \in Weeks : IntegerFits(analysis[f])
    BY <2>2, ViewAssumption DEF IntegerFits
  <2>4. \A f \in TextLists : Strings(analysis[f])
    BY <2>1 DEF ValidAnalysis, Strings
  <2>5. analysis.estimated_total_weeks_low >= 1
    BY <2>1, <2>2 DEF ValidAnalysis, Weeks
  <2> QED
    BY <2>1, <2>3, <2>4, <2>5 DEF ValidAnalysis, Estimable
<1> QED
  BY <1>1, InvHolds, PTL

(* Whatever is repeated or overtaken, a receiver that keeps the highest    *)
(* sequence ends with the quote's status (WebhookDispatcher::dispatch).    *)
THEOREM ReceiversAlwaysConverge == Spec => []ReceiversConverge
<1>1. Inv => ReceiversConverge
  <2> SUFFICES ASSUME Inv, \A i \in 1..Last : delivery[i] = "delivered",
                      NEW p \in received, \A q \in received : q.sequence <= p.sequence
               PROVE  p.status = PublicStatus(Status)
    BY DEF ReceiversConverge
  <2>1. Len(log) \in Nat \ {0}
    BY DEF Inv, Typed
  <2>2. Told(log, Len(log)) \in received
    BY <2>1 DEF Inv, HookInv, Last
  <2>3. PICK i \in 1..Len(log) : p = Told(log, i)
    BY DEF Inv, HookInv
  <2>4. Len(log) <= i
    BY <2>2, <2>3 DEF Told
  <2>5. i = Len(log)
    BY <2>1, <2>4
  <2> QED
    BY <2>3, <2>5 DEF Told, Status, Last
<1> QED
  BY <1>1, InvHolds, PTL

(* A client that reads the list (list_quotes) changes nothing of what      *)
(* streams and receivers are told: with it, the theorems above hold too.   *)
THEOREM ReadsChangeNothing == ReadsSpec => Spec
<1>1. ReadsInit => Init
  BY DEF ReadsInit
<1>2. [ReadsNext]_<<vars, readVars>> => [Next]_vars
  BY DEF ReadsNext, Read
<1> QED
  BY <1>1, <1>2, PTL DEF ReadsSpec, Spec

-----------------------------------------------------------------------------
(* The list of quotes *)

Newer(c, p, q) == c[p] > c[q] \/ (c[p] = c[q] /\ p > q)

RowsAhead(c, S, q) == {p \in S : Newer(c, p, q)}

FirstRows(c, S, n) == {q \in S : Cardinality(RowsAhead(c, S, q)) < n}

(* Finitely many rows with a time each. *)
Rowset(c, S) == S \subseteq Nat /\ IsFiniteSet(S) /\ \A q \in S : c[q] \in Int

(* A non-empty set of naturals has a least element. *)
LEMMA LeastNatural ==
    ASSUME NEW S, S \subseteq Nat, S # {}
    PROVE  \E i \in S : \A j \in S : i <= j
<1>1. \E i \in S : \A j \in S : <<j, i>> \notin OpToRel(<, Nat)
  BY NatLessThanWellFounded, WFMin, Zenon
<1>2. \A i, j \in Nat : <<j, i>> \in OpToRel(<, Nat) <=> j < i
  BY DEF OpToRel
<1>3. \E i \in S : \A j \in S : ~(j < i)
  BY <1>1, <1>2
<1> QED
  BY <1>3

(* created_at, then id: a strict total order. *)
LEMMA NewerOrder ==
    ASSUME NEW c, NEW S, Rowset(c, S), NEW p \in S, NEW q \in S, NEW r \in S
    PROVE  /\ ~Newer(c, q, q)
           /\ Newer(c, p, q) /\ Newer(c, q, r) => Newer(c, p, r)
           /\ p = q \/ Newer(c, p, q) \/ Newer(c, q, p)
           /\ ~(Newer(c, p, q) /\ Newer(c, q, p))
<1>1. p \in Nat /\ q \in Nat /\ r \in Nat /\ c[p] \in Int /\ c[q] \in Int /\ c[r] \in Int
  BY DEF Rowset
<1> QED
  BY <1>1 DEF Newer

LEMMA RowsAheadCount ==
    ASSUME NEW c, NEW S, Rowset(c, S), NEW q
    PROVE  IsFiniteSet(RowsAhead(c, S, q)) /\ Cardinality(RowsAhead(c, S, q)) \in Nat
<1>1. RowsAhead(c, S, q) \in SUBSET S /\ IsFiniteSet(S)
  BY DEF RowsAhead, Rowset
<1>2. IsFiniteSet(RowsAhead(c, S, q))
  BY <1>1, FS_Subset
<1> QED
  BY <1>2, FS_CardinalityType

(* A newer row has fewer rows ahead of it. *)
LEMMA NewerFewer ==
    ASSUME NEW c, NEW S, Rowset(c, S), NEW p \in S, NEW q \in S, Newer(c, p, q)
    PROVE  Cardinality(RowsAhead(c, S, p)) < Cardinality(RowsAhead(c, S, q))
<1> DEFINE A == RowsAhead(c, S, p)
           B == RowsAhead(c, S, q)
<1>1. IsFiniteSet(A) /\ IsFiniteSet(B) /\ Cardinality(A) \in Nat /\ Cardinality(B) \in Nat
  BY RowsAheadCount
<1>2. A \in SUBSET B
  BY NewerOrder DEF RowsAhead
<1>3. p \notin A /\ p \in B
  BY NewerOrder DEF RowsAhead
<1> HIDE DEF A, B
<1>4. Cardinality(A) <= Cardinality(B) /\ Cardinality(A) # Cardinality(B)
  BY <1>1, <1>2, <1>3, FS_Subset
<1> QED
  BY <1>1, <1>4 DEF A, B

(* Among some of the rows there is a newest ... *)
LEMMA NewestRow ==
    ASSUME NEW c, NEW S, Rowset(c, S), NEW T, T \subseteq S, T # {}
    PROVE  \E q \in T : \A p \in T \ {q} : Newer(c, q, p)
<1> DEFINE N == {Cardinality(RowsAhead(c, S, q)) : q \in T}
<1>1. N \subseteq Nat /\ N # {}
  BY RowsAheadCount
<1>2. PICK i \in N : \A j \in N : i <= j
  BY <1>1, LeastNatural
<1>3. PICK q \in T : i = Cardinality(RowsAhead(c, S, q))
  BY <1>2
<1>4. ASSUME NEW p \in T, p # q PROVE Newer(c, q, p)
  <2>1. i <= Cardinality(RowsAhead(c, S, p)) /\ Cardinality(RowsAhead(c, S, p)) \in Nat /\ i \in Nat
    BY <1>1, <1>2
  <2>2. ~Newer(c, p, q)
    BY <1>3, <2>1, NewerFewer
  <2> QED
    BY <1>4, <2>2, NewerOrder
<1> QED
  BY <1>4

(* ... and an oldest one. *)
LEMMA OldestRow ==
    ASSUME NEW c, NEW S, Rowset(c, S), NEW T, T \subseteq S, T # {}
    PROVE  \E q \in T : \A p \in T \ {q} : Newer(c, p, q)
<1> DEFINE n == Cardinality(S)
           Count(q) == Cardinality(RowsAhead(c, S, q))
           N == {n - Count(q) : q \in T}
<1>1. n \in Nat /\ \A q \in T : Count(q) \in Nat /\ Count(q) <= n
  <2>1. IsFiniteSet(S)
    BY DEF Rowset
  <2>2. \A q \in T : RowsAhead(c, S, q) \in SUBSET S
    BY DEF RowsAhead
  <2> QED
    BY <2>1, <2>2, RowsAheadCount, FS_Subset, FS_CardinalityType
<1> HIDE DEF n, Count
<1>2. N \subseteq Nat /\ N # {}
  BY <1>1
<1>3. PICK i \in N : \A j \in N : i <= j
  BY <1>2, LeastNatural
<1>4. PICK q \in T : i = n - Count(q)
  BY <1>3
<1>5. ASSUME NEW p \in T, p # q PROVE Newer(c, p, q)
  <2>1. n - Count(q) <= n - Count(p)
    BY <1>3, <1>4
  <2>2. ~(Count(q) < Count(p))
    BY <1>1, <2>1
  <2>3. ~Newer(c, q, p)
    BY <2>2, NewerFewer DEF Count
  <2> QED
    BY <1>5, <2>3, NewerOrder
<1> QED
  BY <1>5

(* LIMIT keeps the newest rows: what it leaves out is older. *)
LEMMA FirstRowsAhead ==
    ASSUME NEW c, NEW S, Rowset(c, S), NEW n \in Nat,
           NEW p \in FirstRows(c, S, n), NEW q \in S, q \notin FirstRows(c, S, n)
    PROVE  Newer(c, p, q)
<1>1. p \in S /\ p # q
  BY DEF FirstRows
<1>2. Cardinality(RowsAhead(c, S, p)) < n /\ ~(Cardinality(RowsAhead(c, S, q)) < n)
  BY DEF FirstRows
<1>3. ~Newer(c, q, p)
  <2>1. Cardinality(RowsAhead(c, S, p)) \in Nat /\ Cardinality(RowsAhead(c, S, q)) \in Nat
    BY RowsAheadCount
  <2> QED
    BY <1>1, <1>2, <2>1, NewerFewer
<1> QED
  BY <1>1, <1>3, NewerOrder

(* A limit of one or more finds a row if there is one. *)
LEMMA FirstRowsFound ==
    ASSUME NEW c, NEW S, Rowset(c, S), NEW n \in Nat \ {0}, S # {}
    PROVE  FirstRows(c, S, n) # {}
<1>1. PICK q \in S : \A p \in S \ {q} : Newer(c, q, p)
  BY NewestRow
<1>2. RowsAhead(c, S, q) = {}
  BY <1>1, NewerOrder DEF RowsAhead
<1> QED
  BY <1>2, FS_EmptySet DEF FirstRows

(* A limit that is not reached leaves nothing out. *)
LEMMA FirstRowsAll ==
    ASSUME NEW c, NEW S, Rowset(c, S), NEW n \in Nat,
           Cardinality(FirstRows(c, S, n)) < n
    PROVE  FirstRows(c, S, n) = S
<1> DEFINE F == FirstRows(c, S, n)
<1>1. F \subseteq S
  BY DEF FirstRows
<1> SUFFICES ASSUME S \ F # {} PROVE FALSE
  BY <1>1
<1>2. PICK q \in S \ F : \A p \in (S \ F) \ {q} : Newer(c, q, p)
  BY NewestRow
<1>3. RowsAhead(c, S, q) \in SUBSET F
  <2> SUFFICES ASSUME NEW p \in S, Newer(c, p, q), p \notin F PROVE FALSE
    BY DEF RowsAhead
  <2> QED
    BY <1>2, NewerOrder
<1>4. IsFiniteSet(F) /\ Cardinality(F) \in Nat
  BY <1>1, FS_Subset, FS_CardinalityType DEF Rowset
<1>5. Cardinality(RowsAhead(c, S, q)) <= Cardinality(F) /\ Cardinality(RowsAhead(c, S, q)) \in Nat
  BY <1>3, <1>4, RowsAheadCount, FS_Subset
<1>6. Cardinality(RowsAhead(c, S, q)) < n
  BY <1>4, <1>5
<1> QED
  BY <1>2, <1>6 DEF FirstRows

(* A limit as large as the set leaves nothing out. *)
LEMMA FirstRowsWhole ==
    ASSUME NEW c, NEW S, Rowset(c, S), NEW n \in Nat, Cardinality(S) <= n
    PROVE  FirstRows(c, S, n) = S
<1> SUFFICES ASSUME NEW q \in S PROVE Cardinality(RowsAhead(c, S, q)) < n
  BY DEF FirstRows
<1>1. IsFiniteSet(S) /\ Cardinality(S) \in Nat
  BY FS_CardinalityType DEF Rowset
<1>2. RowsAhead(c, S, q) \in SUBSET S /\ RowsAhead(c, S, q) # S
  BY NewerOrder DEF RowsAhead
<1>3. /\ Cardinality(RowsAhead(c, S, q)) <= Cardinality(S)
      /\ Cardinality(RowsAhead(c, S, q)) # Cardinality(S)
  BY <1>1, <1>2, FS_Subset
<1> QED
  BY <1>1, <1>3, RowsAheadCount

LEMMA RowsetSubset ==
    ASSUME NEW c, NEW S, Rowset(c, S), NEW T, T \subseteq S PROVE Rowset(c, T)
<1>1. IsFiniteSet(T)
  BY FS_Subset DEF Rowset
<1> QED
  BY <1>1 DEF Rowset

(* A page is the newest rows of those asked for; it is all of them when no *)
(* extra row was read, and otherwise has an oldest row.                    *)
LEMMA PageOfRows ==
    ASSUME NEW c, NEW R, Rowset(c, R), NEW n \in Nat \ {0}, NEW F, NEW P,
           F = FirstRows(c, R, n + 1), P = FirstRows(c, F, n)
    PROVE  /\ P \subseteq R
           /\ \A p \in P, q \in R \ P : Newer(c, p, q)
           /\ ~(Cardinality(F) > n) => P = R
           /\ Cardinality(F) > n => \E q \in P : \A p \in P \ {q} : Newer(c, p, q)
<1>1. F \subseteq R /\ P \subseteq F
  BY DEF FirstRows
<1>2. Rowset(c, F)
  BY <1>1, RowsetSubset
<1>3. Rowset(c, P)
  BY <1>1, <1>2, RowsetSubset
<1>4. IsFiniteSet(F) /\ Cardinality(F) \in Nat /\ n \in Nat /\ n + 1 \in Nat
  BY <1>2, FS_CardinalityType DEF Rowset
<1>5. ASSUME NEW p \in P, NEW q \in R, q \notin P PROVE Newer(c, p, q)
  <2>1. CASE q \in F
    BY <1>2, <1>4, <1>5, <2>1, FirstRowsAhead
  <2>2. CASE q \notin F
    BY <1>1, <1>4, <1>5, <2>2, FirstRowsAhead
  <2> QED
    BY <2>1, <2>2
<1>6. ASSUME ~(Cardinality(F) > n) PROVE P = R
  <2>1. Cardinality(F) <= n /\ Cardinality(F) < n + 1
    BY <1>4, <1>6
  <2>2. F = R
    BY <1>4, <2>1, FirstRowsAll
  <2>3. P = F
    BY <1>2, <1>4, <2>1, FirstRowsWhole
  <2> QED
    BY <2>2, <2>3
<1>7. ASSUME Cardinality(F) > n PROVE \E q \in P : \A p \in P \ {q} : Newer(c, p, q)
  <2>1. F # {}
    BY <1>4, <1>7, FS_EmptySet
  <2>2. P # {}
    BY <1>2, <2>1, FirstRowsFound
  <2> QED
    BY <1>3, <2>2, OldestRow
<1> QED
  BY <1>1, <1>5, <1>6, <1>7

-----------------------------------------------------------------------------
(* The walk over the pages *)

(* The quotes that exist, with their times; none is ever taken back. *)
TableOk(c, v) ==
    /\ c \in [Quotes -> Int]
    /\ v \subseteq Quotes
    /\ \A q \in v : c[q] # Absent

(* The pages so far, and what is still to come: the subject's first quotes *)
(* are listed already or come after the cursor.                            *)
WalkOk(w, c, v) ==
    /\ w.pages \in Seq(SUBSET v)
    /\ w.began \subseteq v
    /\ w.cursor \in v \cup {NoCursor}
    /\ IF w.pages = <<>>
       THEN w.cursor = NoCursor /\ w.subject = Nobody
       ELSE w.subject # Nobody
    /\ \A q \in w.began : OwnerOf[q] = w.subject
    /\ \A i \in 1..Len(w.pages) : \A q \in w.pages[i] :
          /\ OwnerOf[q] = w.subject
          /\ w.cursor # NoCursor => q = w.cursor \/ Newer(c, q, w.cursor)
    /\ \A i, j \in 1..Len(w.pages) : i < j =>
          \A p \in w.pages[i], q \in w.pages[j] : Newer(c, p, q)
    /\ w.pages # <<>> =>
          \A q \in w.began :
             \/ \E i \in 1..Len(w.pages) : q \in w.pages[i]
             \/ w.cursor # NoCursor /\ Newer(c, w.cursor, q)

WalkInv ==
    /\ clock \in Nat
    /\ TableOk(created, visible)
    /\ WalkOk(walk, created, visible)

LEMMA TableRows ==
    ASSUME NEW c, NEW v, TableOk(c, v), NEW S, S \subseteq v PROVE Rowset(c, S)
<1>1. IsFiniteSet(S)
  BY ReadsAssumption, FS_Subset DEF TableOk
<1>2. Quotes \subseteq Nat
  BY ReadsAssumption
<1> QED
  BY <1>1, <1>2 DEF TableOk, Rowset

(* Times of existing quotes do not change and no quote disappears. *)
LEMMA WalkOkGrows ==
    ASSUME NEW w, NEW c, NEW v, WalkOk(w, c, v), NEW d, NEW u, v \subseteq u,
           \A q \in v : d[q] = c[q]
    PROVE  WalkOk(w, d, u)
<1> DEFINE n == Len(w.pages)
<1>1. w.pages \in Seq(SUBSET u) /\ \A i \in 1..n : w.pages[i] \subseteq v
  BY DEF WalkOk
<1>2. w.began \subseteq v /\ w.cursor \in v \cup {NoCursor}
  BY DEF WalkOk
<1>3. \A p, q \in v : Newer(d, p, q) <=> Newer(c, p, q)
  BY DEF Newer
<1> HIDE DEF n
<1>4. \A i \in 1..n : \A q \in w.pages[i] :
          /\ OwnerOf[q] = w.subject
          /\ w.cursor # NoCursor => q = w.cursor \/ Newer(d, q, w.cursor)
  BY <1>1, <1>2, <1>3 DEF WalkOk, n
<1>5. \A i, j \in 1..n : i < j => \A p \in w.pages[i], q \in w.pages[j] : Newer(d, p, q)
  BY <1>1, <1>3 DEF WalkOk, n
<1>6. w.pages # <<>> =>
          \A q \in w.began :
             \/ \E i \in 1..n : q \in w.pages[i]
             \/ w.cursor # NoCursor /\ Newer(d, w.cursor, q)
  BY <1>2, <1>3 DEF WalkOk, n
<1> QED
  BY <1>1, <1>2, <1>4, <1>5, <1>6 DEF WalkOk, n

(* One more page. *)
LEMMA WalkOkPage ==
    ASSUME NEW c, NEW v, TableOk(c, v), NEW w, WalkOk(w, c, v),
           NEW subject, subject # Nobody, w.subject \in {Nobody, subject},
           ~(w.pages # <<>> /\ w.cursor = NoCursor),
           NEW n \in Nat \ {0}, NEW R, NEW F, NEW P, NEW at, NEW began,
           \A q : q \in R <=> /\ q \in v /\ OwnerOf[q] = subject
                              /\ w.cursor = NoCursor \/ Newer(c, w.cursor, q),
           F = FirstRows(c, R, n + 1), P = FirstRows(c, F, n),
           (Cardinality(F) > n /\ \E q \in P : \A p \in P \ {q} : Newer(c, p, q))
              => at \in P /\ \A p \in P \ {at} : Newer(c, p, at),
           ~(Cardinality(F) > n) => at = NoCursor,
           began = (IF w.pages = <<>> THEN {q \in v : OwnerOf[q] = subject} ELSE w.began)
    PROVE  WalkOk([subject |-> subject, cursor |-> at,
                   pages |-> Append(w.pages, P), began |-> began], c, v)
<1> DEFINE h == w.pages
           m == Len(h)
           g == Append(h, P)
<1>1. R \subseteq v /\ Rowset(c, R) /\ Rowset(c, v)
  BY TableRows
<1>2. /\ P \subseteq R
      /\ \A p \in P, q \in R \ P : Newer(c, p, q)
      /\ ~(Cardinality(F) > n) => P = R
      /\ Cardinality(F) > n => \E q \in P : \A p \in P \ {q} : Newer(c, p, q)
  BY <1>1, PageOfRows
<1>3. NoCursor \notin v
  BY ReadsAssumption DEF TableOk, NoCursor
<1>4. /\ at # NoCursor => at \in P /\ \A p \in P \ {at} : Newer(c, p, at)
      /\ at = NoCursor => P = R
  <2>1. CASE Cardinality(F) > n
    <3>1. at \in P /\ \A p \in P \ {at} : Newer(c, p, at)
      BY <1>2, <2>1
    <3> QED
      BY <1>1, <1>2, <1>3, <3>1
  <2>2. CASE ~(Cardinality(F) > n)
    BY <1>2, <2>2
  <2> QED
    BY <2>1, <2>2
<1>5. h \in Seq(SUBSET v) /\ m \in Nat /\ P \in SUBSET v
  <2>1. h \in Seq(SUBSET v)
    BY DEF WalkOk
  <2>2. P \in SUBSET v
    BY <1>1, <1>2
  <2> HIDE DEF h
  <2> QED
    BY <2>1, <2>2
<1>6. /\ g \in Seq(SUBSET v) /\ Len(g) = m + 1 /\ g[m + 1] = P /\ g # <<>>
      /\ \A i \in 1..m : g[i] = h[i]
  <2> HIDE DEF h
  <2> QED
    BY <1>5
<1>7. \A i \in 1..(m + 1) : i \in 1..m \/ i = m + 1
  BY <1>5
<1>8. /\ \A i \in 1..m : h[i] \subseteq v
      /\ h = <<>> => m = 0
      /\ m = 0 => \A i \in 1..m : FALSE
  BY <1>5
<1>9. h # <<>> => w.subject = subject /\ w.cursor # NoCursor /\ w.cursor \in v
  BY DEF WalkOk
<1>10. h = <<>> => w.cursor = NoCursor
  BY DEF WalkOk
<1>11. /\ \A i \in 1..m : \A q \in h[i] : OwnerOf[q] = w.subject
       /\ \A i \in 1..m : \A q \in h[i] :
             w.cursor # NoCursor => q = w.cursor \/ Newer(c, q, w.cursor)
       /\ \A i, j \in 1..m : i < j => \A p \in h[i], q \in h[j] : Newer(c, p, q)
       /\ w.began \subseteq v /\ \A q \in w.began : OwnerOf[q] = w.subject
       /\ h # <<>> => \A q \in w.began :
             \/ \E i \in 1..m : q \in h[i]
             \/ w.cursor # NoCursor /\ Newer(c, w.cursor, q)
  BY DEF WalkOk
<1> HIDE DEF g, m, h
<1>12. \A i \in 1..m : h # <<>>
  BY <1>8
<1>13. \A i \in 1..m : \A p \in h[i], q \in P : Newer(c, p, q)
  <2> SUFFICES ASSUME NEW i \in 1..m, NEW p \in h[i], NEW q \in P PROVE Newer(c, p, q)
    OBVIOUS
  <2>1. w.cursor # NoCursor /\ w.cursor \in v /\ p \in v /\ q \in v
    BY <1>1, <1>2, <1>8, <1>9, <1>12
  <2>2. Newer(c, w.cursor, q)
    BY <1>2, <2>1
  <2>3. p = w.cursor \/ Newer(c, p, w.cursor)
    BY <1>11, <2>1
  <2> QED
    BY <1>1, <2>1, <2>2, <2>3, NewerOrder
<1>14. \A i, j \in 1..(m + 1) : i < j => \A p \in g[i], q \in g[j] : Newer(c, p, q)
  <2> SUFFICES ASSUME NEW i \in 1..(m + 1), NEW j \in 1..(m + 1), i < j,
                      NEW p \in g[i], NEW q \in g[j]
               PROVE  Newer(c, p, q)
    OBVIOUS
  <2>1. i \in 1..m
    BY <1>5, <1>7
  <2>2. CASE j = m + 1
    BY <1>6, <1>13, <2>1, <2>2
  <2>3. CASE j \in 1..m
    BY <1>6, <1>11, <2>1, <2>3
  <2> QED
    BY <1>7, <2>2, <2>3
<1>15. \A i \in 1..(m + 1) : \A q \in g[i] : OwnerOf[q] = subject
  <2>1. \A q \in P : OwnerOf[q] = subject
    BY <1>2
  <2>2. \A i \in 1..m : \A q \in g[i] : OwnerOf[q] = subject
    BY <1>6, <1>9, <1>11, <1>12
  <2> QED
    BY <1>6, <1>7, <2>1, <2>2
<1>16. at # NoCursor => \A i \in 1..(m + 1) : \A q \in g[i] : q = at \/ Newer(c, q, at)
  <2> SUFFICES ASSUME at # NoCursor, NEW i \in 1..(m + 1), NEW q \in g[i]
               PROVE  q = at \/ Newer(c, q, at)
    OBVIOUS
  <2>1. CASE i = m + 1
    BY <1>4, <1>6, <2>1
  <2>2. CASE i \in 1..m
    BY <1>4, <1>6, <1>13, <2>2
  <2> QED
    BY <1>7, <2>1, <2>2
<1>17. began \subseteq v /\ \A q \in began : OwnerOf[q] = subject
  BY <1>9, <1>11 DEF h
<1>18. \A q \in began : \/ \E i \in 1..(m + 1) : q \in g[i]
                        \/ at # NoCursor /\ Newer(c, at, q)
  <2> SUFFICES ASSUME NEW q \in began, \A i \in 1..(m + 1) : q \notin g[i]
               PROVE  at # NoCursor /\ Newer(c, at, q)
    OBVIOUS
  <2>1. m + 1 \in 1..(m + 1) /\ \A i \in 1..m : i \in 1..(m + 1)
    BY <1>5
  <2>2. q \notin P /\ \A i \in 1..m : q \notin h[i]
    BY <1>6, <2>1
  <2>3. q \in R
    <3>1. q \in v /\ OwnerOf[q] = subject
      BY <1>17
    <3>2. w.cursor = NoCursor \/ Newer(c, w.cursor, q)
      BY <1>10, <1>11, <2>2 DEF h
    <3> QED
      BY <3>1, <3>2
  <2>4. P # R
    BY <2>2, <2>3
  <2> QED
    BY <1>2, <1>4, <2>2, <2>3, <2>4
<1>19. at \in v \cup {NoCursor}
  BY <1>1, <1>2, <1>4
<1> DEFINE w2 == [subject |-> subject, cursor |-> at, pages |-> g, began |-> began]
<1>20. /\ w2.subject = subject /\ w2.cursor = at /\ w2.pages = g /\ w2.began = began
  OBVIOUS
<1> HIDE DEF w2
<1>21. WalkOk(w2, c, v)
  BY <1>6, <1>14, <1>15, <1>16, <1>17, <1>18, <1>19, <1>20 DEF WalkOk
<1> QED
  BY <1>21 DEF w2, g, h

(* list_quotes and quote_list_response read such a page. *)
LEMMA ListedPage ==
    ASSUME NEW subject, NEW after, NEW n
    PROVE  LET R == {q \in visible : OwnerOf[q] = subject
                         /\ (after = NoCursor \/ Newer(created, after, q))}
               F == Rows(subject, after, n)
               P == Take(F, n)
           IN  /\ F = FirstRows(created, R, n + 1)
               /\ P = FirstRows(created, F, n)
               /\ (Cardinality(F) > n /\ \E q \in P : \A p \in P \ {q} : Newer(created, p, q))
                     => /\ NextCursor(F, n) \in P
                        /\ \A p \in P \ {NextCursor(F, n)} : Newer(created, p, NextCursor(F, n))
               /\ ~(Cardinality(F) > n) => NextCursor(F, n) = NoCursor
<1> DEFINE R == {q \in visible : OwnerOf[q] = subject
                         /\ (after = NoCursor \/ Newer(created, after, q))}
           F == Rows(subject, after, n)
           P == Take(F, n)
<1>1. \A S, k : Take(S, k) = FirstRows(created, S, k)
  BY DEF Take, FirstRows, RowsAhead, Before, Newer
<1>2. Rows(subject, after, n) = Take(R, n + 1)
  BY DEF Rows, Before, Newer
<1>3. \A p, q : Before(p, q) <=> Newer(created, p, q)
  BY DEF Before, Newer
<1> HIDE DEF R, F, P
<1>4. ASSUME Cardinality(F) > n, NEW x \in P, \A p \in P \ {x} : Newer(created, p, x)
      PROVE  /\ NextCursor(F, n) \in P
             /\ \A p \in P \ {NextCursor(F, n)} : Newer(created, p, NextCursor(F, n))
  <2>1. NextCursor(F, n) = Oldest(P)
    BY <1>4 DEF NextCursor, P
  <2>2. \A p \in P \ {x} : Before(p, x)
    BY <1>3, <1>4
  <2>3. Oldest(P) \in P /\ \A p \in P \ {Oldest(P)} : Before(p, Oldest(P))
    BY <1>4, <2>2 DEF Oldest
  <2> QED
    BY <1>3, <2>1, <2>3
<1>5. ~(Cardinality(F) > n) => NextCursor(F, n) = NoCursor
  BY DEF NextCursor
<1>6. F = FirstRows(created, R, n + 1) /\ P = FirstRows(created, F, n)
  BY <1>1, <1>2 DEF F, P
<1> QED
  BY <1>4, <1>5, <1>6 DEF R, F, P

LEMMA WalkInvList ==
    ASSUME WalkInv, NEW r \in Requests, NEW asked \in 0..(MaxLimit + 1), ListQuotes(r, asked)
    PROVE  WalkInv'
<1> DEFINE subject == Authenticate(r)
           n == Clamp(asked)
           R == {q \in visible : OwnerOf[q] = subject
                    /\ (walk.cursor = NoCursor \/ Newer(created, walk.cursor, q))}
           F == Rows(subject, walk.cursor, n)
           P == Take(F, n)
           began == IF walk.pages = <<>>
                    THEN {q \in visible : OwnerOf[q] = subject} ELSE walk.began
<1>1. n \in Nat \ {0}
  BY ReadsAssumption DEF Clamp
<1>2. /\ ~(walk.pages # <<>> /\ walk.cursor = NoCursor)
      /\ subject # Nobody /\ walk.subject \in {Nobody, subject}
      /\ UNCHANGED <<clock, created, visible>>
      /\ walk' = [subject |-> subject, cursor |-> NextCursor(F, n),
                  pages |-> Append(walk.pages, P), began |-> began]
  BY DEF ListQuotes, Done
<1>3. TableOk(created, visible) /\ WalkOk(walk, created, visible) /\ clock \in Nat
  BY DEF WalkInv
<1>4. /\ F = FirstRows(created, R, n + 1)
      /\ P = FirstRows(created, F, n)
      /\ (Cardinality(F) > n /\ \E q \in P : \A p \in P \ {q} : Newer(created, p, q))
            => /\ NextCursor(F, n) \in P
               /\ \A p \in P \ {NextCursor(F, n)} : Newer(created, p, NextCursor(F, n))
      /\ ~(Cardinality(F) > n) => NextCursor(F, n) = NoCursor
  BY ListedPage
<1>5. \A q : q \in R <=> /\ q \in visible /\ OwnerOf[q] = subject
                         /\ walk.cursor = NoCursor \/ Newer(created, walk.cursor, q)
  OBVIOUS
<1>6. began = IF walk.pages = <<>>
              THEN {q \in visible : OwnerOf[q] = subject} ELSE walk.began
  OBVIOUS
<1> HIDE DEF subject, n, R, F, P, began
<1>7. WalkOk([subject |-> subject, cursor |-> NextCursor(F, n),
              pages |-> Append(walk.pages, P), began |-> began], created, visible)
  BY <1>1, <1>2, <1>3, <1>4, <1>5, <1>6, WalkOkPage
<1> QED
  BY <1>2, <1>3, <1>7 DEF WalkInv

(* Every quote that exists keeps its time. *)
LEMMA WalkInvTable ==
    ASSUME WalkInv, walk' = walk, clock' \in Nat, TableOk(created, visible)',
           visible \subseteq visible', \A q \in visible : created'[q] = created[q]
    PROVE  WalkInv'
<1>1. WalkOk(walk, created, visible)
  BY DEF WalkInv
<1>2. WalkOk(walk, created', visible')
  BY <1>1, WalkOkGrows
<1> QED
  BY <1>2 DEF WalkInv

LEMMA WalkInvNext == WalkInv /\ [ReadsNext]_<<vars, readVars>> => WalkInv'
<1> SUFFICES ASSUME WalkInv, [ReadsNext]_<<vars, readVars>> PROVE WalkInv'
  OBVIOUS
<1>1. /\ created \in [Quotes -> Int] /\ visible \subseteq Quotes
      /\ \A q \in visible : created[q] # Absent
      /\ clock \in Nat
  BY DEF WalkInv, TableOk
<1>2. CASE UNCHANGED readVars
  BY <1>2 DEF WalkInv, readVars
<1>3. CASE Tick
  <2>1. clock' \in Nat /\ UNCHANGED <<created, visible, walk>>
    BY <1>1, <1>3 DEF Tick
  <2> QED
    BY <1>1, <2>1, WalkInvTable DEF TableOk
<1>4. ASSUME NEW q \in Quotes, BeginCreate(q) PROVE WalkInv'
  <2>1. /\ created[q] = Absent /\ created' = [created EXCEPT ![q] = clock]
        /\ UNCHANGED <<clock, visible, walk>>
    BY <1>4 DEF BeginCreate
  <2>2. q \notin visible
    BY <1>1, <2>1
  <2>3. created' \in [Quotes -> Int] /\ \A p \in visible : created'[p] = created[p]
    BY <1>1, <2>1, <2>2
  <2>4. TableOk(created, visible)'
    BY <1>1, <2>1, <2>3 DEF TableOk
  <2> QED
    BY <1>1, <2>1, <2>3, <2>4, WalkInvTable
<1>5. ASSUME NEW q \in Quotes, CommitCreate(q) PROVE WalkInv'
  <2>1. /\ created[q] # Absent /\ visible' = visible \cup {q}
        /\ UNCHANGED <<clock, created, walk>>
    BY <1>5 DEF CommitCreate
  <2>2. TableOk(created, visible)'
    BY <1>1, <2>1 DEF TableOk
  <2> QED
    BY <1>1, <2>1, <2>2, WalkInvTable
<1>6. CASE \E r \in Requests, asked \in 0..(MaxLimit + 1) : ListQuotes(r, asked)
  BY <1>6, WalkInvList
<1> QED
  BY <1>2, <1>3, <1>4, <1>5, <1>6 DEF ReadsNext, Read, readVars

LEMMA WalkInvInit == ReadsInit => WalkInv
<1> SUFFICES ASSUME ReadsInit PROVE WalkInv
  OBVIOUS
<1>1. /\ created \in [Quotes -> Int] /\ visible \subseteq Quotes
      /\ \A q \in visible : created[q] # Absent
      /\ clock \in Nat
  BY DEF ReadsInit, Absent
<1>2. /\ walk.pages = <<>> /\ walk.cursor = NoCursor /\ walk.subject = Nobody
      /\ walk.began = {}
  BY DEF ReadsInit, NoWalk
<1>3. WalkOk(walk, created, visible)
  BY <1>2 DEF WalkOk
<1> QED
  BY <1>1, <1>3 DEF WalkInv, TableOk

(* Whatever is created meanwhile and whatever page sizes are asked for,    *)
(* following next_cursor lists the subject's quotes and nobody else's,     *)
(* newest first and each once, and at its end none of those that existed   *)
(* at the first page is missing.                                           *)
THEOREM WalksAreComplete == ReadsSpec => []WalkComplete
<1>1. WalkInv => WalkComplete
  <2> SUFFICES ASSUME WalkInv PROVE WalkComplete
    OBVIOUS
  <2> DEFINE n == Len(walk.pages)
  <2>1. walk.pages \in Seq(SUBSET visible) /\ DOMAIN walk.pages = 1..n
    BY DEF WalkInv, WalkOk
  <2>2. /\ \A i \in 1..n : \A q \in walk.pages[i] : OwnerOf[q] = walk.subject
        /\ \A i, j \in 1..n : i < j =>
              \A p \in walk.pages[i], q \in walk.pages[j] : Newer(created, p, q)
        /\ walk.pages # <<>> =>
              \A q \in walk.began :
                 \/ \E i \in 1..n : q \in walk.pages[i]
                 \/ walk.cursor # NoCursor /\ Newer(created, walk.cursor, q)
    BY DEF WalkInv, WalkOk
  <2>3. \A p, q : Newer(created, p, q) <=> Before(p, q)
    BY DEF Newer, Before
  <2> HIDE DEF n
  <2>4. \A q \in UNION {walk.pages[i] : i \in DOMAIN walk.pages} : OwnerOf[q] = walk.subject
    BY <2>1, <2>2
  <2>5. \A i, j \in DOMAIN walk.pages : i < j =>
           \A p \in walk.pages[i], q \in walk.pages[j] : Before(p, q)
    BY <2>1, <2>2, <2>3
  <2>6. Done => walk.began \subseteq UNION {walk.pages[i] : i \in DOMAIN walk.pages}
    BY <2>1, <2>2 DEF Done
  <2> QED
    BY <2>4, <2>5, <2>6 DEF WalkComplete
<1> QED
  BY <1>1, WalkInvInit, WalkInvNext, PTL DEF ReadsSpec
=============================================================================
