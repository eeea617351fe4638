-------------------------- MODULE AdmissionProofs --------------------------
(***************************************************************************)
(* Proofs about Admission, for any number of subjects and callers, any     *)
(* quotas, any window and any clock.                                       *)
(***************************************************************************)
EXTENDS Admission, FiniteSetTheorems, WellFoundedInduction, TLAPS

(* First is the least element of a set of positions. *)
LEMMA FirstLeast ==
    ASSUME NEW S, S \subseteq Nat, S # {}
    PROVE  First(S) \in S /\ \A j \in S : First(S) <= j
<1>1. \E i \in S : \A j \in S : <<j, i>> \notin OpToRel(<, Nat)
  BY NatLessThanWellFounded, WFMin, Zenon
<1>2. \A i, j \in Nat : <<j, i>> \in OpToRel(<, Nat) <=> j < i
  BY DEF OpToRel
<1>3. \E i \in S : \A j \in S : ~(j < i)
  BY <1>1, <1>2
<1>4. \E i \in S : \A j \in S : i <= j
  BY <1>3
<1> QED
  BY <1>4 DEF First

(* What a queue begins with once its expired front is discarded: its first *)
(* live entry, before which every entry of the queue has expired.          *)
LEMMA DiscardKeepsLive ==
    ASSUME Len(accepted) \in Nat, NEW S, S \subseteq Positions, NEW h \in Nat, NEW t
    PROVE  /\ Discard(S, h, t) \in 1..Len(accepted) + 1
           /\ \A i \in S : i >= h /\ ~Expired(i, t) => i >= Discard(S, h, t)
           /\ Discard(S, h, t) # Len(accepted) + 1 =>
                 /\ Discard(S, h, t) \in S
                 /\ Discard(S, h, t) >= h
                 /\ ~Expired(Discard(S, h, t), t)
<1> DEFINE live == {i \in S : i >= h /\ ~Expired(i, t)}
           d == Discard(S, h, t)
<1>1. live \subseteq Positions /\ live \subseteq Nat
  <2>1. live \subseteq S
    OBVIOUS
  <2> HIDE DEF live
  <2>2. Positions \subseteq Nat
    BY DEF Positions
  <2> QED
    BY <2>1, <2>2
<1>2. CASE live = {}
  <2>1. d = Len(accepted) + 1
    BY <1>2 DEF Discard
  <2> QED
    BY <1>2, <2>1
<1>3. CASE live # {}
  <2>1. First(live) \in live /\ \A j \in live : First(live) <= j
    BY <1>1, <1>3, FirstLeast
  <2>2. d = First(live)
    BY <1>3 DEF Discard
  <2>3. d \in 1..Len(accepted) + 1
    BY <1>1, <2>1, <2>2 DEF Positions
  <2>4. d \in S /\ d >= h /\ ~Expired(d, t)
    BY <2>1, <2>2
  <2>5. \A i \in live : i >= d
    BY <1>1, <2>1, <2>2, <2>3
  <2> QED
    BY <2>3, <2>4, <2>5
<1> QED
  BY <1>2, <1>3

-----------------------------------------------------------------------------
(* The inductive invariant.  NothingEvicted rests on QueuesAgree, and      *)
(* QuotasHold on Kept: what is younger than the window has been discarded  *)
(* from neither queue, however the calls' timestamps are ordered.          *)

Kept ==
    \A i \in Positions : accepted[i].stamp > latest - Window =>
        /\ i >= allHead
        /\ ~evicted => i >= head[accepted[i].subject]

Sizes ==
    /\ Len(accepted) - allHead + 1 <= Global
    /\ \A u \in Subjects : Cardinality(Queue(u, head)) <= PerWindow

(* The clock only goes forward. *)
Past ==
    /\ \A i \in Positions : accepted[i].stamp <= now
    /\ \A c \in Callers : calls[c] # NoCall => calls[c].stamp <= now

(* A client that waits finds the front of the full queue expired. *)
Outlasted ==
    /\ limited.full = "all" =>
          allHead \in Positions /\ limited.until - accepted[allHead].stamp >= Window
    /\ limited.full = "own" =>
          LET u == limited.subject
          IN  /\ u \in Subjects /\ head[u] \in Own(u)
              /\ limited.until - accepted[head[u]].stamp >= Window

LimitType == [full: {"none", "all", "own"}, subject: Subjects \cup {NoCall}, until: Nat]

AdmissionInv ==
    /\ TypeOK /\ Past
    /\ QueuesAgree /\ NothingEvicted /\ Kept /\ Sizes
    /\ Outlasted

LEMMA OwnPositions ==
    ASSUME TypeOK
    PROVE  /\ Len(accepted) \in Nat /\ Positions = 1..Len(accepted)
           /\ \A i \in Positions : accepted[i] \in Call
           /\ \A u : Own(u) \subseteq Positions
  BY DEF TypeOK, Positions, Own

(* A subset of a queue is finite. *)
LEMMA QueueFinite ==
    ASSUME TypeOK, NEW S, S \subseteq Positions
    PROVE  IsFiniteSet(S) /\ Cardinality(S) \in Nat
<1>1. IsFiniteSet(Positions)
  BY OwnPositions, FS_Interval
<1> QED
  BY <1>1, FS_Subset, FS_CardinalityType

(* The sweep at the start of check_submission, with clock reading t. *)
LEMMA SweepTypes ==
    ASSUME TypeOK, NEW t \in Nat
    PROVE  /\ AllHead(t) \in 1..Len(accepted) + 1
           /\ Heads(t) \in [Subjects -> 1..Len(accepted) + 1]
<1>1. allHead \in Nat /\ \A u \in Subjects : head[u] \in Nat
  BY OwnPositions DEF TypeOK
<1>2. AllHead(t) \in 1..Len(accepted) + 1
  BY <1>1, OwnPositions, DiscardKeepsLive DEF AllHead
<1>3. \A u \in Subjects : Discard(Own(u), head[u], t) \in 1..Len(accepted) + 1
  BY <1>1, OwnPositions, DiscardKeepsLive
<1> QED
  BY <1>2, <1>3 DEF Heads

(* A swept queue that is not empty begins with an entry of its own, which  *)
(* it held before and the queue of all subjects holds still.               *)
LEMMA SweptFront ==
    ASSUME TypeOK, QueuesAgree, NEW t \in Nat, NEW u \in Subjects,
           NEW i \in Queue(u, Heads(t))
    PROVE  /\ Heads(t)[u] \in Own(u)
           /\ Heads(t)[u] >= AllHead(t) /\ Heads(t)[u] >= head[u]
           /\ i >= Heads(t)[u] /\ i \in Own(u)
<1> DEFINE d == Heads(t)[u]
<1>1. d = Discard(Own(u), head[u], t)
  BY DEF Heads
<1>2. i \in Own(u) /\ i >= d /\ i <= Len(accepted) /\ i \in Nat
  BY OwnPositions DEF Queue, Own
<1>3. head[u] \in Nat /\ allHead \in Nat
  BY OwnPositions DEF TypeOK
<1>4. d \in 1..Len(accepted) + 1
  BY <1>1, <1>3, OwnPositions, DiscardKeepsLive
<1>5. d # Len(accepted) + 1
  BY <1>2, <1>4, OwnPositions
<1>6. d \in Own(u) /\ d >= head[u] /\ ~Expired(d, t)
  <2>1. Own(u) \subseteq Positions /\ Len(accepted) \in Nat
    BY OwnPositions
  <2>2. Discard(Own(u), head[u], t) # Len(accepted) + 1 =>
           /\ Discard(Own(u), head[u], t) \in Own(u)
           /\ Discard(Own(u), head[u], t) >= head[u]
           /\ ~Expired(Discard(Own(u), head[u], t), t)
    BY <1>3, <2>1, DiscardKeepsLive
  <2> HIDE DEF d
  <2> QED
    BY <1>1, <1>5, <2>2
<1>7. d >= allHead
  BY <1>6 DEF QueuesAgree, Queue
<1>8. d >= AllHead(t)
  BY <1>3, <1>6, <1>7, OwnPositions, DiscardKeepsLive DEF AllHead
<1> QED
  BY <1>2, <1>6, <1>8

(* The sweep keeps what is younger than the window. *)
LEMMA SweepKeeps ==
    ASSUME TypeOK, NEW t \in Nat, NEW i \in Positions, t - accepted[i].stamp < Window
    PROVE  /\ i >= allHead => i >= AllHead(t)
           /\ accepted[i].subject \in Subjects
           /\ i >= head[accepted[i].subject] => i >= Heads(t)[accepted[i].subject]
<1> DEFINE u == accepted[i].subject
<1>1. u \in Subjects /\ i \in Own(u) /\ accepted[i].stamp \in Nat
  BY OwnPositions DEF Own, Call
<1>2. ~Expired(i, t)
  BY <1>1, AdmissionAssumption DEF Expired
<1>3. head[u] \in Nat /\ allHead \in Nat
  BY <1>1, OwnPositions DEF TypeOK
<1>4. i >= allHead => i >= AllHead(t)
  BY <1>2, <1>3, OwnPositions, DiscardKeepsLive DEF AllHead
<1>5. i >= head[u] => i >= Discard(Own(u), head[u], t)
  BY <1>1, <1>2, <1>3, OwnPositions, DiscardKeepsLive
<1> QED
  BY <1>1, <1>4, <1>5 DEF Heads

(* No more subjects are present than the queue of all subjects has entries. *)
LEMMA PresentBound ==
    ASSUME TypeOK, QueuesAgree, NEW t \in Nat
    PROVE  /\ IsFiniteSet(Present(Heads(t)))
           /\ Cardinality(Present(Heads(t))) \in Nat
           /\ Cardinality(Present(Heads(t))) <= Len(accepted) - AllHead(t) + 1
<1> DEFINE P == Present(Heads(t))
           T == AllHead(t)..Len(accepted)
           f == [u \in P |-> Heads(t)[u]]
<1>1. AllHead(t) \in 1..Len(accepted) + 1 /\ Len(accepted) \in Nat
  BY SweepTypes, OwnPositions
<1>2. ASSUME NEW u \in P
      PROVE  u \in Subjects /\ f[u] \in T /\ accepted[f[u]].subject = u
  <2>1. u \in Subjects /\ f[u] = Heads(t)[u]
    BY <1>2 DEF Present
  <2>2. PICK i : i \in Queue(u, Heads(t))
    BY <1>2 DEF Present
  <2>3. f[u] \in Own(u) /\ f[u] >= AllHead(t)
    BY <2>1, <2>2, SweptFront
  <2> QED
    BY <1>1, <2>1, <2>3, OwnPositions DEF Own
<1>3. f \in [P -> T] /\ \A u, v \in P : f[u] = f[v] => u = v
  BY <1>2
<1>4. f \in Injection(P, T)
  <2> HIDE DEF f, P, T
  <2> QED
    BY <1>3 DEF Injection, IsInjective
<1>5. IsFiniteSet(T) /\ Cardinality(T) = Len(accepted) - AllHead(t) + 1
  <2>1. AllHead(t) \in Int /\ Len(accepted) \in Int
    BY <1>1
  <2>2. /\ IsFiniteSet(T)
        /\ Cardinality(T) = IF AllHead(t) > Len(accepted) THEN 0
                                                       ELSE Len(accepted) - AllHead(t) + 1
    BY <2>1, FS_Interval
  <2> HIDE DEF T
  <2> QED
    BY <1>1, <2>2
<1>6. IsFiniteSet(P) /\ Cardinality(P) <= Cardinality(T)
  <2> HIDE DEF f, P, T
  <2> QED
    BY <1>4, <1>5, FS_Injection
<1> QED
  BY <1>5, <1>6, FS_CardinalityType

-----------------------------------------------------------------------------
(* The steps *)

LEMMA CallTypes ==
    ASSUME TypeOK, NEW c \in Callers, calls[c] # NoCall
    PROVE  calls[c].subject \in Subjects /\ calls[c].stamp \in Nat
  BY DEF TypeOK, Call

LEMMA LeaveTypes ==
    ASSUME TypeOK, NEW c \in Callers, calls[c] # NoCall, Leave(c)
    PROVE  /\ now' \in Nat /\ calls' \in [Callers -> Call \cup {NoCall}]
           /\ latest' \in Nat /\ latest' >= latest /\ latest' >= calls[c].stamp
<1>1. calls[c].stamp \in Nat
  BY CallTypes
<1> QED
  BY <1>1 DEF Leave, TypeOK

(* A call that is refused only sweeps. *)
LEMMA RefusedStep ==
    ASSUME AdmissionInv, NEW c \in Callers, calls[c] # NoCall, Leave(c),
           allHead' = AllHead(calls[c].stamp), head' = Heads(calls[c].stamp),
           UNCHANGED <<accepted, evicted>>
    PROVE  /\ QueuesAgree' /\ NothingEvicted' /\ Kept' /\ Sizes'
           /\ allHead' \in 1..Len(accepted') + 1
           /\ head' \in [Subjects -> 1..Len(accepted') + 1]
<1> DEFINE t == calls[c].stamp
<1>0. TypeOK /\ QueuesAgree /\ t \in Nat
  BY CallTypes DEF AdmissionInv
<1>1. AllHead(t) \in 1..Len(accepted) + 1 /\ Heads(t) \in [Subjects -> 1..Len(accepted) + 1]
  BY <1>0, SweepTypes
<1>2. QueuesAgree'
  <2> SUFFICES ASSUME NEW u \in Subjects, NEW i \in Queue(u, Heads(t)) PROVE i >= AllHead(t)
    BY DEF QueuesAgree, Queue, Own, Positions
  <2>1. Heads(t)[u] >= AllHead(t) /\ i >= Heads(t)[u] /\ i \in Own(u)
    BY <1>0, SweptFront
  <2> QED
    BY <1>0, <1>1, <2>1, OwnPositions
<1>3. Kept'
  <2> SUFFICES ASSUME NEW i \in Positions, accepted[i].stamp > latest' - Window
               PROVE  /\ i >= AllHead(t)
                      /\ ~evicted => i >= Heads(t)[accepted[i].subject]
    BY DEF Kept, Positions
  <2>1. accepted[i].stamp \in Nat /\ latest \in Nat /\ latest' \in Nat
        /\ latest' >= latest /\ latest' >= t
    BY <1>0, OwnPositions, LeaveTypes DEF Call, TypeOK
  <2>2. accepted[i].stamp > latest - Window /\ t - accepted[i].stamp < Window
    BY <1>0, <2>1, AdmissionAssumption
  <2>3. i >= allHead /\ (~evicted => i >= head[accepted[i].subject])
    BY <2>2 DEF AdmissionInv, Kept
  <2> QED
    BY <1>0, <2>2, <2>3, SweepKeeps
<1>4. Sizes'
  <2>1. AllHead(t) >= allHead \/ AllHead(t) = Len(accepted) + 1
    <3>1. allHead \in Nat /\ Len(accepted) \in Nat
      BY <1>0, OwnPositions DEF TypeOK
    <3>2. \/ Discard(Positions, allHead, t) = Len(accepted) + 1
          \/ Discard(Positions, allHead, t) >= allHead
      BY <3>1, DiscardKeepsLive
    <3> QED
      BY <3>2 DEF AllHead
  <2>2. Len(accepted) - AllHead(t) + 1 <= Global
    <3>1. allHead \in Nat /\ Len(accepted) \in Nat /\ Global \in Nat
      BY <1>0, OwnPositions, AdmissionAssumption DEF TypeOK
    <3>2. Len(accepted) - allHead + 1 <= Global
      BY DEF AdmissionInv, Sizes
    <3> QED
      BY <1>1, <2>1, <3>1, <3>2
  <2>3. ASSUME NEW u \in Subjects PROVE Cardinality(Queue(u, Heads(t))) <= PerWindow
    <3>1. Queue(u, Heads(t)) \subseteq Queue(u, head)
      <4> SUFFICES ASSUME NEW i \in Queue(u, Heads(t)) PROVE i \in Own(u) /\ i >= head[u]
        BY DEF Queue
      <4>1. i \in Own(u) /\ i >= Heads(t)[u] /\ Heads(t)[u] >= head[u]
        BY <1>0, SweptFront
      <4>2. i \in Int /\ Heads(t)[u] \in Int /\ head[u] \in Int
        BY <1>0, <1>1, <4>1, OwnPositions DEF TypeOK
      <4> QED
        BY <4>1, <4>2
    <3>2. Queue(u, head) \subseteq Positions
      BY <1>0, OwnPositions DEF Queue
    <3>3. /\ IsFiniteSet(Queue(u, head)) /\ Cardinality(Queue(u, head)) \in Nat
          /\ Cardinality(Queue(u, Heads(t))) \in Nat
      BY <1>0, <3>1, <3>2, QueueFinite
    <3>4. Cardinality(Queue(u, Heads(t))) <= Cardinality(Queue(u, head))
      BY <3>1, <3>3, FS_Subset
    <3>5. Cardinality(Queue(u, head)) <= PerWindow
      BY DEF AdmissionInv, Sizes
    <3> QED
      BY <3>3, <3>4, <3>5, AdmissionAssumption
  <2> QED
    BY <2>2, <2>3 DEF Sizes, Queue, Own, Positions
<1> QED
  BY <1>1, <1>2, <1>3, <1>4 DEF AdmissionInv, NothingEvicted

(* An accepted call is appended to both queues; nothing is evicted to make *)
(* room for it if the map is not smaller than the global quota.            *)
LEMMA AdmitStep == ASSUME AdmissionInv, NEW c \in Callers, Admit(c) PROVE AdmissionInv'
<1> DEFINE t == calls[c].stamp
           u == calls[c].subject
           n == Len(accepted)
           e == [subject |-> u, stamp |-> t]
<1>0. TypeOK /\ QueuesAgree /\ calls[c] # NoCall /\ t \in Nat /\ u \in Subjects /\ n \in Nat
  BY CallTypes, OwnPositions DEF AdmissionInv, Admit
<1>1. AllHead(t) \in 1..n + 1 /\ Heads(t) \in [Subjects -> 1..n + 1]
  BY <1>0, SweepTypes
<1>2. PICK out \in Evictions(u, Heads(t)) :
         /\ head' = [v \in Subjects |-> IF v \in out THEN n + 1 ELSE Heads(t)[v]]
         /\ evicted' = (evicted \/ out # {})
  BY DEF Admit
<1>3. /\ accepted' = Append(accepted, e) /\ allHead' = AllHead(t) /\ Leave(c)
      /\ ~GlobalFull(AllHead(t)) /\ Cardinality(Queue(u, Heads(t))) < PerWindow
      /\ limited' = NoLimit
  BY DEF Admit
<1>4. e \in Call
  BY <1>0 DEF Call
<1>5. /\ accepted' \in Seq(Call) /\ Len(accepted') = n + 1 /\ accepted'[n + 1] = e
      /\ \A i \in Positions : accepted'[i] = accepted[i]
      /\ Positions' = Positions \cup {n + 1}
  <2>1. accepted \in Seq(Call)
    BY <1>0 DEF TypeOK
  <2> HIDE DEF e
  <2> QED
    BY <1>0, <1>3, <1>4, <2>1 DEF Positions
<1>6. head' \in [Subjects -> 1..n + 1] /\ allHead' \in 1..n + 1
  BY <1>1, <1>2, <1>3
<1>7. /\ now' \in Nat /\ calls' \in [Callers -> Call \cup {NoCall}]
      /\ latest' \in Nat /\ latest' >= latest /\ latest' >= t
  BY <1>0, <1>3, LeaveTypes
<1>8. TypeOK'
  <2>1. head' \in [Subjects -> 1..Len(accepted') + 1] /\ allHead' \in 1..Len(accepted') + 1
    BY <1>0, <1>5, <1>6
  <2>2. evicted' \in BOOLEAN
    BY <1>0, <1>2 DEF TypeOK
  <2>3. limited' \in LimitType
    BY <1>3 DEF NoLimit, LimitType
  <2> QED
    BY <1>5, <1>7, <2>1, <2>2, <2>3 DEF TypeOK, LimitType
<1>9. ASSUME NEW v \in Subjects, NEW i \in Queue(v, head)'
      PROVE  (v = u /\ i = n + 1) \/ i \in Queue(v, Heads(t))
  <2>1. i \in Positions' /\ accepted'[i].subject = v /\ i >= head'[v]
    BY <1>9 DEF Queue, Own
  <2>2. CASE i = n + 1
    BY <1>5, <2>1, <2>2
  <2>3. CASE i \in Positions
    <3>1. i \in Own(v)
      BY <1>5, <2>1, <2>3 DEF Own
    <3>2. v \notin out
      BY <1>0, <1>2, <2>1, <2>3, OwnPositions
    <3> QED
      BY <1>2, <2>1, <3>1, <3>2 DEF Queue
  <2> QED
    BY <1>5, <2>1, <2>2, <2>3
<1>10. QueuesAgree'
  <2> SUFFICES ASSUME NEW v \in Subjects, NEW i \in Queue(v, head)' PROVE i >= allHead'
    BY DEF QueuesAgree
  <2>1. CASE i = n + 1
    BY <1>0, <1>6, <2>1
  <2>2. CASE i \in Queue(v, Heads(t))
    <3>1. Heads(t)[v] >= AllHead(t) /\ i >= Heads(t)[v] /\ i \in Own(v)
      BY <1>0, <2>2, SweptFront
    <3> QED
      BY <1>0, <1>1, <1>3, <3>1, OwnPositions
  <2> QED
    BY <1>9, <2>1, <2>2
<1>11. NothingEvicted'
  <2> SUFFICES ASSUME Global <= MaxSubjects PROVE ~evicted'
    BY DEF NothingEvicted
  <2>1. n - AllHead(t) + 1 < Global
    BY <1>0, <1>1, <1>3, AdmissionAssumption DEF GlobalFull
  <2>2. /\ Cardinality(Present(Heads(t))) \in Nat
        /\ Cardinality(Present(Heads(t))) <= n - AllHead(t) + 1
    BY <1>0, PresentBound
  <2>3. Cardinality(Present(Heads(t))) < MaxSubjects
    BY <1>0, <1>1, <2>1, <2>2, AdmissionAssumption
  <2>4. out = {}
    BY <1>2, <2>3 DEF Evictions
  <2> QED
    BY <1>2, <2>4 DEF AdmissionInv, NothingEvicted
<1>12. Kept'
  <2> SUFFICES ASSUME NEW i \in Positions', accepted'[i].stamp > latest' - Window
               PROVE  /\ i >= allHead'
                      /\ ~evicted' => i >= head'[accepted'[i].subject]
    BY DEF Kept
  <2>1. CASE i = n + 1
    <3>1. accepted'[i].subject = u
      BY <1>5, <2>1
    <3> QED
      BY <1>0, <1>6, <2>1, <3>1
  <2>2. CASE i \in Positions
    <3>1. accepted'[i] = accepted[i] /\ accepted[i].stamp \in Nat /\ latest \in Nat
      BY <1>0, <1>5, <2>2, OwnPositions DEF Call, TypeOK
    <3>2. accepted[i].stamp > latest - Window /\ t - accepted[i].stamp < Window
      BY <1>0, <1>7, <3>1, AdmissionAssumption
    <3>3. i >= allHead /\ (~evicted => i >= head[accepted[i].subject])
      BY <2>2, <3>2 DEF AdmissionInv, Kept
    <3>4. /\ i >= AllHead(t) /\ accepted[i].subject \in Subjects
          /\ ~evicted => i >= Heads(t)[accepted[i].subject]
      BY <1>0, <2>2, <3>2, <3>3, SweepKeeps
    <3> QED
      BY <1>2, <1>3, <3>1, <3>4
  <2> QED
    BY <1>5, <2>1, <2>2
<1>13. Sizes'
  <2>1. Len(accepted') - allHead' + 1 <= Global
    BY <1>0, <1>1, <1>3, <1>5, AdmissionAssumption DEF GlobalFull
  <2>2. ASSUME NEW v \in Subjects PROVE Cardinality(Queue(v, head)') <= PerWindow
    <3> DEFINE Q == Queue(v, Heads(t))
               R == Queue(v, head)'
    <3>1. Q \subseteq Positions
      BY <1>0, OwnPositions DEF Queue
    <3>2. IsFiniteSet(Q) /\ Cardinality(Q) \in Nat
      BY <1>0, <3>1, QueueFinite
    <3>3. CASE v # u
      <4>1. Q \subseteq Queue(v, head)
        <5> SUFFICES ASSUME NEW i \in Q PROVE i \in Own(v) /\ i >= head[v]
          BY DEF Queue
        <5>1. i \in Own(v) /\ i >= Heads(t)[v] /\ Heads(t)[v] >= head[v]
          BY <1>0, SweptFront
        <5>2. i \in Int /\ Heads(t)[v] \in Int /\ head[v] \in Int
          BY <1>0, <1>1, <5>1, OwnPositions DEF TypeOK
        <5> QED
          BY <5>1, <5>2
      <4>2. Queue(v, head) \subseteq Positions
        BY <1>0, OwnPositions DEF Queue
      <4>3. IsFiniteSet(Queue(v, head)) /\ Cardinality(Queue(v, head)) \in Nat
        BY <1>0, <4>2, QueueFinite
      <4>4. R \subseteq Queue(v, head)
        BY <1>9, <3>3, <4>1
      <4>5. Cardinality(R) <= Cardinality(Queue(v, head)) /\ IsFiniteSet(R)
        BY <4>3, <4>4, FS_Subset
      <4>6. Cardinality(Queue(v, head)) <= PerWindow
        BY DEF AdmissionInv, Sizes
      <4>7. Cardinality(R) \in Nat
        BY <4>5, FS_CardinalityType
      <4> QED
        BY <4>3, <4>5, <4>6, <4>7, AdmissionAssumption
    <3>4. CASE v = u
      <4>1. R \subseteq Q \cup {n + 1}
        BY <1>9
      <4>2. /\ IsFiniteSet(Q \cup {n + 1})
            /\ Cardinality(Q \cup {n + 1}) =
                 IF n + 1 \in Q THEN Cardinality(Q) ELSE Cardinality(Q) + 1
        BY <3>2, FS_AddElement
      <4>3. Cardinality(R) <= Cardinality(Q \cup {n + 1}) /\ IsFiniteSet(R)
        BY <4>1, <4>2, FS_Subset
      <4>4. Cardinality(R) \in Nat
        BY <4>3, FS_CardinalityType
      <4>5. Cardinality(Q) < PerWindow
        BY <1>3, <3>4
      <4>6. Cardinality(R) <= PerWindow
        <5> HIDE DEF Q, R
        <5> QED
          BY <3>2, <4>2, <4>3, <4>4, <4>5, AdmissionAssumption
      <4> QED
        BY <4>6
    <3> QED
      BY <3>3, <3>4
  <2> QED
    BY <2>1, <2>2 DEF Sizes
<1>14. Past'
  <2>1. now' = now /\ calls' = [calls EXCEPT ![c] = NoCall]
    BY <1>3 DEF Leave
  <2>2. t <= now
    BY <1>0 DEF AdmissionInv, Past
  <2>3. \A i \in Positions' : accepted'[i].stamp <= now'
    BY <1>5, <2>1, <2>2 DEF AdmissionInv, Past
  <2>4. \A d \in Callers : calls'[d] # NoCall => calls'[d].stamp <= now'
    BY <1>0, <2>1 DEF AdmissionInv, Past, TypeOK
  <2> QED
    BY <2>3, <2>4 DEF Past
<1>15. Outlasted'
  BY <1>3 DEF Outlasted, NoLimit
<1> QED
  BY <1>8, <1>10, <1>11, <1>12, <1>13, <1>14, <1>15 DEF AdmissionInv

LEMMA AdmissionInit == Init => AdmissionInv
<1> SUFFICES ASSUME Init PROVE AdmissionInv
  OBVIOUS
<1>1. accepted = <<>> /\ Len(accepted) = 0 /\ Positions = {}
  BY DEF Init, Positions
<1>2. TypeOK
  <2>1. accepted \in Seq(Call) /\ allHead \in 1..Len(accepted) + 1
    BY <1>1 DEF Init
  <2>2. head \in [Subjects -> 1..Len(accepted) + 1]
    BY <1>1 DEF Init
  <2> QED
    BY <2>1, <2>2 DEF Init, TypeOK, NoLimit
<1>3. \A u \in Subjects : Queue(u, head) = {}
  BY <1>1 DEF Queue, Own
<1>4. QueuesAgree /\ Kept /\ NothingEvicted
  BY <1>1, <1>3 DEF QueuesAgree, Kept, NothingEvicted, Init
<1>5. Sizes
  <2>1. Cardinality({}) = 0
    BY FS_EmptySet
  <2>2. \A u \in Subjects : Cardinality(Queue(u, head)) <= PerWindow
    BY <1>3, <2>1, AdmissionAssumption
  <2>3. Len(accepted) - allHead + 1 <= Global
    BY <1>1, AdmissionAssumption DEF Init
  <2> QED
    BY <2>2, <2>3 DEF Sizes
<1>6. Past /\ Outlasted
  BY <1>1 DEF Past, Outlasted, Init, NoLimit
<1> QED
  BY <1>2, <1>4, <1>5, <1>6 DEF AdmissionInv

(* Rounding down and adding one is more than dividing. *)
LEMMA RoundUp ==
    ASSUME NEW a \in Nat, NEW b \in Nat \ {0}
    PROVE  (a \div b + 1) * b \in Nat /\ (a \div b + 1) * b > a
<1> DEFINE x == a \div b
<1>1. x \in Nat
  BY SMT
<1>2. a = b * x + (a % b) /\ a % b \in 0..b - 1
  BY SMT
<1> HIDE DEF x
<1>3. (x + 1) * b = b * x + b /\ b * x \in Nat
  BY <1>1, SMT
<1>4. (x + 1) * b \in Nat /\ (x + 1) * b > a
  BY <1>1, <1>2, <1>3
<1> QED
  BY <1>4 DEF x

(* Retry-After outlasts the entry it is computed from, if that is live. *)
LEMMA LimitSuffices ==
    ASSUME TypeOK, Past, NEW i \in Positions, NEW t \in Nat, t <= now, ~Expired(i, t),
           NEW full \in {"all", "own"}, NEW u \in Subjects, Limit(full, u, i, t)
    PROVE  limited' \in LimitType /\ limited'.full = full /\ limited'.subject = u
           /\ limited'.until - accepted[i].stamp >= Window
<1> DEFINE s == accepted[i].stamp
           age == IF t > s THEN t - s ELSE 0
           a == Window - age
           r == (a \div TicksPerSecond + 1) * TicksPerSecond
<1>1. s \in Nat /\ i \in Nat /\ now \in Nat /\ s <= now /\ Window \in Nat
  BY OwnPositions, AdmissionAssumption DEF Call, TypeOK, Past
<1>2. a \in Nat
  BY <1>1, AdmissionAssumption DEF Expired
<1>3. r \in Nat /\ r > a
  BY <1>2, RoundUp, AdmissionAssumption
<1>4. limited' = [full |-> full, subject |-> u, until |-> now + r]
  BY DEF Limit, RetryAfter
<1> HIDE DEF r
<1>5. now + r - s >= Window /\ now + r \in Nat
  BY <1>1, <1>2, <1>3
<1>6. limited'.full = full /\ limited'.subject = u /\ limited'.until = now + r
  BY <1>4
<1>7. limited' \in LimitType
  BY <1>1, <1>4, <1>5 DEF LimitType
<1>8. limited'.until - accepted[i].stamp >= Window
  BY <1>1, <1>3, <1>5, <1>6
<1> QED
  BY <1>6, <1>7, <1>8

(* The sweep leaves room in a queue whose front has expired, for a queue   *)
(* is never more than full.                                                *)
LEMMA ExpiredFrontLeavesRoom ==
    ASSUME AdmissionInv, NEW t \in Nat
    PROVE  /\ allHead \in Positions /\ Expired(allHead, t) => ~GlobalFull(AllHead(t))
           /\ \A u \in Subjects : head[u] \in Own(u) /\ Expired(head[u], t) =>
                 Cardinality(Queue(u, Heads(t))) < PerWindow
<1>0. TypeOK /\ QueuesAgree /\ Sizes
  BY DEF AdmissionInv
<1>1. Len(accepted) \in Nat /\ allHead \in Nat /\ AllHead(t) \in 1..Len(accepted) + 1
      /\ Heads(t) \in [Subjects -> 1..Len(accepted) + 1]
  <2>1. Len(accepted) \in Nat /\ allHead \in 1..Len(accepted) + 1
    BY <1>0, OwnPositions DEF TypeOK
  <2>2. allHead \in Nat
    BY <2>1
  <2> QED
    BY <1>0, <2>1, <2>2, SweepTypes
<1>2. ASSUME allHead \in Positions, Expired(allHead, t) PROVE ~GlobalFull(AllHead(t))
  <2>1. AllHead(t) # Len(accepted) + 1 => AllHead(t) >= allHead /\ ~Expired(AllHead(t), t)
    BY <1>1, DiscardKeepsLive DEF AllHead
  <2>2. AllHead(t) > allHead
    BY <1>1, <1>2, <2>1 DEF Positions
  <2>3. Len(accepted) - allHead + 1 <= Global
    BY <1>0 DEF Sizes
  <2> QED
    BY <1>1, <2>2, <2>3, AdmissionAssumption DEF GlobalFull
<1>3. ASSUME NEW u \in Subjects, head[u] \in Own(u), Expired(head[u], t)
      PROVE  Cardinality(Queue(u, Heads(t))) < PerWindow
  <2> DEFINE Q == Queue(u, head)
             R == Queue(u, Heads(t))
  <2>1. Q \subseteq Positions /\ head[u] \in Q /\ head[u] \in Nat
    BY <1>0, <1>3, OwnPositions DEF Queue
  <2>2. R \subseteq Q \ {head[u]}
    <3> SUFFICES ASSUME NEW i \in R PROVE i \in Q /\ i # head[u]
      OBVIOUS
    <3>1. /\ i \in Own(u) /\ i >= Heads(t)[u]
          /\ Heads(t)[u] \in Own(u) /\ Heads(t)[u] >= head[u]
      BY <1>0, SweptFront
    <3>2. i \in Int /\ Heads(t)[u] \in Int /\ Heads(t)[u] # Len(accepted) + 1
      BY <1>0, <1>1, <3>1, OwnPositions
    <3>3. ~Expired(Heads(t)[u], t)
      <4>1. Own(u) \subseteq Positions /\ Heads(t)[u] = Discard(Own(u), head[u], t)
        BY <1>0, OwnPositions DEF Heads
      <4> QED
        BY <1>1, <2>1, <3>2, <4>1, DiscardKeepsLive
    <3>4. Heads(t)[u] # head[u]
      BY <1>3, <3>3
    <3> QED
      BY <2>1, <3>1, <3>2, <3>4 DEF Queue
  <2>3. IsFiniteSet(Q) /\ Cardinality(Q) \in Nat
    BY <1>0, <2>1, QueueFinite
  <2>4. IsFiniteSet(Q \ {head[u]}) /\ Cardinality(Q \ {head[u]}) = Cardinality(Q) - 1
    <3> HIDE DEF Q
    <3> QED
      BY <2>1, <2>3, FS_RemoveElement
  <2>5. IsFiniteSet(R) /\ Cardinality(R) <= Cardinality(Q \ {head[u]})
    <3> HIDE DEF Q, R
    <3> QED
      BY <2>2, <2>4, FS_Subset
  <2>6. Cardinality(R) \in Nat
    BY <2>5, FS_CardinalityType
  <2>7. Cardinality(Q) <= PerWindow
    BY <1>0 DEF Sizes
  <2> HIDE DEF Q
  <2>8. Cardinality(R) < PerWindow
    <3> HIDE DEF R
    <3> QED
      BY <2>3, <2>4, <2>5, <2>6, <2>7, AdmissionAssumption
  <2> QED
    BY <2>8
<1> QED
  BY <1>2, <1>3

(* What a step leaves alone. *)
LEMMA QuietStep ==
    ASSUME AdmissionInv, UNCHANGED <<accepted, allHead, head, latest, evicted>>
    PROVE  QueuesAgree' /\ NothingEvicted' /\ Kept' /\ Sizes'
  BY DEF AdmissionInv, QueuesAgree, NothingEvicted, Kept, Sizes, Queue, Own, Positions

LEMMA AdmissionNext == AdmissionInv /\ [Next]_vars => AdmissionInv'
<1> SUFFICES ASSUME AdmissionInv, [Next]_vars PROVE AdmissionInv'
  OBVIOUS
<1>0. TypeOK
  BY DEF AdmissionInv
<1>1. CASE UNCHANGED vars
  BY <1>0, <1>1, QuietStep DEF vars, AdmissionInv, TypeOK, Past, Positions, Outlasted, Own
<1>2. CASE Tick
  <2>1. now' \in Nat /\ now' >= now
    BY <1>0, <1>2 DEF Tick, TypeOK
  <2>2. Past'
    <3>1. /\ \A i \in Positions : accepted[i].stamp \in Nat /\ accepted[i].stamp <= now
          /\ \A c \in Callers : calls[c] # NoCall => calls[c].stamp \in Nat /\ calls[c].stamp <= now
          /\ now \in Nat
      BY <1>0, OwnPositions, CallTypes DEF AdmissionInv, Past, Call, TypeOK
    <3> QED
      BY <1>2, <2>1, <3>1 DEF Tick, Past, Positions
  <2>3. TypeOK' /\ Outlasted'
    BY <1>0, <1>2, <2>1 DEF Tick, TypeOK, NoLimit, Outlasted
  <2> QED
    BY <1>2, <2>2, <2>3, QuietStep DEF Tick, AdmissionInv
<1>3. ASSUME NEW c \in Callers, NEW u \in Subjects, ReadClock(c, u) PROVE AdmissionInv'
  <2>1. calls' \in [Callers -> Call \cup {NoCall}]
    BY <1>0, <1>3 DEF ReadClock, TypeOK, Call
  <2>2. Past'
    BY <1>0, <1>3 DEF ReadClock, AdmissionInv, Past, Positions, TypeOK
  <2>3. TypeOK' /\ Outlasted'
    BY <1>0, <1>3, <2>1 DEF ReadClock, TypeOK, NoLimit, Outlasted
  <2> QED
    BY <1>0, <1>3, <2>1, <2>2, <2>3, QuietStep DEF ReadClock, AdmissionInv
<1>4. ASSUME NEW c \in Callers, LimitGlobal(c) \/ LimitSubject(c) PROVE AdmissionInv'
  <2>1. /\ calls[c] # NoCall /\ Leave(c) /\ UNCHANGED <<accepted, evicted>>
        /\ allHead' = AllHead(calls[c].stamp) /\ head' = Heads(calls[c].stamp)
    BY <1>4 DEF LimitGlobal, LimitSubject
  <2>2. /\ QueuesAgree' /\ NothingEvicted' /\ Kept' /\ Sizes'
        /\ allHead' \in 1..Len(accepted') + 1
        /\ head' \in [Subjects -> 1..Len(accepted') + 1]
    BY <2>1, RefusedStep
  <2>3. /\ now' \in Nat /\ calls' \in [Callers -> Call \cup {NoCall}] /\ latest' \in Nat
    BY <1>0, <2>1, LeaveTypes
  <2>4. limited' \in LimitType /\ Outlasted'
    <3> DEFINE t == calls[c].stamp
               u == calls[c].subject
    <3>1. t \in Nat /\ u \in Subjects /\ t <= now /\ Past /\ QueuesAgree
      BY <1>0, <2>1, CallTypes DEF AdmissionInv, Past
    <3>2. Len(accepted) \in Nat /\ allHead \in Nat /\ head[u] \in Nat
          /\ AllHead(t) \in 1..Len(accepted) + 1
      <4>1. Len(accepted) \in Nat /\ AllHead(t) \in 1..Len(accepted) + 1
        BY <1>0, <3>1, OwnPositions, SweepTypes
      <4> QED
        BY <1>0, <3>1, <4>1 DEF TypeOK
    <3>3. CASE LimitGlobal(c)
      <4>1. AllHead(t) # Len(accepted) + 1
        BY <3>2, <3>3, AdmissionAssumption DEF LimitGlobal, GlobalFull
      <4>2. AllHead(t) \in Positions /\ ~Expired(AllHead(t), t)
        BY <3>2, <4>1, DiscardKeepsLive DEF AllHead
      <4>3. Limit("all", u, AllHead(t), t)
        BY <3>3 DEF LimitGlobal
      <4>4. /\ limited' \in LimitType /\ limited'.full = "all"
            /\ limited'.until - accepted[AllHead(t)].stamp >= Window
        BY <1>0, <3>1, <4>2, <4>3, LimitSuffices
      <4> QED
        BY <2>1, <4>2, <4>4 DEF Outlasted, Positions
    <3>4. CASE LimitSubject(c)
      <4>1. Cardinality(Queue(u, Heads(t))) >= PerWindow /\ Limit("own", u, Heads(t)[u], t)
        BY <3>4 DEF LimitSubject
      <4>2. Queue(u, Heads(t)) # {}
        BY <4>1, FS_EmptySet, AdmissionAssumption
      <4>3. PICK j : j \in Queue(u, Heads(t))
        BY <4>2
      <4>4. Heads(t)[u] \in Own(u)
        BY <1>0, <3>1, <4>3, SweptFront
      <4>5. Heads(t)[u] = Discard(Own(u), head[u], t) /\ Own(u) \subseteq Positions
        BY <1>0, <3>1, OwnPositions DEF Heads
      <4>6. Heads(t)[u] \in Positions /\ Heads(t)[u] # Len(accepted) + 1
        BY <3>2, <4>4, <4>5 DEF Positions
      <4>7. Discard(Own(u), head[u], t) # Len(accepted) + 1 =>
               ~Expired(Discard(Own(u), head[u], t), t)
        BY <3>2, <4>5, DiscardKeepsLive
      <4>8. ~Expired(Heads(t)[u], t)
        BY <4>5, <4>6, <4>7
      <4>9. /\ limited' \in LimitType /\ limited'.full = "own" /\ limited'.subject = u
            /\ limited'.until - accepted[Heads(t)[u]].stamp >= Window
        BY <1>0, <3>1, <4>1, <4>6, <4>8, LimitSuffices
      <4> QED
        BY <2>1, <3>1, <4>4, <4>9 DEF Outlasted, Own, Positions
    <3> QED
      BY <1>4, <3>3, <3>4
  <2>5. Past'
    BY <1>0, <2>1 DEF AdmissionInv, Past, Leave, TypeOK, Positions
  <2> QED
    BY <1>0, <2>1, <2>2, <2>3, <2>4, <2>5 DEF AdmissionInv, TypeOK, LimitType
<1> QED
  BY <1>1, <1>2, <1>3, <1>4, AdmitStep DEF Next

LEMMA AdmissionInvariance == Spec => []AdmissionInv
  BY AdmissionInit, AdmissionNext, PTL DEF Spec

(* check_submission never evicts a subject's queue: its branch for a full  *)
(* by_subject map is dead code for the constants of src/src/lib.rs, where  *)
(* the global quota is below the map's capacity.                           *)
THEOREM EvictionIsDead == Spec => []NothingEvicted
<1>1. AdmissionInv => NothingEvicted
  BY DEF AdmissionInv
<1> QED
  BY <1>1, AdmissionInvariance, PTL

(* The subject's and the global quota hold in every window, although calls *)
(* may enter the mutex in another order than they read the clock.          *)
THEOREM QuotasAlwaysHold == Spec => []QuotasHold
<1>1. ASSUME AdmissionInv PROVE QuotasHold
  <2>1. TypeOK /\ Len(accepted) \in Nat /\ allHead \in 1..Len(accepted) + 1
    BY <1>1, OwnPositions DEF AdmissionInv, TypeOK
  <2>2. Recent \subseteq allHead..Len(accepted)
    BY <1>1, <2>1 DEF AdmissionInv, Kept, Recent, Positions
  <2>3. /\ IsFiniteSet(allHead..Len(accepted))
        /\ Cardinality(allHead..Len(accepted)) =
             IF allHead > Len(accepted) THEN 0 ELSE Len(accepted) - allHead + 1
    <3>1. allHead \in Int /\ Len(accepted) \in Int
      BY <2>1
    <3> QED
      BY <3>1, FS_Interval
  <2>4. IsFiniteSet(Recent) /\ Cardinality(Recent) <= Cardinality(allHead..Len(accepted))
    BY <2>2, <2>3, FS_Subset
  <2>5. Cardinality(Recent) \in Nat
    BY <2>4, FS_CardinalityType
  <2>6. Cardinality(Recent) <= Global
    BY <1>1, <2>1, <2>3, <2>4, <2>5, AdmissionAssumption DEF AdmissionInv, Sizes
  <2>7. ASSUME ~evicted, NEW u \in Subjects PROVE Cardinality(Recent \cap Own(u)) <= PerWindow
    <3>1. Recent \cap Own(u) \subseteq Queue(u, head)
      BY <1>1, <2>7 DEF AdmissionInv, Kept, Recent, Own, Queue
    <3>2. Queue(u, head) \subseteq Positions
      BY <2>1, OwnPositions DEF Queue
    <3>3. IsFiniteSet(Queue(u, head)) /\ Cardinality(Queue(u, head)) \in Nat
      BY <2>1, <3>2, QueueFinite
    <3>4. /\ IsFiniteSet(Recent \cap Own(u))
          /\ Cardinality(Recent \cap Own(u)) <= Cardinality(Queue(u, head))
      BY <3>1, <3>3, FS_Subset
    <3>5. Cardinality(Recent \cap Own(u)) \in Nat
      BY <3>4, FS_CardinalityType
    <3>6. Cardinality(Queue(u, head)) <= PerWindow
      BY <1>1 DEF AdmissionInv, Sizes
    <3> QED
      BY <3>3, <3>4, <3>5, <3>6, AdmissionAssumption
  <2> QED
    BY <2>6, <2>7 DEF QuotasHold
<1> QED
  BY <1>1, AdmissionInvariance, PTL

(* A refused client that waits as long as Retry-After says finds room in   *)
(* the queue that was full, whatever the order of the timestamps in it.    *)
THEOREM RetryAfterIsEnough == Spec => []RetryAfterSuffices
<1>1. ASSUME AdmissionInv PROVE RetryAfterSuffices
  <2>1. limited.until \in Nat
    BY <1>1 DEF AdmissionInv, TypeOK
  <2>2. CASE limited.full = "all"
    <3>1. allHead \in Positions /\ Expired(allHead, limited.until)
      BY <1>1, <2>2 DEF AdmissionInv, Outlasted, Expired
    <3> QED
      BY <1>1, <2>1, <2>2, <3>1, ExpiredFrontLeavesRoom DEF RetryAfterSuffices
  <2>3. CASE limited.full = "own"
    <3>1. /\ limited.subject \in Subjects /\ head[limited.subject] \in Own(limited.subject)
          /\ Expired(head[limited.subject], limited.until)
      BY <1>1, <2>3 DEF AdmissionInv, Outlasted, Expired
    <3> QED
      BY <1>1, <2>1, <2>3, <3>1, ExpiredFrontLeavesRoom DEF RetryAfterSuffices
  <2> QED
    BY <2>2, <2>3 DEF RetryAfterSuffices
<1> QED
  BY <1>1, AdmissionInvariance, PTL
=============================================================================
