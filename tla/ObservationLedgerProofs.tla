----------------------- MODULE ObservationLedgerProofs -----------------------
(***************************************************************************)
(* Proofs about ObservationLedger, for any deliveries, sources, owners and *)
(* key ring.                                                               *)
(***************************************************************************)
EXTENDS ObservationLedger, TLAPS

(* What a handler holds at each step: the lock from its first read to its  *)
(* end, and a body that a key of the ring vouched for.                     *)
Life ==
    \A d \in Deliveries :
      /\ d \in lock <=> pc[d] \in {"find", "cursor", "insert"}
      /\ pc[d] \in {"lock", "find", "cursor", "insert"} => req[d] \in Body
      /\ reply[d].kind # "none" => pc[d] = "done"
      /\ req[d] \in Body =>
           /\ req[d].seq > 0
           /\ \E k \in KeyRing : k.source = req[d].source /\ k.owner = owner[d]

(* One transaction at a time reads and appends to a stream. *)
Exclusive ==
    \A d, e \in lock :
      owner[d] = owner[e] /\ req[d].source = req[e].source => d = e

(* A row is what the delivery it is receipted to carried. *)
RowsCarried ==
    \A r \in ledger :
      /\ r.body.seq > 0
      /\ req[r.receipt] = r.body
      /\ owner[r.receipt] = r.owner
      /\ pc[r.receipt] = "done"

(* A stream has every sequence below each of its records. *)
Dense ==
    \A r \in ledger : \A m \in 1 .. r.body.seq :
      \E q \in Stream(r.owner, r.body.source) : q.body.seq = m

(* What a transaction read still holds when it uses it. *)
ReadsHold ==
    \A d \in Deliveries :
      /\ pc[d] \in {"cursor", "insert"} => Recorded(d) = {}
      /\ pc[d] = "insert" => Follows(d, req[d].seq - 1, prior[d])

(* What an orderly source sent was sent in turn. *)
Discipline ==
    \A d \in Deliveries :
      req[d] \in Body /\ req[d].source \in Orderly =>
        /\ \A e \in Deliveries :
             /\ req[e] \in Body
             /\ req[e].source = req[d].source
             /\ req[e].event = req[d].event \/ req[e].seq = req[d].seq
             => req[e] = req[d]
        /\ req[d].seq > 1 => \E e \in Deliveries :
                               /\ Receipted(e)
                               /\ req[e].source = req[d].source
                               /\ req[e].seq = req[d].seq - 1

Inv ==
    /\ TypeOK
    /\ Life
    /\ Exclusive
    /\ RowsCarried
    /\ Dense
    /\ ReadsHold
    /\ Discipline
    /\ LedgerChained
    /\ ReceiptsHold
    /\ OrderlyNeverConflict

-----------------------------------------------------------------------------
(* The parts of a row and of a body have their types. *)
LEMMA BodyType ==
    ASSUME NEW b \in Body
    PROVE  b.source \in Sources /\ b.event \in EventIds /\ b.seq \in 0 .. I64Max
BY DEF Body

LEMMA RowType ==
    ASSUME TypeOK, NEW r \in ledger
    PROVE  /\ r.owner \in Owners /\ r.body \in Body /\ r.digest \in Seq(Body)
           /\ r.receipt \in Deliveries /\ r.at \in Nat
           /\ r.body.seq \in 0 .. I64Max
<1>1. r \in Row
  BY DEF TypeOK
<1> QED
  BY <1>1, BodyType DEF Row

(* A delivery whose stream does not change reads what it read before. *)
LEMMA SameView ==
    ASSUME NEW d \in Deliveries, req'[d] = req[d], owner'[d] = owner[d],
           \A r : r \in ledger' /\ r.owner = owner[d] /\ r.body.source = req[d].source
                  <=> r \in ledger /\ r.owner = owner[d] /\ r.body.source = req[d].source
    PROVE  /\ Own(d)' = Own(d)
           /\ Recorded(d)' = Recorded(d)
           /\ \A n, p : Follows(d, n, p)' <=> Follows(d, n, p)
<1>1. Own(d)' = Own(d)
  BY DEF Own, Stream
<1>2. Recorded(d)' = Recorded(d)
  BY <1>1 DEF Recorded
<1>3. \A n, p : Follows(d, n, p)' <=> Follows(d, n, p)
  BY <1>1 DEF Follows, IsLast
<1> QED
  BY <1>1, <1>2, <1>3

(* Initially nothing was delivered. *)
LEMMA InitInv == Init => Inv
<1> SUFFICES ASSUME Init PROVE Inv
  OBVIOUS
<1>0. NoBody \notin Body
  BY DEF NoBody, Body
<1>1. TypeOK
  BY DEF Init, TypeOK, NoBody, NoReply, ZERO_RECORD_DIGEST
<1>2. Life
  BY <1>0 DEF Init, Life, NoReply
<1>3. ReceiptsHold /\ OrderlyNeverConflict
  BY DEF Init, ReceiptsHold, OrderlyNeverConflict, Receipted, NoReply
<1>4. Discipline /\ ReadsHold
  BY <1>0 DEF Init, Discipline, ReadsHold
<1> QED
  BY <1>1, <1>2, <1>3, <1>4
  DEF Init, Inv, Exclusive, RowsCarried, Dense, LedgerChained

(* Time passes. *)
LEMMA TickInv == ASSUME Inv, Tick PROVE Inv'
<1> USE DEF Inv, Tick
<1>1. TypeOK'
  BY DEF TypeOK
<1>2. Life' /\ Exclusive'
  BY DEF Life, Exclusive
<1>3. RowsCarried' /\ Dense' /\ LedgerChained'
  BY DEF RowsCarried, Dense, LedgerChained, Stream
<1>4. ReadsHold'
  BY DEF ReadsHold, Recorded, Follows, Own, Stream
<1>5. Discipline' /\ ReceiptsHold' /\ OrderlyNeverConflict'
  BY DEF Discipline, ReceiptsHold, OrderlyNeverConflict, Receipted, Own, Stream
<1> QED
  BY <1>1, <1>2, <1>3, <1>4, <1>5

(* A refused request leaves everything but its answer alone. *)
LEMMA RejectInv ==
    ASSUME Inv, NEW d \in Deliveries, Reject(d)
    PROVE  Inv'
<1> USE DEF Inv, Reject
<1>1. TypeOK'
  BY DEF TypeOK, Refusal
<1>2a. Life'
  BY DEF Life, TypeOK
<1>2b. Exclusive'
  BY DEF Exclusive
<1>2. Life' /\ Exclusive'
  BY <1>2a, <1>2b
<1>3. RowsCarried' /\ Dense' /\ LedgerChained'
  BY RowType DEF RowsCarried, Dense, LedgerChained, Stream, TypeOK
<1>4. ReadsHold'
  <2>1. \A e \in Deliveries : /\ Recorded(e)' = Recorded(e)
                              /\ \A n, p : Follows(e, n, p)' <=> Follows(e, n, p)
    BY SameView
  <2>2. \A e \in Deliveries : pc'[e] \in {"cursor", "insert"} => pc'[e] = pc[e]
    BY DEF TypeOK
  <2> QED
    BY <2>1, <2>2 DEF ReadsHold
<1>5. \A e \in Deliveries : reply'[e].kind = (IF e = d THEN "rejected" ELSE reply[e].kind)
  BY DEF TypeOK
<1>6. ~Receipted(d)
  BY DEF Life, Receipted
<1>7. \A e \in Deliveries : Receipted(e)' <=> Receipted(e)
  BY <1>5, <1>6 DEF Receipted
<1>8. Discipline'
  BY <1>7 DEF Discipline
<1>9. ReceiptsHold'
  <2> SUFFICES ASSUME NEW e \in Deliveries, Receipted(e)'
               PROVE  \E r \in Own(e)' : /\ r.body = req'[e] /\ r.receipt = reply'[e].id
                                         /\ reply'[e].at \in {r.at, to_char(r.at)}
    BY DEF ReceiptsHold
  <2>1. Receipted(e) /\ e # d
    BY <1>6, <1>7
  <2>2. reply'[e] = reply[e]
    BY <2>1 DEF TypeOK
  <2> QED
    BY <2>1, <2>2 DEF ReceiptsHold, Own, Stream
<1>10. OrderlyNeverConflict'
  BY <1>5 DEF OrderlyNeverConflict
<1> QED
  BY <1>1, <1>2, <1>3, <1>4, <1>8, <1>9, <1>10

(* A delivery arrives: what it carries was sent in turn. *)
LEMMA ArriveInv ==
    ASSUME Inv, NEW d \in Deliveries, NEW k \in KeyRing, NEW b \in Body, Arrive(d, k, b)
    PROVE  Inv'
<1> USE DEF Inv
<1>0. /\ req' = [req EXCEPT ![d] = b]
      /\ owner' = [owner EXCEPT ![d] = k.owner]
      /\ pc' = [pc EXCEPT ![d] = "lock"]
      /\ at' = [at EXCEPT ![d] = clock]
      /\ pc[d] = "idle"
      /\ UNCHANGED <<clock, ledger, lock, prior, reply>>
      /\ k.source = b.source
      /\ b.seq > 0
      /\ k.owner \in Owners
  BY LedgerAssumption DEF Arrive, Accepts, Valid, KeyInput
<1>1. \A e \in Deliveries \ {d} : req'[e] = req[e] /\ owner'[e] = owner[e] /\ pc'[e] = pc[e]
  BY <1>0 DEF TypeOK
<1>2. req'[d] = b /\ owner'[d] = k.owner /\ pc'[d] = "lock"
  BY <1>0 DEF TypeOK
<1>3. TypeOK'
  BY <1>0 DEF TypeOK
<1>4. Life'
  BY <1>0, <1>1, <1>2 DEF Life
<1>5. d \notin lock
  BY <1>0 DEF Life
<1>6. Exclusive'
  <2> SUFFICES ASSUME NEW e \in lock, NEW f \in lock, owner'[e] = owner'[f],
                      req'[e].source = req'[f].source
               PROVE  e = f
    BY <1>0 DEF Exclusive
  <2>1. e \in Deliveries \ {d} /\ f \in Deliveries \ {d}
    BY <1>5 DEF TypeOK
  <2> QED
    BY <1>1, <2>1 DEF Exclusive
<1>7. RowsCarried'
  BY <1>0, <1>1, RowType DEF RowsCarried
<1>8. Dense' /\ LedgerChained'
  BY <1>0 DEF Dense, LedgerChained, Stream
<1>9. ReadsHold'
  <2>1. \A e \in Deliveries \ {d} : /\ Recorded(e)' = Recorded(e)
                                    /\ \A n, p : Follows(e, n, p)' <=> Follows(e, n, p)
    BY <1>0, <1>1, SameView
  <2> QED
    BY <1>0, <1>1, <1>2, <2>1 DEF ReadsHold
<1>10. ~Receipted(d)
  BY <1>0 DEF Life, Receipted
<1>11. \A e \in Deliveries : Receipted(e)' <=> Receipted(e)
  BY <1>0 DEF Receipted
<1>12. ReceiptsHold'
  BY <1>0, <1>1, <1>10, <1>11 DEF ReceiptsHold, Own, Stream
<1>13. OrderlyNeverConflict'
  <2>1. reply'[d].kind \notin {"event-conflict", "sequence-conflict"}
    BY <1>0 DEF Life
  <2> QED
    BY <1>0, <1>1, <2>1 DEF OrderlyNeverConflict
<1>14. Discipline'
  <2>1. b.source \in Orderly => InTurn(b)
    BY DEF Arrive, Sends
  <2> SUFFICES ASSUME NEW e \in Deliveries, req'[e] \in Body, req'[e].source \in Orderly
               PROVE  /\ \A f \in Deliveries :
                           /\ req'[f] \in Body
                           /\ req'[f].source = req'[e].source
                           /\ req'[f].event = req'[e].event \/ req'[f].seq = req'[e].seq
                           => req'[f] = req'[e]
                      /\ req'[e].seq > 1 => \E f \in Deliveries :
                             /\ Receipted(f)'
                             /\ req'[f].source = req'[e].source
                             /\ req'[f].seq = req'[e].seq - 1
    BY DEF Discipline
  <2>2. CASE e = d
    <3>1. InTurn(b)
      BY <1>2, <2>1, <2>2
    <3> QED
      BY <1>1, <1>2, <1>10, <1>11, <2>2, <3>1 DEF InTurn
  <2>3. CASE e # d
    <3>1. req'[e] = req[e]
      BY <1>1, <2>3
    <3>2. b.source = req[e].source => InTurn(b)
      BY <2>1, <3>1
    <3>3. \A f \in Deliveries \ {d} :
            /\ req[f] \in Body
            /\ req[f].source = req[e].source
            /\ req[f].event = req[e].event \/ req[f].seq = req[e].seq
            => req[f] = req[e]
      BY <3>1 DEF Discipline
    <3>4. req[e].seq > 1 => \E f \in Deliveries :
                             /\ Receipted(f)
                             /\ req[f].source = req[e].source
                             /\ req[f].seq = req[e].seq - 1
      BY <3>1 DEF Discipline
    <3>5. /\ b.source = req[e].source
          /\ b.event = req[e].event \/ b.seq = req[e].seq
          => b = req[e]
      BY <3>1, <3>2 DEF InTurn
    <3> QED
      BY <1>1, <1>2, <1>10, <1>11, <3>1, <3>3, <3>4, <3>5
  <2> QED
    BY <2>2, <2>3
<1> QED
  BY <1>3, <1>4, <1>6, <1>7, <1>8, <1>9, <1>12, <1>13, <1>14

(* A step that moves a handler on and leaves ledger, request and reply     *)
(* alone keeps everything said of those.                                   *)
LEMMA MoveInv ==
    ASSUME Inv, NEW d \in Deliveries, NEW s \in {"find", "cursor", "insert"},
           pc[d] \in {"lock", "find", "cursor", "insert"},
           pc' = [pc EXCEPT ![d] = s],
           UNCHANGED <<clock, ledger, req, owner, at, reply>>
    PROVE  RowsCarried' /\ Dense' /\ LedgerChained' /\ Discipline'
           /\ ReceiptsHold' /\ OrderlyNeverConflict'
<1> USE DEF Inv
<1>1. RowsCarried'
  BY RowType DEF RowsCarried, TypeOK
<1>2. Dense' /\ LedgerChained'
  BY DEF Dense, LedgerChained, Stream
<1>3. Discipline' /\ OrderlyNeverConflict'
  BY DEF Discipline, OrderlyNeverConflict, Receipted
<1>4. ReceiptsHold'
  BY DEF ReceiptsHold, Receipted, Own, Stream
<1> QED
  BY <1>1, <1>2, <1>3, <1>4

(* The lock is granted to one transaction per stream. *)
LEMMA TakeLockInv ==
    ASSUME Inv, NEW d \in Deliveries, TakeLock(d)
    PROVE  Inv'
<1> USE DEF Inv, TakeLock
<1>0. \A e \in Deliveries : pc'[e] = IF e = d THEN "find" ELSE pc[e]
  BY DEF TypeOK
<1>1. TypeOK'
  BY DEF TypeOK
<1>2. Life'
  BY <1>0 DEF Life
<1>3. Exclusive'
  <2> SUFFICES ASSUME NEW e \in lock \cup {d}, NEW f \in lock \cup {d},
                      owner[e] = owner[f], req[e].source = req[f].source
               PROVE  e = f
    BY DEF Exclusive
  <2>1. \A g \in lock : ~(owner[g] = owner[d] /\ req[g].source = req[d].source)
    BY DEF Rivals
  <2> QED
    BY <2>1 DEF Exclusive
<1>4. ReadsHold'
  <2>1. \A e \in Deliveries : /\ Recorded(e)' = Recorded(e)
                              /\ \A n, p : Follows(e, n, p)' <=> Follows(e, n, p)
    BY SameView
  <2> QED
    BY <1>0, <2>1 DEF ReadsHold
<1> QED
  BY <1>1, <1>2, <1>3, <1>4, MoveInv

(* The event is not recorded. *)
LEMMA FindNothingInv ==
    ASSUME Inv, NEW d \in Deliveries, FindNothing(d)
    PROVE  Inv'
<1> USE DEF Inv, FindNothing
<1>0. \A e \in Deliveries : pc'[e] = IF e = d THEN "cursor" ELSE pc[e]
  BY DEF TypeOK
<1>1. TypeOK'
  BY DEF TypeOK
<1>2. Life' /\ Exclusive'
  BY <1>0 DEF Life, Exclusive
<1>4. ReadsHold'
  <2>1. \A e \in Deliveries : /\ Recorded(e)' = Recorded(e)
                              /\ \A n, p : Follows(e, n, p)' <=> Follows(e, n, p)
    BY SameView
  <2> QED
    BY <1>0, <2>1 DEF ReadsHold
<1> QED
  BY <1>1, <1>2, <1>4, MoveInv

(* The stream's last record is the one the event follows. *)
LEMMA ReadCursorInv ==
    ASSUME Inv, NEW d \in Deliveries, ReadCursor(d)
    PROVE  Inv'
<1> USE DEF Inv
<1>0. /\ pc[d] = "cursor"
      /\ pc' = [pc EXCEPT ![d] = "insert"]
      /\ UNCHANGED <<clock, ledger, lock, req, owner, at, reply>>
  BY DEF ReadCursor
<1>p. PICK n \in 0 .. I64Max, p \in {ZERO_RECORD_DIGEST} \cup {r.digest : r \in Own(d)} :
         /\ Follows(d, n, p)
         /\ Expected(n, req[d].seq)
         /\ prior' = [prior EXCEPT ![d] = p]
  BY DEF ReadCursor
<1>q. p \in Seq(Body)
  <2>1. \A r \in Own(d) : r.digest \in Seq(Body)
    BY RowType DEF Own, Stream
  <2>2. <<>> \in Seq(Body)
    OBVIOUS
  <2> QED
    BY <2>1, <2>2 DEF ZERO_RECORD_DIGEST
<1>r. req[d] \in Body /\ n = req[d].seq - 1
  <2>1. req[d] \in Body
    BY <1>0 DEF Life
  <2>2. req[d].seq \in 0 .. I64Max
    BY <2>1, BodyType
  <2> QED
    BY <1>p, <2>1, <2>2, LedgerAssumption DEF Expected
<1>s. \A e \in Deliveries : pc'[e] = IF e = d THEN "insert" ELSE pc[e]
  BY <1>0 DEF TypeOK
<1>t. \A e \in Deliveries : prior'[e] = IF e = d THEN p ELSE prior[e]
  BY <1>p DEF TypeOK
<1>1. TypeOK'
  BY <1>0, <1>p, <1>q DEF TypeOK
<1>2. Life' /\ Exclusive'
  BY <1>0, <1>s DEF Life, Exclusive
<1>4. ReadsHold'
  <2>1. \A e \in Deliveries : /\ Recorded(e)' = Recorded(e)
                              /\ \A m, q : Follows(e, m, q)' <=> Follows(e, m, q)
    BY <1>0, SameView
  <2>2. Follows(d, req[d].seq - 1, p)
    BY <1>p, <1>r
  <2> SUFFICES ASSUME NEW e \in Deliveries
               PROVE  /\ pc'[e] \in {"cursor", "insert"} => Recorded(e)' = {}
                      /\ pc'[e] = "insert" => Follows(e, req[e].seq - 1, prior[e])'
    BY DEF ReadsHold
  <2>3. pc'[e] \in {"cursor", "insert"} => Recorded(e)' = {}
    BY <1>0, <1>s, <2>1 DEF ReadsHold
  <2>4. pc'[e] = "insert" => Follows(e, req[e].seq - 1, prior'[e])
    BY <1>0, <1>s, <1>t, <2>2 DEF ReadsHold
  <2> QED
    BY <1>0, <2>1, <2>3, <2>4
<1> QED
  BY <1>0, <1>1, <1>2, <1>4, MoveInv

(* A transaction that ends without appending. *)
LEMMA EndInv ==
    ASSUME Inv, NEW d \in Deliveries, NEW a \in Receipt \cup Refusal, End(d, a),
           ledger' = ledger,
           pc[d] \in {"lock", "find", "cursor", "insert"},
           a.kind \in {"accepted", "duplicate"} =>
             \E r \in Own(d) : /\ r.body = req[d] /\ r.receipt = a.id
                               /\ a.at \in {r.at, to_char(r.at)},
           a.kind \in {"event-conflict", "sequence-conflict"} => req[d].source \notin Orderly
    PROVE  Inv'
<1> USE DEF Inv, End
<1>0. \A e \in Deliveries : /\ pc'[e] = IF e = d THEN "done" ELSE pc[e]
                            /\ reply'[e] = IF e = d THEN a ELSE reply[e]
  BY DEF TypeOK
<1>1. TypeOK'
  BY DEF TypeOK
<1>2. Life'
  BY <1>0 DEF Life
<1>3. Exclusive'
  BY DEF Exclusive
<1>4. RowsCarried'
  BY <1>0, RowType DEF RowsCarried
<1>5. Dense' /\ LedgerChained'
  BY DEF Dense, LedgerChained, Stream
<1>6. \A e \in Deliveries : /\ Own(e)' = Own(e)
                            /\ Recorded(e)' = Recorded(e)
                            /\ \A n, p : Follows(e, n, p)' <=> Follows(e, n, p)
  BY SameView
<1>7. ReadsHold'
  BY <1>0, <1>6 DEF ReadsHold
<1>8. ~Receipted(d)
  BY DEF Life, Receipted
<1>9. Discipline'
  <2>1. \A e \in Deliveries : Receipted(e) => Receipted(e)'
    BY <1>0, <1>8 DEF Receipted
  <2> QED
    BY <2>1 DEF Discipline
<1>10. ReceiptsHold'
  BY <1>0, <1>6 DEF ReceiptsHold, Receipted
<1>11. OrderlyNeverConflict'
  BY <1>0 DEF OrderlyNeverConflict
<1> QED
  BY <1>1, <1>2, <1>3, <1>4, <1>5, <1>7, <1>9, <1>10, <1>11

(* What a delivery's stream holds is owned by the key of its source: two   *)
(* deliveries of one orderly source have one stream.                       *)
LEMMA OneOwner ==
    ASSUME Inv, NEW d \in Deliveries, NEW e \in Deliveries,
           req[d] \in Body, req[e] \in Body,
           req[d].source \in Orderly, req[e].source = req[d].source
    PROVE  owner[e] = owner[d]
BY LedgerAssumption DEF Inv, Life

(* An orderly source's event is recorded with the body it was sent with. *)
LEMMA OrderlyEvents ==
    ASSUME Inv, NEW d \in Deliveries, req[d] \in Body, req[d].source \in Orderly,
           NEW r \in Own(d),
           r.body.event = req[d].event \/ r.body.seq = req[d].seq
    PROVE  r.body = req[d]
<1>1. r \in ledger /\ r.body.source = req[d].source
  BY DEF Own, Stream
<1>2. r.receipt \in Deliveries /\ r.body \in Body
  BY <1>1, RowType DEF Inv
<1>3. req[r.receipt] = r.body
  BY <1>1 DEF Inv, RowsCarried
<1> QED
  BY <1>1, <1>2, <1>3 DEF Inv, Discipline

(* An orderly source's next event follows its stream's last record. *)
LEMMA OrderlyNext ==
    ASSUME Inv, NEW d \in Deliveries, req[d].source \in Orderly, pc[d] = "cursor",
           NEW n \in 0 .. I64Max, NEW p, Follows(d, n, p)
    PROVE  Expected(n, req[d].seq)
<1> USE DEF Inv
<1>1. req[d] \in Body /\ req[d].seq \in 1 .. I64Max
  BY BodyType DEF Life
<1>2. Recorded(d) = {}
  BY DEF ReadsHold
<1>3. \A r \in Own(d) : r.body.seq # req[d].seq
  <2> SUFFICES ASSUME NEW r \in Own(d), r.body.seq = req[d].seq PROVE FALSE
    OBVIOUS
  <2>1. r.body = req[d]
    BY <1>1, OrderlyEvents
  <2> QED
    BY <1>2, <2>1 DEF Recorded
<1>4. req[d].seq > 1 => \E r \in Own(d) : r.body.seq = req[d].seq - 1
  <2> HAVE req[d].seq > 1
  <2>1. PICK e \in Deliveries : /\ Receipted(e)
                                /\ req[e].source = req[d].source
                                /\ req[e].seq = req[d].seq - 1
    BY <1>1 DEF Discipline
  <2>2. PICK r \in Own(e) : r.body = req[e]
    BY <2>1 DEF ReceiptsHold
  <2>3. r \in ledger /\ r.owner = owner[e] /\ r.body.source = req[e].source
    BY <2>2 DEF Own, Stream
  <2>4. req[e] \in Body
    BY <2>2, <2>3, RowType
  <2>5. owner[e] = owner[d]
    BY <1>1, <2>1, <2>4, OneOwner
  <2> QED
    BY <2>1, <2>2, <2>3, <2>5 DEF Own, Stream
<1>5. CASE Own(d) = {} /\ n = 0
  BY <1>1, <1>4, <1>5, LedgerAssumption DEF Expected
<1>6. CASE \E r \in Own(d) : IsLast(r, Own(d)) /\ n = r.body.seq
  <2>1. PICK r \in Own(d) : IsLast(r, Own(d)) /\ n = r.body.seq
    BY <1>6
  <2>2. r \in ledger /\ r.owner = owner[d] /\ r.body.source = req[d].source
    BY DEF Own, Stream
  <2>3. ~(req[d].seq <= n)
    <3> SUFFICES ASSUME req[d].seq <= n PROVE FALSE
      OBVIOUS
    <3>1. req[d].seq \in 1 .. r.body.seq
      BY <1>1, <2>1
    <3>2. PICK q \in Stream(r.owner, r.body.source) : q.body.seq = req[d].seq
      BY <2>2, <3>1 DEF Dense
    <3>3. q \in Own(d)
      BY <2>2, <3>2 DEF Own
    <3> QED
      BY <1>3, <3>2, <3>3
  <2>4. req[d].seq > 1 => req[d].seq - 1 <= n
    BY <1>4, <2>1 DEF IsLast
  <2> QED
    BY <1>1, <2>3, <2>4, LedgerAssumption DEF Expected
<1> QED
  BY <1>5, <1>6 DEF Follows

(* A record is appended to the stream whose lock its transaction holds. *)
LEMMA AppendInv ==
    ASSUME Inv, NEW d \in Deliveries, NEW a \in Receipt \cup Refusal, Insert(d), End(d, a),
           a.kind \notin {"event-conflict", "sequence-conflict"},
           a.kind \in {"accepted", "duplicate"} => a.id = d /\ a.at = at[d]
    PROVE  Inv'
<1> USE DEF Inv
<1> DEFINE z == NewRow(d)
<1>0. /\ pc[d] = "insert"
      /\ ledger' = ledger \cup {z}
      /\ pc' = [pc EXCEPT ![d] = "done"]
      /\ lock' = lock \ {d}
      /\ reply' = [reply EXCEPT ![d] = a]
      /\ UNCHANGED <<clock, req, owner, at, prior>>
  BY DEF Insert, End
<1>1. \A e \in Deliveries : /\ pc'[e] = IF e = d THEN "done" ELSE pc[e]
                            /\ reply'[e] = IF e = d THEN a ELSE reply[e]
  BY <1>0 DEF TypeOK
<1>2. /\ req[d] \in Body
      /\ req[d].seq \in 1 .. I64Max
      /\ prior[d] \in Seq(Body)
      /\ owner[d] \in Owners
      /\ at[d] \in Nat
      /\ d \in lock
  <2>1. req[d] \in Body /\ d \in lock
    BY <1>0 DEF Life
  <2>2. PICK k \in KeyRing : k.owner = owner[d]
    BY <2>1 DEF Life
  <2>3. owner[d] \in Owners
    BY <2>2, LedgerAssumption DEF KeyInput
  <2>4. req[d].seq \in 1 .. I64Max
    BY <2>1, BodyType DEF Life
  <2> QED
    BY <2>1, <2>3, <2>4 DEF TypeOK
<1>3. /\ z.owner = owner[d]
      /\ z.body = req[d]
      /\ z.prior = prior[d]
      /\ z.digest = record_digest(prior[d], req[d])
      /\ z.receipt = d /\ z.at = at[d]
  BY DEF NewRow
<1>4. z \in Row
  <2>1. record_digest(prior[d], req[d]) \in Seq(Body)
    BY <1>2 DEF record_digest
  <2> QED
    BY <1>2, <2>1 DEF NewRow, Row
<1> HIDE DEF z
<1>5. TypeOK'
  BY <1>0, <1>4 DEF TypeOK
<1>6. Life'
  BY <1>0, <1>1 DEF Life
<1>7. Exclusive'
  BY <1>0 DEF Exclusive
<1>8. RowsCarried'
  <2>1. \A r \in ledger : r.receipt \in Deliveries
    BY RowType
  <2> QED
    BY <1>0, <1>1, <1>2, <1>3, <2>1 DEF RowsCarried
<1>9. \A r : r \in Own(d) <=> /\ r \in ledger
                              /\ r.owner = z.owner
                              /\ r.body.source = z.body.source
  BY <1>3 DEF Own, Stream
<1>10. /\ \A r \in Own(d) : r.body.seq < z.body.seq /\ r.body.event # z.body.event
       /\ z.body.seq = 1 => z.prior = ZERO_RECORD_DIGEST
       /\ z.body.seq # 1 => \E r \in Own(d) : r.body.seq = z.body.seq - 1 /\ r.digest = z.prior
  <2>1. Follows(d, req[d].seq - 1, prior[d]) /\ Recorded(d) = {}
    BY <1>0 DEF ReadsHold
  <2>2. \A r \in Own(d) : r.body.seq \in 0 .. I64Max /\ r.body.seq > 0
    BY RowType DEF RowsCarried, Own, Stream
  <2>3. \A r \in Own(d) : r.body.event # z.body.event
    BY <1>3, <2>1 DEF Recorded
  <2>4. CASE Own(d) = {} /\ req[d].seq - 1 = 0 /\ prior[d] = ZERO_RECORD_DIGEST
    BY <1>2, <1>3, <2>4
  <2>5. CASE \E r \in Own(d) : /\ IsLast(r, Own(d))
                               /\ req[d].seq - 1 = r.body.seq
                               /\ prior[d] = r.digest
    BY <1>2, <1>3, <2>2, <2>3, <2>5 DEF IsLast
  <2> QED
    BY <2>1, <2>4, <2>5 DEF Follows
<1>11. z.body \in Body /\ z.body.seq \in 1 .. I64Max
  BY <1>2, <1>3
<1>12. \A r \in ledger : r.body.seq \in 1 .. I64Max
  BY RowType DEF RowsCarried
<1>13. Dense'
  <2> SUFFICES ASSUME NEW r \in ledger', NEW m \in 1 .. r.body.seq
               PROVE  \E q \in ledger' : /\ q.owner = r.owner
                                         /\ q.body.source = r.body.source
                                         /\ q.body.seq = m
    BY DEF Dense, Stream
  <2>1. \A q \in ledger : \A i \in 1 .. q.body.seq :
          \E y \in ledger : /\ y.owner = q.owner
                            /\ y.body.source = q.body.source
                            /\ y.body.seq = i
    BY DEF Dense, Stream
  <2>2. CASE r \in ledger
    BY <1>0, <2>1, <2>2
  <2>3. CASE r = z /\ m = z.body.seq
    BY <1>0, <2>3
  <2>4. CASE r = z /\ m # z.body.seq
    <3>1. z.body.seq # 1 /\ m \in 1 .. (z.body.seq - 1)
      BY <1>11, <2>4
    <3>2. PICK q \in Own(d) : q.body.seq = z.body.seq - 1
      BY <1>10, <3>1
    <3>3. q \in ledger /\ q.owner = z.owner /\ q.body.source = z.body.source
      BY <1>9
    <3> QED
      BY <1>0, <2>1, <2>4, <3>1, <3>2, <3>3
  <2> QED
    BY <1>0, <2>2, <2>3, <2>4
<1>14. LedgerChained'
  <2> SUFFICES ASSUME NEW r \in ledger'
               PROVE  /\ r.digest = record_digest(r.prior, r.body)
                      /\ r.body.seq = 1 => r.prior = ZERO_RECORD_DIGEST
                      /\ r.body.seq # 1 =>
                           \E q \in ledger' : /\ q.owner = r.owner
                                              /\ q.body.source = r.body.source
                                              /\ q.body.seq = r.body.seq - 1
                                              /\ q.digest = r.prior
                      /\ \A q \in ledger' :
                           /\ q.owner = r.owner
                           /\ q.body.source = r.body.source
                           /\ q.body.event = r.body.event \/ q.body.seq = r.body.seq
                           => q = r
    BY DEF LedgerChained, Stream
  <2>1. \A y \in ledger :
          /\ y.digest = record_digest(y.prior, y.body)
          /\ y.body.seq = 1 => y.prior = ZERO_RECORD_DIGEST
          /\ y.body.seq # 1 => \E q \in ledger : /\ q.owner = y.owner
                                                 /\ q.body.source = y.body.source
                                                 /\ q.body.seq = y.body.seq - 1
                                                 /\ q.digest = y.prior
          /\ \A q \in ledger :
               /\ q.owner = y.owner
               /\ q.body.source = y.body.source
               /\ q.body.event = y.body.event \/ q.body.seq = y.body.seq
               => q = y
    BY DEF LedgerChained, Stream
  <2>2. \A y \in ledger :
          y.owner = z.owner /\ y.body.source = z.body.source =>
            y.body.event # z.body.event /\ y.body.seq # z.body.seq
    BY <1>9, <1>10, <1>11, <1>12
  <2>3. CASE r \in ledger
    BY <1>0, <2>1, <2>2, <2>3
  <2>4. CASE r = z
    <3>1. z.digest = record_digest(z.prior, z.body)
      BY <1>3
    <3>2. z.body.seq # 1 => \E q \in ledger : /\ q.owner = z.owner
                                              /\ q.body.source = z.body.source
                                              /\ q.body.seq = z.body.seq - 1
                                              /\ q.digest = z.prior
      BY <1>9, <1>10
    <3> QED
      BY <1>0, <1>10, <2>2, <2>4, <3>1, <3>2
  <2> QED
    BY <1>0, <2>3, <2>4
<1>15. ReadsHold'
  <2> SUFFICES ASSUME NEW e \in Deliveries, pc'[e] \in {"cursor", "insert"}
               PROVE  /\ Recorded(e)' = {}
                      /\ pc'[e] = "insert" => Follows(e, req[e].seq - 1, prior[e])'
    BY DEF ReadsHold
  <2>1. e # d /\ pc'[e] = pc[e]
    BY <1>1
  <2>2. e \in lock
    BY <2>1 DEF Life
  <2>3. ~(z.owner = owner[e] /\ z.body.source = req[e].source)
    BY <1>2, <1>3, <2>1, <2>2 DEF Exclusive
  <2>4. /\ Recorded(e)' = Recorded(e)
        /\ \A n, p : Follows(e, n, p)' <=> Follows(e, n, p)
    BY <1>0, <2>3, SameView
  <2> QED
    BY <1>0, <2>1, <2>4 DEF ReadsHold
<1>16. ~Receipted(d)
  BY <1>0 DEF Life, Receipted
<1>17. Discipline'
  <2>1. \A e \in Deliveries : Receipted(e) => Receipted(e)'
    BY <1>1, <1>16 DEF Receipted
  <2> QED
    BY <1>0, <2>1 DEF Discipline
<1>18. ReceiptsHold'
  <2> SUFFICES ASSUME NEW e \in Deliveries, Receipted(e)'
               PROVE  \E r \in ledger' : /\ r.owner = owner[e]
                                         /\ r.body.source = req[e].source
                                         /\ r.body = req[e]
                                         /\ r.receipt = reply'[e].id
                                         /\ reply'[e].at \in {r.at, to_char(r.at)}
    BY <1>0 DEF ReceiptsHold, Own, Stream
  <2>1. CASE e = d
    BY <1>0, <1>1, <1>3, <2>1 DEF Receipted
  <2>2. CASE e # d
    BY <1>0, <1>1, <2>2 DEF Receipted, ReceiptsHold, Own, Stream
  <2> QED
    BY <2>1, <2>2
<1>19. OrderlyNeverConflict'
  BY <1>0, <1>1 DEF OrderlyNeverConflict
<1> QED
  BY <1>5, <1>6, <1>7, <1>8, <1>13, <1>14, <1>15, <1>17, <1>18, <1>19

(* The receipts and refusals of the handlers have their types. *)
LEMMA Answers ==
    /\ \A i \in Deliveries, n \in Nat, s \in {"accepted", "duplicate"} :
         /\ [kind |-> s, id |-> i, at |-> to_char(n)] \in Receipt
         /\ [kind |-> s, id |-> i, at |-> n] \in Receipt
    /\ \A s \in {"event-conflict", "sequence-conflict", "unavailable"} :
         [kind |-> s] \in Refusal
<1>1. \A n \in Nat : to_char(n) \in Nat
  BY DEF to_char
<1> QED
  BY <1>1 DEF Receipt, Refusal

(* Every step keeps the invariant. *)
LEMMA NextInv == Inv /\ [Next]_vars => Inv'
<1> SUFFICES ASSUME Inv, [Next]_vars PROVE Inv'
  OBVIOUS
<1>1. CASE Tick
  BY <1>1, TickInv
<1>2. ASSUME NEW d \in Deliveries, NEW k \in KeyRing, NEW b \in Body, Arrive(d, k, b)
      PROVE  Inv'
  BY <1>2, ArriveInv
<1>3. ASSUME NEW d \in Deliveries, Reject(d)
      PROVE  Inv'
  BY <1>3, RejectInv
<1>4. ASSUME NEW d \in Deliveries, TakeLock(d)
      PROVE  Inv'
  BY <1>4, TakeLockInv
<1>5. ASSUME NEW d \in Deliveries, Abort(d)
      PROVE  Inv'
  <2>1. pc[d] \in {"lock", "find", "cursor", "insert"}
    BY <1>5 DEF Abort, Inv, TypeOK
  <2>2. [kind |-> "unavailable"] \in Receipt \cup Refusal
    BY Answers
  <2> QED
    BY <1>5, <2>1, <2>2, EndInv DEF Abort
<1>6. ASSUME NEW d \in Deliveries, FindNothing(d)
      PROVE  Inv'
  BY <1>6, FindNothingInv
<1>7. ASSUME NEW d \in Deliveries, Duplicate(d)
      PROVE  Inv'
  <2>1. PICK r \in Recorded(d) :
          /\ Matches(d, r)
          /\ End(d, [kind |-> "duplicate", id |-> r.receipt, at |-> to_char(r.at)])
    BY <1>7 DEF Duplicate
  <2>2. r \in Own(d) /\ r \in ledger /\ r.body = req[d]
    BY <2>1 DEF Recorded, Own, Stream, Matches
  <2>3. r.receipt \in Deliveries /\ r.at \in Nat
    BY <2>2, RowType DEF Inv
  <2>4. [kind |-> "duplicate", id |-> r.receipt, at |-> to_char(r.at)] \in Receipt
    BY <2>3, Answers
  <2>5. pc[d] = "find" /\ ledger' = ledger
    BY <1>7 DEF Duplicate
  <2> QED
    BY <2>1, <2>2, <2>4, <2>5, EndInv
<1>8. ASSUME NEW d \in Deliveries, EventConflict(d)
      PROVE  Inv'
  <2>1. pc[d] = "find" /\ ledger' = ledger /\ End(d, [kind |-> "event-conflict"])
    BY <1>8 DEF EventConflict
  <2>2. PICK r \in Recorded(d) : ~Matches(d, r)
    BY <1>8 DEF EventConflict
  <2>3. r \in Own(d) /\ r.body.event = req[d].event
    BY <2>2 DEF Recorded
  <2>4. req[d] \in Body
    BY <2>1 DEF Inv, Life
  <2>5. req[d].source \notin Orderly
    BY <2>2, <2>3, <2>4, OrderlyEvents DEF Matches
  <2>6. [kind |-> "event-conflict"] \in Receipt \cup Refusal
    BY Answers
  <2> QED
    BY <2>1, <2>5, <2>6, EndInv
<1>9. ASSUME NEW d \in Deliveries, ReadCursor(d)
      PROVE  Inv'
  BY <1>9, ReadCursorInv
<1>10. ASSUME NEW d \in Deliveries, SequenceConflict(d)
       PROVE  Inv'
  <2>1. pc[d] = "cursor" /\ ledger' = ledger /\ End(d, [kind |-> "sequence-conflict"])
    BY <1>10 DEF SequenceConflict
  <2>2. PICK n \in 0 .. I64Max, p \in {ZERO_RECORD_DIGEST} \cup {r.digest : r \in Own(d)} :
          Follows(d, n, p) /\ ~Expected(n, req[d].seq)
    BY <1>10 DEF SequenceConflict
  <2>3. req[d].source \notin Orderly
    BY <2>1, <2>2, OrderlyNext
  <2>4. [kind |-> "sequence-conflict"] \in Receipt \cup Refusal
    BY Answers
  <2> QED
    BY <2>1, <2>3, <2>4, EndInv
<1>11. ASSUME NEW d \in Deliveries, Commit(d)
       PROVE  Inv'
  <2>1. at[d] \in Nat
    BY DEF Inv, TypeOK
  <2>2. [kind |-> "accepted", id |-> d, at |-> at[d]] \in Receipt
    BY <2>1, Answers
  <2> QED
    BY <1>11, <2>2, AppendInv DEF Commit
<1>12. ASSUME NEW d \in Deliveries, CommitUnacked(d)
       PROVE  Inv'
  <2>1. [kind |-> "unavailable"] \in Receipt \cup Refusal
    BY Answers
  <2> QED
    BY <1>12, <2>1, AppendInv DEF CommitUnacked
<1>13. CASE UNCHANGED vars
  <2> USE <1>13 DEF vars
  <2>1. TypeOK' /\ Life' /\ Exclusive'
    BY DEF Inv, TypeOK, Life, Exclusive
  <2>2. RowsCarried' /\ Dense' /\ LedgerChained'
    BY DEF Inv, RowsCarried, Dense, LedgerChained, Stream
  <2>3. ReadsHold'
    BY DEF Inv, ReadsHold, Recorded, Follows, Own, Stream
  <2>4. Discipline' /\ ReceiptsHold' /\ OrderlyNeverConflict'
    BY DEF Inv, Discipline, ReceiptsHold, OrderlyNeverConflict, Receipted, Own, Stream
  <2> QED
    BY <2>1, <2>2, <2>3, <2>4 DEF Inv
<1> QED
  BY <1>1, <1>2, <1>3, <1>4, <1>5, <1>6, <1>7, <1>8, <1>9, <1>10, <1>11, <1>12, <1>13
  DEF Next

(* The invariant holds throughout. *)
LEMMA AlwaysInv == Spec => []Inv
BY InitInv, NextInv, PTL DEF Spec

(* Every stream of the ledger is one gapless chain of digests, whatever    *)
(* deliveries race, fail or are repeated.                                  *)
THEOREM LedgerIsChained == Spec => []LedgerChained
<1>1. Inv => LedgerChained
  BY DEF Inv
<1> QED
  BY <1>1, AlwaysInv, PTL

(* A receipt is for a committed record, and the same one at every retry. *)
THEOREM ReceiptsAreDurable == Spec => []ReceiptsHold
<1>1. Inv => ReceiptsHold
  BY DEF Inv
<1> QED
  BY <1>1, AlwaysInv, PTL

(* A handler violates no unique constraint of the table at its insert. *)
THEOREM InsertsAlwaysFit == Spec => []InsertsFit
<1>1. Inv => InsertsFit
  <2> SUFFICES ASSUME Inv, NEW d \in Deliveries, pc[d] = "insert", NEW r \in Own(d),
                      r.body.event = req[d].event \/ r.body.seq = req[d].seq
               PROVE  FALSE
    BY DEF InsertsFit, Collides
  <2>1. Recorded(d) = {} /\ Follows(d, req[d].seq - 1, prior[d])
    BY DEF Inv, ReadsHold
  <2>2. r.body.event # req[d].event
    BY <2>1 DEF Recorded
  <2>3. req[d] \in Body
    BY DEF Inv, Life
  <2>4. req[d].seq \in 0 .. I64Max
    BY <2>3, BodyType
  <2>5. r.body.seq <= req[d].seq - 1
    BY <2>1 DEF Follows, IsLast
  <2> QED
    BY <2>2, <2>4, <2>5, LedgerAssumption
<1> QED
  BY <1>1, AlwaysInv, PTL

(* A source that waits for each receipt before its next event never meets  *)
(* a conflict.                                                             *)
THEOREM OrderlySourcesNeverConflict == Spec => []OrderlyNeverConflict
<1>1. Inv => OrderlyNeverConflict
  BY DEF Inv
<1> QED
  BY <1>1, AlwaysInv, PTL
=============================================================================
