----------------------------- MODULE GrcProofs -----------------------------
(***************************************************************************)
(* What a tenant is told of its assessments and of its work queue.         *)
(*                                                                         *)
(* Assessments, for any capacity, any number of keys and any interleaving  *)
(* with quote handlers.  The invariant adds two facts to the properties.   *)
(* Known: the key of a held assessment names it, or a quote; so an unused  *)
(* key has no record held, and recording it anew duplicates nothing.       *)
(* KeysDiffer: no two held assessments have the same key; so forgetting    *)
(* the evicted one's key leaves the other records known.                   *)
(*                                                                         *)
(* GrcWorkQueue, for any tables, intervals and limit.  The page is honest  *)
(* because its order is strict and total: every row that matches has a     *)
(* number of rows before it that is its own.                               *)
(***************************************************************************)
EXTENDS Assessments, GrcWorkQueue, FiniteSetTheorems, TLAPS

-----------------------------------------------------------------------------
(* Assessments *)

Known ==
    \A n \in 1..Len(store) :
        \/ idem[store[n].key] = QuoteOp
        \/ /\ idem[store[n].key].kind = "assessment"
           /\ idem[store[n].key].id = store[n].id

KeysDiffer == \A m, n \in 1..Len(store) : store[m].key = store[n].key => m = n

Inv == TypeOK /\ LatestHeld /\ NoDanglingKeys /\ Known /\ KeysDiffer

-----------------------------------------------------------------------------
(* What Record leaves in the store: the old records but for an evicted     *)
(* first one, shifted, and the new one.                                    *)
Shift == IF Full THEN 1 ELSE 0

LEMMA Stored ==
    ASSUME TypeOK, LatestHeld, NEW a \in Assessment, store' = Append(Kept, a)
    PROVE  /\ store' \in Seq(Assessment)
           /\ Shift \in {0, 1}
           /\ Shift = 1 <=> Full
           /\ Full => Len(store) = Capacity /\ Len(store) > 0
           /\ Len(store') = Len(store) - Shift + 1
           /\ \A n \in 1..Len(store) - Shift : store'[n] = store[n + Shift]
           /\ store'[Len(store')] = a
<1>1. /\ Len(store) \in Nat /\ Capacity \in Nat \ {0} /\ lastId \in Nat
      /\ store \in Seq(Assessment)
  BY AssessmentAssumption DEF TypeOK
<1>2. Len(store) <= Capacity
  BY <1>1 DEF LatestHeld
<1>3. CASE Full
  <2>1. Len(store) = Capacity /\ store # <<>>
    BY <1>1, <1>2, <1>3 DEF Full
  <2>2. Kept = Tail(store) /\ Shift = 1
    BY <1>3 DEF Kept, Shift
  <2>3. /\ Tail(store) \in Seq(Assessment)
        /\ Len(Tail(store)) = Len(store) - 1
        /\ \A n \in 1..Len(store) - 1 : Tail(store)[n] = store[n + 1]
    BY <1>1, <2>1
  <2> QED
    BY <1>1, <1>3, <2>1, <2>2, <2>3
<1>4. CASE ~Full
  <2>1. Kept = store /\ Shift = 0
    BY <1>4 DEF Kept, Shift
  <2> QED
    BY <1>1, <1>4, <2>1
<1> QED
  BY <1>3, <1>4

(* The positions of the old records that stay. *)
LEMMA StaysOrLeaves ==
    ASSUME TypeOK, LatestHeld, NEW a \in Assessment, store' = Append(Kept, a),
           NEW n \in 1..Len(store)
    PROVE  \/ Full /\ n = 1
           \/ n - Shift \in 1..Len(store) - Shift /\ store'[n - Shift] = store[n]
BY Stored DEF TypeOK

-----------------------------------------------------------------------------
LEMMA InitInv == Init => Inv
BY AssessmentAssumption
   DEF Init, Inv, TypeOK, LatestHeld, NoDanglingKeys, Known, KeysDiffer, Op, NoOp, QuoteOp

(* How a step of Record changes the map. *)
LEMMA Mapped ==
    ASSUME Inv, NEW k \in Keys, NEW r \in Requests, Record(k, r)
    PROVE  /\ lastId' \in Ids
           /\ AssessmentOp(lastId', r) \in Op
           /\ idem' \in [Keys -> Op]
           /\ idem'[k] = AssessmentOp(lastId', r)
           /\ \A l \in Keys \ {k} :
                 idem'[l] = IF Full /\ l = store[1].key /\ idem[l].kind = "assessment"
                                    /\ idem[l].id = store[1].id
                            THEN NoOp ELSE idem[l]
           /\ Full => store[1] \in Assessment /\ store[1].key # k
<1> DEFINE new == AssessmentOp(lastId', r)
           ops == [idem EXCEPT ![k] = new]
<1>1. lastId \in Nat /\ idem \in [Keys -> Op] /\ store \in Seq(Assessment)
  BY DEF Inv, TypeOK
<1>2. lastId' = lastId + 1 /\ idem[k] = NoOp /\ idem' = Forget(ops)
  BY DEF Record
<1>3. lastId' \in Ids /\ new \in Op /\ NoOp \in Op
  BY <1>1, <1>2 DEF Ids, AssessmentOp, Op
<1>4. ops \in [Keys -> Op] /\ ops[k] = new /\ \A l \in Keys \ {k} : ops[l] = idem[l]
  BY <1>1, <1>3
<1>5. ASSUME Full
      PROVE  Head(store) = store[1] /\ store[1] \in Assessment /\ store[1].key \in Keys
             /\ store[1].key # k
  <2>1. Len(store) >= 1
    BY <1>1, <1>5, AssessmentAssumption DEF Full
  <2>2. store[1] \in Assessment /\ Head(store) = store[1]
    BY <1>1, <2>1
  <2>3. idem[store[1].key] # NoOp
    BY <1>1, <2>1 DEF Inv, Known, NoOp, QuoteOp
  <2> QED
    BY <1>2, <2>2, <2>3 DEF Assessment
<1>6. CASE Full /\ ops[store[1].key].kind = "assessment" /\ ops[store[1].key].id = store[1].id
  <2>1. idem' = [ops EXCEPT ![store[1].key] = NoOp]
    BY <1>2, <1>5, <1>6 DEF Forget
  <2> QED
    BY <1>3, <1>4, <1>5, <1>6, <2>1
<1>7. CASE ~(Full /\ ops[store[1].key].kind = "assessment" /\ ops[store[1].key].id = store[1].id)
  <2>1. idem' = ops
    BY <1>2, <1>5, <1>7 DEF Forget
  <2> QED
    BY <1>3, <1>4, <1>5, <1>7, <2>1
<1> QED
  BY <1>6, <1>7

LEMMA RecordKeepsInv ==
    ASSUME Inv, NEW k \in Keys, NEW r \in Requests, Record(k, r)
    PROVE  Inv'
<1> DEFINE a == [id |-> lastId', key |-> k]
<1>1. /\ lastId \in Nat /\ lastId' = lastId + 1 /\ lastId' \in Ids
      /\ store \in Seq(Assessment) /\ idem[k] = NoOp
      /\ store' = Append(Kept, a) /\ a \in Assessment
  BY Mapped DEF Inv, TypeOK, Record, Assessment
<1>2. TypeOK /\ LatestHeld
  BY DEF Inv
<1>3. /\ store' \in Seq(Assessment)
      /\ Shift \in {0, 1}
      /\ Shift = 1 <=> Full
      /\ Full => Len(store) = Capacity /\ Len(store) > 0
      /\ Len(store') = Len(store) - Shift + 1
      /\ \A n \in 1..Len(store) - Shift : store'[n] = store[n + Shift]
      /\ store'[Len(store')] = a
  BY <1>1, <1>2, Stored
<1>4. Len(store) \in Nat /\ Capacity \in Nat \ {0}
  BY <1>1, AssessmentAssumption
<1>m. /\ idem' \in [Keys -> Op]
      /\ idem'[k] = AssessmentOp(lastId', r)
      /\ idem'[k].kind = "assessment" /\ idem'[k].id = lastId'
  <2>1. idem' \in [Keys -> Op] /\ idem'[k] = AssessmentOp(lastId', r)
    BY Mapped
  <2> QED
    BY <2>1 DEF AssessmentOp
<1>5. TypeOK'
  <2>1. answers' \in [Keys -> SUBSET Ids]
    BY <1>1, <1>2 DEF TypeOK, Record, Answer
  <2> QED
    BY <1>1, <1>2, <1>3, <1>m, <2>1 DEF TypeOK, Record, Ids
<1>6. LatestHeld'
  <2>1. Len(store') = IF lastId' < Capacity THEN lastId' ELSE Capacity
    BY <1>1, <1>2, <1>3, <1>4 DEF LatestHeld, Full
  <2>2. ASSUME NEW n \in 1..Len(store')
        PROVE  store'[n].id = lastId' - Len(store') + n
    <3>1. CASE n = Len(store')
      BY <1>1, <1>3, <1>4, <3>1
    <3>2. CASE n \in 1..Len(store) - Shift
      <4>1. n + Shift \in 1..Len(store)
        BY <1>3, <1>4, <3>2
      <4>2. store'[n].id = lastId - Len(store) + (n + Shift)
        BY <1>2, <1>3, <3>2, <4>1 DEF LatestHeld
      <4>3. lastId' - Len(store') + n = lastId - Len(store) + (n + Shift)
        <5>1. Shift \in Int /\ n \in Int /\ Len(store) \in Int
          BY <1>3, <1>4
        <5>2. Len(store') = Len(store) - Shift + 1 /\ lastId' = lastId + 1 /\ lastId \in Int
          BY <1>1, <1>3
        <5> QED
          BY <5>1, <5>2
      <4> QED
        BY <4>2, <4>3
    <3> QED
      BY <1>3, <1>4, <3>1, <3>2
  <2> QED
    BY <2>1, <2>2 DEF LatestHeld
<1>7. \A n \in 1..Len(store) : store[n].key \in Keys /\ store[n].key # k /\ store[n] \in Assessment
  <2> SUFFICES ASSUME NEW n \in 1..Len(store)
               PROVE  store[n].key \in Keys /\ store[n].key # k /\ store[n] \in Assessment
    OBVIOUS
  <2>1. store[n] \in Assessment
    BY <1>1
  <2>2. idem[store[n].key] # NoOp
    BY DEF Inv, Known, NoOp, QuoteOp
  <2> QED
    BY <1>1, <2>1, <2>2 DEF Assessment
<1>8. \A n \in 1..Len(store') :
         n = Len(store') \/ (n \in 1..Len(store) - Shift /\ n + Shift \in 1..Len(store))
  BY <1>3, <1>4
<1>9. KeysDiffer'
  <2> SUFFICES ASSUME NEW m \in 1..Len(store'), NEW n \in 1..Len(store'),
                      store'[m].key = store'[n].key
               PROVE  m = n
    BY DEF KeysDiffer
  <2>1. CASE m = Len(store') /\ n # Len(store')
    BY <1>3, <1>7, <1>8, <2>1
  <2>2. CASE n = Len(store') /\ m # Len(store')
    BY <1>3, <1>7, <1>8, <2>2
  <2>3. CASE m # Len(store') /\ n # Len(store')
    <3>1. m + Shift = n + Shift
      BY <1>3, <1>8, <2>3 DEF Inv, KeysDiffer
    <3> QED
      BY <1>3, <1>4, <3>1
  <2> QED
    BY <2>1, <2>2, <2>3
<1>10. Known'
  <2> SUFFICES ASSUME NEW n \in 1..Len(store')
               PROVE  \/ idem'[store'[n].key] = QuoteOp
                      \/ /\ idem'[store'[n].key].kind = "assessment"
                         /\ idem'[store'[n].key].id = store'[n].id
    BY DEF Known
  <2>1. CASE n = Len(store')
    <3>1. store'[n].key = k /\ store'[n].id = lastId'
      BY <1>3, <2>1
    <3> QED
      BY <1>m, <3>1
  <2>2. CASE n # Len(store')
    <3> DEFINE l == store[n + Shift].key
    <3>1. n + Shift \in 1..Len(store) /\ store'[n] = store[n + Shift] /\ n >= 1
      BY <1>3, <1>8, <2>2
    <3>2. l \in Keys \ {k}
      BY <1>7, <3>1
    <3>3. ASSUME Full PROVE l # store[1].key
      <4>1. Shift = 1 /\ 1 \in 1..Len(store) /\ n + Shift # 1
        BY <1>3, <1>4, <3>1, <3>3
      <4> QED
        BY <3>1, <4>1 DEF Inv, KeysDiffer
    <3>4. idem'[l] = idem[l]
      BY <3>2, <3>3, Mapped
    <3> QED
      BY <3>1, <3>4 DEF Inv, Known
  <2> QED
    BY <2>1, <2>2
<1>11. NoDanglingKeys'
  <2> SUFFICES ASSUME NEW l \in Keys, idem'[l].kind = "assessment"
               PROVE  \E n \in 1..Len(store') : store'[n] = [id |-> idem'[l].id, key |-> l]
    BY DEF NoDanglingKeys, Holds
  <2>1. CASE l = k
    <3>1. Len(store') \in 1..Len(store')
      BY <1>3, <1>4
    <3>2. store'[Len(store')] = [id |-> idem'[l].id, key |-> l]
      BY <1>3, <1>m, <2>1
    <3> QED
      BY <3>1, <3>2
  <2>2. CASE l # k
    <3>1. idem'[l] = idem[l]
      BY <2>2, Mapped DEF NoOp
    <3>2. PICK n \in 1..Len(store) : store[n] = [id |-> idem[l].id, key |-> l]
      BY <3>1 DEF Inv, NoDanglingKeys, Holds
    <3>3. ~(Full /\ n = 1)
      <4> SUFFICES ASSUME Full, n = 1 PROVE FALSE
        OBVIOUS
      <4>1. idem'[l] = NoOp
        BY <2>2, <3>1, <3>2, Mapped
      <4> QED
        BY <4>1 DEF NoOp
    <3>4. n - Shift \in 1..Len(store) - Shift /\ store'[n - Shift] = store[n]
      BY <1>1, <1>2, <3>3, StaysOrLeaves
    <3>5. n - Shift \in 1..Len(store')
      BY <1>3, <1>4, <3>4
    <3> QED
      BY <3>1, <3>2, <3>4, <3>5
  <2> QED
    BY <2>1, <2>2
<1> QED
  BY <1>5, <1>6, <1>9, <1>10, <1>11 DEF Inv

(* A quote handler's insertion overwrites an entry with a quote's, which   *)
(* leaves the entry's assessment known and dangles nothing.                *)
LEMMA StepKeepsInv == Inv /\ [Next]_vars => Inv'
<1> SUFFICES ASSUME Inv, [Next]_vars
             PROVE  Inv'
  OBVIOUS
<1> USE DEF Inv
<1>1. ASSUME NEW k \in Keys, NEW r \in Requests, Record(k, r)
      PROVE  Inv'
  BY <1>1, RecordKeepsInv
<1>2. ASSUME NEW k \in Keys, NEW r \in Requests, Replay(k, r)
      PROVE  Inv'
  <2>1. idem[k] \in Op /\ idem[k].kind = "assessment"
    BY <1>2 DEF Replay, TypeOK
  <2>2. idem[k].id \in Ids
    BY <2>1 DEF Op, NoOp, QuoteOp
  <2>3. answers' \in [Keys -> SUBSET Ids]
    BY <1>2, <2>2 DEF Replay, Answer, TypeOK
  <2> QED
    BY <1>2, <2>3 DEF Replay, TypeOK, LatestHeld, NoDanglingKeys, Known, KeysDiffer, Holds
<1>3. ASSUME NEW h \in Handlers, NEW k \in Keys, QuoteLook(h, k)
      PROVE  Inv'
  BY <1>3 DEF QuoteLook, TypeOK, LatestHeld, NoDanglingKeys, Known, KeysDiffer, Holds
<1>4. ASSUME NEW h \in Handlers, QuoteInsert(h)
      PROVE  Inv'
  <2>1. looking[h] \in Keys /\ QuoteOp \in Op /\ QuoteOp.kind # "assessment"
    BY <1>4 DEF QuoteInsert, TypeOK, Op, QuoteOp
  <2>2. TypeOK'
    BY <1>4, <2>1 DEF QuoteInsert, TypeOK
  <2>3. \A k \in Keys : idem'[k] = IF k = looking[h] THEN QuoteOp ELSE idem[k]
    BY <1>4, <2>1 DEF QuoteInsert, TypeOK
  <2>4. NoDanglingKeys'
    BY <1>4, <2>1, <2>3 DEF QuoteInsert, NoDanglingKeys, Holds
  <2>5. \A n \in 1..Len(store) : store[n].key \in Keys
    <3>1. \A n \in 1..Len(store) : store[n] \in Assessment
      BY DEF TypeOK
    <3> QED
      BY <3>1 DEF Assessment
  <2>6. Known'
    BY <1>4, <2>3, <2>5 DEF QuoteInsert, Known
  <2> QED
    BY <1>4, <2>2, <2>4, <2>6 DEF QuoteInsert, LatestHeld, KeysDiffer
<1>5. ASSUME NEW h \in Handlers, QuoteGiveUp(h)
      PROVE  Inv'
  BY <1>5 DEF QuoteGiveUp, TypeOK, LatestHeld, NoDanglingKeys, Known, KeysDiffer, Holds
<1>6. CASE UNCHANGED vars
  BY <1>6 DEF vars, TypeOK, LatestHeld, NoDanglingKeys, Known, KeysDiffer, Holds
<1> QED
  BY <1>1, <1>2, <1>3, <1>4, <1>5, <1>6 DEF Next, RejectReuse

-----------------------------------------------------------------------------
LEMMA AlwaysInv == Spec => []Inv
BY InitInv, StepKeepsInv, PTL DEF Spec

(* A replay of create_readiness_assessment never ends in 503. *)
THEOREM KeysNeverDangle == Spec => []NoDanglingKeys
BY AlwaysInv, PTL DEF Inv

(* create_readiness_assessment holds the latest intakes, up to the         *)
(* capacity.                                                               *)
THEOREM StoreIsLatest == Spec => []LatestHeld
BY AlwaysInv, PTL DEF Inv

(* No two held intakes answer one key. *)
THEOREM KeyHasOneAssessment == Spec => []OneAssessmentPerKey
<1>1. Inv => OneAssessmentPerKey
  <2> SUFFICES ASSUME Inv, NEW k \in Keys, NEW i \in answers[k], NEW j \in answers[k],
                      Holds(store, i, k), Holds(store, j, k)
               PROVE  i = j
    BY DEF OneAssessmentPerKey
  <2>1. PICK m \in 1..Len(store) : store[m] = [id |-> i, key |-> k]
    BY DEF Holds
  <2>2. PICK n \in 1..Len(store) : store[n] = [id |-> j, key |-> k]
    BY DEF Holds
  <2>3. m = n
    BY <2>1, <2>2 DEF Inv, KeysDiffer
  <2> QED
    BY <2>1, <2>2, <2>3
<1> QED
  BY <1>1, AlwaysInv, PTL

(* A quote's key is never forgotten by an eviction, and an intake's key    *)
(* only when the intake is evicted.                                        *)
THEOREM KeysOutliveIntakes == Spec => KeysStay
<1>1. Inv /\ Inv' /\ [Next]_vars =>
        [\A k \in Keys :
          /\ idem[k] = QuoteOp => idem'[k] = QuoteOp
          /\ idem[k].kind = "assessment" /\ idem'[k] = NoOp
                => ~Holds(store', idem[k].id, k)]_vars
  <2> SUFFICES ASSUME Inv, Inv', Next, NEW k \in Keys
               PROVE  /\ idem[k] = QuoteOp => idem'[k] = QuoteOp
                      /\ idem[k].kind = "assessment" /\ idem'[k] = NoOp
                            => ~Holds(store', idem[k].id, k)
    BY DEF vars
  <2>1. ASSUME NEW l \in Keys, NEW r \in Requests, Record(l, r)
        PROVE  /\ idem[k] = QuoteOp => idem'[k] = QuoteOp
               /\ idem[k].kind = "assessment" /\ idem'[k] = NoOp
                     => ~Holds(store', idem[k].id, k)
    <3>1. idem[k] = QuoteOp => idem'[k] = QuoteOp
      <4> SUFFICES ASSUME idem[k] = QuoteOp
                   PROVE  idem'[k] = idem[k]
        OBVIOUS
      <4>1. k # l /\ idem[k].kind # "assessment"
        BY <2>1 DEF Record, NoOp, QuoteOp
      <4> QED
        BY <2>1, <4>1, Mapped
    <3>2. ASSUME idem'[k] = NoOp, Holds(store', idem[k].id, k)
          PROVE  FALSE
      <4>1. PICK n \in 1..Len(store') : store'[n] = [id |-> idem[k].id, key |-> k]
        BY <3>2 DEF Holds
      <4>2. idem'[k] # NoOp
        BY <4>1 DEF Inv, Known, NoOp, QuoteOp
      <4> QED
        BY <3>2, <4>2
    <3> QED
      BY <3>1, <3>2
  <2>2. ASSUME NEW h \in Handlers, QuoteInsert(h)
        PROVE  idem'[k] \in {idem[k], QuoteOp}
    BY <2>2 DEF QuoteInsert, Inv, TypeOK
  <2>3. CASE UNCHANGED idem
    BY <2>3 DEF NoOp
  <2> QED
    BY <2>1, <2>2, <2>3 DEF Next, Replay, RejectReuse, QuoteLook, QuoteGiveUp, vars, NoOp, QuoteOp
<1> QED
  BY <1>1, AlwaysInv, PTL DEF Spec, KeysStay

-----------------------------------------------------------------------------
(* The work queue, as time passes *)

LEMMA RankTyped == \A p : Rank(p) \in 0..2
BY DEF Rank

(* A column that is a date or NULL. *)
Date(t) == t = Null \/ t \in Int

(* What is due stays due, and what is overdue stays overdue. *)
LEMMA DueStays ==
    ASSUME NEW t, Date(t), NEW days \in Nat, now \in Int, now' \in Int, now <= now'
    PROVE  /\ DueWithin(t, days) => DueWithin(t, days)'
           /\ Overdue(t) => Overdue(t)'
BY DEF DueWithin, Overdue, Date

(* A listed row stays listed and as urgent. *)
Raises(r) ==
    Listed(r) => /\ Listed(r)'
                 /\ Rank(WorkItem(r).priority)' <= Rank(WorkItem(r).priority)

LEMMA KindsDiffer ==
    ASSUME NEW r, NEW i \in DOMAIN KindOrder, r.kind = KindOrder[i]
    PROVE  r.kind \in {"vendor_assessment", "access_review_item", "security_questionnaire",
                       "risk", "trust_center_access", "audit_evidence_request",
                       "policy_review", "training_assignment", "automation_run",
                       "ai_system_review"}
BY DEF KindOrder

LEMMA RowRaises ==
    ASSUME now \in Int, now' \in Int, now <= now', NEW r, Date(r.due),
           \E i \in DOMAIN KindOrder : KindOrder[i] = r.kind,
           r.kind = "trust_center_access" => r.requested \in Int,
           r.kind # "automation_run"
    PROVE  Raises(r)
<1>1. {TwoDays, Week, Fortnight, Month} \subseteq Nat
  BY WorkQueueAssumption
<1>2. /\ DueWithin(r.due, Week) => DueWithin(r.due, Week)'
      /\ DueWithin(r.due, Fortnight) => DueWithin(r.due, Fortnight)'
      /\ DueWithin(r.due, Month) => DueWithin(r.due, Month)'
  BY <1>1, DueStays
<1>3. Overdue(r.due) => Overdue(r.due)'
  BY <1>1, DueStays
<1>4. CASE r.kind = "vendor_assessment"
  <2>1. WorkItem(r) = VendorAssessment(r) /\ WorkItem(r)' = VendorAssessment(r)'
    BY <1>4 DEF WorkItem
  <2>2. Listed(r) => Listed(r)'
    <3> DEFINE A == r.state \in {"planned", "collecting", "in_review"}
    <3>1. VendorAssessment(r).selected = (A \/ DueWithin(r.due, Fortnight))
      BY DEF VendorAssessment, Item
    <3>2. VendorAssessment(r)'.selected = (A \/ DueWithin(r.due, Fortnight)')
      BY DEF VendorAssessment, Item
    <3> HIDE DEF A
    <3> QED
      BY <1>2, <2>1, <3>1, <3>2 DEF Listed
  <2>3. Rank(WorkItem(r).priority)' <= Rank(WorkItem(r).priority)
    BY <1>3, <2>1 DEF VendorAssessment, Item, Priority, Rank
  <2> QED
    BY <2>2, <2>3 DEF Raises
<1>5. CASE r.kind = "access_review_item"
  <2>1. WorkItem(r) = AccessReviewItem(r) /\ WorkItem(r)' = AccessReviewItem(r)'
    BY <1>5 DEF WorkItem
  <2> QED
    BY <1>1, <1>2, <1>3, <1>5, <2>1 DEF Raises, Listed, AccessReviewItem, Item, Priority, Rank
<1>6. CASE r.kind = "security_questionnaire"
  <2>1. WorkItem(r) = SecurityQuestionnaire(r) /\ WorkItem(r)' = SecurityQuestionnaire(r)'
    BY <1>6 DEF WorkItem
  <2> QED
    BY <1>1, <1>2, <1>3, <1>6, <2>1 DEF Raises, Listed, SecurityQuestionnaire, Item, Priority, Rank
<1>7. CASE r.kind = "risk"
  <2>1. WorkItem(r) = Risk(r) /\ WorkItem(r)' = Risk(r)'
    BY <1>7 DEF WorkItem
  <2> QED
    BY <1>1, <1>2, <1>3, <1>7, <2>1 DEF Raises, Listed, Risk, Item, Priority, Rank
<1>8. CASE r.kind = "trust_center_access"
  <2>1. WorkItem(r) = TrustCenterAccess(r) /\ WorkItem(r)' = TrustCenterAccess(r)'
    BY <1>8 DEF WorkItem
  <2> QED
    BY <1>1, <1>2, <1>3, <1>8, <2>1 DEF Raises, Listed, TrustCenterAccess, Item, Priority, Rank
<1>9. CASE r.kind = "audit_evidence_request"
  <2>1. WorkItem(r) = AuditEvidenceRequest(r) /\ WorkItem(r)' = AuditEvidenceRequest(r)'
    BY <1>9 DEF WorkItem
  <2> QED
    BY <1>1, <1>2, <1>3, <1>9, <2>1 DEF Raises, Listed, AuditEvidenceRequest, Item, Priority, Rank
<1>10. CASE r.kind = "policy_review"
  <2>1. WorkItem(r) = PolicyReview(r) /\ WorkItem(r)' = PolicyReview(r)'
    BY <1>10 DEF WorkItem
  <2>2. Listed(r) => Listed(r)'
    <3>1. PolicyReview(r).selected =
            (r.state = "draft" \/ (r.state = "active" /\ DueWithin(r.due, Fortnight)))
      BY DEF PolicyReview, Item
    <3>2. PolicyReview(r)'.selected =
            (r.state = "draft" \/ (r.state = "active" /\ DueWithin(r.due, Fortnight)'))
      BY DEF PolicyReview, Item
    <3> QED
      BY <1>2, <2>1, <3>1, <3>2 DEF Listed
  <2>3. Rank(WorkItem(r).priority)' <= Rank(WorkItem(r).priority)
    BY <1>3, <2>1 DEF PolicyReview, Item, Priority, Rank
  <2> QED
    BY <2>2, <2>3 DEF Raises
<1>11. CASE r.kind = "training_assignment"
  <2>1. WorkItem(r) = TrainingAssignment(r) /\ WorkItem(r)' = TrainingAssignment(r)'
    BY <1>11 DEF WorkItem
  <2> QED
    BY <1>1, <1>2, <1>3, <1>11, <2>1 DEF Raises, Listed, TrainingAssignment, Item, Priority, Rank
<1>12. CASE r.kind = "ai_system_review"
  <2>1. WorkItem(r) = AiSystemReview(r) /\ WorkItem(r)' = AiSystemReview(r)'
    BY <1>12 DEF WorkItem
  <2> QED
    BY <1>1, <1>2, <1>3, <1>12, <2>1 DEF Raises, Listed, AiSystemReview, Item, Priority, Rank
<1> QED
  BY <1>4, <1>5, <1>6, <1>7, <1>8, <1>9, <1>10, <1>11, <1>12, KindsDiffer

-----------------------------------------------------------------------------
(* The order of the items *)

(* Rows of one tenant's tables. *)
OneTenant(M) ==
    /\ IsFiniteSet(M)
    /\ \A r \in M : /\ \E i \in DOMAIN KindOrder : KindOrder[i] = r.kind
                    /\ r.id \in Int
                    /\ Date(r.due)
    /\ \A r, s \in M : r.kind = s.kind /\ r.id = s.id => r = s

(* Tuples of five numbers in lexical order. *)
Less(x, y) ==
    \E i \in 1..5 : x[i] < y[i] /\ \A j \in 1..(i - 1) : x[j] = y[j]

Five(x) == \A i \in 1..5 : x[i] \in Int

LEMMA LessByPlace ==
    ASSUME NEW x, NEW y, Five(x), Five(y)
    PROVE  Less(x, y) <=>
             \/ x[1] < y[1]
             \/ x[1] = y[1] /\ x[2] < y[2]
             \/ x[1] = y[1] /\ x[2] = y[2] /\ x[3] < y[3]
             \/ x[1] = y[1] /\ x[2] = y[2] /\ x[3] = y[3] /\ x[4] < y[4]
             \/ x[1] = y[1] /\ x[2] = y[2] /\ x[3] = y[3] /\ x[4] = y[4] /\ x[5] < y[5]
<1> DEFINE At(i) == x[i] < y[i] /\ \A j \in 1..(i - 1) : x[j] = y[j]
<1>1. Less(x, y) <=> At(1) \/ At(2) \/ At(3) \/ At(4) \/ At(5)
  <2>1. 1..5 = {1, 2, 3, 4, 5}
    OBVIOUS
  <2> QED
    BY <2>1 DEF Less
<1>2. 1..(1-1) = {} /\ 1..(2-1) = {1} /\ 1..(3-1) = {1, 2} /\ 1..(4-1) = {1, 2, 3}
      /\ 1..(5-1) = {1, 2, 3, 4}
  OBVIOUS
<1>3. At(1) <=> x[1] < y[1]
  BY <1>2
<1>4. At(2) <=> x[1] = y[1] /\ x[2] < y[2]
  BY <1>2
<1>5. At(3) <=> x[1] = y[1] /\ x[2] = y[2] /\ x[3] < y[3]
  BY <1>2
<1>6. At(4) <=> x[1] = y[1] /\ x[2] = y[2] /\ x[3] = y[3] /\ x[4] < y[4]
  BY <1>2
<1>7. At(5) <=> x[1] = y[1] /\ x[2] = y[2] /\ x[3] = y[3] /\ x[4] = y[4] /\ x[5] < y[5]
  BY <1>2
<1> HIDE DEF At
<1> QED
  BY <1>1, <1>3, <1>4, <1>5, <1>6, <1>7

LEMMA LessOrder ==
    ASSUME NEW x, NEW y, NEW z, Five(x), Five(y), Five(z)
    PROVE  /\ ~Less(x, x)
           /\ Less(x, y) /\ Less(y, z) => Less(x, z)
           /\ Less(x, y) => x[1] <= y[1]
           /\ \/ Less(x, y) \/ Less(y, x)
              \/ x[1] = y[1] /\ x[2] = y[2] /\ x[3] = y[3] /\ x[4] = y[4] /\ x[5] = y[5]
<1>1. /\ x[1] \in Int /\ x[2] \in Int /\ x[3] \in Int /\ x[4] \in Int /\ x[5] \in Int
      /\ y[1] \in Int /\ y[2] \in Int /\ y[3] \in Int /\ y[4] \in Int /\ y[5] \in Int
      /\ z[1] \in Int /\ z[2] \in Int /\ z[3] \in Int /\ z[4] \in Int /\ z[5] \in Int
  BY DEF Five
<1> QED
  BY <1>1, LessByPlace

LEMMA KeyOfRow ==
    ASSUME NEW M, OneTenant(M), NEW r \in M
    PROVE  /\ Five(SortKey(r))
           /\ SortKey(r)[1] = Rank(WorkItem(r).priority)
           /\ KindOrder[SortKey(r)[4]] = r.kind /\ SortKey(r)[5] = r.id
<1>1. /\ SortKey(r)[1] = Rank(WorkItem(r).priority) /\ SortKey(r)[2] = NullRank(r.due)
      /\ SortKey(r)[3] = DueRank(r.due) /\ SortKey(r)[4] = KindRank(r.kind)
      /\ SortKey(r)[5] = r.id
  BY DEF SortKey
<1>2. KindRank(r.kind) \in DOMAIN KindOrder /\ KindOrder[KindRank(r.kind)] = r.kind
  BY DEF OneTenant, KindRank
<1>3. DOMAIN KindOrder = 1..10
  BY DEF KindOrder
<1>4. NullRank(r.due) \in Int /\ DueRank(r.due) \in Int /\ r.id \in Int
  BY DEF OneTenant, NullRank, DueRank, Date
<1>5. SortKey(r)[1] \in Int /\ SortKey(r)[2] \in Int /\ SortKey(r)[3] \in Int
      /\ SortKey(r)[4] \in Int /\ SortKey(r)[5] \in Int
  BY <1>1, <1>2, <1>3, <1>4, RankTyped
<1>6. 1..5 = {1, 2, 3, 4, 5}
  OBVIOUS
<1> QED
  BY <1>1, <1>2, <1>5, <1>6 DEF Five

(* Urgency, date, kind and id: a strict total order. *)
LEMMA BeforeOrder ==
    ASSUME NEW M, OneTenant(M), NEW p \in M, NEW r \in M, NEW s \in M
    PROVE  /\ ~Before(p, p)
           /\ Before(p, r) /\ Before(r, s) => Before(p, s)
           /\ Before(p, r) => Rank(WorkItem(p).priority) <= Rank(WorkItem(r).priority)
           /\ p = r \/ Before(p, r) \/ Before(r, p)
<1>1. Five(SortKey(p)) /\ Five(SortKey(r)) /\ Five(SortKey(s))
  BY KeyOfRow
<1>2. /\ Before(p, p) <=> Less(SortKey(p), SortKey(p))
      /\ Before(p, r) <=> Less(SortKey(p), SortKey(r))
      /\ Before(r, p) <=> Less(SortKey(r), SortKey(p))
      /\ Before(r, s) <=> Less(SortKey(r), SortKey(s))
      /\ Before(p, s) <=> Less(SortKey(p), SortKey(s))
  BY DEF Before, Less
<1>3. SortKey(p)[4] = SortKey(r)[4] /\ SortKey(p)[5] = SortKey(r)[5] => p = r
  BY KeyOfRow DEF OneTenant
<1>4. /\ SortKey(p)[1] = Rank(WorkItem(p).priority)
      /\ SortKey(r)[1] = Rank(WorkItem(r).priority)
  BY KeyOfRow
<1> QED
  BY <1>1, <1>2, <1>3, <1>4, LessOrder

-----------------------------------------------------------------------------
(* The page *)

Preceding(M, r) == {s \in M : Before(s, r)}

LEMMA PrecedingCount ==
    ASSUME NEW M, OneTenant(M), NEW r
    PROVE  IsFiniteSet(Preceding(M, r)) /\ Cardinality(Preceding(M, r)) \in Nat
<1>1. Preceding(M, r) \in SUBSET M /\ IsFiniteSet(M)
  BY DEF Preceding, OneTenant
<1>2. IsFiniteSet(Preceding(M, r))
  BY <1>1, FS_Subset
<1> QED
  BY <1>2, FS_CardinalityType

LEMMA PrecedingGrows ==
    ASSUME NEW M, OneTenant(M), NEW p \in M, NEW r \in M, Before(p, r)
    PROVE  Cardinality(Preceding(M, p)) < Cardinality(Preceding(M, r))
<1> DEFINE A == Preceding(M, p)
           B == Preceding(M, r)
<1>1. IsFiniteSet(A) /\ IsFiniteSet(B) /\ Cardinality(A) \in Nat /\ Cardinality(B) \in Nat
  BY PrecedingCount
<1>2. A \in SUBSET B
  BY BeforeOrder DEF Preceding
<1>3. p \notin A /\ p \in B
  BY BeforeOrder DEF Preceding
<1> HIDE DEF A, B
<1>4. Cardinality(A) <= Cardinality(B) /\ Cardinality(A) # Cardinality(B)
  BY <1>1, <1>2, <1>3, FS_Subset
<1> QED
  BY <1>1, <1>4 DEF A, B

(* At most n rows have fewer than n rows before them, and the others come  *)
(* after all of these.                                                     *)
LEMMA PageOf ==
    ASSUME NEW M, OneTenant(M), NEW n \in Nat \ {0}, NEW P,
           \A r : r \in P <=> r \in M /\ Cardinality(Preceding(M, r)) < n
    PROVE  /\ P \subseteq M
           /\ Cardinality(P) <= n
           /\ Cardinality(M) = Cardinality(P) + Cardinality(M \ P)
           /\ Cardinality(M) > Cardinality(P) <=> M \ P # {}
           /\ \A r \in P, s \in M \ P :
                 Rank(WorkItem(r).priority) <= Rank(WorkItem(s).priority)
<1>1. P \subseteq M /\ IsFiniteSet(M)
  BY DEF OneTenant
<1>2. \A r \in M : Cardinality(Preceding(M, r)) \in Nat
  BY PrecedingCount
<1>3. Cardinality(P) <= n
  <2> DEFINE f == [r \in P |-> Cardinality(Preceding(M, r))]
  <2>1. f \in [P -> 0..(n - 1)]
    BY <1>1, <1>2
  <2>2. ASSUME NEW r \in P, NEW s \in P, f[r] = f[s] PROVE r = s
    <3>1. Cardinality(Preceding(M, r)) = Cardinality(Preceding(M, s))
      BY <2>2
    <3>2. ~Before(r, s) /\ ~Before(s, r)
      BY <1>1, <1>2, <3>1, PrecedingGrows
    <3> QED
      BY <1>1, <3>2, BeforeOrder
  <2> HIDE DEF f
  <2>3. f \in Injection(P, 0..(n - 1))
    BY <2>1, <2>2 DEF Injection, IsInjective
  <2>4. IsFiniteSet(0..(n - 1)) /\ Cardinality(0..(n - 1)) = n
    BY FS_Interval
  <2> QED
    BY <2>3, <2>4, FS_Injection
<1>4. /\ IsFiniteSet(P) /\ Cardinality(P) \in Nat /\ Cardinality(M) \in Nat
      /\ IsFiniteSet(M \ P) /\ Cardinality(M \ P) \in Nat
  BY <1>1, FS_Subset, FS_CardinalityType, FS_Difference
<1>5. Cardinality(M) = Cardinality(P) + Cardinality(M \ P)
  <2> DEFINE C == M \cap P
  <2>1. C = P
    BY <1>1
  <2>2. Cardinality(M \ P) = Cardinality(M) - Cardinality(C)
    BY <1>1, FS_Difference
  <2> HIDE DEF C
  <2> QED
    BY <1>4, <2>1, <2>2
<1>6. Cardinality(M \ P) = 0 <=> M \ P = {}
  BY <1>4, FS_EmptySet
<1>7. ASSUME NEW r \in P, NEW s \in M, s \notin P
      PROVE  Rank(WorkItem(r).priority) <= Rank(WorkItem(s).priority)
  <2>1. ~Before(s, r)
    <3>1. Cardinality(Preceding(M, r)) < n /\ ~(Cardinality(Preceding(M, s)) < n)
      BY <1>7
    <3> QED
      BY <1>1, <1>2, <1>7, <3>1, PrecedingGrows
  <2>2. Before(r, s)
    BY <1>1, <1>7, <2>1, BeforeOrder
  <2> QED
    BY <1>1, <1>7, <2>2, BeforeOrder
<1> QED
  BY <1>1, <1>3, <1>4, <1>5, <1>6, <1>7

-----------------------------------------------------------------------------
(* The queue *)

Clocked == now \in Nat /\ rows \in Tables

LEMMA ClockedNext == Clocked /\ [QueueNext]_queueVars => Clocked' /\ now <= now' /\ rows' = rows
BY DEF Clocked, QueueNext, Tick, ListWorkItems, Refuse, queueVars

LEMMA ClockedInit == QueueInit => Clocked
BY DEF QueueInit, Clocked

LEMMA MatchingRows ==
    ASSUME Clocked, NEW tenant PROVE OneTenant(Matching(tenant))
<1>1. Matching(tenant) \in SUBSET rows
  BY DEF Matching
<1>2. IsFiniteSet(rows)
  BY TablesAssumption DEF Clocked
<1>3. IsFiniteSet(Matching(tenant))
  BY <1>1, <1>2, FS_Subset
<1>4. \A r \in rows : /\ \E i \in DOMAIN KindOrder : KindOrder[i] = r.kind
                      /\ r.id \in Int
                      /\ Date(r.due)
  BY TablesAssumption DEF Clocked, Date
<1>5. \A r, s \in Matching(tenant) : r.kind = s.kind /\ r.id = s.id => r = s
  BY TablesAssumption DEF Clocked, Matching
<1> QED
  BY <1>1, <1>3, <1>4, <1>5 DEF OneTenant

(* What the query says of a row depends on the clock alone. *)
LEMMA ItemSame ==
    ASSUME now' = now, NEW r PROVE WorkItem(r)' = WorkItem(r)
<1>1. VendorAssessment(r)' = VendorAssessment(r)
  BY DEF VendorAssessment, DueWithin, Overdue
<1>2. AccessReviewItem(r)' = AccessReviewItem(r)
  BY DEF AccessReviewItem, Overdue
<1>3. SecurityQuestionnaire(r)' = SecurityQuestionnaire(r)
  BY DEF SecurityQuestionnaire, Overdue
<1>4. Risk(r)' = Risk(r)
  BY DEF Risk, DueWithin, Overdue
<1>5. TrustCenterAccess(r)' = TrustCenterAccess(r)
  BY DEF TrustCenterAccess
<1>6. AuditEvidenceRequest(r)' = AuditEvidenceRequest(r)
  BY DEF AuditEvidenceRequest, Overdue
<1>7. PolicyReview(r)' = PolicyReview(r)
  BY DEF PolicyReview, DueWithin, Overdue
<1>8. TrainingAssignment(r)' = TrainingAssignment(r)
  BY DEF TrainingAssignment, DueWithin, Overdue
<1>9. AutomationRun(r)' = AutomationRun(r)
  BY DEF AutomationRun
<1>10. AiSystemReview(r)' = AiSystemReview(r)
  BY DEF AiSystemReview, DueWithin
<1> QED
  BY <1>1, <1>2, <1>3, <1>4, <1>5, <1>6, <1>7, <1>8, <1>9, <1>10 DEF WorkItem

LEMMA MatchingSame ==
    ASSUME now' = now, rows' = rows, NEW tenant PROVE Matching(tenant)' = Matching(tenant)
<1>1. \A r : Listed(r)' = Listed(r)
  BY ItemSame DEF Listed
<1> QED
  BY <1>1 DEF Matching

LEMMA HonestNext ==
    ASSUME Clocked, PageHonest, [QueueNext]_queueVars PROVE PageHonest'
<1>1. CASE response' = NoResponse
  BY <1>1 DEF PageHonest
<1>2. CASE UNCHANGED queueVars
  <2>1. now' = now /\ rows' = rows /\ response' = response
    BY <1>2 DEF queueVars
  <2>2. \A r : WorkItem(r)' = WorkItem(r) /\ Listed(r)' = Listed(r)
    BY <2>1, ItemSame DEF Listed
  <2> QED
    BY <2>1, <2>2 DEF PageHonest, Matching
<1>3. ASSUME NEW q \in Headers, ListWorkItems(q) PROVE PageHonest'
  <2> DEFINE tenant == AuthenticateTenant(q)
             M == Matching(tenant)
             P == Page(tenant)
  <2>1. /\ response' = [tenant |-> tenant, total |-> Cardinality(M), items |-> P,
                        truncated |-> Cardinality(M) > Cardinality(P)]
        /\ now' = now /\ rows' = rows
    BY <1>3 DEF ListWorkItems
  <2>2. OneTenant(M)
    BY MatchingRows
  <2>3. \A r : r \in P <=> r \in M /\ Cardinality(Preceding(M, r)) < Limit
    BY DEF Page, Preceding
  <2>4. \A r : WorkItem(r)' = WorkItem(r) /\ Listed(r)' = Listed(r)
    BY <2>1, ItemSame DEF Listed
  <2>5. /\ response'.tenant = tenant /\ response'.total = Cardinality(M)
        /\ response'.items = P /\ response'.truncated = (Cardinality(M) > Cardinality(P))
    BY <2>1
  <2>6. Matching(response.tenant)' = M
    BY <2>1, <2>4, <2>5 DEF Matching
  <2> HIDE DEF tenant, M, P
  <2>7. Limit \in Nat \ {0}
    BY WorkQueueAssumption
  <2>8. /\ P \subseteq M
        /\ Cardinality(P) <= Limit
        /\ Cardinality(M) = Cardinality(P) + Cardinality(M \ P)
        /\ Cardinality(M) > Cardinality(P) <=> M \ P # {}
        /\ \A r \in P, s \in M \ P :
              Rank(WorkItem(r).priority) <= Rank(WorkItem(s).priority)
    BY <2>2, <2>3, <2>7, PageOf
  <2> QED
    BY <2>4, <2>5, <2>6, <2>8 DEF PageHonest
<1> QED
  BY <1>1, <1>2, <1>3 DEF QueueNext, Tick, Refuse

(* A page is the tenant's, counts what it leaves out, says whether there   *)
(* is any, and leaves out nothing more urgent than what it holds, whatever *)
(* the tables hold and however many rows match.                            *)
THEOREM PagesAreHonest == QueueSpec => []PageHonest
<1>1. QueueInit => Clocked /\ PageHonest
  BY ClockedInit DEF QueueInit, PageHonest
<1>2. Clocked /\ PageHonest /\ [QueueNext]_queueVars => (Clocked /\ PageHonest)'
  BY ClockedNext, HonestNext
<1> QED
  BY <1>1, <1>2, PTL DEF QueueSpec

(* Work that waits stays on the queue and becomes no less urgent, whatever *)
(* its dates and the intervals are; failed automation excepted.            *)
THEOREM WaitingWorkRises == QueueSpec => WaitingRaises
<1>1. ASSUME Clocked, [QueueNext]_queueVars, NEW r \in rows, r.kind # "automation_run"
      PROVE  Raises(r)
  <2>1. now \in Int /\ now' \in Int /\ now <= now'
    BY <1>1, ClockedNext DEF Clocked
  <2>2. /\ \E i \in DOMAIN KindOrder : KindOrder[i] = r.kind
        /\ Date(r.due)
        /\ r.kind = "trust_center_access" => r.requested \in Int
    BY <1>1, TablesAssumption DEF Clocked, Date
  <2> QED
    BY <1>1, <2>1, <2>2, RowRaises
<1>2. Clocked /\ [QueueNext]_queueVars =>
         [\A r \in rows : /\ r.kind # "automation_run"
                          /\ Listed(r)
                          => /\ Listed(r)'
                             /\ Rank(WorkItem(r).priority)' <= Rank(WorkItem(r).priority)]_queueVars
  BY <1>1 DEF Raises
<1>3. Clocked /\ [QueueNext]_queueVars => Clocked'
  BY ClockedNext
<1> QED
  BY <1>2, <1>3, ClockedInit, PTL DEF QueueSpec, WaitingRaises
=============================================================================
