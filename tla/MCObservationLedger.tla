------------------------- MODULE MCObservationLedger -------------------------
(* ObservationLedger with an orderly source whose key is rotated within    *)
(* one owner, and another that sends what it likes and whose next key      *)
(* belongs to another owner.                                               *)
EXTENDS ObservationLedger, TLC

Rotation == {[id |-> "k1", source |-> "ci", owner |-> "alice", from |-> {}, until |-> {1}],
             [id |-> "k2", source |-> "ci", owner |-> "alice", from |-> {1}, until |-> {}],
             [id |-> "k3", source |-> "lab", owner |-> "alice", from |-> {0}, until |-> {1}],
             [id |-> "k4", source |-> "lab", owner |-> "bob", from |-> {1}, until |-> {2}]}

Symmetry == Permutations(Deliveries) \cup Permutations(EventIds) \cup Permutations(Contents)
=============================================================================
