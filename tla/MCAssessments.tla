--------------------------- MODULE MCAssessments ---------------------------
(* Assessments on a small instance: room for two of six, and two quote     *)
(* handlers that share the idempotency map.                                *)
EXTENDS Assessments, TLC

MCSymmetry == Permutations(Keys) \cup Permutations(Requests) \cup Permutations(Handlers)
=============================================================================
