---------------------------- MODULE MCAdmission ----------------------------
(* Admission on a small instance: enough subjects to overflow the map, if  *)
(* the global quota let them in.                                           *)
EXTENDS Admission, TLC

MCSymmetry == Permutations(Subjects) \cup Permutations(Callers)
=============================================================================
