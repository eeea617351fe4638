--------------------------- MODULE MCGeminiCircuit ---------------------------
(* GeminiCircuit with two failures to open and a call that outlasts the    *)
(* open period, as in the code, where three attempts of 70 s and their     *)
(* delays stand against 30 s.                                              *)
EXTENDS GeminiCircuit, TLC

Symmetry == Permutations(Calls)
=============================================================================
