---------------------------- MODULE MCQuoteMemory ----------------------------
(* QuoteMemory on a small instance: two subjects, one of them with two     *)
(* idempotency keys.                                                       *)
EXTENDS QuoteMemory, TLC

CONSTANTS ka, kb, kd, alice, bob, q1, q2, q3, s1, s2, w1, w2

MCOwnerOf == (ka :> alice) @@ (kb :> alice) @@ (kd :> bob)

MCSymmetry == Permutations(Quotes) \cup Permutations(Slots) \cup Permutations({ka, kb})
                \cup Permutations(Requests)
=============================================================================
