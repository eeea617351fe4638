-------------------------- MODULE MCQuoteLifecycle --------------------------
(* QuoteLifecycle on small instances: two tenants, one of them with three  *)
(* idempotency keys, and two replicas, one of them without Gemini.         *)
EXTENDS QuoteLifecycle, TLC

CONSTANTS ka, kb, kc, kd, alice, bob, q1, q2, ra, rb, s1, s2, w1, w2

MCOwnerOf == (ka :> alice) @@ (kb :> alice) @@ (kc :> alice) @@ (kd :> bob)

MCTwoKeys == (ka :> alice) @@ (kb :> alice)

MCHome == (s1 :> ra) @@ (s2 :> rb)

MCSymmetry == Permutations(Quotes) \cup Permutations(Requests) \cup Permutations({ka, kb, kc})
=============================================================================
