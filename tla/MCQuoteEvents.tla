---------------------------- MODULE MCQuoteEvents ----------------------------
(* QuoteEvents with one permit and two clients that want it.  Widths are    *)
(* scaled: a u64 ends at 40, an i64 at 19, and ten cents make a unit.  The  *)
(* analyses are a sound one, with one field changed, or with both fees so.  *)
EXTENDS QuoteReads, TLC

CONSTANTS s1, s2

Sound ==
    [summary |-> "text", currency |-> "text", disclaimer |-> "text",
     estimated_total_fee_low |-> 1, estimated_total_fee_high |-> 1,
     estimated_total_weeks_low |-> 1, estimated_total_weeks_high |-> 1,
     recommended_services |-> {[confidence |-> "high"], Bad},
     assumptions |-> {"text"}, risks |-> {}, missing_information |-> {"text"}]

(* What a field may be instead. *)
Values(f) ==
    CASE f \in Fees \cup Weeks -> {0, 2, 20, Bad}
      [] f \in TextLists -> {{""}, {"text", Bad}, Bad}
      [] f = "recommended_services" -> {{}, {[confidence |-> "low"], [confidence |-> "high"]}, Bad}
      [] OTHER -> {"", Bad}

MCAnalyses ==
    {Sound, [Sound EXCEPT !.estimated_total_fee_low = 2, !.estimated_total_fee_high = 2]}
    \cup UNION {{[Sound EXCEPT ![f] = v] : v \in Values(f)} : f \in DOMAIN Sound}

(* Four quotes, one of them another subject's. *)
MCOwnerOf == [q \in Quotes |-> IF q = 3 THEN "b" ELSE "a"]

Headers(token, subject, active) ==
    [token |-> token, subject |-> subject, bearer |-> [active |-> active, subject |-> "a"]]

MCRequests ==
    {Headers("valid", "a", FALSE), Headers("valid", "b", TRUE), Headers("wrong", "a", TRUE),
     Headers(Nobody, Nobody, TRUE), Headers(Nobody, Nobody, FALSE)}

MCSymmetry == Permutations(Streams)
=============================================================================
