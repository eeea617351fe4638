------------------------------ MODULE QuoteView ------------------------------
(***************************************************************************)
(* How a stored quote is shown: what src/src/gemini.rs lets pass as an     *)
(* analysis, and what src/src/contract.rs makes of it in a response or in  *)
(* an event of the stream.                                                 *)
(*                                                                         *)
(* An analysis is a JSON object; a field has the value Bad when it is      *)
(* absent or of another JSON type.  Texts are "" or not, and lists keep    *)
(* the set of their elements.                                              *)
(***************************************************************************)
EXTENDS Integers

CONSTANTS
    Bad,        \* absent, or not of the type a field should have
    MaxI64,     \* the largest i64
    MaxU64,     \* the largest u64
    Hundred     \* cents per unit of currency, scaled with the widths

ASSUME ViewAssumption ==
    /\ {MaxI64, MaxU64, Hundred} \subseteq Nat
    /\ MaxI64 < MaxU64

Fees == {"estimated_total_fee_low", "estimated_total_fee_high"}

Weeks == {"estimated_total_weeks_low", "estimated_total_weeks_high"}

TextLists == {"assumptions", "risks", "missing_information"}

Text(v) == v \notin {Bad, ""}

U64(v) == v # Bad /\ v <= MaxU64

(* validate_analysis *)
ValidAnalysis(a) ==
    /\ \A f \in {"summary", "currency", "disclaimer"} : Text(a[f])
    /\ \A f \in Fees \cup Weeks : U64(a[f])
    /\ \A f \in TextLists \cup {"recommended_services"} : a[f] # Bad
    /\ a.estimated_total_fee_low <= a.estimated_total_fee_high
    /\ a.estimated_total_weeks_low # 0
    /\ a.estimated_total_weeks_low <= a.estimated_total_weeks_high

(* cents: checked_mul, then the conversion to i64. *)
CentsFit(v) == U64(v) /\ v * Hundred <= MaxU64 /\ v * Hundred <= MaxI64

(* integer *)
IntegerFits(v) == U64(v) /\ v <= MaxI64

(* strings: every element of the list is a text. *)
Strings(v) == v # Bad /\ \A item \in v : Text(item)

(* Mutant: the services are read as texts, like the other lists. *)
EstimableFromTexts(a) ==
    /\ \A f \in Fees : CentsFit(a[f])
    /\ \A f \in Weeks : IntegerFits(a[f])
    /\ \A f \in TextLists \cup {"recommended_services"} : Strings(a[f])
    /\ \A f \in {"summary", "currency"} : Text(a[f])

(* quote_estimate of a completed quote succeeds. *)
Estimable(a) ==
    /\ \A f \in Fees : CentsFit(a[f])
    /\ \A f \in Weeks : IntegerFits(a[f])
    /\ a.estimated_total_fee_low <= a.estimated_total_fee_high
    /\ a.estimated_total_weeks_low >= 1
    /\ a.estimated_total_weeks_low <= a.estimated_total_weeks_high
    /\ a.recommended_services # Bad
    /\ \A f \in TextLists : Strings(a[f])
    /\ \A f \in {"summary", "currency"} : Text(a[f])

(* aggregate_confidence, of the confidences that are texts. *)
Confidence(services) ==
    LET given == {s.confidence : s \in {t \in services : t # Bad}} \ {Bad} IN
    IF "low" \in given THEN "low"
    ELSE IF given = {"high"} THEN "high" ELSE "medium"

(* detail_status, quote_summary's and event_stage's mapping. *)
PublicStatus(status) == IF status = "completed" THEN "ready" ELSE status

(* Whether quote_detail, quote_summary and quote_status_event succeed. *)
Readable(status, analysis) == status = "completed" => Estimable(analysis)

(* quote_estimate: shown once the quote is completed. *)
QuoteEstimate(status, analysis) ==
    IF status = "completed" THEN Confidence(analysis.recommended_services) ELSE "none"

(* quote_status_event: the stage is the event's, estimate and problem are  *)
(* the record's.                                                           *)
QuoteStatusEvent(sequence, eventStatus, recordStatus, analysis) ==
    [sequence |-> sequence,
     stage |-> PublicStatus(eventStatus),
     terminal |-> eventStatus \in {"completed", "failed"},
     estimate |-> QuoteEstimate(recordStatus, analysis),
     problem |-> recordStatus = "failed"]
=============================================================================
