--------------------------- MODULE MCGrcWorkQueue ---------------------------
(* GrcWorkQueue with every shape of a row, alone and with another row of    *)
(* its tenant or of another.  Dates are absent or fall on Day, and the      *)
(* clock passes every interval before and after it.                         *)
EXTENDS GrcWorkQueue

CONSTANT Day

Dates == {Day, Null}

MCShapes ==
    [kind: {"vendor_assessment"}, state: {"planned", "in_review", "closed"},
     due: Dates, risky: BOOLEAN]
    \cup [kind: {"access_review_item"}, decision: {"pending", "revoke"},
          remediation: {"none", "pending", "failed"}, campaign: {"active", "complete"},
          due: Dates]
    \cup [kind: {"security_questionnaire"}, state: {"open", "in_review", "closed"}, due: Dates]
    \cup [kind: {"risk"}, state: {"open", "closed"}, due: Dates, exposure: {8, 9, 16},
          treated: BOOLEAN]
    \cup [kind: {"trust_center_access"}, state: {"pending", "approved"},
          nda: {"pending", "none"}, requested: {Day}, due: Dates]
    \cup [kind: {"audit_evidence_request"}, state: {"open", "rejected", "accepted"}, due: Dates]
    \cup [kind: {"policy_review"}, state: {"draft", "active", "retired"}, due: Dates]
    \cup [kind: {"training_assignment"}, state: {"assigned", "overdue", "complete"}, due: Dates]
    \cup [kind: {"automation_run"}, state: {"failed", "partial", "ok"}, started: {Day},
          due: {Null}]
    \cup [kind: {"ai_system_review"}, state: {"active", "retired"},
          tier: {"limited", "high", "prohibited"}, due: Dates]

Row(shape, id, tenant) ==
    [f \in DOMAIN shape \cup {"id", "tenant"} |->
       IF f = "id" THEN id ELSE IF f = "tenant" THEN tenant ELSE shape[f]]

(* Rows that compete with another one for the page. *)
Rivals ==
    {s \in MCShapes : s.kind \in {"risk", "automation_run", "training_assignment"}
                      /\ s.state \in {"open", "failed", "assigned"}}

MCTables ==
    {{Row(s, 2, "a"), Row(t, 1, tenant)} : s \in MCShapes, t \in Rivals, tenant \in {"a", "b"}}

Request(token, subject, tenant, active) ==
    [token |-> token, subject |-> subject, tenant |-> tenant,
     bearer |-> [active |-> active, subject |-> "s", tenant |-> "b"]]

MCHeaders ==
    {Request("valid", "s", "a", FALSE),
     Request("valid", "malformed", "a", TRUE),
     Request("wrong", "s", "a", TRUE),
     Request(Null, Null, "malformed", TRUE),
     Request(Null, Null, Null, TRUE),
     Request(Null, Null, Null, FALSE)}
=============================================================================
