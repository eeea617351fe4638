---------------------------- MODULE GrcWorkQueue ----------------------------
(***************************************************************************)
(* The tenant's work queue of src/src/grc_work_queue.rs: which rows of ten *)
(* GRC tables its query selects, how urgent it calls them, which action it *)
(* names, and the page of at most Limit items the handler returns.         *)
(*                                                                         *)
(* The tables belong to another service.  A row keeps the columns the      *)
(* query reads; a status the query does not name stands for the others.    *)
(* The response is what the handler returned last.                         *)
(***************************************************************************)
EXTENDS Integers, Sequences, FiniteSets

CONSTANTS
    Tables,     \* the contents the tables may have: sets of rows
    Headers,    \* the headers clients send
    Null,       \* SQL NULL, and a header that is absent
    TwoDays, Week, Fortnight, Month,    \* the query's intervals
    Limit,      \* MAX_WORK_ITEMS, and the query's LIMIT
    MaxNow      \* bound on the clock

ASSUME WorkQueueAssumption ==
    /\ {TwoDays, Week, Fortnight, Month, MaxNow} \subseteq Nat
    /\ Limit \in Nat \ {0}

(* The kinds of item, in the order of their names. *)
KindOrder ==
    <<"access_review_item", "ai_system_review", "audit_evidence_request", "automation_run",
      "policy_review", "risk", "security_questionnaire", "training_assignment",
      "trust_center_access", "vendor_assessment">>

(* Dates are numbers or NULL.  The query joins on the tenant and the id,   *)
(* which name one row of a table.                                          *)
ASSUME TablesAssumption ==
    \A table \in Tables :
        /\ IsFiniteSet(table)
        /\ \A r \in table : /\ \E i \in DOMAIN KindOrder : KindOrder[i] = r.kind
                            /\ r.id \in Int
                            /\ r.due = Null \/ r.due \in Int
                            /\ r.kind = "trust_center_access" => r.requested \in Int
        /\ \A r, s \in table :
              r.tenant = s.tenant /\ r.kind = s.kind /\ r.id = s.id => r = s

VARIABLES
    now,        \* now() of the database
    rows,       \* the rows of all tables
    response    \* the last response, NoResponse before and after a refusal

queueVars == <<now, rows, response>>

-----------------------------------------------------------------------------
(* Comparisons with NULL are not true. *)

(* Mutant: what is overdue is not due. *)
UpcomingWithin(t, days) == t # Null /\ t >= now /\ t <= now + days

DueWithin(t, days) == t # Null /\ t <= now + days

Overdue(t) == t # Null /\ t < now

Priority(high, medium) == IF high THEN "high" ELSE IF medium THEN "medium" ELSE "low"

Item(selected, state, priority, action) ==
    [selected |-> selected, state |-> state, priority |-> priority, action |-> action]

(* The branches of the UNION, by table. *)

VendorAssessment(r) ==
    Item(r.state \in {"planned", "collecting", "in_review"} \/ DueWithin(r.due, Fortnight),
         r.state,
         Priority(r.risky \/ Overdue(r.due), TRUE),
         "review_vendor_assessment")

AccessReviewItem(r) ==
    Item(/\ r.decision = "pending" \/ r.remediation \in {"pending", "in_progress", "failed"}
         /\ r.campaign \notin {"complete", "cancelled"},
         IF r.decision = "pending" THEN "pending_decision" ELSE r.remediation,
         Priority(Overdue(r.due) \/ r.remediation = "failed", TRUE),
         IF r.decision = "pending" THEN "decide_access" ELSE "remediate_access")

SecurityQuestionnaire(r) ==
    Item(r.state \in {"draft", "open", "in_progress", "in_review", "received"},
         r.state,
         Priority(Overdue(r.due), r.state = "in_review"),
         IF r.state = "in_review" THEN "approve_questionnaire" ELSE "complete_questionnaire")

Risk(r) ==
    Item(/\ r.state \in {"open", "monitoring"}
         /\ DueWithin(r.due, Fortnight) \/ ~r.treated,
         r.state,
         Priority(r.exposure >= 16 \/ Overdue(r.due), r.exposure >= 9),
         IF r.treated THEN "review_risk" ELSE "choose_risk_treatment")

TrustCenterAccess(r) ==
    Item(r.state = "pending" \/ r.nda = "pending",
         IF r.nda = "pending" THEN "nda_pending" ELSE r.state,
         Priority(r.requested < now - TwoDays, TRUE),
         IF r.nda = "pending" THEN "complete_nda" ELSE "decide_trust_access")

AuditEvidenceRequest(r) ==
    Item(r.state \in {"open", "in_progress", "rejected"},
         r.state,
         Priority(Overdue(r.due) \/ r.state = "rejected", TRUE),
         IF r.state = "rejected" THEN "resubmit_evidence" ELSE "submit_evidence")

PolicyReview(r) ==
    Item(r.state = "draft" \/ (r.state = "active" /\ DueWithin(r.due, Fortnight)),
         r.state,
         Priority(Overdue(r.due), TRUE),
         IF r.state = "draft" THEN "publish_policy" ELSE "review_policy")

TrainingAssignment(r) ==
    Item(/\ r.state \in {"assigned", "in_progress", "overdue"}
         /\ r.state = "overdue" \/ DueWithin(r.due, Week),
         r.state,
         Priority(r.state = "overdue" \/ Overdue(r.due), FALSE),
         "complete_training")

AutomationRun(r) ==
    Item(r.state \in {"failed", "partial"} /\ r.started >= now - Month,
         r.state,
         Priority(r.state = "failed", TRUE),
         "inspect_automation_run")

AiSystemReview(r) ==
    Item(/\ r.state \in {"discovered", "proposed", "approved", "active"}
         /\ r.tier \in {"high", "prohibited"} \/ DueWithin(r.due, Month),
         r.state,
         Priority(r.tier \in {"high", "prohibited"}, TRUE),
         "review_ai_system")

(* The union of the branches. *)
WorkItem(r) ==
    CASE r.kind = "vendor_assessment" -> VendorAssessment(r)
      [] r.kind = "access_review_item" -> AccessReviewItem(r)
      [] r.kind = "security_questionnaire" -> SecurityQuestionnaire(r)
      [] r.kind = "risk" -> Risk(r)
      [] r.kind = "trust_center_access" -> TrustCenterAccess(r)
      [] r.kind = "audit_evidence_request" -> AuditEvidenceRequest(r)
      [] r.kind = "policy_review" -> PolicyReview(r)
      [] r.kind = "training_assignment" -> TrainingAssignment(r)
      [] r.kind = "automation_run" -> AutomationRun(r)
      [] r.kind = "ai_system_review" -> AiSystemReview(r)

Listed(r) == WorkItem(r).selected

(* ORDER BY urgency, due date with NULLS LAST, kind, id. *)

Rank(priority) == CASE priority = "high" -> 0 [] priority = "medium" -> 1 [] OTHER -> 2

KindRank(kind) == CHOOSE i \in DOMAIN KindOrder : KindOrder[i] = kind

NullRank(t) == IF t = Null THEN 1 ELSE 0

DueRank(t) == IF t = Null THEN 0 ELSE t

(* Mutant: the date comes before the urgency. *)
SortKeyByDate(r) ==
    <<NullRank(r.due), DueRank(r.due), Rank(WorkItem(r).priority), KindRank(r.kind), r.id>>

SortKey(r) ==
    <<Rank(WorkItem(r).priority), NullRank(r.due), DueRank(r.due), KindRank(r.kind), r.id>>

Before(r, s) ==
    \E i \in 1..5 : /\ SortKey(r)[i] < SortKey(s)[i]
                    /\ \A j \in 1..(i - 1) : SortKey(r)[j] = SortKey(s)[j]

(* The rows the query matches for a tenant, and those within its LIMIT. *)
Matching(tenant) == {r \in rows : r.tenant = tenant /\ Listed(r)}

Page(tenant) ==
    {r \in Matching(tenant) : Cardinality({s \in Matching(tenant) : Before(s, r)}) < Limit}

-----------------------------------------------------------------------------
(* authenticate_tenant.  Any trusted header commits the request to the     *)
(* internal token and both trusted headers; only without them is the       *)
(* bearer token introspected.                                              *)

Trusted(q) == {q.token, q.subject, q.tenant} # {Null}

(* valid_subject and parse_tenant_id. *)
Parse(value) == IF value = "malformed" THEN Null ELSE value

Identity(proved, subject, tenant) ==
    IF proved /\ Parse(subject) # Null THEN Parse(tenant) ELSE Null

AuthenticateTenant(q) ==
    IF Trusted(q)
    THEN Identity(q.token = "valid", q.subject, q.tenant)
    ELSE Identity(q.bearer.active, q.bearer.subject, q.bearer.tenant)

NoResponse == [tenant |-> Null, total |-> 0, items |-> {}, truncated |-> FALSE]

-----------------------------------------------------------------------------
QueueInit ==
    /\ now = 0
    /\ rows \in Tables
    /\ response = NoResponse

(* list_work_items: one statement in a transaction of its own, so one      *)
(* snapshot.  total_count is counted before the LIMIT and is zero when no  *)
(* row carries it.                                                         *)
ListWorkItems(q) ==
    LET tenant == AuthenticateTenant(q)
        page == Page(tenant)
        total == Cardinality(Matching(tenant))
    IN
    /\ tenant # Null
    /\ response' = [tenant |-> tenant, total |-> total, items |-> page,
                    truncated |-> total > Cardinality(page)]
    /\ UNCHANGED <<now, rows>>

(* 401, or 503 when the database fails. *)
Refuse(q) ==
    /\ response' = NoResponse
    /\ UNCHANGED <<now, rows>>

Tick ==
    /\ now < MaxNow
    /\ now' = now + 1
    /\ response' = NoResponse
    /\ UNCHANGED rows

QueueNext ==
    \/ Tick
    \/ \E q \in Headers : ListWorkItems(q) \/ Refuse(q)

QueueSpec == QueueInit /\ [][QueueNext]_queueVars

-----------------------------------------------------------------------------
(* Properties *)

(* Time alone never takes work off the queue and never makes it less       *)
(* urgent, whatever its dates (the intervals of WORK_QUEUE_SQL).  Failed   *)
(* automation is the exception: it leaves the queue a month after it       *)
(* started, inspected or not.                                              *)
WaitingRaises ==
    [][\A r \in rows : /\ r.kind # "automation_run"
                       /\ Listed(r)
                       => /\ Listed(r)'
                          /\ Rank(WorkItem(r).priority)' <= Rank(WorkItem(r).priority)]_queueVars

(* A page is honest: its items are the tenant's, its total counts what it  *)
(* leaves out, truncated says whether there is any, and nothing left out   *)
(* is more urgent than anything returned.                                  *)
PageHonest ==
    response # NoResponse =>
        LET hidden == Matching(response.tenant) \ response.items IN
        /\ response.items \subseteq Matching(response.tenant)
        /\ Cardinality(response.items) <= Limit
        /\ response.total = Cardinality(response.items) + Cardinality(hidden)
        /\ response.truncated <=> hidden # {}
        /\ \A r \in response.items, s \in hidden :
              Rank(WorkItem(r).priority) <= Rank(WorkItem(s).priority)
=============================================================================
