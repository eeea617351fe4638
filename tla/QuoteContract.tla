---------------------------- MODULE QuoteContract ----------------------------
(***************************************************************************)
(* What the quote service promises to its callers, free of transactions,   *)
(* handlers and workers.  A quote is created once, runs through            *)
(* queued -> analyzing -> completed | failed, and may be requeued only     *)
(* from failed; every creation and every requeueing is recorded, for ever, *)
(* under the owner's idempotency key that asked for it.                    *)
(*                                                                         *)
(* QuoteLifecycle, the PostgreSQL-backed implementation, is shown to       *)
(* implement this specification.                                           *)
(***************************************************************************)
CONSTANTS
    Quotes,     \* quote identifiers (UUIDs)
    Keys,       \* (owner_subject, idempotency_key) pairs
    Requests,   \* normalised request bodies
    Subjects,   \* authenticated subjects, the tenants
    OwnerOf,    \* the subject of a key
    Nil         \* stands for SQL NULL

VARIABLES
    status,     \* canonical_quote.status, "absent" before the row exists
    owner,      \* canonical_quote.owner_subject
    ops         \* canonical_quote_operation, by primary key

contractVars == <<status, owner, ops>>

(* The values of the status column, as db/schema.sql constrains it. *)
Status == {"queued", "analyzing", "completed", "failed"}

NoOp == [kind |-> "none", quote |-> Nil, request |-> Nil]

CreateOp(q, r) == [kind |-> "create", quote |-> q, request |-> r]

RetryOp(q) == [kind |-> "retry", quote |-> q, request |-> Nil]

ContractInit ==
    /\ status = [q \in Quotes |-> "absent"]
    /\ owner = [q \in Quotes |-> Nil]
    /\ ops = [k \in Keys |-> NoOp]

(* An unused key creates a quote for its owner. *)
Create(k, q, r) ==
    /\ ops[k].kind = "none"
    /\ status[q] = "absent"
    /\ status' = [status EXCEPT ![q] = "queued"]
    /\ owner' = [owner EXCEPT ![q] = OwnerOf[k]]
    /\ ops' = [ops EXCEPT ![k] = CreateOp(q, r)]

(* An unused key of the quote's owner requeues a failed quote. *)
Requeue(k, q) ==
    /\ ops[k].kind = "none"
    /\ status[q] = "failed"
    /\ owner[q] = OwnerOf[k]
    /\ status' = [status EXCEPT ![q] = "queued"]
    /\ ops' = [ops EXCEPT ![k] = RetryOp(q)]
    /\ UNCHANGED owner

Begin(q) ==
    /\ status[q] = "queued"
    /\ status' = [status EXCEPT ![q] = "analyzing"]
    /\ UNCHANGED <<owner, ops>>

Finish(q) ==
    /\ status[q] = "analyzing"
    /\ \E final \in {"completed", "failed"} :
          status' = [status EXCEPT ![q] = final]
    /\ UNCHANGED <<owner, ops>>

ContractNext ==
    \/ \E k \in Keys, q \in Quotes, r \in Requests : Create(k, q, r)
    \/ \E k \in Keys, q \in Quotes : Requeue(k, q)
    \/ \E q \in Quotes : Begin(q) \/ Finish(q)

ContractSpec == ContractInit /\ [][ContractNext]_contractVars
=============================================================================
