----------------------------- MODULE QuoteReads -----------------------------
(***************************************************************************)
(* The list of a subject's quotes, GET /v1/quotes: list_quotes of          *)
(* src/src/lib.rs and src/src/persistence.rs, read page by page while      *)
(* other quotes are created and the quote of QuoteEvents changes.          *)
(*                                                                         *)
(* A quote's created_at is read when its transaction begins, or, without a *)
(* database, before the record is inserted, so quotes become visible in    *)
(* another order than that of created_at.  Quotes are numbered in the      *)
(* order of their ids, which is unrelated to either.                       *)
(***************************************************************************)
EXTENDS QuoteEvents

CONSTANTS
    Quotes,     \* quote ids, numbers
    Observed,   \* the quote whose events QuoteEvents follows
    OwnerOf,    \* the subject each quote belongs to
    Requests,   \* the headers that clients send
    Nobody,     \* no subject, and an absent or malformed header
    MaxLimit,   \* the largest page, 100 in the code
    MaxClock    \* bound on the clock

ASSUME ReadsAssumption ==
    /\ Observed \in Quotes
    /\ Quotes \subseteq Nat \ {0}
    /\ IsFiniteSet(Quotes)
    /\ MaxLimit \in Nat \ {0}
    /\ MaxClock \in Nat

VARIABLES
    clock,      \* the server's clock
    created,    \* created_at, Absent before a create begins
    visible,    \* the quotes committed, or inserted into the map
    walk        \* a client that follows next_cursor from page to page

readVars == <<clock, created, visible, walk>>

Absent == -1

(* There is no quote 0: no cursor was sent, or none was returned. *)
NoCursor == 0

(* pages holds the quotes of each page, began the subject's quotes when    *)
(* the first page was read.                                                *)
NoWalk == [subject |-> Nobody, cursor |-> NoCursor, pages |-> <<>>, began |-> {}]

(* The observed quote exists; for a reader, others may exist since earlier. *)
ReadsInit ==
    /\ Init
    /\ clock = 1
    /\ created \in {c \in [Quotes -> {Absent, 0, 1}] :
                      \A q \in Quotes : (q = Observed) <=> (c[q] = 1)}
    /\ visible = {q \in Quotes : created[q] # Absent}
    /\ audience = "reader" \/ visible = {Observed}
    /\ walk = NoWalk

-----------------------------------------------------------------------------
(* Other quotes *)

Tick ==
    /\ clock < MaxClock
    /\ clock' = clock + 1
    /\ UNCHANGED <<created, visible, walk>>

BeginCreate(q) ==
    /\ created[q] = Absent
    /\ created' = [created EXCEPT ![q] = clock]
    /\ UNCHANGED <<clock, visible, walk>>

CommitCreate(q) ==
    /\ created[q] # Absent
    /\ q \notin visible
    /\ visible' = visible \cup {q}
    /\ UNCHANGED <<clock, created, walk>>

-----------------------------------------------------------------------------
(* The list *)

(* authenticate: a trusted header of either kind commits the request to    *)
(* the internal token and the subject header; without any, the bearer      *)
(* token is introspected.                                                  *)
Authenticate(r) ==
    IF {r.token, r.subject} # {Nobody}
    THEN IF r.token = "valid" THEN r.subject ELSE Nobody
    ELSE IF r.bearer.active THEN r.bearer.subject ELSE Nobody

(* ORDER BY created_at DESC, id DESC *)
Before(p, q) == created[p] > created[q] \/ (created[p] = created[q] /\ p > q)

Clamp(limit) == IF limit < 1 THEN 1 ELSE IF limit > MaxLimit THEN MaxLimit ELSE limit

Take(rows, n) == {q \in rows : Cardinality({p \in rows : Before(p, q)}) < n}

Oldest(rows) == CHOOSE q \in rows : \A p \in rows \ {q} : Before(p, q)

(* The rows after the cursor, one more than the page holds. *)
Rows(subject, after, limit) ==
    Take({q \in visible : /\ OwnerOf[q] = subject
                          /\ after = NoCursor \/ Before(after, q)},
         limit + 1)

(* Mutant: the cursor is the extra row. *)
NextCursorOfRows(rows, limit) ==
    IF Cardinality(rows) > limit THEN Oldest(rows) ELSE NoCursor

(* quote_list_response: the last quote of a page that others follow. *)
NextCursor(rows, limit) ==
    IF Cardinality(rows) > limit THEN Oldest(Take(rows, limit)) ELSE NoCursor

(* quote_summary succeeds for the quotes of the page. *)
Summarizable(page) == Observed \in page => Readable(Status, analysis)

Done == walk.pages # <<>> /\ walk.cursor = NoCursor

(* One page.  A request that is refused, or whose page holds a quote that  *)
(* cannot be shown, leaves the walk where it is.                           *)
ListQuotes(r, asked) ==
    LET subject == Authenticate(r)
        limit == Clamp(asked)
        rows == Rows(subject, walk.cursor, limit)
        page == Take(rows, limit)
    IN
    /\ ~Done
    /\ subject # Nobody
    /\ walk.subject \in {Nobody, subject}
    /\ Summarizable(page)
    /\ walk' = [subject |-> subject,
                cursor |-> NextCursor(rows, limit),
                pages |-> Append(walk.pages, page),
                began |-> IF walk.pages = <<>>
                          THEN {q \in visible : OwnerOf[q] = subject}
                          ELSE walk.began]
    /\ UNCHANGED <<clock, created, visible>>

Read ==
    /\ audience = "reader"
    /\ \/ Tick
       \/ \E q \in Quotes : BeginCreate(q) \/ CommitCreate(q)
       \/ \E r \in Requests, asked \in 0..(MaxLimit + 1) : ListQuotes(r, asked)
    /\ UNCHANGED vars

ReadsNext ==
    \/ Read
    \/ Next /\ UNCHANGED readVars

ReadsSpec == ReadsInit /\ [][ReadsNext]_<<vars, readVars>>

-----------------------------------------------------------------------------
(* Properties *)

(* Following next_cursor to its end lists every quote the subject had when *)
(* the first page was read exactly once, newest first and nobody else's,   *)
(* whatever page sizes are asked for and whatever is created meanwhile     *)
(* (the cursor of list_quotes and quote_list_response).                    *)
WalkComplete ==
    LET listed == UNION {walk.pages[i] : i \in DOMAIN walk.pages} IN
    /\ \A q \in listed : OwnerOf[q] = walk.subject
    /\ \A i, j \in DOMAIN walk.pages : i < j =>
          \A p \in walk.pages[i], q \in walk.pages[j] : Before(p, q)
    /\ Done => walk.began \subseteq listed
=============================================================================
