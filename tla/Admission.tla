----------------------------- MODULE Admission -----------------------------
(***************************************************************************)
(* The submission quota of src/src/lib.rs: QuoteAdmission::check_submission*)
(* and the two kinds of queue it keeps behind one mutex, the timestamps of *)
(* all accepted submissions and those of each subject.                     *)
(*                                                                         *)
(* A call reads the clock before it takes the mutex, so calls may enter in *)
(* another order than their timestamps'.                                   *)
(*                                                                         *)
(* Both queues are filled at the back by the same calls and emptied at the *)
(* front only.  They are therefore modelled as one history of accepted     *)
(* submissions and, for each queue, the position where it now begins: a    *)
(* subject's queue holds the subject's own entries from there on.          *)
(***************************************************************************)
EXTENDS Integers, Sequences, FiniteSets

CONSTANTS
    Subjects,       \* authenticated subjects
    Callers,        \* concurrent requests
    NoCall,         \* a caller that is not in check_submission
    PerWindow,      \* QUOTE_SUBMISSIONS_PER_WINDOW
    Global,         \* QUOTE_SUBMISSIONS_GLOBAL_PER_WINDOW
    MaxSubjects,    \* QUOTE_SUBMISSION_MAX_SUBJECTS
    Window,         \* QUOTE_SUBMISSION_WINDOW, in clock ticks
    TicksPerSecond, \* resolution of the monotonic clock
    MaxTime,        \* bound on the clock
    MaxAccepted     \* bound on the history

ASSUME AdmissionAssumption ==
    /\ PerWindow \in Nat \ {0}
    /\ Global \in Nat \ {0}
    /\ MaxSubjects \in Nat \ {0}
    /\ Window \in Nat \ {0}
    /\ TicksPerSecond \in Nat \ {0}
    /\ MaxTime \in Nat
    /\ MaxAccepted \in Nat
    /\ NoCall \notin [subject: Subjects, stamp: Nat]

VARIABLES
    now,        \* the monotonic clock
    calls,      \* what a caller in check_submission has read
    accepted,   \* history of accepted submissions, in the mutex's order
    allHead,    \* where all_subjects begins
    head,       \* where a subject's queue in by_subject begins
    limited,    \* the 429 just given: which queue was full, and until when
    latest,     \* ghost: the latest timestamp that entered the mutex
    evicted     \* ghost: whether a subject's queue was ever evicted

vars == <<now, calls, accepted, allHead, head, limited, latest, evicted>>

NoLimit == [full |-> "none", subject |-> NoCall, until |-> 0]

Init ==
    /\ now = 0
    /\ calls = [c \in Callers |-> NoCall]
    /\ accepted = <<>>
    /\ allHead = 1
    /\ head = [u \in Subjects |-> 1]
    /\ limited = NoLimit
    /\ latest = 0
    /\ evicted = FALSE

-----------------------------------------------------------------------------
(* The queues *)

Positions == 1..Len(accepted)

Own(u) == {i \in Positions : accepted[i].subject = u}

(* Mutant: the window is a tick short. *)
ExpiredEarly(i, t) == t - accepted[i].stamp >= Window - 1

(* A timestamp later than t is zero old. *)
Expired(i, t) == t - accepted[i].stamp >= Window

First(S) == CHOOSE i \in S : \A j \in S : i <= j

(* discard_expired on the queue of S's entries that begins at h: entries   *)
(* leave the front until one is not expired.                               *)
Discard(S, h, t) ==
    LET live == {i \in S : i >= h /\ ~Expired(i, t)}
    IN  IF live = {} THEN Len(accepted) + 1 ELSE First(live)

AllHead(t) == Discard(Positions, allHead, t)

(* Mutant: by_subject is not swept. *)
HeadsUnswept(t) == head

(* by_subject.retain sweeps every subject's queue ... *)
Heads(t) == [u \in Subjects |-> Discard(Own(u), head[u], t)]

Queue(u, heads) == {i \in Own(u) : i >= heads[u]}

(* ... and forgets the subjects whose queue is empty. *)
Present(heads) == {u \in Subjects : Queue(u, heads) # {}}

(* retry_after_seconds: whole seconds left, and one more. *)
RetryAfter(i, t) ==
    (Window - (IF t > accepted[i].stamp THEN t - accepted[i].stamp ELSE 0))
        \div TicksPerSecond + 1

-----------------------------------------------------------------------------
(* check_submission *)

(* Instant::now(), before the mutex. *)
ReadClock(c, u) ==
    /\ calls[c] = NoCall
    /\ calls' = [calls EXCEPT ![c] = [subject |-> u, stamp |-> now]]
    /\ limited' = NoLimit
    /\ UNCHANGED <<now, accepted, allHead, head, latest, evicted>>

Leave(c) ==
    /\ calls' = [calls EXCEPT ![c] = NoCall]
    /\ latest' = IF calls[c].stamp > latest THEN calls[c].stamp ELSE latest
    /\ UNCHANGED now

(* 429 with Retry-After, which the client counts from the response: the    *)
(* queue of all subjects or u's own is full, and i is its front.           *)
Limit(full, u, i, t) ==
    limited' = [full |-> full, subject |-> u,
                until |-> now + RetryAfter(i, t) * TicksPerSecond]

GlobalFull(h) == Len(accepted) - h + 1 >= Global

(* Mutant: Retry-After is computed from the back of all_subjects. *)
LimitGlobalFromBack(c) ==
    /\ calls[c] # NoCall
    /\ LET t == calls[c].stamp IN
       /\ GlobalFull(AllHead(t))
       /\ Limit("all", calls[c].subject, Len(accepted), t)
       /\ allHead' = AllHead(t)
       /\ head' = Heads(t)
    /\ Leave(c)
    /\ UNCHANGED <<accepted, evicted>>

(* Too many submissions of all subjects: 429. *)
LimitGlobal(c) ==
    /\ calls[c] # NoCall
    /\ LET t == calls[c].stamp IN
       /\ GlobalFull(AllHead(t))
       /\ Limit("all", calls[c].subject, AllHead(t), t)
       /\ allHead' = AllHead(t)
       /\ head' = Heads(t)
    /\ Leave(c)
    /\ UNCHANGED <<accepted, evicted>>

(* Too many submissions of this subject: 429. *)
LimitSubject(c) ==
    /\ calls[c] # NoCall
    /\ LET t == calls[c].stamp
           u == calls[c].subject
       IN
       /\ ~GlobalFull(AllHead(t))
       /\ Cardinality(Queue(u, Heads(t))) >= PerWindow
       /\ Limit("own", u, Heads(t)[u], t)
       /\ allHead' = AllHead(t)
       /\ head' = Heads(t)
    /\ Leave(c)
    /\ UNCHANGED <<accepted, evicted>>

(* The subjects whose queue is dropped to make room for u: one with the    *)
(* oldest front, if u is new and the map is full.                          *)
Evictions(u, heads) ==
    IF u \in Present(heads) \/ Cardinality(Present(heads)) < MaxSubjects
    THEN {{}}
    ELSE {{v} : v \in {v \in Present(heads) : \A w \in Present(heads) :
                          accepted[heads[v]].stamp <= accepted[heads[w]].stamp}}

(* The submission is counted, in both queues. *)
Admit(c) ==
    /\ calls[c] # NoCall
    /\ Len(accepted) < MaxAccepted
    /\ LET t == calls[c].stamp
           u == calls[c].subject
       IN
       /\ ~GlobalFull(AllHead(t))
       /\ Cardinality(Queue(u, Heads(t))) < PerWindow
       /\ accepted' = Append(accepted, [subject |-> u, stamp |-> t])
       /\ allHead' = AllHead(t)
       /\ \E out \in Evictions(u, Heads(t)) :
             /\ head' = [v \in Subjects |->
                           IF v \in out THEN Len(accepted) + 1 ELSE Heads(t)[v]]
             /\ evicted' = (evicted \/ out # {})
    /\ limited' = NoLimit
    /\ Leave(c)

Tick ==
    /\ now < MaxTime
    /\ now' = now + 1
    /\ limited' = NoLimit
    /\ UNCHANGED <<calls, accepted, allHead, head, latest, evicted>>

Next ==
    \/ Tick
    \/ \E c \in Callers :
          \/ \E u \in Subjects : ReadClock(c, u)
          \/ LimitGlobal(c) \/ LimitSubject(c) \/ Admit(c)

Spec == Init /\ [][Next]_vars

-----------------------------------------------------------------------------
(* Properties *)

Call == [subject: Subjects, stamp: Nat]

(* The queues' heads stay within what was accepted. *)
TypeOK ==
    /\ now \in Nat
    /\ calls \in [Callers -> Call \cup {NoCall}]
    /\ accepted \in Seq(Call)
    /\ allHead \in 1..Len(accepted) + 1
    /\ head \in [Subjects -> 1..Len(accepted) + 1]
    /\ limited \in [full: {"none", "all", "own"}, subject: Subjects \cup {NoCall}, until: Nat]
    /\ latest \in Nat
    /\ evicted \in BOOLEAN

(* Every queued timestamp of a subject is queued for all subjects too,     *)
(* although each queue discards by its own front and timestamps may be out *)
(* of order: the global count is never below what the subjects hold.       *)
QueuesAgree == \A u \in Subjects : \A i \in Queue(u, head) : i >= allHead

(* The map of subjects never overflows, so no subject's quota is ever      *)
(* forgotten, if the global quota is not above the map's capacity: 500     *)
(* and 4096 in the code.                                                   *)
NothingEvicted == Global <= MaxSubjects => ~evicted

(* The quotas of README.md: of the submissions younger than the window,    *)
(* by the latest clock reading that entered the mutex, at most PerWindow   *)
(* are one subject's and at most Global are accepted in total, whatever    *)
(* the order in which calls enter.                                         *)
Recent == {i \in Positions : accepted[i].stamp > latest - Window}

QuotasHold ==
    /\ Cardinality(Recent) <= Global
    /\ ~evicted => \A u \in Subjects : Cardinality(Recent \cap Own(u)) <= PerWindow

(* A client that waits as long as Retry-After says is not refused by the   *)
(* same queue again, if nobody took its place meanwhile: the sweep of a    *)
(* call made then leaves room in the queue that was full.  The timestamps  *)
(* behind the front may be older or younger than the front's, and the      *)
(* refused call may have read the clock before the front's own did.        *)
RetryAfterSuffices ==
    /\ limited.full = "all" => ~GlobalFull(AllHead(limited.until))
    /\ limited.full = "own" =>
          Cardinality(Queue(limited.subject, Heads(limited.until))) < PerWindow
=============================================================================
