---------------------------- MODULE HumanReview ----------------------------
(***************************************************************************)
(* The human review of what the system drafted or flagged: notices         *)
(* (NoticeService), fraud flags (FraudReviewService) and payment           *)
(* discrepancies (QcReviewService).  The three are one protocol: a READ    *)
(* COMMITTED transaction reads the row, requires it undecided, appends to  *)
(* the audit chain, and at commit Hibernate writes every column of the row *)
(* it read.  The worker stores notices and flags, and fills in a           *)
(* discrepancy's ai_summary once per delivery of its message.              *)
(*                                                                         *)
(* An append is two steps, as in AuditChain: the INSERT draws the event's  *)
(* id, then its trigger gets the chain's lock, for the rest of the         *)
(* transaction, and links the event to the last row by id it can see.      *)
(* The two events of an approved notice commit together and stand here as  *)
(* one.  A summary is its number, 0 for null.                              *)
(***************************************************************************)
EXTENDS Naturals

CONSTANTS
    Notice, Flag, Discrepancy,  \* rows of notice, fraud_risk_score, payment_error_review
    Reviewer,                   \* workers and supervisors, one transaction each at a time
    MaxSummaries,               \* bound on the deliveries of a qc_summary message
    MaxIds,                     \* bound on the ids drawn from audit_event's sequence
    NoRow, NoOne                \* absent references

Row == Notice \cup Flag \cup Discrepancy

ASSUME KindAssumption == /\ Notice \cap Flag = {} /\ Notice \cap Discrepancy = {}
                         /\ Flag \cap Discrepancy = {} /\ NoRow \notin Row
ASSUME ReviewerAssumption == NoOne \notin Reviewer /\ MaxSummaries \in Nat /\ MaxIds \in Nat

VARIABLES
    stored,     \* the rows that exist
    outcome,    \* status or review_outcome, "open" while DRAFT or null
    by,         \* approved_by, rejected_by or reviewed_by
    summary,    \* ai_summary
    flagged,    \* QC_DISCREPANCY_FLAGGED events of a discrepancy
    trail,      \* decision events in the chain: row, outcome, by, id and prev
    top,        \* the highest id committed to the chain, what its next link names
    nextId,     \* the sequence behind audit_event.id: never rolled back
    lock,       \* holder of the chain's advisory lock
    posting,    \* the id drawn by the worker's open transaction on a discrepancy, or 0
    at,         \* where a reviewer's transaction stands
    on,         \* the row it decides
    choice,     \* the outcome it gives
    seen,       \* ai_summary as it read it
    drawn,      \* the id its INSERT drew
    prev,       \* the row its event links to (prev_hash)
    decisions,  \* observed: committed decisions per row
    raced       \* observed: rows decided while another decision was in flight

rowVars == <<stored, outcome, by, summary>>
chainVars == <<trail, top, nextId, lock>>
txVars  == <<at, on, choice, seen, drawn, prev>>
history == <<decisions, raced>>
vars == <<rowVars, flagged, posting, chainVars, txVars, history>>

Init ==
    /\ stored  = {}
    /\ outcome = [r \in Row |-> "open"]
    /\ by      = [r \in Row |-> NoOne]
    /\ summary = [r \in Row |-> 0]
    /\ flagged = [r \in Row |-> 0]
    /\ posting = [d \in Discrepancy |-> 0]
    /\ trail   = {}
    /\ top     = 0
    /\ nextId  = 1
    /\ lock    = NoOne
    /\ at      = [v \in Reviewer |-> "idle"]
    /\ on      = [v \in Reviewer |-> NoRow]
    /\ choice  = [v \in Reviewer |-> "open"]
    /\ seen    = [v \in Reviewer |-> 0]
    /\ drawn   = [v \in Reviewer |-> 0]
    /\ prev    = [v \in Reviewer |-> 0]
    /\ decisions = [r \in Row |-> 0]
    /\ raced     = {}

\* What approveAndSend, confirmRisk and confirmError set.
Accepted(r) ==
    IF r \in Notice THEN "SENT"
    ELSE IF r \in Flag THEN "CONFIRMED_RISK" ELSE "CONFIRMED_ERROR"

\* What Notice.reject, clear and dismiss set.
Declined(r) ==
    IF r \in Notice THEN "REJECTED"
    ELSE IF r \in Flag THEN "CLEARED" ELSE "DISMISSED"

\* Seeded bug: no decision on a notice is audited.
AuditedUnlessNotice(r, c) == r \notin Notice

\* Whether outcome c of r is audited: all but the rejection of a notice.
Audited(r, c) == r \notin Notice \/ c = Accepted(r)

-----------------------------------------------------------------------------
\* The row is inserted: correspondence_consumer, fraud_scoring_consumer,
\* sampleOne.
Store(r) ==
    /\ r \notin stored
    /\ stored' = stored \cup {r}
    /\ UNCHANGED <<outcome, by, summary, flagged, posting, chainVars, txVars, history>>

\* The sequence behind audit_event.id is asked for the next value.
DrawId ==
    /\ nextId <= MaxIds
    /\ nextId' = nextId + 1

\* The last row by id once the event with id i is committed.
LastWith(i) == IF top < i THEN i ELSE top

\* qc_summary_consumer's _persist: the UPDATE locks the row, the INSERT draws
\* its id.
WriteSummary(d) ==
    /\ d \in stored
    /\ flagged[d] < MaxSummaries
    /\ posting[d] = 0
    /\ DrawId
    /\ posting' = [posting EXCEPT ![d] = nextId]
    /\ UNCHANGED <<rowVars, flagged, trail, top, lock, txVars, history>>

\* Seeded bug: the first summary wins, every delivery is audited.
FlagOnce(d) ==
    /\ posting[d] # 0
    /\ lock = NoOne
    /\ flagged' = [flagged EXCEPT ![d] = @ + 1]
    /\ summary' = [summary EXCEPT ![d] = IF @ = 0 THEN flagged[d] + 1 ELSE @]
    /\ top'     = LastWith(posting[d])
    /\ posting' = [posting EXCEPT ![d] = 0]
    /\ UNCHANGED <<stored, outcome, by, trail, nextId, lock, txVars, history>>

\* The trigger gets the lock, the column and the event commit together.
FlagSummary(d) ==
    /\ posting[d] # 0
    /\ lock = NoOne
    /\ flagged' = [flagged EXCEPT ![d] = @ + 1]
    /\ summary' = [summary EXCEPT ![d] = flagged[d] + 1]
    /\ top'     = LastWith(posting[d])
    /\ posting' = [posting EXCEPT ![d] = 0]
    /\ UNCHANGED <<stored, outcome, by, trail, nextId, lock, txVars, history>>

\* The worker dies, or is the victim of a deadlock with a reviewer; the
\* message is delivered again.
DropSummary(d) ==
    /\ posting[d] # 0
    /\ posting' = [posting EXCEPT ![d] = 0]
    /\ UNCHANGED <<rowVars, flagged, chainVars, txVars, history>>

-----------------------------------------------------------------------------
\* Seeded bug: requireDraft and requireUnreviewed are missing.
OpenAny(v, r, c) ==
    /\ at[v] = "idle"
    /\ r \in stored
    /\ at'     = [at EXCEPT ![v] = "deciding"]
    /\ on'     = [on EXCEPT ![v] = r]
    /\ choice' = [choice EXCEPT ![v] = c]
    /\ seen'   = [seen EXCEPT ![v] = summary[r]]
    /\ UNCHANGED <<rowVars, flagged, posting, chainVars, drawn, prev, history>>

\* findById, and requireDraft or requireUnreviewed of what it read.
OpenDecision(v, r, c) ==
    /\ at[v] = "idle"
    /\ r \in stored
    /\ outcome[r] = "open"
    /\ at'     = [at EXCEPT ![v] = "deciding"]
    /\ on'     = [on EXCEPT ![v] = r]
    /\ choice' = [choice EXCEPT ![v] = c]
    /\ seen'   = [seen EXCEPT ![v] = summary[r]]
    /\ UNCHANGED <<rowVars, flagged, posting, chainVars, drawn, prev, history>>

\* auditService.append: the INSERT evaluates the default of id.
Draw(v) ==
    /\ at[v] = "deciding"
    /\ Audited(on[v], choice[v])
    /\ DrawId
    /\ drawn' = [drawn EXCEPT ![v] = nextId]
    /\ at'    = [at EXCEPT ![v] = "waiting"]
    /\ UNCHANGED <<rowVars, flagged, posting, trail, top, lock, on, choice, seen, prev, history>>

\* Seeded bug: the trigger takes no lock.
ChainUnlocked(v) ==
    /\ at[v] = "waiting"
    /\ at'   = [at EXCEPT ![v] = "chained"]
    /\ prev' = [prev EXCEPT ![v] = top]
    /\ UNCHANGED <<rowVars, flagged, posting, chainVars, on, choice, seen, drawn, history>>

\* The trigger has the lock, which stays with the transaction, and links the
\* event to the last row by id.
Chain(v) ==
    /\ at[v] = "waiting"
    /\ lock = NoOne
    /\ lock' = v
    /\ at'   = [at EXCEPT ![v] = "chained"]
    /\ prev' = [prev EXCEPT ![v] = top]
    /\ UNCHANGED <<rowVars, flagged, posting, trail, top, nextId, on, choice, seen, drawn, history>>

\* The end of v's transaction.
Leave(v) ==
    /\ at'     = [at EXCEPT ![v] = "idle"]
    /\ on'     = [on EXCEPT ![v] = NoRow]
    /\ choice' = [choice EXCEPT ![v] = "open"]
    /\ seen'   = [seen EXCEPT ![v] = 0]
    /\ drawn'  = [drawn EXCEPT ![v] = 0]
    /\ prev'   = [prev EXCEPT ![v] = 0]
    /\ lock'   = IF lock = v THEN NoOne ELSE lock

\* The event of v's decision, as it is inserted.
Event(v) == [row |-> on[v], outcome |-> choice[v], by |-> v, id |-> drawn[v], prev |-> prev[v]]

\* The worker's open transaction has updated r and holds its row lock.
Updating(r) == r \in Discrepancy /\ posting[r] # 0

\* The flush writes every column as read or set, once it has the row's lock;
\* the event, if any, becomes visible.
Commit(v) ==
    LET r == on[v] IN
    /\ \/ at[v] = "chained" /\ trail' = trail \cup {Event(v)} /\ top' = LastWith(drawn[v])
       \/ at[v] = "deciding" /\ ~ Audited(r, choice[v]) /\ UNCHANGED <<trail, top>>
    /\ ~ Updating(r)
    /\ outcome' = [outcome EXCEPT ![r] = choice[v]]
    /\ by'      = [by EXCEPT ![r] = v]
    /\ summary' = [summary EXCEPT ![r] = seen[v]]
    /\ decisions' = [decisions EXCEPT ![r] = @ + 1]
    /\ raced' = IF \E w \in Reviewer \ {v} : on[w] = r THEN raced \cup {r} ELSE raced
    /\ Leave(v)
    /\ UNCHANGED <<stored, flagged, posting, nextId>>

\* The PDF renders no bytes, a connection is lost, a deadlock is resolved.
RollBack(v) ==
    /\ at[v] # "idle"
    /\ Leave(v)
    /\ UNCHANGED <<rowVars, flagged, posting, trail, top, nextId, history>>

-----------------------------------------------------------------------------
ReviewStep(v) ==
    \/ \E r \in Row : OpenDecision(v, r, Accepted(r)) \/ OpenDecision(v, r, Declined(r))
    \/ Draw(v)
    \/ Chain(v)
    \/ Commit(v)
    \/ RollBack(v)

Next ==
    \/ \E r \in Row : Store(r)
    \/ \E d \in Discrepancy : WriteSummary(d) \/ FlagSummary(d) \/ DropSummary(d)
    \/ \E v \in Reviewer : ReviewStep(v)

Spec == Init /\ [][Next]_vars

-----------------------------------------------------------------------------
(* Correctness                                                             *)

AnyOutcome == {"open", "SENT", "REJECTED", "CONFIRMED_RISK", "CLEARED",
               "CONFIRMED_ERROR", "DISMISSED"}

Outcome(r) ==
    {"open"} \cup (IF r \in Notice THEN {"SENT", "REJECTED"}
                   ELSE IF r \in Flag THEN {"CONFIRMED_RISK", "CLEARED"}
                   ELSE {"CONFIRMED_ERROR", "DISMISSED"})

\* Every variable keeps its type; a row takes only its own kind's outcomes.
TypeOK ==
    /\ stored  \in SUBSET Row
    /\ outcome \in [Row -> AnyOutcome] /\ \A r \in Row : outcome[r] \in Outcome(r)
    /\ by      \in [Row -> Reviewer \cup {NoOne}]
    /\ summary \in [Row -> 0..MaxSummaries]
    /\ flagged \in [Row -> 0..MaxSummaries]
    /\ posting \in [Discrepancy -> Nat]
    /\ trail   \in SUBSET [row : Row, outcome : AnyOutcome, by : Reviewer, id : Nat, prev : Nat]
    /\ top     \in Nat
    /\ nextId  \in 1..(MaxIds + 1)
    /\ lock    \in Reviewer \cup {NoOne}
    /\ at      \in [Reviewer -> {"idle", "deciding", "waiting", "chained"}]
    /\ on      \in [Reviewer -> Row \cup {NoRow}]
    /\ choice  \in [Reviewer -> AnyOutcome]
    /\ seen    \in [Reviewer -> 0..MaxSummaries]
    /\ drawn   \in [Reviewer -> Nat]
    /\ prev    \in [Reviewer -> Nat]
    /\ decisions \in [Row -> Nat]
    /\ raced     \in SUBSET Row

\* The decision a flag or discrepancy shows is the one chained last, through
\* any race of reviewers: its event links to every other decision of the row
\* or past it, as the row is written while the chain is locked.  It need not
\* be the last by id: a reviewer may draw first and lock second, and then
\* the event shown links forward, where verify_chain reports a broken chain.
RowIsLastChained ==
    \A r \in Flag \cup Discrepancy : outcome[r] # "open" =>
        \E e \in trail :
            /\ e.row = r /\ e.outcome = outcome[r] /\ e.by = by[r]
            /\ \A f \in trail \ {e} : f.row = r => f.id <= e.prev

\* A notice shown as sent has its approver's NOTICE_SENT in the chain, and a
\* NOTICE_SENT belongs to a notice shown as sent unless two reviews raced.
SentAsAudited ==
    \A n \in Notice :
        /\ outcome[n] = "SENT" => \E e \in trail : e.row = n /\ e.by = by[n]
        /\ (\E e \in trail : e.row = n) => outcome[n] = "SENT" \/ n \in raced

\* A row is decided twice only if the two decisions overlapped in time.
DecidedTwiceOnlyIfRaced ==
    \A r \in Row : decisions[r] > 1 => r \in raced

\* An undecided discrepancy shows the summary flagged last: only a reviewer's
\* commit, which writes back the summary it read, can lose one.
SummaryLostOnlyByDecision ==
    \A d \in Discrepancy : outcome[d] = "open" => summary[d] = flagged[d]

\* A decided row is never open for review again, whatever is delivered late.
DecisionIsForGood ==
    [][\A r \in Row : outcome[r] # "open" => outcome'[r] # "open"]_vars

=============================================================================
