---------------------------- MODULE StallReasons ----------------------------
(***************************************************************************)
(* The hourly refresh of why cases are late (sla_monitor): the most urgent *)
(* pending cases, and of these the ones whose reason is missing or stale,  *)
(* each drafted and stored in a transaction of its own.  What the draft    *)
(* says is DraftedText's.  Days pass for all cases alike, so their urgency *)
(* is an order, here that of their numbers; ages are in units of a Tick.   *)
(***************************************************************************)
EXTENDS ModelCall, SequencesExt, FiniteSetsExt

CONSTANTS
    Cases,          \* how many cases there may be
    MaxCases,       \* _DEFAULT_MAX_CASES_PER_RUN
    StaleAfter      \* _STALE_AFTER

VARIABLES
    pending,    \* cases in SUBMITTED or PENDING_VERIFICATION
    age,        \* of each case's sla_stall_reason, up to StaleAfter
    batch       \* the cases the run has still to visit

sla == <<pending, age, batch>>

Case == 1..Cases
NoReason == StaleAfter + 1

SlaInputs == [kind : {"sla"}]

SlaInit ==
    /\ pending \in IF op.kind = "sla" THEN SUBSET Case ELSE {{}}
    /\ age = [c \in Case |-> NoReason]
    /\ batch = <<>>

Batching == At({"sla"}, "start")

Ahead(c) == Cardinality({d \in pending : d < c})

\* Seeded bug: the least urgent are taken.
Bottom(c) == Cardinality({d \in pending : d > c}) < MaxCases

\* find_at_risk_cases, cut before anything is asked about the cases.
Top(c) == Ahead(c) < MaxCases

Begin ==
    /\ Batching /\ batch = <<>>
    /\ batch' = SetToSortSeq({c \in pending : Top(c)}, <)
    /\ UNCHANGED <<call, pending, age>>

\* _needs_refresh
Needs(c) == age[c] >= StaleAfter

Pass == batch' = Tail(batch) /\ UNCHANGED <<call, pending>>

Visiting(c) == Batching /\ batch # <<>> /\ Head(batch) = c

\* A reason young enough stays, and so does one whose draft failed, which is
\* caught and left to the next run.
Leave(c) == Visiting(c) /\ Pass /\ UNCHANGED age

Write(c) ==
    /\ Visiting(c) /\ Needs(c)
    /\ age' = [age EXCEPT ![c] = 0]
    /\ Pass

\* What is not caught, as a database error, ends the run.
Abort ==
    /\ Batching /\ batch # <<>>
    /\ batch' = <<>>
    /\ UNCHANGED <<call, pending, age>>

\* Time passes; cases are submitted and decided, in the middle of a run too.
Tick ==
    /\ Batching /\ \E c \in Case : age[c] < StaleAfter
    /\ age' = [c \in Case |-> IF age[c] < StaleAfter THEN age[c] + 1 ELSE age[c]]
    /\ UNCHANGED <<call, pending, batch>>

Submit(c) == Batching /\ c \notin pending /\ pending' = pending \cup {c}
                /\ UNCHANGED <<call, age, batch>>
Decide(c) == Batching /\ c \in pending /\ pending' = pending \ {c}
                /\ UNCHANGED <<call, age, batch>>

SlaNext == \/ Begin \/ Abort \/ Tick
           \/ \E c \in Case : Leave(c) \/ Write(c) \/ Submit(c) \/ Decide(c)

\* The refresh is scheduled every hour and visits its cases one by one; a
\* case it visits again and again is drafted well some time.
SlaFairness ==
    /\ WF_sla(Begin)
    /\ WF_sla(\E c \in Case : Leave(c) \/ Write(c))
    /\ \A c \in Case : SF_sla(Write(c))

-----------------------------------------------------------------------------

MostUrgent(c) == c \in pending /\ Ahead(c) < MaxCases

Told(c) == age[c] < StaleAfter

\* A case that stays among the most urgent has a fresh reason again and
\* again, unless runs keep ending early; whatever becomes of other cases, of
\* the drafts that fail, and of those beyond the cut, for whom nothing is
\* promised: a fresh reason still takes one of the run's places
\* (refresh_stall_reasons).
TopCasesReached ==
    \A c \in Case :
        (<>[]MostUrgent(c) /\ <>[][~Abort]_<<call, sla>>) => []<>Told(c)
=============================================================================
