----------------------------- MODULE LockOrder -----------------------------
(***************************************************************************)
(* The exclusive locks the system's transactions take, in the order the    *)
(* code takes them: row locks when an UPDATE runs, the audit chain's       *)
(* advisory lock (trigger of V6) when an event is inserted.  JdbcTemplate, *)
(* @Modifying queries and psycopg run their statement on the spot;         *)
(* Hibernate's entity updates wait for the flush at commit, after every    *)
(* append.  Everything is held to the end, and Postgres ends a circular    *)
(* wait by rolling one of its transactions back.                           *)
(***************************************************************************)
EXTENDS Naturals, Sequences, FiniteSets

CONSTANTS
    Tx,            \* database sessions, one transaction at a time
    Audit,         \* the advisory lock
    Document, Discrepancy, Proposal, ParameterSet,  \* one row of each table
    Verification,  \* rows of verification: a set of locks
    NoTx

Row  == {Document, Discrepancy, Proposal, ParameterSet} \cup Verification
Lock == Row \cup {Audit}

ASSUME LockAssumption == /\ Audit \notin Row /\ NoTx \notin Tx
                         /\ Verification \cap {Document, Discrepancy, Proposal, ParameterSet} = {}
ASSUME VerificationAssumption == IsFiniteSet(Verification)

VARIABLES
    owner,  \* holder of a lock
    plan    \* the locks a session's transaction still has to take, in order

lockVars == <<owner, plan>>

LockInit ==
    /\ owner = [l \in Lock |-> NoTx]
    /\ plan  = [t \in Tx |-> << >>]

-----------------------------------------------------------------------------
(* The transactions, by the locks they take                                *)

\* document_intake_consumer and qc_summary_consumer: UPDATE, then INSERT.
Persist   == <<Document, Audit>>
Summarise == <<Discrepancy, Audit>>

\* Uploads, determinations, submissions, views: an event and new rows only.
AppendOnly == <<Audit>>

\* requestVerification: REQUESTED, updateStatus, RECEIVED.
Request(x) == <<Audit, x, Audit>>

\* QcReviewService (NoticeService and FraudReviewService alike): the event,
\* the row at flush.
Review == <<Audit, Discrepancy>>

\* accept of a proposal: the event, then both entities at flush.
Accept == <<Audit, Proposal, ParameterSet>>

\* reject: no event, one row.
Reject == <<Proposal>>

\* Seeded bug: confirm updates all verifications before it appends.
ConfirmRowsFirst(p) == p \o <<Document, Audit>>

\* confirm: per verification updateStatus and its event, then the document
\* and its event; p lists the verifications as the request does.
Confirm(p) ==
    [i \in 1..(2 * Len(p)) |-> IF i % 2 = 1 THEN p[(i + 1) \div 2] ELSE Audit] \o <<Document, Audit>>

\* The lists of distinct verifications a request can name.
Listing ==
    UNION {{p \in [1..n -> Verification] : \A i, j \in 1..n : p[i] = p[j] => i = j} :
              n \in 0..Cardinality(Verification)}

Plan == {Persist, Summarise, AppendOnly, Review, Accept, Reject}
            \cup {Request(x) : x \in Verification} \cup {Confirm(p) : p \in Listing}

-----------------------------------------------------------------------------
Begin(t, p) ==
    /\ plan[t] = << >>
    /\ \A l \in Lock : owner[l] # t
    /\ plan' = [plan EXCEPT ![t] = p]
    /\ UNCHANGED owner

\* The next statement runs: its lock is free or the session's own.
Acquire(t) ==
    /\ plan[t] # << >>
    /\ owner[Head(plan[t])] \in {NoTx, t}
    /\ owner' = [owner EXCEPT ![Head(plan[t])] = t]
    /\ plan'  = [plan EXCEPT ![t] = Tail(@)]

\* Seeded bug: row locks are given up, the advisory lock outlives the
\* transaction (pg_advisory_lock).
ReleaseRows(t) ==
    owner' = [l \in Lock |-> IF owner[l] = t /\ l # Audit THEN NoTx ELSE owner[l]]

\* The end of a transaction releases what it holds.
Release(t) == owner' = [l \in Lock |-> IF owner[l] = t THEN NoTx ELSE owner[l]]

CommitTx(t) ==
    /\ plan[t] = << >>
    /\ \E l \in Lock : owner[l] = t
    /\ Release(t)
    /\ UNCHANGED plan

\* t waits for u.
Waits(t, u) == /\ plan[t] # << >>
               /\ u # t /\ owner[Head(plan[t])] = u

\* Every session of S waits for another of S.
Circular(S) == S # {} /\ \A t \in S : \E u \in S : Waits(t, u)

\* Postgres' deadlock detector finds t on a cycle of waits.
Deadlocked(t) ==
    \E S \in SUBSET Tx : /\ t \in S /\ Circular(S)
                        /\ \A R \in SUBSET S : Circular(R) => R = S

\* t is the victim: rolled back, its client gets the error.
Abort(t) ==
    /\ Deadlocked(t)
    /\ plan' = [plan EXCEPT ![t] = << >>]
    /\ Release(t)

-----------------------------------------------------------------------------
LockNext ==
    \E t \in Tx :
        \/ \E p \in Plan : Begin(t, p)
        \/ Acquire(t)
        \/ CommitTx(t)
        \/ Abort(t)

\* A session executes its next statement and ends; Postgres queues those who
\* wait for a lock, and its deadlock detector runs after deadlock_timeout.
LockFairness ==
    \A t \in Tx : SF_lockVars(Acquire(t)) /\ WF_lockVars(CommitTx(t)) /\ WF_lockVars(Abort(t))

LockSpec     == LockInit /\ [][LockNext]_lockVars
LockFairSpec == LockSpec /\ LockFairness

-----------------------------------------------------------------------------
(* Correctness                                                             *)

\* A plan only ever names locks, and a lock has at most one holder.
LockTypeOK ==
    /\ owner \in [Lock -> Tx \cup {NoTx}]
    /\ \A t \in Tx : \E p \in Plan : \E n \in 0..Len(p) : plan[t] = SubSeq(p, n + 1, Len(p))

\* t holds a row and waits for the audit lock.
RowThenAudit(t) ==
    /\ plan[t] # << >> /\ Head(plan[t]) = Audit
    /\ \E r \in Row : owner[r] = t

\* Every circular wait contains a transaction that updated a row before its
\* first event: reviews, publishing, mock requests and uploads, which append
\* first, never deadlock among themselves.
DeadlockNeedsRowFirst ==
    \A S \in SUBSET Tx : Circular(S) => \E t \in S : RowThenAudit(t)

\* Whoever keeps the holder of the audit lock waiting needs no further row:
\* it is about to commit, or waits for that lock itself.  So the lock every
\* append needs is never held behind a queue of row locks.
AuditHolderWaitsOnce ==
    \A t, u \in Tx :
        owner[Audit] = t /\ Waits(t, u) => plan[u] = << >> \/ Head(plan[u]) = Audit

\* Every transaction ends, committed or as the victim of a deadlock.
EveryTransactionEnds ==
    \A t \in Tx : (plan[t] # << >>) ~> (plan[t] = << >> /\ \A l \in Lock : owner[l] # t)
=============================================================================
