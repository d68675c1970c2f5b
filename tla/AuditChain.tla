----------------------------- MODULE AuditChain -----------------------------
(***************************************************************************)
(* The audit_event hash chain: the insert trigger of migration V6, the     *)
(* transactions that append through JdbcAuditService (any number of events *)
(* each, committed or rolled back together) and the verifier of            *)
(* data-platform/src/canopica_data/audit/verify_chain.py.                  *)
(*                                                                         *)
(* A row is its id; its hash, which nothing but its contents determines,   *)
(* is represented by the id too, so prev_hash is the id of the row linked  *)
(* to, and 0 stands for the 64 zeros of an empty table.                    *)
(***************************************************************************)
EXTENDS Integers, FiniteSets

CONSTANTS
    Writer,     \* database sessions that append
    MaxEvents,  \* bound on the ids drawn from the bigserial sequence
    NoWriter    \* the advisory lock is free

ASSUME EventsAssumption == MaxEvents \in Nat
ASSUME WriterAssumption == NoWriter \notin Writer

VARIABLES
    nextId,     \* the sequence behind audit_event.id: never rolled back
    committed,  \* ids of the committed rows
    pending,    \* per writer, ids its open transaction has inserted
    prev,       \* prev_hash of a row
    at,         \* where a writer stands
    drawn,      \* the id its INSERT drew
    lock        \* holder of pg_advisory_xact_lock('canopica.audit_event')

vars == <<nextId, committed, pending, prev, at, drawn, lock>>

Id      == 1..MaxEvents
Genesis == 0

Init ==
    /\ nextId    = 1
    /\ committed = {}
    /\ pending   = [w \in Writer |-> {}]
    /\ prev      = [i \in Id |-> Genesis]
    /\ at        = [w \in Writer |-> "idle"]
    /\ drawn     = [w \in Writer |-> Genesis]
    /\ lock      = NoWriter

\* The rows the trigger's SELECT sees: what is committed and its own.
Visible(w) == committed \cup pending[w]

\* The last row of a table by id.
LastOf(S) == IF S = {} THEN Genesis ELSE CHOOSE i \in S : \A j \in S : j <= i

\* select hash ... order by id desc limit 1, or the zeros.
LastHash(w) == LastOf(Visible(w))

-----------------------------------------------------------------------------
\* INSERT INTO audit_event: the default of id is evaluated first, then the
\* trigger asks for the lock.
Insert(w) ==
    /\ at[w] \in {"idle", "open"}
    /\ nextId <= MaxEvents
    /\ drawn'  = [drawn EXCEPT ![w] = nextId]
    /\ nextId' = nextId + 1
    /\ at'     = [at EXCEPT ![w] = "waiting"]
    /\ UNCHANGED <<committed, pending, prev, lock>>

\* Seeded bug: the trigger takes no lock.
ChainWithoutLock(w) ==
    /\ at[w] = "waiting"
    /\ prev'    = [prev EXCEPT ![drawn[w]] = LastHash(w)]
    /\ pending' = [pending EXCEPT ![w] = @ \cup {drawn[w]}]
    /\ at'      = [at EXCEPT ![w] = "open"]
    /\ UNCHANGED <<nextId, committed, drawn, lock>>

\* The trigger has the lock (it may hold it already), reads and links.
Chain(w) ==
    /\ at[w] = "waiting"
    /\ lock \in {NoWriter, w}
    /\ lock'    = w
    /\ prev'    = [prev EXCEPT ![drawn[w]] = LastHash(w)]
    /\ pending' = [pending EXCEPT ![w] = @ \cup {drawn[w]}]
    /\ at'      = [at EXCEPT ![w] = "open"]
    /\ UNCHANGED <<nextId, committed, drawn>>

\* Seeded bug: pg_advisory_lock, which outlives the transaction.
KeepLock(w) == lock' = lock

\* The end of w's transaction releases the lock if w holds it.
Unlock(w) == lock' = IF lock = w THEN NoWriter ELSE lock

Leave(w) ==
    /\ at'      = [at EXCEPT ![w] = "idle"]
    /\ pending' = [pending EXCEPT ![w] = {}]
    /\ drawn'   = [drawn EXCEPT ![w] = Genesis]
    /\ Unlock(w)

Commit(w) ==
    /\ at[w] = "open"
    /\ committed' = committed \cup pending[w]
    /\ Leave(w)
    /\ UNCHANGED <<nextId, prev>>

\* An exception of the caller, at any point, waiting for the lock included.
RollBack(w) ==
    /\ at[w] # "idle"
    /\ Leave(w)
    /\ UNCHANGED <<nextId, committed, prev>>

-----------------------------------------------------------------------------
End(w) == Commit(w) \/ RollBack(w)

Next == \E w \in Writer : Insert(w) \/ Chain(w) \/ End(w)

\* A transaction that is not waiting comes to its end; Postgres queues the
\* waiters of a lock, so one that keeps becoming free is one day granted.
Fairness ==
    \A w \in Writer : /\ WF_vars(at[w] = "open" /\ End(w))
                      /\ SF_vars(Chain(w))

Spec     == Init /\ [][Next]_vars
FairSpec == Spec /\ Fairness

-----------------------------------------------------------------------------
(* Correctness                                                             *)

\* Every variable keeps its type, and no id leaves the sequence's range.
TypeOK ==
    /\ nextId    \in 1..(MaxEvents + 1)
    /\ committed \in SUBSET Id
    /\ pending   \in [Writer -> SUBSET Id]
    /\ prev      \in [Id -> Id \cup {Genesis}]
    /\ at        \in [Writer -> {"idle", "waiting", "open"}]
    /\ drawn     \in [Writer -> Id \cup {Genesis}]
    /\ lock      \in Writer \cup {NoWriter}

\* The row verify_chain has in hand when it comes to row i of table S.
Before(i, S) == LastOf({j \in S : j < i})

\* verify_chain: in id order, every row links to the one before it.  Ids of
\* rolled back transactions leave gaps it must not trip over.
Verifies(S) == \A i \in S : prev[i] = Before(i, S)

\* A committed row links to genesis or to a committed row: no rollback,
\* before or after the link was made, leaves a dangling prev_hash.
LinksResolve == \A i \in committed : prev[i] \in committed \cup {Genesis}

\* The only way the chain fails to verify is a row that links forward: its
\* INSERT drew its id first and got the lock second.  In particular it
\* verifies through every rollback, and as long as appends do not overlap.
BrokenOnlyByOvertaking ==
    Verifies(committed) \/ \E i \in committed : prev[i] > i

\* No append waits for the lock for ever: it is let in or given up.
EveryAppendProceeds == \A w \in Writer : at[w] = "waiting" ~> at[w] # "waiting"

\* What verify_chain expects of every database nobody tampered with, and
\* AuditChainTest.eachEventChainsFromItsPredecessor checks of sequential
\* appends: each event chains from its predecessor by id.
ChainVerifies == Verifies(committed)
=============================================================================
