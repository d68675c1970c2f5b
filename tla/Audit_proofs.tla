---------------------------- MODULE Audit_proofs ----------------------------
(***************************************************************************)
(* Proofs about AuditChain, for any number of writers and events, and      *)
(* about LockOrder, for any number of sessions and verifications.          *)
(***************************************************************************)
EXTENDS AuditChain, LockOrder, SequenceTheorems, FiniteSetTheorems,
        WellFoundedInduction, TLAPS

-----------------------------------------------------------------------------
(* AuditChain                                                              *)

\* The id a waiting writer drew belongs to no row and to no other writer.
DrawnInv ==
    /\ \A i \in committed : i < nextId
    /\ \A w \in Writer : \A i \in pending[w] : i < nextId
    /\ \A w \in Writer : drawn[w] < nextId
    /\ \A w \in Writer : at[w] = "waiting" =>
        /\ drawn[w] \in Id
        /\ drawn[w] \notin committed
        /\ \A v \in Writer : drawn[w] \notin pending[v]
        /\ \A v \in Writer \ {w} : drawn[v] # drawn[w]

\* Only the holder of the lock has uncommitted rows.
LockInv == \A w \in Writer : pending[w] # {} => lock = w

\* LinksResolve, within each open transaction too.
LinkInv ==
    /\ LinksResolve
    /\ \A w \in Writer : \A i \in pending[w] : prev[i] \in Visible(w) \cup {Genesis}

\* Table S with links p verifies or shows a link forward.
Sound(p, S) == (\A i \in S : p[i] = Before(i, S)) \/ \E i \in S : p[i] > i

\* BrokenOnlyByOvertaking, of what each open transaction would commit.
SoundInv == Sound(prev, committed) /\ \A w \in Writer : Sound(prev, Visible(w))

Inv == TypeOK /\ DrawnInv /\ LockInv

USE EventsAssumption, WriterAssumption
USE DEF Id, Genesis

-----------------------------------------------------------------------------
(* The trigger's query                                                     *)

\* A nonempty bounded set of ids has a greatest one.
LEMMA MaximumExists ==
    ASSUME NEW n \in Nat, NEW S \in SUBSET (1..n), S # {}
    PROVE  \E i \in S : \A j \in S : j <= i
<1> DEFINE T == {n - i : i \in S}
<1>1. T \subseteq Nat /\ T # {}
    <2>1. \A i \in S : n - i \in Nat
        OBVIOUS
    <2>2. PICK i \in S : TRUE
        OBVIOUS
    <2>3. n - i \in T
        BY <2>2
    <2> QED BY <2>1, <2>3
<1>2. PICK x \in T : \A y \in T : ~ (<<y, x>> \in OpToRel(<, Nat))
    BY <1>1, NatLessThanWellFounded, WFMin
<1>3. \A y \in T : ~ (y < x)
    BY <1>1, <1>2 DEF OpToRel
<1>4. PICK i \in S : x = n - i
    OBVIOUS
<1>5. \A j \in S : j <= i
    <2> TAKE j \in S
    <2>1. n - j \in T
        OBVIOUS
    <2>2. ~ (n - j < n - i)
        BY <2>1, <1>3, <1>4
    <2> QED BY <2>2
<1> QED BY <1>5

\* The trigger finds the greatest visible id, or genesis.
LEMMA LastHashIsGreatest ==
    ASSUME TypeOK, NEW w \in Writer
    PROVE  /\ Visible(w) \in SUBSET Id
           /\ Visible(w) = {} => LastHash(w) = Genesis
           /\ Visible(w) # {} => /\ LastHash(w) \in Visible(w)
                                 /\ \A j \in Visible(w) : j <= LastHash(w)
<1>1. Visible(w) \in SUBSET Id
    BY DEF TypeOK, Visible
<1>2. Visible(w) # {} => \E i \in Visible(w) : \A j \in Visible(w) : j <= i
    BY <1>1, MaximumExists
<1> QED BY <1>1, <1>2 DEF LastHash, LastOf

\* Linking a new row keeps a table sound: it either is the last in id order
\* and links to the one before, or links forward.
LEMMA ExtendSound ==
    ASSUME NEW S \in SUBSET Id, NEW m \in Id \ S, NEW p, NEW q, Sound(p, S),
           q[m] = LastOf(S),
           \A i \in S : q[i] = p[i] /\ p[i] \in Nat
    PROVE  Sound(q, S \cup {m})
<1> DEFINE R == S \cup {m}
<1>0. S \subseteq Int /\ m \in Int
    OBVIOUS
<1>1. S # {} => q[m] \in S /\ \A j \in S : j <= q[m]
    BY MaximumExists DEF LastOf
<1>2. CASE \E i \in S : p[i] > i
    BY <1>2 DEF Sound
<1>3. CASE S # {} /\ q[m] > m
    BY <1>3 DEF Sound
<1>4. CASE /\ \A i \in S : p[i] = Before(i, S)
           /\ S = {} \/ ~ (q[m] > m)
    <2>1. \A i \in S : i < m
        <3> SUFFICES ASSUME NEW i \in S PROVE i < m
            OBVIOUS
        <3>1. q[m] \in S /\ i <= q[m]
            BY <1>1
        <3>2. q[m] # m
            BY <3>1
        <3>3. q[m] \in Int /\ m \in Int /\ i \in Int
            BY <1>0, <3>1
        <3> QED BY <1>4, <3>1, <3>2, <3>3
    <2>2. ASSUME NEW i \in S PROVE {j \in R : j < i} = {j \in S : j < i}
        <3>1. ~ (m < i)
            BY <2>1
        <3> QED BY <3>1
    <2>3. {j \in R : j < m} = S
        <3>1. ~ (m < m)
            OBVIOUS
        <3> QED BY <3>1, <2>1
    <2>4. \A i \in S : Before(i, R) = Before(i, S)
        BY <2>2 DEF Before
    <2>5. Before(m, R) = q[m]
        BY <2>3 DEF Before
    <2> QED BY <2>4, <2>5, <1>4 DEF Sound
<1> QED BY <1>2, <1>3, <1>4 DEF Sound

-----------------------------------------------------------------------------
(* The invariant of ids, rows and the lock                                 *)

LEMMA InitInv == Init => Inv
BY DEF Init, Inv, TypeOK, DrawnInv, LockInv

LEMMA LeaveInv ==
    ASSUME Inv, NEW w \in Writer, Leave(w), UNCHANGED <<nextId, prev>>,
           committed' \in {committed, committed \cup pending[w]}
    PROVE  Inv'
<1> USE DEF Inv, Leave, Unlock
<1>1. TypeOK'
    BY DEF TypeOK
<1>2. /\ pending' = [pending EXCEPT ![w] = {}]
      /\ \A v \in Writer \ {w} : pending'[v] = pending[v] /\ at'[v] = at[v] /\ drawn'[v] = drawn[v]
      /\ pending'[w] = {} /\ at'[w] = "idle" /\ drawn'[w] = 0
    BY DEF TypeOK
<1>3. DrawnInv'
    <2>1. /\ \A i \in committed' : i < nextId'
          /\ \A v \in Writer : \A i \in pending'[v] : i < nextId'
          /\ \A v \in Writer : drawn'[v] < nextId'
        BY <1>2 DEF DrawnInv, TypeOK
    <2>2. ASSUME NEW v \in Writer, at'[v] = "waiting"
          PROVE  /\ drawn'[v] \in Id
                 /\ drawn'[v] \notin committed'
                 /\ \A u \in Writer : drawn'[v] \notin pending'[u]
                 /\ \A u \in Writer \ {v} : drawn'[u] # drawn'[v]
        <3>1. v # w /\ at[v] = "waiting" /\ drawn'[v] = drawn[v]
            BY <1>2, <2>2
        <3> QED BY <1>2, <3>1 DEF DrawnInv
    <2> QED BY <2>1, <2>2 DEF DrawnInv
<1>4. LockInv'
    BY <1>2 DEF LockInv, TypeOK
<1> QED BY <1>1, <1>3, <1>4

LEMMA ChainInv ==
    ASSUME Inv, NEW w \in Writer, Chain(w)
    PROVE  Inv'
<1> USE DEF Inv, Chain
<1>1. TypeOK'
    <2>1. LastHash(w) \in Id \cup {Genesis}
        BY LastHashIsGreatest
    <2>2. drawn[w] \in Id
        BY DEF DrawnInv
    <2> QED BY <2>1, <2>2 DEF TypeOK
<1>2. /\ \A v \in Writer \ {w} : pending'[v] = pending[v] /\ at'[v] = at[v]
      /\ pending'[w] = pending[w] \cup {drawn[w]} /\ at'[w] = "open"
    BY DEF TypeOK
<1>3. DrawnInv'
    BY <1>2 DEF DrawnInv
<1>4. LockInv'
    BY <1>2, WriterAssumption DEF LockInv
<1> QED BY <1>1, <1>3, <1>4

LEMMA InsertInv ==
    ASSUME Inv, NEW w \in Writer, Insert(w)
    PROVE  Inv'
<1> USE DEF Inv, Insert
<1>1. TypeOK'
    BY DEF TypeOK
<1>2. /\ \A v \in Writer \ {w} : drawn'[v] = drawn[v] /\ at'[v] = at[v]
      /\ drawn'[w] = nextId /\ at'[w] = "waiting" /\ nextId' = nextId + 1 /\ nextId \in Id
    BY DEF TypeOK
<1>3. DrawnInv'
    <2>1. /\ \A i \in committed' : i < nextId'
          /\ \A v \in Writer : \A i \in pending'[v] : i < nextId'
          /\ \A v \in Writer : drawn'[v] < nextId'
        BY <1>2 DEF DrawnInv, TypeOK
    <2>2. ASSUME NEW v \in Writer, at'[v] = "waiting"
          PROVE  /\ drawn'[v] \in Id
                 /\ drawn'[v] \notin committed'
                 /\ \A u \in Writer : drawn'[v] \notin pending'[u]
        BY <1>2, <2>2 DEF DrawnInv, TypeOK
    <2>3. ASSUME NEW v \in Writer, at'[v] = "waiting", NEW u \in Writer \ {v}
          PROVE  drawn'[u] # drawn'[v]
        BY <1>2, <2>3 DEF DrawnInv, TypeOK
    <2> QED BY <2>1, <2>2, <2>3 DEF DrawnInv
<1>4. LockInv'
    BY DEF LockInv
<1> QED BY <1>1, <1>3, <1>4

LEMMA NextInv == Inv /\ [Next]_vars => Inv'
<1> SUFFICES ASSUME Inv, [Next]_vars PROVE Inv'
    OBVIOUS
<1>1. CASE UNCHANGED vars
    BY <1>1 DEF vars, Inv, TypeOK, DrawnInv, LockInv
<1>2. ASSUME NEW w \in Writer, Insert(w) PROVE Inv'
    BY <1>2, InsertInv
<1>3. ASSUME NEW w \in Writer, Chain(w) PROVE Inv'
    BY <1>3, ChainInv
<1>4. ASSUME NEW w \in Writer, Commit(w) PROVE Inv'
    BY <1>4, LeaveInv DEF Commit
<1>5. ASSUME NEW w \in Writer, RollBack(w) PROVE Inv'
    BY <1>5, LeaveInv DEF RollBack
<1> QED BY <1>1, <1>2, <1>3, <1>4, <1>5 DEF Next, End

LEMMA AlwaysInv == Spec => []Inv
BY InitInv, NextInv, PTL DEF Spec

\* The audit table, the sequence and the lock keep their types.
THEOREM TypeCorrect == Spec => []TypeOK
<1>1. Inv => TypeOK
    BY DEF Inv
<1> QED BY <1>1, AlwaysInv, PTL

-----------------------------------------------------------------------------
(* Links                                                                   *)

LEMMA LinkStep == Inv /\ LinkInv /\ [Next]_vars => LinkInv'
<1> SUFFICES ASSUME Inv, LinkInv, [Next]_vars PROVE LinkInv'
    OBVIOUS
<1> USE DEF LinkInv, LinksResolve, Visible
<1>1. CASE UNCHANGED vars
    BY <1>1 DEF vars
<1>2. ASSUME NEW w \in Writer, Insert(w) PROVE LinkInv'
    BY <1>2 DEF Insert
<1>3. ASSUME NEW w \in Writer, Chain(w) PROVE LinkInv'
    <2>1. /\ LastHash(w) \in Visible(w) \cup {Genesis}
          /\ drawn[w] \notin committed /\ \A v \in Writer : drawn[w] \notin pending[v]
        BY <1>3, LastHashIsGreatest DEF Inv, DrawnInv, Chain
    <2>2. /\ committed' = committed
          /\ \A v \in Writer \ {w} : pending'[v] = pending[v]
          /\ pending'[w] = pending[w] \cup {drawn[w]}
          /\ prev'[drawn[w]] = LastHash(w)
          /\ \A i \in Id : i # drawn[w] => prev'[i] = prev[i]
        BY <1>3 DEF Chain, Inv, TypeOK, DrawnInv
    <2>3. committed \subseteq Id /\ \A v \in Writer : pending[v] \subseteq Id
        BY DEF Inv, TypeOK
    <2> QED BY <2>1, <2>2, <2>3
<1>4. ASSUME NEW w \in Writer, Commit(w) PROVE LinkInv'
    BY <1>4 DEF Commit, Leave, Inv, TypeOK
<1>5. ASSUME NEW w \in Writer, RollBack(w) PROVE LinkInv'
    BY <1>5 DEF RollBack, Leave, Inv, TypeOK
<1> QED BY <1>1, <1>2, <1>3, <1>4, <1>5 DEF Next, End

\* No rollback leaves a committed row with a dangling prev_hash.
THEOREM LinksNeverDangle == Spec => []LinksResolve
<1>1. Init => LinkInv
    BY DEF Init, LinkInv, LinksResolve
<1>2. LinkInv => LinksResolve
    BY DEF LinkInv
<1> QED BY <1>1, <1>2, LinkStep, AlwaysInv, PTL DEF Spec

-----------------------------------------------------------------------------
(* Verification                                                            *)

LEMMA SoundStep == Inv /\ SoundInv /\ [Next]_vars => SoundInv'
<1> SUFFICES ASSUME Inv, SoundInv, [Next]_vars PROVE SoundInv'
    OBVIOUS
<1> USE DEF SoundInv
<1>1. CASE UNCHANGED vars
    BY <1>1 DEF vars, Visible
<1>2. ASSUME NEW w \in Writer, Insert(w) PROVE SoundInv'
    BY <1>2 DEF Insert, Visible
<1>3. ASSUME NEW w \in Writer, Chain(w) PROVE SoundInv'
    <2>1. /\ drawn[w] \in Id \ Visible(w) /\ Visible(w) \in SUBSET Id
          /\ \A v \in Writer \ {w} : pending[v] = {}
        BY <1>3, WriterAssumption DEF Inv, TypeOK, DrawnInv, LockInv, Chain, Visible
    <2>2. /\ committed' = committed
          /\ \A v \in Writer \ {w} : pending'[v] = {}
          /\ Visible(w)' = Visible(w) \cup {drawn[w]}
          /\ prev'[drawn[w]] = LastHash(w)
          /\ \A i \in Visible(w) : prev'[i] = prev[i] /\ prev[i] \in Nat
        BY <1>3, <2>1 DEF Inv, TypeOK, Chain, Visible
    <2>3. Sound(prev, Visible(w)) /\ Sound(prev, committed)
        OBVIOUS
    <2>4. Sound(prev', Visible(w) \cup {drawn[w]})
        BY <2>1, <2>2, <2>3, ExtendSound DEF LastHash
    <2>5. Sound(prev', committed)
        BY <2>2, <2>3 DEF Sound, Visible
    <2>6. \A v \in Writer \ {w} : Visible(v)' = committed
        BY <2>2 DEF Visible
    <2> QED BY <2>2, <2>4, <2>5, <2>6
<1>4. ASSUME NEW w \in Writer, Leave(w), UNCHANGED <<nextId, prev>>,
             committed' \in {committed, committed \cup pending[w]}
      PROVE  SoundInv'
    <2>1. Sound(prev', committed')
        BY <1>4 DEF Visible
    <2>2. pending'[w] = {} /\ \A v \in Writer \ {w} : pending'[v] = pending[v]
        BY <1>4 DEF Leave, Inv, TypeOK
    <2>3. ASSUME NEW v \in Writer PROVE Sound(prev', Visible(v)')
        <3>1. CASE pending'[v] = {}
            BY <2>1, <3>1 DEF Visible
        <3>2. CASE pending'[v] # {}
            <4>1. v # w /\ pending[v] # {} /\ pending[w] = {}
                BY <2>2, <3>2 DEF Inv, LockInv
            <4>2. Visible(v)' = Visible(v)
                BY <4>1, <2>2, <1>4 DEF Visible
            <4> QED BY <4>2, <1>4
        <3> QED BY <3>1, <3>2
    <2> QED BY <2>1, <2>3
<1>5. ASSUME NEW w \in Writer, Commit(w) PROVE SoundInv'
    BY <1>4, <1>5 DEF Commit
<1>6. ASSUME NEW w \in Writer, RollBack(w) PROVE SoundInv'
    BY <1>4, <1>6 DEF RollBack
<1> QED BY <1>1, <1>2, <1>3, <1>5, <1>6 DEF Next, End

\* The chain verifies through every interleaving and rollback in which no
\* INSERT is overtaken between its id and its lock.
THEOREM ChainBrokenOnlyByOvertaking == Spec => []BrokenOnlyByOvertaking
<1>1. Init => SoundInv
    BY DEF Init, SoundInv, Sound, Visible
<1>2. SoundInv => BrokenOnlyByOvertaking
    BY DEF SoundInv, Sound, BrokenOnlyByOvertaking, Verifies
<1> QED BY <1>1, <1>2, SoundStep, AlwaysInv, PTL DEF Spec

-----------------------------------------------------------------------------
(* LockOrder                                                               *)

\* In what is left of a plan, a row behind another one comes behind the
\* audit lock too.
RowsAfterAudit(q, holdsRow) ==
    \A j \in 1..Len(q) : q[j] \in Row /\ (holdsRow \/ \E i \in 1..(j - 1) : q[i] \in Row) =>
        \E k \in 1..(j - 1) : q[k] = Audit

HoldsRow(t) == \E r \in Row : owner[r] = t

\* A session that holds a row takes another only with the audit lock.
OrderInv ==
    /\ owner \in [Lock -> Tx \cup {NoTx}]
    /\ plan \in [Tx -> Seq(Lock)]
    /\ \A t \in Tx : owner[Audit] = t \/ RowsAfterAudit(plan[t], HoldsRow(t))

USE LockAssumption, VerificationAssumption
USE DEF Row, Lock

-----------------------------------------------------------------------------
(* The plans                                                               *)

LEMMA ListingType ==
    ASSUME NEW p \in Listing
    PROVE  p \in Seq(Verification)
<1>1. PICK n \in 0..Cardinality(Verification) : p \in [1..n -> Verification]
    BY DEF Listing
<1>2. n \in Nat
    BY FS_CardinalityType
<1> QED BY <1>1, <1>2

LEMMA JoinFacts ==
    ASSUME NEW a \in Seq(Lock), NEW b \in Seq(Lock)
    PROVE  /\ a \o b \in Seq(Lock) /\ Len(a \o b) = Len(a) + Len(b)
           /\ \A i \in 1..(Len(a) + Len(b)) :
                 (a \o b)[i] = IF i <= Len(a) THEN a[i] ELSE b[i - Len(a)]
<1> HIDE DEF Lock
<1> QED BY ConcatProperties

LEMMA ConfirmFacts ==
    ASSUME NEW p \in Seq(Verification)
    PROVE  /\ Confirm(p) \in Seq(Lock)
           /\ Len(Confirm(p)) = 2 * Len(p) + 2
           /\ \A i \in 1..(2 * Len(p)) : i % 2 = 0 => Confirm(p)[i] = Audit
           /\ Confirm(p)[2 * Len(p) + 1] = Document
           /\ Confirm(p)[2 * Len(p) + 2] = Audit
<1> DEFINE n == Len(p)
           f == [i \in 1..(2 * n) |-> IF i % 2 = 1 THEN p[(i + 1) \div 2] ELSE Audit]
           g == <<Document, Audit>>
<1>1. n \in Nat
    OBVIOUS
<1>2. \A i \in 1..(2 * n) : f[i] \in Lock
    <2> SUFFICES ASSUME NEW i \in 1..(2 * n) PROVE f[i] \in Lock
        OBVIOUS
    <2>1. CASE i % 2 = 1
        <3>1. (i + 1) \div 2 \in 1..n
            BY <1>1, <2>1
        <3> QED BY <3>1, <2>1
    <2>2. CASE i % 2 # 1
        BY <2>2
    <2> QED BY <2>1, <2>2
<1>3. f \in Seq(Lock) /\ Len(f) = 2 * n
    BY <1>1, <1>2
<1>4. g \in Seq(Lock) /\ Len(g) = 2 /\ g[1] = Document /\ g[2] = Audit
    OBVIOUS
<1>5. Confirm(p) = f \o g
    BY DEF Confirm
<1> HIDE DEF f, g
<1>6. /\ f \o g \in Seq(Lock) /\ Len(f \o g) = 2 * n + 2
      /\ \A i \in 1..(2 * n) : (f \o g)[i] = f[i]
      /\ (f \o g)[2 * n + 1] = g[1] /\ (f \o g)[2 * n + 2] = g[2]
    <2>1. /\ f \o g \in Seq(Lock) /\ Len(f \o g) = Len(f) + Len(g)
          /\ \A i \in 1..(Len(f) + Len(g)) :
                (f \o g)[i] = IF i <= Len(f) THEN f[i] ELSE g[i - Len(f)]
        BY <1>3, <1>4, JoinFacts
    <2>2. \A i \in 1..(2 * n + 2) :
              (f \o g)[i] = IF i <= 2 * n THEN f[i] ELSE g[i - 2 * n]
        BY <2>1, <1>1, <1>3, <1>4
    <2>3. (2 * n + 1) - 2 * n = 1 /\ (2 * n + 2) - 2 * n = 2
        BY <1>1
    <2> QED BY <2>1, <2>2, <2>3, <1>1, <1>3, <1>4
<1>7. \A i \in 1..(2 * n) : i % 2 = 0 => f[i] = Audit
    BY <1>1 DEF f
<1> QED BY <1>4, <1>5, <1>6, <1>7

LEMMA PlanFacts ==
    ASSUME NEW p \in Plan
    PROVE  p \in Seq(Lock) /\ RowsAfterAudit(p, FALSE)
<1>1. CASE p \in {Persist, Summarise, AppendOnly, Review, Accept, Reject}
    <2>1. CASE p = Persist
        BY <2>1 DEF Persist, RowsAfterAudit
    <2>2. CASE p = Summarise
        BY <2>2 DEF Summarise, RowsAfterAudit
    <2>3. CASE p = AppendOnly
        BY <2>3 DEF AppendOnly, RowsAfterAudit
    <2>4. CASE p = Review
        BY <2>4 DEF Review, RowsAfterAudit
    <2>5. CASE p = Accept
        BY <2>5 DEF Accept, RowsAfterAudit
    <2>6. CASE p = Reject
        BY <2>6 DEF Reject, RowsAfterAudit
    <2> QED BY <1>1, <2>1, <2>2, <2>3, <2>4, <2>5, <2>6
<1>2. ASSUME NEW x \in Verification, p = Request(x)
      PROVE  p \in Seq(Lock) /\ RowsAfterAudit(p, FALSE)
    BY <1>2 DEF Request, RowsAfterAudit
<1>3. ASSUME NEW q \in Listing, p = Confirm(q)
      PROVE  p \in Seq(Lock) /\ RowsAfterAudit(p, FALSE)
    <2>1. q \in Seq(Verification)
        BY ListingType
    <2> DEFINE n == Len(q)
    <2>2. /\ p \in Seq(Lock) /\ Len(p) = 2 * n + 2 /\ n \in Nat
          /\ \A i \in 1..(2 * n) : i % 2 = 0 => p[i] = Audit
          /\ p[2 * n + 1] = Document /\ p[2 * n + 2] = Audit
        BY <1>3, <2>1, ConfirmFacts
    <2> HIDE DEF n
    <2>3. ASSUME NEW j \in 1..Len(p), NEW i \in 1..(j - 1)
          PROVE  p[j] \in Row => \E k \in 1..(j - 1) : p[k] = Audit
        <3>1. CASE j = 2 * n + 2
            BY <2>2, <3>1
        <3>2. CASE j # 2 * n + 2
            <4>1. 2 \in 1..(2 * n) /\ j >= 2
                BY <2>2, <3>2
            <4>2. CASE j = 2
                BY <2>2, <4>1, <4>2
            <4>3. CASE j # 2
                <5>1. 2 % 2 = 0 /\ 2 \in 1..(j - 1)
                    BY <4>1, <4>3
                <5>2. p[2] = Audit
                    BY <2>2, <4>1, <5>1
                <5> QED BY <5>1, <5>2
            <4> QED BY <4>2, <4>3
        <3> QED BY <3>1, <3>2
    <2> QED BY <2>2, <2>3 DEF RowsAfterAudit
<1> QED BY <1>1, <1>2, <1>3 DEF Plan

-----------------------------------------------------------------------------
(* The order is kept                                                       *)

LEMMA AcquireOrder ==
    ASSUME OrderInv, NEW t \in Tx, Acquire(t)
    PROVE  OrderInv'
<1> DEFINE h == Head(plan[t])
           q == plan[t]
<1>1. /\ h \in Lock /\ h = q[1] /\ q \in Seq(Lock) /\ q # << >>
      /\ Tail(q) \in Seq(Lock) /\ Len(Tail(q)) = Len(q) - 1
      /\ \A i \in 1..(Len(q) - 1) : Tail(q)[i] = q[i + 1]
    BY DEF Acquire, OrderInv
<1>2. /\ owner' = [owner EXCEPT ![h] = t] /\ owner[h] \in {NoTx, t}
      /\ plan' = [plan EXCEPT ![t] = Tail(q)]
    BY DEF Acquire
<1> HIDE DEF h, q
<1>3. owner' \in [Lock -> Tx \cup {NoTx}] /\ plan' \in [Tx -> Seq(Lock)]
    BY <1>1, <1>2 DEF OrderInv
<1>4. owner'[h] = t /\ plan'[t] = Tail(q)
    BY <1>1, <1>2 DEF OrderInv
<1>5. ASSUME NEW u \in Tx, u # t
      PROVE  owner'[Audit] = u \/ RowsAfterAudit(plan'[u], HoldsRow(u)')
    <2>1. plan'[u] = plan[u] /\ (owner[Audit] = u => owner'[Audit] = u)
        BY <1>1, <1>2, <1>5 DEF OrderInv
    <2>2. HoldsRow(u)' = HoldsRow(u)
        BY <1>1, <1>2, <1>5 DEF OrderInv, HoldsRow
    <2> QED BY <2>1, <2>2 DEF OrderInv
<1>6. owner'[Audit] = t \/ RowsAfterAudit(plan'[t], HoldsRow(t)')
    <2>1. CASE h = Audit \/ owner[Audit] = t
        BY <2>1, <1>1, <1>2 DEF OrderInv
    <2>2. CASE h # Audit /\ owner[Audit] # t
        <3>1. h \in Row
            BY <2>2, <1>1
        <3>2. RowsAfterAudit(q, HoldsRow(t))
            BY <2>2 DEF OrderInv, q
        <3>3. ASSUME NEW j \in 1..(Len(q) - 1), Tail(q)[j] \in Row
              PROVE  \E k \in 1..(j - 1) : Tail(q)[k] = Audit
            <4>1. j + 1 \in 1..Len(q) /\ q[j + 1] \in Row /\ 1 \in 1..((j + 1) - 1) /\ q[1] \in Row
                BY <1>1, <3>1, <3>3
            <4>2. PICK k \in 1..((j + 1) - 1) : q[k] = Audit
                BY <3>2, <4>1 DEF RowsAfterAudit
            <4>3. k # 1
                BY <4>2, <2>2, <1>1
            <4>4. k - 1 \in 1..(j - 1) /\ Tail(q)[k - 1] = q[k]
                BY <4>3, <1>1
            <4> QED BY <4>2, <4>4
        <3> QED BY <3>3, <1>1, <1>4 DEF RowsAfterAudit
    <2> QED BY <2>1, <2>2
<1> QED BY <1>3, <1>5, <1>6 DEF OrderInv

LEMMA ReleaseOrder ==
    ASSUME OrderInv, NEW t \in Tx, Release(t),
           plan' = [plan EXCEPT ![t] = << >>]
    PROVE  OrderInv'
<1>1. owner' \in [Lock -> Tx \cup {NoTx}] /\ plan' \in [Tx -> Seq(Lock)]
    BY DEF OrderInv, Release
<1>2. plan'[t] = << >>
    BY DEF OrderInv
<1>3. RowsAfterAudit(plan'[t], HoldsRow(t)')
    BY <1>2 DEF RowsAfterAudit
<1>4. ASSUME NEW u \in Tx, u # t
      PROVE  owner'[Audit] = u \/ RowsAfterAudit(plan'[u], HoldsRow(u)')
    <2>1. plan'[u] = plan[u] /\ (owner[Audit] = u => owner'[Audit] = u)
        BY <1>4 DEF OrderInv, Release
    <2>2. HoldsRow(u)' = HoldsRow(u)
        BY <1>4 DEF OrderInv, HoldsRow, Release
    <2> QED BY <2>1, <2>2 DEF OrderInv
<1> QED BY <1>1, <1>3, <1>4 DEF OrderInv

LEMMA OrderStep == OrderInv /\ [LockNext]_lockVars => OrderInv'
<1> SUFFICES ASSUME OrderInv, [LockNext]_lockVars PROVE OrderInv'
    OBVIOUS
<1>1. ASSUME NEW t \in Tx, NEW p \in Plan, Begin(t, p) PROVE OrderInv'
    <2>1. p \in Seq(Lock) /\ RowsAfterAudit(p, FALSE)
        BY PlanFacts
    <2>2. ~ HoldsRow(t) /\ HoldsRow(t)' = HoldsRow(t) /\ plan'[t] = p
        BY <1>1 DEF Begin, HoldsRow, OrderInv
    <2>3. RowsAfterAudit(plan'[t], HoldsRow(t)')
        BY <2>1, <2>2 DEF RowsAfterAudit
    <2>4. ASSUME NEW u \in Tx, u # t
          PROVE  plan'[u] = plan[u] /\ HoldsRow(u)' = HoldsRow(u) /\ owner'[Audit] = owner[Audit]
        BY <1>1, <2>4 DEF Begin, HoldsRow, OrderInv
    <2>5. owner' \in [Lock -> Tx \cup {NoTx}] /\ plan' \in [Tx -> Seq(Lock)]
        BY <1>1, <2>1 DEF Begin, OrderInv
    <2> QED BY <2>3, <2>4, <2>5 DEF OrderInv
<1>2. ASSUME NEW t \in Tx, Acquire(t) PROVE OrderInv'
    BY <1>2, AcquireOrder
<1>3. ASSUME NEW t \in Tx, CommitTx(t) PROVE OrderInv'
    <2>1. plan' = [plan EXCEPT ![t] = << >>]
        BY <1>3 DEF CommitTx, OrderInv
    <2> QED BY <1>3, <2>1, ReleaseOrder DEF CommitTx
<1>4. ASSUME NEW t \in Tx, Abort(t) PROVE OrderInv'
    BY <1>4, ReleaseOrder DEF Abort
<1>5. CASE UNCHANGED lockVars
    BY <1>5 DEF lockVars, OrderInv, HoldsRow
<1> QED BY <1>1, <1>2, <1>3, <1>4, <1>5 DEF LockNext

LEMMA AlwaysOrdered == LockSpec => []OrderInv
<1>1. LockInit => OrderInv
    BY DEF LockInit, OrderInv, RowsAfterAudit
<1> QED BY <1>1, OrderStep, PTL DEF LockSpec

-----------------------------------------------------------------------------
(* Waits                                                                   *)

\* A session that holds a row and wants another holds the audit lock.
LEMMA NextRowNeedsAudit ==
    ASSUME OrderInv, NEW t \in Tx, plan[t] # << >>, Head(plan[t]) \in Row, HoldsRow(t)
    PROVE  owner[Audit] = t
<1>1. plan[t] \in Seq(Lock) /\ 1 \in 1..Len(plan[t]) /\ plan[t][1] \in Row
    BY DEF OrderInv
<1> QED BY <1>1 DEF OrderInv, RowsAfterAudit

LEMMA WaitFacts ==
    ASSUME OrderInv, NEW t \in Tx, NEW u \in Tx, Waits(t, u)
    PROVE  /\ plan[t] # << >> /\ Head(plan[t]) \in Lock /\ owner[Head(plan[t])] = u /\ t # u
           /\ Head(plan[t]) \in Row => HoldsRow(u)
BY DEF Waits, OrderInv, HoldsRow

LEMMA HolderWaitsOnce == OrderInv => AuditHolderWaitsOnce
<1> SUFFICES ASSUME OrderInv, NEW t \in Tx, NEW u \in Tx, owner[Audit] = t, Waits(t, u),
                    plan[u] # << >>
             PROVE  Head(plan[u]) = Audit
    BY DEF AuditHolderWaitsOnce
<1>1. HoldsRow(u) /\ t # u
    BY WaitFacts
<1>2. Head(plan[u]) \in Lock
    BY DEF OrderInv
<1> QED BY <1>1, <1>2, NextRowNeedsAudit

\* Whoever keeps the holder of the audit lock waiting for a row needs that
\* lock next, or nothing.
THEOREM AuditHolderNeverQueued == LockSpec => []AuditHolderWaitsOnce
BY HolderWaitsOnce, AlwaysOrdered, PTL

\* Every circular wait, of any number of sessions, has a transaction in it
\* that updated a row before it appended its first event.
THEOREM DeadlocksNeedRowFirst == LockSpec => []DeadlockNeedsRowFirst
<1>1. OrderInv => DeadlockNeedsRowFirst
    <2> SUFFICES ASSUME OrderInv, NEW S \in SUBSET Tx, Circular(S)
                 PROVE  \E t \in S : RowThenAudit(t)
        BY DEF DeadlockNeedsRowFirst
    <2>1. S # {} /\ \A t \in S : \E u \in S : Waits(t, u)
        BY DEF Circular
    <2>2. ASSUME NEW t \in S, Head(plan[t]) = Audit PROVE \E w \in S : RowThenAudit(w)
        <3>1. PICK v \in S : Waits(t, v)
            BY <2>1
        <3>2. owner[Audit] = v
            BY <3>1, <2>2 DEF Waits
        <3>3. PICK w \in S : Waits(v, w)
            BY <2>1
        <3>4. HoldsRow(w)
            BY <3>2, <3>3, WaitFacts
        <3>5. plan[w] # << >>
            BY <2>1 DEF Waits
        <3>6. Head(plan[w]) = Audit
            BY <3>2, <3>3, <3>5, HolderWaitsOnce DEF AuditHolderWaitsOnce
        <3> QED BY <3>4, <3>5, <3>6 DEF RowThenAudit, HoldsRow
    <2>3. ASSUME \A t \in S : Head(plan[t]) # Audit PROVE FALSE
        <3>1. ASSUME NEW t \in S, NEW u \in S, Waits(t, u) PROVE owner[Audit] = u
            <4>1. HoldsRow(u)
                BY <3>1, <2>3, WaitFacts
            <4>2. PICK v \in S : Waits(u, v)
                BY <2>1
            <4>3. plan[u] # << >> /\ Head(plan[u]) \in Row
                BY <4>2, <2>3, WaitFacts
            <4> QED BY <4>1, <4>3, NextRowNeedsAudit
        <3>2. PICK t \in S : TRUE
            BY <2>1
        <3>3. PICK u \in S : Waits(t, u)
            BY <2>1
        <3>4. PICK v \in S : Waits(u, v)
            BY <2>1
        <3>5. owner[Audit] = u /\ owner[Audit] = v /\ u # v
            BY <3>1, <3>3, <3>4, WaitFacts
        <3> QED BY <3>5
    <2> QED BY <2>2, <2>3
<1> QED BY <1>1, AlwaysOrdered, PTL

-----------------------------------------------------------------------------
(* Types                                                                   *)

\* What a session has left is the rest of a plan the code has.
THEOREM LockTypeCorrect == LockSpec => []LockTypeOK
<1>1. LockInit => LockTypeOK
    <2>1. AppendOnly \in Plan /\ << >> = SubSeq(AppendOnly, 2, 1) /\ Len(AppendOnly) = 1
        BY DEF AppendOnly, Plan
    <2> QED BY <2>1 DEF LockInit, LockTypeOK
<1>2. LockTypeOK /\ OrderInv /\ [LockNext]_lockVars => LockTypeOK'
    <2> SUFFICES ASSUME LockTypeOK, OrderInv, [LockNext]_lockVars PROVE LockTypeOK'
        OBVIOUS
    <2> DEFINE Rest(q) == \E p \in Plan : \E n \in 0..Len(p) : q = SubSeq(p, n + 1, Len(p))
    <2>0. Rest(<< >>)
        <3>1. AppendOnly \in Plan /\ << >> = SubSeq(AppendOnly, 2, 1) /\ Len(AppendOnly) = 1
            BY DEF AppendOnly, Plan
        <3> QED BY <3>1
    <2>1. ASSUME NEW t \in Tx, NEW p \in Plan, Begin(t, p) PROVE LockTypeOK'
        <3>1. p \in Seq(Lock)
            BY PlanFacts
        <3>2. p = SubSeq(p, 0 + 1, Len(p)) /\ 0 \in 0..Len(p)
            BY <3>1
        <3>3. Rest(p)
            BY <3>2
        <3>4. \A u \in Tx : plan'[u] = IF u = t THEN p ELSE plan[u]
            BY <2>1 DEF Begin, OrderInv
        <3> QED BY <3>3, <3>4, <2>1 DEF Begin, LockTypeOK
    <2>2. ASSUME NEW t \in Tx, Acquire(t) PROVE LockTypeOK'
        <3>1. PICK p \in Plan : \E n \in 0..Len(p) : plan[t] = SubSeq(p, n + 1, Len(p))
            BY DEF LockTypeOK
        <3>2. PICK n \in 0..Len(p) : plan[t] = SubSeq(p, n + 1, Len(p))
            BY <3>1
        <3>3. p \in Seq(Lock)
            BY PlanFacts
        <3>4. n < Len(p) /\ Tail(plan[t]) = SubSeq(p, (n + 1) + 1, Len(p))
            <4>1. Len(p) \in Nat /\ n \in Nat
                BY <3>3
            <4>2. CASE n = Len(p)
                <5>1. plan[t] = << >>
                    BY <3>2, <4>1, <4>2, SubSeqEmpty
                <5> QED BY <5>1, <2>2 DEF Acquire
            <4>3. CASE n # Len(p)
                <5>1. n + 1 \in 1..Len(p) /\ Len(p) \in (n + 1)..Len(p)
                    BY <4>1, <4>3
                <5>2. Tail(SubSeq(p, n + 1, Len(p))) = SubSeq(p, (n + 1) + 1, Len(p))
                    BY <3>3, <5>1, HeadTailOfSubSeq
                <5> QED BY <3>2, <4>1, <5>1, <5>2
            <4> QED BY <4>2, <4>3
        <3>5. Rest(Tail(plan[t]))
            <4>1. n + 1 \in 0..Len(p)
                BY <3>3, <3>4
            <4> QED BY <3>4, <4>1
        <3>6. \A u \in Tx : plan'[u] = IF u = t THEN Tail(plan[t]) ELSE plan[u]
            BY <2>2 DEF Acquire, OrderInv
        <3>7. owner' \in [Lock -> Tx \cup {NoTx}]
            BY <2>2 DEF Acquire, LockTypeOK
        <3> QED BY <3>5, <3>6, <3>7 DEF LockTypeOK
    <2>3. ASSUME NEW t \in Tx, CommitTx(t) PROVE LockTypeOK'
        BY <2>3 DEF CommitTx, Release, LockTypeOK
    <2>4. ASSUME NEW t \in Tx, Abort(t) PROVE LockTypeOK'
        <3>1. \A u \in Tx : plan'[u] = IF u = t THEN << >> ELSE plan[u]
            BY <2>4 DEF Abort, OrderInv
        <3>2. owner' \in [Lock -> Tx \cup {NoTx}]
            BY <2>4 DEF Abort, Release, LockTypeOK
        <3> QED BY <2>0, <3>1, <3>2 DEF LockTypeOK
    <2>5. CASE UNCHANGED lockVars
        BY <2>5 DEF lockVars, LockTypeOK
    <2> QED BY <2>1, <2>2, <2>3, <2>4, <2>5 DEF LockNext
<1> QED BY <1>1, <1>2, AlwaysOrdered, PTL DEF LockSpec
=============================================================================
