------------------------ MODULE HumanReview_proofs ------------------------
(***************************************************************************)
(* Proofs about HumanReview for any rows, reviewers and number of          *)
(* deliveries.                                                             *)
(***************************************************************************)
EXTENDS HumanReview, TLAPS

\* A transaction in flight gives a row one of its two outcomes.
TxInv ==
    \A v \in Reviewer :
        IF at[v] = "idle" THEN on[v] = NoRow
        ELSE on[v] \in Row /\ choice[v] \in {Accepted(on[v]), Declined(on[v])}

\* The worker writes no summary beyond the last delivery.
PostInv == \A d \in Discrepancy : posting[d] # 0 => flagged[d] < MaxSummaries

Inv == TypeOK /\ TxInv /\ PostInv

\* The transaction that has chained its event, and only that one, holds the
\* lock, so its link still names the last committed row: no decision event
\* has a higher id.  Only an audited decision comes as far as an event.
LockInv ==
    /\ \A v \in Reviewer :
        /\ at[v] = "chained" <=> lock = v
        /\ at[v] = "chained" => prev[v] = top
        /\ at[v] \in {"waiting", "chained"} => Audited(on[v], choice[v])
    /\ \A e \in trail : e.id <= top

\* An undecided row has no decision behind it, and a decided row that some
\* transaction still holds is one that a race has been observed on.
RaceInv ==
    \A r \in Row :
        /\ outcome[r] = "open" => decisions[r] = 0 /\ \A e \in trail : e.row # r
        /\ \A v \in Reviewer : on[v] = r /\ outcome[r] # "open" => r \in raced
        /\ decisions[r] > 1 => r \in raced

\* What the worker's summary transactions do.
SummaryStep(d) == WriteSummary(d) \/ FlagSummary(d) \/ DropSummary(d)

USE KindAssumption, ReviewerAssumption
USE DEF rowVars, txVars, chainVars, history, Row, AnyOutcome

LEMMA OutcomesOfKind ==
    ASSUME NEW r \in Row
    PROVE  /\ Accepted(r) \in Outcome(r) \ {"open"} /\ Declined(r) \in Outcome(r) \ {"open"}
           /\ Accepted(r) # Declined(r)
           /\ Outcome(r) \subseteq AnyOutcome
BY DEF Accepted, Declined, Outcome

-----------------------------------------------------------------------------
(* Type correctness                                                        *)

LEMMA InitInv == Init => Inv
BY DEF Init, Inv, TypeOK, TxInv, PostInv, Outcome

\* What a commit does, as the invariants need it.
LEMMA CommitFacts ==
    ASSUME Inv, NEW v \in Reviewer, Commit(v)
    PROVE  /\ at[v] # "idle" /\ on[v] \in Row
           /\ choice[v] \in {Accepted(on[v]), Declined(on[v])}
           /\ choice[v] \in Outcome(on[v]) \ {"open"} /\ choice[v] \in AnyOutcome
<1>1. at[v] # "idle"
    BY DEF Commit
<1>2. on[v] \in Row /\ choice[v] \in {Accepted(on[v]), Declined(on[v])}
    BY <1>1 DEF Inv, TxInv
<1> QED BY <1>1, <1>2, OutcomesOfKind

\* The end of a transaction touches its own fields alone.
LEMMA LeaveInv ==
    ASSUME Inv, NEW v \in Reviewer, Leave(v)
    PROVE  /\ lock' \in Reviewer \cup {NoOne}
           /\ at'     \in [Reviewer -> {"idle", "deciding", "waiting", "chained"}]
           /\ on'     \in [Reviewer -> Row \cup {NoRow}]
           /\ choice' \in [Reviewer -> AnyOutcome]
           /\ seen'   \in [Reviewer -> 0..MaxSummaries]
           /\ drawn'  \in [Reviewer -> Nat]
           /\ prev'   \in [Reviewer -> Nat]
           /\ TxInv'
BY DEF Leave, Inv, TypeOK, TxInv

LEMMA StepInv == Inv /\ [Next]_vars => Inv'
<1> SUFFICES ASSUME Inv, [Next]_vars
             PROVE  Inv'
    OBVIOUS
<1>1. ASSUME NEW r \in Row, Store(r) PROVE Inv'
    BY <1>1 DEF Store, Inv, TypeOK, TxInv, PostInv
<1>2. ASSUME NEW d \in Discrepancy, SummaryStep(d) PROVE Inv'
    <2>1. CASE WriteSummary(d)
        BY <2>1 DEF WriteSummary, DrawId, Inv, TypeOK, TxInv, PostInv
    <2>2. CASE FlagSummary(d)
        <3>1. posting[d] \in Nat /\ top' \in Nat
            BY <2>2 DEF FlagSummary, LastWith, Inv, TypeOK
        <3> QED BY <2>2, <3>1 DEF FlagSummary, Inv, TypeOK, TxInv, PostInv
    <2>3. CASE DropSummary(d)
        BY <2>3 DEF DropSummary, Inv, TypeOK, TxInv, PostInv
    <2> QED BY <1>2, <2>1, <2>2, <2>3 DEF SummaryStep
<1>3. ASSUME NEW v \in Reviewer, NEW r \in Row, NEW c \in {Accepted(r), Declined(r)},
             OpenDecision(v, r, c)
      PROVE  Inv'
    <2>1. c \in AnyOutcome
        BY OutcomesOfKind
    <2>2. TypeOK'
        BY <1>3, <2>1 DEF OpenDecision, Inv, TypeOK
    <2>3. TxInv'
        BY <1>3 DEF OpenDecision, Inv, TypeOK, TxInv, PostInv
    <2> QED BY <1>3, <2>2, <2>3 DEF OpenDecision, Inv, PostInv
<1>4. ASSUME NEW v \in Reviewer, Draw(v) PROVE Inv'
    BY <1>4 DEF Draw, DrawId, Inv, TypeOK, TxInv, PostInv
<1>5. ASSUME NEW v \in Reviewer, Chain(v) PROVE Inv'
    BY <1>5 DEF Chain, Inv, TypeOK, TxInv, PostInv
<1>6. ASSUME NEW v \in Reviewer, Commit(v) PROVE Inv'
    <2> DEFINE r == on[v]
    <2>1. r \in Row /\ choice[v] \in Outcome(r) /\ choice[v] \in AnyOutcome
        BY <1>6, CommitFacts
    <2>2. /\ outcome' \in [Row -> AnyOutcome] /\ \A x \in Row : outcome'[x] \in Outcome(x)
          /\ by' \in [Row -> Reviewer \cup {NoOne}] /\ summary' \in [Row -> 0..MaxSummaries]
          /\ decisions' \in [Row -> Nat] /\ raced' \in SUBSET Row
        BY <1>6, <2>1 DEF Commit, Inv, TypeOK
    <2>3. trail' \in SUBSET [row : Row, outcome : AnyOutcome, by : Reviewer, id : Nat, prev : Nat]
        <3>1. Event(v) \in [row : Row, outcome : AnyOutcome, by : Reviewer, id : Nat, prev : Nat]
            BY <2>1 DEF Event, Inv, TypeOK
        <3> QED BY <1>6, <3>1 DEF Commit, Inv, TypeOK
    <2>4. top' \in Nat
        BY <1>6 DEF Commit, LastWith, Inv, TypeOK
    <2>5. Leave(v) /\ UNCHANGED <<stored, flagged, posting, nextId>>
        BY <1>6 DEF Commit
    <2>6. \A x \in Row : Outcome(x)' = Outcome(x)
        BY DEF Outcome
    <2> QED BY <2>2, <2>3, <2>4, <2>5, <2>6, LeaveInv DEF Inv, TypeOK, PostInv
<1>7. ASSUME NEW v \in Reviewer, RollBack(v) PROVE Inv'
    <2>1. Leave(v) /\ UNCHANGED <<rowVars, flagged, posting, trail, top, nextId, history>>
        BY <1>7 DEF RollBack
    <2> QED BY <2>1, LeaveInv DEF Inv, TypeOK, PostInv
<1>8. CASE UNCHANGED vars
    BY <1>8 DEF vars, Inv, TypeOK, TxInv, PostInv
<1> QED
    BY <1>1, <1>2, <1>3, <1>4, <1>5, <1>6, <1>7, <1>8 DEF Next, ReviewStep, SummaryStep

THEOREM InvHolds == Spec => []Inv
BY InitInv, StepInv, PTL DEF Spec

\* Every variable keeps its type, and a row only ever takes the outcomes its
\* own kind of review can give.
THEOREM TypeCorrect == Spec => []TypeOK
<1>1. Inv => TypeOK
    BY DEF Inv
<1> QED BY <1>1, InvHolds, PTL

-----------------------------------------------------------------------------
(* The chain's lock orders the decisions                                   *)

LEMMA InitLock == Init => LockInv
BY DEF Init, LockInv

\* Outside a commit no event is added, and the last id only moves up.
LEMMA StepLock == Inv /\ LockInv /\ [Next]_vars => LockInv'
<1> SUFFICES ASSUME Inv, LockInv, [Next]_vars
             PROVE  LockInv'
    OBVIOUS
<1>0. /\ at \in [Reviewer -> {"idle", "deciding", "waiting", "chained"}]
      /\ prev \in [Reviewer -> Nat] /\ drawn \in [Reviewer -> Nat]
      /\ lock \in Reviewer \cup {NoOne} /\ top \in Nat
      /\ \A e \in trail : e.id \in Nat
    BY DEF Inv, TypeOK
<1>1. ASSUME NEW r \in Row, Store(r) PROVE LockInv'
    BY <1>1 DEF Store, LockInv, Audited, Accepted
<1>2. ASSUME NEW d \in Discrepancy, SummaryStep(d) PROVE LockInv'
    <2>1. CASE WriteSummary(d)
        BY <2>1 DEF WriteSummary, LockInv, Audited, Accepted
    <2>2. CASE FlagSummary(d)
        <3>1. \A v \in Reviewer : at[v] # "chained"
            BY <2>2 DEF FlagSummary, LockInv
        <3>2. top' \in Nat /\ top <= top'
            BY <1>0, <2>2 DEF FlagSummary, LastWith, Inv, TypeOK
        <3> QED BY <1>0, <2>2, <3>1, <3>2 DEF FlagSummary, LockInv, Audited, Accepted
    <2>3. CASE DropSummary(d)
        BY <2>3 DEF DropSummary, LockInv, Audited, Accepted
    <2> QED BY <1>2, <2>1, <2>2, <2>3 DEF SummaryStep
<1>3. ASSUME NEW v \in Reviewer, NEW r \in Row, NEW c \in {Accepted(r), Declined(r)},
             OpenDecision(v, r, c)
      PROVE  LockInv'
    BY <1>0, <1>3 DEF OpenDecision, LockInv, Inv, TypeOK, Audited, Accepted
<1>4. ASSUME NEW v \in Reviewer, Draw(v) PROVE LockInv'
    BY <1>0, <1>4 DEF Draw, LockInv, Audited, Accepted
<1>5. ASSUME NEW v \in Reviewer, Chain(v) PROVE LockInv'
    BY <1>0, <1>5 DEF Chain, LockInv, Audited, Accepted
<1>6. ASSUME NEW v \in Reviewer, Commit(v) PROVE LockInv'
    <2>0. Leave(v)
        BY <1>6 DEF Commit
    <2>1. CASE at[v] = "chained"
        <3>1. trail' = trail \cup {Event(v)} /\ top' = LastWith(drawn[v]) /\ lock = v
            BY <1>6, <2>1 DEF Commit, LockInv
        <3>2. top' \in Nat /\ top <= top' /\ Event(v).id <= top'
            BY <1>0, <3>1 DEF LastWith, Event
        <3>3. \A e \in trail' : e.id <= top'
            BY <1>0, <3>1, <3>2 DEF LockInv
        <3>4. \A w \in Reviewer : at'[w] # "chained" /\ lock' # w
            BY <1>0, <2>0, <3>1 DEF Leave, LockInv
        <3>5. \A w \in Reviewer \ {v} :
                  at'[w] = at[w] /\ on'[w] = on[w] /\ choice'[w] = choice[w]
            BY <2>0 DEF Leave, Inv, TypeOK
        <3>6. at'[v] = "idle"
            BY <1>0, <2>0 DEF Leave
        <3> QED BY <3>3, <3>4, <3>5, <3>6 DEF LockInv, Audited, Accepted
    <2>2. CASE at[v] # "chained"
        <3>1. UNCHANGED <<trail, top>>
            BY <1>6, <2>2 DEF Commit
        <3> QED BY <1>0, <2>0, <2>2, <3>1 DEF Leave, LockInv, Inv, TypeOK, Audited, Accepted
    <2> QED BY <2>1, <2>2
<1>7. ASSUME NEW v \in Reviewer, RollBack(v) PROVE LockInv'
    BY <1>0, <1>7 DEF RollBack, Leave, LockInv, Inv, TypeOK, Audited, Accepted
<1>8. CASE UNCHANGED vars
    BY <1>8 DEF vars, LockInv, Audited, Accepted
<1> QED
    BY <1>1, <1>2, <1>3, <1>4, <1>5, <1>6, <1>7, <1>8 DEF Next, ReviewStep, SummaryStep

LEMMA LockHolds == Spec => []LockInv
<1>1. Inv /\ LockInv /\ [Next]_vars => LockInv'
    BY StepLock
<1> QED BY <1>1, InitLock, InvHolds, PTL DEF Spec

LEMMA StepShown == Inv /\ LockInv /\ RowIsLastChained /\ [Next]_vars => RowIsLastChained'
<1> SUFFICES ASSUME Inv, LockInv, RowIsLastChained, [Next]_vars
             PROVE  RowIsLastChained'
    OBVIOUS
<1>1. CASE UNCHANGED <<outcome, by, trail>>
    BY <1>1 DEF RowIsLastChained
<1>2. ASSUME NEW v \in Reviewer, Commit(v) PROVE RowIsLastChained'
    <2>0. /\ outcome' = [outcome EXCEPT ![on[v]] = choice[v]]
          /\ by' = [by EXCEPT ![on[v]] = v]
          /\ outcome \in [Row -> AnyOutcome] /\ by \in [Row -> Reviewer \cup {NoOne}]
          /\ on[v] \in Row
        BY <1>2, CommitFacts DEF Commit, Inv, TypeOK
    <2> SUFFICES ASSUME NEW r \in Flag \cup Discrepancy, outcome'[r] # "open"
                 PROVE  \E x \in trail' :
                            /\ x.row = r /\ x.outcome = outcome'[r] /\ x.by = by'[r]
                            /\ \A f \in trail' \ {x} : f.row = r => f.id <= x.prev
        BY DEF RowIsLastChained
    <2>1. CASE on[v] = r
        <3>1. Audited(on[v], choice[v])
            BY <2>1 DEF Audited
        <3>2. at[v] = "chained" /\ trail' = trail \cup {Event(v)}
            BY <1>2, <3>1 DEF Commit
        <3>3. Event(v).prev = top /\ \A f \in trail : f.id <= top
            BY <3>2 DEF Event, LockInv
        <3>4. /\ Event(v) \in trail' /\ Event(v).row = r
              /\ Event(v).outcome = outcome'[r] /\ Event(v).by = by'[r]
            BY <2>0, <2>1, <3>2 DEF Event
        <3> QED BY <3>2, <3>3, <3>4
    <2>2. CASE on[v] # r
        <3>1. outcome'[r] = outcome[r] /\ by'[r] = by[r]
            BY <2>0, <2>2
        <3>2. PICK x \in trail :
                  /\ x.row = r /\ x.outcome = outcome[r] /\ x.by = by[r]
                  /\ \A f \in trail \ {x} : f.row = r => f.id <= x.prev
            BY <3>1 DEF RowIsLastChained
        <3>3. x \in trail' /\ \A f \in trail' : f \in trail \/ f.row = on[v]
            BY <1>2 DEF Commit, Event
        <3> QED BY <2>2, <3>1, <3>2, <3>3
    <2> QED BY <2>1, <2>2
<1>3. Next => UNCHANGED <<outcome, by, trail>> \/ \E v \in Reviewer : Commit(v)
    BY DEF Next, ReviewStep, Store, WriteSummary, FlagSummary, DropSummary, OpenDecision, Draw,
           Chain, RollBack
<1> QED BY <1>1, <1>2, <1>3 DEF vars

\* The decision a flag or a discrepancy shows is the one chained last, for any
\* number of racing reviewers: its event links to every other decision of the
\* row or past it.
THEOREM ShownIsChained == Spec => []RowIsLastChained
<1>1. Init => RowIsLastChained
    BY DEF Init, RowIsLastChained
<1>2. Inv /\ LockInv /\ RowIsLastChained /\ [Next]_vars => RowIsLastChained'
    BY StepShown
<1> QED BY <1>1, <1>2, InvHolds, LockHolds, PTL DEF Spec

-----------------------------------------------------------------------------
(* Decisions, races and summaries                                          *)

LEMMA InitRace == Init => RaceInv
BY DEF Init, RaceInv

LEMMA StepRace == Inv /\ RaceInv /\ [Next]_vars => RaceInv'
<1> SUFFICES ASSUME Inv, RaceInv, [Next]_vars
             PROVE  RaceInv'
    OBVIOUS
<1>0. on \in [Reviewer -> Row \cup {NoRow}] /\ decisions \in [Row -> Nat]
      /\ outcome \in [Row -> AnyOutcome]
    BY DEF Inv, TypeOK
<1>1. ASSUME NEW r \in Row, Store(r) PROVE RaceInv'
    BY <1>1 DEF Store, RaceInv
<1>2. ASSUME NEW d \in Discrepancy, SummaryStep(d) PROVE RaceInv'
    BY <1>2 DEF SummaryStep, WriteSummary, FlagSummary, DropSummary, RaceInv
<1>3. ASSUME NEW v \in Reviewer, NEW r \in Row, NEW c \in {Accepted(r), Declined(r)},
             OpenDecision(v, r, c)
      PROVE  RaceInv'
    BY <1>0, <1>3 DEF OpenDecision, RaceInv
<1>4. ASSUME NEW v \in Reviewer, Draw(v) \/ Chain(v) PROVE RaceInv'
    BY <1>4 DEF Draw, Chain, RaceInv
<1>5. ASSUME NEW v \in Reviewer, Commit(v) PROVE RaceInv'
    <2>1. /\ on[v] \in Row /\ choice[v] # "open"
          /\ outcome' = [outcome EXCEPT ![on[v]] = choice[v]]
          /\ decisions' = [decisions EXCEPT ![on[v]] = @ + 1]
          /\ on' = [on EXCEPT ![v] = NoRow]
          /\ raced' = IF \E w \in Reviewer \ {v} : on[w] = on[v]
                      THEN raced \cup {on[v]} ELSE raced
          /\ \A e \in trail' : e \in trail \/ e.row = on[v]
        <3>1. on[v] \in Row /\ choice[v] # "open"
            BY <1>5, CommitFacts
        <3>2. \A e \in trail' : e \in trail \/ e.row = on[v]
            BY <1>5 DEF Commit, Event
        <3> QED BY <1>5, <3>1, <3>2, Zenon DEF Commit, Leave
    <2> SUFFICES ASSUME NEW r \in Row
                 PROVE
        /\ outcome'[r] = "open" => decisions'[r] = 0 /\ \A e \in trail' : e.row # r
        /\ \A w \in Reviewer : on'[w] = r /\ outcome'[r] # "open" => r \in raced'
        /\ decisions'[r] > 1 => r \in raced'
        BY DEF RaceInv
    <2>2. CASE r # on[v]
        BY <1>0, <2>1, <2>2 DEF RaceInv
    <2>3. CASE r = on[v]
        <3>1. outcome'[r] # "open"
            BY <1>0, <2>1, <2>3
        <3>2. \A w \in Reviewer : on'[w] = r => r \in raced'
            BY <1>0, <2>1, <2>3
        <3>3. decisions'[r] > 1 => decisions[r] # 0
            BY <1>0, <2>1, <2>3
        <3>4. decisions[r] # 0 => r \in raced
            BY <2>3 DEF RaceInv
        <3> QED BY <2>1, <3>1, <3>2, <3>3, <3>4
    <2> QED BY <2>2, <2>3
<1>6. ASSUME NEW v \in Reviewer, RollBack(v) PROVE RaceInv'
    BY <1>0, <1>6 DEF RollBack, Leave, RaceInv
<1>7. CASE UNCHANGED vars
    BY <1>7 DEF vars, RaceInv
<1> QED
    BY <1>1, <1>2, <1>3, <1>4, <1>5, <1>6, <1>7 DEF Next, ReviewStep, SummaryStep

LEMMA RaceHolds == Spec => []RaceInv
<1>1. Inv /\ RaceInv /\ [Next]_vars => RaceInv'
    BY StepRace
<1> QED BY <1>1, InitRace, InvHolds, PTL DEF Spec

\* Where no two decisions of a row overlap, it is decided at most once.
THEOREM DecidedOnceUnlessRaced == Spec => []DecidedTwiceOnlyIfRaced
<1>1. RaceInv => DecidedTwiceOnlyIfRaced
    BY DEF RaceInv, DecidedTwiceOnlyIfRaced
<1> QED BY <1>1, RaceHolds, PTL

LEMMA StepSent == Inv /\ LockInv /\ RaceInv /\ SentAsAudited /\ [Next]_vars => SentAsAudited'
<1> SUFFICES ASSUME Inv, LockInv, RaceInv, SentAsAudited, [Next]_vars
             PROVE  SentAsAudited'
    OBVIOUS
<1>1. CASE UNCHANGED <<outcome, by, trail, raced>>
    BY <1>1 DEF SentAsAudited
<1>2. ASSUME NEW v \in Reviewer, Commit(v) PROVE SentAsAudited'
    <2>0. /\ outcome' = [outcome EXCEPT ![on[v]] = choice[v]]
          /\ by' = [by EXCEPT ![on[v]] = v]
          /\ outcome \in [Row -> AnyOutcome] /\ by \in [Row -> Reviewer \cup {NoOne}]
          /\ on[v] \in Row /\ choice[v] \in {Accepted(on[v]), Declined(on[v])}
          /\ raced \subseteq raced' /\ \A f \in trail' : f \in trail \/ f = Event(v)
        BY <1>2, CommitFacts DEF Commit, Inv, TypeOK
    <2> SUFFICES ASSUME NEW n \in Notice
                 PROVE  /\ outcome'[n] = "SENT" => \E f \in trail' : f.row = n /\ f.by = by'[n]
                        /\ (\E f \in trail' : f.row = n) => outcome'[n] = "SENT" \/ n \in raced'
        BY DEF SentAsAudited
    <2>1. CASE on[v] # n
        <3>1. outcome'[n] = outcome[n] /\ by'[n] = by[n] /\ trail \subseteq trail'
            BY <1>2, <2>0, <2>1 DEF Commit
        <3>2. \A f \in trail' : f.row = n => f \in trail
            BY <2>0, <2>1 DEF Event
        <3> QED BY <2>0, <3>1, <3>2 DEF SentAsAudited
    <2>2. CASE on[v] = n
        <3>1. outcome'[n] = choice[v] /\ by'[n] = v
            BY <2>0, <2>2
        <3>2. choice[v] = "SENT" => Audited(n, choice[v])
            BY DEF Audited, Accepted
        <3>3. Audited(n, choice[v]) => choice[v] = "SENT"
            BY DEF Audited, Accepted
        <3>4. choice[v] = "SENT" => Event(v) \in trail'
            BY <1>2, <2>2, <3>2 DEF Commit
        <3>5. \A f \in trail : f.row = n => outcome[n] # "open"
            BY DEF RaceInv
        <3>6. outcome[n] # "open" => n \in raced
            BY <2>2 DEF RaceInv
        <3>7. (\E f \in trail' : f.row = n) => outcome'[n] = "SENT" \/ n \in raced'
            <4>1. CASE at[v] = "chained"
                BY <2>2, <3>1, <3>3, <4>1 DEF LockInv
            <4>2. CASE at[v] # "chained"
                <5>1. trail' = trail
                    BY <1>2, <4>2 DEF Commit
                <5> QED BY <2>0, <3>5, <3>6, <5>1
            <4> QED BY <4>1, <4>2
        <3> QED BY <2>2, <3>1, <3>4, <3>7 DEF Event
    <2> QED BY <2>1, <2>2
<1>3. Next => UNCHANGED <<outcome, by, trail, raced>> \/ \E v \in Reviewer : Commit(v)
    BY DEF Next, ReviewStep, Store, WriteSummary, FlagSummary, DropSummary, OpenDecision, Draw,
           Chain, RollBack
<1> QED BY <1>1, <1>2, <1>3 DEF vars

\* A notice shown as sent has its approver's event in the chain, and an event
\* without a sent notice is the trace of a race.
THEOREM SentIsAudited == Spec => []SentAsAudited
<1>1. Init => SentAsAudited
    BY DEF Init, SentAsAudited
<1>2. Inv /\ LockInv /\ RaceInv /\ SentAsAudited /\ [Next]_vars => SentAsAudited'
    BY StepSent
<1> QED BY <1>1, <1>2, InvHolds, LockHolds, RaceHolds, PTL DEF Spec

\* Whatever the order of deliveries and decisions, an undecided discrepancy
\* shows the summary flagged last.
THEOREM SummaryKept == Spec => []SummaryLostOnlyByDecision
<1>1. Init => SummaryLostOnlyByDecision
    BY DEF Init, SummaryLostOnlyByDecision
<1>2. Inv /\ SummaryLostOnlyByDecision /\ [Next]_vars => SummaryLostOnlyByDecision'
    <2> SUFFICES ASSUME Inv, SummaryLostOnlyByDecision, [Next]_vars
                 PROVE  SummaryLostOnlyByDecision'
        OBVIOUS
    <2>1. CASE UNCHANGED <<outcome, summary, flagged>>
        BY <2>1 DEF SummaryLostOnlyByDecision
    <2>2. ASSUME NEW d \in Discrepancy, FlagSummary(d) PROVE SummaryLostOnlyByDecision'
        BY <2>2 DEF FlagSummary, SummaryLostOnlyByDecision, Inv, TypeOK
    <2>3. ASSUME NEW v \in Reviewer, Commit(v) PROVE SummaryLostOnlyByDecision'
        BY <2>3, CommitFacts DEF Commit, SummaryLostOnlyByDecision, Inv, TypeOK
    <2>4. Next => \/ UNCHANGED <<outcome, summary, flagged>>
                  \/ \E d \in Discrepancy : FlagSummary(d)
                  \/ \E v \in Reviewer : Commit(v)
        BY DEF Next, ReviewStep, Store, WriteSummary, DropSummary, OpenDecision, Draw, Chain,
               RollBack
    <2> QED BY <2>1, <2>2, <2>3, <2>4 DEF vars
<1> QED BY <1>1, <1>2, InvHolds, PTL DEF Spec

\* Neither a late message nor a racing reviewer opens a decided row again.
THEOREM StaysDecided == Spec => DecisionIsForGood
<1>1. Inv /\ [Next]_vars => [\A r \in Row : outcome[r] # "open" => outcome'[r] # "open"]_vars
    <2> SUFFICES ASSUME Inv, Next, NEW r \in Row, outcome[r] # "open"
                 PROVE  outcome'[r] # "open"
        OBVIOUS
    <2>1. CASE UNCHANGED outcome
        BY <2>1
    <2>2. ASSUME NEW v \in Reviewer, Commit(v) PROVE outcome'[r] # "open"
        BY <2>2, CommitFacts DEF Commit, Inv, TypeOK
    <2>3. Next => UNCHANGED outcome \/ \E v \in Reviewer : Commit(v)
        BY DEF Next, ReviewStep, Store, WriteSummary, FlagSummary, DropSummary, OpenDecision,
               Draw, Chain, RollBack
    <2> QED BY <2>1, <2>2, <2>3
<1> QED BY <1>1, InvHolds, PTL DEF Spec, DecisionIsForGood

=============================================================================
