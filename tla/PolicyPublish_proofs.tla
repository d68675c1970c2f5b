------------------------ MODULE PolicyPublish_proofs ------------------------
(***************************************************************************)
(* Proofs about PolicyPublish for any number of administrators, drafts,    *)
(* parameter sets and dates.                                               *)
(***************************************************************************)
EXTENDS PolicyPublish, TLAPS

\* A transaction in flight decides a drafted proposal, and every draft names
\* a committed set, never the year already over when drafting began.
ReviewInv ==
    /\ \A a \in Admin : at[a] # "idle" => on[a] \in Proposal /\ status[on[a]] # "none"
    /\ \A p \in Proposal : status[p] # "none" => drafted[p] \in sets \ {FY2025}
    /\ FY2025 \in sets /\ to[FY2025] = 1 /\ today >= 2

\* What a transaction about to publish read still holds, or its outgoing set
\* has been closed since.
PublishInv ==
    \A a \in Admin : at[a] = "publishing" =>
        /\ start[a] > from[drafted[on[a]]]
        /\ seenTo[a] # Open => seenTo[a] = to[drafted[on[a]]] /\ start[a] > seenTo[a]

SharedBase == \E r, s \in sets : r # s /\ base[r] = base[s] /\ base[r] # NoSet

\* Until a base is shared, ranges are disjoint and a set is closed by the
\* set that superseded it, the first seed apart.
ChainInv ==
    \/ SharedBase
    \/ /\ \A r, s \in sets : r # s => to[r] < from[s] \/ to[s] < from[r]
       /\ \A s \in sets \ {FY2025} : to[s] # Open => \E n \in sets : base[n] = s

\* A proposal that no second decision raced is decided at most once, and
\* once decided is out of every transaction's hands.
RaceInv ==
    \A p \in Proposal \ raced :
        /\ decisions[p] \in {0, 1}
        /\ decisions[p] = 1 => /\ status[p] \in {"ACCEPTED", "REJECTED"}
                               /\ \A a \in Admin : on[a] # p

Inv == TypeOK /\ ReviewInv

USE DateAssumption, SeedAssumption
USE DEF Date, Open, Status, Step, setVars, proposalVars, txVars, history
USE DEF DayBefore, CopyForward

-----------------------------------------------------------------------------
(* Type correctness                                                        *)

LEMMA InitInv == Init => Inv
BY DEF Init, Inv, TypeOK, ReviewInv

LEMMA StepInv == Inv /\ [Next]_vars => Inv'
<1> SUFFICES ASSUME Inv, [Next]_vars
             PROVE  Inv'
    OBVIOUS
<1> USE DEF Inv, TypeOK, ReviewInv
<1>1. ASSUME NEW p \in Proposal, NEW s \in SetId, Propose(p, s) PROVE Inv'
    <2>1. s \in sets /\ s # FY2025
        BY <1>1 DEF Propose, Resolves, EffectiveOn
    <2> QED BY <1>1, <2>1 DEF Propose
<1>2. ASSUME NEW a \in Admin, NEW p \in Proposal, NEW step \in {"accepting", "rejecting"},
             OpenReview(a, p, step)
      PROVE  Inv'
    BY <1>2 DEF OpenReview
<1>3. ASSUME NEW a \in Admin, NEW d \in Date, ReadOutgoing(a, d) PROVE Inv'
    BY <1>3 DEF ReadOutgoing
<1>4. ASSUME NEW a \in Admin, NEW n \in SetId, Publish(a, n) PROVE Inv'
    <2>1. on[a] \in Proposal /\ drafted[on[a]] \in sets \ {FY2025} /\ n \notin sets
        BY <1>4 DEF Publish
    <2>2. start[a] \in Date /\ start[a] - 1 \in 0..Open
        OBVIOUS
    <2>3. TypeOK'
        <3>1. sets' \in SUBSET SetId /\ from' \in [SetId -> Date] /\ to' \in [SetId -> 0..Open]
            BY <1>4, <2>1, <2>2 DEF Publish
        <3>2. /\ figures' \in [SetId -> SUBSET Proposal]
              /\ source' \in [SetId -> Proposal \cup {NoProposal}]
              /\ base' \in [SetId -> SetId \cup {NoSet}]
            BY <1>4, <2>1 DEF Publish
        <3>3. /\ status' \in [Proposal -> Status]
              /\ drafted' \in [Proposal -> SetId \cup {NoSet}]
              /\ published' \in [Proposal -> SetId \cup {NoSet}]
            BY <1>4, <2>1 DEF Publish
        <3>4. decisions' \in [Proposal -> Nat] /\ raced' \in SUBSET Proposal
            BY <1>4, <2>1 DEF Publish, Decided
        <3> QED BY <1>4, <3>1, <3>2, <3>3, <3>4 DEF Publish, Idle
    <2>4. ReviewInv'
        <3>1. to'[FY2025] = 1
            BY <1>4, <2>1 DEF Publish
        <3>2. \A p \in Proposal : status'[p] # "none" => drafted'[p] \in sets' \ {FY2025}
            BY <1>4, <2>1 DEF Publish
        <3>3. \A b \in Admin : at'[b] # "idle" => on'[b] \in Proposal /\ status'[on'[b]] # "none"
            BY <1>4, <2>1 DEF Publish, Idle
        <3> QED BY <1>4, <3>1, <3>2, <3>3 DEF Publish
    <2> QED BY <2>3, <2>4
<1>5. ASSUME NEW a \in Admin, Reject(a) PROVE Inv'
    BY <1>5 DEF Reject, Decided, Idle
<1>6. ASSUME NEW a \in Admin, RollBack(a) PROVE Inv'
    BY <1>6 DEF RollBack, Idle
<1>7. ASSUME NEW d \in Date, NEW s \in SetId, Determine(d, s) PROVE Inv'
    BY <1>7 DEF Determine
<1>8. CASE Tick
    BY <1>8 DEF Tick
<1>9. CASE UNCHANGED vars
    BY <1>9 DEF vars
<1> QED
    BY <1>1, <1>2, <1>3, <1>4, <1>5, <1>6, <1>7, <1>8, <1>9 DEF Next, ReviewStep

\* Every variable keeps its type.
THEOREM TypeCorrect == Spec => []TypeOK
<1>1. Inv => TypeOK
    BY DEF Inv
<1> QED BY InitInv, StepInv, <1>1, PTL DEF Spec

-----------------------------------------------------------------------------
(* Closed ranges stay closed                                               *)

\* The commit of a publication, as the invariants need it.
LEMMA PublishFacts ==
    ASSUME Inv, NEW a \in Admin, NEW n \in SetId, Publish(a, n)
    PROVE  /\ on[a] \in Proposal /\ at[a] = "publishing"
           /\ drafted[on[a]] \in sets \ {FY2025} /\ n \notin sets
           /\ start[a] \in Date /\ start[a] - 1 \in 0..Open
           /\ sets' = sets \cup {n} /\ from'[n] = start[a] /\ to'[n] = Open
           /\ base'[n] = drafted[on[a]] /\ figures'[n] = figures[drafted[on[a]]] \cup {on[a]}
           /\ \A s \in sets : /\ from'[s] = from[s] /\ base'[s] = base[s]
                              /\ figures'[s] = figures[s]
                              /\ to'[s] = to[s] \/ (s = drafted[on[a]] /\ seenTo[a] = Open)
           /\ seenTo[a] = Open => /\ to[drafted[on[a]]] = Open
                                  /\ to'[drafted[on[a]]] = start[a] - 1
<1>1. /\ on[a] \in Proposal /\ at[a] = "publishing"
      /\ drafted[on[a]] \in sets \ {FY2025} /\ n \notin sets
    BY DEF Inv, ReviewInv, Publish
<1>2. start[a] \in Date /\ start[a] - 1 \in 0..Open
    BY DEF Inv, TypeOK
<1>3. /\ sets' = sets \cup {n} /\ from'[n] = start[a] /\ to'[n] = Open
      /\ base'[n] = drafted[on[a]] /\ figures'[n] = figures[drafted[on[a]]] \cup {on[a]}
    BY <1>1 DEF Inv, TypeOK, Publish
<1>4. \A s \in sets : /\ from'[s] = from[s] /\ base'[s] = base[s]
                      /\ figures'[s] = figures[s]
                      /\ to'[s] = to[s] \/ (s = drafted[on[a]] /\ seenTo[a] = Open)
    <2>1. \A s \in sets : from'[s] = from[s] /\ base'[s] = base[s] /\ figures'[s] = figures[s]
        BY <1>1 DEF Inv, TypeOK, Publish
    <2>2. CASE seenTo[a] = Open
        <3>1. to' = [to EXCEPT ![n] = Open, ![drafted[on[a]]] = start[a] - 1]
            BY <2>2 DEF Publish
        <3>2. \A s \in sets : s # drafted[on[a]] => to'[s] = to[s]
            BY <1>1, <3>1 DEF Inv, TypeOK
        <3>3. \A s \in sets : to'[s] = to[s] \/ (s = drafted[on[a]] /\ seenTo[a] = Open)
            BY <2>2, <3>2
        <3> QED BY <2>1, <3>3
    <2>3. CASE seenTo[a] # Open
        <3>1. to' = [to EXCEPT ![n] = Open]
            BY <2>3 DEF Publish
        <3>2. \A s \in sets : to'[s] = to[s]
            BY <1>1, <3>1 DEF Inv, TypeOK
        <3> QED BY <2>1, <3>2
    <2> QED BY <2>2, <2>3
<1>5. seenTo[a] = Open => /\ to[drafted[on[a]]] = Open
                          /\ to'[drafted[on[a]]] = start[a] - 1
    BY <1>1 DEF Inv, TypeOK, Publish, Admissible
<1> QED BY <1>1, <1>2, <1>3, <1>4, <1>5

LEMMA StepClosedOnce ==
    ASSUME Inv, [Next]_vars
    PROVE  /\ sets \subseteq sets'
           /\ \A s \in sets : /\ from'[s] = from[s] /\ base'[s] = base[s]
                              /\ figures'[s] = figures[s]
                              /\ to[s] # Open => to'[s] = to[s]
<1> DEFINE Goal == /\ sets \subseteq sets'
                   /\ \A s \in sets : /\ from'[s] = from[s] /\ base'[s] = base[s]
                                      /\ figures'[s] = figures[s]
                                      /\ to[s] # Open => to'[s] = to[s]
<1>1. ASSUME NEW a \in Admin, NEW n \in SetId, Publish(a, n) PROVE Goal
    BY <1>1, PublishFacts
<1>2. ASSUME UNCHANGED setVars PROVE Goal
    BY <1>2
<1>3. ASSUME NEW a \in Admin, ReviewStep(a), \A n \in SetId : ~Publish(a, n)
      PROVE  UNCHANGED setVars
    BY <1>3 DEF ReviewStep, OpenReview, ReadOutgoing, Reject, RollBack
<1>4. ASSUME NEW p \in Proposal, NEW s \in SetId, Propose(p, s) PROVE UNCHANGED setVars
    BY <1>4 DEF Propose
<1>5. ASSUME NEW d \in Date, NEW s \in SetId, Determine(d, s) PROVE UNCHANGED setVars
    BY <1>5 DEF Determine
<1>6. CASE Tick
    BY <1>6, <1>2 DEF Tick
<1>7. CASE UNCHANGED vars
    BY <1>7, <1>2 DEF vars
<1> QED BY <1>1, <1>2, <1>3, <1>4, <1>5, <1>6, <1>7 DEF Next

\* A published set never disappears, moves its start or its closed end.
THEOREM RangesClosedOnce == Spec => ClosedOnce
<1>1. Inv /\ [Next]_vars =>
        [ \A s \in sets : /\ s \in sets' /\ from'[s] = from[s]
                          /\ to[s] # Open => to'[s] = to[s] ]_vars
    BY StepClosedOnce
<1> QED BY InitInv, StepInv, <1>1, PTL DEF Spec, ClosedOnce

-----------------------------------------------------------------------------
(* No gap                                                                  *)

LEMMA InitNoGap == Init => NoGap
<1> SUFFICES ASSUME Init, NEW d \in Date
             PROVE  EffectiveOn(d) # {}
    BY DEF NoGap
<1>1. CASE d = 1
    <2>1. FY2025 \in EffectiveOn(d)
        BY <1>1 DEF Init, EffectiveOn
    <2> QED BY <2>1
<1>2. CASE d # 1
    <2>1. FY2026 \in EffectiveOn(d)
        BY <1>2 DEF Init, EffectiveOn
    <2> QED BY <2>1
<1> QED BY <1>1, <1>2

LEMMA StepNoGap == Inv /\ NoGap /\ [Next]_vars => NoGap'
<1> SUFFICES ASSUME Inv, NoGap, [Next]_vars, NEW d \in Date
             PROVE  \E s \in sets' : from'[s] <= d /\ d <= to'[s]
    BY DEF NoGap, EffectiveOn
<1>1. PICK s \in sets : from[s] <= d /\ d <= to[s]
    BY DEF NoGap, EffectiveOn
<1>2. ASSUME NEW a \in Admin, NEW n \in SetId, Publish(a, n)
      PROVE  \E r \in sets' : from'[r] <= d /\ d <= to'[r]
    <2>1. CASE to'[s] = to[s]
        BY <1>1, <1>2, <2>1, PublishFacts
    <2>2. CASE to'[s] # to[s] /\ d < start[a]
        <3>1. to'[s] = start[a] - 1 /\ start[a] \in Date
            BY <1>1, <1>2, <2>2, PublishFacts
        <3> QED BY <1>1, <1>2, <2>2, <3>1, PublishFacts
    <2>3. CASE d >= start[a]
        BY <1>2, <2>3, PublishFacts
    <2> QED BY <1>2, <2>1, <2>2, <2>3, PublishFacts
<1>3. ASSUME UNCHANGED setVars
      PROVE  \E r \in sets' : from'[r] <= d /\ d <= to'[r]
    BY <1>1, <1>3
<1>4. (\E a \in Admin, n \in SetId : Publish(a, n)) \/ UNCHANGED setVars
    BY DEF Next, ReviewStep, vars, Propose, OpenReview, ReadOutgoing, Reject, RollBack,
           Determine, Tick
<1> QED BY <1>2, <1>3, <1>4

\* Publishing never leaves a date without a set in force.
THEOREM NeverAGap == Spec => []NoGap
BY InitInv, StepInv, InitNoGap, StepNoGap, PTL DEF Spec

-----------------------------------------------------------------------------
(* Overlap needs a shared base                                             *)

LEMMA InitChain == Init => PublishInv /\ ChainInv
BY DEF Init, PublishInv, ChainInv

LEMMA StepPublishInv == Inv /\ PublishInv /\ [Next]_vars => PublishInv'
<1> SUFFICES ASSUME Inv, PublishInv, [Next]_vars, NEW a \in Admin, at'[a] = "publishing"
             PROVE  /\ start'[a] > from'[drafted'[on'[a]]]
                    /\ seenTo'[a] # Open => /\ seenTo'[a] = to'[drafted'[on'[a]]]
                                            /\ start'[a] > seenTo'[a]
    BY DEF PublishInv
<1> DEFINE Goal == /\ start'[a] > from'[drafted'[on'[a]]]
                   /\ seenTo'[a] # Open => /\ seenTo'[a] = to'[drafted'[on'[a]]]
                                           /\ start'[a] > seenTo'[a]
<1>1. ASSUME NEW d \in Date, ReadOutgoing(a, d) PROVE Goal
    BY <1>1 DEF ReadOutgoing, Inv, TypeOK, ReviewInv
<1>2. ASSUME at[a] = "publishing", on'[a] = on[a], start'[a] = start[a], seenTo'[a] = seenTo[a],
             drafted'[on[a]] = drafted[on[a]]
      PROVE  Goal
    <2>1. drafted[on[a]] \in sets
        BY <1>2 DEF Inv, ReviewInv
    <2>2. /\ from'[drafted[on[a]]] = from[drafted[on[a]]]
          /\ to[drafted[on[a]]] # Open => to'[drafted[on[a]]] = to[drafted[on[a]]]
        BY <2>1, StepClosedOnce
    <2> QED BY <1>2, <2>2 DEF PublishInv
<1>3. ASSUME NEW b \in Admin, b # a, ReviewStep(b) PROVE Goal
    <2>1. /\ at[a] = "publishing" /\ on'[a] = on[a] /\ start'[a] = start[a]
          /\ seenTo'[a] = seenTo[a] /\ drafted' = drafted
        BY <1>3 DEF ReviewStep, OpenReview, ReadOutgoing, Publish, Reject, RollBack, Idle,
                    Inv, TypeOK
    <2> QED BY <1>2, <2>1
<1>4. ASSUME ReviewStep(a) PROVE \E d \in Date : ReadOutgoing(a, d)
    BY <1>4 DEF ReviewStep, OpenReview, Publish, Reject, RollBack, Idle, Inv, TypeOK
<1>5. ASSUME NEW p \in Proposal, NEW s \in SetId, Propose(p, s) PROVE Goal
    <2>1. at[a] = "publishing" /\ on[a] # p
        BY <1>5 DEF Propose, Inv, ReviewInv
    <2> QED BY <1>2, <1>5, <2>1 DEF Propose, Inv, TypeOK
<1>6. ASSUME NEW d \in Date, NEW s \in SetId, Determine(d, s) PROVE Goal
    BY <1>2, <1>6 DEF Determine
<1>7. CASE Tick
    BY <1>2, <1>7 DEF Tick
<1>8. CASE UNCHANGED vars
    BY <1>2, <1>8 DEF vars
<1> QED BY <1>1, <1>3, <1>4, <1>5, <1>6, <1>7, <1>8 DEF Next

LEMMA StepChainInv == Inv /\ PublishInv /\ ChainInv /\ [Next]_vars => ChainInv'
<1> SUFFICES ASSUME Inv, PublishInv, ChainInv, [Next]_vars
             PROVE  ChainInv'
    OBVIOUS
<1>1. ASSUME SharedBase PROVE ChainInv'
    BY <1>1, StepClosedOnce DEF SharedBase, ChainInv
<1>2. ASSUME ~SharedBase, NEW a \in Admin, NEW n \in SetId, Publish(a, n) PROVE ChainInv'
    <2> DEFINE o == drafted[on[a]]
    <2>1. /\ o \in sets \ {FY2025} /\ n \notin sets /\ sets' = sets \cup {n}
          /\ start[a] \in Date /\ base'[n] = o /\ from'[n] = start[a] /\ to'[n] = Open
          /\ o # NoSet
        BY <1>2, PublishFacts DEF Inv, TypeOK
    <2>2. CASE to[o] # Open
        <3>1. PICK m \in sets : base[m] = o
            BY <1>2, <2>1, <2>2 DEF ChainInv
        <3>2. base'[m] = o /\ m # n
            BY <1>2, <2>1, <3>1, PublishFacts
        <3>3. SharedBase'
            BY <2>1, <3>2 DEF SharedBase
        <3> QED BY <3>3 DEF ChainInv
    <2>3. CASE to[o] = Open
        <3>1. seenTo[a] = Open /\ start[a] > from[o]
            BY <1>2, <2>3, PublishFacts DEF PublishInv
        <3>2. to'[o] = start[a] - 1 /\ from'[o] = from[o]
            BY <1>2, <2>1, <3>1, PublishFacts
        <3>3. \A s \in sets : s # o => to'[s] = to[s] /\ from'[s] = from[s]
            BY <1>2, PublishFacts
        <3>4. \A s \in sets : from[s] \in Date /\ to[s] \in 0..Open
            BY DEF Inv, TypeOK
        <3>5. \A s \in sets : s # o => to[s] < from[o]
            <4> SUFFICES ASSUME NEW s \in sets, s # o PROVE to[s] < from[o]
                OBVIOUS
            <4>1. to[s] < from[o] \/ to[o] < from[s]
                BY <1>2, <2>1 DEF ChainInv
            <4>2. from[s] \in Date
                BY <3>4
            <4> QED BY <2>3, <4>1, <4>2
        <3>6. \A s \in sets : to'[s] < from'[n]
            BY <2>1, <3>1, <3>2, <3>3, <3>4, <3>5
        <3>7. \A r, s \in sets : r # s => to[r] < from[s] \/ to[s] < from[r]
            BY <1>2 DEF ChainInv
        <3>8. ASSUME NEW r \in sets, NEW s \in sets, r # s
              PROVE  to'[r] < from'[s] \/ to'[s] < from'[r]
            <4>1. CASE r # o /\ s # o
                BY <3>3, <3>7, <3>8, <4>1
            <4>2. CASE r = o
                BY <3>2, <3>3, <3>5, <3>8, <4>2
            <4>3. CASE s = o
                BY <3>2, <3>3, <3>5, <3>8, <4>3
            <4> QED BY <4>1, <4>2, <4>3
        <3>9. \A r, s \in sets' : r # s => to'[r] < from'[s] \/ to'[s] < from'[r]
            BY <2>1, <3>6, <3>8
        <3>10. ASSUME NEW s \in sets' \ {FY2025}, to'[s] # Open
               PROVE  \E m \in sets' : base'[m] = s
            <4>1. CASE s = o
                BY <2>1, <4>1
            <4>2. CASE s # o
                <5>1. s \in sets /\ to[s] # Open
                    BY <2>1, <3>3, <3>10, <4>2
                <5>2. PICK m \in sets : base[m] = s
                    BY <1>2, <3>10, <5>1 DEF ChainInv
                <5> QED BY <2>1, <5>2, StepClosedOnce
            <4> QED BY <4>1, <4>2
        <3> QED BY <3>9, <3>10 DEF ChainInv
    <2> QED BY <2>2, <2>3
<1>3. ASSUME UNCHANGED setVars PROVE ChainInv'
    BY <1>3 DEF ChainInv, SharedBase
<1>4. (\E a \in Admin, n \in SetId : Publish(a, n)) \/ UNCHANGED setVars
    BY DEF Next, ReviewStep, vars, Propose, OpenReview, ReadOutgoing, Reject, RollBack,
           Determine, Tick
<1> QED BY <1>1, <1>2, <1>3, <1>4

\* Ranges overlap only after two publications superseded the same set.
THEOREM OverlapExplained == Spec => []OverlapOnlyFromSharedBase
<1>1. Inv /\ ChainInv => OverlapOnlyFromSharedBase
    <2> SUFFICES ASSUME Inv, ChainInv, ~SharedBase, NEW d \in Date,
                        NEW r \in EffectiveOn(d), NEW s \in EffectiveOn(d), r # s
                 PROVE  FALSE
        BY DEF OverlapOnlyFromSharedBase, SharedBase
    <2>1. /\ r \in sets /\ from[r] <= d /\ d <= to[r]
          /\ s \in sets /\ from[s] <= d /\ d <= to[s]
        BY DEF EffectiveOn
    <2>2. to[r] < from[s] \/ to[s] < from[r]
        BY <2>1 DEF ChainInv
    <2>3. from[r] \in Nat /\ from[s] \in Nat /\ to[r] \in Nat /\ to[s] \in Nat
        BY <2>1 DEF Inv, TypeOK
    <2> QED BY <2>1, <2>2, <2>3
<1> QED BY InitInv, StepInv, InitChain, StepPublishInv, StepChainInv, <1>1, PTL DEF Spec

-----------------------------------------------------------------------------
(* Reproducibility                                                         *)

\* What a determination used is what its parameter set id still resolves to.
THEOREM DeterminationsReproducible == Spec => []Reproducible
<1>1. Init => Reproducible
    BY DEF Init, Reproducible
<1>2. Inv /\ Reproducible /\ [Next]_vars => Reproducible'
    <2> SUFFICES ASSUME Inv, Reproducible, [Next]_vars, NEW r \in determined'
                 PROVE  r.set \in sets' /\ figures'[r.set] = r.used
        BY DEF Reproducible
    <2>1. CASE r \in determined
        BY <2>1, StepClosedOnce DEF Reproducible
    <2>2. ASSUME NEW d \in Date, NEW s \in SetId, Determine(d, s), r \notin determined
          PROVE  r.set \in sets' /\ figures'[r.set] = r.used
        <3>1. r = [asOf |-> d, set |-> s, used |-> figures[s]] /\ s \in sets
            BY <2>2 DEF Determine, Resolves, EffectiveOn
        <3> QED BY <2>2, <3>1 DEF Determine
    <2>3. determined' = determined \/ \E d \in Date, s \in SetId : Determine(d, s)
        BY DEF Next, ReviewStep, vars, Propose, OpenReview, ReadOutgoing, Publish, Reject,
               RollBack, Tick
    <2> QED BY <2>1, <2>2, <2>3
<1> QED BY InitInv, StepInv, <1>1, <1>2, PTL DEF Spec

-----------------------------------------------------------------------------
(* One decision, races apart                                               *)

\* A proposal decided twice was being decided twice at once.
THEOREM SecondDecisionsExplained == Spec => []DecidedTwiceOnlyIfRaced
<1>1. Init => RaceInv
    BY DEF Init, RaceInv
<1>2. Inv /\ RaceInv /\ [Next]_vars => RaceInv'
    <2> SUFFICES ASSUME Inv, RaceInv, [Next]_vars, NEW p \in Proposal, p \notin raced'
                 PROVE  /\ decisions'[p] \in {0, 1}
                        /\ decisions'[p] = 1 => /\ status'[p] \in {"ACCEPTED", "REJECTED"}
                                                /\ \A a \in Admin : on'[a] # p
        BY DEF RaceInv
    <2> DEFINE Goal == /\ decisions'[p] \in {0, 1}
                       /\ decisions'[p] = 1 => /\ status'[p] \in {"ACCEPTED", "REJECTED"}
                                               /\ \A a \in Admin : on'[a] # p
    <2>1. p \notin raced
        BY DEF Next, ReviewStep, vars, Propose, OpenReview, ReadOutgoing, Publish, Decided,
               Reject, RollBack, Determine, Tick
    <2>2. /\ decisions[p] \in {0, 1}
          /\ decisions[p] = 1 => /\ status[p] \in {"ACCEPTED", "REJECTED"}
                                 /\ \A a \in Admin : on[a] # p
        BY <2>1 DEF RaceInv
    <2> USE DEF Inv, TypeOK
    <2>3. ASSUME NEW a \in Admin, NEW q \in Proposal, q = on[a], Decided(a, q), Idle(a),
                 status'[q] \in {"ACCEPTED", "REJECTED"},
                 \A r \in Proposal : r # q => status'[r] = status[r]
          PROVE  Goal
        <3>1. CASE q = p
            <4>0. decisions[p] = 0
                BY <2>2, <2>3, <3>1
            <4>1. decisions'[p] = 1
                BY <2>3, <3>1, <4>0 DEF Decided
            <4>2. \A b \in Admin \ {a} : on[b] # p
                BY <2>3, <3>1 DEF Decided
            <4>3. \A b \in Admin : on'[b] # p
                BY <2>3, <4>2 DEF Idle
            <4> QED BY <2>3, <3>1, <4>1, <4>3
        <3>2. CASE q # p
            BY <2>2, <2>3, <3>2 DEF Decided, Idle
        <3> QED BY <3>1, <3>2
    <2>4. ASSUME NEW a \in Admin, NEW n \in SetId, Publish(a, n) PROVE Goal
        <3>1. on[a] \in Proposal
            BY <2>4, PublishFacts
        <3> QED BY <2>3, <2>4, <3>1 DEF Publish
    <2>5. ASSUME NEW a \in Admin, Reject(a) PROVE Goal
        <3>1. on[a] \in Proposal
            BY <2>5 DEF Reject, ReviewInv
        <3> QED BY <2>3, <2>5, <3>1 DEF Reject
    <2>6. ASSUME NEW a \in Admin, NEW q \in Proposal, NEW step \in {"accepting", "rejecting"},
                 OpenReview(a, q, step)
          PROVE  Goal
        BY <2>2, <2>6 DEF OpenReview
    <2>7. ASSUME NEW a \in Admin, NEW d \in Date, ReadOutgoing(a, d) PROVE Goal
        BY <2>2, <2>7 DEF ReadOutgoing
    <2>8. ASSUME NEW a \in Admin, RollBack(a) PROVE Goal
        BY <2>2, <2>8 DEF RollBack, Idle
    <2>9. ASSUME NEW q \in Proposal, NEW s \in SetId, Propose(q, s) PROVE Goal
        BY <2>2, <2>9 DEF Propose
    <2>10. ASSUME NEW d \in Date, NEW s \in SetId, Determine(d, s) PROVE Goal
        BY <2>2, <2>10 DEF Determine
    <2>11. CASE Tick
        BY <2>2, <2>11 DEF Tick
    <2>12. CASE UNCHANGED vars
        BY <2>2, <2>12 DEF vars
    <2> QED BY <2>4, <2>5, <2>6, <2>7, <2>8, <2>9, <2>10, <2>11, <2>12 DEF Next, ReviewStep
<1>3. RaceInv => DecidedTwiceOnlyIfRaced
    BY DEF RaceInv, DecidedTwiceOnlyIfRaced
<1> QED BY InitInv, StepInv, <1>1, <1>2, <1>3, PTL DEF Spec

=============================================================================
