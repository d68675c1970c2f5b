-------------------------- MODULE WorkQueue_proofs --------------------------
(***************************************************************************)
(* Proofs about WorkQueue for any number of workers and messages.          *)
(***************************************************************************)
EXTENDS WorkQueue, FiniteSetTheorems, TLAPS

\* Workers inside the handler for m.
Handling(m) == {w \in Worker : pc[w] = "handling" /\ msg[w] = m}

\* Workers holding a delivery of m that archives it if the handler raises.
AtLimit(m) == {w \in Worker : msg[w] = m /\ receipt[w] >= MaxDeliveryAttempts}

\* A worker holds a message exactly while it is inside poll_once.
HeldInv ==
    \A w \in Worker :
        /\ msg[w] = None <=> pc[w] \in {"idle", "down"}
        /\ msg[w] # None => place[msg[w]] # "unsent" /\ receipt[w] <= count[msg[w]]

\* NoLoss, and what a worker about to delete or archive already knows.
LossInv ==
    /\ NoLoss
    /\ \A w \in Worker :
        /\ pc[w] = "persisted" => effects[msg[w]] > 0
        /\ pc[w] = "archiving" => /\ failures[msg[w]] > 0
                                  /\ count[msg[w]] >= MaxDeliveryAttempts

\* A message never overtaken by its timeout has one holder at most, stays
\* out of sight while held, and once its effect is committed is either out
\* of the queue or in the hands of the worker about to delete it.
Sole(m) ==
    /\ \A v, w \in Worker : msg[v] = m /\ msg[w] = m => v = w
    /\ \A w \in Worker : msg[w] = m => hidden[m] \/ place[m] # "queued"
    /\ effects[m] \in {0, 1}
    /\ effects[m] = 1 => \/ place[m] \in {"deleted", "archived"}
                         \/ \E w \in Worker : msg[w] = m /\ pc[w] = "persisted"
    /\ \A w \in Worker :
        msg[w] = m /\ pc[w] \in {"handling", "archiving"} => effects[m] = 0

SoleInv == \A m \in Message \ overdue : Sole(m)

\* Deliveries, counted by how they ended.
AccountInv ==
    \A m \in Message :
        /\ effects[m] + failures[m] + Cardinality(Handling(m)) <= count[m]
        /\ count[m] <= effects[m] + failures[m] + Cardinality(Handling(m)) + crashes

\* While m is queued each delivery at or past the limit is still held or
\* died in a crash.
LimitInv ==
    /\ DeliveriesBounded
    /\ \A m \in Message :
        /\ place[m] = "unsent" => count[m] = 0
        /\ place[m] = "queued" =>
            count[m] < MaxDeliveryAttempts + Cardinality(AtLimit(m)) + crashes

-----------------------------------------------------------------------------
(* Type correctness                                                        *)

LEMMA InitTypeOK == Init => TypeOK
BY QueueAssumption, LimitAssumption DEF Init, TypeOK, Place, PC

\* A worker in poll_once has a message of its own to work on.
LEMMA HeldMessage ==
    ASSUME TypeOK, HeldInv, NEW w \in Worker, pc[w] \notin {"idle", "down"}
    PROVE  msg[w] \in Message
BY DEF TypeOK, HeldInv

LEMMA StepTypeOK == TypeOK /\ HeldInv /\ [Next]_vars => TypeOK'
<1> SUFFICES ASSUME TypeOK, HeldInv, [Next]_vars
             PROVE  TypeOK'
    OBVIOUS
<1> USE QueueAssumption, LimitAssumption
    DEF TypeOK, Place, PC, queueVars, workerVars, history
<1>1. ASSUME NEW m \in Message, Send(m) PROVE TypeOK'
    BY <1>1 DEF Send
<1>2. ASSUME NEW m \in Message, Reappear(m) PROVE TypeOK'
    BY <1>2 DEF Reappear
<1>3. ASSUME NEW w \in Worker, NEW m \in Message, Read(w, m) PROVE TypeOK'
    BY <1>3 DEF Read, NextTurn
<1>4. ASSUME NEW w \in Worker, ReadNothing(w) PROVE TypeOK'
    BY <1>4 DEF ReadNothing, NextTurn
<1>5. ASSUME NEW w \in Worker, Persist(w) PROVE TypeOK'
    <2>1. msg[w] \in Message
        BY <1>5, HeldMessage DEF Persist
    <2> QED BY <1>5, <2>1 DEF Persist
<1>6. ASSUME NEW w \in Worker, Delete(w) PROVE TypeOK'
    <2>1. msg[w] \in Message
        BY <1>6, HeldMessage DEF Delete
    <2> QED BY <1>6, <2>1 DEF Delete, LetGo
<1>7. ASSUME NEW w \in Worker, FailAndLeave(w) PROVE TypeOK'
    <2>1. msg[w] \in Message
        BY <1>7, HeldMessage DEF FailAndLeave
    <2> QED BY <1>7, <2>1 DEF FailAndLeave, LetGo
<1>8. ASSUME NEW w \in Worker, FailForGood(w) PROVE TypeOK'
    <2>1. msg[w] \in Message
        BY <1>8, HeldMessage DEF FailForGood
    <2> QED BY <1>8, <2>1 DEF FailForGood
<1>9. ASSUME NEW w \in Worker, Archive(w) PROVE TypeOK'
    <2>1. msg[w] \in Message
        BY <1>9, HeldMessage DEF Archive
    <2> QED BY <1>9, <2>1 DEF Archive, LetGo
<1>10. ASSUME NEW w \in Worker, Crash(w) PROVE TypeOK'
    BY <1>10, HeldMessage DEF Crash
<1>11. ASSUME NEW w \in Worker, Restart(w) PROVE TypeOK'
    BY <1>11 DEF Restart
<1>12. CASE UNCHANGED vars
    BY <1>12 DEF vars
<1> QED
    BY <1>1, <1>2, <1>3, <1>4, <1>5, <1>6, <1>7, <1>8, <1>9, <1>10, <1>11, <1>12
    DEF Next, PollStep, HandlerStep, FinishStep

LEMMA InitHeldInv == Init => HeldInv
BY DEF Init, HeldInv

LEMMA StepHeldInv == TypeOK /\ HeldInv /\ [Next]_vars => HeldInv'
<1> SUFFICES ASSUME TypeOK, HeldInv, [Next]_vars
             PROVE  HeldInv'
    OBVIOUS
<1> USE MessageAssumption
    DEF TypeOK, Place, PC, queueVars, workerVars, history, HeldInv
<1>1. ASSUME NEW m \in Message, Send(m) PROVE HeldInv'
    BY <1>1 DEF Send
<1>2. ASSUME NEW m \in Message, Reappear(m) PROVE HeldInv'
    BY <1>2 DEF Reappear
<1>3. ASSUME NEW w \in Worker, NEW m \in Message, Read(w, m) PROVE HeldInv'
    <2>1. place[m] = "queued" /\ m # None
        BY <1>3 DEF Read, Visible
    <2>2. \A v \in Worker \ {w} : pc'[v] = pc[v] /\ msg'[v] = msg[v] /\ receipt'[v] = receipt[v]
        BY <1>3 DEF Read
    <2>3. pc'[w] = "handling" /\ msg'[w] = m /\ receipt'[w] = count[m] + 1
        BY <1>3 DEF Read
    <2>4. place' = place /\ \A n \in Message : count[n] <= count'[n]
        BY <1>3 DEF Read
    <2>5. count'[m] = count[m] + 1 /\ count' \in [Message -> Nat]
        BY <1>3 DEF Read
    <2>6. SUFFICES ASSUME NEW v \in Worker
                   PROVE  /\ msg'[v] = None <=> pc'[v] \in {"idle", "down"}
                          /\ msg'[v] # None => /\ place'[msg'[v]] # "unsent"
                                              /\ receipt'[v] <= count'[msg'[v]]
        OBVIOUS
    <2>7. CASE v = w
        BY <2>1, <2>3, <2>4, <2>5, <2>7
    <2>8. CASE v # w
        <3>1. pc'[v] = pc[v] /\ msg'[v] = msg[v] /\ receipt'[v] = receipt[v]
            BY <2>2, <2>8
        <3>2. CASE msg[v] # None
            <4>1. msg[v] \in Message /\ receipt[v] <= count[msg[v]]
                BY <3>2
            <4>2. count[msg[v]] <= count'[msg[v]]
                BY <2>4, <4>1
            <4>3. /\ receipt[v] \in Nat
                  /\ count[msg[v]] \in Nat
                  /\ count'[msg[v]] \in Nat
                BY <2>5, <4>1
            <4> QED BY <2>4, <3>1, <3>2, <4>1, <4>2, <4>3
        <3> QED BY <3>1, <3>2
    <2> QED BY <2>7, <2>8
<1>4. ASSUME NEW w \in Worker, ReadNothing(w) PROVE HeldInv'
    BY <1>4 DEF ReadNothing
<1>5. ASSUME NEW w \in Worker, Persist(w) PROVE HeldInv'
    BY <1>5 DEF Persist
<1>6. ASSUME NEW w \in Worker, Delete(w) PROVE HeldInv'
    BY <1>6 DEF Delete, LetGo
<1>7. ASSUME NEW w \in Worker, FailAndLeave(w) PROVE HeldInv'
    BY <1>7 DEF FailAndLeave, LetGo
<1>8. ASSUME NEW w \in Worker, FailForGood(w) PROVE HeldInv'
    BY <1>8 DEF FailForGood
<1>9. ASSUME NEW w \in Worker, Archive(w) PROVE HeldInv'
    BY <1>9 DEF Archive, LetGo
<1>10. ASSUME NEW w \in Worker, Crash(w) PROVE HeldInv'
    BY <1>10 DEF Crash
<1>11. ASSUME NEW w \in Worker, Restart(w) PROVE HeldInv'
    BY <1>11 DEF Restart
<1>12. CASE UNCHANGED vars
    BY <1>12 DEF vars
<1> QED
    BY <1>1, <1>2, <1>3, <1>4, <1>5, <1>6, <1>7, <1>8, <1>9, <1>10, <1>11, <1>12
    DEF Next, PollStep, HandlerStep, FinishStep

\* Every variable keeps its type.
THEOREM TypeCorrect == Spec => []TypeOK
<1>1. Init => TypeOK /\ HeldInv
    BY InitTypeOK, InitHeldInv
<1>2. TypeOK /\ HeldInv /\ [Next]_vars => (TypeOK /\ HeldInv)'
    BY StepTypeOK, StepHeldInv
<1> QED BY <1>1, <1>2, PTL DEF Spec

-----------------------------------------------------------------------------
(* Nothing is lost                                                         *)

LEMMA InitLossInv == Init => LossInv
BY DEF Init, LossInv, NoLoss

LEMMA StepLossInv == TypeOK /\ HeldInv /\ LossInv /\ [Next]_vars => LossInv'
<1> SUFFICES ASSUME TypeOK, HeldInv, LossInv, [Next]_vars
             PROVE  LossInv'
    OBVIOUS
<1> USE LimitAssumption
    DEF TypeOK, Place, PC, queueVars, workerVars, history, LossInv, NoLoss
<1>1. ASSUME NEW m \in Message, Send(m) PROVE LossInv'
    BY <1>1 DEF Send
<1>2. ASSUME NEW m \in Message, Reappear(m) PROVE LossInv'
    BY <1>2 DEF Reappear
<1>3. ASSUME NEW w \in Worker, NEW m \in Message, Read(w, m) PROVE LossInv'
    <2>1. /\ \A n \in Message : count'[n] \in Nat /\ count[n] <= count'[n]
          /\ UNCHANGED <<place, effects, failures>>
        BY <1>3 DEF Read
    <2>2. \A v \in Worker : pc'[v] # "handling" => pc'[v] = pc[v] /\ msg'[v] = msg[v]
        BY <1>3 DEF Read
    <2>3. \A v \in Worker : pc[v] \in {"persisted", "archiving"} => msg[v] \in Message
        BY HeldMessage
    <2>4. NoLoss'
        BY <2>1
    <2>5. \A v \in Worker : pc'[v] = "persisted" => effects'[msg'[v]] > 0
        BY <2>1, <2>2
    <2>6. ASSUME NEW v \in Worker, pc'[v] = "archiving"
          PROVE  failures'[msg'[v]] > 0 /\ count'[msg'[v]] >= MaxDeliveryAttempts
        <3>1. /\ msg[v] \in Message /\ msg'[v] = msg[v] /\ failures[msg[v]] > 0
              /\ count[msg[v]] >= MaxDeliveryAttempts
            BY <2>2, <2>3, <2>6
        <3>2. count[msg[v]] <= count'[msg[v]] /\ count'[msg[v]] \in Nat /\ count[msg[v]] \in Nat
            BY <2>1, <3>1
        <3> QED BY <2>1, <3>1, <3>2
    <2> QED BY <2>4, <2>5, <2>6
<1>4. ASSUME NEW w \in Worker, ReadNothing(w) PROVE LossInv'
    BY <1>4 DEF ReadNothing
<1>5. ASSUME NEW w \in Worker, Persist(w) PROVE LossInv'
    <2>1. msg[w] \in Message
        BY <1>5, HeldMessage DEF Persist
    <2>2. \A m \in Message : effects'[m] \in Nat /\ effects[m] <= effects'[m]
        BY <1>5, <2>1 DEF Persist
    <2>3. effects'[msg[w]] > 0
        BY <1>5, <2>1 DEF Persist
    <2>4. \A v \in Worker : v # w => pc'[v] = pc[v]
        BY <1>5 DEF Persist
    <2>5. \A v \in Worker : pc[v] = "persisted" => msg[v] \in Message
        BY HeldMessage
    <2>6. NoLoss'
        BY <1>5, <2>2 DEF Persist
    <2>7. \A v \in Worker : pc'[v] = "persisted" => effects'[msg'[v]] > 0
        BY <1>5, <2>2, <2>3, <2>4, <2>5 DEF Persist
    <2> QED BY <1>5, <2>6, <2>7 DEF Persist
<1>6. ASSUME NEW w \in Worker, Delete(w) PROVE LossInv'
    BY <1>6, HeldMessage DEF Delete, LetGo
<1>7. ASSUME NEW w \in Worker, FailAndLeave(w) PROVE LossInv'
    <2>1. msg[w] \in Message
        BY <1>7, HeldMessage DEF FailAndLeave
    <2>2. \A m \in Message : failures'[m] \in Nat /\ failures[m] <= failures'[m]
        BY <1>7, <2>1 DEF FailAndLeave
    <2>3. \A v \in Worker : pc'[v] \in {"persisted", "archiving"} =>
                pc'[v] = pc[v] /\ msg'[v] = msg[v] /\ msg[v] \in Message
        BY <1>7, HeldMessage DEF FailAndLeave, LetGo
    <2>4. UNCHANGED <<place, count, effects>>
        BY <1>7 DEF FailAndLeave
    <2> QED BY <2>2, <2>3, <2>4
<1>8. ASSUME NEW w \in Worker, FailForGood(w) PROVE LossInv'
    <2>1. msg[w] \in Message /\ receipt[w] <= count[msg[w]]
        BY <1>8, HeldMessage, MessageAssumption DEF FailForGood, HeldInv
    <2>2. \A m \in Message : failures'[m] \in Nat /\ failures[m] <= failures'[m]
        BY <1>8, <2>1 DEF FailForGood
    <2>3. failures'[msg[w]] > 0 /\ count[msg[w]] >= MaxDeliveryAttempts
        BY <1>8, <2>1 DEF FailForGood
    <2>4. \A v \in Worker : v # w => pc'[v] = pc[v]
        BY <1>8 DEF FailForGood
    <2>5. \A v \in Worker : pc[v] \in {"persisted", "archiving"} => msg[v] \in Message
        BY HeldMessage
    <2>6. UNCHANGED <<place, count, effects, msg>> /\ pc'[w] = "archiving"
        BY <1>8 DEF FailForGood
    <2> QED BY <2>1, <2>2, <2>3, <2>4, <2>5, <2>6
<1>9. ASSUME NEW w \in Worker, Archive(w) PROVE LossInv'
    BY <1>9, HeldMessage DEF Archive, LetGo
<1>10. ASSUME NEW w \in Worker, Crash(w) PROVE LossInv'
    BY <1>10 DEF Crash
<1>11. ASSUME NEW w \in Worker, Restart(w) PROVE LossInv'
    BY <1>11 DEF Restart
<1>12. CASE UNCHANGED vars
    BY <1>12 DEF vars
<1> QED
    BY <1>1, <1>2, <1>3, <1>4, <1>5, <1>6, <1>7, <1>8, <1>9, <1>10, <1>11, <1>12
    DEF Next, PollStep, HandlerStep, FinishStep

\* A message that left its queue for good took effect, or failed and was
\* delivered as often as the limit says.
THEOREM NothingLost == Spec => []NoLoss
<1>1. Init => TypeOK /\ HeldInv /\ LossInv
    BY InitTypeOK, InitHeldInv, InitLossInv
<1>2. TypeOK /\ HeldInv /\ LossInv /\ [Next]_vars => (TypeOK /\ HeldInv /\ LossInv)'
    BY StepTypeOK, StepHeldInv, StepLossInv
<1>3. LossInv => NoLoss
    BY DEF LossInv
<1> QED BY <1>1, <1>2, <1>3, PTL DEF Spec

-----------------------------------------------------------------------------
(* Duplicates                                                              *)

LEMMA InitSoleInv == Init => SoleInv
BY MessageAssumption DEF Init, SoleInv, Sole

LEMMA StepSoleInv == TypeOK /\ HeldInv /\ SoleInv /\ [Next]_vars => SoleInv'
<1> SUFFICES ASSUME TypeOK, HeldInv, SoleInv, [Next]_vars,
                    NEW m \in Message, m \notin overdue'
             PROVE  Sole(m)'
    BY DEF SoleInv, TypeOK
<1>0. overdue \subseteq overdue'
    BY DEF Next, vars, PollStep, HandlerStep, FinishStep, queueVars, workerVars, history,
           Send, Reappear, Read, ReadNothing, Persist, Delete, FailAndLeave, FailForGood,
           Archive, Crash, Restart
<1>00. Sole(m) /\ m # None
    BY <1>0, MessageAssumption DEF SoleInv
<1> USE <1>00 DEF TypeOK, Place, PC, queueVars, workerVars, history, Sole
<1>1. ASSUME NEW n \in Message, Send(n) PROVE Sole(m)'
    BY <1>1 DEF Send, HeldInv
<1>2. ASSUME NEW n \in Message, Reappear(n) PROVE Sole(m)'
    <2>1. CASE n = m
        <3>1. \A w \in Worker : msg[w] # m
            BY <1>2, <2>1 DEF Reappear, Holders
        <3> QED BY <1>2, <2>1, <3>1 DEF Reappear
    <2>2. CASE n # m
        BY <1>2, <2>2 DEF Reappear
    <2> QED BY <2>1, <2>2
<1>3. ASSUME NEW w \in Worker, NEW n \in Message, Read(w, n) PROVE Sole(m)'
    <2>1. place[n] = "queued" /\ ~hidden[n] /\ msg[w] = None
        BY <1>3 DEF Read, Visible, HeldInv
    <2>2. CASE n = m
        <3>1. \A v \in Worker : msg[v] # m
            BY <2>1, <2>2
        <3>2. effects[m] = 0
            BY <2>1, <2>2, <3>1
        <3> QED BY <1>3, <2>1, <2>2, <3>1, <3>2 DEF Read
    <2>3. CASE n # m
        BY <1>3, <2>1, <2>3 DEF Read
    <2> QED BY <2>2, <2>3
<1>4. ASSUME NEW w \in Worker, ReadNothing(w) PROVE Sole(m)'
    BY <1>4 DEF ReadNothing
<1>5. ASSUME NEW w \in Worker, Persist(w) PROVE Sole(m)'
    <2>1. CASE msg[w] = m
        <3>1. effects[m] = 0 /\ effects'[m] = 1 /\ pc'[w] = "persisted"
            BY <1>5, <2>1 DEF Persist
        <3>2. \A v \in Worker : msg[v] = m => v = w
            BY <2>1
        <3> QED BY <1>5, <2>1, <3>1, <3>2 DEF Persist
    <2>2. CASE msg[w] # m
        BY <1>5, <2>2 DEF Persist
    <2> QED BY <2>1, <2>2
<1>6. ASSUME NEW w \in Worker, Delete(w) PROVE Sole(m)'
    <2>0. msg[w] \in Message
        BY <1>6, HeldMessage DEF Delete
    <2>1. CASE msg[w] = m
        <3>1. /\ place'[m] \in {"deleted", "archived"}
              /\ \A v \in Worker : msg'[v] # m
            BY <1>6, <2>1 DEF Delete, LetGo, HeldInv
        <3> QED BY <1>6, <2>1, <3>1 DEF Delete
    <2>2. CASE msg[w] # m
        BY <1>6, <2>0, <2>2 DEF Delete, LetGo
    <2> QED BY <2>1, <2>2
<1>7. ASSUME NEW w \in Worker, FailAndLeave(w) PROVE Sole(m)'
    BY <1>7 DEF FailAndLeave, LetGo
<1>8. ASSUME NEW w \in Worker, FailForGood(w) PROVE Sole(m)'
    BY <1>8 DEF FailForGood
<1>9. ASSUME NEW w \in Worker, Archive(w) PROVE Sole(m)'
    <2>0. msg[w] \in Message
        BY <1>9, HeldMessage DEF Archive
    <2>1. CASE msg[w] = m
        <3>1. /\ place'[m] \in {"deleted", "archived"}
              /\ \A v \in Worker : msg'[v] # m
            BY <1>9, <2>1 DEF Archive, LetGo, HeldInv
        <3> QED BY <1>9, <2>1, <3>1 DEF Archive
    <2>2. CASE msg[w] # m
        BY <1>9, <2>0, <2>2 DEF Archive, LetGo
    <2> QED BY <2>1, <2>2
<1>10. ASSUME NEW w \in Worker, Crash(w) PROVE Sole(m)'
    <2>1. UNCHANGED <<place, hidden, effects>>
        BY <1>10 DEF Crash
    <2>2. \A v \in Worker : msg'[v] = m => v # w /\ msg[v] = m /\ pc'[v] = pc[v]
        BY <1>10 DEF Crash
    <2>3. msg[w] = m => pc[w] # "persisted"
        BY <1>10 DEF Crash
    <2>4. \A v \in Worker : v # w => msg'[v] = msg[v] /\ pc'[v] = pc[v]
        BY <1>10 DEF Crash
    <2> QED BY <2>1, <2>2, <2>3, <2>4
<1>11. ASSUME NEW w \in Worker, Restart(w) PROVE Sole(m)'
    BY <1>11 DEF Restart, HeldInv
<1>12. CASE UNCHANGED vars
    BY <1>12 DEF vars
<1> QED
    BY <1>1, <1>2, <1>3, <1>4, <1>5, <1>6, <1>7, <1>8, <1>9, <1>10, <1>11, <1>12
    DEF Next, PollStep, HandlerStep, FinishStep

\* Redelivery duplicates an effect only past a timeout that overtook a
\* handler or a death between commit and delete.
THEOREM DuplicatesExplained == Spec => []DuplicateOnlyIfOverdue
<1>1. Init => TypeOK /\ HeldInv /\ SoleInv
    BY InitTypeOK, InitHeldInv, InitSoleInv
<1>2. TypeOK /\ HeldInv /\ SoleInv /\ [Next]_vars => (TypeOK /\ HeldInv /\ SoleInv)'
    BY StepTypeOK, StepHeldInv, StepSoleInv
<1>3. SoleInv => DuplicateOnlyIfOverdue
    BY DEF SoleInv, Sole, DuplicateOnlyIfOverdue
<1> QED BY <1>1, <1>2, <1>3, PTL DEF Spec

-----------------------------------------------------------------------------
(* Deliveries, counted                                                     *)

LEMMA WorkersFinite ==
    ASSUME NEW m
    PROVE  /\ IsFiniteSet(Handling(m)) /\ Cardinality(Handling(m)) \in Nat
           /\ IsFiniteSet(AtLimit(m))  /\ Cardinality(AtLimit(m)) \in Nat
           /\ IsFiniteSet(Holders(m))  /\ Cardinality(Holders(m)) \in Nat
           /\ Cardinality(AtLimit(m)) <= Cardinality(Worker)
           /\ Cardinality(Handling(m)) <= Cardinality(Holders(m))
           /\ Cardinality(Worker) \in Nat
<1>1. /\ Handling(m) \subseteq Holders(m)
      /\ AtLimit(m) \subseteq Worker
      /\ Holders(m) \subseteq Worker
    BY DEF Handling, AtLimit, Holders
<1>2. IsFiniteSet(Worker)
    BY WorkerAssumption
<1>3. IsFiniteSet(Holders(m)) /\ IsFiniteSet(AtLimit(m))
      /\ Cardinality(AtLimit(m)) <= Cardinality(Worker)
    BY <1>1, <1>2, FS_Subset
<1>4. IsFiniteSet(Handling(m)) /\ Cardinality(Handling(m)) <= Cardinality(Holders(m))
    BY <1>1, <1>3, FS_Subset
<1> QED BY <1>2, <1>3, <1>4, FS_CardinalityType

\* The same sets one step later.
LEMMA WorkersFiniteNext ==
    ASSUME NEW m
    PROVE  /\ IsFiniteSet(Handling(m)') /\ Cardinality(Handling(m)') \in Nat
           /\ IsFiniteSet(AtLimit(m)')  /\ Cardinality(AtLimit(m)') \in Nat
           /\ Cardinality(AtLimit(m)') <= Cardinality(Worker)
<1>1. Handling(m)' \subseteq Worker /\ AtLimit(m)' \subseteq Worker
    BY DEF Handling, AtLimit
<1> QED BY <1>1, WorkerAssumption, FS_Subset, FS_CardinalityType

\* How a step changes the deliveries of m under way and the counters.
Same(m) ==
    /\ Handling(m)' = Handling(m)
    /\ count'[m] = count[m] /\ effects'[m] = effects[m] /\ failures'[m] = failures[m]
    /\ crashes' \in Nat /\ crashes' >= crashes
Starts(m, w) ==
    /\ w \notin Handling(m) /\ Handling(m)' = Handling(m) \cup {w}
    /\ count'[m] = count[m] + 1 /\ effects'[m] = effects[m] /\ failures'[m] = failures[m]
    /\ crashes' = crashes
Ends(m, w) ==
    /\ w \in Handling(m) /\ Handling(m)' = Handling(m) \ {w}
    /\ count'[m] = count[m]
    /\ effects'[m] + failures'[m] = effects[m] + failures[m] + 1
    /\ crashes' = crashes
Dies(m, w) ==
    /\ w \in Handling(m) /\ Handling(m)' = Handling(m) \ {w}
    /\ count'[m] = count[m] /\ effects'[m] = effects[m] /\ failures'[m] = failures[m]
    /\ crashes' = crashes + 1

LEMMA DeliverySteps ==
    ASSUME TypeOK, HeldInv, [Next]_vars, NEW m \in Message
    PROVE  Same(m) \/ \E w \in Worker : Starts(m, w) \/ Ends(m, w) \/ Dies(m, w)
<1> DEFINE Goal == Same(m) \/ \E w \in Worker : Starts(m, w) \/ Ends(m, w) \/ Dies(m, w)
<1> USE DEF TypeOK, Place, PC, queueVars, workerVars, history, Handling
<1>1. ASSUME NEW n \in Message, Send(n) PROVE Goal
    BY <1>1 DEF Send, Same
<1>2. ASSUME NEW n \in Message, Reappear(n) PROVE Goal
    BY <1>2 DEF Reappear, Same
<1>3. ASSUME NEW w \in Worker, NEW n \in Message, Read(w, n) PROVE Goal
    <2>1. CASE n = m
        <3>1. Starts(m, w)
            BY <1>3, <2>1 DEF Read, Starts
        <3> QED BY <3>1
    <2>2. CASE n # m
        BY <1>3, <2>2 DEF Read, Same
    <2> QED BY <2>1, <2>2
<1>4. ASSUME NEW w \in Worker, ReadNothing(w) PROVE Goal
    BY <1>4 DEF ReadNothing, Same
<1>5. ASSUME NEW w \in Worker, Persist(w) PROVE Goal
    <2>1. CASE msg[w] = m
        <3>1. Ends(m, w)
            BY <1>5, <2>1 DEF Persist, Ends
        <3> QED BY <3>1
    <2>2. CASE msg[w] # m
        BY <1>5, <2>2 DEF Persist, Same
    <2> QED BY <2>1, <2>2
<1>6. ASSUME NEW w \in Worker, Delete(w) PROVE Goal
    BY <1>6 DEF Delete, LetGo, Same
<1>7. ASSUME NEW w \in Worker, FailAndLeave(w) PROVE Goal
    <2>1. CASE msg[w] = m
        <3>1. w \in Handling(m) /\ Handling(m)' = Handling(m) \ {w}
            BY <1>7, <2>1, MessageAssumption DEF FailAndLeave, LetGo
        <3>2. failures'[m] = failures[m] + 1 /\ UNCHANGED <<count, effects, crashes>>
            BY <1>7, <2>1 DEF FailAndLeave
        <3>3. effects[m] \in Nat /\ failures[m] \in Nat
            OBVIOUS
        <3>4. effects'[m] + failures'[m] = effects[m] + failures[m] + 1
            BY <3>2, <3>3
        <3>5. Ends(m, w)
            BY <3>1, <3>2, <3>4 DEF Ends
        <3> QED BY <3>5
    <2>2. CASE msg[w] # m
        BY <1>7, <2>2, MessageAssumption DEF FailAndLeave, LetGo, Same
    <2> QED BY <2>1, <2>2
<1>8. ASSUME NEW w \in Worker, FailForGood(w) PROVE Goal
    <2>1. CASE msg[w] = m
        <3>1. w \in Handling(m) /\ Handling(m)' = Handling(m) \ {w}
            BY <1>8, <2>1, MessageAssumption DEF FailForGood
        <3>2. failures'[m] = failures[m] + 1 /\ UNCHANGED <<count, effects, crashes>>
            BY <1>8, <2>1 DEF FailForGood
        <3>3. effects[m] \in Nat /\ failures[m] \in Nat
            OBVIOUS
        <3>4. effects'[m] + failures'[m] = effects[m] + failures[m] + 1
            BY <3>2, <3>3
        <3>5. Ends(m, w)
            BY <3>1, <3>2, <3>4 DEF Ends
        <3> QED BY <3>5
    <2>2. CASE msg[w] # m
        BY <1>8, <2>2 DEF FailForGood, Same
    <2> QED BY <2>1, <2>2
<1>9. ASSUME NEW w \in Worker, Archive(w) PROVE Goal
    BY <1>9 DEF Archive, LetGo, Same
<1>10. ASSUME NEW w \in Worker, Crash(w) PROVE Goal
    <2>1. CASE w \in Handling(m)
        <3>1. Dies(m, w)
            BY <1>10, <2>1 DEF Crash, Dies
        <3> QED BY <3>1
    <2>2. CASE w \notin Handling(m)
        BY <1>10, <2>2 DEF Crash, Same
    <2> QED BY <2>1, <2>2
<1>11. ASSUME NEW w \in Worker, Restart(w) PROVE Goal
    BY <1>11 DEF Restart, Same
<1>12. CASE UNCHANGED vars
    BY <1>12 DEF vars, Same
<1> QED
    BY <1>1, <1>2, <1>3, <1>4, <1>5, <1>6, <1>7, <1>8, <1>9, <1>10, <1>11, <1>12
    DEF Next, PollStep, HandlerStep, FinishStep

LEMMA InitAccountInv == Init => AccountInv
<1> SUFFICES ASSUME Init, NEW m \in Message
             PROVE  Handling(m) = {}
    BY FS_EmptySet DEF Init, AccountInv
<1> QED BY DEF Init, Handling

LEMMA StepAccountInv ==
    TypeOK /\ TypeOK' /\ HeldInv /\ AccountInv /\ [Next]_vars => AccountInv'
<1> SUFFICES ASSUME TypeOK, TypeOK', HeldInv, AccountInv, [Next]_vars, NEW m \in Message
             PROVE  /\ effects'[m] + failures'[m] + Cardinality(Handling(m)') <= count'[m]
                    /\ count'[m] <= effects'[m] + failures'[m] + Cardinality(Handling(m)') + crashes'
    BY DEF AccountInv
<1>1. /\ effects[m] + failures[m] + Cardinality(Handling(m)) <= count[m]
      /\ count[m] <= effects[m] + failures[m] + Cardinality(Handling(m)) + crashes
    BY DEF AccountInv
<1>2. /\ count[m] \in Nat /\ effects[m] \in Nat /\ failures[m] \in Nat /\ crashes \in Nat
      /\ count'[m] \in Nat /\ effects'[m] \in Nat /\ failures'[m] \in Nat /\ crashes' \in Nat
    BY LimitAssumption DEF TypeOK
<1>3. IsFiniteSet(Handling(m)) /\ Cardinality(Handling(m)) \in Nat
    BY WorkersFinite
<1>4. CASE Same(m)
    BY <1>1, <1>2, <1>3, <1>4 DEF Same
<1>5. ASSUME NEW w \in Worker, Starts(m, w) \/ Ends(m, w) \/ Dies(m, w)
      PROVE  /\ effects'[m] + failures'[m] + Cardinality(Handling(m)') <= count'[m]
             /\ count'[m] <= effects'[m] + failures'[m] + Cardinality(Handling(m)') + crashes'
    <2>1. CASE Starts(m, w)
        <3>1. Cardinality(Handling(m)') = Cardinality(Handling(m)) + 1
            BY <1>3, <2>1, FS_AddElement DEF Starts
        <3> QED BY <1>1, <1>2, <1>3, <2>1, <3>1 DEF Starts
    <2>2. CASE Ends(m, w)
        <3>1. Cardinality(Handling(m)') = Cardinality(Handling(m)) - 1
            BY <1>3, <2>2, FS_RemoveElement DEF Ends
        <3> QED BY <1>1, <1>2, <1>3, <2>2, <3>1 DEF Ends
    <2>3. CASE Dies(m, w)
        <3>1. Cardinality(Handling(m)') = Cardinality(Handling(m)) - 1
            BY <1>3, <2>3, FS_RemoveElement DEF Dies
        <3> QED BY <1>1, <1>2, <1>3, <2>3, <3>1 DEF Dies
    <2> QED BY <1>5, <2>1, <2>2, <2>3
<1> QED BY <1>4, <1>5, DeliverySteps

\* Every delivery ended in an effect or a failure, is in hand, or crashed.
THEOREM DeliveriesAddUp == Spec => []DeliveriesAccounted
<1>1. Init => TypeOK /\ HeldInv /\ AccountInv
    BY InitTypeOK, InitHeldInv, InitAccountInv
<1>2. TypeOK /\ HeldInv /\ AccountInv /\ [Next]_vars => (TypeOK /\ HeldInv /\ AccountInv)'
    BY StepTypeOK, StepHeldInv, StepAccountInv
<1>3. TypeOK /\ AccountInv => DeliveriesAccounted
    <2> SUFFICES ASSUME TypeOK, AccountInv, NEW m \in Message
                 PROVE  /\ effects[m] + failures[m] <= count[m]
                        /\ count[m] <= effects[m] + failures[m] + Cardinality(Holders(m)) + crashes
        BY DEF DeliveriesAccounted
    <2>1. effects[m] \in Nat /\ failures[m] \in Nat /\ count[m] \in Nat /\ crashes \in Nat
        BY LimitAssumption DEF TypeOK
    <2>2. /\ Cardinality(Handling(m)) \in Nat /\ Cardinality(Holders(m)) \in Nat
          /\ Cardinality(Handling(m)) <= Cardinality(Holders(m))
        BY WorkersFinite
    <2> QED BY <2>1, <2>2 DEF AccountInv
<1> QED BY <1>1, <1>2, <1>3, PTL DEF Spec

-----------------------------------------------------------------------------
(* Deliveries, bounded                                                     *)

LEMMA InitLimitInv == Init => LimitInv
<1> SUFFICES ASSUME Init
             PROVE  DeliveriesBounded
    BY DEF Init, LimitInv
<1> QED BY LimitAssumption, WorkersFinite DEF Init, DeliveriesBounded

\* What a step does to m's deliveries at the limit.
Calm(m) ==
    /\ place[m] # "queued" \/ AtLimit(m)' = AtLimit(m) \/ place'[m] # "queued"
    /\ place[m] = "unsent" \/ place'[m] = place[m] \/ place'[m] \notin {"unsent", "queued"}
    /\ count'[m] = count[m] /\ crashes' \in Nat /\ crashes' >= crashes
Reaches(m, w) ==
    /\ place'[m] = place[m] /\ place[m] = "queued"
    /\ count'[m] = count[m] + 1 /\ crashes' = crashes
    /\ \/ count'[m] < MaxDeliveryAttempts
       \/ w \notin AtLimit(m) /\ AtLimit(m)' = AtLimit(m) \cup {w}
Drops(m, w) ==
    /\ AtLimit(m)' = AtLimit(m) \ {w}
    /\ place'[m] = place[m] /\ count'[m] = count[m] /\ crashes' = crashes + 1

LEMMA LimitSteps ==
    ASSUME TypeOK, HeldInv, [Next]_vars, NEW m \in Message
    PROVE  Calm(m) \/ \E w \in Worker : Reaches(m, w) \/ Drops(m, w)
<1> DEFINE Goal == Calm(m) \/ \E w \in Worker : Reaches(m, w) \/ Drops(m, w)
<1>0. m # None /\ MaxDeliveryAttempts \in Nat /\ crashes \in Nat
    BY MessageAssumption, LimitAssumption DEF TypeOK
<1> USE <1>0 DEF TypeOK, Place, PC, queueVars, workerVars, history
<1>1. ASSUME NEW n \in Message, Send(n) PROVE Goal
    BY <1>1 DEF Send, Calm, AtLimit
<1>2. ASSUME NEW n \in Message, Reappear(n) PROVE Goal
    BY <1>2 DEF Reappear, Calm, AtLimit
<1>3. ASSUME NEW w \in Worker, NEW n \in Message, Read(w, n) PROVE Goal
    <2>0. place[n] = "queued" /\ msg[w] = None
        BY <1>3 DEF Read, Visible, HeldInv
    <2>1. CASE n = m
        <3>1. CASE count'[m] < MaxDeliveryAttempts
            <4>1. Reaches(m, w)
                BY <1>3, <2>0, <2>1, <3>1 DEF Read, Reaches
            <4> QED BY <4>1
        <3>2. CASE ~(count'[m] < MaxDeliveryAttempts)
            <4>1. count'[m] = count[m] + 1 /\ count[m] \in Nat
                BY <1>3, <2>1 DEF Read
            <4>2. receipt' = [receipt EXCEPT ![w] = count'[m]] /\ msg' = [msg EXCEPT ![w] = m]
                BY <1>3, <2>1, <4>1 DEF Read
            <4>3. count'[m] >= MaxDeliveryAttempts
                BY <3>2, <4>1
            <4>4. w \notin AtLimit(m) /\ AtLimit(m)' = AtLimit(m) \cup {w}
                BY <2>0, <4>2, <4>3 DEF AtLimit
            <4>5. Reaches(m, w)
                BY <1>3, <2>0, <2>1, <4>1, <4>4 DEF Read, Reaches
            <4> QED BY <4>5
        <3> QED BY <3>1, <3>2
    <2>2. CASE n # m
        BY <1>3, <2>0, <2>2 DEF Read, Calm, AtLimit
    <2> QED BY <2>1, <2>2
<1>4. ASSUME NEW w \in Worker, ReadNothing(w) PROVE Goal
    BY <1>4 DEF ReadNothing, Calm, AtLimit
<1>5. ASSUME NEW w \in Worker, Persist(w) PROVE Goal
    BY <1>5 DEF Persist, Calm, AtLimit
<1>6. ASSUME NEW w \in Worker, Delete(w) PROVE Goal
    <2>1. CASE msg[w] = m
        BY <1>6, <2>1 DEF Delete, LetGo, Calm, HeldInv
    <2>2. CASE msg[w] # m
        <3>1. AtLimit(m)' = AtLimit(m) /\ place'[m] = place[m]
            BY <1>6, <2>2, HeldMessage DEF Delete, LetGo, AtLimit
        <3> QED BY <1>6, <3>1 DEF Delete, Calm
    <2> QED BY <2>1, <2>2
<1>7. ASSUME NEW w \in Worker, FailAndLeave(w) PROVE Goal
    <2>1. AtLimit(m)' = AtLimit(m)
        BY <1>7 DEF FailAndLeave, LetGo, AtLimit
    <2> QED BY <1>7, <2>1 DEF FailAndLeave, Calm
<1>8. ASSUME NEW w \in Worker, FailForGood(w) PROVE Goal
    BY <1>8 DEF FailForGood, Calm, AtLimit
<1>9. ASSUME NEW w \in Worker, Archive(w) PROVE Goal
    <2>1. CASE msg[w] = m
        BY <1>9, <2>1 DEF Archive, LetGo, Calm, HeldInv
    <2>2. CASE msg[w] # m
        <3>1. AtLimit(m)' = AtLimit(m) /\ place'[m] = place[m]
            BY <1>9, <2>2, HeldMessage DEF Archive, LetGo, AtLimit
        <3> QED BY <1>9, <3>1 DEF Archive, Calm
    <2> QED BY <2>1, <2>2
<1>10. ASSUME NEW w \in Worker, Crash(w) PROVE Goal
    <2>1. AtLimit(m)' = AtLimit(m) \ {w}
        BY <1>10 DEF Crash, AtLimit
    <2>2. Drops(m, w)
        BY <1>10, <2>1 DEF Crash, Drops
    <2> QED BY <2>2
<1>11. ASSUME NEW w \in Worker, Restart(w) PROVE Goal
    BY <1>11 DEF Restart, Calm, AtLimit
<1>12. CASE UNCHANGED vars
    BY <1>12 DEF vars, Calm, AtLimit
<1> QED
    BY <1>1, <1>2, <1>3, <1>4, <1>5, <1>6, <1>7, <1>8, <1>9, <1>10, <1>11, <1>12
    DEF Next, PollStep, HandlerStep, FinishStep

LEMMA StepLimitInv ==
    TypeOK /\ TypeOK' /\ HeldInv /\ LimitInv /\ [Next]_vars => LimitInv'
<1> SUFFICES ASSUME TypeOK, TypeOK', HeldInv, LimitInv, [Next]_vars, NEW m \in Message
             PROVE  /\ count'[m] < MaxDeliveryAttempts + Cardinality(Worker) + crashes'
                    /\ place'[m] = "unsent" => count'[m] = 0
                    /\ place'[m] = "queued" =>
                        count'[m] < MaxDeliveryAttempts + Cardinality(AtLimit(m)') + crashes'
    BY DEF LimitInv, DeliveriesBounded
<1>1. /\ count[m] < MaxDeliveryAttempts + Cardinality(Worker) + crashes
      /\ place[m] = "unsent" => count[m] = 0
      /\ place[m] = "queued" =>
            count[m] < MaxDeliveryAttempts + Cardinality(AtLimit(m)) + crashes
    BY DEF LimitInv, DeliveriesBounded
<1>2. /\ count[m] \in Nat /\ crashes \in Nat /\ count'[m] \in Nat /\ crashes' \in Nat
      /\ MaxDeliveryAttempts \in Nat \ {0}
      /\ place[m] \in Place /\ place'[m] \in Place
    BY LimitAssumption DEF TypeOK
<1>3. /\ IsFiniteSet(AtLimit(m)) /\ Cardinality(AtLimit(m)) \in Nat
      /\ Cardinality(Worker) \in Nat
      /\ Cardinality(AtLimit(m)') \in Nat
      /\ Cardinality(AtLimit(m)') <= Cardinality(Worker)
    BY WorkersFinite, WorkersFiniteNext
<1>4. CASE Calm(m)
    <2>1. count'[m] = count[m] /\ crashes' >= crashes
        BY <1>4 DEF Calm
    <2>2. place'[m] = "unsent" => count'[m] = 0
        BY <1>1, <1>2, <1>4 DEF Calm, Place
    <2>3. ASSUME place'[m] = "queued"
          PROVE  count'[m] < MaxDeliveryAttempts + Cardinality(AtLimit(m)') + crashes'
        <3>1. CASE place[m] = "unsent"
            BY <1>1, <1>2, <1>3, <2>1, <3>1
        <3>2. CASE place[m] = "queued"
            <4>1. AtLimit(m)' = AtLimit(m)
                BY <1>4, <2>3, <3>2 DEF Calm
            <4>2. Cardinality(AtLimit(m)') = Cardinality(AtLimit(m))
                BY <4>1
            <4> QED BY <1>1, <1>2, <1>3, <2>1, <3>2, <4>2
        <3> QED BY <1>2, <1>4, <2>3, <3>1, <3>2 DEF Calm, Place
    <2> QED BY <1>1, <1>2, <1>3, <2>1, <2>2, <2>3
<1>5. ASSUME NEW w \in Worker, Reaches(m, w)
      PROVE  /\ count'[m] < MaxDeliveryAttempts + Cardinality(Worker) + crashes'
             /\ place'[m] = "unsent" => count'[m] = 0
             /\ place'[m] = "queued" =>
                 count'[m] < MaxDeliveryAttempts + Cardinality(AtLimit(m)') + crashes'
    <2>1. /\ place'[m] = "queued" /\ place[m] = "queued"
          /\ count'[m] = count[m] + 1 /\ crashes' = crashes
        BY <1>5 DEF Reaches
    <2>2. CASE count'[m] < MaxDeliveryAttempts
        BY <1>2, <1>3, <2>1, <2>2
    <2>3. CASE w \notin AtLimit(m) /\ AtLimit(m)' = AtLimit(m) \cup {w}
        <3>1. Cardinality(AtLimit(m)') = Cardinality(AtLimit(m)) + 1
            BY <1>3, <2>3, FS_AddElement
        <3> QED BY <1>1, <1>2, <1>3, <2>1, <3>1
    <2> QED BY <1>5, <2>2, <2>3 DEF Reaches
<1>6. ASSUME NEW w \in Worker, Drops(m, w)
      PROVE  /\ count'[m] < MaxDeliveryAttempts + Cardinality(Worker) + crashes'
             /\ place'[m] = "unsent" => count'[m] = 0
             /\ place'[m] = "queued" =>
                 count'[m] < MaxDeliveryAttempts + Cardinality(AtLimit(m)') + crashes'
    <2>1. Cardinality(AtLimit(m)') >= Cardinality(AtLimit(m)) - 1
        <3>1. Cardinality(AtLimit(m) \ {w}) >= Cardinality(AtLimit(m)) - 1
            <4>1. Cardinality(AtLimit(m) \ {w}) = IF w \in AtLimit(m)
                      THEN Cardinality(AtLimit(m)) - 1 ELSE Cardinality(AtLimit(m))
                BY <1>3, FS_RemoveElement
            <4> QED BY <1>3, <4>1
        <3> QED BY <1>6, <3>1 DEF Drops
    <2> QED BY <1>1, <1>2, <1>3, <1>6, <2>1 DEF Drops
<1> QED BY <1>4, <1>5, <1>6, LimitSteps

\* Deliveries never exceed the limit by more than the other workers and the
\* crashes account for.
THEOREM DeliveriesNeverRunAway == Spec => []DeliveriesBounded
<1>1. Init => TypeOK /\ HeldInv /\ LimitInv
    BY InitTypeOK, InitHeldInv, InitLimitInv
<1>2. TypeOK /\ HeldInv /\ LimitInv /\ [Next]_vars => (TypeOK /\ HeldInv /\ LimitInv)'
    BY StepTypeOK, StepHeldInv, StepLimitInv
<1>3. LimitInv => DeliveriesBounded
    BY DEF LimitInv
<1> QED BY <1>1, <1>2, <1>3, PTL DEF Spec

-----------------------------------------------------------------------------
(* WorkQueue implements Delivery, its fairness apart                       *)

LEMMA InitRefines == Init => Jobs!Init
BY DEF Init, Jobs!Init, jobState

LEMMA StepRefines ==
    TypeOK /\ HeldInv /\ LossInv /\ [Next]_vars => [Jobs!Next]_(Jobs!vars)
<1> SUFFICES ASSUME TypeOK, HeldInv, LossInv, [Next]_vars
             PROVE  [Jobs!Next]_(Jobs!vars)
    OBVIOUS
<1> DEFINE Stutter == UNCHANGED Jobs!vars
<1>a. ASSUME UNCHANGED <<place, effects>> PROVE Stutter
    BY <1>a DEF Jobs!vars, jobState
<1> USE DEF TypeOK, queueVars, workerVars, history
<1>1. ASSUME NEW m \in Message, Send(m) PROVE Jobs!Submit(m)
    <2>1. jobState[m] = "unsent"
        BY <1>1 DEF Send, jobState
    <2>2. jobState' = [jobState EXCEPT ![m] = "pending"]
        BY <1>1 DEF Send, jobState, Place
    <2> QED BY <1>1, <2>1, <2>2 DEF Send, Jobs!Submit
<1>2. ASSUME NEW w \in Worker, Persist(w) PROVE Jobs!Run(msg[w])
    <2>1. msg[w] \in Message /\ place[msg[w]] # "unsent"
        BY <1>2, HeldMessage, MessageAssumption DEF Persist, HeldInv
    <2>2. jobState[msg[w]] # "unsent" /\ jobState' = jobState
        BY <1>2, <2>1 DEF Persist, jobState, Place
    <2> QED BY <1>2, <2>2 DEF Persist, Jobs!Run
<1>3. ASSUME NEW w \in Worker, Delete(w) PROVE Jobs!Complete(msg[w]) \/ Stutter
    <2>1. msg[w] \in Message /\ effects[msg[w]] > 0
        BY <1>3, HeldMessage DEF Delete, LossInv
    <2>2. CASE place[msg[w]] = "queued"
        <3>1. jobState[msg[w]] = "pending"
            BY <2>1, <2>2 DEF jobState
        <3>2. jobState' = [jobState EXCEPT ![msg[w]] = "done"]
            BY <1>3, <2>1, <2>2 DEF Delete, jobState, Place
        <3> QED BY <1>3, <2>1, <3>1, <3>2 DEF Delete, Jobs!Complete
    <2>3. CASE place[msg[w]] # "queued"
        BY <1>3, <2>3, <1>a DEF Delete
    <2> QED BY <2>2, <2>3
<1>4. ASSUME NEW w \in Worker, Archive(w) PROVE Jobs!PutAside(msg[w]) \/ Stutter
    <2>1. msg[w] \in Message
        BY <1>4, HeldMessage DEF Archive
    <2>2. CASE place[msg[w]] = "queued"
        <3>1. jobState[msg[w]] = "pending"
            BY <2>1, <2>2 DEF jobState
        <3>2. jobState' = [jobState EXCEPT ![msg[w]] = "aside"]
            BY <1>4, <2>1, <2>2 DEF Archive, jobState, Place
        <3> QED BY <1>4, <2>1, <3>1, <3>2 DEF Archive, Jobs!PutAside
    <2>3. CASE place[msg[w]] # "queued"
        BY <1>4, <2>3, <1>a DEF Archive
    <2> QED BY <2>2, <2>3
<1>5. ASSUME NEW m \in Message, Reappear(m) PROVE Stutter
    BY <1>5, <1>a DEF Reappear
<1>6. ASSUME NEW w \in Worker, NEW m \in Message, Read(w, m) PROVE Stutter
    BY <1>6, <1>a DEF Read
<1>7. ASSUME NEW w \in Worker,
             ReadNothing(w) \/ FailAndLeave(w) \/ FailForGood(w) \/ Crash(w) \/ Restart(w)
      PROVE  Stutter
    BY <1>7, <1>a DEF ReadNothing, FailAndLeave, FailForGood, Crash, Restart
<1>8. CASE UNCHANGED vars
    BY <1>8, <1>a DEF vars
<1>9. ASSUME NEW w \in Worker, Persist(w) \/ Delete(w) \/ Archive(w)
      PROVE  msg[w] \in Message
    BY <1>9, HeldMessage DEF Persist, Delete, Archive
<1> QED
    BY <1>1, <1>2, <1>3, <1>4, <1>5, <1>6, <1>7, <1>8, <1>9
    DEF Next, PollStep, HandlerStep, FinishStep, Jobs!Next

\* A job handed to a queue runs at least once or is put aside.
THEOREM RefinesDelivery == Spec => Jobs!Safety
<1>1. Init => TypeOK /\ HeldInv /\ LossInv
    BY InitTypeOK, InitHeldInv, InitLossInv
<1>2. TypeOK /\ HeldInv /\ LossInv /\ [Next]_vars => (TypeOK /\ HeldInv /\ LossInv)'
    BY StepTypeOK, StepHeldInv, StepLossInv
<1> QED BY <1>1, <1>2, InitRefines, StepRefines, PTL DEF Spec, Jobs!Safety

=============================================================================
