----------------------------- MODULE WorkQueue -----------------------------
(***************************************************************************)
(* The pgmq work queues of the operational database and the worker         *)
(* processes that poll them: worker/src/canopica_worker/main.py (the loop) *)
(* and queue.py (one transaction per queue call).  What a handler writes   *)
(* is abstracted to the count of its committed effects; the modules that   *)
(* model one consumer conjoin Persist with the row the consumer writes.    *)
(*                                                                         *)
(* pgmq itself is an extension outside the repository: it is modelled from *)
(* the four functions queue.py calls.                                      *)
(***************************************************************************)
EXTENDS Integers, Sequences, FiniteSets

CONSTANTS
    Worker,              \* worker processes
    Message,             \* message ids: pgmq hands them out in increasing order
    Queue,               \* the handlers dict of run_forever, in its order
    QueueOf,             \* the queue each message is sent to
    MaxDeliveryAttempts, \* Settings.max_delivery_attempts
    MaxCrashes,          \* bound on the number of worker deaths
    None                 \* no message

ASSUME WorkerAssumption  == IsFiniteSet(Worker)
ASSUME MessageAssumption == Message \subseteq Nat /\ None \notin Message
ASSUME QueueAssumption   == /\ Queue \in Seq(STRING) /\ Len(Queue) > 0
                            /\ QueueOf \in [Message -> STRING]
ASSUME LimitAssumption   == MaxDeliveryAttempts \in Nat \ {0} /\ MaxCrashes \in Nat

VARIABLES
    place,    \* where a message is: its queue table, the archive table, gone
    count,    \* read_ct of the message's row
    hidden,   \* its vt lies in the future
    pc,       \* where a worker stands in poll_once
    msg,      \* the message poll_once holds
    receipt,  \* the read_ct that came back with it
    turn,     \* the queue run_forever polls next
    effects,  \* observed: how often a handler's _persist committed for it
    failures, \* observed: how often a handler raised for it
    overdue,  \* observed: messages redelivered behind a live or finished handler
    crashes   \* observed: worker deaths so far

queueVars  == <<place, count, hidden>>
workerVars == <<pc, msg, receipt, turn>>
history    == <<effects, failures, overdue, crashes>>
vars       == <<queueVars, workerVars, history>>

Place == {"unsent", "queued", "archived", "deleted"}
PC    == {"idle", "handling", "persisted", "archiving", "down"}

Init ==
    /\ place    = [m \in Message |-> "unsent"]
    /\ count    = [m \in Message |-> 0]
    /\ hidden   = [m \in Message |-> FALSE]
    /\ pc       = [w \in Worker |-> "idle"]
    /\ msg      = [w \in Worker |-> None]
    /\ receipt  = [w \in Worker |-> 0]
    /\ turn     = [w \in Worker |-> 1]
    /\ effects  = [m \in Message |-> 0]
    /\ failures = [m \in Message |-> 0]
    /\ overdue  = {}
    /\ crashes  = 0

\* The messages pgmq.read can return from queue q.
Visible(q) == {m \in Message : place[m] = "queued" /\ ~hidden[m] /\ QueueOf[m] = q}

\* Seeded bug: the first queue is asked again and again.
TurnAlwaysFirst(t) == 1

NextTurn(t) == IF t < Len(Queue) THEN t + 1 ELSE 1

Holders(m) == {w \in Worker : msg[w] = m}

\* poll_once returns: the worker lets go of the message it held.
LetGo(w) ==
    /\ pc'      = [pc EXCEPT ![w] = "idle"]
    /\ msg'     = [msg EXCEPT ![w] = None]
    /\ receipt' = [receipt EXCEPT ![w] = 0]
    /\ turn'    = turn

-----------------------------------------------------------------------------
(* pgmq and its clock                                                      *)

\* pgmq.send, committed with the producer's transaction.
Send(m) ==
    /\ place[m] = "unsent"
    /\ place' = [place EXCEPT ![m] = "queued"]
    /\ UNCHANGED <<count, hidden, workerVars, history>>

\* The visibility timeout of a read but undeleted message elapses, whether
\* or not the handler that read it is still at work.
Reappear(m) ==
    /\ place[m] = "queued"
    /\ hidden[m]
    /\ hidden'  = [hidden EXCEPT ![m] = FALSE]
    /\ overdue' = IF Holders(m) # {} THEN overdue \cup {m} ELSE overdue
    /\ UNCHANGED <<place, count, workerVars, effects, failures, crashes>>

-----------------------------------------------------------------------------
(* poll_once                                                               *)

\* Seeded bug: a read that takes no visibility timeout.
ReadWithoutHiding(w, m) ==
    /\ pc[w] = "idle"
    /\ m \in Visible(Queue[turn[w]])
    /\ count'   = [count EXCEPT ![m] = @ + 1]
    /\ pc'      = [pc EXCEPT ![w] = "handling"]
    /\ msg'     = [msg EXCEPT ![w] = m]
    /\ receipt' = [receipt EXCEPT ![w] = count[m] + 1]
    /\ turn'    = [turn EXCEPT ![w] = NextTurn(@)]
    /\ UNCHANGED <<place, hidden, history>>

\* read() locks the oldest visible message of the queue whose turn it is.
Read(w, m) ==
    LET visible == Visible(Queue[turn[w]]) IN
    /\ pc[w] = "idle"
    /\ m \in visible
    /\ \A n \in visible : m <= n
    /\ count'   = [count EXCEPT ![m] = @ + 1]
    /\ hidden'  = [hidden EXCEPT ![m] = TRUE]
    /\ pc'      = [pc EXCEPT ![w] = "handling"]
    /\ msg'     = [msg EXCEPT ![w] = m]
    /\ receipt' = [receipt EXCEPT ![w] = count[m] + 1]
    /\ turn'    = [turn EXCEPT ![w] = NextTurn(@)]
    /\ UNCHANGED <<place, history>>

\* read() finds nothing: run_forever moves on to the next queue.
ReadNothing(w) ==
    /\ pc[w] = "idle"
    /\ Visible(Queue[turn[w]]) = {}
    /\ turn' = [turn EXCEPT ![w] = NextTurn(@)]
    /\ UNCHANGED <<queueVars, pc, msg, receipt, history>>

\* The handler's own _persist transaction commits, before the message goes.
Persist(w) ==
    /\ pc[w] = "handling"
    /\ pc'      = [pc EXCEPT ![w] = "persisted"]
    /\ effects' = [effects EXCEPT ![msg[w]] = @ + 1]
    /\ UNCHANGED <<queueVars, msg, receipt, turn, failures, overdue, crashes>>

\* delete(): a message that is no longer in the queue is left as it is.
Delete(w) ==
    /\ pc[w] = "persisted"
    /\ place' = IF place[msg[w]] = "queued"
                THEN [place EXCEPT ![msg[w]] = "deleted"] ELSE place
    /\ LetGo(w)
    /\ UNCHANGED <<count, hidden, history>>

\* Seeded bugs: a failure below the limit that falls through to delete(),
\* and one that leaves the message whatever read_ct says.
FailAndDelete(w) ==
    /\ pc[w] = "handling"
    /\ receipt[w] < MaxDeliveryAttempts
    /\ failures' = [failures EXCEPT ![msg[w]] = @ + 1]
    /\ pc'       = [pc EXCEPT ![w] = "persisted"]
    /\ UNCHANGED <<queueVars, msg, receipt, turn, effects, overdue, crashes>>

FailAndLeaveAlways(w) ==
    /\ pc[w] = "handling"
    /\ failures' = [failures EXCEPT ![msg[w]] = @ + 1]
    /\ LetGo(w)
    /\ UNCHANGED <<queueVars, effects, overdue, crashes>>

\* The handler raises below the limit: the message stays locked.
FailAndLeave(w) ==
    /\ pc[w] = "handling"
    /\ receipt[w] < MaxDeliveryAttempts
    /\ failures' = [failures EXCEPT ![msg[w]] = @ + 1]
    /\ LetGo(w)
    /\ UNCHANGED <<queueVars, effects, overdue, crashes>>

\* The handler raises at the limit; archive() is a transaction of its own.
FailForGood(w) ==
    /\ pc[w] = "handling"
    /\ receipt[w] >= MaxDeliveryAttempts
    /\ failures' = [failures EXCEPT ![msg[w]] = @ + 1]
    /\ pc'       = [pc EXCEPT ![w] = "archiving"]
    /\ UNCHANGED <<queueVars, msg, receipt, turn, effects, overdue, crashes>>

\* Seeded bug: the limit drops the message instead of archiving it.
ArchiveByDeleting(w) ==
    /\ pc[w] = "archiving"
    /\ place' = IF place[msg[w]] = "queued"
                THEN [place EXCEPT ![msg[w]] = "deleted"] ELSE place
    /\ LetGo(w)
    /\ UNCHANGED <<count, hidden, history>>

Archive(w) ==
    /\ pc[w] = "archiving"
    /\ place' = IF place[msg[w]] = "queued"
                THEN [place EXCEPT ![msg[w]] = "archived"] ELSE place
    /\ LetGo(w)
    /\ UNCHANGED <<count, hidden, history>>

\* The process dies: killed, or a queue call raised outside poll_once's try.
Crash(w) ==
    /\ pc[w] # "down"
    /\ crashes < MaxCrashes
    /\ crashes' = crashes + 1
    /\ overdue' = IF pc[w] = "persisted" THEN overdue \cup {msg[w]} ELSE overdue
    /\ pc'      = [pc EXCEPT ![w] = "down"]
    /\ msg'     = [msg EXCEPT ![w] = None]
    /\ receipt' = [receipt EXCEPT ![w] = 0]
    /\ UNCHANGED <<queueVars, turn, effects, failures>>

\* Nothing restarts a worker by itself; an operator may.
Restart(w) ==
    /\ pc[w] = "down"
    /\ pc'   = [pc EXCEPT ![w] = "idle"]
    /\ turn' = [turn EXCEPT ![w] = 1]
    /\ UNCHANGED <<queueVars, msg, receipt, history>>

-----------------------------------------------------------------------------
PollStep(w) ==
    \/ \E m \in Message : Read(w, m)
    \/ ReadNothing(w)

\* How handle() ends: every model call it makes has a client-side timeout.
HandlerStep(w) == Persist(w) \/ FailAndLeave(w) \/ FailForGood(w)

FinishStep(w) == Delete(w) \/ Archive(w)

Next ==
    \/ \E m \in Message : Send(m) \/ Reappear(m)
    \/ \E w \in Worker : PollStep(w) \/ HandlerStep(w) \/ FinishStep(w)
    \/ \E w \in Worker : Crash(w) \/ Restart(w)

\* A live worker keeps polling and finishes what it took; time passes.
\* Producers, crashes and restarts owe nothing.
Fairness ==
    /\ \A w \in Worker : /\ WF_vars(PollStep(w))
                         /\ WF_vars(HandlerStep(w))
                         /\ WF_vars(FinishStep(w))
    /\ \A m \in Message : WF_vars(Reappear(m))

Spec     == Init /\ [][Next]_vars
FairSpec == Spec /\ Fairness

-----------------------------------------------------------------------------
(* Correctness                                                             *)

\* Every variable keeps its type.
TypeOK ==
    /\ place    \in [Message -> Place]
    /\ count    \in [Message -> Nat]
    /\ hidden   \in [Message -> BOOLEAN]
    /\ pc       \in [Worker -> PC]
    /\ msg      \in [Worker -> Message \cup {None}]
    /\ receipt  \in [Worker -> Nat]
    /\ turn     \in [Worker -> 1..Len(Queue)]
    /\ effects  \in [Message -> Nat]
    /\ failures \in [Message -> Nat]
    /\ overdue  \in SUBSET Message
    /\ crashes  \in 0..MaxCrashes

\* A message leaves its queue for good only after a handler committed its
\* effect, or, archived, after as many deliveries as the limit says
\* (queue.py: delete is "called once its processing has actually
\* committed"; main.py: archive-after-max_delivery_attempts).
NoLoss ==
    \A m \in Message :
        /\ place[m] = "deleted"  => effects[m] > 0
        /\ place[m] = "archived" => failures[m] > 0 /\ count[m] >= MaxDeliveryAttempts

\* A handler's effect is committed twice only when the visibility timeout
\* overtook a handler still at work or a worker died between its commit
\* and its delete: redelivery after a failure never duplicates.
DuplicateOnlyIfOverdue ==
    \A m \in Message : effects[m] > 1 => m \in overdue

\* Deliveries stay bounded though only a raising handler archives: beyond
\* the limit, each further one needs another worker holding the message or
\* another crash.
DeliveriesBounded ==
    \A m \in Message :
        count[m] < MaxDeliveryAttempts + Cardinality(Worker) + crashes

\* Every delivery is accounted for: it ended in an effect or a failure, is
\* still in a worker's hands, or died with a worker.
DeliveriesAccounted ==
    \A m \in Message :
        /\ effects[m] + failures[m] <= count[m]
        /\ count[m] <= effects[m] + failures[m] + Cardinality(Holders(m)) + crashes

\* While one worker stays up every queued message is one day deleted or
\* archived, however handlers fail and whichever queue is busy.
EveryMessageSettles ==
    \A m \in Message : place[m] = "queued" ~> place[m] \in {"deleted", "archived"}

\* How the queues look to the producer of a job, and the promise they keep:
\* every job it commits runs at least once or is put aside for inspection.
jobState == [m \in Message |->
                CASE place[m] = "unsent"   -> "unsent"
                  [] place[m] = "queued"   -> "pending"
                  [] place[m] = "deleted"  -> "done"
                  [] place[m] = "archived" -> "aside"]

Jobs == INSTANCE Delivery WITH Job <- Message, state <- jobState, runs <- effects

\* The queue and its workers implement Delivery.
ImplementsDelivery == Jobs!Spec
=============================================================================
