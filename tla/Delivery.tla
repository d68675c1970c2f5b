------------------------------ MODULE Delivery ------------------------------
(***************************************************************************)
(* What a producer may rely on when its transaction calls pgmq.send: the   *)
(* job it hands over stays pending until it has run at least once, or is   *)
(* put aside for inspection; it never vanishes and never waits for ever.   *)
(* It may run more than once.  WorkQueue implements this.                  *)
(***************************************************************************)
EXTENDS Naturals

CONSTANT Job

VARIABLES
    state,  \* where the producer would find the job
    runs    \* how often its effect was committed

vars == <<state, runs>>

Init ==
    /\ state = [j \in Job |-> "unsent"]
    /\ runs  = [j \in Job |-> 0]

Submit(j) ==
    /\ state[j] = "unsent"
    /\ state' = [state EXCEPT ![j] = "pending"]
    /\ runs'  = runs

Run(j) ==
    /\ state[j] # "unsent"
    /\ runs'  = [runs EXCEPT ![j] = @ + 1]
    /\ state' = state

Complete(j) ==
    /\ state[j] = "pending"
    /\ runs[j] > 0
    /\ state' = [state EXCEPT ![j] = "done"]
    /\ runs'  = runs

PutAside(j) ==
    /\ state[j] = "pending"
    /\ state' = [state EXCEPT ![j] = "aside"]
    /\ runs'  = runs

Next == \E j \in Job : Submit(j) \/ Run(j) \/ Complete(j) \/ PutAside(j)

Safety == Init /\ [][Next]_vars

Spec == /\ Safety
        /\ \A j \in Job : WF_vars(Complete(j) \/ PutAside(j))
=============================================================================
