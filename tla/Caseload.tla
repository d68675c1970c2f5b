------------------------------ MODULE Caseload ------------------------------
(***************************************************************************)
(* Who may open a household: CaseAssignmentService over case_assignment,   *)
(* and KeycloakWorkerSyncFilter, which provisions the worker behind a      *)
(* request.  The first worker to touch a household claims it, a supervisor *)
(* may reassign it.  checkCaseloadAccess runs outside any transaction, and *)
(* it calls assignOnFirstTouch on itself, past the transactional proxy, so *)
(* its read and its save are two transactions.                             *)
(*                                                                         *)
(* created_at is the time the inserting transaction began: a tick, which   *)
(* also identifies the row.  An effective_to of null is Open.              *)
(***************************************************************************)
EXTENDS Naturals, FiniteSets

CONSTANTS
    Household,
    Worker,         \* accounts of the worker realm
    Supervisor,     \* those with the SUPERVISOR role
    Session,        \* browser sessions, one request each at a time
    WorkerOf,       \* the account of a session
    NoOne, NoCase,  \* absent references
    LastDay,        \* bound on the calendar
    MaxTicks        \* bound on the inserting transactions

Day == 1..LastDay
Open == LastDay + 1
Tick == 0..MaxTicks

ASSUME AccountAssumption == /\ Supervisor \subseteq Worker /\ WorkerOf \in [Session -> Worker]
                            /\ NoOne \notin Worker /\ NoCase \notin Household
ASSUME BoundAssumption == LastDay \in Nat \ {0} /\ MaxTicks \in Nat

VARIABLES
    known,      \* accounts with a worker row
    rows,       \* case_assignment
    today,      \* the clock's date
    tick,       \* the database's clock
    at,         \* where a request stands
    on,         \* the household it is about
    day,        \* LocalDate.now as the request read it
    born,       \* when its inserting transaction began
    current,    \* the active row a reassignment read, 0 for none
    target,     \* the worker it assigns
    last,       \* observed: the worker of the assignment committed last
    raced,      \* observed: households assigned while another assignment was in flight
    moved       \* observed: admitted sessions whose household was assigned since

txVars  == <<on, day, born, current, target>>
history == <<last, raced, moved>>
vars == <<known, rows, today, tick, at, txVars, history>>

Init ==
    /\ known = {}
    /\ rows  = {}
    /\ today = 1
    /\ tick  = 0
    /\ at      = [c \in Session |-> "idle"]
    /\ on      = [c \in Session |-> NoCase]
    /\ day     = [c \in Session |-> 1]
    /\ born    = [c \in Session |-> 0]
    /\ current = [c \in Session |-> 0]
    /\ target  = [c \in Session |-> NoOne]
    /\ last  = [h \in Household |-> NoOne]
    /\ raced = {}
    /\ moved = {}

\* findEffectiveOn, without its order.
Active(h, d) == {r \in rows : r.household = h /\ r.from <= d /\ d <= r.to}

\* Seeded bug: rows of one day are not told apart.
LaterByDay(r, s) == r.from > s.from \/ (r.from = s.from /\ r.created < s.created)

\* Its order: effectiveFrom desc, createdAt desc.
Later(r, s) == r.from > s.from \/ (r.from = s.from /\ r.created > s.created)

\* activeAssignment: the rows it may return, one or none.
First(h, d) == {r \in Active(h, d) : \A s \in Active(h, d) \ {r} : Later(r, s)}

Holds(w, h, d) == \E r \in First(h, d) : r.worker = w

\* findByAssignedWorker: the households of a worker's dashboard.
Listed(w, h, d) == \E r \in Active(h, d) : r.worker = w

\* An assignment of h to w commits in session c.
Assigned(c, h, w) ==
    /\ last'  = [last EXCEPT ![h] = w]
    /\ raced' = IF \E b \in Session \ {c} : on[b] = h /\ at[b] \in {"claiming", "saving", "ending"}
                THEN raced \cup {h} ELSE raced
    /\ moved' = moved \cup {b \in Session \ {c} : at[b] = "admitted" /\ on[b] = h}

\* The request is over.
Idle(c) ==
    /\ at'  = [at EXCEPT ![c] = "idle"]
    /\ on'  = [on EXCEPT ![c] = NoCase]
    /\ day' = [day EXCEPT ![c] = 1]
    /\ born'    = [born EXCEPT ![c] = 0]
    /\ current' = [current EXCEPT ![c] = 0]
    /\ target'  = [target EXCEPT ![c] = NoOne]

-----------------------------------------------------------------------------
(* KeycloakWorkerSyncFilter                                                *)

\* findByKeycloakSubject: a known account goes on to its controller.
Enter(c) ==
    /\ at[c] = "idle"
    /\ at' = [at EXCEPT ![c] = IF WorkerOf[c] \in known THEN "inside" ELSE "provisioning"]
    /\ UNCHANGED <<known, rows, today, tick, txVars, history>>

\* The save: the unique subject fails the later of two first requests.
Provision(c) ==
    /\ at[c] = "provisioning"
    /\ at' = [at EXCEPT ![c] = IF WorkerOf[c] \in known THEN "idle" ELSE "inside"]
    /\ known' = known \cup {WorkerOf[c]}
    /\ UNCHANGED <<rows, today, tick, txVars, history>>

-----------------------------------------------------------------------------
(* checkCaseloadAccess                                                     *)

\* A supervisor always gets in.
ViewAsSupervisor(c, h) ==
    /\ at[c] = "inside"
    /\ WorkerOf[c] \in Supervisor
    /\ at' = [at EXCEPT ![c] = "admitted"]
    /\ on' = [on EXCEPT ![c] = h]
    /\ UNCHANGED <<known, rows, today, tick, day, born, current, target, history>>

\* Seeded bug: an active assignment admits whoever asks.
TouchAndEnter(c, h) ==
    /\ at[c] = "inside"
    /\ WorkerOf[c] \notin Supervisor
    /\ at' = [at EXCEPT ![c] = IF First(h, today) = {} THEN "claiming" ELSE "admitted"]
    /\ on' = [on EXCEPT ![c] = h]
    /\ UNCHANGED <<known, rows, today, tick, day, born, current, target, history>>

\* assignOnFirstTouch reads: the holder gets in, others are denied, and a
\* household without one is claimed.
Touch(c, h) ==
    /\ at[c] = "inside"
    /\ WorkerOf[c] \notin Supervisor
    /\ LET free == First(h, today) = {}
           mine == Holds(WorkerOf[c], h, today)
       IN  /\ at' = [at EXCEPT ![c] = IF free THEN "claiming" ELSE IF mine THEN "admitted" ELSE "idle"]
           /\ on' = [on EXCEPT ![c] = IF free \/ mine THEN h ELSE NoCase]
    /\ UNCHANGED <<known, rows, today, tick, day, born, current, target, history>>

\* The transaction of its save begins.
StartSave(c) ==
    /\ at[c] = "claiming"
    /\ tick < MaxTicks
    /\ tick' = tick + 1
    /\ at'   = [at EXCEPT ![c] = "saving"]
    /\ day'  = [day EXCEPT ![c] = today]
    /\ born' = [born EXCEPT ![c] = tick + 1]
    /\ UNCHANGED <<known, rows, today, on, current, target, history>>

CommitClaim(c) ==
    /\ at[c] = "saving"
    /\ rows' = rows \cup {[household |-> on[c], worker |-> WorkerOf[c],
                           from |-> day[c], to |-> Open, created |-> born[c]]}
    /\ at' = [at EXCEPT ![c] = "admitted"]
    /\ Assigned(c, on[c], WorkerOf[c])
    /\ UNCHANGED <<known, today, tick, txVars>>

\* What the request was admitted for.
Act(c) ==
    /\ at[c] = "admitted"
    /\ Idle(c)
    /\ moved' = moved \ {c}
    /\ UNCHANGED <<known, rows, today, tick, last, raced>>

-----------------------------------------------------------------------------
(* reassign                                                                *)

\* Its date, before its transaction's first statement.
StartReassign(c, h, w) ==
    /\ at[c] = "inside"
    /\ WorkerOf[c] \in Supervisor
    /\ w \in known
    /\ at'  = [at EXCEPT ![c] = "dated"]
    /\ on'  = [on EXCEPT ![c] = h]
    /\ day' = [day EXCEPT ![c] = today]
    /\ target' = [target EXCEPT ![c] = w]
    /\ UNCHANGED <<known, rows, today, tick, born, current, history>>

\* activeAssignment, on a date of its own.
ReadCurrent(c) ==
    /\ at[c] = "dated"
    /\ tick < MaxTicks
    /\ tick' = tick + 1
    /\ at'   = [at EXCEPT ![c] = "ending"]
    /\ born' = [born EXCEPT ![c] = tick + 1]
    /\ \E n \in Tick :
        /\ IF First(on[c], today) = {} THEN n = 0
           ELSE \E r \in First(on[c], today) : n = r.created
        /\ current' = [current EXCEPT ![c] = n]
    /\ UNCHANGED <<known, rows, today, on, day, target, history>>

\* The row a reassignment inserts.
NewRow(c) == [household |-> on[c], worker |-> target[c],
              from |-> day[c], to |-> Open, created |-> born[c]]

\* Seeded bug: the old assignment is not ended.
CommitWithoutEnd(c) ==
    /\ at[c] = "ending"
    /\ rows' = rows \cup {NewRow(c)}
    /\ Assigned(c, on[c], target[c])
    /\ Idle(c)
    /\ UNCHANGED <<known, today, tick>>

\* Seeded bug: without a transaction the end can outlive the save.
CommitInParts(c) ==
    /\ at[c] = "ending"
    /\ \A r \in rows : r.created = current[c] => r.from <= day[c]
    /\ \/ /\ rows' = {IF r.created = current[c] THEN [r EXCEPT !.to = day[c]] ELSE r : r \in rows}
                     \cup {NewRow(c)}
          /\ Assigned(c, on[c], target[c])
       \/ /\ rows' = {IF r.created = current[c] THEN [r EXCEPT !.to = day[c]] ELSE r : r \in rows}
          /\ UNCHANGED history
    /\ Idle(c)
    /\ UNCHANGED <<known, today, tick>>

\* endAssignment and save: V1's check admits no end before the start.
CommitReassign(c) ==
    /\ at[c] = "ending"
    /\ \A r \in rows : r.created = current[c] => r.from <= day[c]
    /\ rows' = {IF r.created = current[c] THEN [r EXCEPT !.to = day[c]] ELSE r : r \in rows}
               \cup {NewRow(c)}
    /\ Assigned(c, on[c], target[c])
    /\ Idle(c)
    /\ UNCHANGED <<known, today, tick>>

-----------------------------------------------------------------------------
\* The request fails, a transaction of it rolls back.
Fail(c) ==
    /\ at[c] # "idle"
    /\ Idle(c)
    /\ moved' = moved \ {c}
    /\ UNCHANGED <<known, rows, today, tick, last, raced>>

Midnight ==
    /\ today < LastDay
    /\ today' = today + 1
    /\ UNCHANGED <<known, rows, tick, at, txVars, history>>

Request(c) ==
    \/ Enter(c) \/ Provision(c)
    \/ \E h \in Household : ViewAsSupervisor(c, h) \/ Touch(c, h)
    \/ StartSave(c) \/ CommitClaim(c) \/ Act(c)
    \/ \E h \in Household, w \in Worker : StartReassign(c, h, w)
    \/ ReadCurrent(c) \/ CommitReassign(c)
    \/ Fail(c)

Next == Midnight \/ \E c \in Session : Request(c)

Spec == Init /\ [][Next]_vars

-----------------------------------------------------------------------------
(* Correctness                                                             *)

\* Every variable keeps its type, and created_at tells the rows apart.
TypeOK ==
    /\ known \subseteq Worker
    /\ rows \subseteq [household : Household, worker : Worker, from : Day, to : 1..Open, created : Tick]
    /\ \A r, s \in rows : r.created = s.created => r = s
    /\ today \in Day /\ tick \in Tick
    /\ at \in [Session -> {"idle", "provisioning", "inside", "claiming", "saving", "admitted",
                           "dated", "ending"}]
    /\ on      \in [Session -> Household \cup {NoCase}]
    /\ day     \in [Session -> Day]
    /\ born    \in [Session -> Tick]
    /\ current \in [Session -> Tick]
    /\ target  \in [Session -> Worker \cup {NoOne}]
    /\ last  \in [Household -> Worker \cup {NoOne}]
    /\ raced \subseteq Household /\ moved \subseteq Session

\* Where no two assignments overlapped, the household is held by the worker
\* assigned last, on the day of a reassignment too.
HeldByLastAssigned ==
    \A h \in Household \ raced : last[h] # NoOne => Holds(last[h], h, today)

\* A household once assigned is never left without a holder, whatever fails
\* and whatever races.
NeverDropped ==
    \A h \in Household : last[h] # NoOne => First(h, today) # {}

\* Where nothing raced, a dashboard lists a household its worker does not hold
\* on the day it was taken away and on no other.
ListedToHolder ==
    \A h \in Household \ raced, w \in Worker :
        Listed(w, h, today) /\ ~ Holds(w, h, today) =>
            \E r \in rows : r.household = h /\ r.worker = w /\ r.to = today

\* A worker acting on a household holds it, unless it was assigned after the
\* check or two assignments raced.
AdmittedIsHolder ==
    \A c \in Session :
        at[c] = "admitted" /\ WorkerOf[c] \notin Supervisor /\ c \notin moved /\ on[c] \notin raced =>
            Holds(WorkerOf[c], on[c], today)

=============================================================================
