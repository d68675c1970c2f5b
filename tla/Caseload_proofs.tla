-------------------------- MODULE Caseload_proofs --------------------------
(***************************************************************************)
(* Proofs about Caseload for any number of accounts, sessions, households, *)
(* days and transactions.                                                  *)
(***************************************************************************)
EXTENDS Caseload, NaturalsInduction, WellFoundedInduction, TLAPS

InFlight(c) == at[c] \in {"saving", "ending"}

\* Rows lie in the past, ended ones ended by today, and the transaction of a
\* request about to insert began at a time no row and no other request has.
FreshInv ==
    /\ \A r \in rows : /\ 1 <= r.created /\ r.created <= tick
                       /\ r.from <= today /\ (r.to = Open \/ r.to <= today)
    /\ \A c \in Session : InFlight(c) =>
        /\ 1 <= born[c] /\ born[c] <= tick
        /\ \A r \in rows : r.created # born[c]
        /\ \A b \in Session \ {c} : InFlight(b) => born[b] # born[c]
    /\ \A c \in Session : day[c] <= today

\* What a request holds at each place it can stand.
RequestInv ==
    \A c \in Session :
        /\ at[c] \in {"claiming", "saving", "admitted", "dated", "ending"} => on[c] \in Household
        /\ at[c] \in {"dated", "ending"} => target[c] \in Worker
        /\ at[c] = "ending" => \/ current[c] = 0
                               \/ \E r \in rows : r.created = current[c] /\ r.household = on[c]

\* A household never assigned has no row; one once assigned has an open one.
OpenInv ==
    \A h \in Household :
        IF last[h] = NoOne THEN \A r \in rows : r.household # h
        ELSE \E r \in rows : r.household = h /\ r.to = Open

Inv == TypeOK /\ FreshInv /\ RequestInv /\ OpenInv

\* r is the assignment committed last, and the only open one.
Latest(r) ==
    /\ r.worker = last[r.household] /\ r.to = Open
    /\ \A s \in rows \ {r} : s.household = r.household => Later(r, s) /\ s.to # Open

\* Where nothing raced, the last assignment is the latest row, a claim finds
\* no row at all, and a reassignment ends the open row of those it is behind.
UnracedInv ==
    \A h \in Household \ raced :
        /\ last[h] # NoOne => \E r \in rows : r.household = h /\ Latest(r)
        /\ \A c \in Session : on[c] = h =>
            /\ at[c] \in {"claiming", "saving"} => last[h] = NoOne
            /\ at[c] = "ending" => \A r \in rows : r.household = h =>
                r.created < born[c] /\ (r.to = Open => r.created = current[c])

\* A worker admitted since the last assignment is the one it named.
AdmitInv ==
    \A c \in Session :
        at[c] = "admitted" /\ WorkerOf[c] \notin Supervisor /\ c \notin moved /\ on[c] \notin raced =>
            last[on[c]] = WorkerOf[c]

USE AccountAssumption, BoundAssumption
USE DEF Day, Open, Tick, txVars, history

-----------------------------------------------------------------------------
(* What the actions do to the tables                                       *)

LEMMA IdleFacts ==
    ASSUME TypeOK, NEW c \in Session, Idle(c)
    PROVE  /\ at' \in [Session -> {"idle", "provisioning", "inside", "claiming", "saving",
                                   "admitted", "dated", "ending"}]
           /\ on'      \in [Session -> Household \cup {NoCase}]
           /\ day'     \in [Session -> Day]
           /\ born'    \in [Session -> Tick]
           /\ current' \in [Session -> Tick]
           /\ target'  \in [Session -> Worker \cup {NoOne}]
           /\ at'[c] = "idle" /\ on'[c] = NoCase /\ day'[c] = 1
           /\ \A b \in Session \ {c} :
                /\ at'[b] = at[b] /\ on'[b] = on[b] /\ day'[b] = day[b]
                /\ born'[b] = born[b] /\ current'[b] = current[b] /\ target'[b] = target[b]
BY DEF Idle, TypeOK

\* A reassignment ends the row it read and adds its own.
LEMMA ReassignFacts ==
    ASSUME Inv, NEW c \in Session, CommitReassign(c)
    PROVE  /\ NewRow(c) \in rows'
           /\ NewRow(c) \in [household : Household, worker : Worker, from : Day, to : 1..Open,
                             created : Tick]
           /\ NewRow(c).household = on[c] /\ NewRow(c).worker = target[c]
           /\ NewRow(c).from = day[c] /\ NewRow(c).to = Open /\ NewRow(c).created = born[c]
           /\ \A r \in rows : r.created # current[c] => r \in rows'
           /\ \A s \in rows' :
                \/ s = NewRow(c)
                \/ s \in rows /\ s.created # current[c]
                \/ \E r \in rows :
                     /\ r.created = current[c] /\ r.household = on[c] /\ r.from <= day[c]
                     /\ s = [r EXCEPT !.to = day[c]]
           /\ on[c] \in Household /\ target[c] \in Worker
<1> USE DEF CommitReassign
<1>1. on[c] \in Household /\ target[c] \in Worker
    BY DEF Inv, RequestInv
<1>2. /\ NewRow(c) \in [household : Household, worker : Worker, from : Day, to : 1..Open,
                       created : Tick]
      /\ NewRow(c).household = on[c] /\ NewRow(c).worker = target[c]
      /\ NewRow(c).from = day[c] /\ NewRow(c).to = Open /\ NewRow(c).created = born[c]
    BY <1>1 DEF NewRow, Inv, TypeOK
<1>3. NewRow(c) \in rows'
    OBVIOUS
<1>4. \A r \in rows : r.created # current[c] => r \in rows'
    <2> SUFFICES ASSUME NEW r \in rows, r.created # current[c] PROVE r \in rows'
        OBVIOUS
    <2>1. r = IF r.created = current[c] THEN [r EXCEPT !.to = day[c]] ELSE r
        OBVIOUS
    <2> QED BY <2>1
<1>5. ASSUME NEW r \in rows, r.created = current[c]
      PROVE  r.household = on[c] /\ r.from <= day[c]
    <2>1. r.created # 0
        BY DEF Inv, FreshInv, TypeOK
    <2>2. PICK s \in rows : s.created = current[c] /\ s.household = on[c]
        BY <1>5, <2>1 DEF Inv, RequestInv
    <2>3. r = s
        BY <1>5, <2>2 DEF Inv, TypeOK
    <2> QED BY <1>5, <2>2, <2>3
<1>6. ASSUME NEW s \in rows', s # NewRow(c)
      PROVE  \/ s \in rows /\ s.created # current[c]
             \/ \E r \in rows :
                  /\ r.created = current[c] /\ r.household = on[c] /\ r.from <= day[c]
                  /\ s = [r EXCEPT !.to = day[c]]
    <2>1. PICK r \in rows : s = IF r.created = current[c] THEN [r EXCEPT !.to = day[c]] ELSE r
        BY <1>6
    <2>2. CASE r.created = current[c]
        BY <2>1, <2>2, <1>5
    <2>3. CASE r.created # current[c]
        BY <2>1, <2>3
    <2> QED BY <2>2, <2>3
<1> QED BY <1>1, <1>2, <1>3, <1>4, <1>6

\* A claim adds one row.
LEMMA ClaimFacts ==
    ASSUME Inv, NEW c \in Session, CommitClaim(c)
    PROVE  \E n \in [household : Household, worker : Worker, from : Day, to : 1..Open,
                     created : Tick] :
              /\ rows' = rows \cup {n}
              /\ n.household = on[c] /\ n.worker = WorkerOf[c]
              /\ n.from = day[c] /\ n.to = Open /\ n.created = born[c]
              /\ on[c] \in Household
<1> DEFINE n == [household |-> on[c], worker |-> WorkerOf[c],
                 from |-> day[c], to |-> Open, created |-> born[c]]
<1>1. on[c] \in Household
    BY DEF Inv, RequestInv, CommitClaim
<1>2. n \in [household : Household, worker : Worker, from : Day, to : 1..Open, created : Tick]
    BY <1>1 DEF Inv, TypeOK
<1> QED BY <1>1, <1>2 DEF CommitClaim

\* What an assignment leaves in the history.
LEMMA AssignedFacts ==
    ASSUME TypeOK, NEW c \in Session, NEW h \in Household, NEW w \in Worker, Assigned(c, h, w)
    PROVE  /\ last' \in [Household -> Worker \cup {NoOne}] /\ last'[h] = w
           /\ \A g \in Household \ {h} : last'[g] = last[g]
           /\ raced \subseteq raced' /\ raced' \subseteq raced \cup {h}
           /\ h \notin raced' => h \notin raced /\ \A b \in Session \ {c} :
                on[b] = h => at[b] \notin {"claiming", "saving", "ending"}
           /\ moved' \subseteq Session /\ moved \subseteq moved'
           /\ \A b \in Session \ {c} : at[b] = "admitted" /\ on[b] = h => b \in moved'
BY DEF Assigned, TypeOK

-----------------------------------------------------------------------------
(* Types, times and requests                                               *)

LEMMA InitInv == Init => Inv
BY DEF Init, Inv, TypeOK, FreshInv, RequestInv, OpenInv, InFlight

\* Steps that touch no row and insert nothing.
LEMMA QuietStep ==
    ASSUME Inv, NEW c \in Session,
           \/ Enter(c)
           \/ \E h \in Household : ViewAsSupervisor(c, h) \/ Touch(c, h)
           \/ StartSave(c)
           \/ \E h \in Household, w \in Worker : StartReassign(c, h, w)
    PROVE  Inv'
<1>1. CASE Enter(c)
    BY <1>1 DEF Enter, Inv, TypeOK, FreshInv, RequestInv, OpenInv, InFlight
<1>2. ASSUME NEW h \in Household, ViewAsSupervisor(c, h) PROVE Inv'
    BY <1>2 DEF ViewAsSupervisor, Inv, TypeOK, FreshInv, RequestInv, OpenInv, InFlight
<1>3. ASSUME NEW h \in Household, Touch(c, h) PROVE Inv'
    BY <1>3 DEF Touch, Inv, TypeOK, FreshInv, RequestInv, OpenInv, InFlight
<1>4. CASE StartSave(c)
    <2> USE <1>4 DEF StartSave
    <2>1. TypeOK'
        BY DEF Inv, TypeOK
    <2>2. FreshInv'
        BY DEF Inv, TypeOK, FreshInv, InFlight
    <2>3. RequestInv' /\ OpenInv'
        BY DEF Inv, TypeOK, RequestInv, OpenInv
    <2> QED BY <2>1, <2>2, <2>3 DEF Inv
<1>5. ASSUME NEW h \in Household, NEW w \in Worker, StartReassign(c, h, w) PROVE Inv'
    BY <1>5 DEF StartReassign, Inv, TypeOK, FreshInv, RequestInv, OpenInv, InFlight
<1> QED BY <1>1, <1>2, <1>3, <1>4, <1>5

LEMMA ProvisionStep ==
    ASSUME Inv, NEW c \in Session, Provision(c)
    PROVE  Inv'
BY DEF Provision, Inv, TypeOK, FreshInv, RequestInv, OpenInv, InFlight

\* A request that ends, with its transaction rolled back or behind it.
LEMMA EndStep ==
    ASSUME Inv, NEW c \in Session, Idle(c), moved' = moved \ {c},
           UNCHANGED <<known, rows, today, tick, last, raced>>
    PROVE  Inv'
<1>1. TypeOK
    BY DEF Inv
<1>2. TypeOK'
    BY <1>1, IdleFacts DEF TypeOK
<1>3. FreshInv'
    BY <1>1, IdleFacts DEF Inv, FreshInv, InFlight, TypeOK
<1>4. RequestInv'
    BY <1>1, IdleFacts DEF Inv, RequestInv
<1>5. OpenInv'
    BY DEF Inv, OpenInv
<1> QED BY <1>2, <1>3, <1>4, <1>5 DEF Inv

LEMMA MidnightStep ==
    ASSUME Inv, Midnight
    PROVE  Inv'
BY DEF Midnight, Inv, TypeOK, FreshInv, RequestInv, OpenInv, InFlight

LEMMA ReadCurrentStep ==
    ASSUME Inv, NEW c \in Session, ReadCurrent(c)
    PROVE  Inv'
<1> USE DEF ReadCurrent
<1>1. TypeOK'
    BY DEF Inv, TypeOK
<1>2. FreshInv'
    BY DEF Inv, TypeOK, FreshInv, InFlight
<1>3. RequestInv'
    <2>1. on[c] \in Household /\ target[c] \in Worker
        BY DEF Inv, RequestInv
    <2>2. current'[c] = 0 \/ \E r \in rows : r.created = current'[c] /\ r.household = on[c]
        BY DEF Inv, TypeOK, First, Active
    <2>3. \A b \in Session \ {c} : at'[b] = at[b] /\ current'[b] = current[b]
        BY DEF Inv, TypeOK
    <2> QED BY <2>1, <2>2, <2>3 DEF Inv, RequestInv
<1>4. OpenInv'
    BY DEF Inv, OpenInv
<1> QED BY <1>1, <1>2, <1>3, <1>4 DEF Inv

LEMMA ClaimStep ==
    ASSUME Inv, NEW c \in Session, CommitClaim(c)
    PROVE  Inv'
<1>1. PICK n \in [household : Household, worker : Worker, from : Day, to : 1..Open, created : Tick] :
          /\ rows' = rows \cup {n}
          /\ n.household = on[c] /\ n.worker = WorkerOf[c]
          /\ n.from = day[c] /\ n.to = Open /\ n.created = born[c]
          /\ on[c] \in Household
    BY ClaimFacts
<1>2. /\ at' = [at EXCEPT ![c] = "admitted"] /\ at[c] = "saving"
      /\ UNCHANGED <<known, today, tick, txVars>> /\ Assigned(c, on[c], WorkerOf[c])
    BY DEF CommitClaim
<1>3. /\ last' \in [Household -> Worker \cup {NoOne}] /\ last'[on[c]] # NoOne
      /\ \A g \in Household \ {on[c]} : last'[g] = last[g]
      /\ raced' \subseteq Household /\ moved' \subseteq Session
    BY <1>1, <1>2, AssignedFacts DEF Inv, TypeOK
<1>4. /\ 1 <= n.created /\ n.created <= tick /\ n.from <= today /\ \A r \in rows : r.created # n.created
      /\ \A b \in Session \ {c} : InFlight(b) => born[b] # n.created
    BY <1>1, <1>2 DEF Inv, FreshInv, InFlight
<1>5. TypeOK'
    BY <1>1, <1>2, <1>3, <1>4 DEF Inv, TypeOK
<1>6. FreshInv'
    BY <1>1, <1>2, <1>4 DEF Inv, TypeOK, FreshInv, InFlight
<1>7. RequestInv'
    BY <1>1, <1>2 DEF Inv, TypeOK, RequestInv
<1>8. OpenInv'
    BY <1>1, <1>3 DEF Inv, OpenInv
<1> QED BY <1>5, <1>6, <1>7, <1>8 DEF Inv

LEMMA ReassignStep ==
    ASSUME Inv, NEW c \in Session, CommitReassign(c)
    PROVE  Inv'
<1> DEFINE n == NewRow(c)
<1>1. /\ at[c] = "ending" /\ Idle(c) /\ Assigned(c, on[c], target[c])
      /\ UNCHANGED <<known, today, tick>> /\ TypeOK
    BY DEF CommitReassign, Inv
<1>2. on[c] \in Household /\ target[c] \in Worker
    BY ReassignFacts
<1>3. /\ last' \in [Household -> Worker \cup {NoOne}] /\ last'[on[c]] # NoOne
      /\ \A g \in Household \ {on[c]} : last'[g] = last[g]
      /\ raced' \subseteq Household /\ moved' \subseteq Session
    BY <1>1, <1>2, AssignedFacts DEF TypeOK
<1>4. /\ 1 <= born[c] /\ born[c] <= tick /\ day[c] <= today /\ day[c] \in Day
      /\ \A r \in rows : r.created # born[c]
      /\ \A b \in Session \ {c} : InFlight(b) => born[b] # born[c]
    BY <1>1 DEF Inv, FreshInv, InFlight, TypeOK
<1>5. ASSUME NEW s \in rows'
      PROVE  \/ s = n
             \/ \E r \in rows :
                  /\ s \in [household : Household, worker : Worker, from : Day, to : 1..Open,
                            created : Tick]
                  /\ s.created = r.created /\ s.household = r.household /\ s.from = r.from
                  /\ \/ s = r /\ r.created # current[c]
                     \/ s = [r EXCEPT !.to = day[c]] /\ s.to = day[c] /\ r.created = current[c]
    <2>1. CASE s \in rows /\ s.created # current[c]
        BY <2>1, <1>1 DEF TypeOK
    <2>2. ASSUME NEW r \in rows, r.created = current[c], s = [r EXCEPT !.to = day[c]]
          PROVE  /\ s \in [household : Household, worker : Worker, from : Day, to : 1..Open,
                           created : Tick]
                 /\ s.created = r.created /\ s.household = r.household /\ s.from = r.from
                 /\ s.to = day[c]
        BY <2>2, <1>1, <1>4 DEF TypeOK
    <2> QED BY <2>1, <2>2, ReassignFacts
<1>6. TypeOK'
    <2>1. rows' \subseteq [household : Household, worker : Worker, from : Day, to : 1..Open,
                           created : Tick]
        BY <1>5, ReassignFacts
    <2>2. \A r, s \in rows' : r.created = s.created => r = s
        <3> SUFFICES ASSUME NEW r \in rows', NEW s \in rows', r.created = s.created PROVE r = s
            OBVIOUS
        <3>1. n.created = born[c]
            BY ReassignFacts
        <3>2. CASE r = n
            BY <3>1, <3>2, <1>4, <1>5
        <3>3. CASE s = n
            BY <3>1, <3>3, <1>4, <1>5
        <3>4. CASE r # n /\ s # n
            <4>1. PICK x \in rows : /\ r.created = x.created
                                    /\ \/ r = x /\ x.created # current[c]
                                       \/ r = [x EXCEPT !.to = day[c]] /\ x.created = current[c]
                BY <3>4, <1>5
            <4>2. PICK y \in rows : /\ s.created = y.created
                                    /\ \/ s = y /\ y.created # current[c]
                                       \/ s = [y EXCEPT !.to = day[c]] /\ y.created = current[c]
                BY <3>4, <1>5
            <4>3. x = y
                BY <4>1, <4>2, <1>1 DEF TypeOK
            <4> QED BY <4>1, <4>2, <4>3
        <3> QED BY <3>2, <3>3, <3>4
    <2>3. today' \in Day /\ tick' \in Tick /\ known' \subseteq Worker
        BY <1>1 DEF TypeOK
    <2> QED BY <2>1, <2>2, <2>3, <1>1, <1>3, IdleFacts DEF TypeOK
<1>7. FreshInv'
    <2>1. ASSUME NEW s \in rows'
          PROVE  /\ 1 <= s.created /\ s.created <= tick
                 /\ s.from <= today /\ (s.to = Open \/ s.to <= today)
        <3>1. n.created = born[c] /\ n.from = day[c] /\ n.to = Open
            BY ReassignFacts
        <3> QED BY <3>1, <1>4, <1>5 DEF Inv, FreshInv
    <2>2. ASSUME NEW b \in Session, at'[b] \in {"saving", "ending"}
          PROVE  /\ b # c /\ at[b] = at'[b] /\ born'[b] = born[b]
                 /\ \A s \in rows' : s.created # born[b]
        <3>1. b # c /\ at[b] = at'[b] /\ born'[b] = born[b]
            BY <2>2, <1>1, IdleFacts
        <3>2. n.created = born[c] /\ born[c] # born[b]
            BY <3>1, <2>2, <1>4, ReassignFacts DEF InFlight
        <3> QED BY <3>1, <3>2, <2>2, <1>5 DEF Inv, FreshInv, InFlight
    <2>3. \A b \in Session : day'[b] <= today
        BY <1>1, IdleFacts DEF Inv, FreshInv, TypeOK
    <2> QED BY <2>1, <2>2, <2>3, <1>1 DEF Inv, FreshInv, InFlight
<1>8. RequestInv'
    <2> SUFFICES ASSUME NEW b \in Session, at'[b] = "ending", current[b] # 0, b # c,
                        at[b] = "ending"
                 PROVE  \E s \in rows' : s.created = current[b] /\ s.household = on[b]
        BY <1>1, IdleFacts DEF Inv, RequestInv
    <2>1. PICK r \in rows : r.created = current[b] /\ r.household = on[b]
        BY DEF Inv, RequestInv
    <2>2. CASE r.created # current[c]
        BY <2>1, <2>2, ReassignFacts
    <2>3. CASE r.created = current[c]
        <3> DEFINE s == [r EXCEPT !.to = day[c]]
        <3>1. s \in rows'
            BY <2>3 DEF CommitReassign
        <3>2. s.created = r.created /\ s.household = r.household
            BY <1>1 DEF TypeOK
        <3> QED BY <3>1, <3>2, <2>1
    <2> QED BY <2>2, <2>3
<1>9. OpenInv'
    <2> SUFFICES ASSUME NEW h \in Household
                 PROVE  IF last'[h] = NoOne THEN \A s \in rows' : s.household # h
                        ELSE \E s \in rows' : s.household = h /\ s.to = Open
        BY DEF OpenInv
    <2>1. CASE h = on[c]
        BY <2>1, <1>3, ReassignFacts
    <2>2. CASE h # on[c] /\ last[h] = NoOne
        <3>1. n.household # h
            BY <2>2, ReassignFacts
        <3> QED BY <2>2, <3>1, <1>3, <1>5 DEF Inv, OpenInv
    <2>3. CASE h # on[c] /\ last[h] # NoOne
        <3>1. PICK r \in rows : r.household = h /\ r.to = Open
            BY <2>3 DEF Inv, OpenInv
        <3>2. r.created # current[c]
            BY <3>1, <2>3, <1>1 DEF Inv, RequestInv, FreshInv, TypeOK
        <3> QED BY <3>1, <3>2, <2>3, <1>3, ReassignFacts
    <2> QED BY <2>1, <2>2, <2>3
<1> QED BY <1>6, <1>7, <1>8, <1>9 DEF Inv

LEMMA StepInv == Inv /\ [Next]_vars => Inv'
<1> SUFFICES ASSUME Inv, [Next]_vars PROVE Inv'
    OBVIOUS
<1>1. CASE Midnight
    BY <1>1, MidnightStep
<1>2. ASSUME NEW c \in Session, Request(c) PROVE Inv'
    <2>1. CASE Act(c) \/ Fail(c)
        BY <2>1, EndStep DEF Act, Fail
    <2> QED BY <2>1, <1>2, QuietStep, ProvisionStep, ReadCurrentStep, ClaimStep, ReassignStep
            DEF Request
<1>3. CASE UNCHANGED vars
    BY <1>3 DEF vars, Inv, TypeOK, FreshInv, RequestInv, OpenInv, InFlight
<1> QED BY <1>1, <1>2, <1>3 DEF Next

LEMMA AlwaysInv == Spec => []Inv
BY InitInv, StepInv, PTL DEF Spec

\* Types hold, and created_at tells the rows apart, for any accounts and
\* sessions.
THEOREM TypeCorrect == Spec => []TypeOK
<1>1. Inv => TypeOK
    BY DEF Inv
<1> QED BY <1>1, AlwaysInv, PTL

-----------------------------------------------------------------------------
(* NeverDropped                                                            *)

\* A nonempty bounded set of numbers has a greatest one.
LEMMA GreatestExists ==
    ASSUME NEW n \in Nat, NEW S \in SUBSET (0..n), S # {}
    PROVE  \E i \in S : \A j \in S : j <= i
<1> DEFINE T == {n - i : i \in S}
<1>1. T \subseteq Nat /\ T # {}
    <2>1. PICK i \in S : TRUE
        OBVIOUS
    <2>2. n - i \in T
        BY <2>1
    <2>3. \A j \in S : n - j \in Nat
        OBVIOUS
    <2> QED BY <2>2, <2>3
<1>2. PICK x \in T : \A y \in T : ~ (<<y, x>> \in OpToRel(<, Nat))
    BY <1>1, NatLessThanWellFounded, WFMin
<1>3. \A y \in T : ~ (y < x)
    BY <1>1, <1>2 DEF OpToRel
<1>4. PICK i \in S : x = n - i
    OBVIOUS
<1>5. ASSUME NEW j \in S PROVE j <= i
    <2>1. n - j \in T
        OBVIOUS
    <2>2. ~ (n - j < n - i)
        BY <2>1, <1>3, <1>4
    <2> QED BY <2>2
<1> QED BY <1>5

\* The query's order, day and then created_at, has a first row wherever a
\* row is in force.
LEMMA FirstExists ==
    ASSUME TypeOK, NEW h \in Household, Active(h, today) # {}
    PROVE  First(h, today) # {}
<1> DEFINE A == Active(h, today)
           F == {r.from : r \in A}
<1>1. A \subseteq rows /\ \A r \in A : r.from \in 0..LastDay /\ r.created \in 0..MaxTicks
    BY DEF TypeOK, Active
<1>2. F \in SUBSET (0..LastDay) /\ F # {}
    <2>1. PICK r \in A : TRUE
        OBVIOUS
    <2>2. r.from \in F
        BY <2>1
    <2> QED BY <1>1, <2>2
<1>3. PICK d \in F : \A e \in F : e <= d
    BY <1>2, GreatestExists
<1> DEFINE B == {r \in A : r.from = d}
           C == {r.created : r \in B}
<1>4. C \in SUBSET (0..MaxTicks) /\ C # {}
    <2>1. PICK r \in A : r.from = d
        OBVIOUS
    <2>2. r.created \in C
        BY <2>1
    <2> QED BY <1>1, <2>2
<1>5. PICK k \in C : \A j \in C : j <= k
    BY <1>4, GreatestExists
<1>6. PICK r \in A : r.from = d /\ r.created = k
    OBVIOUS
<1>7. ASSUME NEW s \in A \ {r} PROVE Later(r, s)
    <2>1. s.from \in F
        OBVIOUS
    <2>2. s.from <= d
        BY <2>1, <1>3
    <2>3. r.created # s.created
        BY <1>1, <1>6, <1>7 DEF TypeOK
    <2>4. s.from = d => s.created <= k
        <3> SUFFICES ASSUME s.from = d PROVE s.created <= k
            OBVIOUS
        <3>1. s.created \in C
            OBVIOUS
        <3> QED BY <3>1, <1>5
    <2> QED BY <2>2, <2>3, <2>4, <1>1, <1>6 DEF Later
<1> QED BY <1>6, <1>7 DEF First

\* A row without an end is in force.
LEMMA OpenIsActive ==
    ASSUME Inv, NEW r \in rows, r.to = Open
    PROVE  r \in Active(r.household, today)
BY DEF Inv, TypeOK, FreshInv, Active

\* A household once assigned always has a holder, through any races,
\* failures and midnights.
THEOREM AlwaysHeld == Spec => []NeverDropped
<1>1. Inv => NeverDropped
    <2> SUFFICES ASSUME Inv, NEW h \in Household, last[h] # NoOne
                 PROVE  First(h, today) # {}
        BY DEF NeverDropped
    <2>1. PICK r \in rows : r.household = h /\ r.to = Open
        BY DEF Inv, OpenInv
    <2>2. Active(h, today) # {}
        BY <2>1, OpenIsActive
    <2> QED BY <2>2, FirstExists DEF Inv
<1> QED BY <1>1, AlwaysInv, PTL

-----------------------------------------------------------------------------
(* Where nothing raced                                                     *)

\* The latest row is the one the query returns.
LEMMA LatestIsFirst ==
    ASSUME Inv, NEW r \in rows, Latest(r)
    PROVE  First(r.household, today) = {r}
<1>1. r \in Active(r.household, today)
    BY OpenIsActive DEF Latest
<1>2. \A s \in Active(r.household, today) \ {r} : s \in rows /\ s.household = r.household
    BY DEF Active
<1>3. r \in First(r.household, today)
    BY <1>1, <1>2 DEF First, Latest
<1>4. ASSUME NEW s \in First(r.household, today), s # r PROVE FALSE
    <2>1. s \in Active(r.household, today)
        BY DEF First
    <2>2. Later(r, s) /\ Later(s, r)
        BY <1>1, <1>2, <1>4, <2>1 DEF First, Latest
    <2>3. r.from \in Nat /\ s.from \in Nat /\ r.created \in Nat /\ s.created \in Nat
        BY <2>1 DEF Inv, TypeOK, Active
    <2> QED BY <2>2, <2>3 DEF Later
<1> QED BY <1>3, <1>4

\* So it holds, for whom the last assignment named.
LEMMA LastHolds ==
    ASSUME Inv, UnracedInv, NEW h \in Household \ raced, last[h] # NoOne
    PROVE  \E r \in rows : /\ r.household = h /\ Latest(r)
                           /\ First(h, today) = {r} /\ r.worker = last[h]
<1>1. PICK r \in rows : r.household = h /\ Latest(r)
    BY DEF UnracedInv
<1> QED BY <1>1, LatestIsFirst DEF Latest

\* A request that does not begin an assignment.
Stays(b) ==
    at'[b] \in {"claiming", "saving", "ending"} =>
        /\ on'[b] = on[b] /\ born'[b] = born[b] /\ current'[b] = current[b]
        /\ at'[b] = at[b]

\* Latest looks at rows and the history of their household alone.
LEMMA UnracedSame ==
    ASSUME UnracedInv, rows' = rows, last' = last, raced' = raced,
           \A b \in Session : Stays(b)
    PROVE  UnracedInv'
BY DEF UnracedInv, Latest, Later, Stays

LEMMA UnracedTouch ==
    ASSUME Inv, UnracedInv, NEW c \in Session, NEW h \in Household, Touch(c, h)
    PROVE  UnracedInv'
<1>1. at' = [at EXCEPT ![c] = at'[c]] /\ on' = [on EXCEPT ![c] = on'[c]]
    BY DEF Touch, Inv, TypeOK
<1>2. at'[c] = "claiming" => on'[c] = h /\ First(h, today) = {}
    BY DEF Touch, Inv, TypeOK
<1>3. at'[c] \notin {"saving", "ending"}
    BY DEF Touch, Inv, TypeOK
<1>4. UNCHANGED <<rows, last, raced, born, current>>
    BY DEF Touch
<1>5. at'[c] = "claiming" /\ h \notin raced => last[h] = NoOne
    BY <1>2, LastHolds
<1>6. \A b \in Session \ {c} : at'[b] = at[b] /\ on'[b] = on[b]
    BY <1>1 DEF Inv, TypeOK
<1> QED BY <1>2, <1>3, <1>4, <1>5, <1>6 DEF UnracedInv, Latest, Later

LEMMA UnracedRead ==
    ASSUME Inv, UnracedInv, NEW c \in Session, ReadCurrent(c)
    PROVE  UnracedInv'
<1>1. UNCHANGED <<rows, last, raced, on, today>> /\ at[c] = "dated" /\ at'[c] = "ending"
    BY DEF ReadCurrent, Inv, TypeOK
<1>2. \A b \in Session \ {c} : at'[b] = at[b] /\ born'[b] = born[b] /\ current'[b] = current[b]
    BY DEF ReadCurrent, Inv, TypeOK
<1>3. \A r \in rows : r.created < born'[c]
    BY DEF ReadCurrent, Inv, TypeOK, FreshInv
<1>4. ASSUME on[c] \notin raced, NEW r \in rows, r.household = on[c], r.to = Open
      PROVE  r.created = current'[c]
    <2>1. on[c] \in Household /\ last[on[c]] # NoOne
        BY <1>1, <1>4 DEF Inv, RequestInv, OpenInv
    <2>2. PICK q \in rows : q.household = on[c] /\ Latest(q) /\ First(on[c], today) = {q}
        BY <1>4, <2>1, LastHolds
    <2>3. r = q
        BY <1>4, <2>2 DEF Latest
    <2>4. current'[c] = q.created
        BY <2>2 DEF ReadCurrent, Inv, TypeOK
    <2> QED BY <2>3, <2>4
<1> QED BY <1>1, <1>2, <1>3, <1>4 DEF UnracedInv, Latest, Later

LEMMA UnracedClaim ==
    ASSUME Inv, UnracedInv, NEW c \in Session, CommitClaim(c)
    PROVE  UnracedInv'
<1>1. PICK n \in [household : Household, worker : Worker, from : Day, to : 1..Open, created : Tick] :
          /\ rows' = rows \cup {n}
          /\ n.household = on[c] /\ n.worker = WorkerOf[c]
          /\ n.from = day[c] /\ n.to = Open /\ n.created = born[c]
          /\ on[c] \in Household
    BY ClaimFacts
<1>2. /\ at' = [at EXCEPT ![c] = "admitted"] /\ at[c] = "saving"
      /\ UNCHANGED txVars /\ Assigned(c, on[c], WorkerOf[c]) /\ TypeOK
    BY DEF CommitClaim, Inv
<1>3. /\ last'[on[c]] = WorkerOf[c]
      /\ \A g \in Household \ {on[c]} : last'[g] = last[g]
      /\ raced \subseteq raced'
      /\ on[c] \notin raced' => on[c] \notin raced /\ \A b \in Session \ {c} :
                on[b] = on[c] => at[b] \notin {"claiming", "saving", "ending"}
    BY <1>1, <1>2, AssignedFacts
<1>4. /\ at'[c] = "admitted" /\ \A b \in Session \ {c} : at'[b] = at[b]
    BY <1>2 DEF TypeOK
<1> SUFFICES ASSUME NEW h \in Household \ raced'
             PROVE  /\ last'[h] # NoOne => \E r \in rows' : r.household = h /\ Latest(r)'
                    /\ \A b \in Session : on'[b] = h =>
                        /\ at'[b] \in {"claiming", "saving"} => last'[h] = NoOne
                        /\ at'[b] = "ending" => \A r \in rows' : r.household = h =>
                            r.created < born'[b] /\ (r.to = Open => r.created = current'[b])
    BY DEF UnracedInv
<1>5. CASE h = on[c]
    <2>1. last[h] = NoOne /\ h \notin raced
        BY <1>2, <1>3, <1>5 DEF UnracedInv
    <2>2. \A r \in rows : r.household # h
        BY <2>1 DEF Inv, OpenInv
    <2>3. Latest(n)'
        BY <1>1, <1>3, <1>5, <2>2 DEF Latest
    <2> QED BY <1>1, <1>2, <1>3, <1>4, <1>5, <2>2, <2>3
<1>6. CASE h # on[c]
    <2>1. h \in Household \ raced /\ last'[h] = last[h]
        BY <1>3, <1>6
    <2>2. ASSUME NEW r \in rows, r.household = h, Latest(r) PROVE Latest(r)'
        BY <1>1, <1>6, <2>1, <2>2 DEF Latest, Later
    <2> QED BY <1>1, <1>2, <1>4, <1>6, <2>1, <2>2 DEF UnracedInv
<1> QED BY <1>5, <1>6

LEMMA UnracedReassign ==
    ASSUME Inv, UnracedInv, NEW c \in Session, CommitReassign(c)
    PROVE  UnracedInv'
<1>0. PICK n \in rows' : n = NewRow(c)
    BY ReassignFacts
<1>1. at[c] = "ending" /\ Idle(c) /\ Assigned(c, on[c], target[c]) /\ TypeOK
    BY DEF CommitReassign, Inv
<1>2. /\ n \in rows' /\ n.household = on[c] /\ n.worker = target[c]
      /\ n.from = day[c] /\ n.to = Open /\ n.created = born[c]
      /\ on[c] \in Household /\ target[c] \in Worker
    BY <1>0, ReassignFacts
<1>3. /\ last'[on[c]] = target[c]
      /\ \A g \in Household \ {on[c]} : last'[g] = last[g]
      /\ raced \subseteq raced'
      /\ on[c] \notin raced' => on[c] \notin raced /\ \A b \in Session \ {c} :
                on[b] = on[c] => at[b] \notin {"claiming", "saving", "ending"}
    BY <1>1, <1>2, AssignedFacts
<1>4. /\ at'[c] = "idle" /\ on'[c] = NoCase
      /\ \A b \in Session \ {c} : /\ at'[b] = at[b] /\ on'[b] = on[b]
                                  /\ born'[b] = born[b] /\ current'[b] = current[b]
    BY <1>1, IdleFacts
<1>5. ASSUME NEW s \in rows', s # n
      PROVE  \E r \in rows :
               /\ s.created = r.created /\ s.household = r.household /\ s.from = r.from
               /\ \/ s = r /\ r.created # current[c]
                  \/ s.to = day[c] /\ r.created = current[c] /\ r.household = on[c]
                     /\ r.from <= day[c]
    <2>1. ASSUME NEW r \in rows, s = [r EXCEPT !.to = day[c]]
          PROVE  /\ s.created = r.created /\ s.household = r.household /\ s.from = r.from
                 /\ s.to = day[c]
        BY <2>1, <1>1 DEF TypeOK
    <2> QED BY <2>1, <1>5, <1>0, ReassignFacts
<1> SUFFICES ASSUME NEW h \in Household \ raced'
             PROVE  /\ last'[h] # NoOne => \E r \in rows' : r.household = h /\ Latest(r)'
                    /\ \A b \in Session : on'[b] = h =>
                        /\ at'[b] \in {"claiming", "saving"} => last'[h] = NoOne
                        /\ at'[b] = "ending" => \A r \in rows' : r.household = h =>
                            r.created < born'[b] /\ (r.to = Open => r.created = current'[b])
    BY DEF UnracedInv
<1>6. CASE h = on[c]
    <2>1. ASSUME NEW r \in rows, r.household = h
          PROVE  /\ r.created < born[c] /\ r.from <= day[c]
                 /\ r.to = Open => r.created = current[c]
        <3>1. r.created < born[c] /\ (r.to = Open => r.created = current[c])
            BY <1>1, <1>3, <1>6, <2>1 DEF UnracedInv
        <3>2. last[h] # NoOne /\ h \in Household \ raced
            BY <1>3, <1>6, <2>1 DEF Inv, OpenInv
        <3>3. PICK q \in rows : q.household = h /\ Latest(q)
            BY <3>2 DEF UnracedInv
        <3>4. q.to = Open /\ (r # q => Later(q, r))
            BY <2>1, <3>3 DEF Latest
        <3>5. q.created = current[c]
            BY <1>1, <1>3, <1>6, <3>3, <3>4 DEF UnracedInv
        <3>6. q.from <= day[c]
            BY <3>5 DEF CommitReassign
        <3>7. q.from \in Nat /\ r.from \in Nat /\ day[c] \in Nat
            BY <1>1 DEF TypeOK
        <3> QED BY <3>1, <3>4, <3>6, <3>7 DEF Later
    <2>2. day[c] # Open
        BY <1>1 DEF TypeOK
    <2>3. ASSUME NEW s \in rows', s # n, s.household = h PROVE Later(n, s) /\ s.to # Open
        <3>1. PICK r \in rows :
                /\ s.created = r.created /\ s.household = r.household /\ s.from = r.from
                /\ \/ s = r /\ r.created # current[c]
                   \/ s.to = day[c] /\ r.created = current[c]
            BY <1>5, <2>3
        <3>2. s.to # Open
            BY <3>1, <2>1, <2>2, <2>3
        <3>3. s.created < n.created /\ s.from <= n.from
            BY <3>1, <2>1, <2>3, <1>2
        <3>4. s.from \in Nat /\ n.from \in Nat
            BY <3>1, <1>1, <1>2 DEF TypeOK
        <3> QED BY <3>2, <3>3, <3>4 DEF Later
    <2>4. Latest(n)'
        BY <2>3, <1>2, <1>3, <1>6 DEF Latest, Later
    <2>5. \A b \in Session : on'[b] = h => at'[b] \notin {"claiming", "saving", "ending"}
        BY <1>1, <1>3, <1>4, <1>6
    <2> QED BY <2>4, <2>5, <1>2, <1>6
<1>7. CASE h # on[c]
    <2>1. h \in Household \ raced /\ last'[h] = last[h]
        BY <1>3, <1>7
    <2>2. \A s \in rows' : s.household = h => s \in rows
        BY <1>2, <1>5, <1>7
    <2>3. \A r \in rows : r.household = h => r \in rows'
        <3> SUFFICES ASSUME NEW r \in rows, r.household = h PROVE r.created # current[c]
            BY ReassignFacts
        <3>1. r.created # 0
            BY DEF Inv, FreshInv, TypeOK
        <3> QED BY <3>1, <1>1, <1>7 DEF Inv, RequestInv, TypeOK
    <2>4. ASSUME NEW r \in rows, r.household = h, Latest(r) PROVE Latest(r)'
        BY <2>1, <2>2, <2>4 DEF Latest, Later
    <2>5. last'[h] # NoOne => \E r \in rows' : r.household = h /\ Latest(r)'
        BY <2>1, <2>3, <2>4 DEF UnracedInv
    <2>6. \A b \in Session : on'[b] = h => b # c
        BY <1>4, <1>7
    <2> QED BY <2>1, <2>2, <2>5, <2>6, <1>4 DEF UnracedInv
<1> QED BY <1>6, <1>7

LEMMA UnracedSave ==
    ASSUME Inv, UnracedInv, NEW c \in Session, StartSave(c)
    PROVE  UnracedInv'
<1>1. /\ UNCHANGED <<rows, last, raced, on, current>>
      /\ at[c] = "claiming" /\ at'[c] = "saving"
      /\ \A b \in Session \ {c} : at'[b] = at[b] /\ born'[b] = born[b]
    BY DEF StartSave, Inv, TypeOK
<1> QED BY <1>1 DEF UnracedInv, Latest, Later

LEMMA UnracedStep == Inv /\ UnracedInv /\ [Next]_vars => UnracedInv'
<1> SUFFICES ASSUME Inv, UnracedInv, [Next]_vars PROVE UnracedInv'
    OBVIOUS
<1>1. CASE UNCHANGED vars \/ Midnight
    <2>1. rows' = rows /\ last' = last /\ raced' = raced /\ \A b \in Session : Stays(b)
        BY <1>1 DEF vars, Midnight, Stays
    <2> QED BY <2>1, UnracedSame
<1>2. ASSUME NEW c \in Session, Enter(c) \/ Provision(c) PROVE UnracedInv'
    <2>1. rows' = rows /\ last' = last /\ raced' = raced /\ \A b \in Session : Stays(b)
        BY <1>2 DEF Enter, Provision, Stays, Inv, TypeOK
    <2> QED BY <2>1, UnracedSame
<1>3. ASSUME NEW c \in Session, NEW h \in Household, ViewAsSupervisor(c, h) PROVE UnracedInv'
    <2>1. rows' = rows /\ last' = last /\ raced' = raced /\ \A b \in Session : Stays(b)
        BY <1>3 DEF ViewAsSupervisor, Stays, Inv, TypeOK
    <2> QED BY <2>1, UnracedSame
<1>4. ASSUME NEW c \in Session, NEW h \in Household, NEW w \in Worker, StartReassign(c, h, w)
      PROVE  UnracedInv'
    <2>1. rows' = rows /\ last' = last /\ raced' = raced /\ \A b \in Session : Stays(b)
        BY <1>4 DEF StartReassign, Stays, Inv, TypeOK
    <2> QED BY <2>1, UnracedSame
<1>5. ASSUME NEW c \in Session, Act(c) \/ Fail(c) PROVE UnracedInv'
    <2>1. rows' = rows /\ last' = last /\ raced' = raced /\ \A b \in Session : Stays(b)
        BY <1>5, IdleFacts DEF Act, Fail, Stays, Inv
    <2> QED BY <2>1, UnracedSame
<1> QED BY <1>1, <1>2, <1>3, <1>4, <1>5, UnracedSave, UnracedTouch, UnracedRead, UnracedClaim,
           UnracedReassign
        DEF Next, Request

LEMMA AlwaysUnraced == Spec => []UnracedInv
<1>1. Init => UnracedInv
    BY DEF Init, UnracedInv
<1> QED BY <1>1, UnracedStep, AlwaysInv, PTL DEF Spec

\* Without a race the worker assigned last holds the household, whatever day
\* and in whatever order the assignments were made.
THEOREM LastAssignedHolds == Spec => []HeldByLastAssigned
<1>1. Inv /\ UnracedInv => HeldByLastAssigned
    BY LastHolds DEF HeldByLastAssigned, Holds
<1> QED BY <1>1, AlwaysInv, AlwaysUnraced, PTL

\* Without a race a dashboard lists a household its worker does not hold only
\* on the day it was taken away.
THEOREM ListedWhileHeld == Spec => []ListedToHolder
<1>1. Inv /\ UnracedInv => ListedToHolder
    <2> SUFFICES ASSUME Inv, UnracedInv, NEW h \in Household \ raced, NEW w \in Worker,
                        Listed(w, h, today), ~ Holds(w, h, today)
                 PROVE  \E r \in rows : r.household = h /\ r.worker = w /\ r.to = today
        BY DEF ListedToHolder
    <2>1. PICK r \in rows : r.household = h /\ r.worker = w /\ today <= r.to
        BY DEF Listed, Active
    <2>2. last[h] # NoOne
        BY <2>1 DEF Inv, OpenInv
    <2>3. PICK q \in rows : q.household = h /\ Latest(q) /\ First(h, today) = {q}
        BY <2>2, LastHolds
    <2>4. r # q
        BY <2>1, <2>3 DEF Holds
    <2>5. r.to # Open
        BY <2>1, <2>3, <2>4 DEF Latest
    <2>6. r.to <= today /\ r.to \in Nat /\ today \in Nat
        BY <2>5 DEF Inv, FreshInv, TypeOK
    <2> QED BY <2>1, <2>6
<1> QED BY <1>1, AlwaysInv, AlwaysUnraced, PTL

LEMMA AdmitStep == Inv /\ UnracedInv /\ AdmitInv /\ [Next]_vars => AdmitInv'
<1> SUFFICES ASSUME Inv, UnracedInv, AdmitInv, [Next]_vars, NEW b \in Session,
                    at'[b] = "admitted", WorkerOf[b] \notin Supervisor, b \notin moved',
                    on'[b] \notin raced'
             PROVE  last'[on'[b]] = WorkerOf[b]
    BY DEF AdmitInv
<1>1. CASE UNCHANGED vars \/ Midnight
    BY <1>1 DEF vars, Midnight, AdmitInv
<1>2. ASSUME NEW c \in Session, Enter(c) \/ Provision(c) \/ StartSave(c) \/ ReadCurrent(c)
      PROVE  last'[on'[b]] = WorkerOf[b]
    BY <1>2 DEF Enter, Provision, StartSave, ReadCurrent, Inv, TypeOK, AdmitInv
<1>3. ASSUME NEW c \in Session, NEW h \in Household, ViewAsSupervisor(c, h)
      PROVE  last'[on'[b]] = WorkerOf[b]
    BY <1>3 DEF ViewAsSupervisor, Inv, TypeOK, AdmitInv
<1>4. ASSUME NEW c \in Session, NEW h \in Household, Touch(c, h)
      PROVE  last'[on'[b]] = WorkerOf[b]
    <2>1. UNCHANGED <<last, raced, moved>>
        BY <1>4 DEF Touch
    <2>2. CASE b # c
        BY <1>4, <2>1, <2>2 DEF Touch, Inv, TypeOK, AdmitInv
    <2>3. CASE b = c
        <3>1. on'[b] = h /\ First(h, today) # {} /\ Holds(WorkerOf[b], h, today)
            BY <1>4, <2>3 DEF Touch, Inv, TypeOK
        <3>2. last[h] # NoOne
            BY <3>1 DEF First, Active, Inv, OpenInv
        <3>3. last[h] = WorkerOf[b]
            BY <3>1, <3>2, <2>1, LastHolds DEF Holds
        <3> QED BY <3>1, <3>3, <2>1
    <2> QED BY <2>2, <2>3
<1>5. ASSUME NEW c \in Session, NEW h \in Household, NEW w \in Worker, StartReassign(c, h, w)
      PROVE  last'[on'[b]] = WorkerOf[b]
    BY <1>5 DEF StartReassign, Inv, TypeOK, AdmitInv
<1>6. ASSUME NEW c \in Session, Act(c) \/ Fail(c) PROVE last'[on'[b]] = WorkerOf[b]
    <2>1. b # c /\ at[b] = "admitted" /\ on'[b] = on[b]
        BY <1>6, IdleFacts DEF Act, Fail, Inv
    <2> QED BY <1>6, <2>1 DEF Act, Fail, AdmitInv
<1>7. ASSUME NEW c \in Session, CommitClaim(c) PROVE last'[on'[b]] = WorkerOf[b]
    <2>1. /\ on[c] \in Household /\ Assigned(c, on[c], WorkerOf[c]) /\ on' = on /\ TypeOK
          /\ WorkerOf[c] \in Worker
          /\ \A d \in Session \ {c} : at'[d] = at[d]
        BY <1>7, ClaimFacts DEF CommitClaim, Inv, TypeOK
    <2>2. CASE b = c
        BY <2>1, <2>2, AssignedFacts
    <2>3. CASE b # c
        <3>1. at[b] = "admitted" /\ b \notin moved /\ on[b] # on[c] /\ on[b] \in Household
              /\ on[b] \notin raced /\ last'[on[b]] = last[on[b]]
            BY <2>1, <2>3, AssignedFacts DEF Inv, RequestInv
        <3> QED BY <3>1, <2>1 DEF AdmitInv
    <2> QED BY <2>2, <2>3
<1>8. ASSUME NEW c \in Session, CommitReassign(c) PROVE last'[on'[b]] = WorkerOf[b]
    <2>1. on[c] \in Household /\ target[c] \in Worker /\ Assigned(c, on[c], target[c])
          /\ Idle(c) /\ TypeOK
        BY <1>8, ReassignFacts DEF CommitReassign, Inv
    <2>2. b # c /\ at[b] = "admitted" /\ on'[b] = on[b]
        BY <2>1, IdleFacts
    <2>3. b \notin moved /\ on[b] # on[c] /\ on[b] \in Household
          /\ on[b] \notin raced /\ last'[on[b]] = last[on[b]]
        BY <2>1, <2>2, AssignedFacts DEF Inv, RequestInv
    <2> QED BY <2>2, <2>3 DEF AdmitInv
<1> QED BY <1>1, <1>2, <1>3, <1>4, <1>5, <1>6, <1>7, <1>8 DEF Next, Request

\* A worker acting on a household holds it, unless it was assigned since the
\* check or two assignments raced.
THEOREM AdmittedHolds == Spec => []AdmittedIsHolder
<1>1. Init => AdmitInv
    BY DEF Init, AdmitInv
<1>2. Inv /\ UnracedInv /\ AdmitInv => AdmittedIsHolder
    <2> SUFFICES ASSUME Inv, UnracedInv, AdmitInv, NEW c \in Session, at[c] = "admitted",
                        WorkerOf[c] \notin Supervisor, c \notin moved, on[c] \notin raced
                 PROVE  Holds(WorkerOf[c], on[c], today)
        BY DEF AdmittedIsHolder
    <2>1. on[c] \in Household \ raced /\ last[on[c]] = WorkerOf[c] /\ WorkerOf[c] \in Worker
        BY DEF Inv, RequestInv, AdmitInv
    <2>2. last[on[c]] # NoOne
        BY <2>1
    <2> QED BY <2>1, <2>2, LastHolds DEF Holds
<1> QED BY <1>1, <1>2, AdmitStep, AlwaysInv, AlwaysUnraced, PTL DEF Spec
=============================================================================
