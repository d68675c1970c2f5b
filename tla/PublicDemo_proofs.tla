------------------------- MODULE PublicDemo_proofs -------------------------
(***************************************************************************)
(* Proofs about PublicDemo for any number of requests and sessions, any    *)
(* cap, limit and cost, any calendar and any number of restarts.           *)
(***************************************************************************)
EXTENDS PublicDemo, TLAPS

InSection(r) == at[r] \in {"check", "paid", "record", "key", "write"}

\* The section under the flock has one thread in it, its holder.
LockInv == \A r \in Request : InSection(r) <=> holder = r

Spent == billed - lost

\* The file tells what was spent, no less and, but for what was carried over
\* midnight, no more.
Settled == Spent <= ReadSpend /\ ReadSpend <= billed + carried

\* The bill of a call that began in this month, or else nothing.
Owed == IF bill.month = Now THEN bill.cost ELSE 0

\* What the holder's sum is worth: it replaces the file's if the month is
\* still the one it is recorded under, and nothing was spent if it is not.
SumHolds == IF bill.month = Now THEN Spent <= bill.sum /\ bill.sum <= billed + carried
                                ELSE Spent <= 0

\* What is known of the money at each statement of the section.
SectionInv ==
    \A r \in Request :
        /\ at[r] = "check" /\ file.is # "torn" => Settled
        /\ at[r] = "paid" => file.is # "torn" /\ Settled /\ Spent <= Cap - 1
        /\ at[r] = "record" => /\ file.is # "torn" /\ Spent <= ReadSpend + Owed
                               /\ ReadSpend + Owed <= billed + carried
        /\ at[r] = "key" => /\ file.is # "torn" /\ SumHolds
                            /\ IF bill.month = Now THEN bill.sum = ReadSpend + bill.cost
                                                   ELSE ReadSpend = 0
        /\ at[r] = "write" => file.is = "torn" /\ SumHolds

MoneyInv ==
    /\ file.is = "ok" => file.month <= Now
    /\ bill.month <= Now
    /\ Spent <= Cap - 1 + MaxCost
    /\ holder = NoOne /\ file.is # "torn" => Settled
    /\ SectionInv

Inv == TypeOK /\ LockInv /\ MoneyInv

\* The counter is at its newest key or, after a late request, at an older
\* one; what a day granted beyond its count is paid for by late requests.
LimitInv ==
    \A s \in Session :
        /\ counts[s].n <= Limit
        /\ \A d \in Day :
            /\ d < counts[s].day => granted[s][d] <= Limit * late[s] + Limit
            /\ d = counts[s].day => granted[s][d] <= Limit * late[s] + counts[s].n
            /\ d > counts[s].day => granted[s][d] <= Limit * late[s]

USE DemoAssumption
USE DEF vars, threads, spending, observed, limiter

-----------------------------------------------------------------------------
(* The calendar, and the helpers                                           *)

LEMMA MonthFacts ==
    \A d \in Day : /\ MonthOf(d) \in Month
                   /\ d + 1 \in Day => MonthOf(d) <= MonthOf(d + 1)
<1> SUFFICES ASSUME NEW d \in Day
             PROVE  /\ MonthOf(d) \in Month
                    /\ d + 1 \in Day => MonthOf(d) <= MonthOf(d + 1)
    OBVIOUS
<1>1. \A a, b \in Nat : a <= b => a \div MonthDays <= b \div MonthDays
    OBVIOUS
<1>2. \A a \in Nat : a \div MonthDays \in Nat
    OBVIOUS
<1> QED BY <1>1, <1>2 DEF Day, Month, MonthOf

LEMMA Calendar == TypeOK => Now \in Nat /\ ReadSpend \in Nat /\ Now \in Month
<1>1. TypeOK => Now \in Month
    BY MonthFacts DEF TypeOK, Now
<1>2. TypeOK => Month \subseteq Nat
    BY MonthFacts DEF Month, TypeOK, Day
<1> QED BY <1>1, <1>2 DEF TypeOK, ReadSpend

LEMMA EndFacts ==
    ASSUME TypeOK, NEW r \in Request, NEW a \in Reply, End(r, a)
    PROVE  /\ at'[r] = "done" /\ \A q \in Request \ {r} : at'[q] = at[q]
           /\ at'    \in [Request -> {"idle", "limiter", "search", "free", "lock", "check", "paid",
                                      "record", "key", "write", "done"}]
           /\ job'   \in [Request -> Job]
           /\ reply' \in [Request -> Reply]
           /\ today' \in [Request -> Day]
           /\ session' = session
<1>1. 0 \in Day
    BY DEF Day
<1> QED BY <1>1 DEF End, For, TypeOK, Job

\* A text that was used leaves the section, whatever it was for.
LEMMA UseFacts ==
    ASSUME TypeOK, NEW r \in Request, Use(r)
    PROVE  /\ at'[r] \in {"search", "free", "done"} /\ \A q \in Request \ {r} : at'[q] = at[q]
           /\ at'    \in [Request -> {"idle", "limiter", "search", "free", "lock", "check", "paid",
                                      "record", "key", "write", "done"}]
           /\ job'   \in [Request -> Job]
           /\ reply' \in [Request -> Reply]
           /\ today' \in [Request -> Day]
           /\ session' = session
<1>1. CASE \E a \in {"refused", "answer"} : End(r, a)
    BY <1>1, EndFacts DEF Reply
<1>2. CASE \E purpose \in {"draft", "redraft", "output"}, stage \in {"search", "free"} :
                For(r, purpose) /\ Go(r, stage)
    BY <1>2 DEF For, Go, TypeOK, Job
<1> QED BY <1>1, <1>2 DEF Use

LEMMA UnavailableFacts ==
    ASSUME TypeOK, NEW r \in Request, Unavailable(r)
    PROVE  \E a \in Reply : End(r, a)
BY DEF Unavailable, Reply

-----------------------------------------------------------------------------
(* Types                                                                   *)

LEMMA TypeStep == TypeOK /\ [Next]_vars => TypeOK'
<1> SUFFICES ASSUME TypeOK, [Next]_vars PROVE TypeOK'
    OBVIOUS
<1>0. Now \in Month /\ Now \in Nat /\ ReadSpend \in Nat /\ 0 \in Day /\ 0 \in Month /\ Cost \subseteq Nat
    <2>1. 0 \in Day /\ Cost \subseteq Nat
        BY DEF Day, Cost
    <2>2. Now >= 0 /\ MonthOf(LastDay) \in Nat /\ Now <= MonthOf(LastDay)
        BY Calendar, MonthFacts DEF Month, Day
    <2> QED BY <2>1, <2>2, Calendar DEF Month
<1>1. ASSUME NEW r \in Request, Thread(r) PROVE TypeOK'
    <2>1. CASE Ask(r)
        BY <2>1 DEF Ask, TypeOK
    <2>2. CASE TooMany(r)
        BY <2>2, EndFacts DEF TooMany, TypeOK, Reply
    <2>3. CASE Admit(r)
        <3>1. Counted(r) \in Nat
            BY DEF Counted, TypeOK
        <3>2. session[r] \in Session /\ today[r] \in Day
            BY DEF TypeOK
        <3>3. counts' \in [Session -> [day : Day, n : Nat]]
            BY <2>3, <3>1, <3>2 DEF Admit, TypeOK
        <3>4. granted' \in [Session -> [Day -> Nat]]
            BY <2>3, <3>2 DEF Admit, TypeOK
        <3>5. late' \in [Session -> Nat]
            BY <2>3, <3>2 DEF Admit, TypeOK
        <3> QED BY <2>3, <1>0, <3>3, <3>4, <3>5 DEF Admit, TypeOK
    <2>4. CASE Search(r)
        <3>1. CASE End(r, "error")
            BY <2>4, <3>1, EndFacts DEF Search, TypeOK, Reply
        <3>2. CASE \E next \in {"draft", "output"} : For(r, next) /\ Go(r, "free")
            BY <2>4, <3>2 DEF Search, For, Go, TypeOK, Job
        <3> QED BY <2>4, <3>1, <3>2 DEF Search
    <2>5. CASE FreeAnswers(r)
        BY <2>5, UseFacts DEF FreeAnswers, TypeOK
    <2>6. CASE FreeFails(r)
        <3>1. CASE End(r, "error")
            BY <2>6, <3>1, EndFacts DEF FreeFails, TypeOK, Reply
        <3>2. CASE Go(r, "lock") /\ UNCHANGED job
            BY <2>6, <3>2 DEF FreeFails, Go, TypeOK
        <3> QED BY <2>6, <3>1, <3>2 DEF FreeFails
    <2>7. CASE TakeLock(r)
        BY <2>7, <1>0 DEF TakeLock, Go, NoBill, TypeOK
    <2>8. CASE Unreadable(r)
        BY <2>8, <1>0, EndFacts DEF Unreadable, Release, NoBill, TypeOK, Reply
    <2>9. CASE Refuse(r)
        BY <2>9, <1>0, EndFacts, UnavailableFacts DEF Refuse, Release, NoBill, TypeOK
    <2>10. CASE Allow(r)
        BY <2>10 DEF Allow, Go, TypeOK
    <2>11. CASE PaidAnswers(r)
        <3>1. billed' \in Nat /\ lost' \in Nat /\ bill' \in [cost : Nat, sum : Nat, month : Month]
            <4>1. PICK c \in Cost, known \in BOOLEAN :
                    /\ billed' = billed + c
                    /\ lost' = IF known THEN lost ELSE lost + c
                    /\ bill' = [NoBill EXCEPT !.cost = IF known THEN c ELSE 0, !.month = Now]
                BY <2>11 DEF PaidAnswers
            <4>2. c \in Nat /\ billed \in Nat /\ lost \in Nat
                BY <1>0 DEF TypeOK
            <4>3. bill' = [cost |-> IF known THEN c ELSE 0, sum |-> 0, month |-> Now]
                BY <4>1 DEF NoBill
            <4>4. billed' \in Nat /\ lost' \in Nat
                BY <4>1, <4>2
            <4>5. (IF known THEN c ELSE 0) \in Nat
                BY <4>2
            <4> QED BY <1>0, <4>3, <4>4, <4>5
        <3> QED BY <2>11, <3>1 DEF PaidAnswers, Go, TypeOK
    <2>12. CASE PaidFails(r)
        <3>1. billed' \in Nat /\ lost' \in Nat /\ carried' \in Nat
            BY <2>12, <1>0 DEF PaidFails, TypeOK
        <3>2. \E a \in Reply : End(r, a)
            BY <2>12, UnavailableFacts DEF PaidFails, Reply
        <3> QED BY <2>12, <1>0, <3>1, <3>2, EndFacts DEF PaidFails, Release, NoBill, TypeOK
    <2>13. CASE Sum(r)
        BY <2>13, <1>0 DEF Sum, NewSum, Go, TypeOK
    <2>14. CASE Truncate(r)
        <3>1. carried' \in Nat
            BY <2>14 DEF Truncate, TypeOK
        <3>2. bill' \in [cost : Nat, sum : Nat, month : Month]
            BY <2>14, <1>0 DEF Truncate, TypeOK
        <3>3. file' \in [is : {"none", "torn", "ok"}, month : Month, spent : Nat]
            BY <2>14, <1>0 DEF Truncate
        <3>4. at' \in [Request -> {"idle", "limiter", "search", "free", "lock", "check", "paid",
                                   "record", "key", "write", "done"}]
            BY <2>14 DEF Truncate, Go, TypeOK
        <3> QED BY <2>14, <3>1, <3>2, <3>3, <3>4 DEF Truncate, Go, TypeOK
    <2>15. CASE Write(r)
        BY <2>15, <1>0, UseFacts DEF Write, Release, NoBill, TypeOK
    <2> QED BY <1>1, <2>1, <2>2, <2>3, <2>4, <2>5, <2>6, <2>7, <2>8, <2>9, <2>10, <2>11,
               <2>12, <2>13, <2>14, <2>15 DEF Thread
<1>2. CASE NextDay
    <2>1. day' \in Day
        BY <1>2 DEF NextDay, TypeOK, Day
    <2>2. billed' \in Nat /\ lost' \in Nat /\ carried' \in Nat
        BY <1>2 DEF NextDay, TypeOK
    <2> QED BY <1>2, <2>1, <2>2 DEF NextDay, TypeOK
<1>3. CASE Restart
    <2>1. billed' \in Nat /\ lost' \in Nat
        BY <1>3, <1>0 DEF Restart, TypeOK
    <2>2. restarts' \in 0..MaxRestarts /\ counts' \in [Session -> [day : Day, n : Nat]]
          /\ granted' \in [Session -> [Day -> Nat]] /\ late' \in [Session -> Nat]
        BY <1>3, <1>0 DEF Restart, TypeOK
    <2> QED BY <1>3, <1>0, <2>1, <2>2 DEF Restart, Release, NoBill, TypeOK, Job, Reply
<1>4. CASE UNCHANGED vars
    BY <1>4 DEF TypeOK
<1> QED BY <1>1, <1>2, <1>3, <1>4 DEF Next

LEMMA TypeInit == Init => TypeOK
<1>1. 0 \in Day /\ 0 \in Month
    BY MonthFacts DEF Day, Month
<1> QED BY <1>1 DEF Init, TypeOK, NoBill, Job, Reply

\* Every variable keeps its type.
THEOREM TypeCorrect == Spec => []TypeOK
BY TypeInit, TypeStep, PTL DEF Spec

-----------------------------------------------------------------------------
(* The section under the lock                                              *)

\* Outside the section a thread touches neither the file nor the money.
LEMMA Outside ==
    ASSUME Inv, TypeOK', NEW r \in Request, ~InSection(r), ~InSection(r)',
           \A q \in Request \ {r} : at'[q] = at[q],
           UNCHANGED <<day, spending, observed>>
    PROVE  LockInv' /\ MoneyInv'
<1>1. Now' = Now /\ ReadSpend' = ReadSpend /\ Spent' = Spent /\ Owed' = Owed
    BY DEF Now, ReadSpend, Spent, Owed
<1>2. LockInv'
    BY DEF Inv, LockInv, InSection
<1>3. SectionInv'
    BY <1>1 DEF Inv, MoneyInv, SectionInv, InSection, Settled, SumHolds
<1> QED BY <1>1, <1>2, <1>3 DEF Inv, MoneyInv, Settled

\* The holder leaves it: nobody is in it, and the file must tell the truth.
LEMMA Leaving ==
    ASSUME Inv, TypeOK', NEW r \in Request, InSection(r), ~InSection(r)',
           \A q \in Request \ {r} : at'[q] = at[q],
           Release, UNCHANGED day,
           file'.is = "ok" => file'.month <= Now,
           Spent' <= Cap - 1 + MaxCost,
           file'.is # "torn" => Settled'
    PROVE  LockInv' /\ MoneyInv'
<1>1. \A q \in Request : ~InSection(q)'
    BY DEF Inv, LockInv, InSection
<1>2. holder' = NoOne /\ bill'.month = 0 /\ Now' = Now
    BY DEF Release, NoBill, Now
<1>3. LockInv'
    BY <1>1, <1>2 DEF LockInv
<1>4. bill'.month <= Now'
    BY <1>2, Calendar DEF Inv
<1>5. SectionInv'
    BY <1>1 DEF SectionInv, InSection
<1> QED BY <1>2, <1>3, <1>4, <1>5 DEF MoneyInv

\* The holder goes on: the others stay outside.
LEMMA Alone ==
    ASSUME Inv, NEW r \in Request, InSection(r), InSection(r)',
           \A q \in Request \ {r} : at'[q] = at[q], holder' = holder
    PROVE  LockInv' /\ holder' = r /\ holder' # NoOne
           /\ \A q \in Request \ {r} : ~InSection(q)'
BY DEF Inv, LockInv, InSection

LEMMA NumberFacts ==
    ASSUME TypeOK
    PROVE  /\ billed \in Nat /\ lost \in Nat /\ carried \in Nat /\ Spent \in Int
           /\ ReadSpend \in Nat /\ Now \in Nat
           /\ bill.cost \in Nat /\ bill.sum \in Nat /\ bill.month \in Nat
           /\ file.month \in Nat /\ file.spent \in Nat /\ Owed \in Nat
<1>1. Month \subseteq Nat
    BY MonthFacts DEF Month, Day
<1>2. /\ bill.cost \in Nat /\ bill.sum \in Nat /\ bill.month \in Nat
      /\ file.month \in Nat /\ file.spent \in Nat
    BY <1>1 DEF TypeOK
<1>3. billed \in Nat /\ lost \in Nat /\ carried \in Nat
    BY DEF TypeOK
<1>4. Spent \in Int
    BY <1>3 DEF Spent
<1>5. Owed \in Nat
    BY <1>2 DEF Owed
<1> QED BY <1>2, <1>3, <1>4, <1>5, Calendar

LEMMA SectionStep ==
    ASSUME Inv, TypeOK', NEW r \in Request, Thread(r)
    PROVE  LockInv' /\ MoneyInv'
<1>0. TypeOK /\ LockInv /\ MoneyInv /\ SectionInv
    BY DEF Inv, MoneyInv
<1>1. CASE /\ at[r] \in {"idle", "limiter", "search", "free"}
           /\ UNCHANGED <<day, spending, observed>>
           /\ at'[r] \in {"limiter", "search", "free", "lock", "done"}
           /\ \A q \in Request \ {r} : at'[q] = at[q]
    BY <1>1, Outside DEF InSection
<1>2. CASE Ask(r) \/ Admit(r)
    <2>1. at'[r] \in {"limiter", "free"} /\ \A q \in Request \ {r} : at'[q] = at[q]
        BY <1>2, <1>0 DEF Ask, Admit, TypeOK
    <2> QED BY <1>1, <1>2, <2>1 DEF Ask, Admit
<1>3. CASE TooMany(r)
    BY <1>1, <1>3, <1>0, EndFacts DEF TooMany, Reply
<1>4. CASE Search(r)
    <2>1. CASE End(r, "error")
        BY <1>1, <1>4, <2>1, <1>0, EndFacts DEF Search, Reply
    <2>2. CASE Go(r, "free")
        BY <1>1, <1>4, <2>2, <1>0 DEF Search, Go, TypeOK
    <2> QED BY <1>4, <2>1, <2>2 DEF Search
<1>5. CASE FreeAnswers(r)
    BY <1>1, <1>5, <1>0, UseFacts DEF FreeAnswers
<1>6. CASE FreeFails(r)
    <2>1. CASE End(r, "error")
        BY <1>1, <1>6, <2>1, <1>0, EndFacts DEF FreeFails, Reply
    <2>2. CASE Go(r, "lock")
        BY <1>1, <1>6, <2>2, <1>0 DEF FreeFails, Go, TypeOK
    <2> QED BY <1>6, <2>1, <2>2 DEF FreeFails
<1>7. CASE TakeLock(r)
    <2>1. at'[r] = "check" /\ \A q \in Request \ {r} : at'[q] = at[q]
        BY <1>7, <1>0 DEF TakeLock, Go, TypeOK
    <2>2. holder = NoOne /\ holder' = r /\ \A q \in Request : ~InSection(q)
        BY <1>7, <1>0 DEF TakeLock, LockFree, LockInv
    <2>3. LockInv'
        BY <2>1, <2>2 DEF LockInv, InSection
    <2>4. /\ Now' = Now /\ ReadSpend' = ReadSpend /\ Spent' = Spent /\ file' = file
          /\ bill'.month = 0 /\ billed' = billed /\ carried' = carried
        BY <1>7 DEF TakeLock, Now, ReadSpend, Spent, NoBill
    <2>5. file.is # "torn" => Settled
        BY <1>0, <2>2 DEF MoneyInv
    <2>6. SectionInv'
        BY <2>1, <2>2, <2>4, <2>5 DEF SectionInv, InSection, Settled
    <2> QED BY <1>0, <2>2, <2>3, <2>4, <2>6, NumberFacts DEF MoneyInv
<1>8. CASE Unreadable(r)
    <2>1. at'[r] = "done" /\ \A q \in Request \ {r} : at'[q] = at[q]
        BY <1>8, <1>0, EndFacts DEF Unreadable, Reply
    <2>2. Spent' = Spent /\ file' = file /\ file.is = "torn"
        BY <1>8 DEF Unreadable, Spent
    <2> QED BY <1>8, <1>0, <2>1, <2>2, Leaving DEF Unreadable, InSection, MoneyInv
<1>9. CASE Refuse(r)
    <2>1. at'[r] = "done" /\ \A q \in Request \ {r} : at'[q] = at[q]
        BY <1>9, <1>0, EndFacts, UnavailableFacts DEF Refuse
    <2>2. /\ Spent' = Spent /\ file' = file /\ file.is # "torn" /\ Now' = Now
          /\ ReadSpend' = ReadSpend /\ billed' = billed /\ carried' = carried
        BY <1>9 DEF Refuse, Spent, Now, ReadSpend
    <2>3. Settled
        BY <1>9, <1>0 DEF Refuse, SectionInv
    <2>4. Settled'
        BY <2>2, <2>3 DEF Settled
    <2> QED BY <1>9, <1>0, <2>1, <2>2, <2>4, Leaving DEF Refuse, InSection, MoneyInv
<1>10. CASE Allow(r)
    <2>1. at[r] = "check" /\ at'[r] = "paid" /\ \A q \in Request \ {r} : at'[q] = at[q]
        BY <1>10, <1>0 DEF Allow, Go, TypeOK
    <2>2. LockInv' /\ holder' # NoOne /\ \A q \in Request \ {r} : ~InSection(q)'
        BY <1>10, <2>1, Alone DEF Allow, InSection
    <2>3. /\ Spent' = Spent /\ file' = file /\ bill' = bill /\ Now' = Now
          /\ ReadSpend' = ReadSpend /\ billed' = billed /\ carried' = carried
        BY <1>10 DEF Allow, Spent, Now, ReadSpend
    <2>4. file.is # "torn" /\ Settled /\ ReadSpend < Cap
        BY <1>10, <1>0, <2>1 DEF Allow, SectionInv
    <2>5. Settled' /\ Spent' <= Cap - 1
        BY <1>0, <2>3, <2>4, NumberFacts DEF Settled
    <2>6. SectionInv'
        BY <2>1, <2>2, <2>3, <2>4, <2>5 DEF SectionInv, InSection
    <2> QED BY <1>0, <2>2, <2>3, <2>6 DEF MoneyInv
<1>11. CASE PaidAnswers(r)
    <2>1. at[r] = "paid" /\ at'[r] = "record" /\ \A q \in Request \ {r} : at'[q] = at[q]
        BY <1>11, <1>0 DEF PaidAnswers, Go, TypeOK
    <2>2. LockInv' /\ holder' # NoOne /\ \A q \in Request \ {r} : ~InSection(q)'
        BY <1>11, <2>1, Alone DEF PaidAnswers, InSection
    <2>3. file' = file /\ Now' = Now /\ ReadSpend' = ReadSpend /\ carried' = carried
        BY <1>11 DEF PaidAnswers, Now, ReadSpend
    <2>4. file.is # "torn" /\ Settled /\ Spent <= Cap - 1
        BY <1>0, <2>1 DEF SectionInv
    <2>5. PICK c \in Cost, known \in BOOLEAN :
            /\ billed' = billed + c
            /\ lost' = IF known THEN lost ELSE lost + c
            /\ bill' = [NoBill EXCEPT !.cost = IF known THEN c ELSE 0, !.month = Now]
        BY <1>11 DEF PaidAnswers
    <2>6. bill'.month = Now' /\ bill'.cost = (IF known THEN c ELSE 0) /\ Owed' = bill'.cost
        BY <2>3, <2>5 DEF NoBill, Owed
    <2>7. c \in Nat /\ c <= MaxCost
        BY DEF Cost
    <2>8. Spent' = Spent + bill'.cost /\ bill'.cost <= MaxCost /\ bill'.cost <= c /\ bill'.cost \in Nat
        <3>1. CASE known
            BY <1>0, <2>5, <2>6, <2>7, <3>1, NumberFacts DEF Spent
        <3>2. CASE ~known
            BY <1>0, <2>5, <2>6, <2>7, <3>2, NumberFacts DEF Spent
        <3> QED BY <3>1, <3>2
    <2>9. Spent' <= ReadSpend' + Owed' /\ ReadSpend' + Owed' <= billed' + carried'
        BY <1>0, <2>3, <2>4, <2>5, <2>6, <2>7, <2>8, NumberFacts DEF Settled
    <2>10. Spent' <= Cap - 1 + MaxCost
        BY <1>0, <2>4, <2>8, NumberFacts
    <2>11. SectionInv'
        BY <2>1, <2>2, <2>3, <2>4, <2>9 DEF SectionInv, InSection
    <2>12. bill'.month <= Now'
        BY <1>0, <2>3, <2>6, NumberFacts
    <2> QED BY <1>0, <2>2, <2>3, <2>10, <2>11, <2>12 DEF MoneyInv
<1>12. CASE PaidFails(r)
    <2>1. \E a \in Reply : End(r, a)
        BY <1>12, <1>0, UnavailableFacts DEF PaidFails, Reply
    <2>2. at[r] = "paid" /\ at'[r] = "done" /\ \A q \in Request \ {r} : at'[q] = at[q]
        BY <1>12, <1>0, <2>1, EndFacts DEF PaidFails
    <2>3. file' = file /\ Now' = Now /\ ReadSpend' = ReadSpend /\ carried' = carried
        BY <1>12 DEF PaidFails, Now, ReadSpend
    <2>4. PICK c \in Nat : billed' = billed + c /\ lost' = lost + c
        <3>1. CASE UNCHANGED observed
            BY <1>0, <3>1, NumberFacts
        <3>2. CASE \E c \in {0} \cup Cost : billed' = billed + c /\ lost' = lost + c
            BY <3>2 DEF Cost
        <3> QED BY <1>12, <3>1, <3>2 DEF PaidFails
    <2>5. Spent' = Spent
        BY <1>0, <2>4, NumberFacts DEF Spent
    <2>6. Settled
        BY <1>0, <2>2 DEF SectionInv
    <2>7. Settled'
        BY <1>0, <2>3, <2>4, <2>5, <2>6, NumberFacts DEF Settled
    <2> QED BY <1>12, <1>0, <2>2, <2>3, <2>5, <2>7, Leaving DEF PaidFails, InSection, MoneyInv
<1>13. CASE Sum(r)
    <2>1. at[r] = "record" /\ at'[r] = "key" /\ \A q \in Request \ {r} : at'[q] = at[q]
        BY <1>13, <1>0 DEF Sum, Go, TypeOK
    <2>2. LockInv' /\ holder' # NoOne /\ \A q \in Request \ {r} : ~InSection(q)'
        BY <1>13, <2>1, Alone DEF Sum, InSection
    <2>3. /\ file' = file /\ Now' = Now /\ ReadSpend' = ReadSpend /\ billed' = billed /\ Spent' = Spent
          /\ bill' = [cost |-> bill.cost, sum |-> NewSum, month |-> Now]
        BY <1>13 DEF Sum, Now, ReadSpend, Spent
    <2>4. /\ bill'.month = Now' /\ bill'.cost = bill.cost /\ bill'.sum = ReadSpend + bill.cost
        BY <2>3 DEF NewSum
    <2>5. /\ file.is # "torn" /\ Spent <= ReadSpend + Owed /\ ReadSpend + Owed <= billed + carried
        BY <1>0, <2>1 DEF SectionInv
    <2>6. carried' = IF bill.month = Now THEN carried ELSE carried + bill.cost
        BY <1>13 DEF Sum
    <2>7. bill'.sum <= billed' + carried' /\ Spent' <= bill'.sum
        BY <1>0, <2>3, <2>4, <2>5, <2>6, NumberFacts DEF Owed
    <2>8. SectionInv'
        BY <2>1, <2>2, <2>3, <2>4, <2>5, <2>7 DEF SectionInv, InSection, SumHolds
    <2>9. bill'.month <= Now'
        BY <1>0, <2>3, <2>4, NumberFacts
    <2> QED BY <1>0, <2>2, <2>3, <2>8, <2>9 DEF MoneyInv
<1>14. CASE Truncate(r)
    <2>1. at[r] = "key" /\ at'[r] = "write" /\ \A q \in Request \ {r} : at'[q] = at[q]
        BY <1>14, <1>0 DEF Truncate, Go, TypeOK
    <2>2. LockInv' /\ holder' # NoOne /\ \A q \in Request \ {r} : ~InSection(q)'
        BY <1>14, <2>1, Alone DEF Truncate, InSection
    <2>3. /\ file'.is = "torn" /\ Now' = Now /\ billed' = billed /\ Spent' = Spent
          /\ bill' = [bill EXCEPT !.month = Now]
        BY <1>14 DEF Truncate, Now, Spent
    <2>4. bill'.month = Now' /\ bill'.sum = bill.sum
        BY <1>0, <2>3 DEF TypeOK
    <2>5. SumHolds
        BY <1>0, <2>1 DEF SectionInv
    <2>6. carried' = IF bill.month = Now THEN carried ELSE carried + bill.sum
        BY <1>14 DEF Truncate
    <2>7. bill'.sum <= billed' + carried' /\ Spent' <= bill'.sum
        BY <1>0, <2>3, <2>4, <2>5, <2>6, NumberFacts DEF SumHolds
    <2>8. SectionInv'
        BY <2>1, <2>2, <2>3, <2>4, <2>7 DEF SectionInv, InSection, SumHolds
    <2>9. bill'.month <= Now'
        BY <1>0, <2>3, <2>4, NumberFacts
    <2> QED BY <1>0, <2>2, <2>3, <2>8, <2>9 DEF MoneyInv
<1>15. CASE Write(r)
    <2>1. at[r] = "write" /\ ~InSection(r)' /\ \A q \in Request \ {r} : at'[q] = at[q]
        BY <1>15, <1>0, UseFacts DEF Write, InSection
    <2>2. /\ Now' = Now /\ billed' = billed /\ carried' = carried /\ Spent' = Spent
          /\ file' = [is |-> "ok", month |-> bill.month, spent |-> bill.sum]
        BY <1>15 DEF Write, Now, Spent
    <2>3. ReadSpend' = IF bill.month = Now THEN bill.sum ELSE 0
        BY <2>2 DEF ReadSpend
    <2>4. SumHolds
        BY <1>0, <2>1 DEF SectionInv
    <2>5. Settled'
        BY <1>0, <2>2, <2>3, <2>4, NumberFacts DEF Settled, SumHolds
    <2> QED BY <1>15, <1>0, <2>1, <2>2, <2>5, Leaving DEF Write, InSection, MoneyInv
<1> QED BY <1>2, <1>3, <1>4, <1>5, <1>6, <1>7, <1>8, <1>9, <1>10, <1>11, <1>12, <1>13,
           <1>14, <1>15 DEF Thread

-----------------------------------------------------------------------------
(* The clock and the server                                                *)

LEMMA ClockStep ==
    ASSUME Inv, TypeOK', NextDay
    PROVE  LockInv' /\ MoneyInv'
<1>0. TypeOK /\ LockInv /\ MoneyInv /\ SectionInv
    BY DEF Inv, MoneyInv
<1>1. LockInv'
    BY <1>0 DEF NextDay, LockInv, InSection
<1>2. Now' = MonthOf(day + 1) /\ Now <= Now'
    BY <1>0, MonthFacts DEF NextDay, Now, TypeOK, Day
<1>3. CASE Now' = Now
    <2>1. /\ UNCHANGED <<at, spending, observed>>
          /\ ReadSpend' = ReadSpend /\ Spent' = Spent /\ Owed' = Owed
        BY <1>2, <1>3 DEF NextDay, ReadSpend, Spent, Owed
    <2>2. SectionInv'
        BY <1>0, <1>3, <2>1 DEF SectionInv, Settled, SumHolds
    <2> QED BY <1>0, <1>1, <1>3, <2>1, <2>2 DEF MoneyInv, Settled
<1>4. CASE Now' # Now
    <2>1. UNCHANGED <<at, spending>> /\ billed' = 0 /\ lost' = 0 /\ carried' = 0
        BY <1>2, <1>4 DEF NextDay
    <2>2. Now < Now' /\ Now' \in Nat
        <3>1. day + 1 \in Day
            BY <1>0 DEF NextDay, TypeOK, Day
        <3>2. MonthOf(day + 1) \in Nat
            BY <3>1, MonthFacts DEF Month, Day
        <3> QED BY <1>0, <1>2, <1>4, <3>2, Calendar
    <2>3. bill.month # Now' /\ bill.month <= Now' /\ (file.is = "ok" => file.month < Now')
        BY <1>0, <2>2, NumberFacts DEF MoneyInv
    <2>4. ReadSpend' = 0 /\ Spent' = 0 /\ Owed' = 0
        BY <1>0, <2>1, <2>2, <2>3, NumberFacts DEF ReadSpend, Spent, Owed
    <2>5. Settled' /\ SumHolds' /\ Spent' <= Cap - 1 /\ Spent' <= Cap - 1 + MaxCost
        BY <2>1, <2>3, <2>4 DEF Settled, SumHolds
    <2>6. SectionInv'
        BY <1>0, <2>1, <2>3, <2>4, <2>5 DEF SectionInv
    <2> QED BY <1>0, <1>1, <2>1, <2>2, <2>3, <2>5, <2>6, NumberFacts DEF MoneyInv
<1> QED BY <1>3, <1>4

LEMMA RestartStep ==
    ASSUME Inv, TypeOK', Restart
    PROVE  LockInv' /\ MoneyInv'
<1>0. TypeOK /\ LockInv /\ MoneyInv /\ SectionInv
    BY DEF Inv, MoneyInv
<1>1. \A q \in Request : ~InSection(q)'
    BY <1>0 DEF Restart, Running, InSection, TypeOK
<1>2. /\ holder' = NoOne /\ bill'.month = 0 /\ Now' = Now /\ file' = file
      /\ ReadSpend' = ReadSpend /\ carried' = carried
    BY DEF Restart, Release, NoBill, Now, ReadSpend
<1>3. LockInv' /\ SectionInv'
    BY <1>1, <1>2 DEF LockInv, SectionInv, InSection
<1>4. PICK c \in {0} \cup Cost :
        LET paying  == \E r \in Request : at[r] = "paid"
            unbilled == IF paying THEN c ELSE 0
            dropped  == IF \E r \in Request : at[r] \in {"record", "key", "write"} THEN bill.cost ELSE 0
        IN  /\ billed' = billed + unbilled
            /\ lost' = lost + unbilled + dropped
    BY DEF Restart
<1> DEFINE dropped == IF \E r \in Request : at[r] \in {"record", "key", "write"} THEN bill.cost ELSE 0
<1>5. PICK u \in Nat : billed' = billed + u /\ lost' = lost + u + dropped
    <2>1. CASE \E r \in Request : at[r] = "paid"
        BY <1>4, <2>1 DEF Cost
    <2>2. CASE ~\E r \in Request : at[r] = "paid"
        BY <1>4, <2>2
    <2> QED BY <2>1, <2>2
<1>6. dropped \in Nat
    BY <1>0, NumberFacts
<1>7. Spent' = Spent - dropped
    BY <1>0, <1>5, <1>6, NumberFacts DEF Spent
<1>8. Spent' <= Cap - 1 + MaxCost
    BY <1>0, <1>6, <1>7, NumberFacts DEF MoneyInv
<1>9. ASSUME file.is # "torn" PROVE Settled'
    <2>1. CASE holder = NoOne
        <3>1. Settled
            BY <1>0, <1>9, <2>1 DEF MoneyInv
        <3> QED BY <1>0, <1>2, <1>5, <1>6, <1>7, <3>1, NumberFacts DEF Settled
    <2>2. CASE holder # NoOne
        <3>1. PICK r \in Request : InSection(r)
            BY <1>0, <2>2 DEF LockInv, TypeOK
        <3>2. CASE at[r] \in {"check", "paid"}
            <4>1. Settled
                BY <1>0, <1>9, <3>2 DEF SectionInv
            <4> QED BY <1>0, <1>2, <1>5, <1>6, <1>7, <4>1, NumberFacts DEF Settled
        <3>3. CASE at[r] = "record"
            <4>1. dropped = bill.cost
                BY <3>3
            <4>2. Spent <= ReadSpend + Owed /\ ReadSpend + Owed <= billed + carried /\ Owed <= bill.cost
                BY <1>0, <3>3, NumberFacts DEF SectionInv, Owed
            <4> HIDE DEF dropped
            <4> QED BY <1>0, <1>2, <1>5, <1>7, <4>1, <4>2, NumberFacts DEF Settled
        <3>4. CASE at[r] = "key"
            <4>1. dropped = bill.cost
                BY <3>4
            <4>2. /\ bill.month = Now => /\ Spent <= bill.sum /\ bill.sum <= billed + carried
                                         /\ bill.sum = ReadSpend + bill.cost
                  /\ bill.month # Now => Spent <= 0 /\ ReadSpend = 0
                BY <1>0, <3>4 DEF SectionInv, SumHolds
            <4> HIDE DEF dropped
            <4> QED BY <1>0, <1>2, <1>5, <1>7, <4>1, <4>2, NumberFacts DEF Settled
        <3>5. at[r] # "write"
            BY <1>0, <1>9 DEF SectionInv
        <3> QED BY <3>1, <3>2, <3>3, <3>4, <3>5 DEF InSection
    <2> QED BY <2>1, <2>2
<1> QED BY <1>0, <1>2, <1>3, <1>8, <1>9, NumberFacts DEF MoneyInv

-----------------------------------------------------------------------------
(* The money                                                               *)

LEMMA InvInit == Init => Inv
<1> SUFFICES ASSUME Init PROVE Inv
    OBVIOUS
<1>1. TypeOK /\ Now \in Nat
    BY TypeInit, Calendar
<1>2. LockInv
    BY DEF Init, LockInv, InSection
<1>3. ReadSpend = 0 /\ Spent = 0 /\ bill.month = 0
    BY DEF Init, ReadSpend, Spent, NoBill
<1>4. SectionInv
    BY DEF Init, SectionInv
<1> QED BY <1>1, <1>2, <1>3, <1>4 DEF Init, Inv, MoneyInv, Settled

LEMMA InvStep == Inv /\ [Next]_vars => Inv'
<1> SUFFICES ASSUME Inv, [Next]_vars PROVE Inv'
    OBVIOUS
<1>1. TypeOK'
    BY TypeStep DEF Inv
<1>2. CASE \E r \in Request : Thread(r)
    BY <1>1, <1>2, SectionStep DEF Inv
<1>3. CASE NextDay
    BY <1>1, <1>3, ClockStep DEF Inv
<1>4. CASE Restart
    BY <1>1, <1>4, RestartStep DEF Inv
<1>5. CASE UNCHANGED vars
    <2>1. Now' = Now /\ ReadSpend' = ReadSpend /\ Spent' = Spent /\ Owed' = Owed
        BY <1>5 DEF Now, ReadSpend, Spent, Owed
    <2>2. LockInv'
        BY <1>5 DEF Inv, LockInv, InSection
    <2>3. SectionInv'
        BY <1>5, <2>1 DEF Inv, MoneyInv, SectionInv, Settled, SumHolds
    <2> QED BY <1>1, <1>5, <2>1, <2>2, <2>3 DEF Inv, MoneyInv, Settled
<1> QED BY <1>2, <1>3, <1>4, <1>5 DEF Next

\* Whatever requests are under way, time out or die, the provider bills at
\* most one call more than the cap, but for the calls nobody could count.
THEOREM CapHolds == Spec => []CapHeld
<1>1. Inv => CapHeld
    BY NumberFacts DEF Inv, MoneyInv, CapHeld, Spent
<1> QED BY <1>1, InvInit, InvStep, PTL DEF Spec

\* Between calls the spend file tells this month's spending, but for what was
\* lost and what was carried over the month's end.
THEOREM SpendIsAccounted == Spec => []SpendAccounted
<1>1. Inv => SpendAccounted
    BY DEF Inv, MoneyInv, SpendAccounted, Settled, Spent
<1> QED BY <1>1, InvInit, InvStep, PTL DEF Spec

-----------------------------------------------------------------------------
(* The session limit                                                       *)

LEMMA Product == \A n \in Nat : Limit * n \in Nat /\ Limit * (n + 1) = Limit * n + Limit
OBVIOUS

LEMMA LimitInit == Init => LimitInv
BY Product DEF Init, LimitInv, Day

LEMMA AdmitKeepsLimit ==
    ASSUME TypeOK, LimitInv, NEW r \in Request, Admit(r)
    PROVE  LimitInv'
<1> DEFINE s == session[r]
           k == today[r]
           old == counts[s].day
<1>1. s \in Session /\ k \in Day /\ old \in Day /\ Counted(r) \in Nat /\ Counted(r) < Limit
    BY DEF Admit, Full, Counted, TypeOK
<1>2. /\ counts'[s] = [day |-> k, n |-> Counted(r) + 1]
      /\ granted'[s][k] = granted[s][k] + 1
      /\ \A d \in Day \ {k} : granted'[s][d] = granted[s][d]
      /\ late'[s] = IF k < old THEN late[s] + 1 ELSE late[s]
    BY <1>1 DEF Admit, TypeOK
<1>3. \A q \in Session \ {s} : counts'[q] = counts[q] /\ granted'[q] = granted[q] /\ late'[q] = late[q]
    BY <1>1 DEF Admit, TypeOK
<1>4. Counted(r) = IF old # k THEN 0 ELSE counts[s].n
    BY DEF Counted
<1>5. late[s] \in Nat /\ counts[s].n \in Nat /\ counts[s].n <= Limit
      /\ \A d \in Day : granted[s][d] \in Nat
    BY <1>1 DEF TypeOK, LimitInv
<1>6. PICK p \in Nat : p = Limit * late[s] /\ Limit * (late[s] + 1) = p + Limit
    BY <1>5, Product
<1>7. \A d \in Day : /\ d < old => granted[s][d] <= p + Limit
                     /\ d = old => granted[s][d] <= p + counts[s].n
                     /\ d > old => granted[s][d] <= p
    BY <1>1, <1>6 DEF LimitInv
<1>8. Limit * late'[s] = IF k < old THEN p + Limit ELSE p
    BY <1>2, <1>6
<1>9. Day \subseteq Int
    BY DEF Day
<1>10. PICK q \in Nat : q = Limit * late'[s] /\ q = IF k < old THEN p + Limit ELSE p
    BY <1>8
<1> HIDE DEF s, k, old
<1>11. ASSUME NEW d \in Day
       PROVE  /\ d < k => granted'[s][d] <= Limit * late'[s] + Limit
              /\ d = k => granted'[s][d] <= Limit * late'[s] + (Counted(r) + 1)
              /\ d > k => granted'[s][d] <= Limit * late'[s]
    <2> SUFFICES /\ d < k => granted'[s][d] <= q + Limit
                 /\ d = k => granted'[s][d] <= q + (Counted(r) + 1)
                 /\ d > k => granted'[s][d] <= q
        BY <1>10
    <2>0. /\ d \in Int /\ k \in Int /\ old \in Int /\ granted[s][d] \in Nat
          /\ granted'[s][d] = IF d = k THEN granted[s][d] + 1 ELSE granted[s][d]
          /\ counts[s].n \in Nat /\ counts[s].n <= Limit
        BY <1>1, <1>2, <1>5, <1>9
    <2>1. CASE k < old
        BY <1>1, <1>4, <1>7, <1>10, <2>0, <2>1
    <2>2. CASE k = old
        BY <1>1, <1>4, <1>7, <1>10, <2>0, <2>2
    <2>3. CASE k > old
        BY <1>1, <1>4, <1>7, <1>10, <2>0, <2>3
    <2> QED BY <2>0, <2>1, <2>2, <2>3
<1>12. counts'[s].n <= Limit /\ counts'[s].day = k /\ counts'[s].n = Counted(r) + 1
    BY <1>1, <1>2
<1> QED BY <1>3, <1>11, <1>12 DEF LimitInv

LEMMA LimitStep == TypeOK /\ LimitInv /\ [Next]_vars => LimitInv'
<1> SUFFICES ASSUME TypeOK, LimitInv, [Next]_vars PROVE LimitInv'
    OBVIOUS
<1>1. CASE UNCHANGED limiter
    BY <1>1 DEF LimitInv
<1>2. ASSUME NEW r \in Request, Thread(r) PROVE LimitInv'
    <2>1. CASE Admit(r)
        BY <2>1, AdmitKeepsLimit
    <2>2. CASE ~Admit(r)
        BY <1>1, <1>2, <2>2 DEF Thread, Ask, TooMany, Search, FreeAnswers, FreeFails, TakeLock,
            Unreadable, Refuse, Allow, PaidAnswers, PaidFails, Sum, Truncate, Write
    <2> QED BY <2>1, <2>2
<1>3. CASE NextDay
    BY <1>1, <1>3 DEF NextDay
<1>4. CASE Restart
    <2>1. \A s \in Session : /\ counts'[s] = [day |-> 0, n |-> 0] /\ late'[s] = 0
                             /\ \A d \in Day : granted'[s][d] = 0
        BY <1>4 DEF Restart
    <2>2. PICK p \in Nat : p = Limit * 0
        OBVIOUS
    <2> SUFFICES ASSUME NEW s \in Session, NEW d \in Day
                 PROVE  0 <= Limit /\ 0 <= p + Limit /\ 0 <= p + 0 /\ 0 <= p
        BY <2>1, <2>2 DEF LimitInv
    <2> QED BY <2>2
<1> QED BY <1>1, <1>2, <1>3, <1>4 DEF Next

\* However the requests of a session and midnight interleave, a day grants
\* Limit of them, and as many again for each late one.
THEOREM LimitHolds == Spec => []LimitHeld
<1>1. TypeOK /\ LimitInv => LimitHeld
    <2> SUFFICES ASSUME TypeOK, LimitInv, NEW s \in Session, NEW d \in Day
                 PROVE  granted[s][d] <= Limit * (1 + late[s])
        BY DEF LimitHeld
    <2>1. late[s] \in Nat /\ counts[s].n \in Nat /\ counts[s].n <= Limit /\ granted[s][d] \in Nat
          /\ counts[s].day \in Int /\ d \in Int
        <3>1. late[s] \in Nat /\ counts[s].n \in Nat /\ granted[s][d] \in Nat /\ counts[s].day \in Day
            BY DEF TypeOK
        <3> QED BY <3>1 DEF LimitInv, Day
    <2>2. PICK p \in Nat : p = Limit * late[s] /\ Limit * (1 + late[s]) = p + Limit
        BY <2>1, Product
    <2> QED BY <2>1, <2>2 DEF LimitInv
<1> QED BY <1>1, TypeInit, TypeStep, LimitInit, LimitStep, PTL DEF Spec
=============================================================================
