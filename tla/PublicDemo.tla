----------------------------- MODULE PublicDemo -----------------------------
(***************************************************************************)
(* The public demo: public_demo/app.py over OpenRouterTieredClient, the    *)
(* session limiter and the two guardrails.  A request is a thread of the   *)
(* server.  It makes two to four calls of the client: the input check, an  *)
(* answer and perhaps a second attempt, the output check.  Each call tries *)
(* the free model and, when that is unavailable, goes through the section  *)
(* under the file lock: the month's spend, the paid model, the record.     *)
(*                                                                         *)
(* Money is counted in units, a month is MonthDays days.  Texts are left   *)
(* out but for what is asked of them: blocked or not, cited or not.        *)
(***************************************************************************)
EXTENDS Integers

CONSTANTS
    Request,        \* threads, one request each
    Session,        \* values of the session cookie
    NoOne,          \* no holder of the lock
    Limit,          \* public_demo_daily_request_limit_per_session
    Cap,            \* openrouter_public_demo_monthly_cap_usd
    MaxCost,        \* bound: what one paid call costs at most
    MonthDays, LastDay,     \* bound on the calendar
    MaxRestarts     \* bound on restarts of the server

ASSUME DemoAssumption ==
    /\ NoOne \notin Request
    /\ Limit \in Nat \ {0} /\ Cap \in Nat \ {0} /\ MaxCost \in Nat \ {0}
    /\ MonthDays \in Nat \ {0} /\ LastDay \in Nat /\ MaxRestarts \in Nat

Day == 0..LastDay
MonthOf(d) == d \div MonthDays
Month == 0..MonthOf(LastDay)
Cost  == 1..MaxCost
Job   == {"input", "draft", "redraft", "output"}
Reply == {"none", "answer", "limited", "refused", "unavailable", "unhandled",
          "error", "lost"}

VARIABLES
    day,        \* the clock, UTC
    at,         \* where a request stands
    job,        \* what its current call is for
    session,    \* its cookie
    today,      \* the day key it computed
    reply,      \* how it ended
    counts,     \* SessionRateLimiter._counts
    file,       \* the spend file: "none", "torn" or "ok" with its record
    holder,     \* who holds the flock
    bill,       \* the holder's cost_usd, later its updated sum and the month key
    restarts,
    billed,     \* observed: what the provider billed this month
    lost,       \* observed: of that, to calls that never got as far as a record
    carried,    \* observed: what this month's record holds of the month before
    granted,    \* observed: requests admitted per session and day key since the start
    late        \* observed: per session, admissions on a key older than the count's

threads  == <<at, job, session, today, reply>>
spending == <<file, holder, bill>>
observed == <<billed, lost, carried>>
limiter  == <<counts, granted, late>>
vars == <<day, threads, spending, observed, limiter, restarts>>

Now == MonthOf(day)
NoBill == [cost |-> 0, sum |-> 0, month |-> 0]

Init ==
    /\ day = 0
    /\ at      = [r \in Request |-> "idle"]
    /\ job     = [r \in Request |-> "input"]
    /\ session \in [Request -> Session]
    /\ today   = [r \in Request |-> 0]
    /\ reply   = [r \in Request |-> "none"]
    /\ counts  = [s \in Session |-> [day |-> 0, n |-> 0]]
    /\ file    = [is |-> "none", month |-> 0, spent |-> 0]
    /\ holder  = NoOne
    /\ bill    = NoBill
    /\ restarts = 0
    /\ billed  = 0
    /\ lost    = 0
    /\ carried = 0
    /\ granted = [s \in Session |-> [d \in Day |-> 0]]
    /\ late    = [s \in Session |-> 0]

Go(r, stage) == at' = [at EXCEPT ![r] = stage] /\ UNCHANGED <<session, today, reply>>
For(r, purpose) == job' = [job EXCEPT ![r] = purpose]

\* The thread is back in the pool.
End(r, answer) ==
    /\ at'    = [at EXCEPT ![r] = "done"]
    /\ reply' = [reply EXCEPT ![r] = answer]
    /\ today' = [today EXCEPT ![r] = 0]
    /\ For(r, "input") /\ UNCHANGED session

Release        == holder' = NoOne /\ bill' = NoBill

-----------------------------------------------------------------------------
(* The session limiter                                                     *)

\* The request arrives and computes today's key, before it has the lock.
Ask(r) ==
    /\ at[r] = "idle"
    /\ today' = [today EXCEPT ![r] = day]
    /\ at' = [at EXCEPT ![r] = "limiter"]
    /\ UNCHANGED <<day, job, session, reply, spending, observed, limiter, restarts>>

\* Seeded bug: the limit is one request late.
LooseFull(n) == n > Limit

Full(n) == n >= Limit

\* A count of another day, older or newer, starts again from zero.
Counted(r) == IF counts[session[r]].day # today[r] THEN 0 ELSE counts[session[r]].n

TooMany(r) ==
    /\ at[r] = "limiter" /\ Full(Counted(r))
    /\ End(r, "limited")
    /\ UNCHANGED <<day, spending, observed, limiter, restarts>>

Admit(r) ==
    LET s == session[r] IN
    /\ at[r] = "limiter" /\ ~Full(Counted(r))
    /\ counts' = [counts EXCEPT ![s] = [day |-> today[r], n |-> Counted(r) + 1]]
    /\ granted' = [granted EXCEPT ![s][today[r]] = @ + 1]
    /\ late' = IF today[r] < counts[s].day THEN [late EXCEPT ![s] = @ + 1] ELSE late
    /\ at' = [at EXCEPT ![r] = "free"] /\ today' = [today EXCEPT ![r] = 0]
    /\ UNCHANGED <<day, job, session, reply, spending, observed, restarts>>

-----------------------------------------------------------------------------
(* What a text is used for                                                 *)

\* A guardrail that reads BLOCK refuses, anything else lets the request
\* pass; an answer that cites nothing is drafted once more, then withheld.
Use(r) ==
    \/ job[r] \in {"input", "output"} /\ End(r, "refused")
    \/ job[r] = "input" /\ For(r, "draft") /\ Go(r, "search")
    \/ job[r] = "draft" /\ For(r, "redraft") /\ Go(r, "free")
    \/ job[r] \in {"draft", "redraft"} /\ For(r, "output") /\ Go(r, "free")
    \/ job[r] = "output" /\ End(r, "answer")

\* InferenceUnavailableError: only the answer stands inside a try, from a
\* guardrail it reaches the server and becomes a 500.
Unavailable(r) == End(r, IF job[r] \in {"draft", "redraft"} THEN "unavailable" ELSE "unhandled")

\* Nothing relevant: the abstention goes to the output check as it is.
Search(r) ==
    /\ at[r] = "search"
    /\ \/ \E next \in {"draft", "output"} : For(r, next) /\ Go(r, "free")
       \/ End(r, "error")
    /\ UNCHANGED <<day, spending, observed, limiter, restarts>>

-----------------------------------------------------------------------------
(* OpenRouterTieredClient.generate                                         *)

FreeAnswers(r) ==
    /\ at[r] = "free"
    /\ Use(r)
    /\ UNCHANGED <<day, spending, observed, limiter, restarts>>

\* Codes 404, 429, 502 and 503 fall back to the paid model, others do not.
FreeFails(r) ==
    /\ at[r] = "free"
    /\ \/ Go(r, "lock") /\ UNCHANGED job
       \/ End(r, "error")
    /\ UNCHANGED <<day, spending, observed, limiter, restarts>>

\* Seeded bug: the section is entered without the lock.
UnlockedFree == TRUE

LockFree == holder = NoOne

TakeLock(r) ==
    /\ at[r] = "lock" /\ LockFree
    /\ holder' = r /\ bill' = NoBill
    /\ Go(r, "check")
    /\ UNCHANGED <<day, job, file, observed, limiter, restarts>>

\* _read_spend: a record of another month counts as nothing.
ReadSpend == IF file.is = "ok" /\ file.month = Now THEN file.spent ELSE 0

\* A file cut short is no JSON: the call fails, whatever was spent.
Unreadable(r) ==
    /\ at[r] \in {"check", "record"} /\ file.is = "torn"
    /\ End(r, "error") /\ Release
    /\ UNCHANGED <<day, file, observed, limiter, restarts>>

Refuse(r) ==
    /\ at[r] = "check" /\ file.is # "torn" /\ ReadSpend >= Cap
    /\ Unavailable(r) /\ Release
    /\ UNCHANGED <<day, file, observed, limiter, restarts>>

Allow(r) ==
    /\ at[r] = "check" /\ file.is # "torn" /\ ReadSpend < Cap
    /\ Go(r, "paid")
    /\ UNCHANGED <<day, job, spending, observed, limiter, restarts>>

\* The provider bills c; the usage it reports may be missing, and then costs
\* nothing here.
PaidAnswers(r) ==
    /\ at[r] = "paid"
    /\ \E c \in Cost, known \in BOOLEAN :
        /\ billed' = billed + c
        /\ lost' = IF known THEN lost ELSE lost + c
        /\ bill' = [NoBill EXCEPT !.cost = IF known THEN c ELSE 0, !.month = Now]
    /\ Go(r, "record")
    /\ UNCHANGED <<day, job, file, holder, carried, limiter, restarts>>

\* Unavailable, or an error; a timeout may hide an answer that was billed.
PaidFails(r) ==
    /\ at[r] = "paid"
    /\ \/ Unavailable(r) /\ UNCHANGED observed
       \/ /\ End(r, "error")
          /\ \E c \in {0} \cup Cost : billed' = billed + c /\ lost' = lost + c
          /\ UNCHANGED carried
    /\ Release
    /\ UNCHANGED <<day, file, limiter, restarts>>

\* Seeded bug: the cost replaces the sum.
ForgetfulSum == bill.cost

NewSum == ReadSpend + bill.cost

\* _add_spend reads once more and adds.
Sum(r) ==
    /\ at[r] = "record" /\ file.is # "torn"
    /\ bill' = [cost |-> bill.cost, sum |-> NewSum, month |-> Now]
    /\ carried' = IF Now # bill.month THEN carried + bill.cost ELSE carried
    /\ Go(r, "key")
    /\ UNCHANGED <<day, job, file, holder, billed, lost, limiter, restarts>>

\* The record takes the month of this moment; write_text empties the file.
Truncate(r) ==
    /\ at[r] = "key"
    /\ bill' = [bill EXCEPT !.month = Now]
    /\ carried' = IF Now # bill.month THEN carried + bill.sum ELSE carried
    /\ file' = [is |-> "torn", month |-> 0, spent |-> 0]
    /\ Go(r, "write")
    /\ UNCHANGED <<day, job, holder, billed, lost, limiter, restarts>>

Write(r) ==
    /\ at[r] = "write"
    /\ file' = [is |-> "ok", month |-> bill.month, spent |-> bill.sum]
    /\ Release
    /\ Use(r)
    /\ UNCHANGED <<day, observed, limiter, restarts>>

-----------------------------------------------------------------------------
(* The clock and the server                                                *)

NextDay ==
    /\ day < LastDay
    /\ day' = day + 1
    /\ IF MonthOf(day + 1) = Now THEN UNCHANGED observed
       ELSE billed' = 0 /\ lost' = 0 /\ carried' = 0
    /\ UNCHANGED <<threads, spending, limiter, restarts>>

Running(r) == at[r] \notin {"idle", "done"}

\* The process dies: its threads and counts are gone, the flock is released,
\* a call under way may have been billed, a record may be half written.
Restart ==
    /\ restarts < MaxRestarts /\ restarts' = restarts + 1
    /\ at' = [r \in Request |-> IF Running(r) THEN "done" ELSE at[r]]
    /\ reply' = [r \in Request |-> IF Running(r) THEN "lost" ELSE reply[r]]
    /\ job'   = [r \in Request |-> "input"]
    /\ today' = [r \in Request |-> 0]
    /\ Release
    /\ \E c \in {0} \cup Cost :
        LET paying  == \E r \in Request : at[r] = "paid"
            unbilled == IF paying THEN c ELSE 0
            dropped  == IF \E r \in Request : at[r] \in {"record", "key", "write"} THEN bill.cost ELSE 0
        IN  /\ billed' = billed + unbilled
            /\ lost' = lost + unbilled + dropped
    /\ counts'  = [s \in Session |-> [day |-> 0, n |-> 0]]
    /\ granted' = [s \in Session |-> [d \in Day |-> 0]]
    /\ late'    = [s \in Session |-> 0]
    /\ UNCHANGED <<day, session, file, carried>>

Thread(r) ==
    \/ Ask(r) \/ TooMany(r) \/ Admit(r) \/ Search(r)
    \/ FreeAnswers(r) \/ FreeFails(r) \/ TakeLock(r)
    \/ Unreadable(r) \/ Refuse(r) \/ Allow(r) \/ PaidAnswers(r) \/ PaidFails(r)
    \/ Sum(r) \/ Truncate(r) \/ Write(r)

Next == (\E r \in Request : Thread(r)) \/ NextDay \/ Restart

Spec == Init /\ [][Next]_vars

-----------------------------------------------------------------------------

\* No value of a variable is outside its type.
TypeOK ==
    /\ day \in Day
    /\ at \in [Request -> {"idle", "limiter", "search", "free", "lock", "check", "paid",
                           "record", "key", "write", "done"}]
    /\ job \in [Request -> Job]
    /\ session \in [Request -> Session]
    /\ today \in [Request -> Day]
    /\ reply \in [Request -> Reply]
    /\ counts \in [Session -> [day : Day, n : Nat]]
    /\ file \in [is : {"none", "torn", "ok"}, month : Month, spent : Nat]
    /\ holder \in Request \cup {NoOne}
    /\ bill \in [cost : Nat, sum : Nat, month : Month]
    /\ restarts \in 0..MaxRestarts
    /\ billed \in Nat /\ lost \in Nat /\ carried \in Nat
    /\ granted \in [Session -> [Day -> Nat]]
    /\ late \in [Session -> Nat]

\* The month's cap is a ceiling on what the provider bills: it is passed by
\* at most the one call that reaches it, and by what was billed to calls that
\* timed out, died or came without a usage (generate's section under the
\* lock, _add_spend).
CapHeld == billed <= Cap - 1 + MaxCost + lost

\* Between calls the file tells what was spent this month, but for what was
\* lost, and it tells no more, but for a call that crossed midnight: neither
\* a concurrent call nor the month's turn drops or invents an amount.
SpendAccounted ==
    holder = NoOne /\ file.is # "torn" =>
        /\ billed - lost <= ReadSpend
        /\ ReadSpend <= billed + carried

\* A session has Limit requests per day and start of the server, and as many
\* again for each of its requests that took yesterday's key to the counter
\* after today's: the key is computed before the lock (check_and_increment).
LimitHeld ==
    \A s \in Session, d \in Day : granted[s][d] <= Limit * (1 + late[s])
=============================================================================
