--------------------------- MODULE PolicyPublish ---------------------------
(***************************************************************************)
(* Publishing SNAP policy parameter sets: PolicyParameterPublishService,   *)
(* the proposal and set entities, and the constraints and triggers of      *)
(* migrations V3, V14 and V15 behind them.  Administrators review drafts   *)
(* in concurrent READ COMMITTED transactions; Hibernate reads each row     *)
(* once, without a lock or version, and writes every change at commit.     *)
(* Determinations resolve the set in force on a date.                      *)
(*                                                                         *)
(* Dates are numbered; an effective_to of null is Open, after every date.  *)
(* The figures of a set are the set of proposals whose changes they hold.  *)
(***************************************************************************)
EXTENDS Naturals, FiniteSets

CONSTANTS
    Admin,              \* reviewers, one transaction each at a time
    Proposal,           \* rows of policy_parameter_proposal
    SetId,              \* rows of policy_parameter_set
    FY2025, FY2026,     \* the two sets V4 seeds
    LastDate,           \* bound on the calendar
    MaxDeterminations,  \* bound on the determinations recorded
    NoProposal, NoSet   \* absent references

Date == 1..LastDate
Open == LastDate + 1

ASSUME SeedAssumption == /\ FY2025 \in SetId /\ FY2026 \in SetId /\ FY2025 # FY2026
                         /\ NoSet \notin SetId /\ NoProposal \notin Proposal
ASSUME DateAssumption == LastDate \in Nat /\ LastDate >= 3 /\ MaxDeterminations \in Nat

VARIABLES
    sets,       \* ids of the committed sets
    from, to,   \* effective_from and effective_to
    figures,    \* the figures, as the proposals they incorporate
    source,     \* the proposal a set was published from
    base,       \* the set a set superseded (the audit event's supersededVersionLabel)
    status,     \* status of a proposal, "none" before it is drafted
    drafted,    \* the proposal's current_parameter_set_id
    published,  \* the proposal's published_parameter_set_id
    at,         \* where an administrator's transaction stands
    on,         \* the proposal it decides
    seenTo,     \* the outgoing set's effective_to as the transaction read it
    start,      \* the effectiveFrom the administrator entered
    today,      \* the clock
    determined, \* determinations made: date, set id and the figures used
    decisions,  \* observed: committed decisions per proposal
    raced       \* observed: proposals decided while another decision was in flight

setVars      == <<sets, from, to, figures, source, base>>
proposalVars == <<status, drafted, published>>
txVars       == <<at, on, seenTo, start>>
history      == <<decisions, raced>>
vars == <<setVars, proposalVars, txVars, today, determined, history>>

Init ==
    /\ sets    = {FY2025, FY2026}
    /\ from    = [s \in SetId |-> IF s = FY2026 THEN 2 ELSE 1]
    /\ to      = [s \in SetId |-> IF s = FY2025 THEN 1 ELSE Open]
    /\ figures = [s \in SetId |-> {}]
    /\ source  = [s \in SetId |-> NoProposal]
    /\ base    = [s \in SetId |-> NoSet]
    /\ status    = [p \in Proposal |-> "none"]
    /\ drafted   = [p \in Proposal |-> NoSet]
    /\ published = [p \in Proposal |-> NoSet]
    /\ at     = [a \in Admin |-> "idle"]
    /\ on     = [a \in Admin |-> NoProposal]
    /\ seenTo = [a \in Admin |-> Open]
    /\ start  = [a \in Admin |-> 1]
    /\ today \in 2..LastDate
    /\ determined = {}
    /\ decisions  = [p \in Proposal |-> 0]
    /\ raced      = {}

\* PolicyParameterSetRepository.findEffectiveOn
EffectiveOn(d) == {s \in sets : from[s] <= d /\ d <= to[s]}

\* What the callers do with an Optional of it: more than one row throws.
Resolves(d, s) == EffectiveOn(d) = {s}

Idle(a) ==
    /\ at' = [at EXCEPT ![a] = "idle"]
    /\ on' = [on EXCEPT ![a] = NoProposal]
    /\ UNCHANGED <<seenTo, start>>

\* A decision on p commits in a's transaction.
Decided(a, p) ==
    /\ decisions' = [decisions EXCEPT ![p] = @ + 1]
    /\ raced' = IF \E b \in Admin \ {a} : on[b] = p THEN raced \cup {p} ELSE raced

-----------------------------------------------------------------------------
\* proposeAgainstEffectiveSet: a draft against the set in force today.
Propose(p, s) ==
    /\ status[p] = "none"
    /\ Resolves(today, s)
    /\ status'  = [status EXCEPT ![p] = "PENDING"]
    /\ drafted' = [drafted EXCEPT ![p] = s]
    /\ UNCHANGED <<setVars, published, txVars, today, determined, history>>

\* requireProposal, and the requirePending that later judges what it read:
\* a proposal read as already reviewed makes the transaction fail.
OpenReview(a, p, step) ==
    /\ at[a] = "idle"
    /\ status[p] = "PENDING"
    /\ at' = [at EXCEPT ![a] = step]
    /\ on' = [on EXCEPT ![a] = p]
    /\ UNCHANGED <<setVars, proposalVars, seenTo, start, today, determined, history>>

\* requireSet and the checks of supersede against the row as read.
ReadOutgoing(a, d) ==
    LET outgoing == drafted[on[a]] IN
    /\ at[a] = "accepting"
    /\ d > from[outgoing]
    /\ to[outgoing] = Open \/ d > to[outgoing]
    /\ at'     = [at EXCEPT ![a] = "publishing"]
    /\ seenTo' = [seenTo EXCEPT ![a] = to[outgoing]]
    /\ start'  = [start EXCEPT ![a] = d]
    /\ UNCHANGED <<setVars, proposalVars, on, today, determined, history>>

\* The database lets a's changes in: V3's unique (program_code,
\* effective_from), and V15's trigger when the close is among them.
Admissible(a) ==
    /\ \A s \in sets : from[s] # start[a]
    /\ seenTo[a] = Open => to[drafted[on[a]]] = Open

\* Seeded bugs in closing the outgoing set: a gap, a shared day.
TwoDaysBefore(d) == d - 2
SameDay(d)       == d

\* closeAt(newEffectiveFrom.minusDays(1))
DayBefore(d) == d - 1

\* Seeded bug: the changes are written into the outgoing set's own rows.
EditInPlace(n, outgoing, p) ==
    figures' = [figures EXCEPT ![n] = figures[outgoing] \cup {p},
                               ![outgoing] = @ \cup {p}]

\* Every figure of the outgoing set into the new one, p's changes over them.
CopyForward(n, outgoing, p) ==
    figures' = [figures EXCEPT ![n] = figures[outgoing] \cup {p}]

\* The commit of accept: the new open-ended set with the figures copied
\* forward, the close of the outgoing set if it was read open, the proposal.
Publish(a, n) ==
    LET p == on[a]
        outgoing == drafted[p]
    IN
    /\ at[a] = "publishing"
    /\ n \in SetId \ sets
    /\ Admissible(a)
    /\ sets'    = sets \cup {n}
    /\ from'    = [from EXCEPT ![n] = start[a]]
    /\ to'      = IF seenTo[a] = Open
                  THEN [to EXCEPT ![n] = Open, ![outgoing] = DayBefore(start[a])]
                  ELSE [to EXCEPT ![n] = Open]
    /\ CopyForward(n, outgoing, p)
    /\ source'  = [source EXCEPT ![n] = p]
    /\ base'    = [base EXCEPT ![n] = outgoing]
    /\ status'    = [status EXCEPT ![p] = "ACCEPTED"]
    /\ published' = [published EXCEPT ![p] = n]
    /\ Decided(a, p)
    /\ Idle(a)
    /\ UNCHANGED <<drafted, today, determined>>

\* The commit of reject writes every column of the proposal as it was read.
Reject(a) ==
    LET p == on[a] IN
    /\ at[a] = "rejecting"
    /\ status'    = [status EXCEPT ![p] = "REJECTED"]
    /\ published' = [published EXCEPT ![p] = NoSet]
    /\ Decided(a, p)
    /\ Idle(a)
    /\ UNCHANGED <<setVars, drafted, today, determined>>

\* A check, a constraint or a trigger refuses, or the connection is lost.
RollBack(a) ==
    /\ at[a] # "idle"
    /\ Idle(a)
    /\ UNCHANGED <<setVars, proposalVars, today, determined, history>>

-----------------------------------------------------------------------------
\* A determination resolves its date and stores set id and figures for good.
Determine(d, s) ==
    /\ Cardinality(determined) < MaxDeterminations
    /\ Resolves(d, s)
    /\ determined' = determined \cup {[asOf |-> d, set |-> s, used |-> figures[s]]}
    /\ UNCHANGED <<setVars, proposalVars, txVars, today, history>>

Tick ==
    /\ today < LastDate
    /\ today' = today + 1
    /\ UNCHANGED <<setVars, proposalVars, txVars, determined, history>>

ReviewStep(a) ==
    \/ \E p \in Proposal : OpenReview(a, p, "accepting") \/ OpenReview(a, p, "rejecting")
    \/ \E d \in Date : ReadOutgoing(a, d)
    \/ \E n \in SetId : Publish(a, n)
    \/ Reject(a)
    \/ RollBack(a)

Next ==
    \/ \E p \in Proposal, s \in SetId : Propose(p, s)
    \/ \E a \in Admin : ReviewStep(a)
    \/ \E d \in Date, s \in SetId : Determine(d, s)
    \/ Tick

Spec == Init /\ [][Next]_vars

-----------------------------------------------------------------------------
(* Correctness                                                             *)

Status == {"none", "PENDING", "ACCEPTED", "REJECTED"}
Step   == {"idle", "accepting", "publishing", "rejecting"}

\* Every variable keeps its type.
TypeOK ==
    /\ sets    \in SUBSET SetId
    /\ from    \in [SetId -> Date]
    /\ to      \in [SetId -> 0..Open]
    /\ figures \in [SetId -> SUBSET Proposal]
    /\ source  \in [SetId -> Proposal \cup {NoProposal}]
    /\ base    \in [SetId -> SetId \cup {NoSet}]
    /\ status    \in [Proposal -> Status]
    /\ drafted   \in [Proposal -> SetId \cup {NoSet}]
    /\ published \in [Proposal -> SetId \cup {NoSet}]
    /\ at     \in [Admin -> Step]
    /\ on     \in [Admin -> Proposal \cup {NoProposal}]
    /\ seenTo \in [Admin -> 0..Open]
    /\ start  \in [Admin -> Date]
    /\ today  \in Date
    /\ determined \in SUBSET [asOf : Date, set : SetId, used : SUBSET Proposal]
    /\ decisions  \in [Proposal -> Nat]
    /\ raced      \in SUBSET Proposal

\* Publishing never opens a gap: every date from the first set on is covered
\* by some set, through any interleaving of reviews (closing a set and
\* opening its successor the next day are one transaction).
NoGap == \A d \in Date : EffectiveOn(d) # {}

\* Two sets are in force on one date only if two of them superseded the same
\* set: while every accepted draft was made against a set of its own, the
\* class comment's "ranges never overlap" does hold.
OverlapOnlyFromSharedBase ==
    \/ \A d \in Date : \A r, s \in EffectiveOn(d) : r = s
    \/ \E r, s \in sets : r # s /\ base[r] = base[s] /\ base[r] # NoSet

\* A determination can be reproduced from its parameter set id at any later
\* time: the figures it used are still that set's figures (V15's comment:
\* "a published figure never changes and a set never loses its identity").
Reproducible ==
    \A r \in determined : r.set \in sets /\ figures[r.set] = r.used

\* A proposal is decided twice only if the two decisions overlapped in time.
DecidedTwiceOnlyIfRaced ==
    \A p \in Proposal : decisions[p] > 1 => p \in raced

\* A published range is closed once and never moves, whichever reviews race
\* (closeAt: "One-way and one-shot").
ClosedOnce ==
    [][ \A s \in sets :
            /\ s \in sets' /\ from'[s] = from[s]
            /\ to[s] # Open => to'[s] = to[s] ]_vars

\* What the class comment promises without condition.
RangesNeverOverlap == \A d \in Date : \A r, s \in EffectiveOn(d) : r = s
=============================================================================
