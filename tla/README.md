# A verification of Canopica

Canopica administers SNAP benefits: applicants apply, a rules engine decides,
case workers review what the system drafts or flags, and an audit chain records
it all. This directory models the parts of it that are hard to get right and
hard to test, checks them with TLC on small instances, and proves the most
important results with TLAPS for every instance.

Contents: [1. The system](#1-the-system) ·
[2. The modules](#2-the-modules) ·
[3. What the runs show](#3-what-the-runs-show) ·
[4. Bounds](#4-bounds) · [5. Fairness](#5-fairness) ·
[6. Proofs](#6-proofs) · [7. Where code and words disagree](#7-where-code-and-words-disagree) ·
[8. What is not modelled](#8-what-is-not-modelled) · [9. Plan](#9-plan)

Paths below are relative to the repository.

## 1. The system

Four programs share one Postgres database: the Spring Boot **API** (`api/`) with
the DMN **rules engine** (`rules-engine/`) inside it, the Python **worker**
(`worker/`), which consumes pgmq queues and calls the **AI services** (`ai/`),
and the hourly **data platform** (`data-platform/`, `infra/airflow/`), which
copies the database into a warehouse. A React UI (`ui/`) talks to the API.

Facts of the run-time that every model uses:

- All transactions are READ COMMITTED. No entity has a version, no query takes a
  row lock. Hibernate reads a row once and writes *all* its columns when the
  transaction commits; `JdbcTemplate`, `@Modifying` queries and psycopg run at
  once.
- A call from a bean to itself bypasses the transactional proxy.
- The worker has no restart policy: once its process dies an operator starts it.
- The only lock taken explicitly is the audit trigger's advisory lock, held to
  the end of the transaction.

### Components

| Component | State | Operations | Interacts through | What is hard | What makes it correct |
|---|---|---|---|---|---|
| Work queues and worker loop (`worker/main.py`, `queue.py`) | pgmq tables: message, `read_ct`, visibility time; the archive | `send` in a producer's transaction; `poll_once`: read, handler, delete or archive; `run_forever` round robin | the API and the consumers send; the worker reads | timeouts overtaking a live handler, death between commit and delete, one queue starving another | no message lost, duplicates only for a reason, bounded deliveries, everything settles |
| Policy publishing (`api/policy`, V3, V14, V15) | parameter sets with date ranges, proposals | propose, accept (close the old set, copy its figures, open the new), reject; resolve by date | determinations resolve and pin a set | concurrent reviews of one or of several drafts on a shared base | no gap, no overlap, a published figure never changes |
| Audit chain (V6, `JdbcAuditService`, `verify_chain.py`) | `audit_event` rows, each with the hash of its predecessor | append inside any transaction; verify | every transaction that matters appends | id drawn before the lock, several appends per transaction, rollbacks | links resolve, the chain verifies |
| Human review (`NoticeService`, `FraudReviewService`, `QcReviewService`) | notice, risk score, payment error review; who decided | store, decide once, fill in the summary | consumers write the rows, decisions append | two reviewers with one row, stale writes of every column | decided once, row and chain agree, no summary lost |
| Documents and verifications (`DocumentService`, `document_intake_consumer`, `MockVerificationService`) | document status, extraction, posted income, verification status, object store | upload, classify, confirm, request | queue to the worker, object store, review page | redelivery over a confirmed row, outdated pages, object store outside the transaction | income posted once per confirmation, every upload settles |
| Database locking | row locks, the advisory lock | every transaction above | all of them | the worker and the API take rows and the audit lock in different orders | deadlocks only where known, everybody ends |
| Rules engine (`snap-eligibility.dmn`, `SnapDmnEvaluator`) | none | evaluate facts under figures | called by determine and reproduce | nested tables, floors, caps and ceilings on each other's results | decision, amount and reason agree; need is never punished |
| Intake (`IntakeService`) | household, records, request, expedited flag | submit | feeds determinations | dates on records | the expedited test agrees with the facts |
| Determination (`FactAssembler`, `JdbcDeterminationService`) | determinations with snapshot, set and model | determine as of a date, reproduce | rules engine, parameter sets, two messages | publishing and deployment between a decision and its reproduction | same snapshot and set, same result |
| Quality control (`QcSamplingService`) | payment error reviews | sample in runs | reproduces, sends `qc_summary` | overlapping runs, runs that stop halfway | one review per determination, a message exactly for each error |
| Caseload (`CaseAssignmentService`, `KeycloakWorkerSyncFilter`) | assignments with date ranges, workers | first touch, access check, reassign, list | guards every worker endpoint | check and claim in two transactions, day granularity, reassignment while a worker acts | never without a holder, the last assignment holds |
| SLA monitor (`ai/sla_monitor`, `AtRiskCaseQuery`) | a cached sentence per late case | hourly refresh of the most urgent | reads cases, asks a model | cases that keep failing, cases that come and go during a run | an urgent case gets its sentence |
| Public demo (`ai/public_demo`, `llm_client.py`, `rate_limit.py`) | spend file under a lock, counts per session | ask: guardrail, answer, guardrail, each over a free and a paid model | model providers, the clock | concurrent requests, a month's end inside a call, timeouts after billing, torn files, restarts | the month's cap and the session's limit hold, the file tells what was spent |
| Data pipeline (`data-platform`, the DAG) | bronze and gold tables, token vault, reporting tables | extract, tokenize, build, materialize | reads the database while it is written | a manual run beside the scheduled one, every task failing, later tasks running all the same | one token per name, reports that are whole, fresh and there once |
| dbt warehouse | SQL models and their tests | build | run by the pipeline | tables landed at different moments | the fairness audit joins every member with its person |
| Data quality incidents (`ai/data_quality`) | incidents | find the failed tests of a build, draft, insert | after materialize, reads dbt's results file | a results file of an older build | reported once per build |
| Reporting (`provision_metabase.py`) | what Metabase holds by name | find or create | last task of the pipeline | two requests per item | provisioned once |
| Model-backed drafting (`correspondence`, `qc_assistant`, `data_quality`, `sla_monitor`, `analytics_copilot/mining`) | the attempts of one call | gather, draft, check against the record, retry, store | handlers of the worker, batches | checks that truncate or drop signs, loops inside loops | what passes is in the record, but for known gaps |
| Policy answers (`policy_intelligence`, `sop_copilot`) | index, provenance rows | chunk, index, retrieve, answer or abstain, record | read endpoints | the index rebuilt under a question, labels inside labels | an answer cites what it was given, its row says the same |
| Rule authoring, dashboard assist, document classification, metric queries | none but a reply's attempts | ask for a structured reply, fit it to what it will be applied to | proposals, reports, documents, the semantic layer | a reply that names one thing twice or what is not there | a returned reply can be applied |
| Fraud score, read controllers, security configuration, identity, synthetic data, user interface, infrastructure | - | - | - | - | in the models as assumptions or not at all (section 8) |

The hazards of these components, line by line, are in `PROJECT.json` with the
properties that would catch each.

## 2. The modules

| Module | Models | State in the module and in the code |
|---|---|---|
| `WorkQueue` | the queues and the worker loop | `place`, `count`, `hidden` are a message's table, `read_ct` and whether `vt` is in the future; `pc`, `msg`, `receipt`, `turn` are where `poll_once` stands, what it read and the queue `run_forever` is at |
| `Delivery` | what a producer may rely on | `state` and `runs` of a job; `WorkQueue` maps `place` to `state` and `effects` to `runs` |
| `PolicyPublish` | publishing | `from`, `to`, `figures` of a set; `status`, `drafted`, `published` of a proposal; `at`, `on`, `seenTo`, `start` are an open review transaction and what it read |
| `AuditChain` | the trigger and verifier | `nextId` is the sequence, `prev` the link, `lock` the advisory lock, `pending` the uncommitted rows of a transaction |
| `HumanReview` | the three reviews, which are one protocol, and the events they append | `outcome`, `by`, `summary` are columns; `trail` the decision events with `id` and `prev`, `top` the last id of the chain, `nextId` the sequence, `lock` the advisory lock; `drawn`, `prev` the event of an open transaction, `posting` the worker's; `seen` the summary Hibernate will write back |
| `DocumentIntake` | a document from upload to confirmation | `status`, `matched`, `posted`, `confirmed`; the queue by its contract; `form` is what a review page shows |
| `LockOrder` | the order in which transactions take locks | `owner` of a lock, `plan` the locks a transaction has yet to take |
| `SnapRules` | the fifteen decisions of the DMN model, `toMoney`, the expedited test | operators, no state |
| `Determination` | intake, fact assembly, determinations, quality control; composes `SnapRules` | `filed`, `range`, `determined`, `reviews`, `queued`, the runs' `at` and `picked` |
| `Caseload` | assignments and the provisioning filter | `rows` is `case_assignment`, `known` the worker table; `at`, `on`, `day`, `born`, `current`, `target` are one request's locals |
| `PublicDemo` | requests of the public demo, down to the statements under the file lock | `at`, `job` are where a request stands and what its model call is for; `file` the spend file, `holder` the flock, `bill` the holder's locals; `counts` is `SessionRateLimiter._counts`; `billed` is what the provider charged |
| `ModelCall` | one operation that asks a model | `op`, `at`, `facts`, `tries`, `text`, `out`: its inputs, step, what it read, its attempts, the last reply, its result |
| `Corpus` | chunking and indexing of the regulation | `index`; the section is an input |
| `GroundedAnswer` | policy and procedure answers, over `Corpus` | `row`, the provenance row |
| `DraftedText` | five kinds of drafts with their checks | figures and names of a text as sets |
| `StructuredReply` | four kinds of replies with their checks | a reply as a list of items |
| `StallReasons` | the hourly refresh of the SLA monitor | `age` of each case's sentence, `batch` what a run has yet to visit |
| `Warehouse` | the two pipelines | `filed` cases; `vault` the tokens; `stage` and `turn` each pipeline's statement; `bronze`, `gold`, `serving` tables as counts of rows; `results` dbt's results file |
| `Operations` | composes the last seven | one operation is followed at a time; a rebuild of the index runs beside an answer |

Each operation is one action per *transaction step that others can observe*. A
transaction that reads a row, thinks and writes at commit is two or three
actions (`OpenReview`, `ReadOutgoing`, `Publish` in `PolicyPublish`; `OpenDecision`,
`Draw`, `Chain`, `Commit` in `HumanReview`), because another transaction may commit in
between; a transaction whose updates look at nothing they could have read stale
is one action (`DocumentIntake`). `SnapRules` keeps FEEL's exact decimals by
scaling: money is an integer number of units, a rate an integer number of
`RateUnit`-ths, and a product of the two stays scaled.

Variables called *observed* in a module's comments (`effects`, `overdue`,
`raced`, `decisions`, `stale`, `moved`, `last`, `crashes`...) record history for
the properties. No guard of a modelled operation reads them, except that
`crashes` is bounded.

Operators marked "Seeded bug" in the comments are plausible mistakes in the
definition they precede. They are never part of a specification; `PROJECT.json`
("mutants") names, for each property, the one that breaks it, which shows that
the property can fail.

How the modules fit: `DocumentIntake` and `HumanReview` rely on the queue only
through its contract (a message stays until it is deleted or archived, and may
be delivered again), which `WorkQueue` establishes as `Delivery`. `HumanReview`
and `LockOrder` use the audit lock as `AuditChain` shows it: one holder, to the
end of the transaction. `Determination` uses published sets as an ordered list
without gaps, which is `PolicyPublish`'s `NoGap`; the overlap that
`PolicyPublish` exposes makes `findEffectiveOn` throw and is left to that module.
What a consumer's handler does inside `WorkQueue`'s handler step is an operation
of `DraftedText` or `StructuredReply`; a proposal `StructuredReply` returns is what
`PolicyPublish` reviews. `StallReasons`'s `Write` and `Leave` are the two ends of
`DraftedText`'s reason, `Warehouse`'s stored incidents the successful ends of its
incident. `Operations` puts these modules into one state space because they
share `ModelCall`, and the index where it is shared.

## 3. What the runs show

Ten runs pass and two show a disagreement (section 7).

**`work_queue`** - Two workers, two messages on two queues, handlers that fail,
visibility timeouts at any moment and one crash.
`NoLoss`: a message is deleted only after a committed effect and archived only
after a failure at or over the limit. `DuplicateOnlyIfOverdue`: an effect is
committed twice only behind an overtaking timeout or a crash between commit and
delete; a redelivery after a failure never duplicates. `DeliveriesBounded`: only
a *raising* handler archives, so crashes and held messages exceed the limit, but
by no more than the number of workers and crashes. `EveryMessageSettles`: while
a worker is up, every queued message is deleted or archived, whatever the other
queue does. `ImplementsDelivery`: the queue implements `Delivery`, its liveness
included.

**`policy_publish`** - Two administrators review two drafts in interleaved
transactions, with determinations in between. `NoGap`: every date stays covered.
`OverlapOnlyFromSharedBase`: two sets are in force on one date only if two of
them superseded the same set. `Reproducible`: figures a determination used are
still its set's figures.

**`audit_chain`** - Three sessions append four events in transactions of any
length that commit or roll back. `BrokenOnlyByOvertaking`: the chain verifies unless some
row links forward, that is, its insert drew an id first and got the lock second.
`EveryAppendProceeds`: no append waits for ever.

**`human_review`** - Two reviewers, one notice, one flag, one discrepancy and two
deliveries of its summary. `RowIsLastChained`: what a flag or discrepancy shows
is the decision chained last, through any race, because the row is flushed
while the chain is locked: its event links to every other decision of the row or
past it. It need not be the last by id. Of two decisions in a race one may draw its
id first and get the lock second; then the row shows that one, whose event links
forward, and `verify_chain` reports the chain as broken there. `SentAsAudited`: a sent notice has its approver's
event; an event without a sent notice marks a race. `DecidedTwiceOnlyIfRaced`:
without overlap no row is decided twice. `SummaryLostOnlyByDecision`: an
undecided discrepancy shows the last summary; a lost one was overwritten by a
reviewer's commit.

**`document_intake`** - One document, two workers with failures, a crash and
overdue redeliveries, two review pages. `PostedAsConfirmed`: a refused
confirmation leaves nothing behind. `ConfirmedTwiceOnlyIfStale`: income is
posted twice only from an outdated page or after a late delivery reopened the
document. `RegressesOnlyByRedelivery`: only a second delivery takes a document
out of CONFIRMED (the code does not prevent it). `EveryUploadSettles`.

**`lock_order`** - Three sessions run any of the system's transactions.
`DeadlockNeedsRowFirst`: every circular wait contains a transaction that updated
a row before its first event: the worker's consumers, or `confirm`.
`EveryTransactionEnds`: committed, or chosen by the deadlock
detector.

**`determination`** - One of nine households is filed and determined twice, as of
any dates, while a set is published, the model is replaced and two
quality-control runs overlap. `DecisionsConsistent`: eligible, a positive amount
and the reason ELIGIBLE always come together before rounding.
`NeedNeverPaysLess`: less income, more recognised expenses or more exemptions
never lower the amount, except through the minimum benefit (section 7).
`ExpeditedAsFacts`: intake's test agrees with the assembled facts when every
record is in force that day. `ErrorOnlyFromNewModel`: a re-derivation differs
only if the model did. `SummaryIffError`: one `qc_summary` message per review
with an error and none otherwise, through overlapping and aborted runs.

**`caseload`** - Two workers, one with two requests at once, and a supervisor,
over two days. `NeverDropped`: a household once assigned always has a holder.
Where no two assignments raced, `HeldByLastAssigned`, `ListedToHolder` (a
dashboard lists a household its worker lost only on the day it was lost) and
`AdmittedIsHolder` (an admitted worker holds the household unless it was assigned
after the check).

**`public_demo`** - Three requests of one session spend up to a cap of two units
while a month ends, calls time out or lack a usage, files tear and the server
restarts. `CapHeld`: the provider bills at most the one call that passes the cap,
and what was billed to calls that could not be recorded. `SpendAccounted`: between
calls the file tells what was spent this month, no less but for what was lost,
no more but for what a call carried over midnight. `LimitHeld`: a session gets its
limit per day and start of the server, and as many again for each request that
computed yesterday's key before the lock and used it after today's.

**`operations`** - One operation of any kind, and beside it the index, the late
cases or the pipelines.
`ChunksPartition`: every section of up to four paragraphs, with items before the
excluded one and after it, is cut into chunks that are the section again, under
distinct labels; only the excluded item is left out.
`AnswerAttributed`: citations were retrieved and are in the text, an abstention
has its cause, and the provenance row says what the caller was told; whatever
part of a rebuilt index the search met. `DraftsGrounded`: a text that passed has
only the record's figures, or one of those its check is known not to catch; what
was rejected deserved it, but for negative figures; loops end. `ReplyApplies`:
what a proposal or query names is there, once, and in the domain of its unit; a
tool call reads only what the role allows. `TopCasesReached`: a case that stays
among the most urgent gets a fresh sentence again and again, whichever drafts
fail. `NamesKeepTheirToken`: two pipelines that meet a new name never leave it
with two tokens. `ServedAsBuilt`: the fairness audit is never served over members whose
person is missing (its inner join would drop them from the rates), a run without failure or overlap serves all that was filed when it began, and Metabase
holds nothing twice unless two runs overlapped. `ReportedOncePerBuild`: a failed
build is reported once, and again only by a later run that wrote no results.

Type invariants are proved rather than checked (section 6); in `Caseload` the
type includes that `created_at`, which breaks ties between rows of one day, tells
rows apart.

**`policy_overlap`** and **`audit_verify`** each check one sentence of a comment or
test and end with TLC's counterexample.

## 4. Bounds

| Run | Bounds | Why they are enough for the question |
|---|---|---|
| `work_queue` | 2 workers, 2 messages, 2 queues, limit 2, 1 crash | a message can be held by two workers, reach the limit, exceed it, and wait behind the other queue |
| `policy_publish`, `policy_overlap` | 2 administrators, 2 proposals, the two seeded sets and two more, 4 dates, 1 determination | two drafts on one base, on two bases, and one draft decided twice; a start inside, at the edge of and after a range |
| `audit_chain`, `audit_verify` | 3 and 2 writers, 4 and 3 events | one transaction with several events beside two others; overtaking needs two |
| `human_review` | 2 reviewers, a row of each kind, 2 summaries, 4 ids | a race needs two reviewers and one row, overtaking two ids, and the worker's events two more; the kinds differ in their events only |
| `document_intake` | 1 document, 2 verifications, one of another case, 2 workers, 2 reviewers, limit 2, 1 crash, 1 request | documents share nothing but verifications; overdue delivery needs two workers, a stale page two reviewers |
| `lock_order` | 3 sessions, 2 verifications | circular waits of two and three; two verifications in both orders |
| `determination` | 9 households, 3 parameter sets, 3 dates, 2 determinations, 2 runs, 1 request | the households are those of `SnapDmnEvaluatorTest` and their neighbours across each limit; the third set is a proposal with figures that round to zero and none for larger households |
| `caseload` | 1 household, 3 accounts, 4 sessions, 2 days, 3 inserting transactions | households share nothing; claim, reassign and reassign again, across midnight |
| `public_demo` | 3 requests, 1 session, limit 1, cap 2, costs 1 and 2, 2 days in 2 months, 1 restart | one request under the lock, one behind it and one that comes later; a cost that lands on the cap and one that passes it; a month's end at every statement |
| `operations`, chunks | sections of 1 to 4 paragraphs of two sizes, three levels of markers, chunks of 3 | a list inside a list, a marker out of order, a lead before the first marker and a part that must be cut again |
| `operations`, answers | 3 labels, one inside another, 2 of them in a partial index | a citation that is only the prefix of another |
| `operations`, drafts and replies | 4 whole and 7 decimal figures, 2 names, 2 attempts; 2 parameters, 4 values, 2 dimensions | figures whose truncation or rounding meet, a half that rounds to even, a float whose percentage falls short; a value outside each unit's domain |
| `operations`, cases | 3 cases, runs of 2, stale after 2 hours | a case beyond the cut, a case that keeps failing before another |
| `operations`, pipelines | 2 cases, 2 runs, 2 marts, of which the fairness audit is behind a relationships test, 1 item | a case filed between two tables; two runs of one pipeline, or one of each |

`MaxDeliveryAttempts` is the code's setting. `MaxEvents`, `MaxIds`, `MaxSummaries`,
`MaxDeterminations`, `MaxCrashes`, `MaxRestarts`, `MaxCost`, `MaxFiled`, `MaxRuns`, `MaxLength`, `MaxRequests`, `MaxTicks`, `LastDate` and
`LastDay` are bounds of the models; actions that would pass one are disabled.
Because of them most models may stop, and their configurations switch the
deadlock check off; it stays on for `WorkQueue` and `LockOrder`.

Symmetry is used only in runs without liveness properties, on sets of model
values whose members play the same part.

In the money model a cent is four units and a rate tenths, which represents
V4's figures and rates exactly.

## 5. Fairness

- `WorkQueue`: weak fairness of each live worker's poll, of its handler (it
  returns or raises) and of what follows, and of a visibility timeout running
  out. `run_forever` loops without a condition and calls to model providers
  have time limits. Producers, crashes and restarts owe nothing: no restart
  policy exists, so `EveryMessageSettles` holds because the bounded number of
  crashes is smaller than the number of workers.
- `AuditChain`: weak fairness of the end of an open transaction, strong fairness of
  getting the lock: Postgres queues waiters in order.
- `DocumentIntake`: weak fairness of each worker's next step.
- `LockOrder`: strong fairness of taking a lock (the same queue), weak fairness of
  commit and of the deadlock detector, which runs after `deadlock_timeout`.
- `Delivery`: weak fairness of a pending job being completed or put aside.
- `StallReasons`: weak fairness of a run starting and of its visits (the DAG's task
  is `@hourly`), strong fairness of a draft succeeding for a case that is visited
  again and again: a retry is independent of the failure before. The property
  assumes that runs do not end early for ever, which the code does not prevent.
- The other modules state no liveness. `PublicDemo` states none: a thread may hang
  in a call for as long as its client waits, and a restart answers nobody.

## 6. Proofs

The `*_proofs` modules extend a component's module; every theorem holds for any
values of the constants that satisfy the module's named assumptions: finite
sets of workers, distinct absent references, natural bounds. No bound is
assumed to be small.

**`WorkQueue_proofs`.** `TypeCorrect`, `NothingLost`, `DuplicatesExplained`,
`DeliveriesAddUp`, `DeliveriesNeverRunAway`, `RefinesDelivery`. `HeldInv`: a worker
holds a message exactly while it is inside `poll_once`. `LossInv`: a worker about to
delete has committed, one about to archive has failed at the limit. `SoleInv`: a
message never overtaken by its timeout has one holder at most and, once its
effect is committed, is out of the queue or in the hands of the worker about to
delete it. `AccountInv`: every delivery ended in an effect, a failure, in a
worker's hands or with a dead worker. `LimitInv`: each delivery at or past the
limit of a message still queued is held or died in a crash, which is what
bounds `read_ct`. `RefinesDelivery` is the safety
part of `ImplementsDelivery`: the initial state and every step map to `Delivery`'s.

**`PolicyPublish_proofs`.** `TypeCorrect`, `RangesClosedOnce`, `NeverAGap`,
`OverlapExplained`, `DeterminationsReproducible`, `SecondDecisionsExplained`.
`ReviewInv`: a review is of a draft whose base exists and is not the first seed.
`PublishInv`: what a publishing transaction read still holds, or the outgoing set
was closed since, which the trigger then refuses; gaps and second closings are
excluded by it. `ChainInv`: until a base is shared, ranges are pairwise disjoint
and a set is closed only by the one that superseded it.

**`Audit_proofs`**, of `AuditChain`: `TypeCorrect`, `LinksNeverDangle`,
`ChainBrokenOnlyByOvertaking`. `DrawnInv`: ids in hand are fresh and distinct.
`LockInv`: only the lock's holder has uncommitted rows, so that the predecessor a
transaction sees is its own or committed. `LinkInv` and `SoundInv` state the two
properties of every open transaction too, which makes a commit preserve them.
Of `LockOrder`: `LockTypeCorrect`, `AuditHolderNeverQueued`, `DeadlocksNeedRowFirst`,
for any number of sessions and lists of verifications of any length. `OrderInv`: a
session without the audit lock has, in what is left of its plan, that lock
before any row that is not its first. It holds of every plan (`PlanFacts`) and
survives taking locks; so a session that holds a row and waits for another holds
the audit lock, of which there is one.

**`HumanReview_proofs`.** `TypeCorrect`, `ShownIsChained`, `SentIsAudited`,
`DecidedOnceUnlessRaced`, `SummaryKept`, `StaysDecided`. `LockInv`: the transaction
that chained its event, and no other, holds the lock, and its link still names the
last committed id, so that every event committed before is its predecessor or past;
row and chain therefore move together, whatever order the ids were drawn in.
`PostInv`: the worker's open transaction has a summary left to number. `RaceInv`: an
undecided row has no event, and a decided row still in some transaction's hands
is marked raced.

**`Case_proofs`**, of `DocumentIntake`: `TypeCorrect`, `PostedIsConfirmed`,
`ConfirmedOnceUnlessStale`, `RegressionIsRedelivery`. `HoldInv`: a worker that is not
idle holds a delivered document, a page shows a classified one. `StaleInv`: a
document nothing overtook is confirmed at most once, and then shows it.
`CountInv`: a handler that holds a document already classified is at least its
second delivery, which is the only way `RegressionIsRedelivery` leaves to a
confirmed document.
Of `Determination` and `SnapRules`: `DeterminationTypeCorrect`,
`DecisionsAreConsistent`, `NeedIsNeverPaidLess`, `ExpeditedIsAsFacts`,
`ErrorIsFromNewModel`, `SummaryIsIffError`, for every household size, income,
expense, threshold, rate and cap that V2's checks and `validate` accept, and any
scale of money. The lemmas follow the decision tables from income to amount: each
decision has its type, and each grows or shrinks with the facts as it should
(`AdjustedGrows`, `NetGrows`, `TestsGrow`, `BenefitGrows`, `AmountGrows`). The one
step where need does not carry through is the minimum benefit, which
`NeedMonotone` states as the property does. `FiledAsAssembled` compares the sums of
intake with those of the assembler. `DeterminationInv`: a recorded decision is
what its model makes of its snapshot under its set (`RecordedInv`), a review
holds the difference to such a result (`ReviewInv`), and messages are of
committed reviews with an error, one each (`MessageInv`).

**`Caseload_proofs`.** `TypeCorrect`, `AlwaysHeld`, `LastAssignedHolds`,
`ListedWhileHeld`, `AdmittedHolds`. `FreshInv`: `created_at` tells the rows and the
requests about to insert apart, and no date lies in the future. `RequestInv`:
the row a reassignment is about to end still exists. `OpenInv`: a household ever
assigned has an open row, which needs both since a reassignment ends one row and
inserts another. `UnracedInv`: where nothing raced, the last assignment is the
latest row and the only open one, a claim finds no row, and a reassignment began
after every row. `AdmitInv` carries the access check to the write it admits.

**`PublicDemo_proofs`.** `TypeCorrect`, `CapHolds`, `SpendIsAccounted`, `LimitHolds`,
for any number of requests and sessions, any cap, costs and calendar. `LockInv`:
the section has one thread in it, its holder. `SectionInv` says what is known of
the money at each of its statements: before the paid call the file tells what was
spent and is below the cap; after it the file is behind by the bill; with the sum
in hand, the sum is what the file will be, if the month is still the bill's, and
nothing was spent yet if it is not. Both properties are its ends. `LimitInv` orders
the days around the one the counter is at: newer ones are paid for by late
requests, older ones may have a full limit more.

**`Operations_proofs`**, of the seven modules `Operations` composes. An operation
keeps its kind, so each family's invariant is disturbed by its own steps only
(`StepOfKind`); `OutcomeInv`: a result is one its family has, and there is none
before the operation is done.
`AnswersAreAttributed` rests on `AnswerInv`: the calls are the drafts rejected and
the one at hand, and a draft was asked for only when what was retrieved is near and
fits the prompt.
`DraftsAreGrounded` rests on `DraftInv`, which bounds the calls by the attempts of
both loops used so far (`Used`, `CallLimit`), and on two lemmas about the checks:
`PassedIsTrue` and `RejectedIsFalse`, one per kind of draft and rounding.
`RepliesApply` rests on `ReplyInv` and on `ChangesApply`: what `_reconcile` keeps of a
reply names no parameter twice.
`ANameKeepsItsToken`: `TokenInv` carries a token from the vault through the task's
hands (`names`) to the warehouse; the vault is written only where it is empty, by
the unique constraint. `ServedIsAsBuilt` has three parts. `WholeInv`: no warehouse
has a guarded mart of an orphaned extract, and none is served. `FreshInv`: a run without failure or
overlap is the only one under way, and `Progress` says, stage by stage, what it
has made at least as new as its beginning. `OnceInv`: until two runs are under way
at once, what is about to be posted is not there. `ReportedIsOncePerBuild`:
`ReportedInv` counts, for each run, the later ones without results, but not the
run that still has its incidents before it; storing them either is of that run,
which has none yet, or moves that run into the count.

`ChunksArePartition` is about what a recursive cut computes, for a section of any
length. `NumbersInduction` and `SequencesInduction` state induction for a set, not
for an operator, by the least number outside it; from them `FlattenAppend`,
`SplitAppend`, `CutAllAppend` and `KeptAppend` say what one element more does to each
of the folds. `SplitFacts`: the groups of a level are the paragraphs, numbered in
order, each beginning with its own marker (`Headed`). `CutAllFacts`: a level keeps the
text and gives distinct labels, because the labels it receives have no marker of
that level yet (`Below`, `ChildrenDiffer`). `ItemFacts` follows where the excluded item
begins and ends (`BeforeFirst`, `InFirst`, `InSecond`, `InThird`): it is a group of the
first level, with the items before it and after it in other groups (`Around`); each
level cuts those around it and keeps it whole (`CutAround`), and no other chunk gets its
label (`NoItemCut`), so that leaving the label out leaves out the item (`ItemLeftOut`)
or nothing (`NothingExcluded`).

An attempted proof corrected the model once: `Unseen`, the figures of a narrative
that no check catches, was stated with one bound for all values, which the run's
figures did not contradict; of a negative value it is wider, since every value
above -1 is truncated to 0.

Only model-checked: the liveness properties and the liveness part of
`ImplementsDelivery`, since the prover has no support for fairness arguments here.

Two definitions were written for the proofs: `Total` in `Determination` and
`SplitSequential` in `Corpus` are recursive functions, whose existence `SumsExist` and
`SplitExists` show by induction. A section's paragraphs are those of `Paragraph`: the
markers up to the item after the excluded one, which is the second of its list here as
273.9(d)(5) is the last but one of the regulation's, and two sizes, of which the proof
uses only that `TooLarge` holds of a list or does not.

## 7. Where code and words disagree

Two runs end in a counterexample to something the repository says:

- `policy_overlap`: `PolicyParameterPublishService.java:40-42` says ranges never
  overlap. Two drafts against one base that is already closed, accepted one
  after the other, leave two open-ended sets in force, and `findEffectiveOn`
  throws for those dates.
- `audit_verify`: `AuditChainTest.java:33` says each event chains from its
  predecessor. The id is drawn before the trigger's lock, so two concurrent
  appends may link against id order and `verify_chain` reports tampering.

What else came up, stated as the exceptions in the properties that hold:

- `Notice.java:102` says a second reviewer must not be able to re-decide. Of two
  who read the draft, the later commit wins, even over a notice already sent:
  `DecidedTwiceOnlyIfRaced`.
- `CaseAssignmentService.java:66-67` says the first claim sticks. Of two concurrent
  claims the one with the later `created_at` holds the household afterwards: the
  condition in `HeldByLastAssigned`.
- `llm_client.py:253` says of two exhausted tiers that this is never a 500. A guardrail's call that finds both tiers
  unavailable raises outside the one `try` of `public_demo/app.py`: `Unavailable`
  ends such a request as `"unhandled"`.
- `data_quality/service.py:150-165` says a failure only ever gets summarized once.
  A run whose build wrote no results reads the file of the build before:
  `ReportedOncePerBuild`.
- `provenance.py:29` says of a null `generation_model` that no LLM call was made at all.
  An answer abstained from as `ungrounded_after_retry` has it null after two calls:
  `AnswerAttributed` states both.
- `qc_assistant/service.py:26-28` says that malformed and ungrounded summaries share one
  retry budget. `draft_summary` has a loop of its own inside the other, so that one
  summary takes up to four calls: the bound in `DraftsGrounded`.
- The docstring of `_cited_sections` (`qa/service.py:116-121`) says that a misquoted
  section matches nothing. A section whose identifier is inside the misquoted one is
  taken as cited, 273.9(d) in 273.9(d)(7): the prefix case of `AnswerAttributed`.
- The percentages that `mining.py` accepts come from floats: `int(0.29 * 100)` is 28, so a
  narrative that says 28% of 0.29 passes: `Percent`, `Unseen`.
- The decision a row shows need not be the last by id, which is the order of
  `verify_chain`: `RowIsLastChained`.
- The DAG's comment on `materialize` (`canopica_pipeline_dag.py:79-86`) expects it
  to fail loudly where a build left no mart. Once an older build made one, it
  serves that: `ServedFresh` holds only of runs without a failure.
- `sla_monitor` cuts to the most urgent cases before it looks which need a
  refresh, so fresh ones use up a run: `TopCasesReached` promises nothing to the
  cases behind them.

- `worker/config.py:34` archives a message that "failed this many times";
  `read_ct` counts deliveries, so a crash or a timeout uses up an attempt
  (`NoLoss` says one failure is enough at the limit).
- A redelivery puts a CONFIRMED document back to CLASSIFIED
  (`document_intake_consumer.py:66`, against the order in `Document.java:15-17`):
  `RegressesOnlyByRedelivery`.
- The minimum benefit replaces an amount of zero and not the amounts below it: a
  household of one or two with a computed benefit of 1 to 22 dollars gets less
  than a better-off one (`snap-eligibility.dmn:301`): `NeedNeverPaysLess`.
- `isExpedited` sums records whatever their dates, although the comment in
  `IntakeService.java:193-199` sees nothing to filter: the condition in
  `ExpeditedAsFacts`.
- A benefit that rounds to zero makes `determine` fail on V5's check rather than
  record a denial: `Determine`'s last guard.
- Requesting one verification twice is legal and leaves two responses, after
  which `MockVerificationService.java:85` cannot read its status.

## 8. What is not modelled

Queries, mapping, validation messages, PDF rendering, the wording of drafts, and
cryptography: a hash is the identity of the row it belongs to. pgmq, Postgres'
locks, the object store, OpenSearch, Metabase and the model providers are
modelled as the code uses them. `SnapRules` leaves out the decision trace, `Intake`
the person and living arrangement rows, `Caseload` the sensitivity flag.

Of the AI services: the fraud score (a formula over counts, stored once; its
review is in `HumanReview`), the search pipeline's set-up (idempotent calls made
once) and the offline evaluations (scripts that read and print). Of the
warehouse: what the SQL models compute, beyond which rows land, and the
Databricks adapter. Synthetic data is generated before anything runs. Security
configuration, identity and the read controllers have no state that changes. The
user interface is an assumption of `DocumentIntake` (an outdated page),
infrastructure one of `WorkQueue` (no restart policy) and `Warehouse` (one DAG run
at a time, a fresh container for `make pipeline`).

`MockVerificationService.java:85` fails when one verification was requested twice;
that takes two calls and no interleaving, so no property repeats it.

## 9. Plan

Done, in this order: `WorkQueue` with `Delivery`; `PolicyPublish`; `AuditChain`;
`HumanReview`; `DocumentIntake`; `LockOrder`; `SnapRules` and `Determination`;
`Caseload`; `PublicDemo`; `ModelCall`, `Corpus`, `GroundedAnswer`, `DraftedText`,
`StructuredReply`, `StallReasons`, `Warehouse` and their composition. Each was
checked before it was proved about.

Then every safety property of the runs was proved, and the item after the excluded one
was added to `Corpus`.

Next: what section 6 leaves to TLC, the liveness properties, as far as an invariant can
carry their arguments.
