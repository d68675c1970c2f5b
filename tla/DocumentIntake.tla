--------------------------- MODULE DocumentIntake ---------------------------
(***************************************************************************)
(* The life of an uploaded document: DocumentService.upload (object store  *)
(* first, then row, audit event and queue message in one transaction), the *)
(* worker's document_intake_consumer, the review form, DocumentService.    *)
(* confirm, and the verifications a document or a mock request satisfies.  *)
(*                                                                         *)
(* Every UPDATE here is blind: none looks at the status it replaces, so a  *)
(* transaction is one step.  Documents belong to one case; Elsewhere holds *)
(* the verifications of other cases.  The queue is seen from its contract  *)
(* (module WorkQueue): a message stays until it is deleted or archived.    *)
(***************************************************************************)
EXTENDS Naturals, FiniteSets

CONSTANTS
    Doc,           \* documents, by the ids uploads generate
    Verification,  \* rows of verification
    Elsewhere,     \* those of another case
    Worker,        \* worker processes
    Reviewer,      \* open review pages
    MaxAttempts,   \* max_delivery_attempts
    MaxCrashes,    \* bound on worker crashes
    MaxRequests,   \* bound on mock requests of one verification
    NoDoc

ASSUME CaseAssumption   == Elsewhere \subseteq Verification /\ NoDoc \notin Doc
ASSUME BoundsAssumption == /\ MaxAttempts \in Nat \ {0}
                           /\ MaxCrashes \in Nat /\ MaxRequests \in Nat

VARIABLES
    objects,    \* documents whose object is stored
    status,     \* classification_status, "none" before the row
    matched,    \* extraction.matched_verification_ids
    posted,     \* income records posted from a document
    confirmed,  \* DOCUMENT_CLASSIFIED events of stage CONFIRMED
    queue,      \* documents with a message in document_intake
    archived,   \* documents whose message was archived
    reads,      \* read_ct of the message
    hand,       \* the document a worker is handling
    attempt,    \* read_ct as the worker got it
    stage,      \* how far its handler is
    draft,      \* the matches it has drafted
    form,       \* the document a review page shows
    received,   \* verifications with status RECEIVED
    responses,  \* verification_response rows of a verification
    crashes,    \* observed: worker crashes
    stale       \* observed: documents confirmed from an outdated page, or regressed

docVars    == <<objects, status, matched, posted, confirmed>>
queueVars  == <<queue, archived, reads>>
workerVars == <<hand, attempt, stage, draft>>
caseVars   == <<received, responses>>
vars == <<docVars, queueVars, workerVars, form, caseVars, crashes, stale>>

Init ==
    /\ objects   = {}
    /\ status    = [d \in Doc |-> "none"]
    /\ matched   = [d \in Doc |-> {}]
    /\ posted    = [d \in Doc |-> 0]
    /\ confirmed = [d \in Doc |-> 0]
    /\ queue     = {}
    /\ archived  = {}
    /\ reads     = [d \in Doc |-> 0]
    /\ hand      = [w \in Worker |-> NoDoc]
    /\ attempt   = [w \in Worker |-> 0]
    /\ stage     = [w \in Worker |-> "idle"]
    /\ draft     = [w \in Worker |-> {}]
    /\ form      = [v \in Reviewer |-> NoDoc]
    /\ received  = {}
    /\ responses = [x \in Verification |-> 0]
    /\ crashes   = 0
    /\ stale     = {}

-----------------------------------------------------------------------------
(* Upload                                                                  *)

\* s3.putObject, outside what the database can roll back.
PutObject(d) ==
    /\ d \notin objects
    /\ objects' = objects \cup {d}
    /\ UNCHANGED <<status, matched, posted, confirmed, queueVars, workerVars, form, caseVars,
                   crashes, stale>>

\* The commit of upload: row, event and message.  One that fails leaves an
\* object without a row.
CommitUpload(d) ==
    /\ d \in objects
    /\ status[d] = "none"
    /\ status' = [status EXCEPT ![d] = "PENDING"]
    /\ queue'  = queue \cup {d}
    /\ UNCHANGED <<objects, matched, posted, confirmed, archived, reads, workerVars, form, caseVars,
                   crashes, stale>>

-----------------------------------------------------------------------------
(* Classification                                                          *)

\* Seeded bug: the last attempt is never given out.
DeliverBelowLimit(w, d) ==
    /\ stage[w] = "idle"
    /\ d \in queue
    /\ reads[d] + 1 < MaxAttempts
    /\ reads'   = [reads EXCEPT ![d] = @ + 1]
    /\ hand'    = [hand EXCEPT ![w] = d]
    /\ attempt' = [attempt EXCEPT ![w] = reads[d] + 1]
    /\ stage'   = [stage EXCEPT ![w] = "read"]
    /\ UNCHANGED <<docVars, queue, archived, draft, form, caseVars, crashes, stale>>

\* poll_once reads the message; another worker may hold it, overdue.
Deliver(w, d) ==
    /\ stage[w] = "idle"
    /\ d \in queue
    /\ reads'   = [reads EXCEPT ![d] = @ + 1]
    /\ hand'    = [hand EXCEPT ![w] = d]
    /\ attempt' = [attempt EXCEPT ![w] = reads[d] + 1]
    /\ stage'   = [stage EXCEPT ![w] = "read"]
    /\ UNCHANGED <<docVars, queue, archived, draft, form, caseVars, crashes, stale>>

\* classify_and_extract: the object is fetched, some outstanding
\* verifications of the case are proposed.
Classify(w, M) ==
    /\ stage[w] = "read"
    /\ hand[w] \in objects
    /\ M \cap (received \cup Elsewhere) = {}
    /\ draft' = [draft EXCEPT ![w] = M]
    /\ stage' = [stage EXCEPT ![w] = "drafted"]
    /\ UNCHANGED <<docVars, queueVars, hand, attempt, form, caseVars, crashes, stale>>

\* _persist: CLASSIFIED and the extraction, whatever the status is by now.
Persist(w) ==
    /\ stage[w] = "drafted"
    /\ status'  = [status EXCEPT ![hand[w]] = "CLASSIFIED"]
    /\ matched' = [matched EXCEPT ![hand[w]] = draft[w]]
    /\ stale'   = IF status[hand[w]] = "CONFIRMED" THEN stale \cup {hand[w]} ELSE stale
    /\ stage'   = [stage EXCEPT ![w] = "done"]
    /\ UNCHANGED <<objects, posted, confirmed, queueVars, hand, attempt, draft, form, caseVars, crashes>>

Idle(w) ==
    /\ hand'    = [hand EXCEPT ![w] = NoDoc]
    /\ attempt' = [attempt EXCEPT ![w] = 0]
    /\ stage'   = [stage EXCEPT ![w] = "idle"]
    /\ draft'   = [draft EXCEPT ![w] = {}]

\* The handler returned: delete.
Ack(w) ==
    /\ stage[w] = "done"
    /\ queue' = queue \ {hand[w]}
    /\ Idle(w)
    /\ UNCHANGED <<docVars, archived, reads, form, caseVars, crashes, stale>>

\* The handler raised: the message is left, or archived at the last attempt
\* (if another worker has not removed it).
Fail(w) ==
    /\ stage[w] \in {"read", "drafted"}
    /\ IF attempt[w] >= MaxAttempts /\ hand[w] \in queue
       THEN queue' = queue \ {hand[w]} /\ archived' = archived \cup {hand[w]}
       ELSE UNCHANGED <<queue, archived>>
    /\ Idle(w)
    /\ UNCHANGED <<docVars, reads, form, caseVars, crashes, stale>>

\* The process dies, or delete raises: the message is left, and a worker
\* started again.
Crash(w) ==
    /\ stage[w] # "idle"
    /\ crashes < MaxCrashes
    /\ crashes' = crashes + 1
    /\ Idle(w)
    /\ UNCHANGED <<docVars, queueVars, form, caseVars, stale>>

-----------------------------------------------------------------------------
(* Review                                                                  *)

\* Seeded bug: the review queue lists documents still being classified.
OpenUnclassified(v, d) ==
    /\ form[v] = NoDoc
    /\ status[d] \in {"PENDING", "CLASSIFIED"}
    /\ form' = [form EXCEPT ![v] = d]
    /\ UNCHANGED <<docVars, queueVars, workerVars, caseVars, crashes, stale>>

\* The review page shows a document of the queue it loaded.
OpenForm(v, d) ==
    /\ form[v] = NoDoc
    /\ status[d] = "CLASSIFIED"
    /\ form' = [form EXCEPT ![v] = d]
    /\ UNCHANGED <<docVars, queueVars, workerVars, caseVars, crashes, stale>>

\* Seeded bug: no transaction, so a refused verification leaves the income.
ConfirmPiecewise(v, S, income) ==
    LET d == form[v] IN
    /\ d # NoDoc
    /\ posted' = IF income THEN [posted EXCEPT ![d] = @ + 1] ELSE posted
    /\ IF S \cap Elsewhere = {}
       THEN /\ status'    = [status EXCEPT ![d] = "CONFIRMED"]
            /\ confirmed' = [confirmed EXCEPT ![d] = @ + 1]
            /\ received'  = received \cup S
       ELSE UNCHANGED <<status, confirmed, received>>
    /\ form' = [form EXCEPT ![v] = NoDoc]
    /\ UNCHANGED <<objects, matched, queueVars, workerVars, responses, crashes, stale>>

\* Seeded bug: the status update is lost.
ConfirmWithoutStatus(v, S, income) ==
    LET d == form[v] IN
    /\ d # NoDoc
    /\ S \cap Elsewhere = {}
    /\ posted'    = IF income THEN [posted EXCEPT ![d] = @ + 1] ELSE posted
    /\ received'  = received \cup S
    /\ confirmed' = [confirmed EXCEPT ![d] = @ + 1]
    /\ form' = [form EXCEPT ![v] = NoDoc]
    /\ UNCHANGED <<objects, status, matched, queueVars, workerVars, responses, crashes, stale>>

\* confirm: the income, the verifications (each of this case, or all is
\* rolled back), the status and the event, in one transaction.
Confirm(v, S, income) ==
    LET d == form[v] IN
    /\ d # NoDoc
    /\ S \cap Elsewhere = {}
    /\ posted'    = IF income THEN [posted EXCEPT ![d] = @ + 1] ELSE posted
    /\ received'  = received \cup S
    /\ status'    = [status EXCEPT ![d] = "CONFIRMED"]
    /\ confirmed' = [confirmed EXCEPT ![d] = @ + 1]
    /\ stale'     = IF status[d] = "CONFIRMED" THEN stale \cup {d} ELSE stale
    /\ form' = [form EXCEPT ![v] = NoDoc]
    /\ UNCHANGED <<objects, matched, queueVars, workerVars, responses, crashes>>

\* requestVerification: a response, RECEIVED, and the two events.
Request(x) ==
    /\ responses[x] < MaxRequests
    /\ responses' = [responses EXCEPT ![x] = @ + 1]
    /\ received'  = received \cup {x}
    /\ UNCHANGED <<docVars, queueVars, workerVars, form, crashes, stale>>

-----------------------------------------------------------------------------
WorkerStep(w) ==
    \/ \E d \in Doc : Deliver(w, d)
    \/ \E M \in SUBSET Verification : Classify(w, M)
    \/ Persist(w)
    \/ Ack(w)
    \/ Fail(w)

Next ==
    \/ \E d \in Doc : PutObject(d) \/ CommitUpload(d)
    \/ \E w \in Worker : WorkerStep(w) \/ Crash(w)
    \/ \E v \in Reviewer, d \in Doc : OpenForm(v, d)
    \/ \E v \in Reviewer, S \in SUBSET Verification, income \in BOOLEAN : Confirm(v, S, income)
    \/ \E x \in Verification : Request(x)

\* Workers keep polling, and every handler returns or raises.
Spec == Init /\ [][Next]_vars /\ \A w \in Worker : WF_vars(WorkerStep(w))

-----------------------------------------------------------------------------
(* Correctness                                                             *)

Status == {"none", "PENDING", "CLASSIFIED", "CONFIRMED"}

\* Every variable keeps its type.
TypeOK ==
    /\ objects   \in SUBSET Doc
    /\ status    \in [Doc -> Status]
    /\ matched   \in [Doc -> SUBSET (Verification \ Elsewhere)]
    /\ posted    \in [Doc -> Nat]
    /\ confirmed \in [Doc -> Nat]
    /\ queue     \in SUBSET Doc
    /\ archived  \in SUBSET Doc
    /\ reads     \in [Doc -> Nat]
    /\ hand      \in [Worker -> Doc \cup {NoDoc}]
    /\ attempt   \in [Worker -> Nat]
    /\ stage     \in [Worker -> {"idle", "read", "drafted", "done"}]
    /\ draft     \in [Worker -> SUBSET (Verification \ Elsewhere)]
    /\ form      \in [Reviewer -> Doc \cup {NoDoc}]
    /\ received  \in SUBSET Verification
    /\ responses \in [Verification -> 0..MaxRequests]
    /\ crashes   \in 0..MaxCrashes
    /\ stale     \in SUBSET Doc

\* No income is posted, and no status set, without the event that says who
\* confirmed it: a refused confirmation leaves nothing behind.
PostedAsConfirmed ==
    \A d \in Doc :
        /\ posted[d] <= confirmed[d]
        /\ status[d] = "CONFIRMED" => confirmed[d] > 0

\* A document is confirmed twice (its income posted twice) only from an
\* outdated page or after a late delivery put it back into the review queue.
ConfirmedTwiceOnlyIfStale == \A d \in Doc : confirmed[d] > 1 => d \in stale

\* A confirmed document goes back to CLASSIFIED only by a second delivery.
RegressesOnlyByRedelivery ==
    [][ \A d \in Doc : status[d] = "CONFIRMED" /\ status'[d] # "CONFIRMED" => reads[d] > 1 ]_vars

\* Every upload is classified in the end, or its message archived.
EveryUploadSettles ==
    \A d \in Doc : (status[d] = "PENDING") ~> (status[d] # "PENDING" \/ d \in archived)
=============================================================================
