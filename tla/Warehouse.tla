----------------------------- MODULE Warehouse -----------------------------
(***************************************************************************)
(* The pipeline from the operational database to the reports: extract,     *)
(* tokenize, dbt build, materialize, incidents, Metabase.  "dag" is the    *)
(* hourly Airflow DAG, one run at a time over a warehouse it keeps; "make" *)
(* is `make pipeline`, one process over the empty warehouse of a fresh     *)
(* container.  Both share the vault, the serving tables and Metabase.      *)
(*                                                                         *)
(* Cases are numbered as they are filed, each a person and the household   *)
(* member they are, committed together; a table is how many of its rows    *)
(* are there.                                                              *)
(***************************************************************************)
EXTENDS Naturals, Sequences, FiniteSets

CONSTANTS
    MaxFiled,       \* bound on the cases
    MaxRuns,        \* bound on the runs of the two pipelines together
    Marts,          \* GOLD_MARTS, in order
    Guarded,        \* those that ref both fct_household_member and dim_person
    Items           \* what Metabase holds by name, in provisioning order

ASSUME WarehouseAssumption ==
    /\ MaxFiled \in Nat \ {0} /\ MaxRuns \in Nat
    /\ Marts \in Seq(STRING) /\ Items \in Seq(STRING)

Pipeline == {"dag", "make"}
Person == 1..MaxFiled
Mart == {Marts[i] : i \in DOMAIN Marts}
Item == {Items[i] : i \in DOMAIN Items}
DagRun == 1..MaxRuns

ASSUME GuardedAssumption == Guarded \subseteq Mart

NoTable == [persons |-> 0, members |-> 0, there |-> FALSE]
NoToken == "none"

VARIABLES
    filed,      \* cases in the operational database
    vault,      \* pii_token: the token of each name, told by who made it
    stage,      \* the task or statement each pipeline is at
    turn,       \* its place in the loop of that task
    runs,       \* runs begun
    bronze,     \* each warehouse's latest persons and members
    named,      \* and the name tokens it landed
    names,      \* the tokens tokenize_person_names holds, of the persons it read
    gold,       \* each warehouse's marts
    results,    \* the DAG run that wrote the dbt project's run_results.json, or 0
    failing,    \* DAG runs with failed tests in elementary_test_results
    serving,    \* the reporting tables
    metabase,   \* how many of each item
    failed,     \* observed: some task of the pipeline's latest run failed
    since,      \* observed: the cases filed when that run began
    overlapped, \* observed: another run was under way during it, or has begun since
    clashed,    \* observed: two runs were under way at once
    reported,   \* observed: incidents stored for the failed tests of each DAG run
    unbuilt     \* observed: DAG runs that wrote no run_results.json

sources   == <<filed, vault>>
landed    == <<bronze, named, names>>
built     == <<gold, results, failing, unbuilt>>
reports   == <<serving, metabase>>
watched   == <<since, overlapped, clashed>>
warehouse == <<sources, stage, turn, runs, landed, built, reports, failed, watched, reported>>

NoRows == [persons |-> 0, members |-> 0]

WarehouseInit ==
    /\ filed    = 1
    /\ vault    = [n \in Person |-> NoToken]
    /\ stage    = [p \in Pipeline |-> "idle"]
    /\ turn     = [p \in Pipeline |-> 1]
    /\ runs     = [p \in Pipeline |-> 0]
    /\ bronze   = [p \in Pipeline |-> NoRows]
    /\ named    = [p \in Pipeline |-> [n \in Person |-> NoToken]]
    /\ names    = [p \in Pipeline |-> <<>>]
    /\ gold     = [p \in Pipeline |-> [m \in Mart |-> NoTable]]
    /\ results  = 0
    /\ failing  = {}
    /\ serving  = [m \in Mart |-> NoTable]
    /\ metabase = [i \in Item |-> 0]
    /\ failed   = [p \in Pipeline |-> FALSE]
    /\ since    = [p \in Pipeline |-> 0]
    /\ overlapped = [p \in Pipeline |-> FALSE]
    /\ clashed  = FALSE
    /\ reported = [r \in DagRun |-> 0]
    /\ unbuilt  = {}

UnderWay(p) == stage[p] # "idle"

\* The next task, or the first statement of a loop.
Move(p, next) ==
    /\ stage' = [stage EXCEPT ![p] = next]
    /\ turn'  = [turn EXCEPT ![p] = 1]
    /\ UNCHANGED failed

\* The same task, one statement or one element further.
Further(p, next, step) ==
    /\ stage' = [stage EXCEPT ![p] = next]
    /\ turn'  = [turn EXCEPT ![p] = @ + step]
    /\ UNCHANGED failed

\* A failed task ends `make`; in the DAG its successors are skipped up to
\* the first with ALL_DONE, and provision_metabase has none.
Stop(p, allDone) ==
    /\ stage' = [stage EXCEPT ![p] = IF p = "dag" THEN allDone ELSE "idle"]
    /\ turn'  = [turn EXCEPT ![p] = 1]
    /\ failed' = [failed EXCEPT ![p] = TRUE]

\* A case is filed; the two rows are one transaction.
FileCase ==
    /\ filed < MaxFiled
    /\ filed' = filed + 1
    /\ UNCHANGED <<vault, stage, turn, runs, landed, built, reports, failed, watched, reported>>

BeginRun(p) ==
    LET others == {q \in Pipeline \ {p} : UnderWay(q)} IN
    /\ ~UnderWay(p) /\ runs["dag"] + runs["make"] < MaxRuns
    /\ runs'  = [runs EXCEPT ![p] = @ + 1]
    /\ stage' = [stage EXCEPT ![p] = "persons"]
    /\ failed' = [failed EXCEPT ![p] = FALSE]
    /\ since' = [since EXCEPT ![p] = filed]
    /\ overlapped' = [q \in Pipeline |-> q # p \/ others # {}]
    /\ clashed' = (clashed \/ others # {})
    /\ IF p = "make"
       THEN /\ bronze' = [bronze EXCEPT ![p] = NoRows]
            /\ named'  = [named EXCEPT ![p] = [n \in Person |-> NoToken]]
            /\ gold'   = [gold EXCEPT ![p] = [m \in Mart |-> NoTable]]
            /\ UNCHANGED unbuilt
       ELSE /\ unbuilt' = unbuilt \cup {runs[p] + 1}     \* until its build writes one
            /\ UNCHANGED <<bronze, named, gold>>
    /\ UNCHANGED <<sources, turn, names, results, failing, reports, reported>>
-----------------------------------------------------------------------------
(* extract_to_bronze: every table with a connection of its own, persons    *)
(* long before the last of the tables that refer to them                   *)

LatestLanding(before, now) == now

ExtractPersons(p) ==
    /\ stage[p] = "persons"
    /\ bronze' = [bronze EXCEPT ![p].persons = LatestLanding(@, filed)]
    /\ Move(p, "members")
    /\ UNCHANGED <<sources, runs, named, names, built, reports, watched, reported>>

ExtractMembers(p) ==
    /\ stage[p] = "members"
    /\ bronze' = [bronze EXCEPT ![p].members = LatestLanding(@, filed)]
    /\ Move(p, "names")
    /\ UNCHANGED <<sources, runs, named, names, built, reports, watched, reported>>

\* The database, the disk or the process fails, between two statements.
TaskFails(p) ==
    /\ stage[p] \in {"persons", "members", "names", "token"}
    /\ Stop(p, "drop")
    /\ names' = [names EXCEPT ![p] = <<>>]
    /\ UNCHANGED <<sources, runs, bronze, named, built, reports, watched, reported>>
-----------------------------------------------------------------------------
(* tokenize_person_names: reads the persons once more, then their tokens   *)
(* one by one, each statement committed                                    *)

ReadNames(p) ==
    /\ stage[p] = "names"
    /\ names' = [names EXCEPT ![p] = [n \in 1..filed |-> NoToken]]
    /\ Move(p, "token")
    /\ UNCHANGED <<sources, runs, bronze, named, built, reports, watched, reported>>

FindToken(p) ==
    LET n == turn[p] IN
    /\ stage[p] = "token" /\ n \in DOMAIN names[p]
    /\ IF vault[n] # NoToken
       THEN names' = [names EXCEPT ![p][n] = vault[n]] /\ Further(p, "token", 1)
       ELSE UNCHANGED names /\ Further(p, "insert", 0)
    /\ UNCHANGED <<sources, runs, bronze, named, built, reports, watched, reported>>

\* Seeded bug: V11 has no unique constraint.
AnyName(n) == TRUE

UniqueName(n) == vault[n] = NoToken

\* A name inserted meanwhile violates the constraint and the task fails, as
\* it does if the database is gone.
InsertToken(p) ==
    LET n == turn[p] IN
    /\ stage[p] = "insert" /\ UniqueName(n)
    /\ vault' = [vault EXCEPT ![n] = p]
    /\ names' = [names EXCEPT ![p][n] = p]
    /\ Further(p, "token", 1)
    /\ UNCHANGED <<filed, runs, bronze, named, built, reports, watched, reported>>

InsertFails(p) ==
    /\ stage[p] = "insert"
    /\ Stop(p, "drop")
    /\ names' = [names EXCEPT ![p] = <<>>]
    /\ UNCHANGED <<sources, runs, bronze, named, built, reports, watched, reported>>

LandTokens(p) ==
    /\ stage[p] = "token" /\ turn[p] \notin DOMAIN names[p]
    /\ named' = [named EXCEPT ![p] =
                    [n \in Person |-> IF n \in DOMAIN names[p] THEN names[p][n] ELSE @[n]]]
    /\ names' = [names EXCEPT ![p] = <<>>]
    /\ Move(p, "build")
    /\ UNCHANGED <<sources, runs, bronze, built, reports, watched, reported>>
-----------------------------------------------------------------------------
(* dbt build, as the SQL and the tests of the project make it behave       *)

\* Seeded bug: fct_household_member.person_key has no relationships test.
Untested(p) == FALSE

\* A member is not among the persons extracted before: the relationships test
\* of fct_household_member.person_key to dim_person fails.  dbt build skips a
\* model that depends on every model a failing test depends on.
Orphaned(p) == bronze[p].members > bronze[p].persons

Snapshot(p) == [persons |-> bronze[p].persons, members |-> bronze[p].members, there |-> TRUE]

\* Which marts are built again; whether results are written, and failures in
\* them: other tests fail too, and dbt may die.  A model that fails is as a
\* test whose incident is not stored.
Build(p) ==
    /\ stage[p] = "build"
    /\ \E new \in SUBSET Mart, outcome \in {"clean", "tests", "died"} :
        /\ Orphaned(p) => new \cap Guarded = {} /\ outcome \in {"tests", "died"}
        /\ outcome = "clean" => new = Mart
        /\ gold' = [gold EXCEPT ![p] = [m \in Mart |-> IF m \in new THEN Snapshot(p) ELSE @[m]]]
        /\ IF p = "dag" /\ outcome # "died"
           THEN results' = runs[p] /\ unbuilt' = unbuilt \ {runs[p]}
           ELSE UNCHANGED <<results, unbuilt>>
        /\ failing' = IF p = "dag" /\ outcome = "tests" THEN failing \cup {runs[p]} ELSE failing
        /\ IF outcome = "clean" THEN Move(p, "drop") ELSE Stop(p, "drop")
    /\ UNCHANGED <<sources, runs, landed, reports, watched, reported>>
-----------------------------------------------------------------------------
(* materialize_gold: per mart two statements, each committed               *)

DropMart(p) ==
    /\ stage[p] = "drop" /\ turn[p] \in DOMAIN Marts
    /\ serving' = [serving EXCEPT ![Marts[turn[p]]] = NoTable]
    /\ Further(p, "create", 0)
    /\ UNCHANGED <<sources, runs, landed, built, metabase, watched, reported>>

CreateMart(p) ==
    LET m == Marts[turn[p]] IN
    /\ stage[p] = "create" /\ gold[p][m].there /\ ~serving[m].there
    /\ serving' = [serving EXCEPT ![m] = gold[p][m]]
    /\ Further(p, "drop", 1)
    /\ UNCHANGED <<sources, runs, landed, built, metabase, watched, reported>>

\* The warehouse has no such mart, another run created the table meanwhile,
\* or the database or the process fails.
MaterializeFails(p) ==
    /\ stage[p] \in {"drop", "create"}
    /\ Stop(p, "incidents")
    /\ UNCHANGED <<sources, runs, landed, built, reports, watched, reported>>

Materialized(p) ==
    /\ stage[p] = "drop" /\ turn[p] \notin DOMAIN Marts
    /\ Move(p, IF p = "dag" THEN "incidents" ELSE "find")
    /\ UNCHANGED <<sources, runs, landed, built, reports, watched, reported>>
-----------------------------------------------------------------------------
(* refresh_data_quality_incidents: the failed tests of the invocation that *)
(* run_results.json names                                                  *)

\* The build whose results are there, if any: not always the last one begun.
Invocation == results

\* Seeded bug: the invocation is not asked for.
EveryFailure == failing

FailedTests == failing \cap {Invocation}

\* A draft that fails is skipped; what is not caught ends the task, perhaps
\* with the incident already stored.
Incidents(p) ==
    /\ stage[p] = "incidents"
    /\ \E stored \in SUBSET FailedTests :
        /\ reported' = [r \in DagRun |-> reported[r] + (IF r \in stored THEN 1 ELSE 0)]
        /\ \/ Invocation # 0 /\ Move(p, "find")
           \/ (Invocation = 0 \/ FailedTests # {}) /\ Stop(p, "idle")
    /\ UNCHANGED <<sources, runs, landed, built, reports, watched>>
-----------------------------------------------------------------------------
(* provision: each item is looked for by name, then created                *)

FindItem(p) ==
    /\ stage[p] = "find" /\ turn[p] \in DOMAIN Items
    /\ IF metabase[Items[turn[p]]] > 0 THEN Further(p, "find", 1) ELSE Further(p, "post", 0)
    /\ UNCHANGED <<sources, runs, landed, built, reports, watched, reported>>

PostItem(p) ==
    /\ stage[p] = "post"
    /\ metabase' = [metabase EXCEPT ![Items[turn[p]]] = @ + 1]
    /\ Further(p, "find", 1)
    /\ UNCHANGED <<sources, runs, landed, built, serving, watched, reported>>

\* Setup or login, a search, a post.
ProvisionFails(p) ==
    /\ stage[p] \in {"find", "post"}
    /\ Stop(p, "idle")
    /\ UNCHANGED <<sources, runs, landed, built, reports, watched, reported>>

Provisioned(p) ==
    /\ stage[p] = "find" /\ turn[p] \notin DOMAIN Items
    /\ Move(p, "idle")
    /\ UNCHANGED <<sources, runs, landed, built, reports, watched, reported>>

WarehouseStep(p) ==
    \/ BeginRun(p) \/ ExtractPersons(p) \/ ExtractMembers(p) \/ TaskFails(p)
    \/ ReadNames(p) \/ FindToken(p) \/ InsertToken(p) \/ InsertFails(p) \/ LandTokens(p)
    \/ Build(p)
    \/ DropMart(p) \/ CreateMart(p) \/ MaterializeFails(p) \/ Materialized(p)
    \/ Incidents(p)
    \/ FindItem(p) \/ PostItem(p) \/ ProvisionFails(p) \/ Provisioned(p)

WarehouseNext == FileCase \/ \E p \in Pipeline : WarehouseStep(p)
-----------------------------------------------------------------------------

\* A warehouse never holds a token the vault does not give for that name:
\* whatever two pipelines miss and insert, a name keeps its one token, so
\* that detokenize finds whom a report is about (get_or_create_token).
NamesKeepTheirToken ==
    \A p \in Pipeline, n \in Person : named[p][n] # NoToken => named[p][n] = vault[n]

\* The fairness audit that is served never counts over members whose person
\* is missing, although the tables are read one after the other while cases
\* are filed: its inner join would drop their determinations from the rates.
ServedWhole == \A m \in Guarded : serving[m].members <= serving[m].persons

\* After a run without a failure or an overlap every mart is there, with all
\* that was filed when the run began, whatever older runs left behind.
ServedFresh ==
    \A p \in Pipeline :
        ~UnderWay(p) /\ runs[p] > 0 /\ ~failed[p] /\ ~overlapped[p] =>
            \A m \in Mart : /\ serving[m].there
                            /\ serving[m].persons >= since[p]
                            /\ serving[m].members >= since[p]

\* The search for an item and its post are two requests: nothing is there
\* twice unless two runs were under way at once (provision).
ProvisionedOnce == ~clashed => \A i \in Item : metabase[i] <= 1

\* What the reports show holds together, is not older than the last good
\* run, and is there once (extract_to_bronze, materialize_gold, provision).
ServedAsBuilt == ServedWhole /\ ServedFresh /\ ProvisionedOnce

\* A failure is summarised once, and once more only for each later run that
\* ended without results of its own and so found the old ones
\* (refresh_data_quality_incidents).
ReportedOncePerBuild ==
    \A r \in DagRun : reported[r] <= 1 + Cardinality({later \in unbuilt : later > r})
=============================================================================
