-------------------------- MODULE Operations_proofs --------------------------
(***************************************************************************)
(* Proofs about Operations, for any corpus, figures, parameters, metrics,  *)
(* limits, marts, cases and pipeline runs.  Each step is of one operation  *)
(* and leaves the state of the others alone, so that every kind of         *)
(* operation has an invariant of its own.                                  *)
(***************************************************************************)
EXTENDS Operations, FiniteSetTheorems, SequenceTheorems, NaturalsInduction,
        WellFoundedInduction, TLAPS

Replying == Asking \cup {"tool"}

\* An operation ends in a result of its kind or in an error, and only an
\* answer leaves a row.
Results ==
    CASE op.kind \in Answering -> {"answer"}
      [] op.kind \in Drafting  -> {"text"}
      [] op.kind \in Replying  -> {"proposal", "document", "rows"}
      [] OTHER                 -> {"chunks"}

OutcomeInv ==
    /\ out.is \in {"nothing", "error"} \cup Results
    /\ op.kind \notin Answering => row = Nothing
    /\ op.kind \notin Drafting => ~Raised("GroundingError")
    /\ at # "done" => out = Nothing

-----------------------------------------------------------------------------
(* GroundedAnswer                                                          *)

\* Calls are the drafts rejected, and the one at hand; a draft was asked for
\* only when what was retrieved is near and fits the prompt.
AnswerInv ==
    op.kind \in Answering =>
        /\ at \in {"start", "search", "ask", "check", "done"}
        /\ tries \in [bad : Nat, rejected : 0..1]
        /\ at \in {"start", "search"} => calls = 0 /\ tries.rejected = 0
        /\ at = "ask" => calls = tries.rejected
        /\ at = "check" => calls = tries.rejected + 1
        /\ at \in {"ask", "check"} => facts.near \in BOOLEAN /\ facts.fits \in BOOLEAN
        /\ at = "check" \/ (at = "ask" /\ tries.rejected = 1) => ~Weak /\ facts.fits
        /\ at # "done" => row = Nothing
        /\ AnswerAttributed

-----------------------------------------------------------------------------
(* DraftedText                                                             *)

\* The calls a rejected draft has cost, and those since.
Used == IF op.kind = "incident" THEN tries.bad + tries.rejected
        ELSE tries.rejected * MaxAttempts + tries.bad

CallLimit == IF op.kind \in {"notice", "incident"} THEN MaxAttempts
             ELSE MaxAttempts * MaxAttempts

Judged == Returned("text") \/ (Raised("GroundingError") /\ text # Malformed)

DraftInv ==
    op.kind \in Drafting =>
        /\ at \in {"start", "ask", "read", "store", "done"}
        /\ tries \in [bad : Nat, rejected : Nat] /\ calls \in Nat
        /\ at = "start" => calls = 0 /\ tries = NoTries
        /\ at \in {"ask", "read"} =>
            /\ tries.bad < MaxAttempts /\ tries.rejected < MaxAttempts
            /\ Used < CallLimit
            /\ op.kind = "notice" => tries.rejected = 0
            /\ calls <= IF at = "ask" THEN Used ELSE Used + 1
        /\ calls <= CallLimit
        /\ at \in {"ask", "read", "store"} \/ Judged => facts.values \subseteq Figure
        /\ at \in {"read", "store"} \/ Judged => text = Malformed \/ text.figures \subseteq Figure
        /\ at = "store" \/ Judged => text # Malformed
        /\ Returned("text") => out.passed = Passes
        /\ Raised("GroundingError") /\ text # Malformed => ~Passes

-----------------------------------------------------------------------------
(* StructuredReply                                                         *)

ReplyInv ==
    op.kind \in Replying =>
        /\ at \in {"start", "ask", "fit", "done"}
        /\ tries \in [bad : Nat, rejected : Nat]
        /\ op.kind \in Asking =>
            /\ at = "start" => calls = 0 /\ tries.bad = 0
            /\ at = "ask" => calls = tries.bad /\ tries.bad < MaxTries
            /\ at = "fit" => calls = tries.bad + 1 /\ tries.bad < MaxTries
            /\ calls <= MaxTries
        /\ op.kind = "rules" /\ at \in {"ask", "fit"} => facts \in RuleFacts
        /\ op.kind = "query" /\ at \in {"ask", "fit"} => op.access
        /\ at = "fit" =>
            text \in IF op.kind = "tool"
                     THEN [is : {"reply"}, of : {r \in QueryReplies : r.tool = "query_metric"}]
                     ELSE RepliesTo(op.kind)
        /\ RulesApply /\ DashboardApplies /\ RowsAllowed

-----------------------------------------------------------------------------
(* Warehouse                                                               *)

Stages == {"idle", "persons", "members", "names", "token", "insert", "build",
           "drop", "create", "incidents", "find", "post"}

\* Where a pipeline stands; only the DAG has a task for incidents.
ControlInv ==
    /\ stage \in [Pipeline -> Stages] /\ turn \in [Pipeline -> Nat \ {0}]
    /\ failed \in [Pipeline -> BOOLEAN]
    /\ runs \in [Pipeline -> Nat] /\ runs["dag"] + runs["make"] <= MaxRuns
    /\ stage["make"] # "incidents"
    /\ \A p \in Pipeline : /\ stage[p] = "create" => turn[p] \in DOMAIN Marts
                           /\ stage[p] = "post" => turn[p] \in DOMAIN Items

Table  == [persons : Nat, members : Nat, there : BOOLEAN]
Tokens == Pipeline \cup {NoToken}

TableTypes ==
    /\ filed \in 1..MaxFiled
    /\ bronze \in [Pipeline -> [persons : Nat, members : Nat]]
    /\ gold \in [Pipeline -> [Mart -> Table]] /\ serving \in [Mart -> Table]
    /\ since \in [Pipeline -> Nat] /\ overlapped \in [Pipeline -> BOOLEAN]

TokenTypes ==
    /\ filed \in 1..MaxFiled
    /\ vault \in [Person -> Tokens]
    /\ named \in [Pipeline -> [Person -> Tokens]]
    /\ names \in [Pipeline -> Seq(Tokens)] /\ \A p \in Pipeline : Len(names[p]) <= filed

\* What a task holds of the vault is what the vault still says.
TokenInv ==
    \A p \in Pipeline :
        /\ \A n \in DOMAIN names[p] : names[p][n] # NoToken => names[p][n] = vault[n]
        /\ \A n \in Person : named[p][n] # NoToken => named[p][n] = vault[n]

\* A warehouse never has a guarded mart built from an orphaned extract.
WholeInv ==
    /\ ServedWhole
    /\ \A p \in Pipeline, m \in Guarded : gold[p][m].members <= gold[p][m].persons

\* A run nobody overlapped, and in which nothing has failed yet.
Undisturbed(p) == runs[p] > 0 /\ ~failed[p] /\ ~overlapped[p]

Fresh(table, p) == table.there /\ table.persons >= since[p] /\ table.members >= since[p]

Extracted  == {"names", "token", "insert", "build", "drop", "create", "incidents", "find", "post"}
Built      == {"drop", "create", "incidents", "find", "post"}

\* How far such a run has come, which is alone.
Progress(p) ==
    /\ stage[p] \in {"members"} \cup Extracted => bronze[p].persons >= since[p]
    /\ stage[p] \in Extracted => bronze[p].members >= since[p]
    /\ stage[p] \in Built => \A m \in Mart : Fresh(gold[p][m], p)
    /\ stage[p] = "drop" => \A j \in DOMAIN Marts : j < turn[p] => Fresh(serving[Marts[j]], p)
    /\ stage[p] = "create" => \A j \in DOMAIN Marts :
            j < turn[p] /\ Marts[j] # Marts[turn[p]] => Fresh(serving[Marts[j]], p)
    /\ stage[p] \in {"incidents", "find", "post", "idle"} => \A m \in Mart : Fresh(serving[m], p)

FreshInv ==
    /\ \A p \in Pipeline : since[p] <= filed
    /\ \A p \in Pipeline : Undisturbed(p) =>
            (\A q \in Pipeline \ {p} : ~UnderWay(q)) /\ Progress(p)

\* Until two runs are under way at once, one search and its post are alone.
OnceInv ==
    /\ clashed \in BOOLEAN /\ metabase \in [Item -> Nat]
    /\ ~clashed =>
        /\ \A p, q \in Pipeline : UnderWay(p) /\ UnderWay(q) => p = q
        /\ \A i \in Item : metabase[i] <= 1
        /\ \A p \in Pipeline : stage[p] = "post" => metabase[Items[turn[p]]] = 0

\* The DAG's run has its incidents still before it.
Pending == stage["dag"] \notin {"idle", "find", "post"}

Later(r, S) == {later \in S : later > r}

\* The run that is pending is not counted yet.
ReportedInv ==
    LET run == runs["dag"]
        counted == IF Pending THEN unbuilt \ {run} ELSE unbuilt
    IN  /\ \A r \in DagRun : reported[r] <= 1 + Cardinality(Later(r, counted))
        /\ \A r \in DagRun : r > run \/ (Pending /\ r = run) => reported[r] = 0
        /\ Pending => run \in unbuilt \/ results = run
        /\ Pending => run > 0
        /\ results \in 0..run /\ unbuilt \subseteq 1..run /\ reported \in [DagRun -> Nat]

-----------------------------------------------------------------------------
(* Steps and kinds                                                         *)

LEMMA AnswerKind == AnswerNext => op' = op /\ op.kind \in Answering
BY DEF AnswerNext, FetchTrace, Search, AtSearch, AbstainWeak, AbstainLong, Draft, Redraft,
       AbstainUngrounded, Accept, At, Answering

LEMMA DraftKind == DraftNext => op' = op /\ op.kind \in Drafting
BY DEF DraftNext, FetchDetermination, FetchTraces, GatherStallContext, GatherContext, RunMetric,
       GatherBy, NotFound, Ask, ReadMalformed, Reject, Keep, StoreNotice, StoreSummary, StoreBy,
       At, Drafting

LEMMA ReplyKind == ReplyNext => op' = op /\ op.kind \in Replying
BY DEF ReplyNext, ReadCurrentValues, ReadCurrentModel, FetchDocument, OfferTools, RefuseCaller,
       ReadBy, AskModel, NoQuery, Misfit, Again, CallTool, RunQuery, ProposeParameterChanges,
       ProposeDashboard, ProposeBy, MatchDocument, At, Asking, Replying

\* Whose step it is.
LEMMA StepOfKind ==
    ASSUME [Next]_vars
    PROVE  /\ op' = op
           /\ \/ AnswerNext /\ op.kind \in Answering /\ UNCHANGED warehouse
              \/ DraftNext /\ op.kind \in Drafting /\ UNCHANGED <<row, warehouse>>
              \/ ReplyNext /\ op.kind \in Replying /\ UNCHANGED <<row, warehouse>>
              \/ CorpusNext /\ op.kind = "chunks" /\ UNCHANGED <<row, warehouse>>
              \/ WarehouseNext /\ UNCHANGED <<call, row>>
              \/ UNCHANGED <<call, row, warehouse>>
<1>1. CASE CorpusNext /\ UNCHANGED <<row, sla, warehouse>>
    BY <1>1 DEF CorpusNext, ChunkSection, At
<1>2. CASE Asked /\ Rebuild /\ UNCHANGED <<row, sla, warehouse>>
    BY <1>2 DEF Rebuild, call
<1>3. CASE AnswerNext /\ UNCHANGED <<sla, warehouse>>
    BY <1>3, AnswerKind
<1>4. CASE DraftNext /\ UNCHANGED <<index, row, sla, warehouse>>
    BY <1>4, DraftKind
<1>5. CASE ReplyNext /\ UNCHANGED <<index, row, sla, warehouse>>
    BY <1>5, ReplyKind
<1>6. CASE SlaNext /\ UNCHANGED <<index, row, warehouse>>
    BY <1>6 DEF SlaNext, Begin, Abort, Tick, Leave, Write, Submit, Decide, Pass, call
<1>7. CASE op.kind = "pipeline" /\ WarehouseNext /\ UNCHANGED <<call, index, row, sla>>
    BY <1>7 DEF call
<1>8. CASE UNCHANGED vars
    BY <1>8 DEF vars, call
<1> QED BY <1>1, <1>2, <1>3, <1>4, <1>5, <1>6, <1>7, <1>8 DEF Next

LEMMA InitKinds ==
    Init => /\ at = "start" /\ facts = Nothing /\ tries = NoTries
            /\ text = Nothing /\ calls = 0 /\ out = Nothing /\ row = Nothing
BY DEF Init, Start

Outcome(result) == at' = "done" /\ out' = result

\* The results the actions end in.
LEMMA AnswerEnds ==
    ASSUME AnswerNext
    PROVE  at # "done" /\
           \/ at' \in {"search", "ask", "check"} /\ UNCHANGED <<row, out>>
           \/ UNCHANGED <<at, row, out>>
           \/ \E name : Outcome([is |-> "error", error |-> name]) /\ UNCHANGED row
                          /\ name # "GroundingError"
           \/ \E how, cited : Outcome(Answer(how, cited))
<1>1. CASE FetchTrace
    BY <1>1 DEF At, FetchTrace, Record, Raise, End, Go, Outcome
<1>2. CASE Search
    BY <1>2 DEF At, AtSearch, Search, Raise, End, Go, Outcome
<1>3. CASE AbstainWeak
    BY <1>3 DEF At, AbstainWeak, Finish, Record, Raise, End, Outcome
<1>4. CASE AbstainLong
    BY <1>4 DEF At, AbstainLong, Finish, Record, Raise, End, Outcome
<1>5. CASE Draft
    BY <1>5 DEF At, Draft, Generate, Raise, End, Go, Outcome
<1>6. CASE Redraft
    BY <1>6 DEF At, Redraft, AskAgain, Go
<1>7. CASE AbstainUngrounded
    BY <1>7 DEF At, AbstainUngrounded, Finish, Record, Raise, End, Outcome
<1>8. CASE Accept
    BY <1>8 DEF At, Accept, Finish, Record, Raise, End, Outcome
<1> QED BY <1>1, <1>2, <1>3, <1>4, <1>5, <1>6, <1>7, <1>8 DEF AnswerNext

LEMMA DraftEnds ==
    ASSUME DraftNext
    PROVE  at # "done" /\
           \/ at' \in {"ask", "read", "store"} /\ UNCHANGED out
           \/ \E name : Outcome([is |-> "error", error |-> name])
           \/ Outcome(Drafted)
<1>1. CASE FetchDetermination \/ FetchTraces \/ GatherStallContext \/ GatherContext \/ RunMetric
    BY <1>1 DEF At, FetchDetermination, FetchTraces, GatherStallContext, GatherContext, RunMetric,
                GatherBy, Go
<1>2. CASE NotFound
    BY <1>2 DEF At, NotFound, Raise, End, Outcome
<1>3. CASE Ask
    BY <1>3 DEF At, Ask, Generate, Raise, End, Go, Outcome
<1>4. CASE ReadMalformed
    BY <1>4 DEF At, ReadMalformed, AskAgain, Raise, End, Go, Outcome
<1>5. CASE Reject
    BY <1>5 DEF At, Reject, AskAgain, Raise, End, Go, Outcome
<1>6. CASE Keep
    BY <1>6 DEF At, Keep, End, Go, Outcome
<1>7. CASE StoreNotice \/ StoreSummary
    BY <1>7 DEF At, StoreNotice, StoreSummary, StoreBy, Raise, End, Outcome
<1> QED BY <1>1, <1>2, <1>3, <1>4, <1>5, <1>6, <1>7 DEF DraftNext

LEMMA ReplyEnds ==
    ASSUME ReplyNext
    PROVE  at # "done" /\
           \/ at' \in {"ask", "fit"} /\ UNCHANGED out
           \/ \E name : Outcome([is |-> "error", error |-> name]) /\ name # "GroundingError"
           \/ out'.is \in {"proposal", "document", "rows"} /\ at' = "done"
<1>1. CASE ReadCurrentValues \/ ReadCurrentModel \/ OfferTools \/ CallTool
    BY <1>1 DEF At, ReadBy, ReadCurrentValues, ReadCurrentModel, OfferTools, CallTool, Go
<1>2. CASE FetchDocument \/ RefuseCaller
    BY <1>2 DEF At, ReadBy, FetchDocument, RefuseCaller, Raise, End, Go, Outcome
<1>3. CASE AskModel
    BY <1>3 DEF At, AskModel, Generate, Raise, End, Go, Outcome
<1>4. CASE NoQuery
    BY <1>4 DEF At, NoQuery, Raise, End, Outcome
<1>5. CASE Misfit
    BY <1>5 DEF At, Misfit, Again, AskAgain, Raise, End, Go, Outcome
<1>6. CASE RunQuery
    BY <1>6 DEF At, RunQuery, Again, AskAgain, Raise, End, Go, Outcome
<1>7. CASE ProposeParameterChanges \/ ProposeDashboard
    BY <1>7 DEF At, ProposeParameterChanges, ProposeDashboard, ProposeBy, End
<1>8. CASE MatchDocument
    BY <1>8 DEF At, MatchDocument, Raise, End, Outcome
<1> QED BY <1>1, <1>2, <1>3, <1>4, <1>5, <1>6, <1>7, <1>8 DEF ReplyNext

LEMMA OutcomeStep == OutcomeInv /\ [Next]_vars => OutcomeInv'
<1> SUFFICES ASSUME OutcomeInv, [Next]_vars PROVE OutcomeInv'
    OBVIOUS
<1> USE DEF OutcomeInv, Results, Outcome
<1>1. op' = op
    BY StepOfKind
<1>2. CASE AnswerNext /\ op.kind \in Answering
    <2>1. at' # "done" => out' = Nothing
        BY <1>2, AnswerEnds
    <2>2. out'.is \in {"nothing", "error", "answer"} /\ ~(Raised("GroundingError"))'
        BY <1>2, AnswerEnds DEF Answer, Raised, Returned, Answering, Drafting, Nothing
    <2>3. Results' = {"answer"} /\ op'.kind \in Answering
        BY <1>1, <1>2 DEF Answering, Drafting, Replying, Asking, Proposing
    <2> QED BY <2>1, <2>2, <2>3
<1>3. CASE DraftNext /\ op.kind \in Drafting /\ UNCHANGED <<row, warehouse>>
    <2>1. at' # "done" => out' = Nothing
        BY <1>3, DraftEnds
    <2>2. out'.is \in {"nothing", "error", "text"}
        BY <1>3, DraftEnds DEF Drafted, Nothing, Drafting, Answering
    <2>3. Results' = {"text"} /\ op'.kind \notin Answering /\ op'.kind \in Drafting
        BY <1>1, <1>3 DEF Answering, Drafting, Replying, Asking, Proposing
    <2>4. row' = Nothing
        BY <1>1, <1>3, <2>3
    <2> QED BY <2>1, <2>2, <2>3, <2>4
<1>4. CASE ReplyNext /\ op.kind \in Replying /\ UNCHANGED <<row, warehouse>>
    <2>1. op.kind \notin Answering /\ op.kind \notin Drafting
        BY <1>4 DEF Drafting, Answering, Replying, Asking
    <2>2. at' # "done" => out' = Nothing
        BY <1>4, ReplyEnds
    <2>3. out'.is \in {"nothing", "error", "proposal", "document", "rows"} /\ ~(Raised("GroundingError"))'
        BY <1>4, <2>1, ReplyEnds DEF Raised, Returned, Nothing
    <2>4. Results' = {"proposal", "document", "rows"} /\ op'.kind \notin Answering
        BY <1>1, <1>4, <2>1
    <2>5. row' = Nothing
        BY <1>4, <2>1
    <2> QED BY <2>2, <2>3, <2>4, <2>5
<1>5. CASE CorpusNext /\ op.kind = "chunks" /\ UNCHANGED <<row, warehouse>>
    <2>1. at' = "done" /\ out'.is \in {"error", "chunks"} /\ ~(Raised("GroundingError"))'
        BY <1>5 DEF CorpusNext, ChunkSection, Raise, End, Raised, Returned
    <2>2. op.kind \notin Answering \cup Drafting \cup Replying
        BY <1>5 DEF Drafting, Answering, Replying, Asking, Proposing
    <2> QED BY <1>1, <1>5, <2>1, <2>2
<1>6. CASE UNCHANGED <<call, row>>
    BY <1>6 DEF call, Raised, Returned
<1> QED BY <1>2, <1>3, <1>4, <1>5, <1>6, StepOfKind

LEMMA AlwaysOutcome == Spec => []OutcomeInv
<1>1. Init => OutcomeInv
    BY InitKinds DEF OutcomeInv, Raised, Returned, Nothing
<1> QED BY <1>1, OutcomeStep, PTL DEF Spec

-----------------------------------------------------------------------------
(* Answers are attributed                                                  *)

LEMMA ARowIsSomething ==
    ASSUME NEW a, NEW b, NEW c, NEW d
    PROVE  [answer |-> a, citations |-> b, model |-> c, retrieved |-> d] # Nothing
<1>1. "answer" \in DOMAIN [answer |-> a, citations |-> b, model |-> c, retrieved |-> d]
    OBVIOUS
<1>2. "answer" \notin DOMAIN Nothing
    BY DEF Nothing
<1> QED BY <1>1, <1>2

\* An answer found, with the row a policy question leaves, is attributed when
\* it says how it came about.
LEMMA FinishAttributed ==
    ASSUME AnswerInv, op.kind \in Answering, at # "done",
           op' = op, facts' = facts, tries' = tries, text' = text, calls' = calls,
           NEW how, NEW cited, NEW model,
           Finish(Answer(how, cited), model),
           model = NoModel <=> cited = {},
           cited \subseteq facts.chunks,
           how = "model" => /\ cited # {} /\ calls = tries.rejected + 1
                            /\ \A l \in cited : \E m \in text : l = m \/ <<l, m>> \in Within,
           how = "ungrounded_after_retry" => calls = 2 /\ text \cap facts.chunks = {},
           how \in {"weak_retrieval", "prompt_too_long", "eligible"} => calls = 0
    PROVE  AnswerAttributed' /\ at' = "done"
<1>1. row = Nothing
    BY DEF AnswerInv
<1>2. CASE op.kind \in Policy
    <2>1. CASE /\ row' = [answer |-> how, citations |-> cited, model |-> model, retrieved |-> facts.chunks]
               /\ at' = "done" /\ out' = Answer(how, cited)
        <3>1. row' # Nothing
            BY <2>1, ARowIsSomething
        <3>2. /\ row'.answer = how /\ row'.citations = cited /\ row'.model = model
              /\ row'.retrieved = facts.chunks
            BY <2>1
        <3>3. out'.is = "answer" /\ out'.how = how /\ out'.citations = cited
            BY <2>1 DEF Answer
        <3> QED BY <1>2, <2>1, <3>1, <3>2, <3>3 DEF AnswerAttributed, Returned
    <2>2. CASE at' = "done" /\ out' = [is |-> "error", error |-> "OperationalError"] /\ row' = row
        BY <1>1, <2>2 DEF AnswerAttributed, Returned
    <2> QED BY <1>2, <2>1, <2>2 DEF Finish, Record, Raise, End, Answer
<1>3. CASE op.kind \notin Policy
    <2>1. out' = Answer(how, cited) /\ at' = "done" /\ row' = Nothing
        BY <1>1, <1>3 DEF Finish, End
    <2>2. out'.is = "answer" /\ out'.how = how /\ out'.citations = cited
        BY <2>1 DEF Answer
    <2> QED BY <1>3, <2>1, <2>2 DEF AnswerAttributed, Returned
<1> QED BY <1>2, <1>3

LEMMA AnswerStep == AnswerInv /\ OutcomeInv /\ [Next]_vars => AnswerInv'
<1> SUFFICES ASSUME AnswerInv, OutcomeInv, [Next]_vars PROVE AnswerInv'
    OBVIOUS
<1>1. op' = op
    BY StepOfKind
<1>2. CASE op.kind \notin Answering
    BY <1>1, <1>2 DEF AnswerInv
<1>3. CASE UNCHANGED <<call, row>>
    BY <1>3 DEF AnswerInv, call, Weak, AnswerAttributed, Returned
<1> SUFFICES ASSUME op.kind \in Answering, AnswerNext PROVE AnswerInv'
    BY <1>2, <1>3, StepOfKind DEF Answering, Drafting, Replying, Asking, Proposing
<1> DEFINE Ended == at' = "done" /\ tries' = tries /\ AnswerAttributed'
<1>4. ASSUME Ended PROVE AnswerInv'
    BY <1>1, <1>4 DEF AnswerInv
<1>5. ASSUME at' # "done", row' = row PROVE AnswerAttributed'
    BY <1>5, AnswerEnds DEF AnswerInv, AnswerAttributed, Returned
<1>6. ASSUME NEW name, Raise(name), row' = row, at # "done" PROVE AnswerAttributed' /\ at' = "done"
    BY <1>6 DEF Raise, End, AnswerInv, AnswerAttributed, Returned
<1>7. CASE FetchTrace
    <2>1. /\ at = "start" /\ op.kind = "denial" /\ calls = 0 /\ tries.rejected = 0 /\ row = Nothing
          /\ UNCHANGED <<tries, calls>>
        BY <1>7 DEF FetchTrace, At, AnswerInv
    <2>2. CASE Record(Answer("eligible", {}), NoModel, {})
        <3>1. CASE /\ row' = [answer |-> "eligible", citations |-> {}, model |-> NoModel, retrieved |-> {}]
                   /\ at' = "done" /\ out' = Answer("eligible", {})
            <4>1. row' # Nothing
                BY <3>1, ARowIsSomething
            <4>2. AnswerAttributed'
                BY <1>1, <2>1, <3>1, <4>1 DEF AnswerAttributed, Returned, Answer, Policy
            <4> QED BY <1>4, <2>1, <3>1, <4>2
        <3>2. CASE Raise("OperationalError") /\ row' = row
            BY <1>4, <1>6, <2>1, <3>2
        <3> QED BY <2>2, <3>1, <3>2 DEF Record, End, Answer
    <2>3. CASE Go("search") /\ row' = row
        BY <1>1, <1>5, <2>1, <2>3 DEF Go, AnswerInv
    <2>4. CASE Raise("HTTPStatusError") /\ row' = row
        BY <1>4, <1>6, <2>1, <2>4
    <2> QED BY <1>7, <2>2, <2>3, <2>4 DEF FetchTrace
<1>8. CASE Search
    <2>1. /\ at \in {"start", "search"} /\ calls = 0 /\ tries.rejected = 0 /\ row = Nothing
          /\ UNCHANGED <<calls, row>> /\ tries \in [bad : Nat, rejected : 0..1]
        BY <1>8 DEF Search, AtSearch, At, AnswerInv
    <2>2. CASE Go("ask") /\ tries' = tries /\ facts'.near \in BOOLEAN /\ facts'.fits \in BOOLEAN
        BY <1>1, <1>5, <2>1, <2>2 DEF Go, AnswerInv
    <2>3. CASE tries' = [tries EXCEPT !.bad = @ + 1] /\ UNCHANGED <<at, out, facts>>
        <3>1. tries' \in [bad : Nat, rejected : 0..1] /\ tries'.rejected = 0
            BY <2>1, <2>3
        <3> QED BY <1>1, <1>5, <2>1, <2>3, <3>1 DEF AnswerInv
    <2>4. CASE Raise("TransportError") /\ UNCHANGED <<facts, tries>>
        BY <1>4, <1>6, <2>1, <2>4
    <2> QED BY <1>8, <2>2, <2>3, <2>4 DEF Search
<1>9. CASE AbstainWeak
    <2>1. /\ at = "ask" /\ Weak /\ calls = 0
          /\ UNCHANGED <<facts, tries, text, calls>>
        BY <1>9 DEF AbstainWeak, At, AnswerInv
    <2>2. AnswerAttributed' /\ at' = "done"
        BY <1>1, <1>9, <2>1, FinishAttributed DEF AbstainWeak
    <2> QED BY <1>4, <2>1, <2>2
<1>10. CASE AbstainLong
    <2>1. /\ at = "ask" /\ ~facts.fits /\ calls = 0
          /\ UNCHANGED <<facts, tries, text, calls>>
        BY <1>10 DEF AbstainLong, TooLong, At, AnswerInv
    <2>2. CASE op.kind \in Policy
        <3>1. AnswerAttributed' /\ at' = "done"
            BY <1>1, <1>10, <2>1, <2>2, FinishAttributed DEF AbstainLong
        <3> QED BY <1>4, <2>1, <3>1
    <2>3. CASE op.kind \notin Policy
        BY <1>4, <1>6, <1>10, <2>1, <2>3 DEF AbstainLong
    <2> QED BY <2>2, <2>3
<1>11. CASE Draft
    <2>1. /\ at = "ask" /\ ~Weak /\ facts.fits /\ calls = tries.rejected /\ calls' = calls + 1
          /\ UNCHANGED <<facts, tries, row>> /\ tries \in [bad : Nat, rejected : 0..1]
          /\ facts.near \in BOOLEAN /\ row = Nothing
        BY <1>11 DEF Draft, Generate, At, AnswerInv
    <2>2. CASE Go("check")
        BY <1>1, <1>5, <2>1, <2>2 DEF Go, AnswerInv, Weak
    <2>3. CASE Raise("HTTPError")
        BY <1>4, <1>6, <2>1, <2>3
    <2> QED BY <1>11, <2>2, <2>3 DEF Draft, Generate
<1>12. CASE Redraft
    <2>1. /\ at = "check" /\ ~Weak /\ facts.fits /\ tries.rejected = 0 /\ calls = 1
          /\ UNCHANGED <<facts, calls, row>> /\ tries \in [bad : Nat, rejected : 0..1]
          /\ facts.near \in BOOLEAN /\ row = Nothing
        BY <1>12 DEF Redraft, At, AnswerInv
    <2>2. tries' = [tries EXCEPT !.rejected = 1] /\ at' = "ask" /\ out' = out
        BY <1>12 DEF Redraft, AskAgain, Go
    <2>3. tries' \in [bad : Nat, rejected : 0..1] /\ tries'.rejected = 1
        BY <2>1, <2>2
    <2> QED BY <1>1, <1>5, <2>1, <2>2, <2>3 DEF AnswerInv, Weak
<1>13. CASE AbstainUngrounded
    <2>1. /\ at = "check" /\ calls = 2 /\ UNCHANGED <<facts, tries, text, calls>>
          /\ Cited(facts.chunks, text) = {}
        BY <1>13 DEF AbstainUngrounded, At, AnswerInv
    <2>2. text \cap facts.chunks = {}
        BY <2>1 DEF Cited
    <2>3. AnswerAttributed' /\ at' = "done"
        BY <1>1, <1>13, <2>1, <2>2, FinishAttributed DEF AbstainUngrounded
    <2> QED BY <1>4, <2>1, <2>3
<1>14. CASE Accept
    <2> DEFINE cited == Cited(facts.chunks, text)
    <2>1. /\ at = "check" /\ calls = tries.rejected + 1 /\ UNCHANGED <<facts, tries, text, calls>>
          /\ cited # {} /\ Finish(Answer("model", cited), "model")
        BY <1>14 DEF Accept, At, AnswerInv
    <2>2. /\ cited \subseteq facts.chunks
          /\ \A l \in cited : \E m \in text : l = m \/ <<l, m>> \in Within
        BY DEF Cited
    <2> HIDE DEF cited
    <2>3. AnswerAttributed' /\ at' = "done"
        BY <1>1, <2>1, <2>2, FinishAttributed DEF NoModel
    <2> QED BY <1>4, <2>1, <2>3
<1> QED BY <1>7, <1>8, <1>9, <1>10, <1>11, <1>12, <1>13, <1>14 DEF AnswerNext

\* An answer is attributed to what it rests on, for any corpus, any names
\* within names and any limit, whatever becomes of the index meanwhile
\* (_retrieve_and_answer, provenance.record).
THEOREM AnswersAreAttributed == Spec => []AnswerAttributed
<1>1. Init => AnswerInv
    BY InitKinds DEF AnswerInv, NoTries, AnswerAttributed, Returned, Nothing
<1>2. OutcomeInv /\ AnswerInv => AnswerAttributed
    BY DEF OutcomeInv, Results, AnswerInv, AnswerAttributed, Returned,
           Answering, Drafting, Replying, Asking, Proposing
<1> QED BY <1>1, <1>2, AnswerStep, AlwaysOutcome, PTL DEF Spec

-----------------------------------------------------------------------------
(* Drafts are grounded                                                     *)

\* What a rejected draft leaves of the calls: a square of the limit.
LEMMA OneRoundMore ==
    ASSUME NEW M \in Nat \ {0}, NEW r \in 0..(M - 1), NEW b \in 0..(M - 1)
    PROVE  /\ r * M + b < M * M /\ r * M + b + 1 <= (r + 1) * M
           /\ r + 1 < M => (r + 1) * M + 0 < M * M
           /\ (r + 1) * M + 0 = (r + 1) * M /\ r * M \in Nat /\ M * M \in Nat
<1>1. r * M \in Nat /\ (r + 1) * M = r * M + M /\ M * M \in Nat
    BY SMT
<1>2. (r + 1) * M <= M * M
    BY SMT
<1>3. ASSUME r + 1 < M PROVE (r + 1) * M < M * M
    BY <1>3, SMT
<1> QED BY <1>1, <1>2, <1>3

\* Halves to even or not, rounding moves a figure by a half at most.
LEMMA RoundedNear ==
    ASSUME NEW v \in Int
    PROVE  Rounded(v) \in Int /\ v - 50 <= 100 * Rounded(v) /\ 100 * Rounded(v) <= v + 50
<1> DEFINE whole == Abs(v) \div 100
           rest  == Abs(v) % 100
           near  == IF rest > 50 \/ (rest = 50 /\ whole % 2 = 1) THEN whole + 1 ELSE whole
<1>1. Abs(v) \in Nat /\ Abs(v) = IF v < 0 THEN -v ELSE v
    BY DEF Abs
<1>2. whole \in Nat /\ rest \in 0..99 /\ Abs(v) = 100 * whole + rest
    BY <1>1
<1>3. Rounded(v) = IF v < 0 THEN -near ELSE near
    BY DEF Rounded
<1> HIDE DEF whole, rest
<1>4. near \in Nat /\ Abs(v) - 50 <= 100 * near /\ 100 * near <= Abs(v) + 50
    BY <1>2
<1> HIDE DEF near
<1> QED BY <1>1, <1>2, <1>3, <1>4

\* A figure is read as a whole number of the record only if it is one of its
\* figures or not further from one than a check can see.
LEMMA NarrativeSound ==
    ASSUME NEW n \in Int, NEW v \in Int,
           Abs(n) \div 100 \in {Truncated(v), Rounded(v), Percent(v), v}
    PROVE  \/ Abs(Abs(n) - v) < (IF v < 0 THEN 200 ELSE 150)
           \/ Abs(Abs(n) - 100 * v) <= (IF v \in FallsShort THEN 100 ELSE 99)
<1> DEFINE m == Abs(n)
           q == m \div 100
<1>1. m \in Nat /\ q \in Nat /\ 100 * q <= m /\ m <= 100 * q + 99
    BY DEF Abs
<1> HIDE DEF m, q
<1>2. CASE q = Truncated(v)
    BY <1>1, <1>2 DEF Abs, Truncated, m
<1>3. CASE q = Rounded(v)
    <2>1. v - 50 <= 100 * q /\ 100 * q <= v + 50
        BY <1>3, RoundedNear
    <2> QED BY <1>1, <2>1 DEF Abs, m
<1>4. CASE q = v
    BY <1>1, <1>4 DEF Abs, m
<1>5. CASE q = Percent(v) /\ q # v
    <2>1. /\ v \in FallsShort /\ v # 0
          /\ q = IF v < 0 THEN v + 1 ELSE v - 1
        BY <1>5, DraftAssumption DEF Percent
    <2> QED BY <1>1, <2>1 DEF Abs, m
<1> QED BY <1>2, <1>3, <1>4, <1>5 DEF m, q

LEMMA NarrativeComplete ==
    ASSUME NEW n \in Nat, NEW v \in Int, n = v \/ n = 100 * v
    PROVE  Abs(n) \div 100 \in {Truncated(v), v}
BY DEF Abs, Truncated

LEMMA PassedIsTrue ==
    ASSUME op.kind \in Drafting, facts.values \subseteq Int, text.figures \subseteq Int, Passes,
           NEW n \in text.figures
    PROVE  True(n) \/ Unseen(n)
<1>1. CASE op.kind = "incident"
    BY <1>1 DEF Unseen
<1>2. CASE op.kind # "incident"
    <2>1. Reading(n) \in Known
        BY <1>2 DEF Passes, FiguresKnown
    <2>2. CASE op.kind \in {"notice", "reason"}
        <3>1. Abs(n) \in facts.values
            BY <2>1, <2>2 DEF Reading, Known
        <3> QED BY <2>2, <3>1 DEF Abs, True, Unseen
    <2>3. CASE op.kind = "qc"
        <3>1. n \in facts.values \/ \E a, b \in facts.values : n = a - b
            BY <2>1, <2>3 DEF Reading, Known, KnownAmounts
        <3> QED BY <2>3, <3>1 DEF True
    <2>4. CASE op.kind = "narrative"
        <3>1. Abs(n) \div 100 \in KnownNumbers
            BY <2>1, <2>4 DEF Reading, Known
        <3>2. PICK v \in facts.values :
                  Abs(n) \div 100 \in {Truncated(v), Rounded(v), Percent(v), v}
            BY <3>1 DEF KnownNumbers
        <3>3. \/ Abs(Abs(n) - v) < (IF v < 0 THEN 200 ELSE 150)
              \/ Abs(Abs(n) - 100 * v) <= (IF v \in FallsShort THEN 100 ELSE 99)
            BY <3>2, NarrativeSound
        <3> QED BY <2>4, <3>3 DEF Unseen
    <2> QED BY <1>2, <2>2, <2>3, <2>4 DEF Drafting
<1> QED BY <1>1, <1>2

LEMMA RejectedIsFalse ==
    ASSUME op.kind \in Drafting, facts.values \subseteq Int, text.figures \subseteq Int, ~Passes
    PROVE  ~NamesKnown \/ \E n \in text.figures : ~True(n) \/ (n < 0 /\ op.kind # "qc")
<1> SUFFICES ASSUME NamesKnown
             PROVE  \E n \in text.figures : ~True(n) \/ (n < 0 /\ op.kind # "qc")
    OBVIOUS
<1>1. PICK n \in text.figures : op.kind # "incident" /\ Reading(n) \notin Known
    BY DEF Passes, FiguresKnown
<1> SUFFICES ASSUME True(n), n >= 0 \/ op.kind = "qc" PROVE FALSE
    BY <1>1
<1>2. CASE op.kind \in {"notice", "reason"}
    <2>1. n \in facts.values
        BY <1>2 DEF True
    <2> QED BY <1>1, <1>2, <2>1 DEF Reading, Known, Abs
<1>3. CASE op.kind = "qc"
    <2>1. n \in KnownAmounts
        BY <1>3 DEF True, KnownAmounts
    <2> QED BY <1>1, <1>3, <2>1 DEF Reading, Known
<1>4. CASE op.kind = "narrative"
    <2>1. PICK v \in facts.values : n = v \/ n = 100 * v
        BY <1>4 DEF True
    <2>2. Abs(n) \div 100 \in {Truncated(v), v}
        BY <1>4, <2>1, NarrativeComplete
    <2>3. Abs(n) \div 100 \in KnownNumbers
        BY <2>2 DEF KnownNumbers
    <2> QED BY <1>1, <1>4, <2>3 DEF Reading, Known
<1> QED BY <1>1, <1>2, <1>3, <1>4 DEF Drafting

LEMMA LimitType == CallLimit \in Nat \ {0}
<1>1. MaxAttempts * MaxAttempts \in Nat \ {0}
    BY OneRoundMore, DraftAssumption, SMT
<1> QED BY <1>1, DraftAssumption DEF CallLimit

LEMMA UsedType ==
    ASSUME tries \in [bad : Nat, rejected : Nat]
    PROVE  Used \in Nat
<1>1. tries.bad \in Nat /\ tries.rejected \in Nat /\ MaxAttempts \in Nat
    BY DraftAssumption
<1>2. tries.rejected * MaxAttempts \in Nat
    BY <1>1, SMT
<1> QED BY <1>1, <1>2 DEF Used

LEMMA FigureType == Figure \subseteq Int
BY DraftAssumption DEF Figure

\* The step of a loop that asks again.
LEMMA AskAgainLimits ==
    ASSUME DraftInv, op.kind \in Drafting, at = "read", op' = op, calls' = calls,
           at' = "ask", NEW spent, tries' = spent,
           \/ spent = [tries EXCEPT !.bad = @ + 1] /\ Spent + 1 < MaxAttempts
           \/ spent = Rejected /\ op.kind # "notice" /\
                (IF op.kind = "incident" THEN Spent ELSE tries.rejected) + 1 < MaxAttempts
    PROVE  /\ tries' \in [bad : Nat, rejected : Nat]
           /\ tries'.bad < MaxAttempts /\ tries'.rejected < MaxAttempts
           /\ Used' < CallLimit
           /\ op.kind = "notice" => tries'.rejected = 0
           /\ calls <= Used'
<1>1. /\ tries \in [bad : Nat, rejected : Nat] /\ calls \in Nat
      /\ tries.bad < MaxAttempts /\ tries.rejected < MaxAttempts
      /\ op.kind = "notice" => tries.rejected = 0
      /\ calls <= Used + 1
    BY DEF DraftInv
<1>2. MaxAttempts \in Nat \ {0}
    BY DraftAssumption
<1> DEFINE M == MaxAttempts
           r == tries.rejected
           b == tries.bad
<1>3. r \in 0..(M - 1) /\ b \in 0..(M - 1)
    BY <1>1, <1>2
<1>4. CASE spent = [tries EXCEPT !.bad = @ + 1] /\ Spent + 1 < MaxAttempts
    <2>1. /\ tries' \in [bad : Nat, rejected : Nat]
          /\ tries'.bad = b + 1 /\ tries'.rejected = r
        BY <1>1, <1>4
    <2>2. CASE op.kind = "incident"
        BY <1>1, <1>2, <1>4, <2>1, <2>2 DEF Used, CallLimit, Spent
    <2>3. CASE op.kind = "notice"
        <3>1. Used = 0 * M + b /\ Used' = 0 * M + (b + 1) /\ b + 1 < M
            BY <1>1, <1>4, <2>1, <2>3 DEF Used, Spent
        <3> QED BY <1>1, <1>2, <2>1, <2>3, <3>1 DEF CallLimit
    <2>4. CASE op.kind \notin {"incident", "notice"}
        <3>1. Used = r * M + b /\ Used' = r * M + (b + 1) /\ b + 1 \in 0..(M - 1)
            BY <1>1, <1>2, <1>4, <2>1, <2>4 DEF Used, Spent
        <3>2. r * M + (b + 1) < M * M /\ r * M \in Nat
            BY <1>2, <1>3, <3>1, OneRoundMore
        <3> HIDE DEF M, r, b
        <3>3. Used' < CallLimit
            BY <2>4, <3>1, <3>2 DEF CallLimit, M
        <3>4. calls <= Used'
            BY <1>1, <1>3, <3>1, <3>2
        <3> USE DEF M, r, b
        <3> QED BY <1>1, <1>2, <1>3, <2>1, <2>4, <3>1, <3>3, <3>4
    <2> QED BY <2>2, <2>3, <2>4
<1>5. CASE /\ spent = Rejected /\ op.kind # "notice"
           /\ (IF op.kind = "incident" THEN Spent ELSE tries.rejected) + 1 < MaxAttempts
    <2>1. CASE op.kind = "incident"
        <3>1. /\ tries' \in [bad : Nat, rejected : Nat]
              /\ tries'.bad = b /\ tries'.rejected = r + 1
            BY <1>1, <1>5, <2>1 DEF Rejected
        <3> QED BY <1>1, <1>2, <1>5, <2>1, <3>1 DEF Used, CallLimit, Spent
    <2>2. CASE op.kind # "incident"
        <3>1. /\ tries' \in [bad : Nat, rejected : Nat]
              /\ tries'.bad = 0 /\ tries'.rejected = r + 1 /\ r + 1 < M
            BY <1>1, <1>5, <2>2 DEF Rejected
        <3>2. Used = r * M + b /\ Used' = (r + 1) * M + 0
            BY <2>2, <3>1 DEF Used
        <3>3. /\ r * M + b + 1 <= (r + 1) * M /\ (r + 1) * M + 0 < M * M
              /\ (r + 1) * M + 0 = (r + 1) * M /\ r * M \in Nat /\ M * M \in Nat
            BY <1>2, <1>3, <3>1, OneRoundMore
        <3>4. op.kind \notin {"incident", "notice"}
            BY <1>5, <2>2
        <3> DEFINE k == (r + 1) * M
        <3>5. k \in Nat /\ Used' = k /\ Used + 1 <= k /\ k < CallLimit
            <4>1. k \in Nat
                BY <1>2, <1>3, SMT
            <4>2. Used' = k
                BY <3>2, <3>3
            <4>3. Used + 1 <= k
                BY <3>2, <3>3
            <4>4. k < CallLimit
                BY <3>3, <3>4 DEF CallLimit
            <4> QED BY <4>1, <4>2, <4>3, <4>4
        <3>6. Used \in Nat
            BY <1>1, UsedType
        <3> HIDE DEF k
        <3>7. calls <= Used' /\ Used' < CallLimit
            BY <1>1, <3>5, <3>6
        <3> QED BY <1>2, <3>1, <3>4, <3>7
    <2> QED BY <2>1, <2>2
<1> QED BY <1>4, <1>5

\* At a reply that was read, one more call is within the limit.
LEMMA CallsAtRead ==
    ASSUME DraftInv, op.kind \in Drafting, at = "read"
    PROVE  calls \in Nat /\ calls <= CallLimit
BY DEF DraftInv

LEMMA CallsAtAsk ==
    ASSUME DraftInv, op.kind \in Drafting, at = "ask"
    PROVE  /\ calls \in Nat /\ calls <= Used /\ Used \in Nat
           /\ calls + 1 <= Used + 1 /\ calls + 1 <= CallLimit
<1>1. calls \in Nat /\ calls <= Used /\ Used < CallLimit /\ tries \in [bad : Nat, rejected : Nat]
    BY DEF DraftInv
<1>2. Used \in Nat /\ CallLimit \in Nat
    BY <1>1, UsedType, LimitType
<1> QED BY <1>1, <1>2

LEMMA GoodReply ==
    ASSUME NEW reply \in Replies[Figure], op.kind \in Drafting
    PROVE  reply = Malformed \/ reply.figures \subseteq Figure
<1>1. Figure \in {Whole, Hundredths}
    BY DEF Figure
<1>2. reply \in [is : {"json"}, figures : AtMost(2, Figure), names : SUBSET Name] \cup {Malformed}
    BY <1>1 DEF Replies
<1> QED BY <1>2 DEF AtMost

LEMMA DraftStep == DraftInv /\ OutcomeInv /\ [Next]_vars => DraftInv'
<1> SUFFICES ASSUME DraftInv, OutcomeInv, [Next]_vars PROVE DraftInv'
    OBVIOUS
<1>1. op' = op
    BY StepOfKind
<1>2. CASE op.kind \notin Drafting
    BY <1>1, <1>2 DEF DraftInv
<1>3. CASE UNCHANGED call
    <2>1. Used' = Used /\ CallLimit' = CallLimit /\ Figure' = Figure
        BY <1>3 DEF call, Used, CallLimit, Figure
    <2>2. Passes' = Passes
        BY <1>3 DEF call, Passes, NamesKnown, FiguresKnown, Reading, Known, KnownAmounts, KnownNumbers
    <2> QED BY <1>3, <2>1, <2>2 DEF call, DraftInv, Judged, Returned, Raised
<1> SUFFICES ASSUME op.kind \in Drafting, DraftNext PROVE DraftInv'
    BY <1>2, <1>3, StepOfKind DEF Answering, Drafting, Replying, Asking, Proposing, call
<1>4. /\ CallLimit' = CallLimit /\ Figure' = Figure
      /\ tries \in [bad : Nat, rejected : Nat] /\ calls \in Nat /\ calls <= CallLimit
    BY <1>1 DEF CallLimit, Figure, DraftInv
<1>5. ASSUME NEW name, name # "GroundingError", Raise(name),
             tries' \in [bad : Nat, rejected : Nat], calls' \in Nat, calls' <= CallLimit
      PROVE  DraftInv'
    BY <1>1, <1>4, <1>5 DEF Raise, End, DraftInv, Judged, Returned, Raised
<1>6. CASE \E kind \in Drafting : \E listed : GatherBy(kind, listed)
    <2>1. /\ at = "start" /\ at' = "ask" /\ out' = out /\ facts' \in Gathered
          /\ UNCHANGED <<tries, text, calls>>
        BY <1>6 DEF GatherBy, At, Go
    <2>2. facts'.values \subseteq Figure
        BY <2>1 DEF Gathered, AtMost
    <2>3. calls = 0 /\ tries = NoTries
        BY <2>1 DEF DraftInv
    <2>4. Used' = 0 /\ CallLimit \in Nat \ {0}
        <3>1. tries' = [bad |-> 0, rejected |-> 0]
            BY <2>1, <2>3 DEF NoTries
        <3>2. Used' = 0
            BY <3>1, DraftAssumption DEF Used
        <3> QED BY <3>2, LimitType
    <2>5. tries'.bad = 0 /\ tries'.rejected = 0 /\ tries' \in [bad : Nat, rejected : Nat]
        BY <2>1, <2>3 DEF NoTries
    <2>6. ~Judged'
        BY <2>1 DEF Judged, Returned, Raised
    <2> QED BY <1>1, <1>4, <2>1, <2>2, <2>3, <2>4, <2>5, <2>6, DraftAssumption
            DEF DraftInv, Returned, Raised
<1>7. CASE NotFound
    BY <1>4, <1>5, <1>7 DEF NotFound
<1>8. CASE Ask
    <2>1. at = "ask" /\ UNCHANGED <<facts, tries>> /\ facts.values \subseteq Figure
        BY <1>8 DEF Ask, At, DraftInv
    <2>2. CASE TooLong /\ Raise("PromptTooLongError") /\ UNCHANGED <<text, calls>>
        BY <1>4, <1>5, <2>1, <2>2
    <2>3. ASSUME calls' = calls + 1, Raise("HTTPError") PROVE DraftInv'
        BY <1>4, <1>5, <2>1, <2>3, CallsAtAsk
    <2>4. ASSUME calls' = calls + 1, text' \in Replies[Figure], Go("read") PROVE DraftInv'
        <3>1. at' = "read" /\ Used' = Used /\ ~Judged'
            BY <1>1, <2>1, <2>4 DEF Go, Used, Judged, Returned, Raised
        <3>2. text' = Malformed \/ text'.figures \subseteq Figure
            BY <2>4, GoodReply
        <3>3. /\ tries.bad < MaxAttempts /\ tries.rejected < MaxAttempts /\ Used < CallLimit
              /\ op.kind = "notice" => tries.rejected = 0
            BY <2>1 DEF DraftInv
        <3>4. calls' \in Nat /\ calls' <= Used' + 1 /\ calls' <= CallLimit
            BY <1>4, <2>1, <2>4, <3>1, CallsAtAsk
        <3> QED BY <1>1, <1>4, <2>1, <3>1, <3>2, <3>3, <3>4 DEF DraftInv, Returned, Raised
    <2> QED BY <1>8, <2>2, <2>3, <2>4 DEF Ask, Generate
<1>9. CASE at = "read" /\ AskAgain(tries') /\ DraftInv /\ UNCHANGED <<facts, calls>> /\
           \/ tries' = [tries EXCEPT !.bad = @ + 1] /\ Spent + 1 < MaxAttempts
           \/ tries' = Rejected /\ op.kind # "notice" /\
                (IF op.kind = "incident" THEN Spent ELSE tries.rejected) + 1 < MaxAttempts
    <2>1. at' = "ask" /\ text' = Nothing /\ out' = out
        BY <1>9 DEF AskAgain, Go
    <2>2. /\ tries' \in [bad : Nat, rejected : Nat]
          /\ tries'.bad < MaxAttempts /\ tries'.rejected < MaxAttempts
          /\ Used' < CallLimit /\ calls <= Used'
          /\ op.kind = "notice" => tries'.rejected = 0
        BY <1>1, <1>9, <2>1, AskAgainLimits
    <2>3. facts.values \subseteq Figure
        BY <1>9 DEF DraftInv
    <2>4. ~Judged'
        BY <2>1 DEF Judged, Returned, Raised
    <2> QED BY <1>1, <1>4, <1>9, <2>1, <2>2, <2>3, <2>4 DEF DraftInv, Returned, Raised
<1>10. ASSUME at \in {"read", "store"}, at' = "done", UNCHANGED <<facts, tries, text, calls>>,
              \/ text # Malformed /\ out' = Drafted
              \/ out' = [is |-> "error", error |-> "GroundingError"] /\ (text # Malformed => ~Passes)
       PROVE  DraftInv'
    <2>1. /\ facts.values \subseteq Figure
          /\ text = Malformed \/ text.figures \subseteq Figure
        BY <1>10 DEF DraftInv
    <2>2. Passes' = Passes
        BY <1>1, <1>10 DEF Passes, NamesKnown, FiguresKnown, Reading, Known, KnownAmounts, KnownNumbers
    <2>3. CASE text # Malformed /\ out' = Drafted
        <3>1. out'.is = "text" /\ out'.passed = Passes
            BY <2>3 DEF Drafted
        <3> QED BY <1>1, <1>4, <1>10, <2>1, <2>2, <2>3, <3>1 DEF DraftInv, Judged, Returned, Raised
    <2>4. CASE /\ out' = [is |-> "error", error |-> "GroundingError"]
               /\ text # Malformed => ~Passes
        BY <1>1, <1>4, <1>10, <2>1, <2>2, <2>4 DEF DraftInv, Judged, Returned, Raised
    <2> QED BY <1>10, <2>3, <2>4
<1>11. CASE ReadMalformed
    <2>1. at = "read" /\ text = Malformed /\ UNCHANGED <<facts, calls>>
        BY <1>11 DEF ReadMalformed, At
    <2>2. CASE Spent + 1 < MaxAttempts
        <3>1. tries' = [tries EXCEPT !.bad = @ + 1] /\ AskAgain(tries')
            BY <1>11, <2>2 DEF ReadMalformed, AskAgain
        <3> QED BY <1>9, <2>1, <2>2, <3>1
    <2>3. CASE ~(Spent + 1 < MaxAttempts)
        <3>1. UNCHANGED <<tries, text>>
            BY <1>11, <2>3 DEF ReadMalformed
        <3>2. CASE Raise("GroundingError")
            BY <1>10, <2>1, <3>1, <3>2 DEF Raise, End
        <3>3. CASE Raise("DraftError")
            BY <1>4, <1>5, <2>1, <3>1, <3>3
        <3> QED BY <1>11, <2>3, <3>2, <3>3 DEF ReadMalformed
    <2> QED BY <2>2, <2>3
<1>12. CASE Reject
    <2>1. /\ at = "read" /\ text # Malformed /\ ~Passes /\ op.kind # "notice"
          /\ UNCHANGED <<facts, calls>>
        BY <1>12 DEF Reject, At
    <2>2. CASE (IF op.kind = "incident" THEN Spent ELSE tries.rejected) + 1 < MaxAttempts
        <3>1. tries' = Rejected /\ AskAgain(tries')
            BY <1>12, <2>2 DEF Reject, AskAgain
        <3> QED BY <1>9, <2>1, <2>2, <3>1
    <2>3. CASE ~((IF op.kind = "incident" THEN Spent ELSE tries.rejected) + 1 < MaxAttempts)
        <3>1. UNCHANGED <<tries, text>> /\ Raise("GroundingError")
            BY <1>12, <2>3 DEF Reject
        <3> QED BY <1>10, <2>1, <3>1 DEF Raise, End
    <2> QED BY <2>2, <2>3
<1>13. CASE Keep
    <2>1. at = "read" /\ text # Malformed /\ UNCHANGED <<facts, tries, text, calls>>
        BY <1>13 DEF Keep, At
    <2>2. CASE op.kind \in Stored
        <3>1. at' = "store" /\ out' = out
            BY <1>13, <2>2 DEF Keep, Go
        <3>2. ~Judged'
            BY <3>1 DEF Judged, Returned, Raised
        <3>3. facts.values \subseteq Figure /\ text.figures \subseteq Figure
            BY <2>1 DEF DraftInv
        <3> QED BY <1>1, <1>4, <2>1, <3>1, <3>2, <3>3 DEF DraftInv, Returned, Raised
    <2>3. CASE op.kind \notin Stored
        BY <1>10, <1>13, <2>1, <2>3 DEF Keep, End
    <2> QED BY <2>2, <2>3
<1>14. CASE StoreNotice \/ StoreSummary
    <2>1. /\ at = "store" /\ text # Malformed /\ UNCHANGED <<facts, tries, text, calls>>
          /\ End(Drafted) \/ Raise("OperationalError")
        BY <1>14 DEF StoreNotice, StoreSummary, StoreBy, At, DraftInv
    <2>2. CASE End(Drafted)
        BY <1>10, <2>1, <2>2 DEF End
    <2>3. CASE Raise("OperationalError")
        BY <1>4, <1>5, <2>1, <2>3
    <2> QED BY <2>1, <2>2, <2>3
<1>15. FetchDetermination \/ FetchTraces \/ GatherStallContext \/ GatherContext \/ RunMetric
         => \E kind \in Drafting : \E listed : GatherBy(kind, listed)
    BY DEF FetchDetermination, FetchTraces, GatherStallContext, GatherContext, RunMetric, Drafting
<1> QED BY <1>6, <1>7, <1>8, <1>11, <1>12, <1>13, <1>14, <1>15 DEF DraftNext

\* What passes a check says what the record says, and what is rejected does
\* not, but for the figures named; loops end: for any figures, any names and
\* any limit (validate, grounding_errors, _MAX_ATTEMPTS).
THEOREM DraftsAreGrounded == Spec => []DraftsGrounded
<1>1. Init => DraftInv
    BY InitKinds, LimitType DEF DraftInv, NoTries, Judged, Returned, Raised, Nothing
<1>2. OutcomeInv /\ DraftInv => DraftsGrounded
    <2> SUFFICES ASSUME OutcomeInv, DraftInv PROVE DraftsGrounded
        OBVIOUS
    <2>1. CASE op.kind \notin Drafting
        <3>1. ~Returned("text") /\ ~Raised("GroundingError")
            BY <2>1 DEF OutcomeInv, Results, Returned
        <3> QED BY <2>1, <3>1 DEF DraftsGrounded
    <2>2. CASE op.kind \in Drafting
        <3>1. calls <= (IF op.kind \in {"notice", "incident"} THEN MaxAttempts
                        ELSE MaxAttempts * MaxAttempts)
            BY <2>2 DEF DraftInv, CallLimit
        <3>2. Judged => facts.values \subseteq Int /\ text.figures \subseteq Int
            BY <2>2, FigureType DEF DraftInv
        <3>3. ASSUME Returned("text"), out.passed
              PROVE  \A n \in text.figures : True(n) \/ Unseen(n)
            BY <2>2, <3>2, <3>3, PassedIsTrue DEF DraftInv, Judged
        <3>4. ASSUME \/ Returned("text") /\ ~out.passed
                     \/ Raised("GroundingError") /\ text # Malformed
              PROVE  ~NamesKnown \/ \E n \in text.figures : ~True(n) \/ (n < 0 /\ op.kind # "qc")
            <4>1. ~Passes /\ Judged
                BY <2>2, <3>4 DEF DraftInv, Judged
            <4> QED BY <2>2, <3>2, <4>1, RejectedIsFalse
        <3> QED BY <3>1, <3>3, <3>4 DEF DraftsGrounded
    <2> QED BY <2>1, <2>2
<1> QED BY <1>1, <1>2, DraftStep, AlwaysOutcome, PTL DEF Spec

-----------------------------------------------------------------------------
(* Replies that can be applied                                             *)

Applies == RulesApply /\ DashboardApplies /\ RowsAllowed

LEMMA UpToElements ==
    ASSUME NEW n \in Nat, NEW S, NEW s \in UpTo(n, S)
    PROVE  \A i \in DOMAIN s : s[i] \in S
BY DEF UpTo

\* The changes kept of a list that fits.
LEMMA ChangesApply ==
    ASSUME NEW items \in RuleReplies, facts \in RuleFacts, ItemsFit(items)
    PROVE  LET cs == Changes(items) IN
           /\ \A c \in Range(cs) : c.key \in Parameter /\ c.old = facts.of[c.key]
                                    /\ c.new # c.old /\ InDomain(c.new, facts.unit)
           /\ \A i, j \in DOMAIN cs : cs[i].key = cs[j].key => i = j
           /\ \A item \in Range(items) :
                item.new = facts.of[item.key] \/ \E c \in Range(cs) : c.key = item.key
<1> DEFINE cs == Changes(items)
<1>1. \A i \in DOMAIN items : items[i].key \in Parameter \cup {Unknown}
    <2>1. \A i \in DOMAIN items : items[i] \in [key : Parameter \cup {Unknown}, new : Value]
        BY UpToElements DEF RuleReplies
    <2> QED BY <2>1
<1>2. \A i \in DOMAIN items : Good(items[i])
    BY DEF ItemsFit, Range
<1>3. DOMAIN cs = {i \in DOMAIN items : items[i].new # facts.of[items[i].key]}
    BY DEF Changes
<1>4. \A i \in DOMAIN cs : /\ cs[i].key = items[i].key /\ cs[i].old = facts.of[items[i].key]
                           /\ cs[i].new = items[i].new
    BY DEF Changes
<1> HIDE DEF cs
<1>5. ASSUME NEW i \in DOMAIN cs
      PROVE  /\ cs[i].key \in Parameter /\ cs[i].old = facts.of[cs[i].key]
             /\ cs[i].new # cs[i].old /\ InDomain(cs[i].new, facts.unit)
    BY <1>1, <1>2, <1>3, <1>4 DEF Good
<1>6. \A i, j \in DOMAIN cs : cs[i].key = cs[j].key => i = j
    BY <1>3, <1>4 DEF ItemsFit
<1>7. ASSUME NEW i \in DOMAIN items, items[i].new # facts.of[items[i].key]
      PROVE  \E c \in Range(cs) : c.key = items[i].key
    <2>1. i \in DOMAIN cs
        BY <1>3, <1>7
    <2>2. cs[i] \in Range(cs)
        BY <2>1 DEF Range
    <2> QED BY <1>4, <2>1, <2>2
<1>8. \A c \in Range(cs) : c.key \in Parameter /\ c.old = facts.of[c.key]
                            /\ c.new # c.old /\ InDomain(c.new, facts.unit)
    BY <1>5 DEF Range
<1>9. \A item \in Range(items) :
                item.new = facts.of[item.key] \/ \E c \in Range(cs) : c.key = item.key
    BY <1>7 DEF Range
<1> QED BY <1>6, <1>8, <1>9 DEF cs

\* Which dashboard proposals fit, and what the report takes.
LEMMA FitIsTaken ==
    ASSUME NEW p \in DashboardReplies, ReferencesFit(p)
    PROVE  Takes(p) \/ \E m \in Range(p.measures) : m.name \in Measure \/ m.dax = Unknown
<1>1. p.measures \in UpTo(2, [name : Measure \cup {NewMeasure}, table : {"table", Unknown},
                              dax : {"", Unknown} \cup Field])
    BY DEF DashboardReplies
<1>2. \A i \in DOMAIN p.measures :
        p.measures[i] \in [name : Measure \cup {NewMeasure}, table : {"table", Unknown},
                           dax : {"", Unknown} \cup Field]
    BY <1>1, UpToElements
<1> SUFFICES ASSUME \A m \in Range(p.measures) : m.name \notin Measure /\ m.dax # Unknown
             PROVE  Takes(p)
    OBVIOUS
<1>3. \A i \in DOMAIN p.measures : /\ p.measures[i].table = "table"
                                   /\ p.measures[i].name = NewMeasure /\ p.measures[i].dax \in Field
    <2> SUFFICES ASSUME NEW i \in DOMAIN p.measures
                 PROVE  /\ p.measures[i].table = "table"
                        /\ p.measures[i].name = NewMeasure /\ p.measures[i].dax \in Field
        OBVIOUS
    <2>1. p.measures[i].name \notin Measure /\ p.measures[i].dax # Unknown
        BY DEF Range
    <2>2. p.measures[i].dax # "" /\ p.measures[i].table = "table"
        BY DEF ReferencesFit
    <2> QED BY <1>2, <2>1, <2>2
<1>4. \A m \in Range(p.measures) : m.table = "table" /\ m.name = NewMeasure /\ m.dax \in Field
    BY <1>3 DEF Range
<1> QED BY <1>4 DEF Takes, ReferencesFit

LEMMA MisfitIsNotTaken ==
    ASSUME NEW p \in DashboardReplies, ~ReferencesFit(p)
    PROVE  ~Takes(p) \/ \E v \in Range(p.visuals) : v.field = NewMeasure
<1> SUFFICES ASSUME Takes(p) PROVE \E v \in Range(p.visuals) : v.field = NewMeasure
    OBVIOUS
<1>1. \A i \in DOMAIN p.measures : p.measures[i].dax # "" /\ p.measures[i].table = "table"
    BY ReplyAssumption DEF Takes, Range
<1>2. \A i, j \in DOMAIN p.measures : p.measures[i].name = p.measures[j].name => i = j
    BY DEF Takes
<1>3. PICK v \in Range(p.visuals) : ~(v.table = "table" /\ v.field \in OnTable)
    BY <1>1, <1>2 DEF ReferencesFit
<1>4. v.field \in {m.name : m \in Range(p.measures)}
    BY <1>3 DEF Takes
<1>5. v.field = NewMeasure
    BY <1>4 DEF Takes
<1> QED BY <1>5

\* No result, and no rejection of a dashboard proposal: nothing to apply.
LEMMA NothingToApply ==
    ASSUME \/ ~Returned("proposal") /\ ~Returned("rows") /\ ~Raised("Rejected")
           \/ ~Returned("proposal") /\ ~Returned("rows") /\ op.kind # "dashboard"
    PROVE  Applies
BY DEF Applies, RulesApply, DashboardApplies, RowsAllowed

LEMMA ReplyStep == ReplyInv /\ OutcomeInv /\ [Next]_vars => ReplyInv'
<1> SUFFICES ASSUME ReplyInv, OutcomeInv, [Next]_vars PROVE ReplyInv'
    OBVIOUS
<1>1. op' = op
    BY StepOfKind
<1>2. CASE op.kind \notin Replying
    BY <1>1, <1>2 DEF ReplyInv
<1>3. CASE UNCHANGED call
    <2>1. Applies' = Applies
        BY <1>3 DEF call, Applies, RulesApply, DashboardApplies, RowsAllowed, Returned, Raised
    <2> QED BY <1>3, <2>1 DEF call, ReplyInv, Applies
<1> SUFFICES ASSUME op.kind \in Replying, ReplyNext PROVE ReplyInv'
    BY <1>2, <1>3, StepOfKind DEF Answering, Drafting, Replying, Asking, Proposing, call
<1>4. /\ tries \in [bad : Nat, rejected : Nat]
      /\ op.kind \in Asking => calls <= MaxTries
    BY DEF ReplyInv
<1>5. MaxTries \in Nat \ {0}
    BY ReplyAssumption
\* Ends and steps on.
<1>6. ASSUME Applies', at' = "done", tries' = tries, op.kind \in Asking => calls' <= MaxTries
      PROVE  ReplyInv'
    BY <1>1, <1>4, <1>6 DEF ReplyInv, Applies
<1>7. ASSUME NEW name, Raise(name), name # "Rejected" \/ op.kind # "dashboard",
             tries' = tries, op.kind \in Asking => calls' <= MaxTries
      PROVE  ReplyInv'
    <2>1. Applies'
        BY <1>1, <1>7, NothingToApply DEF Raise, End, Returned, Raised,
           Applies, RulesApply, DashboardApplies, RowsAllowed
    <2> QED BY <1>6, <1>7, <2>1 DEF Raise, End
<1>8. ASSUME at' # "done" PROVE Applies'
    BY <1>8 DEF Applies, RulesApply, DashboardApplies, RowsAllowed, Returned, Raised
<1>9. ASSUME at = "start", at' = "ask", UNCHANGED <<tries, text, calls>>,
             op.kind = "rules" => facts' \in RuleFacts, op.kind = "query" => op.access,
             op.kind \in Asking
      PROVE  ReplyInv'
    BY <1>1, <1>4, <1>5, <1>8, <1>9 DEF ReplyInv, Applies
<1>10. CASE ReadCurrentValues \/ ReadCurrentModel \/ OfferTools
    BY <1>9, <1>10 DEF ReadCurrentValues, ReadCurrentModel, OfferTools, ReadBy, At, Go, Asking, Proposing
<1>11. CASE FetchDocument
    <2>1. /\ at = "start" /\ UNCHANGED <<tries, text, calls>> /\ op.kind = "document"
        BY <1>11 DEF FetchDocument, ReadBy, At
    <2>2. CASE Go("ask")
        BY <1>9, <2>1, <2>2 DEF Go, Asking
    <2>3. CASE Raise("ClientError")
        BY <1>4, <1>7, <2>1, <2>3
    <2> QED BY <1>11, <2>2, <2>3 DEF FetchDocument
<1>12. CASE RefuseCaller
    BY <1>4, <1>7, <1>12 DEF RefuseCaller, ReadBy, At
<1>13. CASE AskModel
    <2>1. /\ at = "ask" /\ op.kind \in Asking /\ UNCHANGED <<facts, tries>>
          /\ calls = tries.bad /\ tries.bad < MaxTries /\ tries.bad \in Nat
        BY <1>4, <1>13 DEF AskModel, At, ReplyInv
    <2>2. CASE TooLong /\ Raise("PromptTooLongError") /\ UNCHANGED <<text, calls>>
        BY <1>4, <1>7, <2>1, <2>2
    <2>3. CASE calls' = calls + 1 /\ Raise("HTTPError")
        BY <1>5, <1>7, <2>1, <2>3
    <2>4. CASE calls' = calls + 1 /\ text' \in RepliesTo(op.kind) /\ Go("fit")
        <3>1. at' = "fit" /\ op.kind # "tool"
            BY <2>1, <2>4 DEF Go, Asking, Proposing
        <3>2. RepliesTo(op.kind)' = RepliesTo(op.kind)
            BY <1>1
        <3>3. /\ op.kind = "rules" => facts' \in RuleFacts
              /\ op.kind = "query" => op.access
            BY <2>1 DEF ReplyInv
        <3>4. calls' = tries'.bad + 1 /\ tries'.bad < MaxTries /\ calls' <= MaxTries
            BY <1>5, <2>1, <2>4
        <3> QED BY <1>1, <1>4, <1>8, <2>1, <2>4, <3>1, <3>2, <3>3, <3>4 DEF ReplyInv, Applies
    <2> QED BY <1>13, <2>2, <2>3, <2>4 DEF AskModel, Generate
<1>14. CASE NoQuery
    BY <1>4, <1>7, <1>14 DEF NoQuery, At
<1>15. ASSUME at = "fit", Again, ~Fits \/ op.kind \in {"query", "tool"} PROVE ReplyInv'
    <2>1. UNCHANGED calls
        BY <1>15 DEF Again
    <2>2. CASE op.kind # "tool" /\ tries.bad + 1 < MaxTries
        <3>1. /\ tries' = [tries EXCEPT !.bad = @ + 1] /\ at' = "ask"
              /\ op.kind # "query" => facts' = facts
            BY <1>15, <2>2 DEF Again, AskAgain, Go
        <3>2. tries' \in [bad : Nat, rejected : Nat] /\ tries'.bad = tries.bad + 1
            BY <1>4, <3>1
        <3>3. op.kind \in Asking
            BY <2>2 DEF Replying
        <3>4. /\ op.kind = "rules" => facts' \in RuleFacts
              /\ op.kind = "query" => op.access
              /\ calls = tries.bad + 1 /\ calls <= MaxTries
            BY <1>15, <3>1, <3>3 DEF ReplyInv
        <3> QED BY <1>1, <1>8, <2>1, <2>2, <3>1, <3>2, <3>3, <3>4 DEF ReplyInv, Applies
    <2>3. CASE ~(op.kind # "tool" /\ tries.bad + 1 < MaxTries)
        <3>1. Raise("Rejected") /\ UNCHANGED <<facts, tries, text>>
            BY <1>15, <2>3 DEF Again
        <3>2. CASE op.kind # "dashboard"
            BY <1>4, <1>7, <2>1, <3>1, <3>2
        <3>3. CASE op.kind = "dashboard"
            <4>1. ~Fits
                BY <1>15, <3>3
            <4>2. text \in RepliesTo(op.kind)
                BY <1>15, <3>3 DEF ReplyInv
            <4>3. RepliesTo(op.kind) = [is : {"reply"}, of : DashboardReplies] \cup {NoReply}
                BY <3>3 DEF RepliesTo
            <4>4. text # NoReply => text.of \in DashboardReplies /\ ~ReferencesFit(text.of)
                BY <3>3, <4>1, <4>2, <4>3 DEF Fits
            <4>5. text' # NoReply => ~Takes(text'.of) \/ \E v \in Range(text'.of.visuals) : v.field = NewMeasure
                BY <3>1, <4>4, MisfitIsNotTaken
            <4>6. Applies'
                BY <1>1, <3>1, <3>3, <4>5 DEF Raise, End, Returned, Raised,
                   Applies, RulesApply, DashboardApplies, RowsAllowed
            <4> QED BY <1>4, <1>6, <2>1, <3>1, <4>6 DEF Raise, End
        <3> QED BY <3>2, <3>3
    <2> QED BY <2>2, <2>3
<1>16. CASE Misfit
    BY <1>15, <1>16 DEF Misfit, At
<1>17. CASE CallTool
    <2>1. /\ op.kind = "tool" /\ at' = "fit" /\ UNCHANGED tries
          /\ text' \in [is : {"reply"}, of : {r \in QueryReplies : r.tool = "query_metric"}]
        BY <1>17 DEF CallTool, At, Go
    <2>2. "tool" \notin Asking
        BY DEF Asking, Proposing
    <2> QED BY <1>1, <1>4, <1>8, <2>1, <2>2 DEF ReplyInv, Applies
<1>18. CASE RunQuery
    <2>1. at = "fit" /\ op.kind \in {"query", "tool"} /\ Fits /\ Queried
        BY <1>18 DEF RunQuery, At
    <2>2. CASE End([is |-> "rows", args |-> text.of]) /\ UNCHANGED <<op, facts, tries, text, calls>>
        <3>1. out'.is = "rows" /\ out'.args = text.of /\ at' = "done"
            BY <2>2 DEF End
        <3>2. text.of \in QueryReplies /\ text.of.tool = "query_metric"
            <4>1. CASE op.kind = "tool"
                BY <2>1, <4>1 DEF ReplyInv
            <4>2. CASE op.kind = "query"
                <5>1. text \in [is : {"reply"}, of : QueryReplies]
                    BY <2>1, <4>2 DEF ReplyInv, RepliesTo
                <5> QED BY <2>1, <4>2, <5>1 DEF Queried
            <4> QED BY <2>1, <4>1, <4>2
        <3>3. text.of.metric \in Metric \cup {Unknown}
            BY <3>2 DEF QueryReplies
        <3>4. ArgsFit(text.of)
            BY <2>1 DEF Fits
        <3>5. op.kind = "tool" \/ op.access
            BY <2>1 DEF ReplyInv
        <3>6. Applies'
            BY <1>1, <2>1, <3>1, <3>3, <3>4, <3>5 DEF ArgsFit, Returned, Raised,
               Applies, RulesApply, DashboardApplies, RowsAllowed
        <3> QED BY <1>4, <1>6, <2>2, <3>1, <3>6
    <2>3. CASE Raise("duckdb.Error") /\ UNCHANGED <<op, facts, tries, text, calls>>
        BY <1>4, <1>7, <2>3
    <2> QED BY <1>15, <1>18, <2>1, <2>2, <2>3 DEF RunQuery
<1>19. CASE ProposeParameterChanges
    <2>1. /\ at = "fit" /\ op.kind = "rules" /\ Fits /\ UNCHANGED <<facts, tries, text, calls>>
          /\ at' = "done" /\ out' = [is |-> "proposal", of |-> Changes(text.of)]
        BY <1>19 DEF ProposeParameterChanges, ProposeBy, At, End
    <2>2. facts \in RuleFacts /\ text \in RepliesTo("rules")
        BY <2>1 DEF ReplyInv
    <2>3. text.of \in RuleReplies /\ ItemsFit(text.of)
        BY <2>1, <2>2 DEF RepliesTo, Fits
    <2>4. out'.is = "proposal" /\ out'.of = Changes(text.of)
        BY <2>1
    <2> DEFINE cs == Changes(text.of)
    <2>5. /\ \A c \in Range(cs) : c.key \in Parameter /\ c.old = facts.of[c.key]
                                    /\ c.new # c.old /\ InDomain(c.new, facts.unit)
          /\ \A i, j \in DOMAIN cs : cs[i].key = cs[j].key => i = j
          /\ \A item \in Range(text.of) :
                item.new = facts.of[item.key] \/ \E c \in Range(cs) : c.key = item.key
        BY <2>2, <2>3, ChangesApply
    <2> HIDE DEF cs
    <2>6. RulesApply'
        BY <1>1, <2>1, <2>4, <2>5 DEF RulesApply, cs
    <2>7. Applies'
        BY <1>1, <2>1, <2>4, <2>6 DEF Applies, DashboardApplies, RowsAllowed, Returned, Raised
    <2> QED BY <1>4, <1>6, <2>1, <2>7
<1>20. CASE ProposeDashboard
    <2>1. /\ at = "fit" /\ op.kind = "dashboard" /\ Fits /\ UNCHANGED <<facts, tries, text, calls>>
          /\ at' = "done" /\ out' = [is |-> "proposal", of |-> text.of]
        BY <1>20 DEF ProposeDashboard, ProposeBy, At, End
    <2>2. text \in RepliesTo("dashboard")
        BY <2>1 DEF ReplyInv
    <2>3. text.of \in DashboardReplies /\ ReferencesFit(text.of)
        BY <2>1, <2>2 DEF RepliesTo, Fits
    <2>4. out'.is = "proposal" /\ out'.of = text.of
        BY <2>1
    <2>5. Takes(out'.of) \/ \E m \in Range(out'.of.measures) : m.name \in Measure \/ m.dax = Unknown
        BY <2>3, <2>4, FitIsTaken
    <2>6. Applies'
        BY <1>1, <2>1, <2>4, <2>5 DEF Applies, RulesApply, DashboardApplies, RowsAllowed, Returned, Raised
    <2> QED BY <1>4, <1>6, <2>1, <2>6
<1>21. CASE MatchDocument
    <2>1. at = "fit" /\ op.kind = "document" /\ UNCHANGED <<facts, tries, text, calls>>
        BY <1>21 DEF MatchDocument, At
    <2>2. CASE Raise("OperationalError")
        BY <1>4, <1>7, <2>1, <2>2
    <2>3. CASE at' = "done" /\ out'.is = "document"
        <3>1. Applies'
            BY <2>3 DEF Applies, RulesApply, DashboardApplies, RowsAllowed, Returned, Raised
        <3> QED BY <1>4, <1>6, <2>1, <2>3, <3>1
    <2> QED BY <1>21, <2>2, <2>3 DEF MatchDocument, End
<1> QED BY <1>10, <1>11, <1>12, <1>13, <1>14, <1>16, <1>17, <1>18, <1>19, <1>20, <1>21 DEF ReplyNext

\* What comes of a reply fits what it is applied to, for any parameters and
\* values, any report and metrics, and any limit of calls (_reconcile,
\* _validate_references, QueryMetricArgs).
THEOREM RepliesApply == Spec => []ReplyApplies
<1>1. Init => ReplyInv
    <2> SUFFICES ASSUME Init PROVE ReplyInv
        OBVIOUS
    <2>1. /\ at = "start" /\ calls = 0 /\ tries.bad = 0 /\ tries \in [bad : Nat, rejected : Nat]
          /\ calls <= MaxTries
        <3>1. at = "start" /\ calls = 0 /\ tries = [bad |-> 0, rejected |-> 0]
            BY InitKinds DEF NoTries
        <3>2. tries.bad = 0 /\ tries \in [bad : Nat, rejected : Nat]
            BY <3>1
        <3>3. calls <= MaxTries
            <4>1. MaxTries \in Nat \ {0}
                BY ReplyAssumption
            <4> QED BY <3>1, <4>1
        <3> QED BY <3>1, <3>2, <3>3
    <2>2. Applies
        BY <2>1, NothingToApply DEF Returned, Raised
    <2> QED BY <2>1, <2>2 DEF ReplyInv, Applies
<1>2. OutcomeInv /\ ReplyInv => ReplyApplies
    <2> SUFFICES ASSUME OutcomeInv, ReplyInv PROVE ReplyApplies
        OBVIOUS
    <2>1. CASE op.kind \in Replying
        BY <2>1 DEF ReplyInv, ReplyApplies
    <2>2. CASE op.kind \notin Replying
        <3>1. ~Returned("proposal") /\ ~Returned("rows") /\ op.kind # "dashboard"
            BY <2>2 DEF OutcomeInv, Results, Returned, Replying, Asking, Proposing
        <3>2. Applies
            BY <3>1, NothingToApply
        <3> QED BY <2>2, <3>2 DEF ReplyApplies, Applies, Replying
    <2> QED BY <2>1, <2>2
<1> QED BY <1>1, <1>2, ReplyStep, AlwaysOutcome, PTL DEF Spec

-----------------------------------------------------------------------------
(* The pipelines                                                           *)

LEMMA MoveControl ==
    ASSUME ControlInv, NEW p \in Pipeline, NEW next \in Stages \ {"create", "post"},
           p = "make" => next # "incidents", Move(p, next), runs' = runs
    PROVE  ControlInv'
BY DEF ControlInv, Move, Pipeline

LEMMA FurtherControl ==
    ASSUME ControlInv, NEW p \in Pipeline, NEW next \in Stages \ {"incidents"}, NEW step \in Nat,
           next = "create" => turn[p] + step \in DOMAIN Marts,
           next = "post" => turn[p] + step \in DOMAIN Items,
           Further(p, next, step), runs' = runs
    PROVE  ControlInv'
<1>1. turn' = [turn EXCEPT ![p] = @ + step] /\ turn' \in [Pipeline -> Nat \ {0}]
    BY DEF ControlInv, Further
<1>2. stage' = [stage EXCEPT ![p] = next] /\ failed' = failed
    BY DEF Further
<1> QED BY <1>1, <1>2 DEF ControlInv, Pipeline

LEMMA StopControl ==
    ASSUME ControlInv, NEW p \in Pipeline, NEW allDone \in Stages \ {"create", "post"},
           Stop(p, allDone), runs' = runs
    PROVE  ControlInv'
<1>1. "idle" \in Stages
    BY DEF Stages
<1>2. CASE p = "dag"
    BY <1>2 DEF ControlInv, Stop, Pipeline
<1>3. CASE p = "make"
    BY <1>1, <1>3 DEF ControlInv, Stop, Pipeline
<1> QED BY <1>2, <1>3 DEF Pipeline

\* What a pipeline's step does to where it stands.
LEMMA ControlStep == ControlInv /\ [Next]_vars => ControlInv'
<1> SUFFICES ASSUME ControlInv, [Next]_vars PROVE ControlInv'
    OBVIOUS
<1>1. CASE UNCHANGED warehouse
    BY <1>1 DEF warehouse, ControlInv
<1>2. CASE FileCase
    BY <1>2 DEF FileCase, ControlInv
<1> SUFFICES ASSUME NEW p \in Pipeline, WarehouseStep(p) PROVE ControlInv'
    BY <1>1, <1>2, StepOfKind DEF WarehouseNext
<1> USE DEF Stages
<1>3. CASE BeginRun(p)
    <2>1. /\ runs' = [runs EXCEPT ![p] = @ + 1] /\ stage' = [stage EXCEPT ![p] = "persons"]
          /\ failed' = [failed EXCEPT ![p] = FALSE] /\ turn' = turn
          /\ runs["dag"] + runs["make"] < MaxRuns
        BY <1>3 DEF BeginRun
    <2>2. /\ stage' \in [Pipeline -> Stages] /\ failed' \in [Pipeline -> BOOLEAN]
          /\ stage'["make"] # "incidents"
        BY <2>1 DEF ControlInv, Pipeline
    <2>3. /\ runs' \in [Pipeline -> Nat] /\ runs'["dag"] + runs'["make"] <= MaxRuns
        BY <2>1, WarehouseAssumption DEF ControlInv, Pipeline
    <2>4. \A q \in Pipeline : stage'[q] \in {"create", "post"} => stage'[q] = stage[q]
        BY <2>1 DEF ControlInv
    <2> QED BY <2>1, <2>2, <2>3, <2>4 DEF ControlInv
<1>4. CASE ExtractPersons(p) \/ ExtractMembers(p) \/ ReadNames(p) \/ LandTokens(p)
    BY <1>4, MoveControl DEF ExtractPersons, ExtractMembers, ReadNames, LandTokens
<1>5. CASE TaskFails(p) \/ InsertFails(p) \/ MaterializeFails(p) \/ ProvisionFails(p)
    BY <1>5, StopControl DEF TaskFails, InsertFails, MaterializeFails, ProvisionFails
<1>6. CASE FindToken(p)
    BY <1>6, FurtherControl DEF FindToken
<1>7. CASE InsertToken(p)
    BY <1>7, FurtherControl DEF InsertToken
<1>8. CASE Build(p)
    <2>1. runs' = runs /\ (Move(p, "drop") \/ Stop(p, "drop"))
        BY <1>8 DEF Build
    <2> QED BY <2>1, MoveControl, StopControl
<1>9. CASE DropMart(p)
    <2>1. runs' = runs /\ turn[p] \in DOMAIN Marts /\ Further(p, "create", 0)
        BY <1>9 DEF DropMart
    <2>2. turn[p] + 0 = turn[p]
        BY DEF ControlInv
    <2> QED BY <2>1, <2>2, FurtherControl
<1>10. CASE CreateMart(p)
    BY <1>10, FurtherControl DEF CreateMart
<1>11. CASE Materialized(p)
    <2>1. runs' = runs /\ Move(p, IF p = "dag" THEN "incidents" ELSE "find")
        BY <1>11 DEF Materialized
    <2> QED BY <2>1, MoveControl
<1>12. CASE Incidents(p)
    <2>1. runs' = runs /\ (Move(p, "find") \/ Stop(p, "idle"))
        BY <1>12 DEF Incidents
    <2> QED BY <2>1, MoveControl, StopControl
<1>13. CASE FindItem(p)
    <2>1. /\ runs' = runs /\ turn[p] \in DOMAIN Items
          /\ Further(p, "find", 1) \/ Further(p, "post", 0)
        BY <1>13 DEF FindItem
    <2>2. turn[p] + 0 = turn[p]
        BY DEF ControlInv
    <2> QED BY <2>1, <2>2, FurtherControl
<1>14. CASE PostItem(p)
    BY <1>14, FurtherControl DEF PostItem
<1>15. CASE Provisioned(p)
    BY <1>15, MoveControl DEF Provisioned
<1> QED BY <1>3, <1>4, <1>5, <1>6, <1>7, <1>8, <1>9, <1>10, <1>11, <1>12, <1>13, <1>14, <1>15
        DEF WarehouseStep

LEMMA AlwaysControl == Spec => []ControlInv
<1>1. Init => ControlInv
    <2> SUFFICES ASSUME WarehouseInit PROVE ControlInv
        BY DEF Init
    <2>1. 0 + 0 <= MaxRuns
        BY WarehouseAssumption
    <2> QED BY <2>1 DEF WarehouseInit, ControlInv, Stages, Pipeline
<1> QED BY <1>1, ControlStep, PTL DEF Spec

-----------------------------------------------------------------------------
(* A name keeps its token                                                  *)

LEMMA TokenTypesStep == TokenTypes /\ [Next]_vars => TokenTypes'
<1> SUFFICES ASSUME TokenTypes, [Next]_vars PROVE TokenTypes'
    OBVIOUS
<1>1. CASE UNCHANGED <<filed, vault, named, names>>
    BY <1>1 DEF TokenTypes
<1>2. CASE FileCase
    BY <1>2, WarehouseAssumption DEF FileCase, TokenTypes, landed, sources
<1> SUFFICES ASSUME NEW p \in Pipeline, WarehouseStep(p), ~UNCHANGED <<filed, vault, named, names>>
             PROVE  TokenTypes'
    BY <1>1, <1>2, StepOfKind DEF WarehouseNext, warehouse, sources, landed
<1>3. CASE BeginRun(p)
    <2> DEFINE none == [n \in Person |-> NoToken]
    <2>1. UNCHANGED <<filed, vault, names>>
        BY <1>3 DEF BeginRun, sources
    <2>2. named' = named \/ named' = [named EXCEPT ![p] = none]
        BY <1>3 DEF BeginRun
    <2>3. none \in [Person -> Tokens]
        BY DEF Tokens
    <2> HIDE DEF none
    <2>4. named' \in [Pipeline -> [Person -> Tokens]]
        BY <2>2, <2>3 DEF TokenTypes
    <2> QED BY <2>1, <2>4 DEF TokenTypes
<1>4. CASE TaskFails(p) \/ InsertFails(p)
    <2>1. names' = [names EXCEPT ![p] = <<>>] /\ UNCHANGED <<filed, vault, named>>
        BY <1>4 DEF TaskFails, InsertFails, sources
    <2> QED BY <2>1 DEF TokenTypes
<1>5. CASE ReadNames(p)
    <2> DEFINE s == [n \in 1..filed |-> NoToken]
    <2>1. names' = [names EXCEPT ![p] = s] /\ UNCHANGED <<filed, vault, named>>
        BY <1>5 DEF ReadNames, sources
    <2>2. s \in Seq(Tokens) /\ Len(s) = filed
        BY DEF TokenTypes, Tokens
    <2> HIDE DEF s
    <2> QED BY <2>1, <2>2 DEF TokenTypes
<1>6. CASE FindToken(p)
    <2>1. CASE UNCHANGED names
        BY <1>6, <2>1 DEF FindToken, sources, TokenTypes
    <2>2. CASE names' = [names EXCEPT ![p][turn[p]] = vault[turn[p]]]
        <3> DEFINE n == turn[p]
                   s == [names[p] EXCEPT ![n] = vault[n]]
        <3>1. n \in DOMAIN names[p] /\ UNCHANGED <<filed, vault, named>>
            BY <1>6 DEF FindToken, sources
        <3>2. vault[n] \in Tokens
            BY <3>1, WarehouseAssumption DEF TokenTypes, Person
        <3>3. s \in Seq(Tokens) /\ Len(s) = Len(names[p])
            BY <3>1, <3>2 DEF TokenTypes
        <3>4. names' = [names EXCEPT ![p] = s]
            BY <2>2 DEF TokenTypes
        <3> HIDE DEF s
        <3> QED BY <3>1, <3>3, <3>4 DEF TokenTypes
    <2> QED BY <1>6, <2>1, <2>2 DEF FindToken
<1>7. CASE InsertToken(p)
    <2> DEFINE n == turn[p]
               s == [names[p] EXCEPT ![n] = p]
    <2>1. /\ vault' = [vault EXCEPT ![n] = p] /\ names' = [names EXCEPT ![p][n] = p]
          /\ UNCHANGED <<filed, named>>
        BY <1>7 DEF InsertToken
    <2>2. p \in Tokens
        BY DEF Tokens
    <2>3. s \in Seq(Tokens) /\ Len(s) = Len(names[p])
        <3>1. CASE n \in DOMAIN names[p]
            BY <2>2, <3>1 DEF TokenTypes
        <3>2. CASE n \notin DOMAIN names[p]
            <4>1. names[p] \in Seq(Tokens)
                BY DEF TokenTypes
            <4>2. s = names[p]
                BY <3>2, <4>1
            <4> QED BY <4>1, <4>2
        <3> QED BY <3>1, <3>2
    <2>4. names' = [names EXCEPT ![p] = s]
        BY <2>1 DEF TokenTypes
    <2> HIDE DEF s
    <2> QED BY <2>1, <2>2, <2>3, <2>4 DEF TokenTypes
<1>8. CASE LandTokens(p)
    <2>1. /\ named' = [named EXCEPT ![p] =
                    [n \in Person |-> IF n \in DOMAIN names[p] THEN names[p][n] ELSE @[n]]]
          /\ names' = [names EXCEPT ![p] = <<>>] /\ UNCHANGED <<filed, vault>>
        BY <1>8 DEF LandTokens, sources
    <2>2. \A n \in DOMAIN names[p] : names[p][n] \in Tokens
        BY DEF TokenTypes
    <2>3. named' \in [Pipeline -> [Person -> Tokens]]
        BY <2>1, <2>2 DEF TokenTypes
    <2> QED BY <2>1, <2>3 DEF TokenTypes
<1>9. CASE Build(p)
    BY <1>9 DEF Build, sources, landed
<1>10. CASE ExtractPersons(p) \/ ExtractMembers(p)
    BY <1>10 DEF ExtractPersons, ExtractMembers, sources
<1>11. CASE DropMart(p) \/ CreateMart(p) \/ MaterializeFails(p) \/ Materialized(p)
    BY <1>11 DEF DropMart, CreateMart, MaterializeFails, Materialized, sources, landed
<1>12. CASE Incidents(p) \/ FindItem(p) \/ PostItem(p) \/ ProvisionFails(p) \/ Provisioned(p)
    BY <1>12 DEF Incidents, FindItem, PostItem, ProvisionFails, Provisioned, sources, landed
<1> QED BY <1>3, <1>4, <1>5, <1>6, <1>7, <1>8, <1>9, <1>10, <1>11, <1>12 DEF WarehouseStep

LEMMA TokenStep == TokenInv /\ TokenTypes /\ [Next]_vars => TokenInv'
<1> SUFFICES ASSUME TokenInv, TokenTypes, [Next]_vars PROVE TokenInv'
    OBVIOUS
<1>1. CASE UNCHANGED <<vault, named, names>>
    BY <1>1 DEF TokenInv
<1>2. CASE FileCase
    BY <1>2 DEF FileCase, TokenInv, landed
<1> SUFFICES ASSUME NEW p \in Pipeline, WarehouseStep(p), ~UNCHANGED <<vault, named, names>>
             PROVE  TokenInv'
    BY <1>1, <1>2, StepOfKind DEF WarehouseNext, warehouse, sources, landed
<1>3. CASE BeginRun(p)
    BY <1>3 DEF BeginRun, TokenInv, TokenTypes, sources
<1>4. CASE TaskFails(p) \/ InsertFails(p)
    <2>1. names' = [names EXCEPT ![p] = <<>>] /\ UNCHANGED <<vault, named>>
        BY <1>4 DEF TaskFails, InsertFails, sources
    <2> QED BY <2>1 DEF TokenInv, TokenTypes
<1>5. CASE ReadNames(p)
    <2>1. names' = [names EXCEPT ![p] = [n \in 1..filed |-> NoToken]] /\ UNCHANGED <<vault, named>>
        BY <1>5 DEF ReadNames, sources
    <2> QED BY <2>1 DEF TokenInv, TokenTypes
<1>6. CASE FindToken(p)
    <2>1. CASE UNCHANGED names
        BY <1>6, <2>1 DEF FindToken, sources
    <2>2. CASE names' = [names EXCEPT ![p][turn[p]] = vault[turn[p]]]
        BY <1>6, <2>2 DEF FindToken, sources, TokenInv, TokenTypes
    <2> QED BY <1>6, <2>1, <2>2 DEF FindToken
<1>7. CASE InsertToken(p)
    <2> DEFINE n == turn[p]
    <2>1. /\ vault' = [vault EXCEPT ![n] = p] /\ names' = [names EXCEPT ![p][n] = p]
          /\ UNCHANGED named /\ vault[n] = NoToken
        BY <1>7 DEF InsertToken, UniqueName
    <2> HIDE DEF n
    <2>2. ASSUME NEW q \in Pipeline, NEW m \in DOMAIN names[q] PROVE m \in DOMAIN vault
        BY WarehouseAssumption DEF TokenTypes, Person
    <2>3. ASSUME NEW q \in Pipeline
          PROVE  /\ DOMAIN names'[q] = DOMAIN names[q]
                 /\ \A m \in DOMAIN names[q] :
                        names'[q][m] = IF q = p /\ m = n THEN p ELSE names[q][m]
        BY <2>1 DEF TokenTypes
    <2>4. ASSUME NEW m \in DOMAIN vault PROVE vault'[m] = IF m = n THEN p ELSE vault[m]
        BY <2>1 DEF TokenTypes
    <2>5. ASSUME NEW q \in Pipeline, NEW m \in DOMAIN names'[q], names'[q][m] # NoToken
          PROVE  names'[q][m] = vault'[m]
        <3>1. m \in DOMAIN names[q] /\ m \in DOMAIN vault
            BY <2>2, <2>3, <2>5
        <3>2. CASE m = n
            <4>1. vault'[m] = p
                BY <2>4, <3>1, <3>2
            <4>2. CASE q = p
                BY <2>3, <3>1, <3>2, <4>1, <4>2
            <4>3. CASE q # p
                BY <2>1, <2>3, <2>5, <3>1, <3>2, <4>3 DEF TokenInv
            <4> QED BY <4>2, <4>3
        <3>3. CASE m # n
            BY <2>3, <2>4, <2>5, <3>1, <3>3 DEF TokenInv
        <3> QED BY <3>2, <3>3
    <2>6. ASSUME NEW q \in Pipeline, NEW m \in Person, named'[q][m] # NoToken
          PROVE  named'[q][m] = vault'[m]
        <3>1. named[q][m] = vault[m] /\ m \in DOMAIN vault /\ m # n
            BY <2>1, <2>6 DEF TokenInv, TokenTypes
        <3> QED BY <2>1, <2>4, <3>1
    <2> QED BY <2>5, <2>6 DEF TokenInv
<1>8. CASE LandTokens(p)
    <2>1. /\ named' = [named EXCEPT ![p] =
                    [n \in Person |-> IF n \in DOMAIN names[p] THEN names[p][n] ELSE @[n]]]
          /\ names' = [names EXCEPT ![p] = <<>>] /\ UNCHANGED vault
        BY <1>8 DEF LandTokens, sources
    <2>2. \A q \in Pipeline : \A n \in DOMAIN names'[q] :
             n \in DOMAIN names[q] /\ names'[q][n] = names[q][n]
        BY <2>1 DEF TokenTypes
    <2>3. ASSUME NEW q \in Pipeline, NEW n \in Person
          PROVE  named'[q][n] = IF q = p /\ n \in DOMAIN names[p] THEN names[p][n] ELSE named[q][n]
        BY <2>1 DEF TokenTypes
    <2> QED BY <2>1, <2>2, <2>3 DEF TokenInv
<1>9. CASE Build(p)
    BY <1>9 DEF Build, sources, landed
<1>10. CASE ExtractPersons(p) \/ ExtractMembers(p)
    BY <1>10 DEF ExtractPersons, ExtractMembers, sources
<1>11. CASE DropMart(p) \/ CreateMart(p) \/ MaterializeFails(p) \/ Materialized(p)
    BY <1>11 DEF DropMart, CreateMart, MaterializeFails, Materialized, sources, landed
<1>12. CASE Incidents(p) \/ FindItem(p) \/ PostItem(p) \/ ProvisionFails(p) \/ Provisioned(p)
    BY <1>12 DEF Incidents, FindItem, PostItem, ProvisionFails, Provisioned, sources, landed
<1> QED BY <1>3, <1>4, <1>5, <1>6, <1>7, <1>8, <1>9, <1>10, <1>11, <1>12 DEF WarehouseStep

\* Whatever two pipelines miss and insert, a name keeps its one token, for any
\* number of cases and runs (get_or_create_token).
THEOREM ANameKeepsItsToken == Spec => []NamesKeepTheirToken
<1>1. Init => TokenTypes /\ TokenInv
    <2> SUFFICES ASSUME WarehouseInit PROVE TokenTypes /\ TokenInv
        BY DEF Init
    <2>1. 1 \in 1..MaxFiled
        BY WarehouseAssumption
    <2> QED BY <2>1 DEF WarehouseInit, TokenTypes, TokenInv, Tokens
<1>2. TokenInv => NamesKeepTheirToken
    BY DEF TokenInv, NamesKeepTheirToken
<1> QED BY <1>1, <1>2, TokenTypesStep, TokenStep, PTL DEF Spec

-----------------------------------------------------------------------------
(* What is served                                                          *)

\* A run begins, or goes on, alone in what it changes of the control; once
\* failed it stays so until the next one.
LEMMA StepFrame ==
    ASSUME ControlInv, NEW p \in Pipeline, WarehouseStep(p), ~BeginRun(p)
    PROVE  /\ UNCHANGED <<filed, runs, since, overlapped, clashed>> /\ UnderWay(p)
           /\ \A q \in Pipeline \ {p} :
                stage'[q] = stage[q] /\ turn'[q] = turn[q] /\ failed'[q] = failed[q]
           /\ failed' = failed \/ failed'[p]
<1> USE DEF sources, watched, UnderWay, ControlInv
<1>1. ASSUME NEW next, Move(p, next)
      PROVE  /\ \A q \in Pipeline \ {p} :
                    stage'[q] = stage[q] /\ turn'[q] = turn[q] /\ failed'[q] = failed[q]
             /\ failed' = failed
    BY <1>1 DEF Move
<1>2. ASSUME NEW next, NEW step, Further(p, next, step)
      PROVE  /\ \A q \in Pipeline \ {p} :
                    stage'[q] = stage[q] /\ turn'[q] = turn[q] /\ failed'[q] = failed[q]
             /\ failed' = failed
    BY <1>2 DEF Further
<1>3. ASSUME NEW next, Stop(p, next)
      PROVE  /\ \A q \in Pipeline \ {p} :
                    stage'[q] = stage[q] /\ turn'[q] = turn[q] /\ failed'[q] = failed[q]
             /\ failed'[p]
    BY <1>3 DEF Stop
<1>4. CASE ExtractPersons(p) \/ ExtractMembers(p) \/ ReadNames(p) \/ LandTokens(p)
    BY <1>1, <1>4 DEF ExtractPersons, ExtractMembers, ReadNames, LandTokens
<1>5. CASE TaskFails(p) \/ InsertFails(p) \/ MaterializeFails(p) \/ ProvisionFails(p)
    BY <1>3, <1>5 DEF TaskFails, InsertFails, MaterializeFails, ProvisionFails
<1>6. CASE FindToken(p) \/ InsertToken(p)
    BY <1>2, <1>6 DEF FindToken, InsertToken
<1>7. CASE Build(p)
    BY <1>1, <1>3, <1>7 DEF Build
<1>8. CASE DropMart(p) \/ CreateMart(p)
    BY <1>2, <1>8 DEF DropMart, CreateMart
<1>9. CASE Materialized(p) \/ Provisioned(p)
    BY <1>1, <1>9 DEF Materialized, Provisioned
<1>10. CASE Incidents(p)
    BY <1>1, <1>3, <1>10 DEF Incidents
<1>11. CASE FindItem(p) \/ PostItem(p)
    BY <1>2, <1>11 DEF FindItem, PostItem
<1> QED BY <1>4, <1>5, <1>6, <1>7, <1>8, <1>9, <1>10, <1>11 DEF WarehouseStep

NoMarts == [m \in Mart |-> NoTable]

LEMMA NoMartsType == NoMarts \in [Mart -> Table] /\ NoTable \in Table
BY DEF NoMarts, NoTable, Table

\* What a build leaves of the marts.
LEMMA BuildFacts ==
    ASSUME NEW p \in Pipeline, Build(p), TableTypes
    PROVE  /\ UNCHANGED <<filed, bronze, serving, since, overlapped>>
           /\ gold' \in [Pipeline -> [Mart -> Table]]
           /\ \A q \in Pipeline, m \in Mart :
                \/ gold'[q][m] = gold[q][m]
                \/ q = p /\ gold'[q][m] = Snapshot(p) /\ (m \in Guarded => ~Orphaned(p))
           /\ \/ Move(p, "drop") /\ ~Orphaned(p) /\ (\A m \in Mart : gold'[p][m] = Snapshot(p))
              \/ Stop(p, "drop")
<1>1. PICK new \in SUBSET Mart, outcome \in {"clean", "tests", "died"} :
        /\ Orphaned(p) => new \cap Guarded = {} /\ outcome \in {"tests", "died"}
        /\ outcome = "clean" => new = Mart
        /\ gold' = [gold EXCEPT ![p] = [m \in Mart |-> IF m \in new THEN Snapshot(p) ELSE @[m]]]
        /\ IF outcome = "clean" THEN Move(p, "drop") ELSE Stop(p, "drop")
    BY DEF Build
<1>2. UNCHANGED <<filed, bronze, serving, since, overlapped>>
    BY DEF Build, sources, landed, reports, watched
<1>3. Snapshot(p) \in Table
    BY DEF Snapshot, Table, TableTypes
<1> DEFINE G == [m \in Mart |-> IF m \in new THEN Snapshot(p) ELSE gold[p][m]]
<1>4. gold' = [gold EXCEPT ![p] = G]
    BY <1>1
<1>5. gold[p] \in [Mart -> Table] /\ gold \in [Pipeline -> [Mart -> Table]]
    BY DEF TableTypes
<1>6. G \in [Mart -> Table] /\ \A m \in Mart : G[m] = IF m \in new THEN Snapshot(p) ELSE gold[p][m]
    BY <1>3, <1>5
<1> HIDE DEF G
<1>7. gold' \in [Pipeline -> [Mart -> Table]] /\ gold'[p] = G
    BY <1>4, <1>5, <1>6
<1>8. \A q \in Pipeline, m \in Mart :
        \/ gold'[q][m] = gold[q][m]
        \/ q = p /\ gold'[q][m] = Snapshot(p) /\ (m \in Guarded => ~Orphaned(p))
    BY <1>1, <1>4, <1>5, <1>6
<1>9. \/ Move(p, "drop") /\ ~Orphaned(p) /\ \A m \in Mart : gold'[p][m] = Snapshot(p)
      \/ Stop(p, "drop")
    BY <1>1, <1>6, <1>7
<1> QED BY <1>2, <1>7, <1>8, <1>9

LEMMA TableTypesStep == TableTypes /\ ControlInv /\ [Next]_vars => TableTypes'
<1> SUFFICES ASSUME TableTypes, ControlInv, [Next]_vars PROVE TableTypes'
    OBVIOUS
<1>1. CASE UNCHANGED <<filed, bronze, gold, serving, since, overlapped>>
    BY <1>1 DEF TableTypes
<1>2. CASE FileCase
    BY <1>2, WarehouseAssumption DEF FileCase, TableTypes, landed, built, reports, watched
<1> SUFFICES ASSUME NEW p \in Pipeline, WarehouseStep(p),
                    ~UNCHANGED <<filed, bronze, gold, serving, since, overlapped>>
             PROVE  TableTypes'
    BY <1>1, <1>2, StepOfKind DEF WarehouseNext, warehouse, sources, landed, built, reports, watched
<1>3. CASE BeginRun(p)
    <2>1. UNCHANGED <<filed, serving>>
        BY <1>3 DEF BeginRun, sources, reports
    <2>2. since' \in [Pipeline -> Nat] /\ overlapped' \in [Pipeline -> BOOLEAN]
        BY <1>3 DEF BeginRun, TableTypes
    <2>3. bronze' = bronze \/ bronze' = [bronze EXCEPT ![p] = NoRows]
        BY <1>3 DEF BeginRun
    <2>4. bronze' \in [Pipeline -> [persons : Nat, members : Nat]]
        BY <2>3 DEF TableTypes, NoRows
    <2>5. gold' = gold \/ gold' = [gold EXCEPT ![p] = NoMarts]
        BY <1>3 DEF BeginRun, NoMarts
    <2>6. gold' \in [Pipeline -> [Mart -> Table]]
        BY <2>5, NoMartsType DEF TableTypes
    <2> QED BY <2>1, <2>2, <2>4, <2>6 DEF TableTypes
<1>4. CASE ExtractPersons(p)
    <2>1. /\ bronze' = [bronze EXCEPT ![p].persons = filed]
          /\ UNCHANGED <<filed, gold, serving, since, overlapped>>
        BY <1>4 DEF ExtractPersons, LatestLanding, sources, built, reports, watched
    <2> QED BY <2>1 DEF TableTypes
<1>5. CASE ExtractMembers(p)
    <2>1. /\ bronze' = [bronze EXCEPT ![p].members = filed]
          /\ UNCHANGED <<filed, gold, serving, since, overlapped>>
        BY <1>5 DEF ExtractMembers, LatestLanding, sources, built, reports, watched
    <2> QED BY <2>1 DEF TableTypes
<1>6. CASE Build(p)
    BY <1>6, BuildFacts DEF TableTypes
<1>7. CASE DropMart(p)
    <2>1. /\ serving' = [serving EXCEPT ![Marts[turn[p]]] = NoTable]
          /\ UNCHANGED <<filed, bronze, gold, since, overlapped>>
        BY <1>7 DEF DropMart, sources, landed, built, watched
    <2> QED BY <2>1, NoMartsType DEF TableTypes
<1>8. CASE CreateMart(p)
    <2> DEFINE m == Marts[turn[p]]
    <2>1. /\ serving' = [serving EXCEPT ![m] = gold[p][m]]
          /\ UNCHANGED <<filed, bronze, gold, since, overlapped>> /\ turn[p] \in DOMAIN Marts
        BY <1>8 DEF CreateMart, sources, landed, built, watched, ControlInv
    <2>2. m \in Mart
        BY <2>1 DEF Mart
    <2> HIDE DEF m
    <2> QED BY <2>1, <2>2 DEF TableTypes
<1>9. CASE TaskFails(p) \/ ReadNames(p) \/ FindToken(p) \/ InsertToken(p) \/ InsertFails(p) \/ LandTokens(p)
    BY <1>9 DEF TaskFails, ReadNames, FindToken, InsertToken, InsertFails, LandTokens,
                sources, built, reports, watched
<1>10. CASE MaterializeFails(p) \/ Materialized(p) \/ Incidents(p) \/ FindItem(p) \/ PostItem(p)
              \/ ProvisionFails(p) \/ Provisioned(p)
    BY <1>10 DEF MaterializeFails, Materialized, Incidents, FindItem, PostItem, ProvisionFails, Provisioned,
                sources, landed, built, reports, watched
<1> QED BY <1>3, <1>4, <1>5, <1>6, <1>7, <1>8, <1>9, <1>10 DEF WarehouseStep

LEMMA AlwaysTables == Spec => []TableTypes
<1>1. Init => TableTypes
    <2> SUFFICES ASSUME WarehouseInit PROVE TableTypes
        BY DEF Init
    <2>1. 1 \in 1..MaxFiled
        BY WarehouseAssumption
    <2>2. gold = [p \in Pipeline |-> NoMarts] /\ serving = NoMarts
        BY DEF WarehouseInit, NoMarts
    <2>3. gold \in [Pipeline -> [Mart -> Table]] /\ serving \in [Mart -> Table]
        BY <2>2, NoMartsType
    <2> QED BY <2>1, <2>3 DEF WarehouseInit, TableTypes, NoRows
<1> QED BY <1>1, TableTypesStep, AlwaysControl, PTL DEF Spec

\* No step makes a guarded mart of an orphaned extract, or serves one.
LEMMA WholeStep == WholeInv /\ TableTypes /\ ControlInv /\ [Next]_vars => WholeInv'
<1> SUFFICES ASSUME WholeInv, TableTypes, ControlInv, [Next]_vars PROVE WholeInv'
    OBVIOUS
<1> USE GuardedAssumption
<1>1. CASE UNCHANGED <<gold, serving>>
    BY <1>1 DEF WholeInv, ServedWhole
<1> SUFFICES ASSUME NEW p \in Pipeline, WarehouseStep(p), ~UNCHANGED <<gold, serving>>
             PROVE  WholeInv'
    BY <1>1, StepOfKind DEF WarehouseNext, FileCase, warehouse, built, reports
<1>2. CASE BeginRun(p)
    <2>1. serving' = serving /\ (gold' = gold \/ gold' = [gold EXCEPT ![p] = NoMarts])
        BY <1>2 DEF BeginRun, NoMarts, reports
    <2>2. \A m \in Mart : NoMarts[m].members <= NoMarts[m].persons
        BY DEF NoMarts, NoTable
    <2> QED BY <2>1, <2>2 DEF WholeInv, ServedWhole, TableTypes
<1>3. CASE Build(p)
    <2>1. ~Orphaned(p) => Snapshot(p).members <= Snapshot(p).persons
        BY DEF Orphaned, Snapshot, TableTypes
    <2> QED BY <1>3, <2>1, BuildFacts DEF WholeInv, ServedWhole
<1>4. CASE DropMart(p)
    <2>1. serving' = [serving EXCEPT ![Marts[turn[p]]] = NoTable] /\ gold' = gold
        BY <1>4 DEF DropMart, built
    <2>2. NoTable.members <= NoTable.persons
        BY DEF NoTable
    <2> QED BY <2>1, <2>2 DEF WholeInv, ServedWhole, TableTypes
<1>5. CASE CreateMart(p)
    <2> DEFINE k == Marts[turn[p]]
    <2>1. serving' = [serving EXCEPT ![k] = gold[p][k]] /\ gold' = gold
        BY <1>5 DEF CreateMart, built
    <2> HIDE DEF k
    <2>2. \A m \in Guarded : serving'[m] = IF m = k THEN gold[p][m] ELSE serving[m]
        BY <2>1 DEF TableTypes
    <2> QED BY <2>1, <2>2 DEF WholeInv, ServedWhole
<1>6. CASE ExtractPersons(p) \/ ExtractMembers(p) \/ TaskFails(p) \/ ReadNames(p) \/ FindToken(p)
             \/ InsertToken(p) \/ InsertFails(p) \/ LandTokens(p)
    BY <1>6 DEF ExtractPersons, ExtractMembers, TaskFails, ReadNames, FindToken, InsertToken,
                InsertFails, LandTokens, built, reports
<1>7. CASE MaterializeFails(p) \/ Materialized(p) \/ Incidents(p) \/ FindItem(p) \/ PostItem(p)
              \/ ProvisionFails(p) \/ Provisioned(p)
    BY <1>7 DEF MaterializeFails, Materialized, Incidents, FindItem, PostItem, ProvisionFails, Provisioned,
                built, reports
<1> QED BY <1>2, <1>3, <1>4, <1>5, <1>6, <1>7 DEF WarehouseStep

\* The undisturbed run's own next step.
LEMMA OwnProgress ==
    ASSUME FreshInv, TableTypes, ControlInv, NEW p \in Pipeline, WarehouseStep(p), ~BeginRun(p),
           Undisturbed(p), ~failed'[p]
    PROVE  Progress(p)'
<1>1. Progress(p) /\ since[p] <= filed /\ since[p] \in Nat /\ filed \in Nat
    BY DEF FreshInv, TableTypes
<1>2. since' = since
    BY StepFrame
<1>3. ASSUME NEW next, Stop(p, next) PROVE FALSE
    BY <1>3 DEF Stop, ControlInv
<1>4. ASSUME NEW next, Move(p, next) PROVE stage'[p] = next /\ turn'[p] = 1
    BY <1>4 DEF Move, ControlInv
<1>5. ASSUME NEW next, NEW step \in Nat, Further(p, next, step)
      PROVE stage'[p] = next /\ turn'[p] = turn[p] + step
    BY <1>5 DEF Further, ControlInv
<1>6. DOMAIN Marts = 1..Len(Marts) /\ Len(Marts) \in Nat /\ turn[p] \in Nat \ {0}
    BY WarehouseAssumption DEF ControlInv
<1>7. \A j \in DOMAIN Marts : Marts[j] \in Mart
    BY DEF Mart
<1> USE DEF Extracted, Built
<1>8. CASE ExtractPersons(p)
    <2>1. stage'[p] = "members" /\ bronze' = [bronze EXCEPT ![p].persons = filed]
        BY <1>4, <1>8 DEF ExtractPersons, LatestLanding
    <2>2. bronze'[p].persons = filed
        BY <2>1 DEF TableTypes
    <2> QED BY <1>1, <1>2, <2>1, <2>2 DEF Progress
<1>9. CASE ExtractMembers(p)
    <2>1. /\ stage[p] = "members" /\ stage'[p] = "names"
          /\ bronze' = [bronze EXCEPT ![p].members = filed]
        BY <1>4, <1>9 DEF ExtractMembers, LatestLanding
    <2>2. bronze'[p].persons = bronze[p].persons /\ bronze'[p].members = filed
        BY <2>1 DEF TableTypes
    <2> QED BY <1>1, <1>2, <2>1, <2>2 DEF Progress
<1>10. CASE ReadNames(p) \/ FindToken(p) \/ InsertToken(p) \/ LandTokens(p)
    <2>1. /\ stage[p] \in {"names", "token", "insert"} /\ stage'[p] \in {"token", "insert", "build"}
          /\ UNCHANGED bronze
        BY <1>4, <1>5, <1>10 DEF ReadNames, FindToken, InsertToken, LandTokens
    <2> QED BY <1>1, <1>2, <2>1 DEF Progress
<1>11. CASE Build(p)
    <2>1. /\ stage[p] = "build" /\ Move(p, "drop") /\ UNCHANGED <<bronze, serving>>
          /\ \A m \in Mart : gold'[p][m] = Snapshot(p)
        BY <1>3, <1>11, BuildFacts DEF Build
    <2>2. stage'[p] = "drop" /\ turn'[p] = 1
        BY <1>4, <2>1
    <2>3. bronze[p].persons >= since[p] /\ bronze[p].members >= since[p]
        BY <1>1, <2>1 DEF Progress
    <2>4. \A m \in Mart : Fresh(gold[p][m], p)'
        BY <1>2, <2>1, <2>3 DEF Fresh, Snapshot
    <2> QED BY <1>2, <1>6, <2>1, <2>2, <2>3, <2>4 DEF Progress
<1>12. CASE DropMart(p)
    <2>1. /\ stage[p] = "drop" /\ turn[p] \in DOMAIN Marts /\ Further(p, "create", 0)
          /\ serving' = [serving EXCEPT ![Marts[turn[p]]] = NoTable]
          /\ UNCHANGED <<bronze, gold>>
        BY <1>12 DEF DropMart, landed, built
    <2>2. stage'[p] = "create" /\ turn'[p] = turn[p]
        BY <1>5, <1>6, <2>1
    <2>3. \A j \in DOMAIN Marts : Marts[j] # Marts[turn[p]] => serving'[Marts[j]] = serving[Marts[j]]
        BY <1>7, <2>1 DEF TableTypes
    <2> QED BY <1>1, <1>2, <2>1, <2>2, <2>3 DEF Progress, Fresh
<1>13. CASE CreateMart(p)
    <2> DEFINE k == Marts[turn[p]]
    <2>1. /\ stage[p] = "create" /\ turn[p] \in DOMAIN Marts /\ Further(p, "drop", 1)
          /\ serving' = [serving EXCEPT ![k] = gold[p][k]] /\ UNCHANGED <<bronze, gold>>
        BY <1>13 DEF CreateMart, landed, built, ControlInv
    <2>2. stage'[p] = "drop" /\ turn'[p] = turn[p] + 1
        BY <1>5, <2>1
    <2>3. \A j \in DOMAIN Marts : serving'[Marts[j]] = IF Marts[j] = k THEN gold[p][k] ELSE serving[Marts[j]]
        BY <1>7, <2>1 DEF TableTypes
    <2>4. k \in Mart
        BY <1>7, <2>1
    <2>5. Fresh(gold[p][k], p)
        BY <1>1, <2>1, <2>4 DEF Progress
    <2>6. ASSUME NEW j \in DOMAIN Marts, j < turn[p] + 1 PROVE Fresh(serving'[Marts[j]], p)
        <3>1. CASE Marts[j] = k
            BY <2>3, <2>5, <3>1
        <3>2. CASE Marts[j] # k
            <4>1. j < turn[p]
                BY <1>6, <2>6, <3>2
            <4> QED BY <1>1, <2>1, <2>3, <3>2, <4>1 DEF Progress
        <3> QED BY <3>1, <3>2
    <2> HIDE DEF k
    <2> QED BY <1>1, <1>2, <2>1, <2>2, <2>6 DEF Progress, Fresh
<1>14. CASE Materialized(p)
    <2>1. /\ stage[p] = "drop" /\ turn[p] \notin DOMAIN Marts /\ UNCHANGED <<bronze, gold, serving>>
          /\ stage'[p] \in {"incidents", "find"}
        BY <1>4, <1>14 DEF Materialized, landed, built, reports
    <2>2. \A j \in DOMAIN Marts : Fresh(serving[Marts[j]], p)
        BY <1>1, <1>6, <2>1 DEF Progress
    <2>3. \A m \in Mart : Fresh(serving[m], p)
        BY <2>2 DEF Mart
    <2> QED BY <1>1, <1>2, <2>1, <2>3 DEF Progress, Fresh
<1>15. CASE Incidents(p) \/ FindItem(p) \/ PostItem(p) \/ Provisioned(p)
    <2>1. /\ stage[p] \in {"incidents", "find", "post"} /\ UNCHANGED <<bronze, gold, serving>>
          /\ stage'[p] \in {"find", "post", "idle"}
        BY <1>3, <1>4, <1>5, <1>15 DEF Incidents, FindItem, PostItem, Provisioned, landed, built, reports
    <2> QED BY <1>1, <1>2, <2>1 DEF Progress, Fresh
<1>16. CASE TaskFails(p) \/ InsertFails(p) \/ MaterializeFails(p) \/ ProvisionFails(p)
    BY <1>3, <1>16 DEF TaskFails, InsertFails, MaterializeFails, ProvisionFails
<1> QED BY <1>8, <1>9, <1>10, <1>11, <1>12, <1>13, <1>14, <1>15, <1>16 DEF WarehouseStep

LEMMA FreshStep == FreshInv /\ TableTypes /\ ControlInv /\ [Next]_vars => FreshInv'
<1> SUFFICES ASSUME FreshInv, TableTypes, ControlInv, [Next]_vars PROVE FreshInv'
    OBVIOUS
<1>1. CASE UNCHANGED warehouse
    BY <1>1 DEF warehouse, sources, landed, built, reports, watched, FreshInv, Undisturbed, Progress,
                Fresh, UnderWay
<1>2. CASE FileCase
    <2>1. /\ filed' = filed + 1
          /\ UNCHANGED <<stage, turn, runs, bronze, gold, serving, failed, since, overlapped>>
        BY <1>2 DEF FileCase, landed, built, reports, watched
    <2>2. \A p \in Pipeline : since'[p] <= filed'
        BY <2>1 DEF FreshInv, TableTypes
    <2>3. ASSUME NEW p \in Pipeline PROVE Undisturbed(p)' = Undisturbed(p) /\ Progress(p)' = Progress(p)
        BY <2>1 DEF Undisturbed, Progress, Fresh
    <2> QED BY <2>1, <2>2, <2>3 DEF FreshInv, UnderWay
<1> SUFFICES ASSUME NEW q \in Pipeline, WarehouseStep(q) PROVE FreshInv'
    BY <1>1, <1>2, StepOfKind DEF WarehouseNext
<1>3. CASE BeginRun(q)
    <2> DEFINE others == {r \in Pipeline \ {q} : UnderWay(r)}
    <2>1. /\ overlapped' = [r \in Pipeline |-> r # q \/ others # {}]
          /\ stage' = [stage EXCEPT ![q] = "persons"] /\ since' = [since EXCEPT ![q] = filed]
          /\ filed' = filed
        BY <1>3 DEF BeginRun, sources
    <2>2. \A p \in Pipeline : since'[p] <= filed'
        BY <2>1 DEF FreshInv, TableTypes
    <2>3. ASSUME NEW p \in Pipeline, Undisturbed(p)'
          PROVE  (\A r \in Pipeline \ {p} : ~UnderWay(r)') /\ Progress(p)'
        <3>1. p = q /\ others = {}
            BY <2>1, <2>3 DEF Undisturbed
        <3>2. stage'[p] = "persons" /\ \A r \in Pipeline \ {p} : stage'[r] = stage[r]
            BY <2>1, <3>1 DEF ControlInv
        <3>3. \A r \in Pipeline \ {p} : ~UnderWay(r)'
            BY <3>1, <3>2 DEF UnderWay
        <3>4. Progress(p)'
            BY <3>2 DEF Progress, Extracted, Built
        <3> QED BY <3>3, <3>4
    <2> QED BY <2>2, <2>3 DEF FreshInv
<1>4. CASE ~BeginRun(q)
    <2>1. /\ UNCHANGED <<filed, runs, since, overlapped>> /\ UnderWay(q)
          /\ \A r \in Pipeline \ {q} :
                stage'[r] = stage[r] /\ turn'[r] = turn[r] /\ failed'[r] = failed[r]
          /\ failed' = failed \/ failed'[q]
        BY <1>4, StepFrame
    <2>2. ASSUME NEW p \in Pipeline, Undisturbed(p)'
          PROVE  (\A r \in Pipeline \ {p} : ~UnderWay(r)') /\ Progress(p)'
        <3>1. Undisturbed(p)
            BY <2>1, <2>2 DEF Undisturbed
        <3>2. p = q
            BY <2>1, <3>1 DEF FreshInv
        <3>3. \A r \in Pipeline \ {p} : ~UnderWay(r)'
            BY <2>1, <3>1, <3>2 DEF FreshInv, UnderWay
        <3>4. Progress(p)'
            BY <1>4, <2>2, <3>1, <3>2, OwnProgress DEF Undisturbed
        <3> QED BY <3>3, <3>4
    <2> QED BY <2>1, <2>2 DEF FreshInv
<1> QED BY <1>3, <1>4

LEMMA FreshServed == FreshInv /\ ControlInv => ServedFresh
BY DEF FreshInv, ControlInv, ServedFresh, Undisturbed, Progress, Fresh, UnderWay, Pipeline

\* A search and its post are alone until two runs are under way at once.
LEMMA OnceStep == OnceInv /\ ControlInv /\ [Next]_vars => OnceInv'
<1> SUFFICES ASSUME OnceInv, ControlInv, [Next]_vars PROVE OnceInv'
    OBVIOUS
<1>1. CASE UNCHANGED <<stage, turn, clashed, metabase>>
    BY <1>1 DEF OnceInv, UnderWay
<1> SUFFICES ASSUME NEW p \in Pipeline, WarehouseStep(p), ~UNCHANGED <<stage, turn, clashed, metabase>>
             PROVE  OnceInv'
    BY <1>1, StepOfKind DEF WarehouseNext, FileCase, warehouse, watched, reports
<1>2. CASE BeginRun(p)
    <2> DEFINE others == {q \in Pipeline \ {p} : UnderWay(q)}
    <2>1. /\ clashed' = (clashed \/ others # {}) /\ metabase' = metabase /\ turn' = turn
          /\ stage' = [stage EXCEPT ![p] = "persons"]
        BY <1>2 DEF BeginRun, reports
    <2>2. \A q \in Pipeline : q # p => stage'[q] = stage[q]
        BY <2>1 DEF ControlInv
    <2>3. stage'[p] = "persons"
        BY <2>1 DEF ControlInv
    <2>4. ~clashed' => ~clashed /\ \A q \in Pipeline : q # p => ~UnderWay(q)
        BY <2>1
    <2>5. clashed' \in BOOLEAN
        BY <2>1 DEF OnceInv
    <2> QED BY <2>1, <2>2, <2>3, <2>4, <2>5 DEF OnceInv, UnderWay
<1> SUFFICES ASSUME ~BeginRun(p) PROVE OnceInv'
    BY <1>2
<1>3. /\ UnderWay(p) /\ clashed' = clashed
      /\ \A q \in Pipeline \ {p} : stage'[q] = stage[q] /\ turn'[q] = turn[q]
    BY StepFrame
<1>4. ~clashed => \A q \in Pipeline \ {p} : stage[q] = "idle" /\ stage'[q] = "idle"
    BY <1>3 DEF OnceInv, UnderWay
<1>5. ~clashed' => \A q, r \in Pipeline : UnderWay(q)' /\ UnderWay(r)' => q = r
    BY <1>3, <1>4 DEF UnderWay
<1>6. CASE FindItem(p)
    <2>1. /\ turn[p] \in DOMAIN Items /\ metabase' = metabase
          /\ IF metabase[Items[turn[p]]] > 0 THEN Further(p, "find", 1) ELSE Further(p, "post", 0)
        BY <1>6 DEF FindItem, reports
    <2>2. Items[turn[p]] \in Item /\ turn[p] + 0 = turn[p]
        BY <2>1 DEF Item, ControlInv
    <2>3. \/ stage'[p] = "find"
          \/ stage'[p] = "post" /\ turn'[p] = turn[p] /\ metabase[Items[turn[p]]] = 0
        BY <2>1, <2>2 DEF Further, ControlInv, OnceInv
    <2>4. ~clashed' => \A q \in Pipeline : stage'[q] = "post" => metabase'[Items[turn'[q]]] = 0
        BY <1>3, <1>4, <2>1, <2>3
    <2> QED BY <1>3, <1>5, <2>1, <2>4 DEF OnceInv
<1>7. CASE PostItem(p)
    <2> DEFINE i == Items[turn[p]]
    <2>1. /\ stage[p] = "post" /\ metabase' = [metabase EXCEPT ![i] = @ + 1] /\ Further(p, "find", 1)
        BY <1>7 DEF PostItem
    <2>2. i \in Item
        BY <2>1 DEF Item, ControlInv
    <2>3. stage'[p] = "find"
        BY <2>1 DEF Further, ControlInv
    <2>4. ~clashed => metabase[i] = 0
        BY <2>1 DEF OnceInv
    <2> HIDE DEF i
    <2>5. metabase' \in [Item -> Nat] /\ (~clashed' => \A j \in Item : metabase'[j] <= 1)
        BY <1>3, <2>1, <2>2, <2>4 DEF OnceInv
    <2>6. ~clashed' => \A q \in Pipeline : stage'[q] # "post"
        BY <1>3, <1>4, <2>3
    <2> QED BY <1>3, <1>5, <2>5, <2>6 DEF OnceInv
<1>8. ASSUME metabase' = metabase, stage'[p] # "post"
      PROVE  OnceInv'
    <2>1. ~clashed' => \A q \in Pipeline : stage'[q] # "post"
        BY <1>3, <1>4, <1>8
    <2> QED BY <1>3, <1>5, <1>8, <2>1 DEF OnceInv
<1>9. ASSUME NEW next \in Stages \ {"post"}, NEW step, Move(p, next) \/ Stop(p, next) \/ Further(p, next, step)
      PROVE  stage'[p] # "post"
    BY <1>9 DEF Move, Stop, Further, ControlInv
<1> USE DEF Stages
<1>10. CASE ExtractPersons(p) \/ ExtractMembers(p) \/ TaskFails(p) \/ ReadNames(p) \/ InsertFails(p) \/ LandTokens(p)
    <2>1. \E next \in Stages \ {"post"} : Move(p, next) \/ Stop(p, next)
        BY <1>10 DEF ExtractPersons, ExtractMembers, TaskFails, ReadNames, InsertFails, LandTokens
    <2>2. metabase' = metabase
        BY <1>10 DEF ExtractPersons, ExtractMembers, TaskFails, ReadNames, InsertFails, LandTokens, reports
    <2> QED BY <1>8, <1>9, <2>1, <2>2
<1>11. CASE FindToken(p) \/ InsertToken(p) \/ DropMart(p) \/ CreateMart(p)
    <2>1. \E next \in Stages \ {"post"}, step \in {0, 1} : Further(p, next, step)
        BY <1>11 DEF FindToken, InsertToken, DropMart, CreateMart
    <2>2. metabase' = metabase
        BY <1>11 DEF FindToken, InsertToken, DropMart, CreateMart, reports
    <2> QED BY <1>8, <1>9, <2>1, <2>2
<1>12. CASE Build(p) \/ MaterializeFails(p) \/ Materialized(p) \/ Incidents(p) \/ ProvisionFails(p) \/ Provisioned(p)
    <2>1. \E next \in Stages \ {"post"} : Move(p, next) \/ Stop(p, next)
        BY <1>12 DEF Build, MaterializeFails, Materialized, Incidents, ProvisionFails, Provisioned
    <2>2. metabase' = metabase
        BY <1>12 DEF Build, MaterializeFails, Materialized, Incidents, ProvisionFails, Provisioned, reports
    <2> QED BY <1>8, <1>9, <2>1, <2>2
<1> QED BY <1>6, <1>7, <1>10, <1>11, <1>12 DEF WarehouseStep

\* The reports hold together, are as new as the last good run, and are there
\* once: whatever is filed while the tables are read, whatever test fails,
\* and however the two pipelines interleave (extract_to_bronze, dbt build,
\* materialize_gold, provision).
THEOREM ServedIsAsBuilt == Spec => []ServedAsBuilt
<1>1. Init => WholeInv /\ FreshInv /\ OnceInv
    <2> SUFFICES ASSUME WarehouseInit PROVE WholeInv /\ FreshInv /\ OnceInv
        BY DEF Init
    <2>1. \A m \in Mart : NoMarts[m].members <= NoMarts[m].persons
        BY DEF NoMarts, NoTable
    <2>2. serving = NoMarts /\ \A p \in Pipeline : gold[p] = NoMarts
        BY DEF WarehouseInit, NoMarts
    <2>3. WholeInv
        BY <2>1, <2>2, GuardedAssumption DEF WholeInv, ServedWhole
    <2>4. FreshInv
        BY DEF WarehouseInit, FreshInv, Undisturbed
    <2>5. /\ clashed = FALSE /\ metabase \in [Item -> Nat] /\ \A i \in Item : metabase[i] <= 1
          /\ \A p \in Pipeline : stage[p] = "idle"
        BY DEF WarehouseInit
    <2>6. OnceInv
        BY <2>5 DEF OnceInv, UnderWay
    <2> QED BY <2>3, <2>4, <2>6
<1>2. WholeInv /\ FreshInv /\ OnceInv /\ ControlInv => ServedAsBuilt
    BY FreshServed DEF WholeInv, OnceInv, ServedAsBuilt, ProvisionedOnce
<1> QED BY <1>1, <1>2, WholeStep, FreshStep, OnceStep, AlwaysControl, AlwaysTables, PTL DEF Spec

-----------------------------------------------------------------------------
(* What is reported                                                        *)

LEMMA LaterRuns ==
    ASSUME NEW n \in Nat, NEW S \in SUBSET (1..n), NEW r \in Nat
    PROVE  /\ Cardinality(Later(r, S)) \in Nat
           /\ \A T \in SUBSET S : Cardinality(Later(r, T)) <= Cardinality(Later(r, S))
           /\ \A run \in S : run > r => Cardinality(Later(r, S)) = Cardinality(Later(r, S \ {run})) + 1
<1>1. IsFiniteSet(Later(r, S)) /\ Cardinality(Later(r, S)) \in Nat
    <2>1. IsFiniteSet(1..n)
        BY FS_Interval
    <2>2. Later(r, S) \in SUBSET (1..n)
        BY DEF Later
    <2>3. IsFiniteSet(Later(r, S))
        BY <2>1, <2>2, FS_Subset
    <2> QED BY <2>3, FS_CardinalityType
<1>2. ASSUME NEW T \in SUBSET S PROVE Cardinality(Later(r, T)) <= Cardinality(Later(r, S))
    <2>1. Later(r, T) \in SUBSET Later(r, S)
        BY DEF Later
    <2> QED BY <1>1, <2>1, FS_Subset
<1>3. ASSUME NEW run \in S, run > r
      PROVE  Cardinality(Later(r, S)) = Cardinality(Later(r, S \ {run})) + 1
    <2>1. Later(r, S \ {run}) = Later(r, S) \ {run} /\ run \in Later(r, S)
        BY <1>3 DEF Later
    <2>2. Cardinality(Later(r, S) \ {run}) = Cardinality(Later(r, S)) - 1
        BY <1>1, <2>1, FS_RemoveElement
    <2>3. Cardinality(Later(r, S \ {run})) = Cardinality(Later(r, S)) - 1
        BY <2>1, <2>2, Zenon
    <2> QED BY <1>1, <2>3
<1> QED BY <1>1, <1>2, <1>3

\* A summary is of this run's own failures, or of an older run's because this
\* one wrote no results.
LEMMA StoredIncidents ==
    ASSUME ReportedInv, ControlInv, Incidents("dag") PROVE ReportedInv'
<1> DEFINE run == runs["dag"]
<1>1. PICK stored \in SUBSET FailedTests :
        /\ reported' = [r \in DagRun |-> reported[r] + (IF r \in stored THEN 1 ELSE 0)]
        /\ Move("dag", "find") \/ Stop("dag", "idle")
    BY DEF Incidents
<1>2. stage["dag"] = "incidents" /\ UNCHANGED <<runs, results, unbuilt>>
    BY DEF Incidents, built
<1>3. "dag" \in Pipeline
    BY DEF Pipeline
<1>4. Pending /\ ~Pending'
    BY <1>1, <1>2, <1>3 DEF Pending, Move, Stop, ControlInv
<1>5. stored \subseteq {results}
    BY DEF FailedTests, Invocation
<1>6. run \in Nat /\ run > 0 /\ results \in 0..run /\ unbuilt \in SUBSET (1..run)
    BY <1>3, <1>4 DEF ReportedInv, ControlInv
<1>7. \A r \in DagRun : r \in Nat /\ reported[r] \in Nat
    BY WarehouseAssumption DEF ReportedInv, DagRun
<1>8. ASSUME NEW r \in DagRun PROVE reported'[r] <= 1 + Cardinality(Later(r, unbuilt))
    <2>1. reported[r] <= 1 + Cardinality(Later(r, unbuilt \ {run}))
        BY <1>4 DEF ReportedInv
    <2>2. /\ Cardinality(Later(r, unbuilt)) \in Nat
          /\ Cardinality(Later(r, unbuilt \ {run})) <= Cardinality(Later(r, unbuilt))
        BY <1>6, <1>7, LaterRuns
    <2>3. unbuilt \ {run} \in SUBSET (1..run)
        BY <1>6
    <2>4. Cardinality(Later(r, unbuilt \ {run})) \in Nat
        BY <1>6, <1>7, <2>3, LaterRuns
    <2>5. CASE r \notin stored
        <3>1. reported'[r] = reported[r]
            BY <1>1, <1>7, <2>5
        <3> QED BY <1>7, <2>1, <2>2, <2>4, <3>1
    <2>6. CASE r \in stored /\ r = run
        <3>1. reported[r] = 0
            BY <1>4, <2>6 DEF ReportedInv
        <3> QED BY <1>1, <2>2, <2>6, <3>1
    <2>7. CASE r \in stored /\ r # run
        <3>1. r = results /\ r < run
            BY <1>5, <1>6, <1>7, <2>7
        <3>2. run \in unbuilt
            BY <1>4, <2>7, <3>1 DEF ReportedInv
        <3>3. Cardinality(Later(r, unbuilt)) = Cardinality(Later(r, unbuilt \ {run})) + 1
            BY <1>6, <1>7, <3>1, <3>2, LaterRuns
        <3>4. reported'[r] = reported[r] + 1
            BY <1>1, <2>7
        <3> QED BY <1>7, <2>1, <2>4, <3>3, <3>4
    <2> QED BY <2>5, <2>6, <2>7
<1>9. ASSUME NEW r \in DagRun, r > run PROVE reported'[r] = 0
    <2>1. reported[r] = 0 /\ r \notin stored
        BY <1>5, <1>6, <1>7, <1>9 DEF ReportedInv
    <2> QED BY <1>1, <2>1
<1>10. reported' \in [DagRun -> Nat]
    <2>1. \A r \in DagRun : reported[r] + (IF r \in stored THEN 1 ELSE 0) \in Nat
        BY <1>7
    <2> QED BY <1>1, <2>1
<1> QED BY <1>2, <1>4, <1>6, <1>8, <1>9, <1>10 DEF ReportedInv

\* Every way the DAG's run goes on leads through its incidents.
LEMMA StaysPending ==
    ASSUME ControlInv, NEW p \in Pipeline, WarehouseStep(p), ~BeginRun(p), ~Incidents(p)
    PROVE  Pending' = Pending
<1>1. CASE p = "make"
    <2>1. stage'["dag"] = stage["dag"]
        BY <1>1, StepFrame DEF Pipeline
    <2> QED BY <2>1 DEF Pending
<1>2. CASE p = "dag"
    <2>1. ASSUME NEW next, NEW step, Move(p, next) \/ Further(p, next, step) \/ Stop(p, next)
          PROVE  stage'["dag"] = next
        BY <1>2, <2>1 DEF Move, Further, Stop, ControlInv
    <2>2. CASE ExtractPersons(p) \/ ExtractMembers(p) \/ TaskFails(p) \/ ReadNames(p) \/ InsertFails(p)
                  \/ LandTokens(p) \/ Build(p)
        <3>1. /\ stage["dag"] \in {"persons", "members", "names", "token", "insert", "build"}
              /\ \E next \in {"members", "names", "token", "build", "drop"} : Move(p, next) \/ Stop(p, next)
            BY <1>2, <2>2 DEF ExtractPersons, ExtractMembers, TaskFails, ReadNames, InsertFails,
                              LandTokens, Build
        <3> QED BY <2>1, <3>1 DEF Pending
    <2>3. CASE FindToken(p) \/ InsertToken(p) \/ DropMart(p) \/ CreateMart(p)
        <3>1. /\ stage["dag"] \in {"token", "insert", "drop", "create"}
              /\ \E next \in {"token", "insert", "create", "drop"}, step \in {0, 1} : Further(p, next, step)
            BY <1>2, <2>3 DEF FindToken, InsertToken, DropMart, CreateMart
        <3> QED BY <2>1, <3>1 DEF Pending
    <2>4. CASE MaterializeFails(p) \/ Materialized(p)
        <3>1. /\ stage["dag"] \in {"drop", "create"}
              /\ Move(p, "incidents") \/ Stop(p, "incidents")
            BY <1>2, <2>4 DEF MaterializeFails, Materialized
        <3> QED BY <2>1, <3>1 DEF Pending
    <2>5. CASE FindItem(p) \/ PostItem(p)
        <3>1. /\ stage["dag"] \in {"find", "post"}
              /\ \E next \in {"find", "post"}, step \in {0, 1} : Further(p, next, step)
            BY <1>2, <2>5 DEF FindItem, PostItem
        <3> QED BY <2>1, <3>1 DEF Pending
    <2>6. CASE ProvisionFails(p) \/ Provisioned(p)
        <3>1. stage["dag"] \in {"find", "post"} /\ (Move(p, "idle") \/ Stop(p, "idle"))
            BY <1>2, <2>6 DEF ProvisionFails, Provisioned
        <3> QED BY <2>1, <3>1 DEF Pending
    <2> QED BY <2>2, <2>3, <2>4, <2>5, <2>6 DEF WarehouseStep
<1> QED BY <1>1, <1>2 DEF Pipeline

LEMMA ReportedStep == ReportedInv /\ ControlInv /\ [Next]_vars => ReportedInv'
<1> SUFFICES ASSUME ReportedInv, ControlInv, [Next]_vars PROVE ReportedInv'
    OBVIOUS
<1> DEFINE run == runs["dag"]
<1>1. ASSUME UNCHANGED <<results, unbuilt, reported>>, run' = run, Pending' = Pending
      PROVE  ReportedInv'
    BY <1>1 DEF ReportedInv
<1>2. CASE UNCHANGED <<stage, runs, results, unbuilt, reported>>
    BY <1>1, <1>2 DEF Pending
<1> SUFFICES ASSUME NEW p \in Pipeline, WarehouseStep(p),
                    ~UNCHANGED <<stage, runs, results, unbuilt, reported>>
             PROVE  ReportedInv'
    BY <1>2, StepOfKind DEF WarehouseNext, FileCase, warehouse, built
<1>3. "dag" \in Pipeline /\ run \in Nat
    BY DEF Pipeline, ControlInv
<1>4. CASE BeginRun(p) /\ p = "make"
    <2>1. UNCHANGED <<results, unbuilt, reported>>
        BY <1>4 DEF BeginRun
    <2>2. run' = run /\ Pending' = Pending
        BY <1>3, <1>4 DEF BeginRun, ControlInv, Pending
    <2> QED BY <1>1, <2>1, <2>2
<1>5. CASE BeginRun(p) /\ p = "dag"
    <2>1. /\ UNCHANGED <<results, reported>> /\ unbuilt' = unbuilt \cup {run + 1}
          /\ stage["dag"] = "idle"
        BY <1>5 DEF BeginRun, UnderWay
    <2>2. run' = run + 1 /\ stage'["dag"] = "persons"
        BY <1>3, <1>5 DEF BeginRun, ControlInv
    <2>3. ~Pending /\ Pending'
        BY <2>1, <2>2 DEF Pending
    <2>4. unbuilt \subseteq 1..run /\ results \in 0..run /\ reported \in [DagRun -> Nat]
        BY DEF ReportedInv
    <2>5. \A r \in unbuilt' : r \in 1..run'
        BY <1>3, <2>1, <2>2, <2>4
    <2>6. results' \in 0..run'
        BY <1>3, <2>1, <2>2, <2>4
    <2>7. run + 1 \notin unbuilt
        BY <1>3, <2>4
    <2>8. unbuilt' \ {run'} = unbuilt
        BY <2>1, <2>2, <2>7
    <2>9. \A r \in DagRun : r > run' \/ r = run' => reported'[r] = 0
        BY <1>3, <2>1, <2>2, WarehouseAssumption DEF ReportedInv, DagRun
    <2>10. \A r \in DagRun : reported'[r] <= 1 + Cardinality(Later(r, unbuilt))
        BY <2>1, <2>3 DEF ReportedInv
    <2>11. run' \in unbuilt' /\ run' > 0
        BY <1>3, <2>1, <2>2
    <2> QED BY <2>1, <2>3, <2>4, <2>5, <2>6, <2>8, <2>9, <2>10, <2>11 DEF ReportedInv
<1>6. CASE Incidents(p)
    <2>1. p = "dag"
        BY <1>6 DEF Incidents, ControlInv, Pipeline
    <2> QED BY <1>6, <2>1, StoredIncidents
<1> SUFFICES ASSUME ~BeginRun(p), ~Incidents(p) PROVE ReportedInv'
    BY <1>4, <1>5, <1>6 DEF Pipeline
<1>7. run' = run /\ Pending' = Pending
    BY StaysPending, StepFrame
<1>8. CASE Build(p)
    <2>1. \/ UNCHANGED <<results, unbuilt>>
          \/ p = "dag" /\ results' = run /\ unbuilt' = unbuilt \ {run}
        BY <1>8 DEF Build
    <2>2. reported' = reported /\ stage[p] = "build"
        BY <1>8 DEF Build
    <2>3. CASE p = "dag" /\ results' = run /\ unbuilt' = unbuilt \ {run}
        <3>1. Pending
            BY <2>2, <2>3 DEF Pending
        <3>2. unbuilt' \ {run} = unbuilt \ {run}
            BY <2>3
        <3>3. results' \in 0..run
            BY <1>3, <2>3
        <3>4. unbuilt' \subseteq 1..run
            BY <2>3 DEF ReportedInv
        <3> QED BY <1>7, <2>2, <2>3, <3>1, <3>2, <3>3, <3>4 DEF ReportedInv
    <2> QED BY <1>1, <1>7, <2>1, <2>2, <2>3
<1>9. CASE ExtractPersons(p) \/ ExtractMembers(p) \/ TaskFails(p) \/ ReadNames(p) \/ FindToken(p)
             \/ InsertToken(p) \/ InsertFails(p) \/ LandTokens(p)
    <2>1. UNCHANGED <<results, unbuilt, reported>>
        BY <1>9 DEF ExtractPersons, ExtractMembers, TaskFails, ReadNames, FindToken, InsertToken,
                    InsertFails, LandTokens, built
    <2> QED BY <1>1, <1>7, <2>1
<1>10. CASE DropMart(p) \/ CreateMart(p) \/ MaterializeFails(p) \/ Materialized(p) \/ FindItem(p)
              \/ PostItem(p) \/ ProvisionFails(p) \/ Provisioned(p)
    <2>1. UNCHANGED <<results, unbuilt, reported>>
        BY <1>10 DEF DropMart, CreateMart, MaterializeFails, Materialized, FindItem, PostItem,
                     ProvisionFails, Provisioned, built
    <2> QED BY <1>1, <1>7, <2>1
<1> QED BY <1>8, <1>9, <1>10 DEF WarehouseStep

\* A failed test is summarised once, and again only by a later run that left
\* no results of its own: also when dbt dies, a task fails half-way or the
\* two pipelines interleave (refresh_data_quality_incidents).
THEOREM ReportedIsOncePerBuild == Spec => []ReportedOncePerBuild
<1>1. Init => ReportedInv
    <2> SUFFICES ASSUME WarehouseInit PROVE ReportedInv
        BY DEF Init
    <2>1. /\ runs["dag"] = 0 /\ stage["dag"] = "idle" /\ results = 0 /\ unbuilt = {}
          /\ reported = [r \in DagRun |-> 0]
        BY DEF WarehouseInit, Pipeline
    <2>2. \A r \in DagRun : Later(r, {}) = {}
        BY DEF Later
    <2>3. Cardinality({}) = 0 /\ ~Pending
        BY <2>1, FS_EmptySet DEF Pending
    <2>4. \A r \in DagRun : reported[r] <= 1 + Cardinality(Later(r, unbuilt))
        BY <2>1, <2>2, <2>3
    <2>5. 0 \in 0..0 /\ {} \subseteq 1..0 /\ reported \in [DagRun -> Nat]
        BY <2>1
    <2> QED BY <2>1, <2>3, <2>4, <2>5 DEF ReportedInv
<1>2. ReportedInv /\ ControlInv => ReportedOncePerBuild
    <2> SUFFICES ASSUME ReportedInv, ControlInv, NEW r \in DagRun
                 PROVE  reported[r] <= 1 + Cardinality(Later(r, unbuilt))
        BY DEF ReportedOncePerBuild, Later
    <2> DEFINE run == runs["dag"]
    <2>1. run \in Nat /\ unbuilt \in SUBSET (1..run) /\ unbuilt \ {run} \in SUBSET (1..run)
        BY DEF ReportedInv, ControlInv, Pipeline
    <2>2. r \in Nat /\ reported[r] \in Nat
        BY WarehouseAssumption DEF ReportedInv, DagRun
    <2>3. /\ Cardinality(Later(r, unbuilt)) \in Nat
          /\ Cardinality(Later(r, unbuilt \ {run})) <= Cardinality(Later(r, unbuilt))
        BY <2>1, <2>2, LaterRuns
    <2>4. Cardinality(Later(r, unbuilt \ {run})) \in Nat
        BY <2>1, <2>2, LaterRuns
    <2>5. \/ reported[r] <= 1 + Cardinality(Later(r, unbuilt))
          \/ reported[r] <= 1 + Cardinality(Later(r, unbuilt \ {run}))
        BY DEF ReportedInv
    <2> QED BY <2>2, <2>3, <2>4, <2>5
<1> QED BY <1>1, <1>2, ReportedStep, AlwaysControl, PTL DEF Spec

-----------------------------------------------------------------------------
(* Corpus: induction and concatenation                                     *)

\* Induction over a set, for numbers and for sequences.
LEMMA NumbersInduction ==
    ASSUME NEW T, 0 \in T, \A n \in Nat \ {0} : n - 1 \in T => n \in T
    PROVE  Nat \subseteq T
<1> DEFINE Rest == Nat \ T
<1> SUFFICES ASSUME Rest # {} PROVE FALSE
    OBVIOUS
<1>1. PICK m \in Rest : \A k \in Rest : ~ (<<k, m>> \in OpToRel(<, Nat))
    BY NatLessThanWellFounded, WFMin
<1>2. m \in Nat \ {0} /\ m - 1 \in Nat /\ m - 1 < m
    OBVIOUS
<1>3. m - 1 \in T
    <2> SUFFICES ASSUME m - 1 \in Rest PROVE <<m - 1, m>> \in OpToRel(<, Nat)
        BY <1>1, <1>2
    <2> QED BY <1>2 DEF OpToRel
<1> QED BY <1>2, <1>3

LEMMA SequencesInduction ==
    ASSUME NEW A, NEW T, <<>> \in T, \A s \in Seq(A), x \in A : s \in T => Append(s, x) \in T
    PROVE  Seq(A) \subseteq T
<1> DEFINE N == {n \in Nat : \A s \in Seq(A) : Len(s) = n => s \in T}
<1>1. 0 \in N
    BY EmptySeq
<1>2. ASSUME NEW n \in Nat \ {0}, n - 1 \in N PROVE n \in N
    <2> SUFFICES ASSUME NEW s \in Seq(A), Len(s) = n PROVE s \in T
        OBVIOUS
    <2>1. s # <<>>
        OBVIOUS
    <2>2. PICK t \in Seq(A), x \in A : s = Append(t, x)
        BY <2>1, SequenceEmptyOrAppend
    <2>3. Len(t) = n - 1
        BY <2>2
    <2> QED BY <1>2, <2>2, <2>3
<1>3. Nat \subseteq N
    <2> HIDE DEF N
    <2> QED BY <1>1, <1>2, NumbersInduction
<1> QED BY <1>3

\* The concatenations of the first sequences of s.
IsFlat(f, s, m) == f = [i \in 1..m |-> IF i = 1 THEN s[i] ELSE f[i - 1] \o s[i]]

LEMMA FlatExists ==
    ASSUME NEW s
    PROVE  \A m \in Nat : \E f : IsFlat(f, s, m)
<1> DEFINE T == {m \in Nat : \E f : IsFlat(f, s, m)}
<1>1. 0 \in T
    <2>1. IsFlat([i \in 1..0 |-> 0], s, 0)
        BY DEF IsFlat
    <2> QED BY <2>1
<1>2. ASSUME NEW m \in Nat \ {0}, m - 1 \in T PROVE m \in T
    <2>1. PICK f : IsFlat(f, s, m - 1)
        BY <1>2
    <2> DEFINE g == [i \in 1..m |-> IF i = 1 THEN s[i] ELSE f[i - 1] \o s[i]]
    <2>2. ASSUME NEW i \in 1..(m - 1) PROVE g[i] = f[i]
        <3>1. f[i] = IF i = 1 THEN s[i] ELSE f[i - 1] \o s[i]
            BY <2>1, Zenon DEF IsFlat
        <3>2. i \in 1..m
            OBVIOUS
        <3> QED BY <3>1, <3>2
    <2>3. ASSUME NEW i \in 1..m
          PROVE  (IF i = 1 THEN s[i] ELSE f[i - 1] \o s[i]) = IF i = 1 THEN s[i] ELSE g[i - 1] \o s[i]
        <3>1. i # 1 => i - 1 \in 1..(m - 1)
            OBVIOUS
        <3>2. i # 1 => g[i - 1] = f[i - 1]
            BY <2>2, <3>1
        <3> HIDE DEF g
        <3> QED BY <3>2
    <2>4. g = [i \in 1..m |-> IF i = 1 THEN s[i] ELSE g[i - 1] \o s[i]]
        BY <2>3, Zenon
    <2> HIDE DEF g
    <2>5. IsFlat(g, s, m)
        BY <2>4 DEF IsFlat
    <2> QED BY <2>5
<1>3. Nat \subseteq T
    <2> HIDE DEF T
    <2> QED BY <1>1, <1>2, NumbersInduction
<1> QED BY <1>3

LEMMA FlattenDef ==
    ASSUME NEW s, Len(s) \in Nat \ {0}
    PROVE  \E f : IsFlat(f, s, Len(s)) /\ FlattenSeq(s) = f[Len(s)]
<1>1. \E f : IsFlat(f, s, Len(s))
    BY FlatExists
<1> QED BY <1>1 DEF FlattenSeq, IsFlat

LEMMA FlattenEmpty == FlattenSeq(<<>>) = <<>>
BY DEF FlattenSeq

LEMMA FlattenAppend ==
    ASSUME NEW A, NEW s \in Seq(Seq(A)), NEW x \in Seq(A)
    PROVE  FlattenSeq(Append(s, x)) = FlattenSeq(s) \o x
<1> DEFINE t == Append(s, x)
           n == Len(s)
<1>1. n \in Nat /\ Len(t) = n + 1 /\ t[n + 1] = x /\ \A i \in 1..n : t[i] = s[i]
    OBVIOUS
<1> HIDE DEF t
<1>2. PICK g : IsFlat(g, t, n + 1) /\ FlattenSeq(t) = g[n + 1]
    BY <1>1, FlattenDef
<1>3. \A i \in 1..(n + 1) : g[i] = IF i = 1 THEN t[i] ELSE g[i - 1] \o t[i]
    BY <1>2 DEF IsFlat
<1>4. CASE n = 0
    <2>1. s = <<>> /\ FlattenSeq(t) = x
        BY <1>1, <1>2, <1>3, <1>4
    <2> QED BY <2>1, FlattenEmpty, ConcatEmptySeq DEF t
<1>5. CASE n # 0
    <2>1. PICK f : IsFlat(f, s, n) /\ FlattenSeq(s) = f[n]
        BY <1>1, <1>5, FlattenDef
    <2>2. \A i \in 1..n : f[i] = IF i = 1 THEN s[i] ELSE f[i - 1] \o s[i]
        BY <2>1 DEF IsFlat
    <2> DEFINE T == {i \in Nat : i \in 1..n => g[i] = f[i]}
    <2>3. 0 \in T
        OBVIOUS
    <2>4. ASSUME NEW i \in Nat \ {0}, i - 1 \in T PROVE i \in T
        <3> SUFFICES ASSUME i \in 1..n PROVE g[i] = f[i]
            OBVIOUS
        <3>1. i \in 1..(n + 1) /\ t[i] = s[i]
            BY <1>1
        <3>2. CASE i = 1
            BY <1>3, <2>2, <3>1, <3>2
        <3>3. CASE i # 1
            <4>1. i - 1 \in 1..n
                BY <3>3
            <4>2. g[i - 1] = f[i - 1]
                BY <2>4, <4>1
            <4> QED BY <1>3, <2>2, <3>1, <3>3, <4>2
        <3> QED BY <3>2, <3>3
    <2>5. Nat \subseteq T
        <3> HIDE DEF T
        <3> QED BY <2>3, <2>4, NumbersInduction
    <2>6. g[n] = f[n]
        BY <1>1, <1>5, <2>5
    <2>7. g[n + 1] = g[n] \o x
        <3>1. n + 1 \in 1..(n + 1) /\ n + 1 # 1 /\ (n + 1) - 1 = n
            BY <1>1, <1>5
        <3>2. g[n + 1] = g[(n + 1) - 1] \o t[n + 1]
            BY <1>3, <3>1
        <3> QED BY <1>1, <3>1, <3>2
    <2> QED BY <1>2, <2>1, <2>6, <2>7 DEF t
<1> QED BY <1>4, <1>5

LEMMA FlattenType ==
    ASSUME NEW A, NEW s \in Seq(Seq(A))
    PROVE  FlattenSeq(s) \in Seq(A)
<1> DEFINE T == {t \in Seq(Seq(A)) : FlattenSeq(t) \in Seq(A)}
<1>1. <<>> \in T
    BY FlattenEmpty, EmptySeq
<1>2. ASSUME NEW t \in Seq(Seq(A)), NEW x \in Seq(A), t \in T PROVE Append(t, x) \in T
    BY <1>2, FlattenAppend, ConcatProperties, AppendProperties
<1>3. Seq(Seq(A)) \subseteq T
    <2> HIDE DEF T
    <2> QED BY <1>1, <1>2, SequencesInduction
<1> QED BY <1>3

-----------------------------------------------------------------------------
(* The text of chunks and of groups                                        *)

Group == [n : Nat, of : Seq(Paragraph)]
Marker == Nat \X Nat
Labels == Seq(Marker)
Chunk == [label : Labels, of : Seq(Paragraph)]
Piece == Group \cup Chunk

Ofs(cs) == [i \in DOMAIN cs |-> cs[i].of]

LEMMA ConcatThree == \A s, t, u \in Seq(Paragraph) : (s \o t) \o u = s \o (t \o u)
BY ConcatAssociative

LEMMA PieceOf == \A c \in Piece : c.of \in Seq(Paragraph)
BY DEF Piece, Group, Chunk

LEMMA TextEmpty == Text(<<>>) = <<>>
<1>1. [i \in DOMAIN <<>> |-> <<>>[i].of] = <<>>
    OBVIOUS
<1> QED BY <1>1, FlattenEmpty DEF Text

LEMMA OfsType ==
    ASSUME NEW cs \in Seq(Piece)
    PROVE  Ofs(cs) \in Seq(Seq(Paragraph)) /\ Len(Ofs(cs)) = Len(cs)
<1>1. DOMAIN cs = 1..Len(cs) /\ Len(cs) \in Nat /\ \A i \in 1..Len(cs) : cs[i].of \in Seq(Paragraph)
    BY PieceOf
<1> QED BY <1>1 DEF Ofs

LEMMA TextAppend ==
    ASSUME NEW cs \in Seq(Piece), NEW c \in Piece
    PROVE  Text(Append(cs, c)) = Text(cs) \o c.of
<1> DEFINE ds == Append(cs, c)
<1>1. ds \in Seq(Piece) /\ Len(ds) = Len(cs) + 1 /\ ds[Len(cs) + 1] = c /\ \A i \in 1..Len(cs) : ds[i] = cs[i]
    BY AppendProperties
<1> HIDE DEF ds
<1>2. /\ Ofs(ds) \in Seq(Seq(Paragraph)) /\ Len(Ofs(ds)) = Len(cs) + 1
      /\ Ofs(cs) \in Seq(Seq(Paragraph)) /\ Len(Ofs(cs)) = Len(cs)
    BY <1>1, OfsType
<1>3. DOMAIN ds = 1..(Len(cs) + 1) /\ DOMAIN cs = 1..Len(cs) /\ Len(cs) \in Nat /\ c.of \in Seq(Paragraph)
    BY <1>1, PieceOf
<1>4. \A i \in 1..(Len(cs) + 1) : Ofs(ds)[i] = Append(Ofs(cs), c.of)[i]
    BY <1>1, <1>2, <1>3 DEF Ofs
<1>5. Append(Ofs(cs), c.of) \in Seq(Seq(Paragraph)) /\ Len(Append(Ofs(cs), c.of)) = Len(cs) + 1
    BY <1>2, <1>3, AppendProperties
<1>6. Ofs(ds) = Append(Ofs(cs), c.of)
    BY <1>2, <1>4, <1>5, SeqEqual
<1>7. FlattenSeq(Ofs(ds)) = FlattenSeq(Ofs(cs)) \o c.of
    BY <1>2, <1>3, <1>6, FlattenAppend
<1> QED BY <1>7 DEF Ofs, Text, ds

LEMMA TextType ==
    ASSUME NEW cs \in Seq(Piece)
    PROVE  Text(cs) \in Seq(Paragraph)
BY OfsType, FlattenType DEF Text, Ofs

LEMMA TextConcat ==
    ASSUME NEW cs \in Seq(Piece), NEW ds \in Seq(Piece)
    PROVE  Text(cs \o ds) = Text(cs) \o Text(ds)
<1> DEFINE T == {es \in Seq(Piece) : Text(cs \o es) = Text(cs) \o Text(es)}
<1>1. <<>> \in T
    <2>1. cs \o <<>> = cs /\ Text(cs) \o <<>> = Text(cs)
        BY TextType, ConcatEmptySeq
    <2> QED BY <2>1, TextEmpty, EmptySeq
<1>2. ASSUME NEW es \in Seq(Piece), NEW e \in Piece, es \in T PROVE Append(es, e) \in T
    <2>1. /\ Append(es, e) \in Seq(Piece) /\ cs \o es \in Seq(Piece)
          /\ cs \o Append(es, e) = Append(cs \o es, e)
        OBVIOUS
    <2>2. Text(cs \o Append(es, e)) = Text(cs \o es) \o e.of /\ Text(Append(es, e)) = Text(es) \o e.of
        BY <2>1, TextAppend
    <2>3. Text(cs \o es) = Text(cs) \o Text(es)
        BY <1>2
    <2>4. (Text(cs) \o Text(es)) \o e.of = Text(cs) \o (Text(es) \o e.of)
        <3>1. Text(cs) \in Seq(Paragraph) /\ Text(es) \in Seq(Paragraph) /\ e.of \in Seq(Paragraph)
            BY TextType, PieceOf
        <3> QED BY <3>1, ConcatThree
    <2> QED BY <2>1, <2>2, <2>3, <2>4
<1>3. Seq(Piece) \subseteq T
    <2> HIDE DEF T
    <2> QED BY <1>1, <1>2, SequencesInduction
<1> QED BY <1>3

-----------------------------------------------------------------------------
(* The groups of a level                                                   *)

IsSplit(g, ps, level, m) ==
    g = [k \in 0..m |-> IF k = 0 THEN <<>> ELSE Place(g[k - 1], ps[k], level)]

LEMMA SplitExists ==
    ASSUME NEW ps, NEW level
    PROVE  \A m \in Nat : \E g : IsSplit(g, ps, level, m)
<1> DEFINE T == {m \in Nat : \E g : IsSplit(g, ps, level, m)}
<1>1. 0 \in T
    <2>1. IsSplit([k \in 0..0 |-> <<>>], ps, level, 0)
        BY DEF IsSplit
    <2> QED BY <2>1
<1>2. ASSUME NEW m \in Nat \ {0}, m - 1 \in T PROVE m \in T
    <2>1. PICK f : IsSplit(f, ps, level, m - 1)
        BY <1>2
    <2> DEFINE g == [k \in 0..m |-> IF k = 0 THEN <<>> ELSE Place(f[k - 1], ps[k], level)]
    <2>2. ASSUME NEW k \in 0..(m - 1) PROVE g[k] = f[k]
        <3>1. f[k] = IF k = 0 THEN <<>> ELSE Place(f[k - 1], ps[k], level)
            BY <2>1, Zenon DEF IsSplit
        <3>2. k \in 0..m
            OBVIOUS
        <3> QED BY <3>1, <3>2
    <2>3. ASSUME NEW k \in 0..m
          PROVE  (IF k = 0 THEN <<>> ELSE Place(f[k - 1], ps[k], level)) =
                 IF k = 0 THEN <<>> ELSE Place(g[k - 1], ps[k], level)
        <3>1. k # 0 => k - 1 \in 0..(m - 1)
            OBVIOUS
        <3>2. k # 0 => g[k - 1] = f[k - 1]
            BY <2>2, <3>1
        <3> HIDE DEF g
        <3> QED BY <3>2
    <2>4. g = [k \in 0..m |-> IF k = 0 THEN <<>> ELSE Place(g[k - 1], ps[k], level)]
        BY <2>3, Zenon
    <2> HIDE DEF g
    <2>5. IsSplit(g, ps, level, m)
        BY <2>4 DEF IsSplit
    <2> QED BY <2>5
<1>3. Nat \subseteq T
    <2> HIDE DEF T
    <2> QED BY <1>1, <1>2, NumbersInduction
<1> QED BY <1>3

LEMMA SplitDef ==
    ASSUME NEW ps, NEW level, Len(ps) \in Nat
    PROVE  \E g : IsSplit(g, ps, level, Len(ps)) /\ SplitSequential(ps, level) = g[Len(ps)]
<1>1. \E g : IsSplit(g, ps, level, Len(ps))
    BY SplitExists
<1> QED BY <1>1 DEF SplitSequential, IsSplit

LEMMA SplitEmpty == \A level : SplitSequential(<<>>, level) = <<>>
<1> SUFFICES ASSUME NEW level PROVE SplitSequential(<<>>, level) = <<>>
    OBVIOUS
<1>1. Len(<<>>) = 0 /\ 0 \in 0..0
    OBVIOUS
<1>2. PICK g : IsSplit(g, <<>>, level, 0) /\ SplitSequential(<<>>, level) = g[0]
    BY <1>1, SplitDef
<1> QED BY <1>1, <1>2 DEF IsSplit

LEMMA SplitAppend ==
    ASSUME NEW A, NEW ps \in Seq(A), NEW p \in A, NEW level
    PROVE  SplitSequential(Append(ps, p), level) = Place(SplitSequential(ps, level), p, level)
<1> DEFINE qs == Append(ps, p)
           n  == Len(ps)
<1>1. n \in Nat /\ Len(qs) = n + 1 /\ qs[n + 1] = p /\ \A i \in 1..n : qs[i] = ps[i]
    OBVIOUS
<1> HIDE DEF qs
<1>2. PICK g : IsSplit(g, qs, level, n + 1) /\ SplitSequential(qs, level) = g[n + 1]
    BY <1>1, SplitDef
<1>3. PICK f : IsSplit(f, ps, level, n) /\ SplitSequential(ps, level) = f[n]
    BY <1>1, SplitDef
<1>4. \A k \in 0..(n + 1) : g[k] = IF k = 0 THEN <<>> ELSE Place(g[k - 1], qs[k], level)
    BY <1>2, Zenon DEF IsSplit
<1>5. \A k \in 0..n : f[k] = IF k = 0 THEN <<>> ELSE Place(f[k - 1], ps[k], level)
    BY <1>3, Zenon DEF IsSplit
<1> DEFINE T == {k \in Nat : k \in 0..n => g[k] = f[k]}
<1>6. 0 \in T
    BY <1>1, <1>4, <1>5
<1>7. ASSUME NEW k \in Nat \ {0}, k - 1 \in T PROVE k \in T
    <2> SUFFICES ASSUME k \in 0..n PROVE g[k] = f[k]
        OBVIOUS
    <2>1. k \in 0..(n + 1) /\ k - 1 \in 0..n /\ k # 0 /\ qs[k] = ps[k]
        BY <1>1
    <2>2. g[k - 1] = f[k - 1]
        BY <1>7, <2>1
    <2> QED BY <1>4, <1>5, <2>1, <2>2
<1>8. Nat \subseteq T
    <2> HIDE DEF T
    <2> QED BY <1>6, <1>7, NumbersInduction
<1>9. g[n] = f[n]
    BY <1>1, <1>8
<1>10. n + 1 \in 0..(n + 1) /\ n + 1 # 0 /\ (n + 1) - 1 = n
    BY <1>1
<1>11. g[n + 1] = Place(g[(n + 1) - 1], qs[n + 1], level)
    BY <1>4, <1>10
<1> QED BY <1>1, <1>2, <1>3, <1>9, <1>10, <1>11 DEF qs

LastOf(gs) == IF gs = <<>> THEN 0 ELSE gs[Len(gs)].n

\* A paragraph opens a group, begins what comes before the first, or joins the
\* last one.
Placed(gs, hs, p, level) ==
    \/ Opens(p, level, LastOf(gs)) /\ hs = Append(gs, [n |-> p.n, of |-> <<p>>])
    \/ ~Opens(p, level, 0) /\ gs = <<>> /\ hs = Append(<<>>, [n |-> 0, of |-> <<p>>])
    \/ /\ ~Opens(p, level, LastOf(gs)) /\ gs # <<>>
       /\ \E front \in Seq(Group), g \in Group :
             /\ gs = Append(front, g)
             /\ hs = Append(front, [n |-> g.n, of |-> Append(g.of, p)])

LEMMA PlaceFacts ==
    ASSUME NEW gs \in Seq(Group), NEW p \in Paragraph, NEW level
    PROVE  Placed(gs, Place(gs, p, level), p, level)
<1> USE DEF Placed
<1> DEFINE last == IF gs = <<>> THEN 0 ELSE gs[Len(gs)].n
<1>0. LastOf(gs) = last
    BY DEF LastOf
<1> HIDE DEF last
<1>1. CASE Opens(p, level, last)
    <2>1. Place(gs, p, level) = Append(gs, [n |-> p.n, of |-> <<p>>])
        BY <1>1, Zenon DEF Place, last
    <2> QED BY <1>0, <1>1, <2>1
<1>2. CASE ~Opens(p, level, last) /\ gs = <<>>
    <2>1. last = 0 /\ ~Opens(p, level, 0)
        BY <1>2 DEF last
    <2>2. Place(gs, p, level) = <<[n |-> 0, of |-> <<p>>]>>
        BY <1>2 DEF Place, last
    <2> QED BY <1>2, <2>1, <2>2
<1>3. CASE ~Opens(p, level, last) /\ gs # <<>>
    <2> DEFINE L == Len(gs)
    <2>1. PICK front \in Seq(Group), g \in Group : gs = Append(front, g)
        BY <1>3, SequenceEmptyOrAppend
    <2>2. L \in Nat \ {0} /\ Len(front) = L - 1 /\ gs[L] = g /\ \A i \in 1..(L - 1) : gs[i] = front[i]
        BY <2>1
    <2> DEFINE h == [n |-> g.n, of |-> Append(g.of, p)]
    <2>3. Place(gs, p, level) = [gs EXCEPT ![L].of = Append(@, p)]
        BY <1>3, Zenon DEF Place, last
    <2>4. g = [n |-> g.n, of |-> g.of] /\ g.n \in Nat /\ g.of \in Seq(Paragraph)
        BY DEF Group
    <2>5. Append(g.of, p) \in Seq(Paragraph)
        BY <2>4, AppendProperties
    <2>6. h \in Group
        BY <2>4, <2>5 DEF Group
    <2>7. [g EXCEPT !.of = Append(g.of, p)] = h
        <3> DEFINE q == Append(g.of, p)
        <3>1. DOMAIN g = {"n", "of"}
            BY <2>4
        <3> HIDE DEF q
        <3>2. [g EXCEPT !.of = q] = [n |-> g.n, of |-> q]
            BY <3>1
        <3> QED BY <3>2 DEF q, h
    <2> DEFINE ks == [gs EXCEPT ![L] = [g EXCEPT !.of = Append(g.of, p)]]
    <2>8. Place(gs, p, level) = ks
        BY <2>2, <2>3
    <2>9. ks = [gs EXCEPT ![L] = h]
        BY <2>7
    <2> HIDE DEF h, ks
    <2>10. ks = Append(front, h)
        <3>1. DOMAIN gs = 1..L /\ L \in 1..L
            BY <2>2
        <3>2. ks \in Seq(Group) /\ Len(ks) = L
            BY <2>6, <2>9, <3>1, ExceptSeq
        <3>3. Append(front, h) \in Seq(Group) /\ Len(Append(front, h)) = L
            BY <2>2, <2>6, AppendProperties
        <3>4. \A i \in 1..L : ks[i] = Append(front, h)[i]
            BY <2>2, <2>6, <2>9, <3>1
        <3> QED BY <3>2, <3>3, <3>4, SeqEqual
    <2>11. \E f \in Seq(Group), k \in Group :
             gs = Append(f, k) /\ Place(gs, p, level) = Append(f, [n |-> k.n, of |-> Append(k.of, p)])
        BY <2>1, <2>8, <2>10 DEF h
    <2> QED BY <1>0, <1>3, <2>11
<1> QED BY <1>1, <1>2, <1>3

\* What comes before the first marker has none of them; a group begins with
\* its own.
Headed(g, level) ==
    IF g.n = 0 THEN \A m \in DOMAIN g.of : ~Opens(g.of[m], level, 0)
    ELSE g.of # <<>> /\ Opens(g.of[1], level, g.n - 1)

SplitInv(gs, ps, level) ==
    /\ gs \in Seq(Group) /\ Text(gs) = ps /\ (gs = <<>> <=> ps = <<>>)
    /\ \A i \in 1..Len(gs) : gs[i].n = gs[1].n + i - 1 /\ Headed(gs[i], level)
    /\ gs # <<>> => gs[1].n \in {0, 1}

LEMMA PieceSeq == Seq(Group) \subseteq Seq(Piece) /\ Seq(Chunk) \subseteq Seq(Piece)
BY SeqMonotonic DEF Piece

LEMMA OpensGroup ==
    ASSUME NEW gs, NEW ps \in Seq(Paragraph), NEW level, NEW p \in Paragraph, SplitInv(gs, ps, level),
           Opens(p, level, LastOf(gs))
    PROVE  SplitInv(Append(gs, [n |-> p.n, of |-> <<p>>]), Append(ps, p), level)
<1> DEFINE g  == [n |-> p.n, of |-> <<p>>]
           hs == Append(gs, g)
           L  == Len(gs)
<1>1. gs \in Seq(Group) /\ Text(gs) = ps /\ L \in Nat
    BY DEF SplitInv
<1>2. p.n \in Nat
    BY DEF Paragraph
<1>3. g \in Group /\ g \in Piece /\ gs \in Seq(Piece)
    <2>1. <<p>> \in Seq(Paragraph)
        OBVIOUS
    <2>2. g \in Group
        BY <1>2, <2>1 DEF Group
    <2>3. gs \in Seq(Piece)
        BY <1>1, PieceSeq
    <2> QED BY <2>2, <2>3 DEF Piece
<1>4. Text(hs) = ps \o <<p>>
    BY <1>1, <1>3, TextAppend
<1>5. Text(hs) = Append(ps, p) /\ Append(ps, p) # <<>>
    BY <1>4, AppendIsConcat, AppendProperties
<1>6. p.n = LastOf(gs) + 1 /\ Headed(g, level)
    BY <1>2 DEF Opens, Headed
<1> HIDE DEF g
<1>7. /\ hs \in Seq(Group) /\ hs # <<>> /\ Len(hs) = L + 1 /\ hs[L + 1] = g
      /\ \A i \in 1..L : hs[i] = gs[i]
    BY <1>1, <1>3, AppendProperties
<1>8. g.n = p.n
    BY DEF g
<1> HIDE DEF hs
<1>9. CASE gs = <<>>
    <2>1. L = 0 /\ hs[1].n = 1 /\ Len(hs) = 1 /\ hs[1] = g
        BY <1>6, <1>7, <1>8, <1>9 DEF LastOf
    <2> QED BY <1>5, <1>6, <1>7, <2>1 DEF SplitInv, hs, g
<1>10. CASE gs # <<>>
    <2>1. L >= 1 /\ hs[1] = gs[1] /\ gs[1].n \in {0, 1}
        BY <1>1, <1>7, <1>10 DEF SplitInv
    <2>2. gs[L].n = gs[1].n + L - 1 /\ LastOf(gs) = gs[L].n
        BY <1>1, <1>10, <2>1 DEF SplitInv, LastOf
    <2>3. hs[L + 1].n = hs[1].n + (L + 1) - 1
        BY <1>1, <1>6, <1>7, <1>8, <2>1, <2>2
    <2>4. \A i \in 1..L : hs[i].n = hs[1].n + i - 1 /\ Headed(hs[i], level)
        BY <1>7, <2>1 DEF SplitInv
    <2>5. \A i \in 1..(L + 1) : hs[i].n = hs[1].n + i - 1 /\ Headed(hs[i], level)
        BY <1>1, <1>6, <1>7, <2>3, <2>4
    <2> QED BY <1>5, <1>7, <2>1, <2>5 DEF SplitInv, hs, g
<1> QED BY <1>9, <1>10

LEMMA AppendParagraph ==
    ASSUME NEW s \in Seq(Paragraph), NEW p \in Paragraph
    PROVE  /\ Append(s, p) \in Seq(Paragraph) /\ Append(s, p) # <<>>
           /\ Len(s) \in Nat /\ Len(Append(s, p)) = Len(s) + 1
           /\ DOMAIN s = 1..Len(s) /\ DOMAIN Append(s, p) = 1..(Len(s) + 1)
           /\ Append(s, p)[Len(s) + 1] = p
           /\ \A i \in 1..Len(s) : Append(s, p)[i] = s[i]
OBVIOUS

LEMMA LeadsGroup ==
    ASSUME NEW level, NEW p \in Paragraph, ~Opens(p, level, 0)
    PROVE  SplitInv(Append(<<>>, [n |-> 0, of |-> <<p>>]), Append(<<>>, p), level)
<1> DEFINE g == [n |-> 0, of |-> <<p>>]
<1>1. <<p>> \in Seq(Paragraph) /\ <<>> \in Seq(Group) /\ <<>> \in Seq(Piece)
    BY EmptySeq
<1>2. g \in Group /\ g \in Piece
    BY <1>1 DEF Group, Piece
<1>3. Text(Append(<<>>, g)) = Append(<<>>, p)
    <2>1. Text(Append(<<>>, g)) = <<>> \o <<p>>
        BY <1>1, <1>2, TextAppend, TextEmpty
    <2> QED BY <2>1
<1>4. Headed(g, level)
    BY DEF Headed
<1>5. g.n = 0
    OBVIOUS
<1> HIDE DEF g
<1>6. /\ Append(<<>>, g) \in Seq(Group) /\ Len(Append(<<>>, g)) = 1 /\ Append(<<>>, g)[1] = g
      /\ Append(<<>>, g) # <<>> /\ Append(<<>>, p) # <<>>
    BY <1>1, <1>2, AppendProperties
<1> QED BY <1>3, <1>4, <1>5, <1>6 DEF SplitInv, g

LEMMA JoinsGroup ==
    ASSUME NEW front \in Seq(Group), NEW g \in Group, NEW ps \in Seq(Paragraph), NEW level,
           NEW p \in Paragraph, SplitInv(Append(front, g), ps, level), ~Opens(p, level, g.n)
    PROVE  SplitInv(Append(front, [n |-> g.n, of |-> Append(g.of, p)]), Append(ps, p), level)
<1> DEFINE h  == [n |-> g.n, of |-> Append(g.of, p)]
           gs == Append(front, g)
           hs == Append(front, h)
           L  == Len(front)
<1>1. g.n \in Nat /\ g.of \in Seq(Paragraph) /\ g \in Piece
    BY DEF Group, Piece
<1>2. Append(g.of, p) \in Seq(Paragraph)
    BY <1>1, AppendProperties
<1>3. h \in Group /\ h \in Piece
    <2>1. h \in Group
        BY <1>1, <1>2 DEF Group
    <2> QED BY <2>1 DEF Piece
<1>4. h.n = g.n /\ h.of = Append(g.of, p)
    OBVIOUS
<1> HIDE DEF h
<1>5. front \in Seq(Piece) /\ L \in Nat
    BY PieceSeq
<1>6. Text(front) \in Seq(Paragraph)
    BY <1>5, TextType
<1>7. Text(hs) = Append(ps, p)
    <2>1. Text(gs) = Text(front) \o g.of /\ Text(hs) = Text(front) \o Append(g.of, p)
        BY <1>1, <1>3, <1>4, <1>5, TextAppend
    <2>2. Text(gs) = ps
        BY DEF SplitInv
    <2>3. Text(front) \o Append(g.of, p) = Append(Text(front) \o g.of, p)
        BY <1>1, <1>6
    <2> QED BY <2>1, <2>2, <2>3
<1>8. /\ gs \in Seq(Group) /\ Len(gs) = L + 1 /\ gs[L + 1] = g /\ gs # <<>>
      /\ \A i \in 1..L : gs[i] = front[i]
    BY <1>5, AppendProperties
<1>9. /\ hs \in Seq(Group) /\ Len(hs) = L + 1 /\ hs[L + 1] = h /\ hs # <<>>
      /\ \A i \in 1..L : hs[i] = front[i]
    BY <1>3, <1>5, AppendProperties
<1>10. /\ \A i \in 1..(L + 1) : gs[i].n = gs[1].n + i - 1 /\ Headed(gs[i], level)
       /\ gs[1].n \in {0, 1}
    BY <1>8 DEF SplitInv
<1> HIDE DEF gs, hs
<1>11. Headed(h, level)
    <2>1. Headed(g, level)
        BY <1>5, <1>8, <1>10
    <2>2. /\ Len(h.of) = Len(g.of) + 1 /\ h.of[Len(g.of) + 1] = p /\ Len(g.of) \in Nat
          /\ \A m \in 1..Len(g.of) : h.of[m] = g.of[m]
          /\ DOMAIN h.of = 1..(Len(g.of) + 1) /\ DOMAIN g.of = 1..Len(g.of) /\ h.of # <<>>
        BY <1>1, <1>4, AppendParagraph
    <2>3. CASE g.n = 0
        <3>1. \A m \in 1..Len(g.of) : ~Opens(h.of[m], level, 0)
            BY <2>1, <2>2, <2>3 DEF Headed
        <3>2. \A m \in DOMAIN h.of : ~Opens(h.of[m], level, 0)
            BY <2>2, <2>3, <3>1
        <3> QED BY <1>4, <2>3, <3>2 DEF Headed
    <2>4. CASE g.n # 0
        <3>1. g.of # <<>> /\ Opens(g.of[1], level, g.n - 1)
            BY <2>1, <2>4 DEF Headed
        <3>2. h.of[1] = g.of[1]
            BY <1>1, <2>2, <3>1
        <3> QED BY <1>4, <2>2, <2>4, <3>1, <3>2 DEF Headed
    <2> QED BY <2>3, <2>4
<1>12. \A i \in 1..(L + 1) : hs[i].n = gs[i].n /\ Headed(hs[i], level)
    <2>1. \A i \in 1..L : hs[i] = gs[i]
        BY <1>8, <1>9
    <2>2. \A i \in 1..L : hs[i].n = gs[i].n /\ Headed(hs[i], level)
        BY <1>5, <1>10, <2>1
    <2>3. hs[L + 1].n = gs[L + 1].n /\ Headed(hs[L + 1], level)
        BY <1>4, <1>8, <1>9, <1>11
    <2> QED BY <1>5, <2>2, <2>3
<1>13. \A i \in 1..Len(hs) : hs[i].n = hs[1].n + i - 1 /\ Headed(hs[i], level)
    BY <1>5, <1>9, <1>10, <1>12
<1>14. hs[1].n \in {0, 1}
    BY <1>5, <1>10, <1>12
<1>15. Append(ps, p) # <<>>
    BY AppendProperties
<1> QED BY <1>7, <1>9, <1>13, <1>14, <1>15 DEF SplitInv, hs, h

LEMMA SplitFacts ==
    ASSUME NEW ps \in Seq(Paragraph), NEW level
    PROVE  SplitInv(SplitSequential(ps, level), ps, level)
<1> DEFINE T == {s \in Seq(Paragraph) : SplitInv(SplitSequential(s, level), s, level)}
<1>1. <<>> \in T
    <2>1. <<>> \in Seq(Group) /\ Len(<<>>) = 0 /\ <<>> \in Seq(Paragraph)
        BY EmptySeq
    <2>2. SplitInv(<<>>, <<>>, level)
        BY <2>1, TextEmpty DEF SplitInv
    <2> QED BY <2>1, <2>2, SplitEmpty
<1>2. ASSUME NEW s \in Seq(Paragraph), NEW p \in Paragraph, s \in T PROVE Append(s, p) \in T
    <2> DEFINE gs == SplitSequential(s, level)
               hs == SplitSequential(Append(s, p), level)
    <2>1. SplitInv(gs, s, level)
        BY <1>2
    <2>2. gs \in Seq(Group) /\ (gs = <<>> <=> s = <<>>)
        BY <2>1 DEF SplitInv
    <2>3. hs = Place(gs, p, level)
        BY SplitAppend
    <2> SUFFICES SplitInv(hs, Append(s, p), level)
        BY AppendParagraph
    <2> HIDE DEF gs, hs
    <2>4. CASE Opens(p, level, LastOf(gs)) /\ hs = Append(gs, [n |-> p.n, of |-> <<p>>])
        BY <2>1, <2>4, OpensGroup
    <2>5. CASE ~Opens(p, level, 0) /\ gs = <<>> /\ hs = Append(<<>>, [n |-> 0, of |-> <<p>>])
        BY <2>2, <2>5, LeadsGroup
    <2>6. CASE /\ ~Opens(p, level, LastOf(gs)) /\ gs # <<>>
               /\ \E front \in Seq(Group), g \in Group :
                    /\ gs = Append(front, g)
                    /\ hs = Append(front, [n |-> g.n, of |-> Append(g.of, p)])
        <3>1. PICK front \in Seq(Group), g \in Group :
                    /\ gs = Append(front, g)
                    /\ hs = Append(front, [n |-> g.n, of |-> Append(g.of, p)])
            BY <2>6
        <3>2. LastOf(gs) = g.n
            BY <2>6, <3>1, AppendProperties DEF LastOf
        <3>3. SplitInv(Append(front, g), s, level) /\ ~Opens(p, level, g.n)
            <4>1. ~Opens(p, level, LastOf(gs))
                BY <2>6
            <4>2. SplitInv(Append(front, g), s, level)
                BY <2>1, <3>1
            <4> QED BY <3>2, <4>1, <4>2
        <3>4. SplitInv(Append(front, [n |-> g.n, of |-> Append(g.of, p)]), Append(s, p), level)
            BY <3>3, JoinsGroup
        <3> QED BY <3>1, <3>4
    <2>7. Placed(gs, hs, p, level)
        BY <2>2, <2>3, PlaceFacts
    <2> QED BY <2>4, <2>5, <2>6, <2>7, Zenon DEF Placed
<1>3. Seq(Paragraph) \subseteq T
    <2> HIDE DEF T
    <2> QED BY <1>1, <1>2, SequencesInduction
<1> QED BY <1>3

-----------------------------------------------------------------------------
(* One chunk is cut                                                        *)

LEMMA LabelAppend ==
    ASSUME NEW s \in Labels, NEW t \in Labels, NEW e \in Marker, NEW f \in Marker
    PROVE  /\ Append(s, e) \in Labels /\ Append(s, e) # s
           /\ Append(s, e) = Append(t, f) => s = t /\ e = f
<1>1. Append(s, e) \in Labels /\ Len(Append(s, e)) = Len(s) + 1 /\ Len(s) \in Nat
    BY AppendProperties DEF Labels
<1>2. ASSUME Append(s, e) = Append(t, f) PROVE s = t /\ e = f
    <2>1. /\ Len(s) \in Nat /\ Len(Append(s, e)) = Len(s) + 1 /\ e = Append(s, e)[Len(s) + 1]
          /\ \A i \in 1..Len(s) : s[i] = Append(s, e)[i]
        BY DEF Labels
    <2>2. /\ Len(t) \in Nat /\ Len(Append(t, f)) = Len(t) + 1 /\ f = Append(t, f)[Len(t) + 1]
          /\ \A i \in 1..Len(t) : t[i] = Append(t, f)[i]
        BY DEF Labels
    <2>3. Len(t) = Len(s) /\ e = f /\ \A i \in 1..Len(s) : s[i] = t[i]
        BY <1>2, <2>1, <2>2
    <2>4. s = t
        <3>1. s \in Seq(Marker) /\ t \in Seq(Marker)
            BY DEF Labels
        <3> QED BY <2>3, <3>1, SeqEqual
    <2> QED BY <2>3, <2>4
<1> QED BY <1>1, <1>2

PartOf(c, level, g) ==
    [label |-> IF g.n = 0 THEN c.label ELSE Append(c.label, <<level, g.n>>), of |-> g.of]

Parts(c, level, gs) == [i \in DOMAIN gs |-> PartOf(c, level, gs[i])]

\* A label is its chunk's, or goes one marker further.
ChildOf(d, c, level) ==
    d.label = c.label \/ \E n \in Nat : d.label = Append(c.label, <<level, n>>)

Distinct(cs) == \A i, j \in DOMAIN cs : cs[i].label = cs[j].label => i = j

\* Only what the level's markers do not divide is left too large.
Divided(c, level) ==
    TooLarge(c.of) => c.of = <<>> \/ \E g \in Group : Headed(g, level) /\ g.of = c.of

CutInv(ds, c, level) ==
    /\ ds \in Seq(Chunk) /\ Text(ds) = c.of /\ Distinct(ds)
    /\ \A i \in DOMAIN ds : ChildOf(ds[i], c, level) /\ Divided(ds[i], level)

LEMMA PartFacts ==
    ASSUME NEW c \in Chunk, NEW level \in Nat, NEW g \in Group
    PROVE  /\ PartOf(c, level, g) \in Chunk /\ PartOf(c, level, g).of = g.of
           /\ ChildOf(PartOf(c, level, g), c, level)
<1>1. c.label \in Labels /\ g.n \in Nat /\ g.of \in Seq(Paragraph)
    BY DEF Chunk, Group, Labels
<1>2. <<level, g.n>> \in Marker
    BY <1>1 DEF Marker
<1>3. Append(c.label, <<level, g.n>>) \in Labels
    BY <1>1, <1>2, LabelAppend
<1> QED BY <1>1, <1>3 DEF PartOf, ChildOf, Chunk, Labels

LEMMA PartsText ==
    ASSUME NEW c \in Chunk, NEW level \in Nat, NEW gs \in Seq(Group)
    PROVE  /\ Parts(c, level, gs) \in Seq(Chunk) /\ DOMAIN Parts(c, level, gs) = DOMAIN gs
           /\ Text(Parts(c, level, gs)) = Text(gs)
<1>1. DOMAIN gs = 1..Len(gs) /\ Len(gs) \in Nat /\ \A i \in 1..Len(gs) : gs[i] \in Group
    OBVIOUS
<1>2. \A i \in 1..Len(gs) : PartOf(c, level, gs[i]) \in Chunk /\ PartOf(c, level, gs[i]).of = gs[i].of
    BY <1>1, PartFacts
<1>3. Parts(c, level, gs) \in Seq(Chunk)
    BY <1>1, <1>2 DEF Parts
<1>4. DOMAIN Parts(c, level, gs) = DOMAIN gs
    BY DEF Parts
<1>5. Ofs(Parts(c, level, gs)) = Ofs(gs)
    BY <1>1, <1>2, <1>4 DEF Ofs, Parts
<1>6. Text(Parts(c, level, gs)) = Text(gs)
    BY <1>5 DEF Text, Ofs
<1> QED BY <1>3, <1>4, <1>6

LEMMA PartsDistinct ==
    ASSUME NEW c \in Chunk, NEW level \in Nat, NEW gs, NEW ps, SplitInv(gs, ps, level)
    PROVE  Distinct(Parts(c, level, gs))
<1>1. /\ gs \in Seq(Group) /\ DOMAIN gs = 1..Len(gs) /\ Len(gs) \in Nat
      /\ \A i \in 1..Len(gs) : gs[i].n = gs[1].n + i - 1 /\ gs[i].n \in Nat
    BY DEF SplitInv, Group
<1>2. c.label \in Labels
    BY DEF Chunk, Labels
<1>3. DOMAIN Parts(c, level, gs) = DOMAIN gs
    BY DEF Parts
<1> SUFFICES ASSUME NEW i \in DOMAIN gs, NEW j \in DOMAIN gs,
                    PartOf(c, level, gs[i]).label = PartOf(c, level, gs[j]).label
             PROVE  i = j
    BY <1>3 DEF Distinct, Parts
<1>4. gs[i].n \in Nat /\ gs[j].n \in Nat /\ gs[1].n \in Nat /\ i \in Nat /\ j \in Nat
    BY <1>1
<1>5. <<level, gs[i].n>> \in Marker /\ <<level, gs[j].n>> \in Marker
    BY <1>4 DEF Marker
<1>6. /\ Append(c.label, <<level, gs[i].n>>) # c.label /\ Append(c.label, <<level, gs[j].n>>) # c.label
      /\ Append(c.label, <<level, gs[i].n>>) = Append(c.label, <<level, gs[j].n>>)
            => <<level, gs[i].n>> = <<level, gs[j].n>>
    BY <1>2, <1>5, LabelAppend
<1>7. gs[i].n = gs[j].n
    BY <1>4, <1>6 DEF PartOf
<1> QED BY <1>1, <1>4, <1>7

LEMMA TextOne == \A c \in Chunk : Text(<<c>>) = c.of
<1> SUFFICES ASSUME NEW c \in Chunk PROVE Text(<<c>>) = c.of
    OBVIOUS
<1>1. <<>> \in Seq(Piece) /\ c \in Piece /\ c.of \in Seq(Paragraph)
    BY PieceOf, EmptySeq DEF Piece
<1>2. Text(Append(<<>>, c)) = <<>> \o c.of
    BY <1>1, TextAppend, TextEmpty
<1>3. Append(<<>>, c) = <<c>> /\ <<>> \o c.of = c.of
    BY <1>1
<1> QED BY <1>2, <1>3

LEMMA PartsDivided ==
    ASSUME NEW c \in Chunk, NEW level \in Nat, NEW gs, NEW ps, SplitInv(gs, ps, level)
    PROVE  CutInv(Parts(c, level, gs), [c EXCEPT !.of = ps], level)
<1>1. /\ gs \in Seq(Group) /\ Text(gs) = ps /\ DOMAIN gs = 1..Len(gs)
      /\ \A i \in 1..Len(gs) : gs[i] \in Group /\ Headed(gs[i], level)
    BY DEF SplitInv
<1> DEFINE ds == Parts(c, level, gs)
           b  == [c EXCEPT !.of = ps]
<1>2. b.of = ps /\ b.label = c.label
    BY DEF Chunk
<1>3. ds \in Seq(Chunk) /\ DOMAIN ds = DOMAIN gs /\ Text(ds) = ps
    BY <1>1, PartsText
<1>4. Distinct(ds)
    BY PartsDistinct
<1>5. ASSUME NEW i \in DOMAIN gs PROVE ChildOf(ds[i], b, level) /\ Divided(ds[i], level)
    <2>1. ds[i] = PartOf(c, level, gs[i])
        BY DEF Parts
    <2>2. gs[i] \in Group /\ Headed(gs[i], level)
        BY <1>1
    <2>3. ChildOf(ds[i], c, level) /\ ds[i].of = gs[i].of
        BY <2>1, <2>2, PartFacts
    <2> HIDE DEF ds, b
    <2> QED BY <1>2, <2>2, <2>3 DEF ChildOf, Divided
<1> HIDE DEF ds, b
<1> QED BY <1>2, <1>3, <1>4, <1>5 DEF CutInv, ds, b

LEMMA OneGroup ==
    ASSUME NEW gs \in Seq(Group), gs # <<>>, Len(gs) <= 1
    PROVE  1 \in 1..Len(gs) /\ gs[1] \in Group /\ gs[1].of = Text(gs)
<1>1. PICK front \in Seq(Group), g \in Group : gs = Append(front, g)
    BY SequenceEmptyOrAppend
<1>2. Len(front) \in Nat /\ Len(gs) = Len(front) + 1 /\ gs[Len(front) + 1] = g
    BY <1>1
<1>3. Len(front) = 0 /\ Len(gs) = 1 /\ gs[1] = g
    BY <1>2
<1>4. front = <<>>
    BY <1>3
<1>5. <<>> \in Seq(Piece) /\ g \in Piece /\ g.of \in Seq(Paragraph)
    BY PieceOf, EmptySeq DEF Piece
<1>6. Text(gs) = <<>> \o g.of
    BY <1>1, <1>4, <1>5, TextAppend, TextEmpty
<1>7. <<>> \o g.of = g.of
    BY <1>5
<1> QED BY <1>3, <1>6, <1>7

LEMMA CutFacts ==
    ASSUME NEW c \in Chunk, NEW level \in Nat
    PROVE  CutInv(Cut(c, level), c, level)
<1> DEFINE gs == SplitSequential(c.of, level)
<1>1. c.of \in Seq(Paragraph)
    BY DEF Chunk
<1>2. SplitInv(gs, c.of, level)
    BY <1>1, SplitFacts
<1>3. Cut(c, level) = IF ~TooLarge(c.of) \/ Len(gs) <= 1 THEN <<c>> ELSE Parts(c, level, gs)
    BY DEF Cut, Parts, PartOf
<1> HIDE DEF gs
<1>4. CASE ~TooLarge(c.of) \/ Len(gs) <= 1
    <2>1. Cut(c, level) = <<c>> /\ <<c>> \in Seq(Chunk) /\ DOMAIN <<c>> = {1} /\ <<c>>[1] = c
        BY <1>3, <1>4
    <2>2. Divided(c, level)
        <3> SUFFICES ASSUME TooLarge(c.of), c.of # <<>>
                     PROVE  \E g \in Group : Headed(g, level) /\ g.of = c.of
            BY DEF Divided
        <3>1. /\ gs \in Seq(Group) /\ gs # <<>> /\ Text(gs) = c.of
              /\ \A i \in 1..Len(gs) : Headed(gs[i], level)
            BY <1>2 DEF SplitInv
        <3>2. Len(gs) <= 1
            BY <1>4, Zenon
        <3>3. 1 \in 1..Len(gs) /\ gs[1] \in Group /\ gs[1].of = Text(gs)
            BY <3>1, <3>2, OneGroup
        <3> QED BY <3>1, <3>3
    <2>3. ChildOf(c, c, level) /\ Distinct(<<c>>) /\ Text(<<c>>) = c.of
        BY <2>1, TextOne DEF ChildOf, Distinct
    <2> QED BY <2>1, <2>2, <2>3 DEF CutInv
<1>5. CASE ~(~TooLarge(c.of) \/ Len(gs) <= 1)
    <2>1. CutInv(Parts(c, level, gs), [c EXCEPT !.of = c.of], level)
        BY <1>2, PartsDivided
    <2>2. [c EXCEPT !.of = c.of] = c
        BY DEF Chunk
    <2> QED BY <1>3, <1>5, <2>1, <2>2
<1> QED BY <1>4, <1>5

-----------------------------------------------------------------------------
(* A level of every chunk                                                  *)

LEMMA AppendChunk ==
    ASSUME NEW s \in Seq(Chunk), NEW c \in Chunk
    PROVE  /\ Append(s, c) \in Seq(Chunk) /\ Len(s) \in Nat
           /\ DOMAIN s = 1..Len(s) /\ DOMAIN Append(s, c) = 1..(Len(s) + 1)
           /\ Len(Append(s, c)) = Len(s) + 1 /\ Append(s, c)[Len(s) + 1] = c
           /\ \A i \in 1..Len(s) : s[i] \in Chunk /\ Append(s, c)[i] = s[i]
OBVIOUS

LEMMA ConcatChunks ==
    ASSUME NEW s \in Seq(Chunk), NEW t \in Seq(Chunk)
    PROVE  /\ s \o t \in Seq(Chunk) /\ Len(s) \in Nat
           /\ \A i \in DOMAIN (s \o t) :
                 \/ i \in DOMAIN s /\ (s \o t)[i] = s[i]
                 \/ i \in Int /\ i - Len(s) \in DOMAIN t /\ (s \o t)[i] = t[i - Len(s)]
<1>1. /\ s \o t \in Seq(Chunk) /\ Len(s \o t) = Len(s) + Len(t) /\ Len(s) \in Nat /\ Len(t) \in Nat
      /\ DOMAIN s = 1..Len(s) /\ DOMAIN t = 1..Len(t) /\ DOMAIN (s \o t) = 1..(Len(s) + Len(t))
      /\ \A i \in 1..(Len(s) + Len(t)) : (s \o t)[i] = IF i <= Len(s) THEN s[i] ELSE t[i - Len(s)]
    BY ConcatProperties
<1>2. ASSUME NEW i \in 1..(Len(s) + Len(t))
      PROVE  \/ i \in 1..Len(s) /\ (s \o t)[i] = s[i]
             \/ i \in Int /\ i - Len(s) \in 1..Len(t) /\ (s \o t)[i] = t[i - Len(s)]
    <2>1. CASE i <= Len(s)
        BY <1>1, <2>1
    <2>2. CASE ~(i <= Len(s))
        <3>1. i - Len(s) \in 1..Len(t)
            BY <1>1, <2>2
        <3> QED BY <1>1, <2>2, <3>1
    <2> QED BY <2>1, <2>2
<1> QED BY <1>1, <1>2

Cuts(cs, level) == [i \in DOMAIN cs |-> Cut(cs[i], level)]

LEMMA CutsType ==
    ASSUME NEW cs \in Seq(Chunk), NEW level \in Nat
    PROVE  Cuts(cs, level) \in Seq(Seq(Chunk)) /\ Len(Cuts(cs, level)) = Len(cs)
<1>1. DOMAIN cs = 1..Len(cs) /\ Len(cs) \in Nat /\ \A i \in 1..Len(cs) : cs[i] \in Chunk
    OBVIOUS
<1>2. \A i \in 1..Len(cs) : Cut(cs[i], level) \in Seq(Chunk)
    BY <1>1, CutFacts DEF CutInv
<1> QED BY <1>1, <1>2 DEF Cuts

LEMMA CutAllEmpty == \A level : CutAll(<<>>, level) = <<>>
<1> SUFFICES ASSUME NEW level PROVE CutAll(<<>>, level) = <<>>
    OBVIOUS
<1>1. [i \in DOMAIN <<>> |-> Cut(<<>>[i], level)] = <<>>
    OBVIOUS
<1> QED BY <1>1, FlattenEmpty DEF CutAll

LEMMA CutAllAppend ==
    ASSUME NEW cs \in Seq(Chunk), NEW c \in Chunk, NEW level \in Nat
    PROVE  CutAll(Append(cs, c), level) = CutAll(cs, level) \o Cut(c, level)
<1> DEFINE ds == Append(cs, c)
<1>1. /\ ds \in Seq(Chunk) /\ Len(ds) = Len(cs) + 1 /\ ds[Len(cs) + 1] = c /\ Len(cs) \in Nat
      /\ DOMAIN ds = 1..(Len(cs) + 1) /\ DOMAIN cs = 1..Len(cs)
      /\ \A i \in 1..Len(cs) : ds[i] = cs[i]
    BY AppendChunk
<1> HIDE DEF ds
<1>2. /\ Cuts(ds, level) \in Seq(Seq(Chunk)) /\ Len(Cuts(ds, level)) = Len(cs) + 1
      /\ Cuts(cs, level) \in Seq(Seq(Chunk)) /\ Len(Cuts(cs, level)) = Len(cs)
    BY <1>1, CutsType
<1>3. Cut(c, level) \in Seq(Chunk)
    BY CutFacts DEF CutInv
<1>4. \A i \in 1..(Len(cs) + 1) : Cuts(ds, level)[i] = Append(Cuts(cs, level), Cut(c, level))[i]
    BY <1>1, <1>2, <1>3 DEF Cuts
<1>5. /\ Append(Cuts(cs, level), Cut(c, level)) \in Seq(Seq(Chunk))
      /\ Len(Append(Cuts(cs, level), Cut(c, level))) = Len(cs) + 1
    BY <1>2, <1>3, AppendProperties
<1>6. Cuts(ds, level) = Append(Cuts(cs, level), Cut(c, level))
    BY <1>2, <1>4, <1>5, SeqEqual
<1>7. FlattenSeq(Cuts(ds, level)) = FlattenSeq(Cuts(cs, level)) \o Cut(c, level)
    BY <1>2, <1>3, <1>6, FlattenAppend
<1> QED BY <1>7 DEF Cuts, CutAll, ds

\* Each marker of a label is of a level before this one.
Below(label, level) == \A k \in DOMAIN label : label[k][1] < level

LEMMA ChildBelow ==
    ASSUME NEW s \in Labels, NEW level \in Nat, NEW n \in Nat, Below(s, level)
    PROVE  Below(s, level + 1) /\ Below(Append(s, <<level, n>>), level + 1)
<1>1. /\ DOMAIN s = 1..Len(s) /\ Len(s) \in Nat /\ \A k \in 1..Len(s) : s[k] \in Nat \X Nat
      /\ DOMAIN Append(s, <<level, n>>) = 1..(Len(s) + 1)
      /\ \A k \in 1..Len(s) : Append(s, <<level, n>>)[k] = s[k]
      /\ Append(s, <<level, n>>)[Len(s) + 1] = <<level, n>>
    BY DEF Labels, Marker
<1>2. \A k \in 1..Len(s) : s[k][1] \in Nat /\ s[k][1] < level
    BY <1>1 DEF Below
<1>3. \A k \in 1..Len(s) : s[k][1] < level + 1
    BY <1>2
<1>4. \A k \in 1..(Len(s) + 1) : Append(s, <<level, n>>)[k][1] < level + 1
    <2> SUFFICES ASSUME NEW k \in 1..(Len(s) + 1)
                 PROVE  Append(s, <<level, n>>)[k][1] < level + 1
        OBVIOUS
    <2>1. CASE k \in 1..Len(s)
        BY <1>1, <1>3, <2>1
    <2>2. CASE k = Len(s) + 1
        BY <1>1, <2>2
    <2> QED BY <1>1, <2>1, <2>2
<1> QED BY <1>1, <1>3, <1>4 DEF Below

LEMMA NotBelow ==
    ASSUME NEW s \in Labels, NEW level \in Nat, NEW n \in Nat
    PROVE  ~Below(Append(s, <<level, n>>), level)
<1>1. Len(s) + 1 \in DOMAIN Append(s, <<level, n>>) /\ Append(s, <<level, n>>)[Len(s) + 1] = <<level, n>>
    BY DEF Labels
<1> QED BY <1>1 DEF Below

\* The children of two chunks have no label in common.
LEMMA ChildrenDiffer ==
    ASSUME NEW c \in Chunk, NEW d \in Chunk, NEW e, NEW f, NEW level \in Nat,
           Below(c.label, level), Below(d.label, level), c.label # d.label,
           ChildOf(e, c, level), ChildOf(f, d, level)
    PROVE  e.label # f.label
<1>1. c.label \in Labels /\ d.label \in Labels
    BY DEF Chunk, Labels
<1>2. \A n \in Nat : Append(c.label, <<level, n>>) # d.label /\ Append(d.label, <<level, n>>) # c.label
    BY <1>1, NotBelow
<1>3. ASSUME NEW m \in Nat, NEW n \in Nat
      PROVE  Append(c.label, <<level, m>>) # Append(d.label, <<level, n>>)
    <2> DEFINE a == <<level, m>>
               b == <<level, n>>
    <2>1. a \in Marker /\ b \in Marker
        BY DEF Marker
    <2> HIDE DEF a, b
    <2>2. Append(c.label, a) = Append(d.label, b) => c.label = d.label
        BY <1>1, <2>1, LabelAppend
    <2> QED BY <2>2 DEF a, b
<1> QED BY <1>2, <1>3 DEF ChildOf

LEMMA DistinctConcat ==
    ASSUME NEW s \in Seq(Chunk), NEW t \in Seq(Chunk), Distinct(s), Distinct(t),
           \A i \in DOMAIN s, j \in DOMAIN t : s[i].label # t[j].label
    PROVE  Distinct(s \o t)
<1> SUFFICES ASSUME NEW i \in DOMAIN (s \o t), NEW j \in DOMAIN (s \o t),
                    (s \o t)[i].label = (s \o t)[j].label
             PROVE  i = j
    BY DEF Distinct
<1> DEFINE First(k)  == k \in DOMAIN s /\ (s \o t)[k] = s[k]
           Second(k) == k \in Int /\ k - Len(s) \in DOMAIN t /\ (s \o t)[k] = t[k - Len(s)]
<1>1. (First(i) \/ Second(i)) /\ (First(j) \/ Second(j)) /\ Len(s) \in Nat
    BY ConcatChunks
<1>2. CASE First(i) /\ First(j)
    BY <1>2 DEF Distinct
<1>3. CASE Second(i) /\ Second(j)
    <2>1. i - Len(s) = j - Len(s)
        BY <1>3 DEF Distinct
    <2> QED BY <1>1, <1>3, <2>1
<1>4. CASE (First(i) /\ Second(j)) \/ (First(j) /\ Second(i))
    BY <1>4
<1> QED BY <1>1, <1>2, <1>3, <1>4

AllBelow(cs, level) == \A i \in DOMAIN cs : Below(cs[i].label, level)

AllCut(es, cs, level) ==
    /\ es \in Seq(Chunk) /\ Text(es) = Text(cs)
    /\ \A i \in DOMAIN es : Divided(es[i], level) /\ \E j \in DOMAIN cs : ChildOf(es[i], cs[j], level)
    /\ Distinct(cs) /\ AllBelow(cs, level) => Distinct(es) /\ AllBelow(es, level + 1)

LEMMA AllCutAppend ==
    ASSUME NEW cs \in Seq(Chunk), NEW c \in Chunk, NEW level \in Nat, NEW es, NEW ds,
           AllCut(es, cs, level), CutInv(ds, c, level)
    PROVE  AllCut(es \o ds, Append(cs, c), level)
<1> DEFINE bs == Append(cs, c)
           fs == es \o ds
<1>1. es \in Seq(Chunk) /\ Text(es) = Text(cs) /\ ds \in Seq(Chunk) /\ Text(ds) = c.of
    BY DEF AllCut, CutInv
<1>2. /\ fs \in Seq(Chunk)
      /\ \A i \in DOMAIN fs : \/ i \in DOMAIN es /\ fs[i] = es[i]
                              \/ i \in Int /\ i - Len(es) \in DOMAIN ds /\ fs[i] = ds[i - Len(es)]
    BY <1>1, ConcatChunks
<1>3. /\ DOMAIN cs = 1..Len(cs) /\ DOMAIN bs = 1..(Len(cs) + 1) /\ Len(cs) \in Nat
      /\ bs[Len(cs) + 1] = c /\ bs \in Seq(Chunk)
      /\ \A i \in DOMAIN cs : i \in DOMAIN bs /\ bs[i] = cs[i] /\ cs[i] \in Chunk
    BY AppendChunk
<1>4. Len(cs) + 1 \in DOMAIN bs
    BY <1>3
<1>5. Text(fs) = Text(bs)
    <2>1. cs \in Seq(Piece) /\ es \in Seq(Piece) /\ ds \in Seq(Piece) /\ c \in Piece
        BY <1>1, PieceSeq DEF Piece
    <2>2. Text(fs) = Text(es) \o Text(ds) /\ Text(bs) = Text(cs) \o c.of
        BY <2>1, TextConcat, TextAppend
    <2> QED BY <1>1, <2>2
<1>6. /\ \A i \in DOMAIN es : Divided(es[i], level) /\ \E j \in DOMAIN cs : ChildOf(es[i], cs[j], level)
      /\ \A i \in DOMAIN ds : Divided(ds[i], level) /\ ChildOf(ds[i], c, level)
    BY DEF AllCut, CutInv
<1> HIDE DEF bs, fs
<1>7. ASSUME NEW i \in DOMAIN fs
      PROVE  Divided(fs[i], level) /\ \E j \in DOMAIN bs : ChildOf(fs[i], bs[j], level)
    <2>1. CASE i \in DOMAIN es /\ fs[i] = es[i]
        <3>1. PICK j \in DOMAIN cs : ChildOf(es[i], cs[j], level)
            BY <1>6, <2>1
        <3>2. j \in DOMAIN bs /\ bs[j] = cs[j]
            BY <1>3
        <3>3. ChildOf(fs[i], bs[j], level)
            BY <2>1, <3>1, <3>2
        <3>4. Divided(fs[i], level)
            BY <1>6, <2>1
        <3> QED BY <3>2, <3>3, <3>4
    <2>2. CASE i \in Int /\ i - Len(es) \in DOMAIN ds /\ fs[i] = ds[i - Len(es)]
        <3>1. Divided(fs[i], level) /\ ChildOf(fs[i], bs[Len(cs) + 1], level)
            BY <1>3, <1>6, <2>2
        <3> QED BY <1>4, <3>1
    <2> QED BY <1>2, <2>1, <2>2
<1>8. ASSUME Distinct(bs), AllBelow(bs, level)
      PROVE  Distinct(fs) /\ AllBelow(fs, level + 1)
    <2>1. Distinct(cs) /\ AllBelow(cs, level) /\ Below(c.label, level)
        <3>1. Distinct(cs)
            BY <1>3, <1>8 DEF Distinct
        <3>2. AllBelow(cs, level) /\ Below(c.label, level)
            BY <1>3, <1>4, <1>8 DEF AllBelow
        <3> QED BY <3>1, <3>2
    <2>2. Distinct(es) /\ AllBelow(es, level + 1) /\ Distinct(ds)
        BY <2>1 DEF AllCut, CutInv
    <2>3. ASSUME NEW i \in DOMAIN es, NEW j \in DOMAIN ds PROVE es[i].label # ds[j].label
        <3>1. PICK k \in DOMAIN cs : ChildOf(es[i], cs[k], level)
            BY <1>6
        <3>2. ChildOf(ds[j], c, level)
            BY <1>6
        <3>3. cs[k] \in Chunk /\ Below(cs[k].label, level)
            BY <1>3, <2>1 DEF AllBelow
        <3>4. cs[k].label # c.label
            <4>1. k # Len(cs) + 1 /\ k \in DOMAIN bs /\ bs[k] = cs[k]
                BY <1>3
            <4> QED BY <1>3, <1>4, <1>8, <4>1 DEF Distinct
        <3> QED BY <2>1, <3>1, <3>2, <3>3, <3>4, ChildrenDiffer
    <2>4. Distinct(fs)
        BY <1>1, <2>2, <2>3, DistinctConcat DEF fs
    <2>5. \A i \in DOMAIN ds : Below(ds[i].label, level + 1)
        <3>1. c.label \in Labels
            BY DEF Chunk, Labels
        <3> QED BY <1>6, <2>1, <3>1, ChildBelow DEF ChildOf
    <2>6. AllBelow(fs, level + 1)
        BY <1>2, <2>2, <2>5 DEF AllBelow
    <2> QED BY <2>4, <2>6
<1> QED BY <1>2, <1>5, <1>7, <1>8 DEF AllCut, bs, fs

LEMMA CutAllFacts ==
    ASSUME NEW cs \in Seq(Chunk), NEW level \in Nat
    PROVE  AllCut(CutAll(cs, level), cs, level)
<1> DEFINE T == {s \in Seq(Chunk) : AllCut(CutAll(s, level), s, level)}
<1>1. <<>> \in T
    <2>1. <<>> \in Seq(Chunk) /\ DOMAIN <<>> = {}
        BY EmptySeq
    <2>2. AllCut(<<>>, <<>>, level)
        BY <2>1 DEF AllCut, Distinct, AllBelow
    <2> QED BY <2>1, <2>2, CutAllEmpty
<1>2. ASSUME NEW s \in Seq(Chunk), NEW c \in Chunk, s \in T PROVE Append(s, c) \in T
    <2>1. AllCut(CutAll(s, level), s, level) /\ CutInv(Cut(c, level), c, level)
        BY <1>2, CutFacts
    <2>2. AllCut(CutAll(s, level) \o Cut(c, level), Append(s, c), level)
        BY <2>1, AllCutAppend
    <2> QED BY <2>2, CutAllAppend, AppendChunk
<1>3. Seq(Chunk) \subseteq T
    <2> HIDE DEF T
    <2> QED BY <1>1, <1>2, SequencesInduction
<1> QED BY <1>3

LEMMA SectionFacts ==
    ASSUME NEW ps \in Seq(Paragraph)
    PROVE  LET root == <<[label |-> <<>>, of |-> ps]>>
           IN  root \in Seq(Chunk) /\ Text(root) = ps /\ Distinct(root) /\ AllBelow(root, 1)
<1> DEFINE c    == [label |-> <<>>, of |-> ps]
           root == <<c>>
<1>1. <<>> \in Labels
    BY EmptySeq DEF Labels
<1>2. c \in Chunk
    BY <1>1 DEF Chunk
<1>3. c.of = ps /\ c.label = <<>> /\ DOMAIN <<>> = {}
    OBVIOUS
<1> HIDE DEF c
<1>4. root \in Seq(Chunk) /\ DOMAIN root = {1} /\ root[1] = c
    BY <1>2
<1>5. Text(root) = ps
    BY <1>2, <1>3, TextOne
<1>6. Distinct(root)
    BY <1>4 DEF Distinct
<1>7. AllBelow(root, 1)
    BY <1>3, <1>4 DEF AllBelow, Below
<1> QED BY <1>4, <1>5, <1>6, <1>7 DEF c

\* The chunks are the section in order, each with a label of its own.
LEMMA SubdivideFacts ==
    ASSUME NEW ps \in Seq(Paragraph)
    PROVE  /\ Subdivide(ps) \in Seq(Chunk) /\ Text(Subdivide(ps)) = ps /\ Distinct(Subdivide(ps))
           /\ \A i \in DOMAIN Subdivide(ps) : Divided(Subdivide(ps)[i], Levels)
<1> DEFINE root == <<[label |-> <<>>, of |-> ps]>>
           one == CutAll(root, 1)
           two == CutAll(one, 2)
           all == CutAll(two, 3)
<1>1. root \in Seq(Chunk) /\ Text(root) = ps /\ Distinct(root) /\ AllBelow(root, 1)
    BY SectionFacts
<1>2. Subdivide(ps) = all
    BY DEF Subdivide
<1> HIDE DEF root, one, two, all
<1>3. AllCut(one, root, 1)
    BY <1>1, CutAllFacts DEF one
<1>4. one \in Seq(Chunk) /\ Text(one) = ps /\ Distinct(one) /\ AllBelow(one, 2)
    BY <1>1, <1>3 DEF AllCut
<1>5. AllCut(two, one, 2)
    BY <1>4, CutAllFacts DEF two
<1>6. two \in Seq(Chunk) /\ Text(two) = ps /\ Distinct(two) /\ AllBelow(two, 3)
    BY <1>4, <1>5 DEF AllCut
<1>7. AllCut(all, two, 3)
    BY <1>6, CutAllFacts DEF all
<1> QED BY <1>2, <1>6, <1>7 DEF AllCut, Levels

LEMMA LastLevel ==
    ASSUME NEW c \in Chunk, Divided(c, Levels), TooLarge(c.of), NEW i \in 2..Len(c.of),
           c.of[i].level = Levels
    PROVE  c.of[1].level = Levels
<1>1. c.of \in Seq(Paragraph) /\ Len(c.of) \in Nat /\ DOMAIN c.of = 1..Len(c.of)
    BY DEF Chunk
<1>2. i \in 1..Len(c.of) /\ c.of # <<>> /\ c.of[i] \in Paragraph
    BY <1>1
<1>3. PICK g \in Group : Headed(g, Levels) /\ g.of = c.of
    BY <1>2 DEF Divided
<1>4. c.of[i].n = 1
    BY <1>2 DEF Paragraph, Levels
<1>5. Opens(c.of[i], Levels, 0)
    BY <1>4 DEF Opens
<1>6. g.n # 0
    BY <1>1, <1>2, <1>3, <1>5 DEF Headed
<1> QED BY <1>3, <1>6 DEF Headed, Opens

-----------------------------------------------------------------------------
(* The excluded item                                                       *)

Retained(c) == IF c.label \in Excluded THEN <<>> ELSE <<c>>

RetainedOf(cs) == [i \in DOMAIN cs |-> Retained(cs[i])]

LEMMA RetainedType ==
    ASSUME NEW cs \in Seq(Chunk)
    PROVE  RetainedOf(cs) \in Seq(Seq(Chunk)) /\ Len(RetainedOf(cs)) = Len(cs)
<1>1. DOMAIN cs = 1..Len(cs) /\ Len(cs) \in Nat /\ \A i \in 1..Len(cs) : cs[i] \in Chunk
    OBVIOUS
<1>2. \A i \in 1..Len(cs) : Retained(cs[i]) \in Seq(Chunk)
    BY <1>1, EmptySeq DEF Retained
<1> QED BY <1>1, <1>2 DEF RetainedOf

LEMMA KeptEmpty == Kept(<<>>) = <<>>
<1>1. [i \in DOMAIN <<>> |-> IF <<>>[i].label \in Excluded THEN <<>> ELSE <<(<<>>[i])>>] = <<>>
    OBVIOUS
<1> QED BY <1>1, FlattenEmpty DEF Kept

LEMMA KeptAppend ==
    ASSUME NEW cs \in Seq(Chunk), NEW c \in Chunk
    PROVE  Kept(Append(cs, c)) = Kept(cs) \o Retained(c)
<1> DEFINE ds == Append(cs, c)
           k  == Retained(c)
<1>1. /\ ds \in Seq(Chunk) /\ Len(ds) = Len(cs) + 1 /\ ds[Len(cs) + 1] = c /\ Len(cs) \in Nat
      /\ DOMAIN ds = 1..(Len(cs) + 1) /\ DOMAIN cs = 1..Len(cs)
      /\ \A i \in 1..Len(cs) : ds[i] = cs[i]
    BY AppendChunk
<1>2. k \in Seq(Chunk)
    BY EmptySeq DEF Retained
<1>3. \A i \in DOMAIN ds : RetainedOf(ds)[i] = Retained(ds[i])
    BY DEF RetainedOf
<1>4. \A i \in DOMAIN cs : RetainedOf(cs)[i] = Retained(cs[i])
    BY DEF RetainedOf
<1> HIDE DEF ds
<1>5. /\ RetainedOf(ds) \in Seq(Seq(Chunk)) /\ Len(RetainedOf(ds)) = Len(cs) + 1
      /\ RetainedOf(cs) \in Seq(Seq(Chunk)) /\ Len(RetainedOf(cs)) = Len(cs)
    BY <1>1, RetainedType
<1>6. RetainedOf(ds)[Len(cs) + 1] = k /\ \A i \in 1..Len(cs) : RetainedOf(ds)[i] = RetainedOf(cs)[i]
    BY <1>1, <1>3, <1>4
<1> HIDE DEF k
<1>7. \A i \in 1..(Len(cs) + 1) : RetainedOf(ds)[i] = Append(RetainedOf(cs), k)[i]
    BY <1>1, <1>2, <1>5, <1>6
<1>8. Append(RetainedOf(cs), k) \in Seq(Seq(Chunk)) /\ Len(Append(RetainedOf(cs), k)) = Len(cs) + 1
    BY <1>2, <1>5, AppendProperties
<1>9. RetainedOf(ds) = Append(RetainedOf(cs), k)
    BY <1>5, <1>7, <1>8, SeqEqual
<1>10. FlattenSeq(RetainedOf(ds)) = FlattenSeq(RetainedOf(cs)) \o k
    BY <1>2, <1>5, <1>9, FlattenAppend
<1> QED BY <1>10 DEF RetainedOf, Kept, Retained, ds, k

NoItem(cs) == \A i \in DOMAIN cs : cs[i].label \notin Excluded

KeptInv(ks, cs) ==
    /\ ks \in Seq(Chunk) /\ \A i \in DOMAIN ks : \E j \in DOMAIN cs : ks[i] = cs[j]
    /\ NoItem(cs) => ks = cs

LEMMA KeptFacts ==
    ASSUME NEW cs \in Seq(Chunk)
    PROVE  KeptInv(Kept(cs), cs)
<1> DEFINE T == {s \in Seq(Chunk) : KeptInv(Kept(s), s)}
<1>1. <<>> \in T
    <2>1. <<>> \in Seq(Chunk) /\ DOMAIN <<>> = {}
        BY EmptySeq
    <2>2. KeptInv(<<>>, <<>>)
        BY <2>1 DEF KeptInv
    <2> QED BY <2>1, <2>2, KeptEmpty
<1>2. ASSUME NEW s \in Seq(Chunk), NEW c \in Chunk, s \in T PROVE Append(s, c) \in T
    <2> DEFINE t == Append(s, c)
               k == Kept(s)
    <2>1. k \in Seq(Chunk) /\ (\A i \in DOMAIN k : \E j \in DOMAIN s : k[i] = s[j]) /\ (NoItem(s) => k = s)
        BY <1>2 DEF KeptInv
    <2>2. /\ t \in Seq(Chunk) /\ Len(s) + 1 \in DOMAIN t /\ t[Len(s) + 1] = c
          /\ \A i \in DOMAIN s : i \in DOMAIN t /\ t[i] = s[i]
        BY AppendChunk
    <2>3. Kept(t) = k \o Retained(c)
        BY KeptAppend
    <2> SUFFICES KeptInv(Kept(t), t)
        BY <2>2
    <2> HIDE DEF t, k
    <2>4. \A i \in DOMAIN k : \E j \in DOMAIN t : k[i] = t[j]
        BY <2>1, <2>2
    <2>5. CASE c.label \in Excluded
        <3>1. Kept(t) = k
            <4>1. Retained(c) = <<>>
                BY <2>5 DEF Retained
            <4>2. k \o <<>> = k
                BY <2>1, ConcatEmptySeq
            <4> QED BY <2>3, <4>1, <4>2
        <3>2. ~NoItem(t)
            BY <2>2, <2>5 DEF NoItem
        <3> QED BY <2>1, <2>4, <3>1, <3>2 DEF KeptInv
    <2>6. CASE c.label \notin Excluded
        <3>1. Kept(t) = Append(k, c)
            <4>1. Retained(c) = <<c>>
                BY <2>6 DEF Retained
            <4>2. k \o <<c>> = Append(k, c)
                BY <2>1
            <4> QED BY <2>3, <4>1, <4>2
        <3>2. /\ Append(k, c) \in Seq(Chunk) /\ Len(k) \in Nat /\ DOMAIN k = 1..Len(k)
              /\ DOMAIN Append(k, c) = 1..(Len(k) + 1) /\ Append(k, c)[Len(k) + 1] = c
              /\ \A i \in DOMAIN k : Append(k, c)[i] = k[i]
            BY <2>1, AppendChunk
        <3>3. ASSUME NEW i \in DOMAIN Append(k, c) PROVE \E j \in DOMAIN t : Append(k, c)[i] = t[j]
            <4>1. CASE i \in DOMAIN k
                BY <2>4, <3>2, <4>1
            <4>2. CASE i = Len(k) + 1
                BY <2>2, <3>2, <4>2
            <4> QED BY <3>2, <4>1, <4>2
        <3>4. NoItem(t) => Append(k, c) = t
            <4>1. NoItem(t) => NoItem(s)
                BY <2>2 DEF NoItem
            <4> QED BY <2>1, <4>1 DEF t
        <3> QED BY <3>1, <3>2, <3>3, <3>4 DEF KeptInv
    <2> QED BY <2>5, <2>6
<1>3. Seq(Chunk) \subseteq T
    <2> HIDE DEF T
    <2> QED BY <1>1, <1>2, SequencesInduction
<1> QED BY <1>3

\* Only the first level's second group has the excluded label.
LEMMA NotItem ==
    ASSUME NEW s \in Labels, NEW level \in Nat, NEW n \in Nat, level # 1 \/ n # 2
    PROVE  Append(s, <<level, n>>) \notin Excluded
<1> DEFINE e == <<level, n>>
           f == <<1, 2>>
<1>1. e \in Marker /\ f \in Marker /\ e # f
    BY DEF Marker
<1>2. <<f>> = Append(<<>>, f) /\ <<>> \in Labels
    BY EmptySeq DEF Labels
<1>3. Excluded = {<<f>>}
    BY DEF Excluded
<1> HIDE DEF e, f
<1>4. Append(s, e) = Append(<<>>, f) => e = f
    BY <1>1, <1>2, LabelAppend
<1> QED BY <1>1, <1>2, <1>3, <1>4 DEF e

LEMMA NoItemCut ==
    ASSUME NEW cs \in Seq(Chunk), NEW level \in {2, 3}, NoItem(cs)
    PROVE  NoItem(CutAll(cs, level))
<1>1. level \in Nat /\ level # 1
    OBVIOUS
<1>2. AllCut(CutAll(cs, level), cs, level)
    BY <1>1, CutAllFacts
<1> SUFFICES ASSUME NEW i \in DOMAIN CutAll(cs, level) PROVE CutAll(cs, level)[i].label \notin Excluded
    BY DEF NoItem
<1>3. PICK j \in DOMAIN cs : ChildOf(CutAll(cs, level)[i], cs[j], level)
    BY <1>2 DEF AllCut
<1>4. cs[j].label \in Labels /\ cs[j].label \notin Excluded
    <2>1. cs[j] \in Chunk
        OBVIOUS
    <2> QED BY <2>1 DEF Chunk, NoItem
<1>5. \A n \in Nat : Append(cs[j].label, <<level, n>>) \notin Excluded
    BY <1>1, <1>4, NotItem
<1> QED BY <1>3, <1>4, <1>5 DEF ChildOf

LEMMA NoItemParts ==
    ASSUME NEW c \in Chunk, c.label = <<>>, NEW gs \in Seq(Group), \A i \in DOMAIN gs : gs[i].n # 2
    PROVE  NoItem(Parts(c, 1, gs))
<1>1. <<>> \notin Excluded /\ <<>> \in Labels
    BY EmptySeq DEF Excluded, Labels
<1> SUFFICES ASSUME NEW i \in DOMAIN gs PROVE PartOf(c, 1, gs[i]).label \notin Excluded
    BY DEF NoItem, Parts
<1>2. gs[i].n \in Nat /\ gs[i].n # 2
    <2>1. gs[i] \in Group
        OBVIOUS
    <2> QED BY <2>1 DEF Group
<1>3. Append(<<>>, <<1, gs[i].n>>) \notin Excluded
    BY <1>1, <1>2, NotItem
<1> QED BY <1>1, <1>3 DEF PartOf

-----------------------------------------------------------------------------
(* Where the item begins                                                   *)

FirstOne(ps, i) == IsItem(ps[i], 1) /\ \A k \in 1..(i - 1) : ~IsItem(ps[k], 1)

NoTwo(ps, i, j) == \A k \in i..j : ~IsItem(ps[k], 2)

NoThree(ps, i, j) == \A k \in i..j : ~IsItem(ps[k], 3)

\* No item has begun; the first has; the second, at j, with the last group; or
\* the third, after e, with the last group.
BeforeFirst(gs, ps) == LastOf(gs) = 0 /\ \A k \in 1..Len(ps) : ~IsItem(ps[k], 1)

InFirst(gs, ps) ==
    LastOf(gs) = 1 /\ \E i \in 1..Len(ps) : FirstOne(ps, i) /\ NoTwo(ps, i, Len(ps))

\* The item begins at j: ItemAt.
Begins(ps, j) ==
    \E i \in 1..Len(ps) : i < j /\ FirstOne(ps, i) /\ IsItem(ps[j], 2) /\ NoTwo(ps, i, j - 1)

InSecond(gs, ps) ==
    /\ LastOf(gs) = 2
    /\ \E j \in 1..Len(ps) :
          /\ Begins(ps, j) /\ NoThree(ps, j, Len(ps))
          /\ \E front \in Seq(Group), g \in Group :
                gs = Append(front, g) /\ g.n = 2 /\ Len(Text(front)) = j - 1

InThird(gs, ps) ==
    /\ LastOf(gs) = 3
    /\ \E j, e \in 1..Len(ps) :
          /\ Begins(ps, j) /\ j <= e /\ e < Len(ps) /\ NoThree(ps, j, e) /\ IsItem(ps[e + 1], 3)
          /\ \E front \in Seq(Group), g \in Group, h \in Group :
                /\ gs = Append(Append(front, g), h) /\ g.n = 2
                /\ Len(Text(front)) = j - 1 /\ Len(Text(Append(front, g))) = e

ItemInv(gs, ps) == BeforeFirst(gs, ps) \/ InFirst(gs, ps) \/ InSecond(gs, ps) \/ InThird(gs, ps)

LEMMA PlacedLast ==
    ASSUME NEW gs \in Seq(Group), NEW hs, NEW p \in Paragraph, NEW level, Placed(gs, hs, p, level)
    PROVE  \/ Opens(p, level, LastOf(gs)) /\ LastOf(hs) = p.n
           \/ ~Opens(p, level, LastOf(gs)) /\ LastOf(hs) = LastOf(gs)
<1>1. ASSUME NEW fs \in Seq(Group), NEW g PROVE LastOf(Append(fs, g)) = g.n
    <2>1. Append(fs, g) # <<>> /\ Append(fs, g)[Len(Append(fs, g))] = g
        OBVIOUS
    <2> QED BY <2>1 DEF LastOf
<1>2. CASE Opens(p, level, LastOf(gs)) /\ hs = Append(gs, [n |-> p.n, of |-> <<p>>])
    <2> DEFINE g == [n |-> p.n, of |-> <<p>>]
    <2>1. g.n = p.n
        OBVIOUS
    <2> HIDE DEF g
    <2>2. LastOf(Append(gs, g)) = p.n
        BY <1>1, <2>1
    <2> QED BY <1>2, <2>2 DEF g
<1>3. CASE ~Opens(p, level, 0) /\ gs = <<>> /\ hs = Append(<<>>, [n |-> 0, of |-> <<p>>])
    <2> DEFINE g == [n |-> 0, of |-> <<p>>]
    <2>1. g.n = 0
        OBVIOUS
    <2> HIDE DEF g
    <2>2. LastOf(Append(gs, g)) = 0
        BY <1>1, <2>1
    <2>3. LastOf(gs) = 0
        BY <1>3 DEF LastOf
    <2> QED BY <1>3, <2>2, <2>3 DEF g
<1>4. CASE /\ ~Opens(p, level, LastOf(gs)) /\ gs # <<>>
           /\ \E front \in Seq(Group), g \in Group :
                /\ gs = Append(front, g)
                /\ hs = Append(front, [n |-> g.n, of |-> Append(g.of, p)])
    <2>1. PICK front \in Seq(Group), g \in Group :
                /\ gs = Append(front, g)
                /\ hs = Append(front, [n |-> g.n, of |-> Append(g.of, p)])
        BY <1>4
    <2> DEFINE h == [n |-> g.n, of |-> Append(g.of, p)]
    <2>2. h.n = g.n
        OBVIOUS
    <2> HIDE DEF h
    <2>3. LastOf(Append(front, h)) = g.n /\ LastOf(Append(front, g)) = g.n
        BY <1>1, <2>2
    <2>4. LastOf(hs) = LastOf(gs)
        BY <2>1, <2>3 DEF h
    <2> QED BY <1>4, <2>4
<1> QED BY <1>2, <1>3, <1>4, Zenon DEF Placed

LEMMA GroupAppend ==
    ASSUME NEW s \in Seq(Group), NEW t \in Seq(Group), NEW g \in Group, NEW h \in Group,
           Append(s, g) = Append(t, h)
    PROVE  s = t
<1>1. /\ Len(s) \in Nat /\ Len(Append(s, g)) = Len(s) + 1
      /\ \A i \in 1..Len(s) : s[i] = Append(s, g)[i]
    OBVIOUS
<1>2. /\ Len(t) \in Nat /\ Len(Append(t, h)) = Len(t) + 1
      /\ \A i \in 1..Len(t) : t[i] = Append(t, h)[i]
    OBVIOUS
<1>3. Len(t) = Len(s) /\ \A i \in 1..Len(s) : s[i] = t[i]
    BY <1>1, <1>2
<1> QED BY <1>3, SeqEqual

LEMMA JoinedGroup ==
    ASSUME NEW hs, NEW p \in Paragraph, NEW front \in Seq(Group), NEW g \in Group,
           Placed(Append(front, g), hs, p, 1), ~Opens(p, 1, LastOf(Append(front, g)))
    PROVE  \E h \in Group : h.n = g.n /\ hs = Append(front, h)
<1> DEFINE gs == Append(front, g)
<1>1. gs # <<>>
    BY AppendProperties
<1>2. PICK f \in Seq(Group), k \in Group :
          gs = Append(f, k) /\ hs = Append(f, [n |-> k.n, of |-> Append(k.of, p)])
    BY <1>1, Zenon DEF Placed
<1>3. f = front
    BY <1>2, GroupAppend
<1>4. k = g
    <2>1. Append(f, k)[Len(f) + 1] = k /\ Append(front, g)[Len(front) + 1] = g
        OBVIOUS
    <2> QED BY <1>2, <1>3, <2>1
<1> DEFINE h == [n |-> k.n, of |-> Append(k.of, p)]
<1>5. h \in Group /\ h.n = g.n
    <2>1. k.n \in Nat /\ k.of \in Seq(Paragraph)
        BY DEF Group
    <2>2. Append(k.of, p) \in Seq(Paragraph)
        BY <2>1, AppendParagraph
    <2> QED BY <1>4, <2>1, <2>2 DEF Group
<1>6. hs = Append(front, h)
    BY <1>2, <1>3
<1> HIDE DEF h
<1> QED BY <1>5, <1>6

LEMMA OpenedGroup ==
    ASSUME NEW gs, NEW hs, NEW p \in Paragraph, LastOf(gs) # 0,
           Placed(gs, hs, p, 1), Opens(p, 1, LastOf(gs))
    PROVE  \E h \in Group : h.n = p.n /\ hs = Append(gs, h)
<1> DEFINE h == [n |-> p.n, of |-> <<p>>]
<1>1. hs = Append(gs, h)
    BY DEF Placed, LastOf
<1>2. h \in Group /\ h.n = p.n
    <2>1. <<p>> \in Seq(Paragraph) /\ p.n \in Nat
        BY DEF Paragraph
    <2> QED BY <2>1 DEF Group
<1> HIDE DEF h
<1> QED BY <1>1, <1>2

LEMMA ItemStep ==
    ASSUME NEW gs, NEW hs, NEW ps \in Seq(Paragraph), NEW p \in Paragraph,
           SplitInv(gs, ps, 1), Placed(gs, hs, p, 1), ItemInv(gs, ps)
    PROVE  ItemInv(hs, Append(ps, p))
<1> DEFINE qs == Append(ps, p)
           L  == Len(ps)
<1>1. L \in Nat /\ Len(qs) = L + 1 /\ qs[L + 1] = p /\ \A i \in 1..L : qs[i] = ps[i]
    BY AppendParagraph
<1> HIDE DEF qs, L
<1>2. gs \in Seq(Group) /\ Text(gs) = ps
    BY DEF SplitInv
<1>3. \/ Opens(p, 1, LastOf(gs)) /\ LastOf(hs) = p.n
      \/ ~Opens(p, 1, LastOf(gs)) /\ LastOf(hs) = LastOf(gs)
    BY <1>2, PlacedLast
<1>4. p.n \in Nat /\ (p.level = 1 => p.n \in {1, 2, 3})
    BY DEF Paragraph, Levels
<1>5. ASSUME NEW i \in 1..L PROVE FirstOne(ps, i) => FirstOne(qs, i)
    BY <1>1 DEF FirstOne
<1>6. ASSUME NEW i \in 1..L, NEW j \in 0..L
      PROVE  (NoTwo(ps, i, j) => NoTwo(qs, i, j)) /\ (NoThree(ps, i, j) => NoThree(qs, i, j))
    BY <1>1 DEF NoTwo, NoThree
<1>7. ASSUME NEW j \in 1..L, Begins(ps, j) PROVE Begins(qs, j)
    <2>1. PICK i \in 1..L : i < j /\ FirstOne(ps, i) /\ IsItem(ps[j], 2) /\ NoTwo(ps, i, j - 1)
        BY <1>7 DEF Begins, L
    <2>2. j - 1 \in 0..L /\ i \in 1..Len(qs) /\ qs[j] = ps[j]
        BY <1>1
    <2>3. FirstOne(qs, i) /\ NoTwo(qs, i, j - 1)
        BY <1>5, <1>6, <2>1, <2>2
    <2> QED BY <2>1, <2>2, <2>3 DEF Begins
<1>8. CASE BeforeFirst(gs, ps)
    <2>1. LastOf(gs) = 0 /\ \A k \in 1..L : ~IsItem(qs[k], 1)
        BY <1>1, <1>8 DEF BeforeFirst, L
    <2>2. CASE IsItem(p, 1)
        <3>1. LastOf(hs) = 1
            BY <1>3, <2>1, <2>2 DEF Opens, IsItem
        <3>2. FirstOne(qs, L + 1)
            BY <1>1, <2>1, <2>2 DEF FirstOne
        <3>3. NoTwo(qs, L + 1, Len(qs))
            BY <1>1, <2>2 DEF NoTwo, IsItem
        <3>4. L + 1 \in 1..Len(qs)
            BY <1>1
        <3> QED BY <3>1, <3>2, <3>3, <3>4 DEF ItemInv, InFirst, qs
    <2>3. CASE ~IsItem(p, 1)
        <3>1. LastOf(hs) = 0
            BY <1>3, <2>1, <2>3 DEF Opens, IsItem
        <3>2. \A k \in 1..Len(qs) : ~IsItem(qs[k], 1)
            BY <1>1, <2>1, <2>3
        <3> QED BY <3>1, <3>2 DEF ItemInv, BeforeFirst, qs
    <2> QED BY <2>2, <2>3
<1>9. CASE InFirst(gs, ps)
    <2>1. PICK i \in 1..L : LastOf(gs) = 1 /\ FirstOne(ps, i) /\ NoTwo(ps, i, L)
        BY <1>9 DEF InFirst, L
    <2>2. FirstOne(qs, i) /\ NoTwo(qs, i, L) /\ i \in 1..Len(qs) /\ i < L + 1 /\ L + 1 \in 1..Len(qs)
        BY <1>1, <1>5, <1>6, <2>1
    <2>3. CASE IsItem(p, 2)
        <3>1. LastOf(hs) = 2 /\ Opens(p, 1, LastOf(gs)) /\ p.n = 2
            BY <1>3, <2>1, <2>3 DEF Opens, IsItem
        <3>2. PICK h \in Group : h.n = 2 /\ hs = Append(gs, h)
            BY <2>1, <3>1, OpenedGroup
        <3>3. Len(Text(gs)) = (L + 1) - 1
            BY <1>1, <1>2 DEF L
        <3>4. IsItem(qs[L + 1], 2) /\ NoTwo(qs, i, (L + 1) - 1)
            BY <1>1, <2>2, <2>3
        <3>5. Begins(qs, L + 1)
            BY <2>2, <3>4 DEF Begins
        <3>6. NoThree(qs, L + 1, Len(qs))
            BY <1>1, <2>3 DEF NoThree, IsItem
        <3>7. InSecond(hs, qs)
            BY <1>2, <2>2, <3>1, <3>2, <3>3, <3>5, <3>6 DEF InSecond
        <3> QED BY <3>7 DEF ItemInv, qs
    <2>4. CASE ~IsItem(p, 2)
        <3>1. LastOf(hs) = 1
            BY <1>3, <2>1, <2>4 DEF Opens, IsItem
        <3>2. NoTwo(qs, i, Len(qs))
            BY <1>1, <2>1, <2>2, <2>4 DEF NoTwo
        <3>3. InFirst(hs, qs)
            BY <2>2, <3>1, <3>2 DEF InFirst
        <3> QED BY <3>3 DEF ItemInv, qs
    <2> QED BY <2>3, <2>4
<1>10. CASE InSecond(gs, ps)
    <2>1. PICK j \in 1..L, front \in Seq(Group), g \in Group :
              /\ Begins(ps, j) /\ NoThree(ps, j, L)
              /\ gs = Append(front, g) /\ g.n = 2 /\ Len(Text(front)) = j - 1
        BY <1>10 DEF InSecond, L
    <2>2. LastOf(gs) = 2
        BY <1>10 DEF InSecond
    <2>3. Begins(qs, j) /\ NoThree(qs, j, L) /\ j \in 1..Len(qs)
        BY <1>1, <1>6, <1>7, <2>1
    <2>4. CASE IsItem(p, 3)
        <3>1. LastOf(hs) = 3 /\ Opens(p, 1, LastOf(gs)) /\ p.n = 3
            BY <1>3, <2>2, <2>4 DEF Opens, IsItem
        <3>2. PICK h \in Group : hs = Append(gs, h)
            BY <2>2, <3>1, OpenedGroup
        <3>3. Len(Text(Append(front, g))) = L
            BY <1>2, <2>1 DEF L
        <3>4. L \in 1..Len(qs) /\ j <= L /\ L < Len(qs) /\ IsItem(qs[L + 1], 3)
            BY <1>1, <2>4
        <3>5. hs = Append(Append(front, g), h)
            BY <2>1, <3>2
        <3>6. InThird(hs, qs)
            BY <2>1, <2>3, <3>1, <3>3, <3>4, <3>5 DEF InThird
        <3> QED BY <3>6 DEF ItemInv, qs
    <2>5. CASE ~IsItem(p, 3)
        <3>1. ~Opens(p, 1, LastOf(gs)) /\ LastOf(hs) = 2
            BY <1>3, <2>2, <2>5 DEF Opens, IsItem
        <3>2. PICK h \in Group : h.n = 2 /\ hs = Append(front, h)
            <4>1. /\ Placed(Append(front, g), hs, p, 1) /\ ~Opens(p, 1, LastOf(Append(front, g)))
                  /\ g.n = 2
                BY <2>1, <3>1
            <4>2. \E h \in Group : h.n = g.n /\ hs = Append(front, h)
                BY <4>1, JoinedGroup
            <4> QED BY <4>1, <4>2
        <3>3. NoThree(qs, j, Len(qs))
            BY <1>1, <2>3, <2>5 DEF NoThree
        <3>4. InSecond(hs, qs)
            BY <2>1, <2>3, <3>1, <3>2, <3>3 DEF InSecond
        <3> QED BY <3>4 DEF ItemInv, qs
    <2> QED BY <2>4, <2>5
<1>11. CASE InThird(gs, ps)
    <2>1. PICK j \in 1..L, e \in 1..L, front \in Seq(Group), g \in Group, h \in Group :
              /\ Begins(ps, j) /\ j <= e /\ e < L /\ NoThree(ps, j, e) /\ IsItem(ps[e + 1], 3)
              /\ gs = Append(Append(front, g), h) /\ g.n = 2
              /\ Len(Text(front)) = j - 1 /\ Len(Text(Append(front, g))) = e
        BY <1>11 DEF InThird, L
    <2>2. LastOf(gs) = 3
        BY <1>11 DEF InThird
    <2>3. ~Opens(p, 1, LastOf(gs)) /\ LastOf(hs) = 3
        BY <1>3, <1>4, <2>2 DEF Opens
    <2> DEFINE f == Append(front, g)
    <2>4. f \in Seq(Group)
        OBVIOUS
    <2> HIDE DEF f
    <2>5. PICK k \in Group : hs = Append(f, k)
        <3>1. Placed(Append(f, h), hs, p, 1) /\ ~Opens(p, 1, LastOf(Append(f, h)))
            BY <2>1, <2>3 DEF f
        <3> QED BY <2>4, <3>1, JoinedGroup
    <2>6. /\ Begins(qs, j) /\ NoThree(qs, j, e) /\ j \in 1..Len(qs) /\ e \in 1..Len(qs)
          /\ e < Len(qs) /\ IsItem(qs[e + 1], 3)
        <3>1. e \in 0..L /\ e + 1 \in 1..L
            BY <1>1, <2>1
        <3> QED BY <1>1, <1>6, <1>7, <2>1, <3>1
    <2>7. InThird(hs, qs)
        BY <2>1, <2>3, <2>5, <2>6 DEF InThird, f
    <2> QED BY <2>7 DEF ItemInv, qs
<1> QED BY <1>8, <1>9, <1>10, <1>11 DEF ItemInv

LEMMA ItemFacts ==
    ASSUME NEW ps \in Seq(Paragraph)
    PROVE  ItemInv(SplitSequential(ps, 1), ps)
<1> DEFINE T == {s \in Seq(Paragraph) : ItemInv(SplitSequential(s, 1), s)}
<1>1. <<>> \in T
    <2>1. <<>> \in Seq(Paragraph) /\ Len(<<>>) = 0
        BY EmptySeq
    <2>2. BeforeFirst(<<>>, <<>>)
        BY <2>1 DEF BeforeFirst, LastOf
    <2> QED BY <2>1, <2>2, SplitEmpty DEF ItemInv
<1>2. ASSUME NEW s \in Seq(Paragraph), NEW p \in Paragraph, s \in T PROVE Append(s, p) \in T
    <2> DEFINE gs == SplitSequential(s, 1)
               hs == SplitSequential(Append(s, p), 1)
    <2>1. SplitInv(gs, s, 1) /\ ItemInv(gs, s) /\ hs = Place(gs, p, 1)
        BY <1>2, SplitFacts, SplitAppend
    <2> SUFFICES ItemInv(hs, Append(s, p))
        BY AppendParagraph
    <2> HIDE DEF gs, hs
    <2>2. gs \in Seq(Group)
        BY <2>1 DEF SplitInv
    <2>3. Placed(gs, hs, p, 1)
        BY <2>1, <2>2, PlaceFacts
    <2> QED BY <2>1, <2>3, ItemStep
<1>3. Seq(Paragraph) \subseteq T
    <2> HIDE DEF T
    <2> QED BY <1>1, <1>2, SequencesInduction
<1> QED BY <1>3

\* The first 1, where the item begins and where it ends are each one place.
LEMMA FirstOnce ==
    ASSUME NEW ps \in Seq(Paragraph), NEW i \in 1..Len(ps), NEW k \in 1..Len(ps),
           FirstOne(ps, i), FirstOne(ps, k)
    PROVE  i = k
<1>1. CASE k < i
    <2>1. k \in 1..(i - 1)
        BY <1>1
    <2> QED BY <2>1 DEF FirstOne
<1>2. CASE i < k
    <2>1. i \in 1..(k - 1)
        BY <1>2
    <2> QED BY <2>1 DEF FirstOne
<1> QED BY <1>1, <1>2

LEMMA BeginsOnce ==
    ASSUME NEW ps \in Seq(Paragraph), NEW j \in 1..Len(ps), NEW m \in 1..Len(ps),
           Begins(ps, j), Begins(ps, m)
    PROVE  j = m
<1>1. PICK i \in 1..Len(ps) : i < j /\ FirstOne(ps, i) /\ IsItem(ps[j], 2) /\ NoTwo(ps, i, j - 1)
    BY DEF Begins
<1>2. PICK k \in 1..Len(ps) : k < m /\ FirstOne(ps, k) /\ IsItem(ps[m], 2) /\ NoTwo(ps, k, m - 1)
    BY DEF Begins
<1>3. i = k
    BY <1>1, <1>2, FirstOnce
<1>4. CASE m < j
    <2>1. m \in i..(j - 1)
        BY <1>2, <1>3, <1>4
    <2> QED BY <1>1, <1>2, <2>1 DEF NoTwo
<1>5. CASE j < m
    <2>1. j \in k..(m - 1)
        BY <1>1, <1>3, <1>5
    <2> QED BY <1>1, <1>2, <2>1 DEF NoTwo
<1> QED BY <1>4, <1>5

LEMMA EndsOnce ==
    ASSUME NEW ps \in Seq(Paragraph), NEW j \in 1..Len(ps), NEW e \in ItemEnd(ps, j), NEW f \in ItemEnd(ps, j)
    PROVE  e = f
<1>1. /\ e \in j..Len(ps) /\ NoThree(ps, j, e) /\ (e = Len(ps) \/ IsItem(ps[e + 1], 3))
      /\ f \in j..Len(ps) /\ NoThree(ps, j, f) /\ (f = Len(ps) \/ IsItem(ps[f + 1], 3))
      /\ Len(ps) \in Nat
    BY DEF ItemEnd, NoThree
<1>2. CASE e < f
    <2>1. e + 1 \in j..f /\ e # Len(ps)
        BY <1>1, <1>2
    <2> QED BY <1>1, <2>1 DEF NoThree
<1>3. CASE f < e
    <2>1. f + 1 \in j..e /\ f # Len(ps)
        BY <1>1, <1>3
    <2> QED BY <1>1, <2>1 DEF NoThree
<1> QED BY <1>1, <1>2, <1>3

LEMMA ItemBegins ==
    ASSUME NEW ps \in Seq(Paragraph), NEW j \in 1..Len(ps)
    PROVE  j \in ItemAt(ps) <=> Begins(ps, j)
<1>1. j \in DOMAIN ps /\ Len(ps) \in Nat
    OBVIOUS
<1>2. ASSUME Begins(ps, j) PROVE j \in ItemAt(ps)
    <2>1. PICK i \in 1..Len(ps) : i < j /\ FirstOne(ps, i) /\ IsItem(ps[j], 2) /\ NoTwo(ps, i, j - 1)
        BY <1>2 DEF Begins
    <2>2. i \in 1..(j - 1)
        BY <2>1
    <2> QED BY <1>1, <2>1, <2>2 DEF ItemAt, FirstOne, NoTwo
<1>3. ASSUME j \in ItemAt(ps) PROVE Begins(ps, j)
    <2>1. PICK i \in 1..(j - 1) : FirstOne(ps, i) /\ IsItem(ps[j], 2) /\ NoTwo(ps, i, j - 1)
        BY <1>3 DEF ItemAt, FirstOne, NoTwo
    <2>2. i \in 1..Len(ps) /\ i < j
        BY <1>1
    <2> QED BY <2>1, <2>2 DEF Begins
<1> QED BY <1>2, <1>3

LEMMA NoItemYet ==
    ASSUME NEW gs, NEW ps \in Seq(Paragraph), SplitInv(gs, ps, 1), ItemInv(gs, ps), ItemAt(ps) = {}
    PROVE  \A i \in DOMAIN gs : gs[i].n # 2
<1>1. /\ gs \in Seq(Group) /\ DOMAIN gs = 1..Len(gs) /\ Len(gs) \in Nat
      /\ \A i \in 1..Len(gs) : gs[i].n = gs[1].n + i - 1
    BY DEF SplitInv
<1>2. \A j \in 1..Len(ps) : ~Begins(ps, j)
    BY ItemBegins
<1>3. LastOf(gs) \in {0, 1}
    BY <1>2 DEF ItemInv, BeforeFirst, InFirst, InSecond, InThird
<1> SUFFICES ASSUME NEW i \in 1..Len(gs) PROVE gs[i].n # 2
    BY <1>1
<1>4. gs # <<>> /\ Len(gs) \in 1..Len(gs)
    BY <1>1
<1>5. gs[Len(gs)].n \in {0, 1}
    BY <1>3, <1>4 DEF LastOf
<1>6. gs[1].n \in Nat
    <2>1. gs[1] \in Group
        BY <1>1
    <2> QED BY <2>1 DEF Group
<1>7. gs[i].n = gs[1].n + i - 1 /\ gs[Len(gs)].n = gs[1].n + Len(gs) - 1 /\ i <= Len(gs)
    BY <1>1, <1>4
<1> QED BY <1>1, <1>5, <1>6, <1>7

\* The item's group, the only one with its marker, and those around it.
Around(gs, front, g, rest) ==
    /\ gs = Append(front, g) \o rest /\ Len(gs) > 1
    /\ g.n = 2 /\ (\A i \in DOMAIN front : front[i].n # 2) /\ (\A i \in DOMAIN rest : rest[i].n # 2)

LEMMA ConcatGroups ==
    ASSUME NEW s \in Seq(Group), NEW t \in Seq(Group)
    PROVE  /\ s \o t \in Seq(Group) /\ Len(s \o t) = Len(s) + Len(t)
           /\ \A i \in 1..(Len(s) + Len(t)) : (s \o t)[i] = IF i <= Len(s) THEN s[i] ELSE t[i - Len(s)]
BY ConcatProperties

LEMMA AroundItem ==
    ASSUME NEW gs, NEW ps, SplitInv(gs, ps, 1),
           NEW front \in Seq(Group), NEW g \in Group, NEW rest \in Seq(Group),
           gs = Append(front, g) \o rest, g.n = 2
    PROVE  Around(gs, front, g, rest)
<1> DEFINE F == Len(front)
           R == Len(rest)
           f == Append(front, g)
<1>1. /\ f \in Seq(Group) /\ Len(f) = F + 1 /\ f[F + 1] = g /\ F \in Nat /\ R \in Nat
      /\ DOMAIN front = 1..F /\ DOMAIN rest = 1..R /\ \A i \in 1..F : f[i] = front[i]
    BY AppendProperties
<1> HIDE DEF F, R, f
<1>2. /\ Len(f \o rest) = (F + 1) + R
      /\ \A i \in 1..((F + 1) + R) : (f \o rest)[i] = IF i <= F + 1 THEN f[i] ELSE rest[i - (F + 1)]
    <2>1. /\ Len(f \o rest) = Len(f) + Len(rest)
          /\ \A i \in 1..(Len(f) + Len(rest)) :
                (f \o rest)[i] = IF i <= Len(f) THEN f[i] ELSE rest[i - Len(f)]
        BY <1>1, ConcatGroups
    <2>2. Len(f) = F + 1 /\ Len(rest) = R
        BY <1>1 DEF R
    <2> QED BY <2>1, <2>2, Zenon
<1>3. gs = f \o rest
    BY DEF f
<1>4. /\ Len(gs) = (F + 1) + R /\ gs[F + 1] = g
      /\ \A i \in 1..F : gs[i] = front[i]
      /\ \A i \in 1..R : gs[(F + 1) + i] = rest[i]
    <2>1. \A i \in 1..R : (F + 1) + i \in 1..((F + 1) + R) /\ ~((F + 1) + i <= F + 1)
        BY <1>1
    <2>2. \A i \in 1..R : gs[(F + 1) + i] = rest[((F + 1) + i) - (F + 1)]
        BY <1>2, <1>3, <2>1
    <2>3. \A i \in 1..R : ((F + 1) + i) - (F + 1) = i
        BY <1>1
    <2> QED BY <1>1, <1>2, <1>3, <2>2, <2>3
<1>5. /\ gs \in Seq(Group) /\ \A i \in 1..Len(gs) : gs[i].n = gs[1].n + i - 1
      /\ gs[1].n \in {0, 1}
    <2>1. /\ gs \in Seq(Group) /\ \A i \in 1..Len(gs) : gs[i].n = gs[1].n + i - 1
          /\ gs # <<>> => gs[1].n \in {0, 1}
        BY DEF SplitInv
    <2>2. Len(gs) > 0
        BY <1>1, <1>4
    <2>3. gs # <<>>
        BY <2>2, EmptySeq
    <2> QED BY <2>1, <2>3
<1>6. F + 1 \in 1..Len(gs) /\ gs[F + 1].n = 2
    BY <1>1, <1>4
<1>7. 2 = gs[1].n + (F + 1) - 1
    BY <1>5, <1>6
<1>8. F >= 1 /\ gs[1].n = 2 - F
    BY <1>1, <1>5, <1>7
<1>9. \A i \in 1..Len(gs) : i # F + 1 => gs[i].n # 2
    <2> SUFFICES ASSUME NEW i \in 1..Len(gs), i # F + 1 PROVE gs[i].n # 2
        OBVIOUS
    <2>1. gs[i].n = (2 - F) + i - 1
        BY <1>5, <1>8
    <2>2. i \in Nat
        BY <1>1, <1>4
    <2> QED BY <1>1, <2>1, <2>2
<1>10. \A i \in 1..F : front[i].n # 2
    <2>1. \A i \in 1..F : i \in 1..Len(gs) /\ i # F + 1
        BY <1>1, <1>4
    <2> QED BY <1>4, <1>9, <2>1
<1>11. \A i \in 1..R : rest[i].n # 2
    <2>1. \A i \in 1..R : (F + 1) + i \in 1..Len(gs) /\ (F + 1) + i # F + 1
        BY <1>1, <1>4
    <2> QED BY <1>4, <1>9, <2>1
<1>12. Len(gs) > 1
    BY <1>1, <1>4, <1>8
<1> QED BY <1>1, <1>10, <1>11, <1>12 DEF Around

\* The item is a group of the first level, which begins and ends where it does.
LEMMA ItemGroup ==
    ASSUME NEW gs, NEW ps \in Seq(Paragraph), SplitInv(gs, ps, 1), ItemInv(gs, ps),
           NEW j \in ItemAt(ps), NEW e \in ItemEnd(ps, j)
    PROVE  \E front \in Seq(Group), g \in Group, rest \in Seq(Group) :
              /\ Around(gs, front, g, rest)
              /\ Len(Text(front)) = j - 1 /\ Len(Text(Append(front, g))) = e
<1>1. j \in 1..Len(ps) /\ Len(ps) \in Nat
    BY DEF ItemAt
<1>2. Begins(ps, j) /\ gs \in Seq(Group) /\ Text(gs) = ps
    BY <1>1, ItemBegins DEF SplitInv
<1>3. PICK i \in 1..Len(ps) : i < j /\ FirstOne(ps, i) /\ IsItem(ps[j], 2) /\ NoTwo(ps, i, j - 1)
    BY <1>2 DEF Begins
<1>4. ~BeforeFirst(gs, ps)
    BY <1>3 DEF BeforeFirst, FirstOne
<1>5. ~InFirst(gs, ps)
    <2> SUFFICES ASSUME NEW k \in 1..Len(ps), FirstOne(ps, k), NoTwo(ps, k, Len(ps)) PROVE FALSE
        BY DEF InFirst
    <2>1. k = i
        BY <1>3, FirstOnce
    <2>2. j \in k..Len(ps)
        BY <1>1, <1>3, <2>1
    <2> QED BY <1>3, <2>2 DEF NoTwo
<1>6. CASE InSecond(gs, ps)
    <2>1. PICK m \in 1..Len(ps), front \in Seq(Group), g \in Group :
              /\ Begins(ps, m) /\ NoThree(ps, m, Len(ps))
              /\ gs = Append(front, g) /\ g.n = 2 /\ Len(Text(front)) = m - 1
        BY <1>6 DEF InSecond
    <2>2. m = j
        BY <1>1, <1>2, <2>1, BeginsOnce
    <2>3. Len(ps) \in ItemEnd(ps, j)
        BY <1>1, <2>1, <2>2 DEF ItemEnd, NoThree
    <2>4. e = Len(ps)
        BY <1>1, <2>3, EndsOnce
    <2>5. <<>> \in Seq(Group) /\ gs = Append(front, g) \o <<>>
        BY <1>2, <2>1, ConcatEmptySeq, EmptySeq
    <2>6. Around(gs, front, g, <<>>)
        BY <2>1, <2>5, AroundItem
    <2>7. Len(Text(front)) = j - 1 /\ Len(Text(Append(front, g))) = e
        BY <1>2, <2>1, <2>2, <2>4
    <2> QED BY <2>5, <2>6, <2>7
<1>7. CASE InThird(gs, ps)
    <2>1. PICK m \in 1..Len(ps), d \in 1..Len(ps), front \in Seq(Group), g \in Group, h \in Group :
              /\ Begins(ps, m) /\ m <= d /\ d < Len(ps) /\ NoThree(ps, m, d) /\ IsItem(ps[d + 1], 3)
              /\ gs = Append(Append(front, g), h) /\ g.n = 2
              /\ Len(Text(front)) = m - 1 /\ Len(Text(Append(front, g))) = d
        BY <1>7 DEF InThird
    <2>2. m = j
        BY <1>1, <1>2, <2>1, BeginsOnce
    <2>3. d \in ItemEnd(ps, j)
        BY <1>1, <2>1, <2>2 DEF ItemEnd, NoThree
    <2>4. e = d
        BY <1>1, <2>3, EndsOnce
    <2>5. <<h>> \in Seq(Group) /\ gs = Append(front, g) \o <<h>>
        <3> DEFINE f == Append(front, g)
        <3>1. f \in Seq(Group)
            OBVIOUS
        <3> HIDE DEF f
        <3>2. Append(f, h) = f \o <<h>>
            BY <3>1, AppendIsConcat
        <3> QED BY <2>1, <3>2 DEF f
    <2>6. Around(gs, front, g, <<h>>)
        BY <2>1, <2>5, AroundItem
    <2>7. Len(Text(front)) = j - 1 /\ Len(Text(Append(front, g))) = e
        BY <2>1, <2>2, <2>4
    <2> QED BY <2>5, <2>6, <2>7
<1> QED BY <1>4, <1>5, <1>6, <1>7 DEF ItemInv

LEMMA CutOne ==
    ASSUME NEW c \in Chunk, NEW level \in Nat
    PROVE  CutAll(<<c>>, level) = Cut(c, level)
<1>1. <<>> \in Seq(Chunk) /\ Append(<<>>, c) = <<c>>
    BY EmptySeq
<1>2. CutAll(Append(<<>>, c), level) = CutAll(<<>>, level) \o Cut(c, level)
    BY <1>1, CutAllAppend
<1>3. CutAll(<<>>, level) = <<>>
    BY CutAllEmpty
<1>4. Cut(c, level) \in Seq(Chunk)
    BY CutFacts DEF CutInv
<1>5. <<>> \o Cut(c, level) = Cut(c, level)
    BY <1>4, ConcatEmptySeq
<1> QED BY <1>1, <1>2, <1>3, <1>5

LEMMA CutSmall ==
    ASSUME NEW cs \in Seq(Chunk), NEW c \in Chunk, NEW level \in Nat, ~TooLarge(c.of)
    PROVE  CutAll(Append(cs, c), level) = Append(CutAll(cs, level), c)
<1>1. CutAll(Append(cs, c), level) = CutAll(cs, level) \o Cut(c, level)
    BY CutAllAppend
<1>2. Cut(c, level) = <<c>>
    BY Zenon DEF Cut
<1>3. CutAll(cs, level) \in Seq(Chunk)
    BY CutAllFacts DEF AllCut
<1>4. CutAll(cs, level) \o <<c>> = Append(CutAll(cs, level), c)
    BY <1>3
<1> QED BY <1>1, <1>2, <1>4

LEMMA SectionCut ==
    ASSUME NEW c \in Chunk
    PROVE  \/ Cut(c, 1) = <<c>> /\ (~TooLarge(c.of) \/ Len(SplitSequential(c.of, 1)) <= 1)
           \/ Cut(c, 1) = Parts(c, 1, SplitSequential(c.of, 1))
BY Zenon DEF Cut, Parts, PartOf

LEMMA NothingExcluded ==
    ASSUME NEW ps \in Seq(Paragraph), ItemAt(ps) = {}
    PROVE  NoItem(Subdivide(ps))
<1> DEFINE c   == [label |-> <<>>, of |-> ps]
           gs  == SplitSequential(ps, 1)
           one == CutAll(<<c>>, 1)
           two == CutAll(one, 2)
<1>1. c \in Chunk /\ c.label = <<>> /\ c.of = ps
    <2>1. <<>> \in Labels
        BY EmptySeq DEF Labels
    <2> QED BY <2>1 DEF Chunk
<1>2. Subdivide(ps) = CutAll(two, 3)
    BY DEF Subdivide
<1>3. SplitInv(gs, ps, 1) /\ ItemInv(gs, ps)
    BY SplitFacts, ItemFacts
<1> HIDE DEF c, gs
<1>4. one = Cut(c, 1)
    BY <1>1, CutOne
<1>5. Cut(c, 1) = <<c>> \/ Cut(c, 1) = Parts(c, 1, gs)
    BY <1>1, SectionCut DEF gs
<1>6. NoItem(Cut(c, 1))
    <2>1. CASE Cut(c, 1) = <<c>>
        <3>1. <<>> \notin Excluded
            BY DEF Excluded
        <3> QED BY <1>1, <2>1, <3>1 DEF NoItem
    <2>2. CASE Cut(c, 1) = Parts(c, 1, gs)
        <3>1. gs \in Seq(Group) /\ \A i \in DOMAIN gs : gs[i].n # 2
            BY <1>3, NoItemYet DEF SplitInv
        <3> QED BY <1>1, <2>2, <3>1, NoItemParts
    <2> QED BY <1>5, <2>1, <2>2
<1>7. Cut(c, 1) \in Seq(Chunk)
    BY <1>1, CutFacts DEF CutInv
<1>8. two \in Seq(Chunk) /\ NoItem(two)
    BY <1>4, <1>6, <1>7, NoItemCut, CutAllFacts DEF AllCut
<1> QED BY <1>2, <1>8, NoItemCut

LEMMA ConcatCuts == \A s, t, u \in Seq(Chunk) : (s \o t) \o u = s \o (t \o u)
BY ConcatAssociative

LEMMA ConcatAppend ==
    ASSUME NEW s \in Seq(Chunk), NEW t \in Seq(Chunk), NEW c \in Chunk
    PROVE  /\ Append(t, c) \in Seq(Chunk) /\ s \o t \in Seq(Chunk)
           /\ s \o Append(t, c) = Append(s \o t, c)
OBVIOUS

LEMMA CutAllConcat ==
    ASSUME NEW cs \in Seq(Chunk), NEW ds \in Seq(Chunk), NEW level \in Nat
    PROVE  CutAll(cs \o ds, level) = CutAll(cs, level) \o CutAll(ds, level)
<1> DEFINE all(s) == CutAll(s, level)
           T == {s \in Seq(Chunk) : all(cs \o s) = all(cs) \o all(s)}
<1>1. \A s \in Seq(Chunk) : all(s) \in Seq(Chunk)
    BY CutAllFacts DEF AllCut
<1>2. <<>> \in T
    <2>1. <<>> \in Seq(Chunk) /\ cs \o <<>> = cs /\ all(cs) \o <<>> = all(cs)
        BY <1>1, ConcatEmptySeq, EmptySeq
    <2>2. all(<<>>) = <<>>
        BY CutAllEmpty
    <2> QED BY <2>1, <2>2
<1>3. ASSUME NEW s \in Seq(Chunk), NEW c \in Chunk, s \in T PROVE Append(s, c) \in T
    <2>1. /\ Append(s, c) \in Seq(Chunk) /\ cs \o s \in Seq(Chunk)
          /\ cs \o Append(s, c) = Append(cs \o s, c)
        BY ConcatAppend
    <2>2. all(Append(cs \o s, c)) = all(cs \o s) \o Cut(c, level)
        BY <2>1, CutAllAppend
    <2>3. all(Append(s, c)) = all(s) \o Cut(c, level)
        BY CutAllAppend
    <2>4. all(cs \o s) = all(cs) \o all(s)
        BY <1>3
    <2>5. (all(cs) \o all(s)) \o Cut(c, level) = all(cs) \o (all(s) \o Cut(c, level))
        <3>1. Cut(c, level) \in Seq(Chunk)
            BY CutFacts DEF CutInv
        <3>2. all(cs) \in Seq(Chunk) /\ all(s) \in Seq(Chunk)
            BY <1>1
        <3> HIDE DEF all
        <3>3. \A k \in Seq(Chunk) : (all(cs) \o all(s)) \o k = all(cs) \o (all(s) \o k)
            BY <3>2, ConcatCuts
        <3> QED BY <3>1, <3>3
    <2> HIDE DEF all
    <2> QED BY <2>1, <2>2, <2>3, <2>4, <2>5
<1>4. Seq(Chunk) \subseteq T
    <2> HIDE DEF T
    <2> QED BY <1>2, <1>3, SequencesInduction
<1> QED BY <1>4

LEMMA KeptConcat ==
    ASSUME NEW cs \in Seq(Chunk), NEW ds \in Seq(Chunk)
    PROVE  Kept(cs \o ds) = Kept(cs) \o Kept(ds)
<1> DEFINE T == {s \in Seq(Chunk) : Kept(cs \o s) = Kept(cs) \o Kept(s)}
<1>1. \A s \in Seq(Chunk) : Kept(s) \in Seq(Chunk)
    BY KeptFacts DEF KeptInv
<1>2. <<>> \in T
    <2>1. <<>> \in Seq(Chunk) /\ cs \o <<>> = cs /\ Kept(cs) \o <<>> = Kept(cs)
        BY <1>1, ConcatEmptySeq, EmptySeq
    <2> QED BY <2>1, KeptEmpty
<1>3. ASSUME NEW s \in Seq(Chunk), NEW c \in Chunk, s \in T PROVE Append(s, c) \in T
    <2>1. /\ Append(s, c) \in Seq(Chunk) /\ cs \o s \in Seq(Chunk)
          /\ cs \o Append(s, c) = Append(cs \o s, c)
        BY ConcatAppend
    <2>2. Kept(Append(cs \o s, c)) = Kept(cs \o s) \o Retained(c) /\ Kept(Append(s, c)) = Kept(s) \o Retained(c)
        BY <2>1, KeptAppend
    <2>3. Kept(cs \o s) = Kept(cs) \o Kept(s)
        BY <1>3
    <2>4. (Kept(cs) \o Kept(s)) \o Retained(c) = Kept(cs) \o (Kept(s) \o Retained(c))
        <3>1. Retained(c) \in Seq(Chunk)
            BY EmptySeq DEF Retained
        <3>2. Kept(cs) \in Seq(Chunk) /\ Kept(s) \in Seq(Chunk)
            BY <1>1
        <3>3. \A k \in Seq(Chunk) : (Kept(cs) \o Kept(s)) \o k = Kept(cs) \o (Kept(s) \o k)
            BY <3>2, ConcatCuts
        <3> QED BY <3>1, <3>3
    <2> QED BY <2>1, <2>2, <2>3, <2>4
<1>4. Seq(Chunk) \subseteq T
    <2> HIDE DEF T
    <2> QED BY <1>2, <1>3, SequencesInduction
<1> QED BY <1>4

\* A chunk that is not too large stays as it is among the others.
LEMMA CutAround ==
    ASSUME NEW cs \in Seq(Chunk), NEW c \in Chunk, NEW ds \in Seq(Chunk), NEW level \in Nat, ~TooLarge(c.of)
    PROVE  CutAll(Append(cs, c) \o ds, level) = Append(CutAll(cs, level), c) \o CutAll(ds, level)
<1>1. CutAll(Append(cs, c), level) = Append(CutAll(cs, level), c)
    BY CutSmall
<1>2. Append(cs, c) \in Seq(Chunk)
    BY AppendChunk
<1>3. CutAll(Append(cs, c) \o ds, level) = CutAll(Append(cs, c), level) \o CutAll(ds, level)
    BY <1>2, CutAllConcat
<1> QED BY <1>1, <1>3

LEMMA ConcatSubSeq ==
    ASSUME NEW s \in Seq(Paragraph), NEW t \in Seq(Paragraph)
    PROVE  /\ SubSeq(s \o t, 1, Len(s)) = s
           /\ SubSeq(s \o t, Len(s) + 1, Len(s \o t)) = t
           /\ Len(s \o t) = Len(s) + Len(t)
<1> DEFINE u == s \o t
           m == Len(s)
           n == Len(t)
<1>1. /\ u \in Seq(Paragraph) /\ Len(u) = m + n /\ m \in Nat /\ n \in Nat
      /\ \A i \in 1..(m + n) : u[i] = IF i <= m THEN s[i] ELSE t[i - m]
    BY ConcatProperties
<1> HIDE DEF u, m, n
<1>2. \A i \in 1..(m + n) : u[i] \in Paragraph
    BY <1>1
<1>3. SubSeq(u, 1, m) = s
    <2>1. /\ SubSeq(u, 1, m) \in Seq(Paragraph) /\ Len(SubSeq(u, 1, m)) = m
          /\ \A i \in 1..m : SubSeq(u, 1, m)[i] = u[i]
        BY <1>1, <1>2, SubSeqProperties
    <2>2. \A i \in 1..m : SubSeq(u, 1, m)[i] = s[i]
        BY <1>1, <2>1
    <2> QED BY <2>1, <2>2, SeqEqual DEF m
<1>4. SubSeq(u, m + 1, m + n) = t
    <2>1. /\ SubSeq(u, m + 1, m + n) \in Seq(Paragraph) /\ Len(SubSeq(u, m + 1, m + n)) = n
          /\ \A i \in 1..n : SubSeq(u, m + 1, m + n)[i] = u[m + i]
        BY <1>1, <1>2, SubSeqProperties
    <2>2. \A i \in 1..n : SubSeq(u, m + 1, m + n)[i] = t[i]
        BY <1>1, <2>1
    <2> QED BY <2>1, <2>2, SeqEqual DEF n
<1> QED BY <1>1, <1>3, <1>4 DEF u, m, n

\* A middle part, and what is around it.
LEMMA MiddleSubSeq ==
    ASSUME NEW s \in Seq(Paragraph), NEW t \in Seq(Paragraph), NEW v \in Seq(Paragraph),
           NEW u, u = (s \o t) \o v
    PROVE  /\ SubSeq(u, 1, Len(s)) = s
           /\ SubSeq(u, Len(s) + 1, Len(s) + Len(t)) = t
           /\ SubSeq(u, Len(s) + Len(t) + 1, Len(u)) = v
<1> DEFINE m == Len(s)
           n == Len(t)
<1>1. s \o t \in Seq(Paragraph) /\ Len(s \o t) = m + n /\ m \in Nat /\ n \in Nat
    BY ConcatSubSeq
<1>2. SubSeq(u, Len(s \o t) + 1, Len(u)) = v
    BY <1>1, ConcatSubSeq
<1>3. t \o v \in Seq(Paragraph) /\ u = s \o (t \o v)
    BY ConcatThree
<1>4. SubSeq(u, 1, m) = s
    BY <1>3, ConcatSubSeq
<1>5. /\ u \in Seq(Paragraph) /\ Len(u) = (m + n) + Len(v) /\ Len(v) \in Nat
      /\ \A i \in 1..((m + n) + Len(v)) : u[i] = IF i <= m + n THEN (s \o t)[i] ELSE v[i - (m + n)]
    BY <1>1, ConcatProperties
<1>6. \A i \in 1..(m + n) : (s \o t)[i] = IF i <= m THEN s[i] ELSE t[i - m]
    BY ConcatProperties
<1> HIDE DEF m, n
<1>7. \A i \in 1..n : u[m + i] = t[i]
    <2> SUFFICES ASSUME NEW i \in 1..n PROVE u[m + i] = t[i]
        OBVIOUS
    <2>1. m + i \in 1..(m + n) /\ ~(m + i <= m) /\ (m + i) - m = i
        BY <1>1
    <2>2. m + i \in 1..((m + n) + Len(v)) /\ m + i <= m + n
        BY <1>1, <1>5, <2>1
    <2> QED BY <1>5, <1>6, <2>1, <2>2
<1>8. SubSeq(u, m + 1, m + n) = t
    <2>1. \A i \in 1..Len(u) : u[i] \in Paragraph
        BY <1>5
    <2>2. m + 1 \in 1..(Len(u) + 1) /\ m + n \in m..Len(u)
        BY <1>1, <1>5
    <2>3. /\ SubSeq(u, m + 1, m + n) \in Seq(Paragraph) /\ Len(SubSeq(u, m + 1, m + n)) = n
          /\ \A i \in 1..n : SubSeq(u, m + 1, m + n)[i] = u[m + i]
        BY <1>1, <1>5, <2>1, <2>2, SubSeqProperties
    <2>4. \A i \in 1..n : SubSeq(u, m + 1, m + n)[i] = t[i]
        BY <1>7, <2>3
    <2> QED BY <2>3, <2>4, SeqEqual DEF n
<1> QED BY <1>1, <1>2, <1>4, <1>8 DEF m, n

LEMMA PartsAppend ==
    ASSUME NEW c \in Chunk, NEW level \in Nat, NEW gs \in Seq(Group), NEW g \in Group
    PROVE  Parts(c, level, Append(gs, g)) = Append(Parts(c, level, gs), PartOf(c, level, g))
<1> DEFINE hs == Append(gs, g)
           n  == Len(gs)
<1>1. /\ hs \in Seq(Group) /\ DOMAIN hs = 1..(n + 1) /\ DOMAIN gs = 1..n /\ n \in Nat
      /\ hs[n + 1] = g /\ \A i \in 1..n : hs[i] = gs[i]
    BY AppendProperties
<1> HIDE DEF hs, n
<1>2. /\ Parts(c, level, gs) \in Seq(Chunk) /\ DOMAIN Parts(c, level, gs) = 1..n
      /\ Parts(c, level, hs) \in Seq(Chunk) /\ DOMAIN Parts(c, level, hs) = 1..(n + 1)
      /\ PartOf(c, level, g) \in Chunk
    <2>1. Parts(c, level, gs) \in Seq(Chunk) /\ DOMAIN Parts(c, level, gs) = DOMAIN gs
        BY PartsText
    <2>2. Parts(c, level, hs) \in Seq(Chunk) /\ DOMAIN Parts(c, level, hs) = DOMAIN hs
        BY <1>1, PartsText
    <2>3. PartOf(c, level, g) \in Chunk
        BY PartFacts
    <2> QED BY <1>1, <2>1, <2>2, <2>3
<1>3. Len(Parts(c, level, gs)) = n /\ Len(Parts(c, level, hs)) = n + 1
    BY <1>1, <1>2
<1>4. /\ Append(Parts(c, level, gs), PartOf(c, level, g)) \in Seq(Chunk)
      /\ Len(Append(Parts(c, level, gs), PartOf(c, level, g))) = n + 1
      /\ Append(Parts(c, level, gs), PartOf(c, level, g))[n + 1] = PartOf(c, level, g)
      /\ \A i \in 1..n : Append(Parts(c, level, gs), PartOf(c, level, g))[i] = Parts(c, level, gs)[i]
    BY <1>2, <1>3, AppendChunk
<1>5. \A i \in 1..n : Parts(c, level, hs)[i] = Parts(c, level, gs)[i]
    BY <1>1 DEF Parts
<1>6. Parts(c, level, hs)[n + 1] = PartOf(c, level, g)
    BY <1>1 DEF Parts
<1>7. \A i \in 1..(n + 1) : Parts(c, level, hs)[i] = Append(Parts(c, level, gs), PartOf(c, level, g))[i]
    BY <1>1, <1>4, <1>5, <1>6
<1> QED BY <1>2, <1>3, <1>4, <1>7, SeqEqual DEF hs

LEMMA PartsConcat ==
    ASSUME NEW c \in Chunk, NEW level \in Nat, NEW gs \in Seq(Group), NEW hs \in Seq(Group)
    PROVE  Parts(c, level, gs \o hs) = Parts(c, level, gs) \o Parts(c, level, hs)
<1> DEFINE T == {s \in Seq(Group) : Parts(c, level, gs \o s) = Parts(c, level, gs) \o Parts(c, level, s)}
<1>1. \A s \in Seq(Group) : Parts(c, level, s) \in Seq(Chunk)
    BY PartsText
<1>2. <<>> \in T
    <2>1. <<>> \in Seq(Group) /\ gs \o <<>> = gs /\ Parts(c, level, gs) \o <<>> = Parts(c, level, gs)
        BY <1>1, ConcatEmptySeq, EmptySeq
    <2>2. Parts(c, level, <<>>) = <<>>
        BY DEF Parts
    <2> QED BY <2>1, <2>2
<1>3. ASSUME NEW s \in Seq(Group), NEW g \in Group, s \in T PROVE Append(s, g) \in T
    <2>1. /\ Append(s, g) \in Seq(Group) /\ gs \o s \in Seq(Group)
          /\ gs \o Append(s, g) = Append(gs \o s, g)
        OBVIOUS
    <2>2. /\ Parts(c, level, Append(gs \o s, g)) = Append(Parts(c, level, gs \o s), PartOf(c, level, g))
          /\ Parts(c, level, Append(s, g)) = Append(Parts(c, level, s), PartOf(c, level, g))
        BY <2>1, PartsAppend
    <2>3. Parts(c, level, gs \o s) = Parts(c, level, gs) \o Parts(c, level, s)
        BY <1>3
    <2>4. Parts(c, level, gs) \o Append(Parts(c, level, s), PartOf(c, level, g))
              = Append(Parts(c, level, gs) \o Parts(c, level, s), PartOf(c, level, g))
        <3>1. PartOf(c, level, g) \in Chunk
            BY PartFacts
        <3>2. Parts(c, level, gs) \in Seq(Chunk) /\ Parts(c, level, s) \in Seq(Chunk)
            BY <1>1
        <3> QED BY <3>1, <3>2, ConcatAppend
    <2> QED BY <2>1, <2>2, <2>3, <2>4
<1>4. Seq(Group) \subseteq T
    <2> HIDE DEF T
    <2> QED BY <1>2, <1>3, SequencesInduction
<1> QED BY <1>4

\* The item's chunk stays whole, and is the one left out.
LEMMA ItemLeftOut ==
    ASSUME NEW ps \in Seq(Paragraph), NEW j \in ItemAt(ps), NEW e \in ItemEnd(ps, j),
           TooLarge(ps), ~TooLarge(SubSeq(ps, j, e))
    PROVE  Text(Kept(Subdivide(ps))) = SubSeq(ps, 1, j - 1) \o SubSeq(ps, e + 1, Len(ps))
<1> DEFINE c   == [label |-> <<>>, of |-> ps]
           gs  == SplitSequential(ps, 1)
<1>1. c \in Chunk /\ c.label = <<>> /\ c.of = ps
    <2>1. <<>> \in Labels
        BY EmptySeq DEF Labels
    <2> QED BY <2>1 DEF Chunk
<1>2. Subdivide(ps) = CutAll(CutAll(CutAll(<<c>>, 1), 2), 3)
    BY DEF Subdivide
<1>3. SplitInv(gs, ps, 1) /\ ItemInv(gs, ps)
    BY SplitFacts, ItemFacts
<1>4. \/ Cut(c, 1) = <<c>> /\ (~TooLarge(c.of) \/ Len(gs) <= 1)
      \/ Cut(c, 1) = Parts(c, 1, gs)
    BY <1>1, SectionCut
<1> HIDE DEF c, gs
<1>5. PICK front \in Seq(Group), g \in Group, rest \in Seq(Group) :
          /\ Around(gs, front, g, rest)
          /\ Len(Text(front)) = j - 1 /\ Len(Text(Append(front, g))) = e
    BY <1>3, ItemGroup
<1>6. /\ gs = Append(front, g) \o rest /\ Len(gs) > 1 /\ g.n = 2
      /\ \A i \in DOMAIN front : front[i].n # 2
      /\ \A i \in DOMAIN rest : rest[i].n # 2
    BY <1>5 DEF Around
<1> DEFINE item == PartOf(c, 1, g)
           fp   == Parts(c, 1, front)
           rp   == Parts(c, 1, rest)
           ft   == CutAll(fp, 2)
           rt   == CutAll(rp, 2)
           xs   == CutAll(ft, 3)
           zs   == CutAll(rt, 3)
<1>7. /\ Text(front) \in Seq(Paragraph) /\ g.of \in Seq(Paragraph) /\ Text(rest) \in Seq(Paragraph)
      /\ Text(Append(front, g)) = Text(front) \o g.of
      /\ ps = (Text(front) \o g.of) \o Text(rest)
    <2>1. front \in Seq(Piece) /\ g \in Piece /\ rest \in Seq(Piece)
        BY PieceSeq DEF Piece
    <2>2. Append(front, g) \in Seq(Piece) /\ Text(Append(front, g)) = Text(front) \o g.of
        BY <2>1, TextAppend
    <2>3. Text(gs) = Text(Append(front, g)) \o Text(rest)
        BY <1>6, <2>1, <2>2, TextConcat
    <2>4. Text(gs) = ps
        BY <1>3 DEF SplitInv
    <2>5. Text(front) \in Seq(Paragraph) /\ g.of \in Seq(Paragraph) /\ Text(rest) \in Seq(Paragraph)
        BY <2>1, TextType, PieceOf
    <2> QED BY <2>2, <2>3, <2>4, <2>5
<1>8. /\ j \in Nat /\ e \in Nat /\ Len(g.of) \in Nat
      /\ Len(Text(front)) + 1 = j /\ Len(Text(front)) + Len(g.of) = e
    <2>1. j \in 1..Len(ps) /\ Len(ps) \in Nat /\ e \in j..Len(ps)
        BY DEF ItemAt, ItemEnd
    <2>2. Len(Text(Append(front, g))) = Len(Text(front)) + Len(g.of)
        BY <1>7, ConcatSubSeq
    <2>3. Len(Text(front)) \in Nat /\ Len(g.of) \in Nat
        BY <1>7
    <2> QED BY <1>5, <2>1, <2>2, <2>3
<1>9. /\ SubSeq(ps, 1, j - 1) = Text(front) /\ SubSeq(ps, j, e) = g.of
      /\ SubSeq(ps, e + 1, Len(ps)) = Text(rest)
    <2>1. /\ SubSeq(ps, 1, Len(Text(front))) = Text(front)
          /\ SubSeq(ps, Len(Text(front)) + 1, Len(Text(front)) + Len(g.of)) = g.of
          /\ SubSeq(ps, Len(Text(front)) + Len(g.of) + 1, Len(ps)) = Text(rest)
        <3> DEFINE s == Text(front)
                   t == g.of
                   v == Text(rest)
        <3>1. s \in Seq(Paragraph) /\ t \in Seq(Paragraph) /\ v \in Seq(Paragraph) /\ ps = (s \o t) \o v
            BY <1>7
        <3> HIDE DEF s, t, v
        <3>2. /\ SubSeq(ps, 1, Len(s)) = s
              /\ SubSeq(ps, Len(s) + 1, Len(s) + Len(t)) = t
              /\ SubSeq(ps, Len(s) + Len(t) + 1, Len(ps)) = v
            BY <3>1, MiddleSubSeq
        <3> QED BY <3>2 DEF s, t, v
    <2> QED BY <1>5, <1>8, <2>1
<1>10. item \in Chunk /\ item.of = g.of /\ ~TooLarge(item.of) /\ item.label \in Excluded
    <2>1. item \in Chunk /\ item.of = g.of
        BY <1>1, PartFacts
    <2>2. ~TooLarge(item.of)
        BY <1>9, <2>1
    <2>3. item.label \in Excluded
        <3> DEFINE f == <<1, 2>>
        <3>1. Excluded = {<<f>>}
            BY DEF Excluded
        <3>2. item.label = Append(<<>>, f)
            BY <1>1, <1>6 DEF PartOf
        <3> HIDE DEF f
        <3>3. Append(<<>>, f) = <<f>>
            OBVIOUS
        <3> QED BY <3>1, <3>2, <3>3
    <2> QED BY <2>1, <2>2, <2>3
<1>11. /\ fp \in Seq(Chunk) /\ Text(fp) = Text(front) /\ NoItem(fp)
       /\ rp \in Seq(Chunk) /\ Text(rp) = Text(rest) /\ NoItem(rp)
    BY <1>1, <1>6, PartsText, NoItemParts
<1>12. CutAll(<<c>>, 1) = Append(fp, item) \o rp
    <2>1. Cut(c, 1) = Parts(c, 1, gs)
        <3>1. TooLarge(c.of)
            BY <1>1
        <3>2. ~(Len(gs) <= 1)
            <4>1. Len(gs) \in Nat
                BY <1>3 DEF SplitInv
            <4> QED BY <1>6, <4>1
        <3> QED BY <1>4, <3>1, <3>2
    <2>2. Append(front, g) \in Seq(Group)
        OBVIOUS
    <2>3. Parts(c, 1, gs) = Parts(c, 1, Append(front, g)) \o rp
        BY <1>1, <1>6, <2>2, PartsConcat
    <2>4. Parts(c, 1, Append(front, g)) = Append(fp, item)
        BY <1>1, PartsAppend
    <2> QED BY <1>1, <2>1, <2>3, <2>4, CutOne
<1> HIDE DEF item, fp, rp
<1>13. /\ ft \in Seq(Chunk) /\ Text(ft) = Text(front) /\ NoItem(ft)
       /\ rt \in Seq(Chunk) /\ Text(rt) = Text(rest) /\ NoItem(rt)
    BY <1>11, CutAllFacts, NoItemCut DEF AllCut
<1>14. CutAll(Append(fp, item) \o rp, 2) = Append(ft, item) \o rt
    BY <1>10, <1>11, CutAround
<1> HIDE DEF ft, rt
<1>15. /\ xs \in Seq(Chunk) /\ Text(xs) = Text(front) /\ NoItem(xs)
       /\ zs \in Seq(Chunk) /\ Text(zs) = Text(rest) /\ NoItem(zs)
    BY <1>13, CutAllFacts, NoItemCut DEF AllCut
<1>16. CutAll(Append(ft, item) \o rt, 3) = Append(xs, item) \o zs
    <2>1. ft \in Seq(Chunk) /\ rt \in Seq(Chunk) /\ item \in Chunk /\ ~TooLarge(item.of) /\ 3 \in Nat
        BY <1>10, <1>13
    <2>2. CutAll(Append(ft, item) \o rt, 3) = Append(CutAll(ft, 3), item) \o CutAll(rt, 3)
        BY <2>1, CutAround, Zenon
    <2> QED BY <2>2
<1> HIDE DEF xs, zs
<1>17. Subdivide(ps) = Append(xs, item) \o zs
    BY <1>2, <1>12, <1>14, <1>16
<1>18. Kept(Append(xs, item) \o zs) = xs \o zs
    <2>1. Kept(Append(xs, item)) = Kept(xs) \o <<>>
        BY <1>10, <1>15, KeptAppend DEF Retained
    <2>2. Kept(xs) = xs /\ Kept(zs) = zs
        BY <1>15, KeptFacts DEF KeptInv
    <2>3. xs \o <<>> = xs
        BY <1>15, ConcatEmptySeq
    <2>4. Append(xs, item) \in Seq(Chunk)
        BY <1>10, <1>15, AppendChunk
    <2>5. Kept(Append(xs, item) \o zs) = Kept(Append(xs, item)) \o Kept(zs)
        BY <1>15, <2>4, KeptConcat
    <2> QED BY <2>1, <2>2, <2>3, <2>5
<1>19. Text(xs \o zs) = Text(front) \o Text(rest)
    <2>1. xs \in Seq(Piece) /\ zs \in Seq(Piece)
        BY <1>15, PieceSeq
    <2>2. Text(xs \o zs) = Text(xs) \o Text(zs)
        BY <2>1, TextConcat
    <2> QED BY <1>15, <2>2
<1> QED BY <1>9, <1>17, <1>18, <1>19

\* What ChunksPartition says of the chunks of a section.
Partitions(ps, kept) ==
    LET all == Subdivide(ps)
    IN  /\ Text(all) = ps
        /\ \A i, j \in DOMAIN all : all[i].label = all[j].label => i = j
        /\ \A j \in ItemAt(ps) : \A e \in ItemEnd(ps, j) :
            TooLarge(ps) /\ ~TooLarge(SubSeq(ps, j, e))
                => Text(kept) = SubSeq(ps, 1, j - 1) \o SubSeq(ps, e + 1, Len(ps))
        /\ ItemAt(ps) = {} => Text(kept) = ps
        /\ \A c \in Range(kept) : TooLarge(c.of) =>
            \A i \in 2..Len(c.of) : c.of[i].level = Levels => c.of[1].level = Levels

LEMMA KeptPartitions ==
    ASSUME NEW ps \in Seq(Paragraph)
    PROVE  Partitions(ps, Kept(Subdivide(ps)))
<1> DEFINE all  == Subdivide(ps)
           kept == Kept(all)
<1>1. /\ all \in Seq(Chunk) /\ Text(all) = ps /\ Distinct(all)
      /\ \A i \in DOMAIN all : Divided(all[i], Levels)
    BY SubdivideFacts
<1>2. KeptInv(kept, all)
    BY <1>1, KeptFacts
<1>3. ASSUME NEW j \in ItemAt(ps), NEW e \in ItemEnd(ps, j), TooLarge(ps), ~TooLarge(SubSeq(ps, j, e))
      PROVE  Text(kept) = SubSeq(ps, 1, j - 1) \o SubSeq(ps, e + 1, Len(ps))
    BY <1>3, ItemLeftOut
<1>4. ASSUME ItemAt(ps) = {} PROVE Text(kept) = ps
    <2>1. NoItem(all)
        BY <1>4, NothingExcluded
    <2> QED BY <1>1, <1>2, <2>1 DEF KeptInv
<1> HIDE DEF all, kept
<1>5. ASSUME NEW c \in Range(kept), TooLarge(c.of), NEW i \in 2..Len(c.of), c.of[i].level = Levels
      PROVE  c.of[1].level = Levels
    <2>1. PICK x \in DOMAIN kept : c = kept[x]
        BY DEF Range
    <2>2. PICK y \in DOMAIN all : kept[x] = all[y]
        BY <1>2 DEF KeptInv
    <2>3. c \in Chunk /\ Divided(c, Levels)
        BY <1>1, <2>1, <2>2
    <2> QED BY <1>5, <2>3, LastLevel
<1>6. \A i, j \in DOMAIN all : all[i].label = all[j].label => i = j
    BY <1>1 DEF Distinct
<1> QED BY <1>1, <1>3, <1>4, <1>5, <1>6 DEF Partitions, all, kept

-----------------------------------------------------------------------------
(* The chunks an operation returns                                         *)

ChunksInv ==
    /\ op.kind = "chunks" => op.paragraphs \in Seq(Paragraph)
    /\ out.is = "chunks" => op.kind = "chunks" /\ out.all = Kept(Subdivide(op.paragraphs))

LEMMA ChunksInit == Init => ChunksInv
<1> SUFFICES ASSUME Init PROVE ChunksInv
    OBVIOUS
<1>1. out.is # "chunks"
    BY InitKinds DEF Nothing
<1>2. ASSUME op.kind = "chunks" PROVE op.paragraphs \in Seq(Paragraph)
    <2>1. op \in ChunkInputs
        BY <1>2 DEF Init, Start, AnswerInputs, DraftInputs, Drafting, ReplyInputs, Proposing,
                    SlaInputs, PipelineInputs
    <2>2. op.paragraphs \in BoundedSeq(Paragraph, MaxLength)
        BY <2>1 DEF ChunkInputs
    <2> QED BY <2>2 DEF BoundedSeq, SeqOf
<1> QED BY <1>1, <1>2 DEF ChunksInv

LEMMA ChunksStep == ChunksInv /\ OutcomeInv /\ [Next]_vars => ChunksInv'
<1> SUFFICES ASSUME ChunksInv, OutcomeInv, [Next]_vars PROVE ChunksInv'
    OBVIOUS
<1>1. op' = op
    BY StepOfKind
<1>2. OutcomeInv'
    BY OutcomeStep
<1>3. CASE op.kind \in Answering \cup Drafting \cup Replying
    <2>1. out'.is # "chunks" /\ op'.kind # "chunks"
        BY <1>1, <1>2, <1>3 DEF OutcomeInv, Results, Answering, Drafting, Replying, Asking, Proposing
    <2> QED BY <2>1 DEF ChunksInv
<1>4. CASE CorpusNext /\ op.kind = "chunks"
    <2>1. \/ out'.is = "error"
          \/ out'.all = Kept(Subdivide(op.paragraphs))
        BY <1>4 DEF CorpusNext, ChunkSection, Raise, End
    <2> QED BY <1>1, <1>4, <2>1 DEF ChunksInv
<1>5. CASE UNCHANGED call
    BY <1>5 DEF ChunksInv, call
<1> QED BY <1>3, <1>4, <1>5, StepOfKind

\* The chunks of a section are its paragraphs, in order and each once, under
\* labels of their own; the excluded item and nothing else is left out; and
\* what is still too large is what no list of the last level divides: for any
\* number of paragraphs and any limit (chunk_section, _subdivide,
\* _split_sequential).
THEOREM ChunksArePartition == Spec => []ChunksPartition
<1>1. ChunksInv => ChunksPartition
    <2> SUFFICES ASSUME ChunksInv, Returned("chunks")
                 PROVE  Partitions(op.paragraphs, out.all)
        BY DEF ChunksPartition, Partitions
    <2>1. op.paragraphs \in Seq(Paragraph) /\ out.all = Kept(Subdivide(op.paragraphs))
        BY DEF ChunksInv, Returned
    <2> QED BY <2>1, KeptPartitions
<1> QED BY <1>1, ChunksInit, ChunksStep, AlwaysOutcome, PTL DEF Spec
=============================================================================
