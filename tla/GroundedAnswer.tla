--------------------------- MODULE GroundedAnswer ---------------------------
(***************************************************************************)
(* Answers from a corpus: the policy questions of policy_intelligence/qa,  *)
(* a general one and "why was I denied", and the caseworkers' SOP copilot, *)
(* which has no provenance table.  What the corpus gives is a set of       *)
(* labels; what a text mentions is another, and a label within a longer    *)
(* one that is mentioned is found there too.                               *)
(***************************************************************************)
EXTENDS Corpus

CONSTANTS
    Label,          \* the corpus: identifiers of its chunks
    InPartial,      \* bound: those of an index that was filled in part
    Within,         \* <<l, m>>: label l is a substring of label m
    MaxSearches     \* _MAX_SEARCH_ATTEMPTS

VARIABLE row    \* the answer's row of ai.policy_qa_answer

AnswerInputs == [kind : {"general", "sop"}] \cup
                [kind : {"denial"}, reason : {"ELIGIBLE", "other"}]

Answering == {"general", "denial", "sop"}
Policy    == {"general", "denial"}

NoModel == "null"

Answer(how, cited) == [is |-> "answer", how |-> how, citations |-> cited]

\* provenance.record: a failing insert loses the answer with it.
Record(answer, model, retrieved) ==
    \/ /\ row' = [answer |-> answer.how, citations |-> answer.citations,
                  model |-> model, retrieved |-> retrieved]
       /\ End(answer)
    \/ Raise("OperationalError") /\ UNCHANGED row

\* How an operation ends: the SOP copilot records nothing.
Finish(answer, model) ==
    IF op.kind \in Policy THEN Record(answer, model, facts.chunks)
    ELSE End(answer) /\ UNCHANGED row

-----------------------------------------------------------------------------
(* retrieval                                                               *)

\* answer_denial: the applicant's own trace, under their token; a household
\* found eligible gets a fixed answer, from no corpus and no model.
FetchTrace ==
    /\ At({"denial"}, "start")
    /\ \/ /\ op.reason = "ELIGIBLE"
          /\ Record(Answer("eligible", {}), NoModel, {})
       \/ op.reason # "ELIGIBLE" /\ Go("search") /\ UNCHANGED row
       \/ Raise("HTTPStatusError") /\ UNCHANGED row
    /\ UNCHANGED <<op, facts, tries, text, calls, index>>

Indexed == CASE index = "full"    -> Label
             [] index = "partial" -> InPartial
             [] OTHER             -> {}

AtSearch == At({"general", "sop"}, "start") \/ At({"denial"}, "search")

\* hybrid_search: the nearest vectors are found whatever they are; a 429 of
\* the reranker is tried again, any other error is raised, as is the
\* embedding's.
Search ==
    /\ AtSearch
    /\ \/ /\ index # "missing"
          /\ \E chunks \in SUBSET Indexed, near, fits \in BOOLEAN :
                /\ chunks = {} <=> Indexed = {}
                /\ facts' = [chunks |-> chunks, near |-> near, fits |-> fits]
          /\ Go("ask") /\ UNCHANGED tries
       \/ /\ tries.bad + 1 < MaxSearches
          /\ tries' = [tries EXCEPT !.bad = @ + 1]
          /\ UNCHANGED <<at, out, facts>>
       \/ Raise("TransportError") /\ UNCHANGED <<facts, tries>>
    /\ UNCHANGED <<op, text, calls, index, row>>

-----------------------------------------------------------------------------
(* generation                                                              *)

\* Seeded bug: what was retrieved counts as cited.
UncheckedCited(chunks, mentions) == chunks

\* _cited_sections: the identifier is somewhere in the text.
Cited(chunks, mentions) ==
    {l \in chunks : \E m \in mentions : l = m \/ <<l, m>> \in Within}

Weak == facts.chunks = {} \/ ~facts.near

\* Nothing near enough, and the model is not asked.
AbstainWeak ==
    /\ At(Answering, "ask") /\ Weak
    /\ Finish(Answer("weak_retrieval", {}), NoModel)
    /\ UNCHANGED <<op, facts, tries, text, calls, index>>

\* Only the policy service turns a prompt that is too long into an answer.
AbstainLong ==
    /\ At(Answering, "ask") /\ ~Weak /\ TooLong
    /\ IF op.kind \in Policy
       THEN Finish(Answer("prompt_too_long", {}), NoModel)
       ELSE Raise("PromptTooLongError") /\ UNCHANGED row
    /\ UNCHANGED <<op, facts, tries, text, calls, index>>

Draft ==
    /\ At(Answering, "ask") /\ ~Weak
    /\ Generate(SUBSET Label, "check")
    /\ UNCHANGED <<op, facts, tries, index, row>>

\* A text that cites nothing is drafted once more, by the same prompt.
Redraft ==
    /\ At(Answering, "check") /\ Cited(facts.chunks, text) = {} /\ tries.rejected = 0
    /\ AskAgain([tries EXCEPT !.rejected = 1])
    /\ UNCHANGED <<op, facts, calls, index, row>>

AbstainUngrounded ==
    /\ At(Answering, "check") /\ Cited(facts.chunks, text) = {} /\ tries.rejected = 1
    /\ Finish(Answer("ungrounded_after_retry", {}), NoModel)
    /\ UNCHANGED <<op, facts, tries, text, calls, index>>

Accept ==
    /\ At(Answering, "check") /\ Cited(facts.chunks, text) # {}
    /\ Finish(Answer("model", Cited(facts.chunks, text)), "model")
    /\ UNCHANGED <<op, facts, tries, text, calls, index>>

AnswerNext == FetchTrace \/ Search \/ AbstainWeak \/ AbstainLong \/ Draft
                \/ Redraft \/ AbstainUngrounded \/ Accept

-----------------------------------------------------------------------------

\* An answer is attributed to what it rests on: its citations were retrieved
\* for it, and each is named in the text or inside a longer name that is, so
\* that a longer identifier misquoted may count for the shorter one; an
\* answer without citations was abstained from after no call or, against
\* provenance.py:29, after two that cited nothing, or needed no corpus; a
\* policy answer has its row, and the row says what the caller was told, and
\* names a model exactly when one wrote the answer (_retrieve_and_answer,
\* provenance.record).
AnswerAttributed ==
    /\ Returned("answer") =>
        /\ op.kind \in Policy <=> row # Nothing
        /\ row # Nothing => /\ row.answer = out.how /\ row.citations = out.citations
                            /\ row.model = NoModel <=> out.citations = {}
                            /\ row.citations \subseteq row.retrieved
        /\ out.how = "model" =>
            /\ out.citations # {} /\ out.citations \subseteq facts.chunks
            /\ calls = tries.rejected + 1
            /\ \A l \in out.citations : \E m \in text : l = m \/ <<l, m>> \in Within
        /\ out.how = "ungrounded_after_retry" => calls = 2 /\ text \cap facts.chunks = {}
        /\ out.how \in {"weak_retrieval", "prompt_too_long", "eligible"} => calls = 0
    /\ row # Nothing => Returned("answer")
=============================================================================
