-------------------------- MODULE StructuredReply ---------------------------
(***************************************************************************)
(* Replies that must fit what they will be applied to: a proposal of       *)
(* parameter values (rule_authoring), of measures and visuals for a report *)
(* (dashboard_assist), the classification of a document (document_intake), *)
(* a query of a metric, by a model's tool call or an MCP client's          *)
(* (analytics_copilot).  A reply that does not fit is asked for once more. *)
(***************************************************************************)
EXTENDS ModelCall, Integers, SequencesExt, FiniteSetsExt

CONSTANTS
    MaxTries,       \* _MAX_ATTEMPTS, _MAX_QUERY_ATTEMPTS
    Parameter,      \* the current set's keys, name and household size
    Value,          \* bound: parameter values, in hundredths
    Field, Measure, \* the report's one table
    Metric, Dimension,
    Element         \* verification data elements

Proposing == {"rules", "dashboard", "document"}
Asking    == {"rules", "dashboard", "document", "query"}

ReplyInputs == [kind : Proposing \cup {"tool"}] \cup [kind : {"query"}, access : BOOLEAN]

NoReply == [is |-> "malformed"]
Unknown == "unknown"

ASSUME ReplyAssumption == /\ MaxTries \in Nat \ {0} /\ Value \subseteq Int
                          /\ "" \notin Field

UpTo(n, S) == UNION {[1..m -> S] : m \in 0..n}

-----------------------------------------------------------------------------
(* rule_authoring: _reconcile and the domain of each unit                  *)

InDomain(v, unit) == /\ v >= 0
                     /\ unit = "RATE" => v <= 100
                     /\ unit = "COUNT" => v % 100 = 0

RuleFacts ==
    {f \in [fits : BOOLEAN, unit : {"USD_PER_MONTH", "RATE", "COUNT"}, of : [Parameter -> Value]] :
        \A k \in Parameter : InDomain(f.of[k], f.unit)}

RuleReplies == UpTo(2, [key : Parameter \cup {Unknown}, new : Value])

Good(item) == /\ item.key # Unknown
              /\ item.new # facts.of[item.key] => InDomain(item.new, facts.unit)

\* Seeded bug: an item proposed twice is not noticed.
RepeatsFit(items) == \A item \in Range(items) : Good(item)

ItemsFit(items) ==
    /\ \A item \in Range(items) : Good(item)
    /\ \A i, j \in DOMAIN items : items[i].key = items[j].key => i = j

\* Items that change nothing are left out, once their keys are noted; the
\* others keep their places.
Changes(items) ==
    [i \in {i \in DOMAIN items : items[i].new # facts.of[items[i].key]} |->
        [key |-> items[i].key, old |-> facts.of[items[i].key], new |-> items[i].new]]

-----------------------------------------------------------------------------
(* dashboard_assist: _validate_references                                  *)

NewMeasure == "new measure"
OnTable == Field \cup Measure
DashboardReplies ==
    [measures : UpTo(2, [name : Measure \cup {NewMeasure}, table : {"table", Unknown},
                         dax : {"", Unknown} \cup Field]),
     visuals  : UpTo(1, [table : {"table", Unknown}, field : OnTable \cup {NewMeasure, Unknown}])]

ReferencesFit(p) ==
    /\ \A i \in DOMAIN p.measures : p.measures[i].dax # "" /\ p.measures[i].table = "table"
    /\ \A i, j \in DOMAIN p.measures : p.measures[i].name = p.measures[j].name => i = j
    /\ \A v \in Range(p.visuals) : v.table = "table" /\ v.field \in OnTable

-----------------------------------------------------------------------------
(* analytics_copilot: QueryMetricArgs and the query                        *)

\* A filter compares a dimension; it leads the expression or stands later.
QueryReplies ==
    [tool : {"query_metric"}, metric : Metric \cup {Unknown},
     groups : SUBSET Dimension, filters : SUBSET [on : Dimension, leads : BOOLEAN]]
        \cup {[tool |-> "other"], [tool |-> "none"]}

ArgsFit(a) ==
    /\ a.metric # Unknown
    /\ \A f \in a.filters : f.leads => f.on \notin a.groups

-----------------------------------------------------------------------------
(* document_intake: the elements a document is evidence for, and how sure  *)
(* its fields are                                                          *)

DocumentReplies == [evidence : SUBSET Element, fields : SUBSET (0..2)]

-----------------------------------------------------------------------------
(* The operations                                                          *)

ReadBy(kind) == At({kind}, "start") /\ UNCHANGED <<op, tries, text, calls>>

\* The current values are the caller's.
ReadCurrentValues == ReadBy("rules") /\ facts' \in RuleFacts /\ Go("ask")

ReadCurrentModel == ReadBy("dashboard") /\ facts' \in [fits : BOOLEAN] /\ Go("ask")

\* A document is fetched and its text extracted.
FetchDocument ==
    /\ ReadBy("document")
    /\ \/ facts' \in [fits : BOOLEAN] /\ Go("ask")
       \/ Raise("ClientError") /\ UNCHANGED facts

\* A token is checked and the tools of its role, if any, are offered.
OfferTools ==
    /\ ReadBy("query") /\ op.access
    /\ facts' \in [fits : BOOLEAN] /\ Go("ask")

RefuseCaller ==
    /\ ReadBy("query") /\ ~op.access
    /\ \E e \in {"TokenValidationError", "NoAccessibleMetricsError"} : Raise(e)
    /\ UNCHANGED facts

RepliesTo(kind) ==
    CASE kind = "rules"     -> [is : {"reply"}, of : RuleReplies] \cup {NoReply}
      [] kind = "dashboard" -> [is : {"reply"}, of : DashboardReplies] \cup {NoReply}
      [] kind = "document"  -> [is : {"reply"}, of : DocumentReplies] \cup {NoReply}
      [] kind = "query"     -> [is : {"reply"}, of : QueryReplies]

AskModel ==
    /\ At(Asking, "ask")
    /\ \/ Generate(RepliesTo(op.kind), "fit")
       \/ TooLong /\ Raise("PromptTooLongError") /\ UNCHANGED <<text, calls>>
    /\ UNCHANGED <<op, facts, tries>>

Fits == text # NoReply /\
    CASE op.kind = "rules"     -> ItemsFit(text.of)
      [] op.kind = "dashboard" -> ReferencesFit(text.of)
      [] op.kind \in {"query", "tool"} -> ArgsFit(text.of)
      [] OTHER -> TRUE

\* Not asked again: a model that called no tool, or another one.
NoQuery ==
    /\ At({"query"}, "fit") /\ text.of.tool # "query_metric"
    /\ Raise(IF text.of.tool = "none" THEN "NoToolCallError" ELSE "UnsupportedToolError")
    /\ UNCHANGED <<op, facts, tries, text, calls>>

Queried == op.kind \in {"query", "tool"} => text.of.tool = "query_metric"

\* The rejection is told to the model only where a query is corrected, whose
\* prompt grows by it and may then be too long.
Again ==
    /\ IF op.kind # "tool" /\ tries.bad + 1 < MaxTries
       THEN /\ AskAgain([tries EXCEPT !.bad = @ + 1])
            /\ IF op.kind # "query" THEN UNCHANGED facts
               ELSE \E fits \in BOOLEAN : facts' = [facts EXCEPT !.fits = fits]
       ELSE Raise("Rejected") /\ UNCHANGED <<facts, tries, text>>
    /\ UNCHANGED <<op, calls>>

Misfit == At(Asking \cup {"tool"}, "fit") /\ Queried /\ ~Fits /\ Again

\* An MCP client names the tool and its arguments itself, and no role.
CallTool ==
    /\ At({"tool"}, "start")
    /\ text' \in [is : {"reply"}, of : {r \in QueryReplies : r.tool = "query_metric"}]
    /\ Go("fit")
    /\ UNCHANGED <<op, facts, tries, calls>>

\* mf compiles the query or rejects it, as a misfit; the warehouse may fail
\* to run it, once and for all.
RunQuery ==
    /\ At({"query", "tool"}, "fit") /\ Queried /\ Fits
    /\ \/ End([is |-> "rows", args |-> text.of]) /\ UNCHANGED <<op, facts, tries, text, calls>>
       \/ Raise("duckdb.Error") /\ UNCHANGED <<op, facts, tries, text, calls>>
       \/ Again

ProposeBy(kind, proposed) ==
    /\ At({kind}, "fit") /\ Fits
    /\ End([is |-> "proposal", of |-> proposed])
    /\ UNCHANGED <<op, facts, tries, text, calls>>

ProposeParameterChanges == ProposeBy("rules", Changes(text.of))
ProposeDashboard        == ProposeBy("dashboard", text.of)

\* The case's outstanding verifications among those the document is evidence
\* for; the lowest confidence, none being the lowest.
MatchDocument ==
    /\ At({"document"}, "fit") /\ Fits
    /\ \/ \E outstanding \in SUBSET Element :
            End([is |-> "document", matched |-> outstanding \cap text.of.evidence,
                 least |-> IF text.of.fields = {} THEN 0 ELSE Min(text.of.fields)])
       \/ Raise("OperationalError")
    /\ UNCHANGED <<op, facts, tries, text, calls>>

ReplyNext ==
    \/ ReadCurrentValues \/ ReadCurrentModel \/ FetchDocument \/ OfferTools \/ RefuseCaller
    \/ AskModel \/ NoQuery \/ Misfit \/ CallTool \/ RunQuery
    \/ ProposeParameterChanges \/ ProposeDashboard \/ MatchDocument

-----------------------------------------------------------------------------

\* A proposal accepted by the reviewer can be applied: of parameters, to the
\* set it was drafted against, changing each named one once, to a value its
\* unit allows, and leaving out none that the model said would change.
RulesApply ==
    Returned("proposal") /\ op.kind = "rules" =>
        /\ \A c \in Range(out.of) : c.key \in Parameter /\ c.old = facts.of[c.key]
                                      /\ c.new # c.old /\ InDomain(c.new, facts.unit)
        /\ \A i, j \in DOMAIN out.of : out.of[i].key = out.of[j].key => i = j
        /\ \A item \in Range(text.of) :
                item.new = facts.of[item.key] \/ \E c \in Range(out.of) : c.key = item.key

\* A dashboard proposal is one the report takes, but for a measure named as
\* one it has or an expression that names no column of it, which nothing
\* checks; and one it would take is rejected only for a visual of a measure
\* that the same proposal adds.
Takes(p) ==
    /\ \A m \in Range(p.measures) : m.table = "table" /\ m.name = NewMeasure /\ m.dax \in Field
    /\ \A i, j \in DOMAIN p.measures : p.measures[i].name = p.measures[j].name => i = j
    /\ \A v \in Range(p.visuals) : v.table = "table" /\
            v.field \in OnTable \cup {m.name : m \in Range(p.measures)}

DashboardApplies ==
    op.kind = "dashboard" =>
        /\ Returned("proposal") =>
            Takes(out.of) \/ \E m \in Range(out.of.measures) : m.name \in Measure \/ m.dax = Unknown
        /\ Raised("Rejected") /\ text # NoReply =>
            ~Takes(text.of) \/ \E v \in Range(text.of.visuals) : v.field = NewMeasure

\* Rows go to a caller with a role (an MCP client has none to show), for a
\* known metric, never narrowed on a dimension they are broken out by unless
\* the filter does not begin with it.
RowsAllowed ==
    Returned("rows") =>
        /\ op.kind = "tool" \/ op.access
        /\ out.args.metric \in Metric
        /\ \A f \in out.args.filters : f.on \in out.args.groups => ~f.leads

\* What comes of a reply fits what it is applied to, and two calls are made
\* at most (_reconcile, _validate_references, QueryMetricArgs, ask).
ReplyApplies ==
    /\ RulesApply /\ DashboardApplies /\ RowsAllowed
    /\ op.kind \in Asking => calls <= MaxTries
=============================================================================
