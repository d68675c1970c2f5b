---------------------------- MODULE DraftedText -----------------------------
(***************************************************************************)
(* Texts a model drafts from a record and a check compares with it: the    *)
(* explanation of a notice (correspondence), the summary of a payment      *)
(* error (qc_assistant), why a case is late (sla_monitor), what a failed   *)
(* test means (data_quality) and an improvement suggested from a metric    *)
(* (analytics_copilot/mining).                                             *)
(*                                                                         *)
(* A text mentions figures and names.  Each check finds figures by a       *)
(* pattern; those in words, or a notice's dollars without cents, are in    *)
(* none and are left out here.  A narrative's figures are in hundredths.   *)
(***************************************************************************)
EXTENDS ModelCall, Integers, FiniteSets

CONSTANTS
    Whole, Hundredths,  \* bounds: figures texts mention
    FallsShort,         \* those whose float times 100 is just below: 28.99... of 0.29
    Name,               \* slots, verification types, or models
    MaxAttempts         \* _MAX_ATTEMPTS

ASSUME DraftAssumption == /\ Whole \subseteq Int /\ Hundredths \subseteq Int
                          /\ FallsShort \subseteq Hundredths \ {0}
                          /\ MaxAttempts \in Nat \ {0}

Drafting == {"notice", "qc", "reason", "incident", "narrative"}
DraftInputs == [kind : Drafting]

Stored  == {"notice", "qc"}     \* by the worker's handler

Abs(n) == IF n < 0 THEN -n ELSE n

Figure == IF op.kind = "narrative" THEN Hundredths ELSE Whole

AtMost(n, S) == {T \in SUBSET S : Cardinality(T) <= n}

Malformed == [is |-> "malformed"]
Replies == [F \in {Whole, Hundredths} |->
               [is : {"json"}, figures : AtMost(2, F), names : SUBSET Name] \cup {Malformed}]

-----------------------------------------------------------------------------
(* What the record says, and what a check makes of it and of a text        *)

\* What is gathered: figures, and names a text may or, of an incident, must
\* use; whether the prompt will fit.
Gathered == [values : AtMost(2, Figure) \ {{}}, names : SUBSET Name, fits : BOOLEAN]

GatherBy(kind, names) ==
    /\ At({kind}, "start")
    /\ facts' \in {r \in Gathered : r.names \in names} /\ Go("ask")
    /\ UNCHANGED <<op, tries, text, calls>>

\* The names of a notice are its template's slots, all filled.
FetchDetermination == GatherBy("notice", {{}})
FetchTraces        == GatherBy("qc", {{}})
GatherStallContext == GatherBy("reason", SUBSET Name)
GatherContext      == GatherBy("incident", {{n} : n \in Name})
RunMetric          == GatherBy("narrative", {{}})

NotFound ==
    /\ At({"notice", "qc"}, "start")
    /\ Raise("DeterminationNotFoundError")
    /\ UNCHANGED <<op, facts, tries, text, calls>>

\* int() and round() to whole numbers; round takes a half to the even one.
Truncated(v) == IF v < 0 THEN -(Abs(v) \div 100) ELSE v \div 100

Rounded(v) ==
    LET whole == Abs(v) \div 100
        rest  == Abs(v) % 100
        near  == IF rest > 50 \/ (rest = 50 /\ whole % 2 = 1) THEN whole + 1 ELSE whole
    IN  IF v < 0 THEN -near ELSE near

\* int(v * 100) of a float: one nearer to 0 where the product falls short.
Percent(v) == IF v \notin FallsShort THEN v ELSE IF v < 0 THEN v + 1 ELSE v - 1

\* A payment error's values are its two amounts (the traces' are known too),
\* and their difference counts with either sign.
KnownAmounts == facts.values \cup {a - b : a, b \in facts.values}

\* A metric's value also counts as a percentage, each truncated and rounded;
\* v itself is round(v * 100), which the float is never half a unit away from.
KnownNumbers == UNION {{Truncated(v), Rounded(v), Percent(v), v} : v \in facts.values}

Known == CASE op.kind = "qc"        -> KnownAmounts
           [] op.kind = "narrative" -> KnownNumbers
           [] OTHER                 -> facts.values

\* What the pattern's match is taken for: only the payment errors' keeps a
\* sign, and the narratives' drops the fraction.
Reading(n) ==
    CASE op.kind = "qc" -> n
      [] op.kind = "narrative" -> Abs(n) \div 100
      [] OTHER -> Abs(n)

\* Seeded bug: one good figure is enough.
SomeFigureKnown ==
    text.figures = {} \/ \E n \in text.figures : Reading(n) \in Known

FiguresKnown == \A n \in text.figures : Reading(n) \in Known

NamesKnown ==
    CASE op.kind \in {"notice", "reason"} -> text.names \subseteq facts.names
      [] op.kind = "incident" -> facts.names \subseteq text.names
      [] OTHER -> TRUE

\* validate, grounding_errors; an incident's figures are not looked at.
Passes == NamesKnown /\ (op.kind = "incident" \/ FiguresKnown)

-----------------------------------------------------------------------------
(* The loops                                                               *)

Ask ==
    /\ At(Drafting, "ask")
    /\ \/ Generate(Replies[Figure], "read")
       \/ TooLong /\ Raise("PromptTooLongError") /\ UNCHANGED <<text, calls>>
    /\ UNCHANGED <<op, facts, tries>>

\* A malformed reply and a rejected draft have a loop each, around one
\* another, but an incident's share one.
Spent == IF op.kind = "incident" THEN tries.bad + tries.rejected ELSE tries.bad

ReadMalformed ==
    /\ At(Drafting, "read") /\ text = Malformed
    /\ IF Spent + 1 < MaxAttempts THEN AskAgain([tries EXCEPT !.bad = @ + 1])
       ELSE /\ Raise(IF op.kind = "incident" /\ tries.rejected > 0
                     THEN "GroundingError" ELSE "DraftError")
            /\ UNCHANGED <<tries, text>>
    /\ UNCHANGED <<op, facts, calls>>

Rejected == IF op.kind = "incident" THEN [tries EXCEPT !.rejected = @ + 1]
            ELSE [bad |-> 0, rejected |-> tries.rejected + 1]

\* A notice is not drafted again: it is stored with its errors.
Reject ==
    /\ At(Drafting \ {"notice"}, "read") /\ text # Malformed /\ ~Passes
    /\ IF (IF op.kind = "incident" THEN Spent ELSE tries.rejected) + 1 < MaxAttempts
       THEN AskAgain(Rejected)
       ELSE Raise("GroundingError") /\ UNCHANGED <<tries, text>>
    /\ UNCHANGED <<op, facts, calls>>

Drafted == [is |-> "text", passed |-> Passes]

Keep ==
    /\ At(Drafting, "read") /\ text # Malformed /\ (Passes \/ op.kind = "notice")
    /\ IF op.kind \in Stored THEN Go("store") ELSE End(Drafted)
    /\ UNCHANGED <<op, facts, tries, text, calls>>

\* _persist: the row and its event, in one transaction.
StoreBy(kind) ==
    /\ At({kind}, "store")
    /\ End(Drafted) \/ Raise("OperationalError")
    /\ UNCHANGED <<op, facts, tries, text, calls>>

StoreNotice  == StoreBy("notice")
StoreSummary == StoreBy("qc")

DraftNext ==
    \/ FetchDetermination \/ FetchTraces \/ GatherStallContext \/ GatherContext \/ RunMetric
    \/ NotFound
    \/ Ask \/ ReadMalformed \/ Reject \/ Keep
    \/ StoreNotice \/ StoreSummary

-----------------------------------------------------------------------------

\* A figure of the record, whatever it counts there.
True(n) == \/ n \in facts.values
           \/ op.kind = "qc" /\ \E a, b \in facts.values : n = a - b
           \/ op.kind = "narrative" /\ \E v \in facts.values : n = 100 * v

\* The figures no check catches though the record does not have them: an
\* incident's; one that is right but for its sign; and of a narrative one
\* less than 1.5 from a value, or than 2 from a negative one, all of which
\* above -1 are taken for 0, or less than 1 from a percentage, or 1 below one
\* whose float falls short: 28 for 0.29.
Unseen(n) ==
    \/ op.kind = "incident"
    \/ op.kind \in {"notice", "reason"} /\ -n \in facts.values
    \/ op.kind = "narrative" /\ \E v \in facts.values :
            \/ Abs(Abs(n) - v) < (IF v < 0 THEN 200 ELSE 150)
            \/ Abs(Abs(n) - 100 * v) <= (IF v \in FallsShort THEN 100 ELSE 99)

\* What passes a check says what the record says, but for the figures named
\* above; and what is rejected says something else, but for negative figures,
\* such as the days a case is overdue by, which all checks but the payment
\* errors' reject although the record has them.  Of a notice the same holds
\* for the verdict stored with it.  Loops end: two calls, or four where a
\* rejected draft is written again, against qc_assistant/service.py:26-28, by
\* which both share one budget (validate, grounding_errors, _MAX_ATTEMPTS).
DraftsGrounded ==
    LET rejected == \/ Returned("text") /\ ~out.passed
                    \/ Raised("GroundingError") /\ text # Malformed
    IN  /\ op.kind \in Drafting =>
            calls <= (IF op.kind \in {"notice", "incident"} THEN MaxAttempts ELSE MaxAttempts * MaxAttempts)
        /\ Returned("text") /\ out.passed =>
            \A n \in text.figures : True(n) \/ Unseen(n)
        /\ rejected =>
            \/ ~NamesKnown
            \/ \E n \in text.figures : ~True(n) \/ (n < 0 /\ op.kind # "qc")
=============================================================================
