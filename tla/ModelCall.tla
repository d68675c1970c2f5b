----------------------------- MODULE ModelCall ------------------------------
(***************************************************************************)
(* The state of one operation that asks a model, and the call itself       *)
(* (OllamaClient).  Operations share no state but the database rows and    *)
(* indexes their modules declare, so one of them is followed at a time.    *)
(* A text or a reply is the set of things it mentions, or a list of items. *)
(***************************************************************************)
EXTENDS Naturals

VARIABLES
    op,         \* which operation runs, and its inputs
    at,         \* its step
    facts,      \* what it has read so far
    tries,      \* replies that were no good, drafts that failed their check
    text,       \* what the model last said
    calls,      \* observed: calls that reached the model
    out         \* what the caller gets

call == <<op, at, facts, tries, text, calls, out>>

Nothing == [is |-> "nothing"]
NoTries == [bad |-> 0, rejected |-> 0]

Start(Inputs) ==
    /\ op \in Inputs
    /\ at = "start" /\ facts = Nothing /\ tries = NoTries
    /\ text = Nothing /\ calls = 0 /\ out = Nothing

At(kinds, step) == op.kind \in kinds /\ at = step

Go(step)    == at' = step /\ UNCHANGED out
End(result) == at' = "done" /\ out' = result
Raise(name) == End([is |-> "error", error |-> name])

Returned(what) == at = "done" /\ out.is = what
Raised(name)   == Returned("error") /\ out.error = name

\* One more call; what the model said before is gone.
AskAgain(spent) == tries' = spent /\ text' = Nothing /\ Go("ask")

\* _assert_fits_context raises before anything is sent; the post itself may
\* fail; otherwise the reply, of which the schema says nothing yet.
TooLong == ~facts.fits

Generate(Replies, step) ==
    /\ facts.fits
    /\ calls' = calls + 1
    /\ \/ text' \in Replies /\ Go(step)
       \/ Raise("HTTPError") /\ UNCHANGED text
=============================================================================
