----------------------------- MODULE Operations -----------------------------
(***************************************************************************)
(* What runs beside the case work, one at a time: the operations that ask  *)
(* a model, which meet in the index that may be rebuilt under an answer,   *)
(* and the pipeline to the reports.  The operations share no other state   *)
(* but database rows, which have modules of their own.                     *)
(***************************************************************************)
EXTENDS GroundedAnswer, DraftedText, StructuredReply, StallReasons, Warehouse

vars == <<call, index, row, sla, warehouse>>

PipelineInputs == [kind : {"pipeline"}]

Init ==
    /\ Start(ChunkInputs \cup AnswerInputs \cup DraftInputs \cup ReplyInputs
                \cup SlaInputs \cup PipelineInputs)
    /\ index = "full"
    /\ row = Nothing
    /\ SlaInit
    /\ WarehouseInit

Asked == op.kind \in Answering /\ at # "done"

Next ==
    \/ CorpusNext /\ UNCHANGED <<row, sla, warehouse>>
    \/ Asked /\ Rebuild /\ UNCHANGED <<row, sla, warehouse>>
    \/ AnswerNext /\ UNCHANGED <<sla, warehouse>>
    \/ DraftNext /\ UNCHANGED <<index, row, sla, warehouse>>
    \/ ReplyNext /\ UNCHANGED <<index, row, sla, warehouse>>
    \/ SlaNext /\ UNCHANGED <<index, row, warehouse>>
    \/ op.kind = "pipeline" /\ WarehouseNext /\ UNCHANGED <<call, index, row, sla>>

Spec == Init /\ [][Next]_vars /\ SlaFairness
=============================================================================
