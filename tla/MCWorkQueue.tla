---------------------------- MODULE MCWorkQueue ----------------------------
(* WorkQueue on two workers and two messages in two queues.               *)
EXTENDS WorkQueue

CONSTANTS w1, w2

MCQueue   == <<"document_intake", "correspondence_dispatch">>
MCQueueOf == [m \in Message |-> IF m = 1 THEN "correspondence_dispatch" ELSE "document_intake"]
=============================================================================
