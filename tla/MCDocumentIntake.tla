------------------------- MODULE MCDocumentIntake -------------------------
(* DocumentIntake with one document, so that every review, redelivery and *)
(* crash concerns it, and a verification of its case and of another.      *)
EXTENDS DocumentIntake

CONSTANTS d1, x1, x2, w1, w2, v1, v2
=============================================================================
