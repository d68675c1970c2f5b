---------------------------- MODULE MCAuditChain ----------------------------
(* AuditChain with named sessions.                                         *)
EXTENDS AuditChain

CONSTANTS w1, w2, w3
=============================================================================
