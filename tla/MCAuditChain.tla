--------------------------- MODULE MCAuditChain ---------------------------
(***************************************************************************)
(* AuditChain on instances TLC can enumerate.                              *)
(***************************************************************************)
EXTENDS AuditChain, TLC
=============================================================================
