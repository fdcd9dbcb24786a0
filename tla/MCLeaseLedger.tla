-------------------------- MODULE MCLeaseLedger --------------------------
(***************************************************************************)
(* LeaseLedger on instances TLC can enumerate.                             *)
(***************************************************************************)
EXTENDS LeaseLedger, TLC
=============================================================================
