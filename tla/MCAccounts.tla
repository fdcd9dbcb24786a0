---------------------------- MODULE MCAccounts ----------------------------
(***************************************************************************)
(* Accounts on instances TLC can enumerate.                                *)
(***************************************************************************)
EXTENDS Accounts, TLC
=============================================================================
