---------------------------- MODULE MCGatekeeper ----------------------------
(***************************************************************************)
(* Gatekeeper on instances TLC can enumerate.                              *)
(***************************************************************************)
EXTENDS Gatekeeper, TLC
=============================================================================
