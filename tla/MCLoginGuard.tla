-------------------------- MODULE MCLoginGuard --------------------------
(***************************************************************************)
(* LoginGuard on instances TLC can enumerate.                              *)
(***************************************************************************)
EXTENDS LoginGuard, TLC
=============================================================================
