--------------------------- MODULE MCEventFeed ---------------------------
(***************************************************************************)
(* EventFeed on instances TLC can enumerate.                               *)
(***************************************************************************)
EXTENDS EventFeed, TLC
=============================================================================
