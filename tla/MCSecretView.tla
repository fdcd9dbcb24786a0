--------------------------- MODULE MCSecretView ---------------------------
(***************************************************************************)
(* SecretView on instances TLC can enumerate.                              *)
(***************************************************************************)
EXTENDS SecretView, TLC
=============================================================================
