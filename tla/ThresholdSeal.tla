--------------------------- MODULE ThresholdSeal ---------------------------
(***************************************************************************)
(* What the vault gatekeeper promises, without its lock, its Redis hash    *)
(* or its requests: the vault opens only for a threshold of distinct       *)
(* fragments of the split in force, contributed since the last time        *)
(* something closed it.  Gatekeeper.tla is shown to implement this.        *)
(***************************************************************************)
EXTENDS Naturals, FiniteSets

CONSTANTS
    Indices,    \* the share indices of a split
    Threshold   \* how many distinct ones open the vault

VARIABLES
    issued,      \* a split has been handed out and is in force
    contributed, \* indices whose fragment was accepted since the last close
    sealed       \* the vault is closed

vars == <<issued, contributed, sealed>>

Init == issued = FALSE /\ contributed = {} /\ sealed = TRUE

(* A new split closes the vault and voids every earlier contribution. *)
Reissue ==
    /\ issued' = TRUE
    /\ contributed' = {}
    /\ sealed' = TRUE

Contribute(i) ==
    /\ issued /\ sealed
    /\ contributed' = contributed \cup {i}
    /\ UNCHANGED <<issued, sealed>>

Unseal ==
    /\ issued /\ sealed
    /\ Cardinality(contributed) >= Threshold
    /\ sealed' = FALSE
    /\ contributed' = {}
    /\ UNCHANGED issued

Seal ==
    /\ sealed' = TRUE
    /\ contributed' = {}
    /\ UNCHANGED issued

(* The process forgets the split: nothing opens the vault before a Reissue. *)
Restart ==
    /\ issued' = FALSE
    /\ contributed' = {}
    /\ sealed' = TRUE

Next ==
    \/ Reissue
    \/ \E i \in Indices : Contribute(i)
    \/ Unseal
    \/ Seal
    \/ Restart

Spec == Init /\ [][Next]_vars
============================================================================
