----------------------------- MODULE LeaseTerms -----------------------------
(***************************************************************************)
(* What the lease ledger promises, without its transactions: a lease is    *)
(* granted once, ends when its term is over or when a panic cancels it,    *)
(* and has ended for good.  A panic is bound to the leases held at one     *)
(* instant and reports success only when none of them is held any more.    *)
(* LeaseLedger.tla is shown to implement this.                             *)
(***************************************************************************)
EXTENDS Naturals

CONSTANTS Leases, Panics, MaxTtl

VARIABLES
    phase,  \* "none", "held" or "ended", for each lease
    left,   \* what remains of its term
    panic,  \* how each panic request stands
    due     \* the leases it is bound to end

vars == <<phase, left, panic, due>>

Init ==
    /\ phase = [l \in Leases |-> "none"]
    /\ left = [l \in Leases |-> 0]
    /\ panic = [p \in Panics |-> "none"]
    /\ due = [p \in Panics |-> {}]

Held == {l \in Leases : phase[l] = "held"}
Over == {l \in Leases : phase[l] # "none" /\ left[l] = 0}

End(S) == phase' = [l \in Leases |-> IF l \in S THEN "ended" ELSE phase[l]]

(* A term may be over when the grant is made known. *)
Grant(l) ==
    /\ phase[l] = "none"
    /\ phase' = [phase EXCEPT ![l] = "held"]
    /\ \E term \in 0..MaxTtl : left' = [left EXCEPT ![l] = term]
    /\ UNCHANGED <<panic, due>>

Expire ==
    /\ \E S \in SUBSET Over : End(S)
    /\ UNCHANGED <<left, panic, due>>

Ask(p) ==
    /\ panic[p] # "bound"
    /\ panic' = [panic EXCEPT ![p] = "none"]
    /\ UNCHANGED <<phase, left, due>>

Bind(p) ==
    /\ panic[p] = "none"
    /\ panic' = [panic EXCEPT ![p] = "bound"]
    /\ due' = [due EXCEPT ![p] = Held]
    /\ UNCHANGED <<phase, left>>

Cancel(p) ==
    /\ panic[p] = "bound"
    /\ End(due[p])
    /\ UNCHANGED <<left, panic, due>>

Report(p) ==
    /\ panic[p] = "bound" /\ due[p] \cap Held = {}
    /\ panic' = [panic EXCEPT ![p] = "done"]
    /\ due' = [due EXCEPT ![p] = {}]
    /\ UNCHANGED <<phase, left>>

GiveUp(p) ==
    /\ panic[p] \in {"none", "bound"}
    /\ panic' = [panic EXCEPT ![p] = "failed"]
    /\ due' = [due EXCEPT ![p] = {}]
    /\ UNCHANGED <<phase, left>>

Tick ==
    /\ left' = [l \in Leases |-> IF left[l] = 0 THEN 0 ELSE left[l] - 1]
    /\ UNCHANGED <<phase, panic, due>>

Next ==
    \/ \E l \in Leases : Grant(l)
    \/ Expire
    \/ \E p \in Panics : Ask(p) \/ Bind(p) \/ Cancel(p) \/ Report(p) \/ GiveUp(p)
    \/ Tick

Spec == Init /\ [][Next]_vars
=============================================================================
