------------------------ MODULE LeaseLedgerProofs ------------------------
(***************************************************************************)
(* Theorems about LeaseLedger, for any number of leases and panic requests *)
(* and any ttl.                                                            *)
(***************************************************************************)
EXTENDS LeaseLedger, TLAPS

-----------------------------------------------------------------------------
(* Type correctness. *)

(***************************************************************************)
(* Every state of the ledger has its type: no request leaves a column, a   *)
(* program counter or a lifetime out of range.                             *)
(***************************************************************************)
THEOREM LedgerTypeCorrect == Spec => []TypeOK
<1> USE LedgerAssumption
<1>1. Init => TypeOK
  BY DEF Init, TypeOK, Stages, Statuses
<1>2. TypeOK /\ [Next]_vars => TypeOK'
  <2> SUFFICES ASSUME TypeOK, [Next]_vars PROVE TypeOK'
    OBVIOUS
  <2> USE DEF TypeOK, Stages, Statuses, panics, reaper
  <2>1. ASSUME NEW l \in Leases, Admit(l) PROVE TypeOK'
    BY <2>1 DEF Admit
  <2>2. ASSUME NEW l \in Leases, Build(l) PROVE TypeOK'
    BY <2>2 DEF Build, Ttls
  <2>3. ASSUME NEW l \in Leases, CommitIssue(l) PROVE TypeOK'
    BY <2>3 DEF CommitIssue
  <2>4. ASSUME NEW l \in Leases, FailIssue(l) PROVE TypeOK'
    BY <2>4 DEF FailIssue
  <2>5. ASSUME NEW p \in Panics, AdmitPanic(p) PROVE TypeOK'
    BY <2>5 DEF AdmitPanic
  <2>6. ASSUME NEW p \in Panics, SelectActive(p) PROVE TypeOK'
    BY <2>6 DEF SelectActive, AfterSelect, Revocable, Active
  <2>7. ASSUME NEW p \in Panics, CommitRevoked(p) PROVE TypeOK'
    BY <2>7 DEF CommitRevoked, Mark
  <2>8. ASSUME NEW p \in Panics, FailPanic(p) PROVE TypeOK'
    BY <2>8 DEF FailPanic
  <2>9. ASSUME NEW p \in Panics, PublishRevoked(p) PROVE TypeOK'
    BY <2>9 DEF PublishRevoked
  <2>10. ASSUME NEW p \in Panics, SealAfterPanic(p) PROVE TypeOK'
    BY <2>10 DEF SealAfterPanic
  <2>11. CASE SelectOverdue
    BY <2>11 DEF SelectOverdue, Overdue, Active
  <2>12. CASE CommitExpired
    BY <2>12 DEF CommitExpired, Mark
  <2>13. CASE FailReap
    BY <2>13 DEF FailReap
  <2>14. CASE Tick
    BY <2>14 DEF Tick
  <2>15. CASE Unseal
    BY <2>15 DEF Unseal
  <2>16. CASE Seal
    BY <2>16 DEF Seal
  <2>17. CASE UNCHANGED vars
    BY <2>17 DEF vars
  <2> QED BY <2>1, <2>2, <2>3, <2>4, <2>5, <2>6, <2>7, <2>8, <2>9, <2>10, <2>11,
             <2>12, <2>13, <2>14, <2>15, <2>16, <2>17 DEF Next, PanicStep
<1> QED BY <1>1, <1>2, PTL DEF Spec

-----------------------------------------------------------------------------
(* The inductive invariants. *)

(* What the reaper is about to write was read from rows that had run out,   *)
(* and such a row stays a row: no request fills it in again.                *)
ReapInv ==
    /\ \A l \in overdue : left[l] = 0 /\ status[l] \in Statuses
    /\ ExpiredWasOverdue

(* Every active lease is one the panic request has read or one committed    *)
(* since; once its UPDATE is committed, only the latter are left.           *)
PanicInv ==
    \A p \in Panics :
        /\ ppc[p] = "commit" => Active \subseteq (found[p] \cup since[p])
        /\ ppc[p] \in {"publish", "seal"} => Active \subseteq since[p]

(* An UPDATE to another status by primary key makes no lease active. *)
LEMMA MarkEnds ==
    ASSUME TypeOK, NEW X \in SUBSET Leases, NEW value, value # "active", Mark(X, value)
    PROVE  Active' = Active \ X
  BY DEF Mark, Active, TypeOK

(* ReapInv holds throughout: rows read as overdue stay overdue. *)
LEMMA AlwaysReapInv == Spec => []ReapInv
<1> USE LedgerAssumption
<1>1. Init => ReapInv
  BY DEF Init, ReapInv, ExpiredWasOverdue
<1>2. TypeOK /\ ReapInv /\ [Next]_vars => ReapInv'
  <2> SUFFICES ASSUME TypeOK, ReapInv, [Next]_vars PROVE ReapInv'
    OBVIOUS
  <2> USE DEF TypeOK, ReapInv, ExpiredWasOverdue, Statuses, panics, reaper
  <2>1. ASSUME NEW l \in Leases, Admit(l) PROVE ReapInv'
    BY <2>1 DEF Admit
  <2>2. ASSUME NEW l \in Leases, Build(l) PROVE ReapInv'
    BY <2>2 DEF Build, Ttls
  <2>3. ASSUME NEW l \in Leases, CommitIssue(l) PROVE ReapInv'
    BY <2>3 DEF CommitIssue
  <2>4. ASSUME NEW l \in Leases, FailIssue(l) PROVE ReapInv'
    BY <2>4 DEF FailIssue
  <2>5. ASSUME NEW p \in Panics, CommitRevoked(p) PROVE ReapInv'
    BY <2>5 DEF CommitRevoked, Mark
  <2>6. ASSUME NEW p \in Panics,
               AdmitPanic(p) \/ SelectActive(p) \/ FailPanic(p)
                 \/ PublishRevoked(p) \/ SealAfterPanic(p)
        PROVE  ReapInv'
    BY <2>6 DEF AdmitPanic, SelectActive, AfterSelect, Revocable, Active, FailPanic, PublishRevoked, SealAfterPanic
  <2>7. CASE SelectOverdue
    BY <2>7 DEF SelectOverdue, Overdue, Active
  <2>8. CASE CommitExpired
    BY <2>8 DEF CommitExpired, Mark
  <2>9. CASE FailReap
    BY <2>9 DEF FailReap
  <2>10. CASE Tick
    BY <2>10 DEF Tick
  <2>11. CASE Unseal \/ Seal
    BY <2>11 DEF Unseal, Seal
  <2>12. CASE UNCHANGED vars
    BY <2>12 DEF vars
  <2> QED BY <2>1, <2>2, <2>3, <2>4, <2>5, <2>6, <2>7, <2>8, <2>9, <2>10, <2>11, <2>12
          DEF Next, PanicStep
<1> QED BY <1>1, <1>2, LedgerTypeCorrect, PTL DEF Spec

(***************************************************************************)
(* The reaper expires only leases whose time has run out.                  *)
(***************************************************************************)
THEOREM OnlyOverdueExpire == Spec => []ExpiredWasOverdue
<1>1. ReapInv => ExpiredWasOverdue
  BY DEF ReapInv
<1> QED BY <1>1, AlwaysReapInv, PTL

(***************************************************************************)
(* Whatever panic requests and the reaper commit in between, a lease that  *)
(* is active when a panic seals was committed after that panic's SELECT.   *)
(***************************************************************************)
THEOREM PanicMissesNothingItSaw == Spec => PanicMissesOnlyLatecomers
<1>1. Init => PanicInv
  BY DEF Init, PanicInv
<1>2. TypeOK /\ PanicInv /\ [Next]_vars => PanicInv'
  <2> SUFFICES ASSUME TypeOK, PanicInv, [Next]_vars PROVE PanicInv'
    OBVIOUS
  <2>1. ASSUME NEW l \in Leases, CommitIssue(l) PROVE PanicInv'
    <3>1. Active' \subseteq (Active \cup {l})
      BY <2>1 DEF CommitIssue, Active, TypeOK
    <3> QED BY <2>1, <3>1 DEF CommitIssue, PanicInv, TypeOK, panics
  <2>2. ASSUME NEW l \in Leases, Admit(l) \/ Build(l) \/ FailIssue(l) PROVE PanicInv'
    <3>1. Active' \subseteq Active
      BY <2>2 DEF Admit, Build, FailIssue, Active, TypeOK
    <3> QED BY <2>2, <3>1 DEF Admit, Build, FailIssue, PanicInv, TypeOK, panics
  <2>3. ASSUME NEW p \in Panics, CommitRevoked(p) PROVE PanicInv'
    <3>1. Active' = Active \ found[p]
      BY <2>3, MarkEnds DEF CommitRevoked, TypeOK
    <3> QED BY <2>3, <3>1 DEF CommitRevoked, PanicInv, TypeOK
  <2>4. ASSUME NEW p \in Panics, SelectActive(p) PROVE PanicInv'
    <3>1. Active' = Active
      BY <2>4 DEF SelectActive, AfterSelect, Revocable, Active
    <3> QED BY <2>4, <3>1 DEF SelectActive, AfterSelect, Revocable, PanicInv, TypeOK
  <2>5. ASSUME NEW p \in Panics,
               AdmitPanic(p) \/ FailPanic(p) \/ PublishRevoked(p) \/ SealAfterPanic(p)
        PROVE  PanicInv'
    <3>1. Active' = Active
      BY <2>5 DEF AdmitPanic, FailPanic, PublishRevoked, SealAfterPanic, Active
    <3> QED BY <2>5, <3>1
            DEF AdmitPanic, FailPanic, PublishRevoked, SealAfterPanic, PanicInv, TypeOK
  <2>6. CASE CommitExpired
    <3>1. Active' = Active \ overdue
      BY <2>6, MarkEnds DEF CommitExpired, TypeOK
    <3> QED BY <2>6, <3>1 DEF CommitExpired, PanicInv, panics
  <2>7. CASE SelectOverdue \/ FailReap \/ Tick \/ Unseal \/ Seal
    <3>1. Active' = Active
      BY <2>7 DEF SelectOverdue, FailReap, Tick, Unseal, Seal, Active
    <3> QED BY <2>7, <3>1
            DEF SelectOverdue, FailReap, Tick, Unseal, Seal, PanicInv, panics
  <2>8. CASE UNCHANGED vars
    BY <2>8 DEF vars, PanicInv, Active, panics
  <2> QED BY <2>1, <2>2, <2>3, <2>4, <2>5, <2>6, <2>7, <2>8 DEF Next, PanicStep
<1>3. PanicInv => \A p \in Panics : SealAfterPanic(p) => Active \subseteq since[p]
  BY DEF PanicInv, SealAfterPanic
<1> QED BY <1>1, <1>2, <1>3, LedgerTypeCorrect, PTL DEF Spec, PanicMissesOnlyLatecomers

-----------------------------------------------------------------------------
(* The ledger implements the terms of the leases. *)

(* A panic request past its SELECT answers for rows that exist, and past   *)
(* its COMMIT for rows that have ended: no request fills them in again.    *)
StageInv ==
    \A p \in Panics :
        /\ ppc[p] \in {"idle", "select"} => found[p] = {}
        /\ ppc[p] # "idle" => outcome[p] = "none"
        /\ \A l \in found[p] : status[l] \in Statuses
        /\ ppc[p] \in {"publish", "seal"} => \A l \in found[p] : status[l] # "active"

LEMMA NextStage == TypeOK /\ StageInv /\ [Next]_vars => StageInv'
<1> SUFFICES ASSUME TypeOK, StageInv, [Next]_vars PROVE StageInv'
  OBVIOUS
<1> USE DEF TypeOK, StageInv, Statuses, panics, reaper
<1>1. ASSUME NEW l \in Leases, Admit(l) \/ Build(l) \/ CommitIssue(l) \/ FailIssue(l)
      PROVE  StageInv'
  <2>1. UNCHANGED panics /\ status[l] \notin Statuses
        /\ \A k \in Leases \ {l} : status'[k] = status[k]
    BY <1>1 DEF Admit, Build, CommitIssue, FailIssue
  <2>2. \A p \in Panics : l \notin found[p]
    BY <2>1
  <2> QED BY <2>1, <2>2
<1>2. ASSUME NEW p \in Panics, CommitRevoked(p) PROVE StageInv'
  BY <1>2 DEF CommitRevoked, Mark
<1>3. ASSUME NEW p \in Panics, SelectActive(p) PROVE StageInv'
  BY <1>3 DEF SelectActive, AfterSelect, Revocable, Active
<1>4. ASSUME NEW p \in Panics,
             AdmitPanic(p) \/ FailPanic(p) \/ PublishRevoked(p) \/ SealAfterPanic(p)
      PROVE  StageInv'
  BY <1>4 DEF AdmitPanic, FailPanic, PublishRevoked, SealAfterPanic
<1>5. CASE CommitExpired
  BY <1>5 DEF CommitExpired, Mark
<1>6. CASE SelectOverdue \/ FailReap \/ Tick \/ Unseal \/ Seal \/ UNCHANGED vars
  BY <1>6 DEF SelectOverdue, FailReap, Tick, Unseal, Seal, vars
<1> QED BY <1>1, <1>2, <1>3, <1>4, <1>5, <1>6 DEF Next, PanicStep

LEMMA StepRefinesTerms ==
  ASSUME TypeOK, ReapInv, StageInv, [Next]_vars
  PROVE  [LT!Next]_(LT!vars)
<1> USE LedgerAssumption DEF TypeOK, Stages, Statuses, panics, reaper
<1>1. ASSUME NEW l \in Leases, Admit(l) \/ Build(l) \/ FailIssue(l)
      PROVE  UNCHANGED LT!vars
  BY <1>1 DEF Admit, Build, FailIssue, LT!vars
<1>2. ASSUME NEW l \in Leases, CommitIssue(l)
      PROVE  LT!Grant(l)
  BY <1>2 DEF CommitIssue, LT!Grant
<1>3. ASSUME NEW p \in Panics, AdmitPanic(p)
      PROVE  LT!Ask(p)
  BY <1>3 DEF AdmitPanic, LT!Ask
<1>4. ASSUME NEW p \in Panics, SelectActive(p)
      PROVE  LT!Bind(p)
  <2>1. LT!Held = Active
    BY DEF LT!Held, Active
  <2>2. /\ ppc[p] = "select" /\ outcome[p] = "none"
        /\ ppc'[p] \in {"commit", "seal"} /\ \A q \in Panics \ {p} : ppc'[q] = ppc[q]
        /\ found' = [found EXCEPT ![p] = Active]
        /\ UNCHANGED <<status, left, outcome>>
    BY <1>4 DEF SelectActive, AfterSelect, Revocable, StageInv
  <2> QED BY <2>1, <2>2 DEF LT!Bind
<1>5. ASSUME NEW p \in Panics, CommitRevoked(p)
      PROVE  LT!Cancel(p)
  BY <1>5 DEF CommitRevoked, Mark, StageInv, LT!Cancel, LT!End
<1>6. ASSUME NEW p \in Panics, FailPanic(p)
      PROVE  LT!GiveUp(p)
  BY <1>6 DEF FailPanic, StageInv, LT!GiveUp
<1>7. ASSUME NEW p \in Panics, PublishRevoked(p)
      PROVE  UNCHANGED LT!vars
  BY <1>7 DEF PublishRevoked, LT!vars
<1>8. ASSUME NEW p \in Panics, SealAfterPanic(p)
      PROVE  LT!Report(p)
  BY <1>8 DEF SealAfterPanic, StageInv, LT!Report, LT!Held
<1>9. ASSUME CommitExpired
      PROVE  LT!Expire
  <2>1. overdue \in SUBSET LT!Over
    BY DEF ReapInv, LT!Over
  <2>2. LT!End(overdue)
    BY <1>9 DEF CommitExpired, Mark, ReapInv, LT!End
  <2>3. /\ \A l \in Leases : status'[l] \in Stages <=> status[l] \in Stages
        /\ UNCHANGED <<left, ppc, found, outcome>>
    BY <1>9 DEF CommitExpired, Mark, ReapInv
  <2>4. \E S \in SUBSET LT!Over : LT!End(S)
    BY <2>1, <2>2 DEF LT!End
  <2> HIDE DEF TypeOK
  <2> QED BY <2>3, <2>4 DEF LT!Expire
<1>10. ASSUME Tick
       PROVE  LT!Tick
  BY <1>10 DEF Tick, LT!Tick
<1>11. ASSUME SelectOverdue \/ FailReap \/ Unseal \/ Seal \/ UNCHANGED vars
       PROVE  UNCHANGED LT!vars
  BY <1>11 DEF SelectOverdue, FailReap, Unseal, Seal, vars, LT!vars
<1> QED BY <1>1, <1>2, <1>3, <1>4, <1>5, <1>6, <1>7, <1>8, <1>9, <1>10, <1>11
        DEF Next, PanicStep, LT!Next

(***************************************************************************)
(* For any number of leases and panic requests, the transactions of the    *)
(* ledger have the effect of single steps on the terms of the leases.      *)
(***************************************************************************)
THEOREM LedgerRefinesTerms == Spec => LeaseTermsSpec
<1>1. Init => LT!Init /\ StageInv
  BY DEF Init, StageInv, Stages, LT!Init
<1>2. TypeOK /\ ReapInv /\ StageInv /\ [Next]_vars => [LT!Next]_(LT!vars)
  BY StepRefinesTerms
<1> QED BY <1>1, <1>2, NextStage, LedgerTypeCorrect, AlwaysReapInv, PTL DEF Spec, LeaseTermsSpec, LT!Spec
=============================================================================
