------------------------- MODULE LoginGuardProofs -------------------------
(***************************************************************************)
(* Theorems about LoginGuard, for any number of logins, limit and window.  *)
(***************************************************************************)
EXTENDS LoginGuard, TLAPS

-----------------------------------------------------------------------------
(* Type correctness. *)

LEMMA FinishType ==
    ASSUME TypeOK, NEW t \in Logins, NEW answer \in Replies, Finish(t, answer)
    PROVE  /\ pc' \in [Logins -> Stages]
           /\ bare' \in [Logins -> BOOLEAN]
           /\ tally' \in [Logins -> 0..(Limit + 1)]
           /\ row' \in [Logins -> 0..2]
           /\ reply' \in [Logins -> Replies]
<1>1. "idle" \in Stages
  BY DEF Stages
<1> QED BY <1>1, LoginAssumption DEF TypeOK, Finish

(***************************************************************************)
(* Every state has its type; in particular a missing key has no expiry,    *)
(* though EXPIRE may come after the key has gone.  It is inductive as it   *)
(* stands.                                                                 *)
(***************************************************************************)
LEMMA NextType == TypeOK /\ [Next]_vars => TypeOK'
<1> SUFFICES ASSUME TypeOK, [Next]_vars PROVE TypeOK'
  OBVIOUS
<1> USE LoginAssumption DEF TypeOK, key, rows, local
<1>1. ASSUME NEW t \in Logins, Arrive(t) PROVE TypeOK'
  BY <1>1 DEF Arrive, Stages, Replies
<1>2. ASSUME NEW t \in Logins, ReadTtl(t) PROVE TypeOK'
  BY <1>2 DEF ReadTtl, Bare, Goto, Stages
<1>3. ASSUME NEW t \in Logins, Incr(t) PROVE TypeOK'
  <2>1. Cap(count + 1, Limit + 1) \in 1..(Limit + 1)
    BY DEF Cap
  <2>2. count' \in 1..(Limit + 1) /\ tally' = [tally EXCEPT ![t] = count']
    BY <1>3, <2>1 DEF Incr
  <2>3. passed' \in 0..(Limit + 1)
    BY <1>3 DEF Incr, Cap
  <2>4. pc' \in [Logins -> Stages]
    BY <1>3 DEF Incr, Goto, Admitted, Stages
  <2> QED BY <1>3, <2>2, <2>3, <2>4 DEF Incr, Goto
<1>4. ASSUME NEW t \in Logins, SetExpiry(t) PROVE TypeOK'
  <2>1. pc' \in [Logins -> Stages]
    BY <1>4 DEF SetExpiry, Goto, Admitted, Stages
  <2> QED BY <1>4, <2>1 DEF SetExpiry, Expiry, Goto
<1>5. ASSUME NEW t \in Logins, ReadRetryAfter(t) \/ (CreateAlert(t) /\ typed) PROVE TypeOK'
  BY <1>5 DEF ReadRetryAfter, CreateAlert, Goto, Stages
<1>6. ASSUME NEW t \in Logins, TriggerAutoSeal(t) \/ UnknownUser(t) \/ Fail(t) \/ (CreateAlert(t) /\ ~typed)
      PROVE  TypeOK'
  <2>1. PICK answer \in Replies : Finish(t, answer)
    BY <1>6 DEF TriggerAutoSeal, UnknownUser, Fail, CreateAlert, Replies
  <2>2. /\ UNCHANGED <<key, rows, passed>>
        /\ sealed' \in {sealed, TRUE}
    BY <1>6 DEF TriggerAutoSeal, UnknownUser, Fail, CreateAlert
  <2> HIDE DEF TypeOK
  <2>3. /\ pc' \in [Logins -> Stages]
        /\ bare' \in [Logins -> BOOLEAN]
        /\ tally' \in [Logins -> 0..(Limit + 1)]
        /\ row' \in [Logins -> 0..2]
        /\ reply' \in [Logins -> Replies]
    BY <2>1, FinishType
  <2> QED BY <2>2, <2>3 DEF TypeOK
<1>7. ASSUME NEW t \in Logins, SelectUser(t) PROVE TypeOK'
  BY <1>7 DEF SelectUser, Goto, Stages
<1>8. ASSUME NEW t \in Logins, CommitFailure(t) PROVE TypeOK'
  <2>1. attempts' \in 0..2
    BY <1>8 DEF CommitFailure, Cap
  <2> QED BY <1>8, <2>1 DEF CommitFailure, Finish, Stages, Replies
<1>9. ASSUME NEW t \in Logins, SelectDevice(t) PROVE TypeOK'
  <2>1. CASE Goto(t, "insert") \/ Goto(t, "update")
    <3>1. pc' \in [Logins -> Stages] /\ reply' = reply
      BY <2>1 DEF Goto, Stages
    <3>2. UNCHANGED <<key, rows, local, sealed, passed>>
      BY <1>9, <2>1 DEF SelectDevice, Goto, Finish
    <3> QED BY <3>1, <3>2
  <2>2. CASE Finish(t, "error")
    <3>1. UNCHANGED <<key, rows, sealed, passed>>
      BY <1>9 DEF SelectDevice
    <3> HIDE DEF TypeOK
    <3>2. "error" \in Replies
      BY DEF Replies
    <3>3. /\ pc' \in [Logins -> Stages]
          /\ bare' \in [Logins -> BOOLEAN]
          /\ tally' \in [Logins -> 0..(Limit + 1)]
          /\ row' \in [Logins -> 0..2]
          /\ reply' \in [Logins -> Replies]
      BY <2>2, <3>2, FinishType
    <3> QED BY <3>1, <3>3 DEF TypeOK
  <2> QED BY <1>9, <2>1, <2>2 DEF SelectDevice
<1>10. ASSUME NEW t \in Logins, CommitDevice(t) PROVE TypeOK'
  <2>1. devices' \in 0..2
    BY <1>10 DEF CommitDevice, Cap
  <2>2. attempts' \in 0..2 /\ row' \in [Logins -> 0..2]
    BY <1>10 DEF CommitDevice, FlushReset
  <2> QED BY <1>10, <2>1, <2>2 DEF CommitDevice, Goto, Stages
<1>11. ASSUME NEW t \in Logins, CommitLog(t) PROVE TypeOK'
  BY <1>11 DEF CommitLog, Finish, Stages, Replies
<1>12. CASE Tick
  BY <1>12 DEF Tick
<1>13. CASE Unseal \/ UNCHANGED vars
  BY <1>13 DEF Unseal, vars
<1> QED BY <1>1, <1>2, <1>3, <1>4, <1>5, <1>6, <1>7, <1>8, <1>9, <1>10, <1>11, <1>12, <1>13
        DEF Next, Step, Limiter, Refusal, Authentication

THEOREM LoginTypeCorrect == Spec => []TypeOK
<1>1. Init => TypeOK
  BY LoginAssumption DEF Init, TypeOK, Stages, Replies
<1> QED BY <1>1, NextType, PTL DEF Spec

-----------------------------------------------------------------------------
(* The limit. *)

(***************************************************************************)
(* PassedWithinLimit is not inductive: nothing in it relates the history   *)
(* to the Redis counter.  A request is let through by the INCR that counts *)
(* it, and both start again with the key, so the counter bounds it.        *)
(***************************************************************************)
PassedInv ==
    /\ count \in Nat
    /\ passed \in Nat
    /\ passed <= count
    /\ passed <= Limit

(***************************************************************************)
(* At most Limit requests pass in a key's life, whatever the interleaving. *)
(***************************************************************************)
THEOREM WithinLimit == Spec => []PassedWithinLimit
<1> USE LoginAssumption
<1>1. Init => PassedInv
  BY DEF Init, PassedInv
<1>2. PassedInv /\ [Next]_vars => PassedInv'
  <2> SUFFICES ASSUME PassedInv, [Next]_vars PROVE PassedInv'
    OBVIOUS
  <2>1. ASSUME NEW t \in Logins, Incr(t) PROVE PassedInv'
    <3>1. count' = Cap(count + 1, Limit + 1)
      BY <2>1 DEF Incr
    <3>2. passed' = IF Cap(count + 1, Limit + 1) > Limit
                      THEN passed ELSE Cap(passed + 1, Limit + 1)
      BY <2>1 DEF Incr, Over
    <3> QED BY <3>1, <3>2 DEF PassedInv, Cap
  <2>2. CASE Tick
    BY <2>2 DEF Tick, PassedInv
  <2>3. ASSUME UNCHANGED <<count, passed>> PROVE PassedInv'
    BY <2>3 DEF PassedInv
  <2>4. ASSUME NEW t \in Logins, Arrive(t) \/ (Step(t) /\ ~Incr(t)) \/ Fail(t)
        PROVE  UNCHANGED <<count, passed>>
    BY <2>4 DEF Arrive, Fail, Step, Limiter, Refusal, Authentication, ReadTtl,
       SetExpiry, ReadRetryAfter, CreateAlert, TriggerAutoSeal, UnknownUser,
       SelectUser, CommitFailure, SelectDevice, CommitDevice, CommitLog, key
  <2>5. CASE Unseal
    BY <2>5, <2>3 DEF Unseal, key
  <2>6. CASE UNCHANGED vars
    BY <2>6, <2>3 DEF vars, key
  <2> QED BY <2>1, <2>2, <2>3, <2>4, <2>5, <2>6 DEF Next
<1>3. PassedInv => PassedWithinLimit
  BY DEF PassedInv, PassedWithinLimit
<1> QED BY <1>1, <1>2, <1>3, PTL DEF Spec
=============================================================================
