-------------------------- MODULE GatekeeperProofs --------------------------
(***************************************************************************)
(* Theorems about Gatekeeper, for every number of requests, every share    *)
(* count and every threshold of at least two.                              *)
(***************************************************************************)
EXTENDS Gatekeeper, FiniteSetTheorems, TLAPS

-----------------------------------------------------------------------------
(* The inductive invariants. *)

(* Exactly the owner of _lock is at a Redis command, and a fragment is being *)
(* recorded or counted only for a submission that was accepted.             *)
LockInv ==
    /\ \A r \in Requests : pc[r] \in RedisCommands <=> lock = r
    /\ \A r \in Requests : pc[r] # "idle" => call[r] \in Calls
    /\ \A r \in Requests : pc[r] \in {"hset", "expire"} => call[r].op = "submit"

Counting(r) == pc[r] \in {"hset", "expire", "hlen"} /\ call[r].op = "submit"

(* A full ritual is only ever held by the submission about to decide on it. *)
RitualInv ==
    sealed => \/ Cardinality(entered) < Threshold
              \/ \E r \in Requests : Counting(r)

(* While no delete fails, the hash holds nothing this process has not       *)
(* accepted, except before the first split and while it is being deleted.   *)
HashInv ==
    /\ \A r \in Requests :
         Counting(r) => shares # NoSplit /\ call[r].index \in entered
    /\ \/ shares = NoSplit
       \/ \E r \in Requests : pc[r] = "delete"
       \/ fields \subseteq entered

-----------------------------------------------------------------------------
(* Lemmas on the operators. *)

(* progress, the larger of the two counts, is one of them and below neither. *)
LEMMA MaxOfTwo ==
    ASSUME NEW a \in Int, NEW b \in Int
    PROVE  /\ Max({a, b}) \in {a, b}
           /\ Max({a, b}) >= a
           /\ Max({a, b}) >= b
<1>1. PICK m \in {a, b} : \A y \in {a, b} : m >= y
  <2>1. CASE a >= b
    BY <2>1
  <2>2. CASE ~(a >= b)
    BY <2>2
  <2> QED BY <2>1, <2>2
<1>2. Max({a, b}) = CHOOSE x \in {a, b} : \A y \in {a, b} : x >= y
  BY DEF Max
<1> QED BY <1>1, <1>2

(* The number of shares, and what is known of the threshold. *)
LEMMA ShareCount ==
    /\ Cardinality(Indices) \in Nat
    /\ 0 \in 0..Cardinality(Indices)
    /\ Threshold \in 0..Cardinality(Indices)
    /\ Threshold > 0
<1>1. IsFiniteSet(Indices) /\ Threshold \in 2..Cardinality(Indices)
  BY GatekeeperAssumption
<1>2. Cardinality(Indices) \in Nat
  BY <1>1, FS_CardinalityType
<1> QED BY <1>1, <1>2

(* What is counted is a number of shares, and a subset counts no more. *)
LEMMA CountOfIndices ==
    ASSUME NEW S \in SUBSET Indices
    PROVE  /\ IsFiniteSet(S)
           /\ Cardinality(S) \in 0..Cardinality(Indices)
           /\ \A R \in SUBSET S : Cardinality(R) <= Cardinality(S)
<1>1. IsFiniteSet(Indices)
  BY GatekeeperAssumption
<1>2. IsFiniteSet(S) /\ Cardinality(S) <= Cardinality(Indices)
  BY <1>1, FS_Subset
<1>3. Cardinality(S) \in Nat /\ Cardinality(Indices) \in Nat
  BY <1>1, <1>2, FS_CardinalityType
<1>4. \A R \in SUBSET S : Cardinality(R) <= Cardinality(S)
  BY <1>2, FS_Subset
<1> QED BY <1>2, <1>3, <1>4

(* The progress a request reports lies between 0 and the number of shares. *)
LEMMA ProgressType ==
    ASSUME TypeOK, NEW count \in 0..Cardinality(Indices)
    PROVE  /\ Progress(count) \in 0..Cardinality(Indices)
           /\ Progress(count) \in {Cardinality(entered), count}
           /\ Progress(count) >= Cardinality(entered)
<1>1. Cardinality(entered) \in 0..Cardinality(Indices)
  BY CountOfIndices DEF TypeOK
<1>2. Cardinality(Indices) \in Nat
  BY FS_CardinalityType, GatekeeperAssumption
<1>3. Cardinality(entered) \in Int /\ count \in Int
  BY <1>1, <1>2
<1> QED BY <1>1, <1>3, MaxOfTwo DEF Progress

-----------------------------------------------------------------------------
(* Types. *)

LEMMA CountedType ==
    ASSUME TypeOK, NEW r \in Requests, NEW count \in 0..Cardinality(Indices),
           Counted(r, count)
    PROVE  /\ lock' \in Requests \cup {NoRequest}
           /\ shares' \in Splits \cup {NoSplit}
           /\ entered' \subseteq Indices
           /\ sealed' \in BOOLEAN
           /\ pc' \in [Requests -> {"idle", "lock", "publish"} \cup RedisCommands]
           /\ call' \in [Requests -> Calls \cup {NoCall}]
           /\ reply' \in [Requests -> Replies]
<1> DEFINE progress == Progress(count)
<1>1. progress \in 0..Cardinality(Indices)
  BY ProgressType
<1>2. Status(sealed, progress) \in VaultStatus
  BY <1>1 DEF Status, VaultStatus, TypeOK
<1>r. VaultStatus \subseteq Replies
  BY DEF Replies
<1>3. CASE Decide(r, progress)
  <2> HIDE DEF progress
  <2> QED BY <1>2, <1>3, <1>r DEF Decide, Finish, Goto, TypeOK, memory, RedisCommands
<1>4. CASE ReportProgress(r, progress)
  <2> HIDE DEF progress
  <2> QED BY <1>2, <1>4, <1>r DEF ReportProgress, Finish, TypeOK, memory, RedisCommands
<1> QED BY <1>3, <1>4 DEF Counted

LEMMA StepType ==
    ASSUME TypeOK, LockInv, NEW r \in Requests, Step(r)
    PROVE  TypeOK'
<1> USE DEF TypeOK, memory, redis, RedisCommands
<1>1. Cardinality(fields) \in 0..Cardinality(Indices) /\ 0 \in 0..Cardinality(Indices)
  BY CountOfIndices, ShareCount
<1>2. pc[r] \in {"hset", "expire"} => call[r].index \in Indices
  BY DEF LockInv, Calls
<1>3. CASE HSet(r)
  BY <1>2, <1>3 DEF HSet, PutField, Goto
<1>4. CASE Expire(r)
  BY <1>4 DEF Expire, SetTtl, Goto
<1>5. CASE HLen(r)
  <2>1. Counted(r, Cardinality(fields)) /\ UNCHANGED redis
    BY <1>5 DEF HLen
  <2> QED BY <1>1, <2>1, CountedType
<1>6. CASE Delete(r)
  BY <1>6 DEF Delete, Remains, ReleaseAndPublish, Goto
<1>7. CASE RedisError(r)
  <2>1. fields' \subseteq Indices /\ ttl' \in BOOLEAN /\ Counted(r, 0)
    BY <1>2, <1>7 DEF RedisError, PutField, SetTtl
  <2> QED BY <1>1, <2>1, CountedType
<1>8. CASE Return(r)
  <2>1. Threshold \in 0..Cardinality(Indices)
    BY ShareCount
  <2>2. Status(sealed, Threshold) \in VaultStatus
    BY <2>1 DEF Status, VaultStatus
  <2>3. [split |-> shares] \in Fragments
    BY DEF Fragments
  <2>4. LateAnswer(r) \in Replies
    BY <2>2, <2>3 DEF LateAnswer, Replies
  <2> QED BY <1>8, <2>4 DEF Return, Finish
<1> QED BY <1>3, <1>4, <1>5, <1>6, <1>7, <1>8 DEF Step

LEMMA AcquireType ==
    ASSUME TypeOK, LockInv, NEW r \in Requests, Acquire(r)
    PROVE  TypeOK'
<1> USE DEF TypeOK, Acquire, memory, redis, RedisCommands, Goto
<1>1. call[r] \in Calls
  BY DEF LockInv
<1>2. CASE Initialize(r)
  BY <1>2 DEF Initialize, FreshSplits, Close
<1>3. CASE AcceptShare(r)
  BY <1>1, <1>3 DEF AcceptShare, WithEntered, Calls
<1>4. CASE RejectShare(r)
  <2>1. NoReply \in Replies
    BY DEF Replies
  <2> QED BY <1>4, <2>1 DEF RejectShare, Finish
<1>5. CASE Seal(r)
  BY <1>5 DEF Seal, Close
<1>6. CASE StatusSealed(r)
  BY <1>6 DEF StatusSealed
<1>7. CASE StatusUnsealed(r)
  <2>1. Threshold \in 0..Cardinality(Indices)
    BY ShareCount
  <2>2. Status(sealed, Threshold) \in Replies
    BY <2>1 DEF Status, VaultStatus, Replies
  <2> QED BY <1>7, <2>2 DEF StatusUnsealed, Finish
<1> QED BY <1>2, <1>3, <1>4, <1>5, <1>6, <1>7

LEMMA NextType ==
    ASSUME TypeOK, LockInv, [Next]_vars
    PROVE  TypeOK'
<1> NoReply \in Replies
  BY DEF Replies
<1>1. ASSUME NEW r \in Requests, Request(r)
      PROVE  TypeOK'
  BY <1>1 DEF TypeOK, Request, memory, redis
<1>2. CASE HashExpires
  BY <1>2 DEF TypeOK, HashExpires, DropHash, memory
<1>3. CASE WorkerSeal
  BY <1>3 DEF TypeOK, WorkerSeal, DropHash, memory
<1>4. CASE Restart
  BY <1>4 DEF TypeOK, Restart, redis
<1>5. CASE UNCHANGED vars
  BY <1>5 DEF TypeOK, vars, memory, redis
<1> QED BY <1>1, <1>2, <1>3, <1>4, <1>5, StepType, AcquireType DEF Next

-----------------------------------------------------------------------------
(* The lock discipline. *)

LEMMA StepLock ==
    ASSUME TypeOK, LockInv, NEW r \in Requests, Step(r)
    PROVE  LockInv'
<1> USE DEF TypeOK, LockInv, RedisCommands
<1>1. NoRequest \notin Requests
  BY GatekeeperAssumption
<1>2. ASSUME NEW count, Counted(r, count), lock = r
      PROVE  LockInv'
  <2> DEFINE progress == Progress(count)
  <2>1. CASE Decide(r, progress)
    <3> HIDE DEF progress
    <3> QED BY <1>1, <1>2, <2>1 DEF Decide, Finish, Goto
  <2>2. CASE ReportProgress(r, progress)
    <3> HIDE DEF progress
    <3> QED BY <1>1, <1>2, <2>2 DEF ReportProgress, Finish
  <2> QED BY <1>2, <2>1, <2>2 DEF Counted
<1>3. CASE HSet(r) \/ Expire(r)
  BY <1>3 DEF HSet, Expire, Goto
<1>4. CASE HLen(r)
  BY <1>2, <1>4 DEF HLen
<1>5. CASE Delete(r)
  BY <1>1, <1>5 DEF Delete, ReleaseAndPublish, Goto
<1>6. CASE RedisError(r)
  BY <1>2, <1>6 DEF RedisError
<1>7. CASE Return(r)
  BY <1>7 DEF Return, Finish
<1> QED BY <1>3, <1>4, <1>5, <1>6, <1>7 DEF Step

LEMMA NextLock ==
    ASSUME TypeOK, LockInv, [Next]_vars
    PROVE  LockInv'
<1> USE DEF TypeOK, LockInv, RedisCommands
<1>1. NoRequest \notin Requests
  BY GatekeeperAssumption
<1>2. ASSUME NEW r \in Requests, Request(r)
      PROVE  LockInv'
  BY <1>2 DEF Request
<1>3. ASSUME NEW r \in Requests, Acquire(r)
      PROVE  LockInv'
  BY <1>1, <1>3 DEF Acquire, Initialize, AcceptShare, RejectShare, Seal,
                    StatusSealed, StatusUnsealed, Finish, Goto
<1>4. CASE HashExpires \/ WorkerSeal
  BY <1>4 DEF HashExpires, WorkerSeal
<1>5. CASE Restart
  BY <1>1, <1>5 DEF Restart
<1>6. CASE UNCHANGED vars
  BY <1>6 DEF vars
<1> QED BY <1>2, <1>3, <1>4, <1>5, <1>6, StepLock DEF Next

(* The variables always have their types. *)
THEOREM TypeCorrect == Spec => [](TypeOK /\ LockInv)
<1>1. Init => TypeOK /\ LockInv
  <2>1. NoRequest \notin Requests
    BY GatekeeperAssumption
  <2>2. NoReply \in Replies
    BY DEF Replies
  <2> QED BY <2>1, <2>2 DEF Init, TypeOK, LockInv, RedisCommands
<1>2. TypeOK /\ LockInv /\ [Next]_vars => (TypeOK /\ LockInv)'
  BY NextType, NextLock
<1> QED BY <1>1, <1>2, PTL DEF Spec

-----------------------------------------------------------------------------
(* No full ritual is left pending, with or without Redis errors. *)

(* Counting a fragment ends in one of two ways: the vault opens, or the lock *)
(* is free and a vault that stays sealed is short of fragments.             *)
LEMMA CountedRitual ==
    ASSUME TypeOK, LockInv, RitualInv, NEW r \in Requests, lock = r,
           NEW count \in 0..Cardinality(Indices), Counted(r, count)
    PROVE  /\ sealed' => entered' = entered /\ sealed
           /\ sealed' => Cardinality(entered) < Threshold
           /\ ~sealed' /\ sealed => Progress(count) >= Threshold
           /\ ~sealed' /\ sealed => call[r].op = "submit"
           /\ shares' = shares
           /\ sealed' = sealed => entered' = entered
<1> DEFINE progress == Progress(count)
<1>1. /\ progress \in 0..Cardinality(Indices)
      /\ progress \in {Cardinality(entered), count}
      /\ progress >= Cardinality(entered)
  BY ProgressType
<1>2. Cardinality(entered) \in 0..Cardinality(Indices)
  BY CountOfIndices DEF TypeOK
<1>3. \/ call[r].op = "submit" /\ Decide(r, progress)
      \/ call[r].op # "submit" /\ ReportProgress(r, progress)
  BY DEF Counted
<1>4. progress = Progress(count)
  OBVIOUS
<1> HIDE DEF progress
<1>5. CASE call[r].op = "submit" /\ Decide(r, progress)
  BY <1>1, <1>2, <1>5, <1>4, ShareCount DEF Decide, Complete, TypeOK, memory
<1>6. CASE call[r].op # "submit" /\ ReportProgress(r, progress)
  <2>1. ~ \E p \in Requests : Counting(p)
    BY <1>6 DEF LockInv, Counting, RedisCommands
  <2> QED BY <1>6, <1>4, <2>1 DEF ReportProgress, RitualInv, memory
<1> QED BY <1>3, <1>5, <1>6

LEMMA StepRitual ==
    ASSUME TypeOK, LockInv, RitualInv, NEW r \in Requests, Step(r)
    PROVE  RitualInv'
<1> USE DEF LockInv, RedisCommands, memory
<1>1. Cardinality(fields) \in 0..Cardinality(Indices) /\ 0 \in 0..Cardinality(Indices)
  BY CountOfIndices, ShareCount DEF TypeOK
<1>2. ASSUME NEW count \in 0..Cardinality(Indices), Counted(r, count), lock = r
      PROVE  RitualInv'
  BY <1>2, CountedRitual DEF RitualInv
<1>3. CASE HSet(r) \/ Expire(r)
  BY <1>3 DEF HSet, Expire, Goto, RitualInv, Counting, TypeOK
<1>4. CASE HLen(r)
  BY <1>1, <1>2, <1>4 DEF HLen
<1>5. CASE Delete(r)
  BY <1>5 DEF Delete, ReleaseAndPublish, Goto, RitualInv, Counting, TypeOK
<1>6. CASE RedisError(r)
  BY <1>1, <1>2, <1>6 DEF RedisError
<1>7. CASE Return(r)
  BY <1>7 DEF Return, Finish, RitualInv, Counting, TypeOK
<1> QED BY <1>3, <1>4, <1>5, <1>6, <1>7 DEF Step

LEMMA AcquireRitual ==
    ASSUME TypeOK, LockInv, RitualInv, NEW r \in Requests, Acquire(r)
    PROVE  RitualInv'
<1> USE DEF Acquire, memory, RitualInv, Goto, Counting
<1>1. sealed => Cardinality(entered) < Threshold
  <2>1. ~ \E p \in Requests : Counting(p)
    BY GatekeeperAssumption DEF LockInv, RedisCommands
  <2> QED BY <2>1
<1>2. CASE Initialize(r) \/ Seal(r)
  BY <1>2, ShareCount, FS_EmptySet DEF Initialize, Seal, Close
<1>3. CASE AcceptShare(r)
  BY <1>3 DEF AcceptShare, WithEntered, TypeOK
<1>4. CASE RejectShare(r) \/ StatusSealed(r) \/ StatusUnsealed(r)
  BY <1>1, <1>4 DEF RejectShare, StatusSealed, StatusUnsealed
<1> QED BY <1>2, <1>3, <1>4

LEMMA NextRitual ==
    ASSUME TypeOK, LockInv, RitualInv, [Next]_vars
    PROVE  RitualInv'
<1>1. ASSUME NEW r \in Requests, Request(r)
      PROVE  RitualInv'
  BY <1>1 DEF Request, memory, RitualInv, Counting, TypeOK
<1>2. CASE HashExpires \/ WorkerSeal
  BY <1>2 DEF HashExpires, WorkerSeal, memory, RitualInv, Counting
<1>3. CASE Restart
  BY <1>3, ShareCount, FS_EmptySet DEF Restart, RitualInv
<1>4. CASE UNCHANGED vars
  BY <1>4 DEF vars, memory, RitualInv, Counting
<1> QED BY <1>1, <1>2, <1>3, <1>4, StepRitual, AcquireRitual DEF Next

(***************************************************************************)
(* Between critical sections a sealed gatekeeper is short of a threshold:  *)
(* whatever Redis does, the submission that completes a ritual unseals.    *)
(***************************************************************************)
THEOREM RitualNeverPending == Spec => []SealedBelowThreshold
<1>1. Init => RitualInv
  BY ShareCount, FS_EmptySet DEF Init, RitualInv
<1>2. TypeOK /\ LockInv /\ RitualInv /\ [Next]_vars => RitualInv'
  BY NextRitual
<1>3. TypeOK /\ LockInv /\ RitualInv => SealedBelowThreshold
  BY GatekeeperAssumption
  DEF RitualInv, SealedBelowThreshold, Counting, LockInv, RedisCommands
<1> QED BY <1>1, <1>2, <1>3, TypeCorrect, PTL DEF Spec

-----------------------------------------------------------------------------
(* Unless a delete fails, the hash never counts for more than _entered.    *)

(* A decision keeps what HashInv says, though its command failed half way.  *)
LEMMA CountedHash ==
    ASSUME TypeOK, LockInv, HashInv, NEW r \in Requests, NEW count, Counted(r, count),
           pc[r] \in {"hset", "expire", "hlen"},
           fields' \subseteq fields \/ fields' \subseteq fields \cup {call[r].index},
           call[r].op # "submit" => fields' \subseteq fields
    PROVE  HashInv'
<1> USE DEF LockInv, HashInv, RedisCommands, Counting, memory, TypeOK
<1> DEFINE progress == Progress(count)
<1>1. lock = r
  OBVIOUS
<1>2. \/ call[r].op = "submit" /\ Decide(r, progress)
      \/ call[r].op # "submit" /\ ReportProgress(r, progress)
  BY DEF Counted
<1> HIDE DEF progress
<1>3. CASE ~sealed' /\ sealed
  <2>1. pc' = [pc EXCEPT ![r] = "delete"]
    BY <1>2, <1>3 DEF Decide, ReportProgress, Goto
  <2> QED BY <1>1, <2>1
<1>4. CASE ~(~sealed' /\ sealed)
  <2>1. /\ pc' = [pc EXCEPT ![r] = "idle"] /\ UNCHANGED memory
        /\ call' = [call EXCEPT ![r] = NoCall]
    BY <1>2, <1>4 DEF Decide, ReportProgress, Finish
  <2>2. shares = NoSplit \/ fields \subseteq entered
    BY <1>1
  <2>3. shares = NoSplit \/ fields' \subseteq entered
    BY <2>2
  <2> QED BY <1>1, <2>1, <2>3
<1> QED BY <1>3, <1>4

LEMMA StepHash ==
    ASSUME ~DeleteFails, TypeOK, LockInv, RitualInv, HashInv,
           NEW r \in Requests, Step(r)
    PROVE  HashInv'
<1> USE DEF LockInv, HashInv, RedisCommands, Counting, memory, TypeOK
<1>1. CASE HSet(r)
  BY <1>1 DEF HSet, PutField, Goto
<1>2. CASE Expire(r)
  BY <1>2 DEF Expire, SetTtl, Goto
<1>3. CASE HLen(r)
  BY <1>3, CountedHash DEF HLen, redis
<1>4. CASE Delete(r)
  BY <1>4 DEF Delete, Remains, ReleaseAndPublish, Goto
<1>5. CASE RedisError(r)
  <2>1. /\ pc[r] \in {"hset", "expire", "hlen"} /\ Counted(r, 0)
        /\ \/ pc[r] = "hset" /\ (PutField(call[r].index) \/ UNCHANGED redis)
           \/ pc[r] = "expire" /\ (SetTtl \/ UNCHANGED redis)
           \/ UNCHANGED redis
    BY <1>5 DEF RedisError
  <2>2. fields' \subseteq fields \/ fields' = fields \cup {call[r].index}
    BY <2>1 DEF PutField, SetTtl, redis
  <2>3. call[r].op # "submit" => UNCHANGED redis
    BY <2>1
  <2>4. call[r].op # "submit" => fields' \subseteq fields
    BY <2>3 DEF redis
  <2> QED BY <2>1, <2>2, <2>4, CountedHash
<1>6. CASE Return(r)
  BY <1>6 DEF Return, Finish, redis
<1> QED BY <1>1, <1>2, <1>3, <1>4, <1>5, <1>6 DEF Step

LEMMA AcquireHash ==
    ASSUME TypeOK, LockInv, HashInv, NEW r \in Requests, Acquire(r)
    PROVE  HashInv'
<1> USE DEF Acquire, LockInv, HashInv, RedisCommands, Counting, memory, redis, TypeOK, Goto
<1>1. \A q \in Requests : pc[q] \notin RedisCommands
  BY GatekeeperAssumption
<1>2. CASE Initialize(r) \/ Seal(r)
  BY <1>1, <1>2 DEF Initialize, Seal, Close
<1>3. CASE AcceptShare(r)
  <2>1. shares # NoSplit
    BY <1>3, GatekeeperAssumption DEF AcceptShare, ValidFragment, Calls
  <2> QED BY <1>1, <1>3, <2>1 DEF AcceptShare, WithEntered
<1>4. CASE RejectShare(r) \/ StatusUnsealed(r)
  BY <1>1, <1>4 DEF RejectShare, StatusUnsealed, Finish
<1>5. CASE StatusSealed(r)
  BY <1>1, <1>5 DEF StatusSealed
<1> QED BY <1>2, <1>3, <1>4, <1>5

LEMMA NextHash ==
    ASSUME ~DeleteFails, TypeOK, LockInv, RitualInv, HashInv,
           [Next]_vars
    PROVE  HashInv'
<1> USE DEF LockInv, HashInv, RedisCommands, Counting, memory, redis, TypeOK
<1>1. ASSUME NEW r \in Requests, Request(r)
      PROVE  HashInv'
  BY <1>1 DEF Request
<1>2. CASE HashExpires \/ WorkerSeal
  BY <1>2 DEF HashExpires, WorkerSeal, DropHash
<1>3. CASE Restart
  BY <1>3 DEF Restart
<1>4. CASE UNCHANGED vars
  BY <1>4 DEF vars
<1> QED BY <1>1, <1>2, <1>3, <1>4, StepHash, AcquireHash DEF Next

(* What holds in every reachable state when no delete fails. *)
Inv == TypeOK /\ LockInv /\ RitualInv /\ HashInv

LEMMA RitualAndHash ==
    ASSUME ~DeleteFails
    PROVE  Spec => []Inv
<1>1. Init => RitualInv /\ HashInv
  BY ShareCount, FS_EmptySet DEF Init, RitualInv, HashInv, Counting
<1>2. TypeOK /\ LockInv /\ RitualInv /\ HashInv /\ [Next]_vars
        => (RitualInv /\ HashInv)'
  BY NextRitual, NextHash
<1> QED BY <1>1, <1>2, TypeCorrect, PTL DEF Spec, Inv

(* The count that a command brings back: of the hash, or 0 after an error. *)
Counts == {0, Cardinality(fields)}
CountedBy(r, count) == pc[r] \in {"hset", "expire", "hlen"} /\ Counted(r, count)

(* Whoever has counted the hash finds no more there than in _entered. *)
LEMMA CountIsOurs ==
    ASSUME Inv, NEW r \in Requests, pc[r] \in {"hset", "expire", "hlen"},
           shares # NoSplit, NEW count \in Counts
    PROVE  Progress(count) = Cardinality(entered)
<1>1. fields \subseteq entered
  BY DEF Inv, HashInv, LockInv, RedisCommands
<1>2. Cardinality(fields) <= Cardinality(entered)
  BY <1>1, CountOfIndices DEF Inv, TypeOK
<1>3. Cardinality(fields) \in 0..Cardinality(Indices)
  BY CountOfIndices DEF Inv, TypeOK
<1>4. Cardinality(entered) \in 0..Cardinality(Indices)
  BY CountOfIndices DEF Inv, TypeOK
<1>5. count \in 0..Cardinality(Indices) /\ count <= Cardinality(entered)
  BY <1>2, <1>3, <1>4, ShareCount DEF Counts
<1>6. /\ Progress(count) \in {Cardinality(entered), count}
      /\ Progress(count) >= Cardinality(entered)
  BY <1>5, ProgressType DEF Inv
<1> QED BY <1>4, <1>5, <1>6, ShareCount

(* Only a submission that counted a full ritual of its own opens the vault. *)
LEMMA UnsealingStep ==
    ASSUME ~DeleteFails, Inv, [Next]_vars, sealed, ~sealed'
    PROVE  /\ Cardinality(entered) >= Threshold
           /\ sealed' = FALSE /\ entered' = {} /\ shares' = shares /\ shares # NoSplit
<1>1. \E r \in Requests : HLen(r) \/ RedisError(r)
  BY DEF Next, Step, Request, Acquire, Initialize, AcceptShare, RejectShare, Seal, Close,
         StatusSealed, StatusUnsealed, HSet, Expire, Delete, ReleaseAndPublish,
         Return, HashExpires, WorkerSeal, Restart, vars, memory
<1>2. PICK r \in Requests : HLen(r) \/ RedisError(r)
  BY <1>1
<1>3. PICK count \in Counts : CountedBy(r, count)
  BY <1>2 DEF HLen, RedisError, Counts, CountedBy
<1> DEFINE progress == Progress(count)
<1>4. call[r].op = "submit" /\ Decide(r, progress)
  BY <1>3 DEF CountedBy, Counted, ReportProgress, memory
<1>5. shares # NoSplit
  BY <1>3, <1>4 DEF Inv, HashInv, Counting, CountedBy
<1>6. progress = Cardinality(entered)
  BY <1>3, <1>5, CountIsOurs DEF CountedBy
<1> HIDE DEF progress
<1> QED BY <1>4, <1>5, <1>6 DEF Decide, Complete, memory

(***************************************************************************)
(* As long as no delete of the hash fails, the vault opens only for a      *)
(* threshold of distinct fragments that this process accepted since the    *)
(* last close, whatever restarts, expiries, worker seals and errors of the *)
(* other commands left in the shared hash.                                 *)
(***************************************************************************)
THEOREM UnsealSafe ==
    ASSUME ~DeleteFails
    PROVE  Spec => UnsealNeedsThreshold
<1>1. Inv /\ [Next]_vars => (sealed /\ ~sealed' => Cardinality(entered) >= Threshold)
  BY UnsealingStep
<1> QED BY <1>1, RitualAndHash, PTL DEF Spec, UnsealNeedsThreshold

LEMMA StatusStep ==
    ASSUME ~DeleteFails, Inv, [Next]_vars, NEW r \in Requests,
           call[r].op = "status", reply'[r] # reply[r], shares # NoSplit
    PROVE  reply'[r] \notin FullButSealed
<1>1. CASE reply'[r] = NoReply
  BY <1>1 DEF NoReply, FullButSealed
<1>2. CASE reply'[r] # NoReply
  <2>1. StatusUnsealed(r) \/ \E count \in Counts : pc[r] = "hlen" /\ Counted(r, count)
    <3>1. ASSUME NEW q \in Requests, q # r, Acquire(q) \/ Step(q)
          PROVE  reply'[r] = reply[r]
      BY <3>1
      DEF Acquire, Initialize, AcceptShare, RejectShare, Seal, StatusSealed,
          StatusUnsealed, Step, HSet, Expire, HLen, Delete, ReleaseAndPublish,
          RedisError, Return, Counted, Decide, ReportProgress, Goto, Finish,
          Inv, TypeOK
    <3>2. CASE Acquire(r)
      BY <3>2 DEF Acquire, Initialize, AcceptShare, RejectShare, Seal, StatusSealed, Goto
    <3>3. CASE Step(r)
      <4>1. ~(pc[r] \in {"hset", "expire"})
        BY DEF Inv, LockInv
      <4>2. Return(r) => reply'[r] = NoReply
        BY DEF Return, LateAnswer, Finish, Inv, TypeOK
      <4>3. ~Delete(r)
        BY DEF Delete, ReleaseAndPublish, Goto
      <4>4. HLen(r) \/ RedisError(r) \/ Return(r)
        BY <3>3, <4>1, <4>3 DEF Step, HSet, Expire
      <4>5. RedisError(r) => pc[r] = "hlen" /\ Counted(r, 0)
        BY <4>1 DEF RedisError
      <4>6. HLen(r) => pc[r] = "hlen" /\ Counted(r, Cardinality(fields))
        BY DEF HLen
      <4> QED BY <1>2, <4>2, <4>4, <4>5, <4>6 DEF Counts
    <3>4. ASSUME NEW q \in Requests, Request(q)
          PROVE  reply'[r] \in {reply[r], NoReply}
      BY <3>4 DEF Request, Inv, TypeOK
    <3>5. UNCHANGED vars \/ HashExpires \/ WorkerSeal => reply'[r] = reply[r]
      BY DEF vars, HashExpires, WorkerSeal
    <3>6. Restart => reply'[r] = NoReply
      BY DEF Restart
    <3> QED BY <1>2, <3>1, <3>2, <3>3, <3>4, <3>5, <3>6 DEF Next
  <2>2. CASE StatusUnsealed(r)
    <3>1. reply'[r] = [sealed |-> FALSE, progress |-> Threshold]
      BY <2>2 DEF StatusUnsealed, Finish, Status, Inv, TypeOK
    <3> QED BY <3>1 DEF FullButSealed
  <2>3. ASSUME NEW count \in Counts, pc[r] = "hlen", Counted(r, count)
        PROVE  reply'[r] \notin FullButSealed
    <3> DEFINE progress == Progress(count)
    <3>1. ReportProgress(r, progress)
      BY <2>3 DEF Counted
    <3>2. progress = Cardinality(entered)
      BY <2>3, CountIsOurs
    <3> HIDE DEF progress
    <3>3. reply'[r] = [sealed |-> sealed, progress |-> progress]
      BY <3>1 DEF ReportProgress, Finish, Status, Inv, TypeOK
    <3>4. sealed => Cardinality(entered) < Threshold
      BY <2>3 DEF Inv, RitualInv, Counting, LockInv, RedisCommands
    <3>5. Cardinality(entered) \in 0..Cardinality(Indices)
      BY CountOfIndices DEF Inv, TypeOK
    <3>6. reply'[r].sealed = sealed /\ reply'[r].progress = Cardinality(entered)
      BY <3>2, <3>3
    <3>7. CASE sealed
      <4>1. Cardinality(entered) \notin Threshold..Cardinality(Indices)
        BY <3>4, <3>5, <3>7, ShareCount
      <4> QED BY <3>6, <4>1 DEF FullButSealed
    <3>8. CASE ~sealed
      <4>1. sealed = FALSE
        BY <3>8 DEF Inv, TypeOK
      <4> QED BY <3>6, <4>1 DEF FullButSealed
    <3> QED BY <3>7, <3>8
  <2> QED BY <2>1, <2>2, <2>3
<1> QED BY <1>1, <1>2

(***************************************************************************)
(* As long as no delete of the hash fails, a status request never reports  *)
(* a closed vault beside a complete count of fragments.                    *)
(***************************************************************************)
THEOREM StatusConsistent ==
    ASSUME ~DeleteFails
    PROVE  Spec => SealedStatusIsShort
<1>1. Inv /\ [Next]_vars =>
      \A r \in Requests :
        (call[r].op = "status" /\ reply'[r] # reply[r] /\ shares # NoSplit)
          => reply'[r] \notin FullButSealed
  BY StatusStep
<1> QED BY <1>1, RitualAndHash, PTL DEF Spec, SealedStatusIsShort

-----------------------------------------------------------------------------
(* Refinement. *)

LEMMA RequestRefines ==
    ASSUME Inv, NEW r \in Requests, Acquire(r)
    PROVE  [TS!Next]_(TS!vars)
<1> USE DEF Acquire, TS!vars, memory
<1>1. CASE Initialize(r)
  <2>1. shares' # NoSplit
    BY <1>1, GatekeeperAssumption DEF Initialize, FreshSplits, Close
  <2>2. TS!Reissue
    BY <1>1, <2>1 DEF Initialize, Close, TS!Reissue
  <2> QED BY <2>2 DEF TS!Next
<1>2. CASE AcceptShare(r)
  <2>1. call[r].index \in Indices /\ shares # NoSplit
    BY <1>2, GatekeeperAssumption
    DEF AcceptShare, ValidFragment, Inv, LockInv, Calls
  <2>2. CASE sealed
    <3>1. TS!Contribute(call[r].index)
      BY <1>2, <2>1, <2>2 DEF AcceptShare, WithEntered, TS!Contribute
    <3> QED BY <2>1, <3>1 DEF TS!Next
  <2>3. CASE ~sealed
    BY <1>2, <2>3 DEF AcceptShare
  <2> QED BY <2>2, <2>3
<1>3. CASE Seal(r)
  <2>1. TS!Seal
    BY <1>3 DEF Seal, Close, TS!Seal
  <2> QED BY <2>1 DEF TS!Next
<1>4. CASE RejectShare(r) \/ StatusSealed(r) \/ StatusUnsealed(r)
  BY <1>4 DEF RejectShare, StatusSealed, StatusUnsealed
<1> QED BY <1>1, <1>2, <1>3, <1>4

LEMMA StepRefines ==
    ASSUME ~DeleteFails, Inv, NEW r \in Requests, Step(r)
    PROVE  [TS!Next]_(TS!vars)
<1>1. CASE sealed /\ ~sealed'
  <2>1. [Next]_vars
    BY DEF Next
  <2>2. TS!Unseal
    <3>1. /\ Cardinality(entered) >= Threshold
          /\ sealed' = FALSE /\ entered' = {} /\ shares' = shares /\ shares # NoSplit
      BY <1>1, <2>1, UnsealingStep
    <3>2. sealed = TRUE
      BY <1>1 DEF Inv, TypeOK
    <3>3. TS!Cardinality(entered) = Cardinality(entered)
      BY DEF Cardinality, TS!Cardinality
    <3> QED BY <3>1, <3>2, <3>3 DEF TS!Unseal
  <2> QED BY <2>2 DEF TS!Next
<1>2. CASE ~(sealed /\ ~sealed')
  <2>1. UNCHANGED memory
    BY <1>2 DEF Step, HSet, Expire, HLen, Delete, ReleaseAndPublish, RedisError,
                Return, Counted, Decide, ReportProgress, memory
  <2> QED BY <2>1 DEF memory, TS!vars
<1> QED BY <1>1, <1>2

(***************************************************************************)
(* As long as no delete of the hash fails, the gatekeeper implements the   *)
(* threshold seal: every step of a request is a step of it or a stutter.   *)
(***************************************************************************)
THEOREM GatekeeperRefinesThresholdSeal ==
    ASSUME ~DeleteFails
    PROVE  Spec => ThresholdSealSpec
<1>1. Init => TS!Init
  BY DEF Init, TS!Init
<1>2. Inv /\ [Next]_vars => [TS!Next]_(TS!vars)
  <2> SUFFICES ASSUME Inv, [Next]_vars
               PROVE  [TS!Next]_(TS!vars)
    OBVIOUS
  <2>1. CASE HashExpires \/ WorkerSeal \/ UNCHANGED vars \/ \E r \in Requests : Request(r)
    <3>1. UNCHANGED memory
      BY <2>1 DEF HashExpires, WorkerSeal, Request, vars
    <3> QED BY <3>1 DEF memory, TS!vars
  <2>2. CASE Restart
    <3>1. TS!Restart
      BY <2>2 DEF Restart, TS!Restart
    <3> QED BY <3>1 DEF TS!Next
  <2> QED BY <2>1, <2>2, RequestRefines, StepRefines DEF Next
<1> QED BY <1>1, <1>2, RitualAndHash, PTL DEF Spec, ThresholdSealSpec, TS!Spec

-----------------------------------------------------------------------------
(* Accepted fragments. *)

(***************************************************************************)
(* A restart must take the split away together with the fragments, so a    *)
(* gatekeeper without a split is known to hold none.                       *)
(***************************************************************************)
NoneWithoutSplit == shares = NoSplit => entered = {}

LEMMA StepKeeps ==
    ASSUME NEW r \in Requests, Step(r)
    PROVE  shares' = shares /\ (entered' = entered \/ (~sealed' /\ entered' = {}))
<1>1. ASSUME NEW count, Counted(r, count)
      PROVE  shares' = shares /\ (entered' = entered \/ (~sealed' /\ entered' = {}))
  <2> DEFINE progress == Progress(count)
  <2>1. Decide(r, progress) \/ ReportProgress(r, progress)
    BY <1>1 DEF Counted
  <2> HIDE DEF progress
  <2> QED BY <2>1 DEF Decide, ReportProgress, memory
<1>2. CASE HSet(r) \/ Expire(r) \/ Delete(r) \/ Return(r)
  BY <1>2 DEF HSet, Expire, Delete, ReleaseAndPublish, Return, memory
<1>3. CASE HLen(r)
  BY <1>1, <1>3 DEF HLen
<1>4. CASE RedisError(r)
  BY <1>1, <1>4 DEF RedisError
<1> QED BY <1>2, <1>3, <1>4 DEF Step

LEMMA AcquireKeeps ==
    ASSUME TypeOK, LockInv, NoneWithoutSplit, NEW r \in Requests, Acquire(r)
    PROVE  /\ NoneWithoutSplit'
           /\ \/ entered \subseteq entered'
              \/ lock' = r /\ call[r].op \in {"seal", "initialize"}
<1>1. call[r] \in Calls
  BY DEF LockInv, Acquire
<1>2. CASE Initialize(r)
  BY <1>2 DEF Initialize, Close, NoneWithoutSplit
<1>3. CASE AcceptShare(r)
  <2>1. shares \in Splits
    BY <1>1, <1>3 DEF AcceptShare, ValidFragment, Calls
  <2>2. shares' # NoSplit
    BY <1>3, <2>1, GatekeeperAssumption DEF AcceptShare
  <2> QED BY <1>3, <2>2 DEF AcceptShare, WithEntered, NoneWithoutSplit
<1>4. CASE Seal(r)
  BY <1>4 DEF Seal, Close, NoneWithoutSplit
<1>5. CASE RejectShare(r) \/ StatusSealed(r) \/ StatusUnsealed(r)
  BY <1>5 DEF RejectShare, StatusSealed, StatusUnsealed, memory, NoneWithoutSplit
<1> QED BY <1>2, <1>3, <1>4, <1>5 DEF Acquire

(***************************************************************************)
(* While the hash has not expired, an accepted fragment is counted until   *)
(* the ritual is over, whatever fails, is deleted by the worker or         *)
(* overlaps.                                                               *)
(***************************************************************************)
THEOREM FragmentsStay == Spec => AcceptedFragmentsStay
<1> DEFINE Over == \/ shares' # shares
                   \/ \E r \in Requests : lock' = r /\ call[r].op \in {"seal", "initialize"}
                   \/ HashExpires
<1>1. Init => NoneWithoutSplit
  BY DEF Init, NoneWithoutSplit
<1>2. TypeOK /\ LockInv /\ NoneWithoutSplit /\ [Next]_vars =>
        NoneWithoutSplit' /\ (sealed /\ sealed' /\ ~(entered \subseteq entered') => Over)
  <2> SUFFICES ASSUME TypeOK, LockInv, NoneWithoutSplit, [Next]_vars
               PROVE  /\ NoneWithoutSplit'
                      /\ sealed /\ sealed' /\ ~(entered \subseteq entered') => Over
    OBVIOUS
  <2>1. ASSUME NEW r \in Requests, Step(r)
        PROVE  /\ NoneWithoutSplit'
               /\ sealed' => entered \subseteq entered'
    BY <2>1, StepKeeps DEF NoneWithoutSplit
  <2>2. ASSUME NEW r \in Requests, Request(r)
        PROVE  UNCHANGED <<shares, entered>>
    BY <2>2 DEF Request, memory
  <2>3. CASE HashExpires \/ WorkerSeal \/ UNCHANGED vars
    <3>1. UNCHANGED memory
      BY <2>3 DEF HashExpires, WorkerSeal, vars
    <3> QED BY <3>1 DEF memory, NoneWithoutSplit
  <2>4. CASE Restart
    BY <2>4 DEF Restart, NoneWithoutSplit
  <2> QED BY <2>1, <2>2, <2>3, <2>4, AcquireKeeps DEF Next, NoneWithoutSplit
<1> QED BY <1>1, <1>2, TypeCorrect, PTL DEF Spec, AcceptedFragmentsStay
=============================================================================
