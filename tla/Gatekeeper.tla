----------------------------- MODULE Gatekeeper -----------------------------
(***************************************************************************)
(* VaultGatekeeper (backend/vault/service.py): the unseal ritual of one    *)
(* API process.  Requests run as tasks of one event loop, so a task moves  *)
(* from one await to the next without interruption: every action below is  *)
(* the code between two awaits.  _lock serialises the requests, the ritual *)
(* is kept twice, in _entered and in a Redis hash that outlives the        *)
(* process, and each Redis command is a step of its own.                   *)
(***************************************************************************)
EXTENDS Integers, FiniteSets, FiniteSetsExt

CONSTANTS
    Requests,   \* request tasks that use the gatekeeper at the same time
    NoRequest,  \* "nobody" as the owner of _lock
    Indices,    \* share indices of a split (1..vault_key_shares)
    Threshold,  \* vault_key_threshold
    Splits,     \* identities of the random splits of the master key
    NoSplit,    \* _shares is the empty dict
    Faults      \* what may happen: a subset of AllFaults

(* A Redis error of the commands that record and count fragments, one of the *)
(* delete of the hash, the worker's auto-seal, a restart of the process.     *)
AllFaults == {"redis error", "delete error", "worker seal", "restart"}

(***************************************************************************)
(* A threshold of one is excluded: every fragment of such a split equals   *)
(* the secret, so an old fragment would be a new one too.  Splits leaves a *)
(* fresh identity for every initialize, however many fragments are queued. *)
(***************************************************************************)
ASSUME GatekeeperAssumption ==
    /\ IsFiniteSet(Requests) /\ NoRequest \notin Requests
    /\ IsFiniteSet(Indices)
    /\ Threshold \in 2..Cardinality(Indices)
    /\ IsFiniteSet(Splits) /\ NoSplit \notin Splits
    /\ Cardinality(Splits) > Cardinality(Requests)
    /\ Faults \subseteq AllFaults

VARIABLES
    lock,     \* owner of _lock
    shares,   \* _shares: the split whose fragments are accepted
    entered,  \* _entered
    sealed,   \* _sealed
    fields,   \* the indices in the Redis hash vault:unseal:fragments
    ttl,      \* the hash has a time to live
    pc,       \* the await each request is at
    call,     \* what each request asked for
    reply     \* what a request answered with

memory == <<shares, entered, sealed>>
redis == <<fields, ttl>>
vars == <<lock, memory, redis, pc, call, reply>>

Calls ==
    [op : {"submit"}, index : Indices, split : Splits]
        \cup [op : {"initialize", "seal", "status"}]

RedisCommands == {"hset", "expire", "hlen", "delete"}

NoCall == [op |-> "none"]

VaultStatus == [sealed : BOOLEAN, progress : 0..Cardinality(Indices)]
NoReply == [sealed |-> FALSE, progress |-> 0]    \* no request is answered so
Fragments == [split : Splits \cup {NoSplit}]     \* the shares initialize hands out
Replies == VaultStatus \cup Fragments \cup {NoReply}

TypeOK ==
    /\ lock \in Requests \cup {NoRequest}
    /\ shares \in Splits \cup {NoSplit}
    /\ entered \subseteq Indices
    /\ sealed \in BOOLEAN
    /\ fields \subseteq Indices
    /\ ttl \in BOOLEAN
    /\ pc \in [Requests -> {"idle", "lock", "publish"} \cup RedisCommands]
    /\ call \in [Requests -> Calls \cup {NoCall}]
    /\ reply \in [Requests -> Replies]

Init ==
    /\ lock = NoRequest
    /\ shares = NoSplit
    /\ entered = {}
    /\ sealed = TRUE
    /\ fields = {}
    /\ ttl = FALSE
    /\ pc = [r \in Requests |-> "idle"]
    /\ call = [r \in Requests |-> NoCall]
    /\ reply = [r \in Requests |-> NoReply]

-----------------------------------------------------------------------------
(* Redis, as the service uses it. *)

PutField(i) ==
    /\ fields' = fields \cup {i}
    /\ ttl' = (ttl /\ fields # {})     \* a hash that hset creates never expires

SetTtl ==
    /\ ttl' = (fields # {})            \* expire of a missing key does nothing
    /\ UNCHANGED fields

DropHash ==
    /\ fields' = {}
    /\ ttl' = FALSE

-----------------------------------------------------------------------------
(* The parts of a request. *)

(* The task runs on to its next await. *)
Goto(r, label) ==
    /\ pc' = [pc EXCEPT ![r] = label]
    /\ UNCHANGED <<call, reply>>

(* The task ends with a VaultStatus, with fragments, or with NoReply. *)
Finish(r, answer) ==
    /\ pc' = [pc EXCEPT ![r] = "idle"]
    /\ call' = [call EXCEPT ![r] = NoCall]
    /\ reply' = [reply EXCEPT ![r] = answer]

Status(s, progress) == [sealed |-> s, progress |-> progress]

(* A request arrives and queues for the lock. *)
Request(r) ==
    /\ pc[r] = "idle"
    /\ \E c \in Calls : call' = [call EXCEPT ![r] = c]
    /\ reply' = [reply EXCEPT ![r] = NoReply]
    /\ pc' = [pc EXCEPT ![r] = "lock"]
    /\ UNCHANGED <<lock, memory, redis>>

(* The split is random: it is none that a queued fragment was taken from. *)
FreshSplits(r) ==
    Splits \ ({shares} \cup {call[q].split : q \in
                 {p \in Requests : call[p].op = "submit"}})

(* Seeded bug: sealing leaves the fragments entered so far in place. *)
CloseKeeping == sealed' = TRUE /\ UNCHANGED entered

Close == sealed' = TRUE /\ entered' = {}

Initialize(r) ==
    /\ call[r].op = "initialize"
    /\ shares' \in FreshSplits(r)
    /\ Close
    /\ lock' = r
    /\ Goto(r, "delete")

ValidFragment(r) == call[r].split = shares

(* Seeded bug: only the latest fragment is kept. *)
OnlyLatest(index) == {index}
WithEntered(index) == entered \cup {index}

AcceptShare(r) ==
    /\ call[r].op = "submit" /\ ValidFragment(r)
    /\ entered' = WithEntered(call[r].index)
    /\ lock' = r
    /\ Goto(r, "hset")
    /\ UNCHANGED <<shares, sealed>>

(* ValueError: the lock is released before anybody else runs. *)
RejectShare(r) ==
    /\ call[r].op = "submit" /\ ~ValidFragment(r)
    /\ Finish(r, NoReply)
    /\ UNCHANGED <<lock, memory>>

Seal(r) ==
    /\ call[r].op = "seal"
    /\ Close
    /\ lock' = r
    /\ Goto(r, "delete")
    /\ UNCHANGED shares

StatusSealed(r) ==
    /\ call[r].op = "status" /\ sealed
    /\ lock' = r
    /\ Goto(r, "hlen")
    /\ UNCHANGED memory

StatusUnsealed(r) ==
    /\ call[r].op = "status" /\ ~sealed
    /\ Finish(r, Status(sealed, Threshold))
    /\ UNCHANGED <<lock, memory>>

(* The head of each method, once the task holds the lock. *)
Acquire(r) ==
    /\ pc[r] = "lock" /\ lock = NoRequest
    /\ \/ Initialize(r)
       \/ AcceptShare(r)
       \/ RejectShare(r)
       \/ Seal(r)
       \/ StatusSealed(r)
       \/ StatusUnsealed(r)
    /\ UNCHANGED redis

(* Seeded bug: one fragment more than the threshold is asked for. *)
CompleteLate(progress) == progress > Threshold
Complete(progress) == progress >= Threshold

(* What submit_share does with the count that _record_fragment returned. *)
Decide(r, progress) ==
    IF Complete(progress) /\ sealed
    THEN /\ sealed' = FALSE
         /\ entered' = {}
         /\ Goto(r, "delete")
         /\ UNCHANGED <<lock, shares>>
    ELSE /\ lock' = NoRequest
         /\ Finish(r, Status(sealed, progress))
         /\ UNCHANGED memory

(* Seeded bug: an early return keeps the lock. *)
ReportLocked(r, progress) == Finish(r, Status(sealed, progress)) /\ UNCHANGED <<lock, memory>>

ReportProgress(r, progress) ==
    /\ lock' = NoRequest
    /\ Finish(r, Status(sealed, progress))
    /\ UNCHANGED memory

(* Seeded bugs: only the hash is counted; the two counts are added up. *)
ProgressInRedis(count) == count
ProgressSum(count) == Cardinality(entered) + count
Progress(count) == Max({Cardinality(entered), count})

(* The fragment count is back, or 0 after an error: submit_share decides on *)
(* it, status reports it.                                                   *)
Counted(r, count) ==
    IF call[r].op = "submit"
    THEN Decide(r, Progress(count))
    ELSE ReportProgress(r, Progress(count))

HSet(r) ==
    /\ pc[r] = "hset"
    /\ PutField(call[r].index)
    /\ Goto(r, "expire")
    /\ UNCHANGED <<lock, memory>>

Expire(r) ==
    /\ pc[r] = "expire"
    /\ SetTtl
    /\ Goto(r, "hlen")
    /\ UNCHANGED <<lock, memory>>

HLen(r) ==
    /\ pc[r] = "hlen"
    /\ Counted(r, Cardinality(fields))
    /\ UNCHANGED redis

(* The end of the critical section of initialize, seal and an unsealing     *)
(* submit_share: the hash is gone, the lock is free, the event goes out.    *)
ReleaseAndPublish(r) ==
    /\ lock' = NoRequest
    /\ Goto(r, "publish")
    /\ UNCHANGED memory

CountFails == "redis error" \in Faults
DeleteFails == "delete error" \in Faults

(* _clear_fragment_cache suppresses an error: the hash may still be there. *)
Remains == IF DeleteFails THEN {{}, fields} ELSE {{}}

Delete(r) ==
    /\ pc[r] = "delete"
    /\ fields' \in Remains
    /\ ttl' = (ttl /\ fields' # {})
    /\ ReleaseAndPublish(r)

(* A command fails at its caller, who cannot tell whether Redis ran it; the *)
(* service swallows the error and goes on without a count.                  *)
RedisError(r) ==
    /\ CountFails
    /\ \/ pc[r] = "hset" /\ (PutField(call[r].index) \/ UNCHANGED redis)
       \/ pc[r] = "expire" /\ (SetTtl \/ UNCHANGED redis)
       \/ pc[r] = "hlen" /\ UNCHANGED redis
    /\ Counted(r, 0)

(* publish has returned.  Only now, without the lock, submit_share reads    *)
(* _sealed, and initialize the _shares that it hands out.                   *)
LateAnswer(r) ==
    CASE call[r].op = "submit" -> Status(sealed, Threshold)
      [] call[r].op = "initialize" -> [split |-> shares]
      [] OTHER -> NoReply

Return(r) ==
    /\ pc[r] = "publish"
    /\ Finish(r, LateAnswer(r))
    /\ UNCHANGED <<lock, memory, redis>>

Step(r) == HSet(r) \/ Expire(r) \/ HLen(r) \/ Delete(r) \/ RedisError(r) \/ Return(r)

-----------------------------------------------------------------------------
(* The surroundings of the process. *)

HashExpires ==
    /\ ttl
    /\ DropHash
    /\ UNCHANGED <<lock, memory, pc, call, reply>>

(* trigger_auto_seal in a Celery worker seals the worker's own gatekeeper,  *)
(* which nobody asks; of it only the shared hash is seen here.              *)
WorkerSeal ==
    /\ "worker seal" \in Faults
    /\ fields # {}
    /\ DropHash
    /\ UNCHANGED <<lock, memory, pc, call, reply>>

(* The API process dies and starts again; the hash stays. *)
Restart ==
    /\ "restart" \in Faults
    /\ lock' = NoRequest
    /\ shares' = NoSplit
    /\ entered' = {}
    /\ sealed' = TRUE
    /\ pc' = [r \in Requests |-> "idle"]
    /\ call' = [r \in Requests |-> NoCall]
    /\ reply' = [r \in Requests |-> NoReply]
    /\ UNCHANGED redis

Next ==
    \/ \E r \in Requests : Request(r) \/ Acquire(r) \/ Step(r)
    \/ HashExpires
    \/ WorkerSeal
    \/ Restart

(* asyncio.Lock wakes its waiters in the order they queued, so none is      *)
(* passed over for ever; a task that awaits Redis or the event bus resumes. *)
Fairness == \A r \in Requests : SF_vars(Acquire(r)) /\ WF_vars(Step(r))

Spec == Init /\ [][Next]_vars
FairSpec == Spec /\ Fairness

-----------------------------------------------------------------------------
(* Properties. *)

(***************************************************************************)
(* Between two critical sections a sealed gatekeeper never holds a full    *)
(* ritual: the submission that completes it is the one that unseals, even  *)
(* when Redis fails half way through the submission (submit_share).        *)
(***************************************************************************)
SealedBelowThreshold ==
    lock = NoRequest /\ sealed => Cardinality(entered) < Threshold

(***************************************************************************)
(* The vault opens only when this process itself accepted a threshold of   *)
(* distinct fragments since it was last closed: whatever is left in the    *)
(* Redis hash by an earlier ritual, split or process does not count.       *)
(***************************************************************************)
UnsealNeedsThreshold ==
    [][sealed /\ ~sealed' => Cardinality(entered) >= Threshold]_vars

(***************************************************************************)
(* The gatekeeper implements the threshold seal.                           *)
(***************************************************************************)
TS == INSTANCE ThresholdSeal WITH
        issued <- shares # NoSplit,
        contributed <- IF sealed THEN entered ELSE {}
ThresholdSealSpec == TS!Spec

(***************************************************************************)
(* A status request never reports "sealed" beside a complete count while a *)
(* split is in force: it would show 3 of 3 fragments and a closed vault.   *)
(***************************************************************************)
FullButSealed == [sealed : {TRUE}, progress : Threshold..Cardinality(Indices)]
SealedStatusIsShort ==
    [][\A r \in Requests :
         (call[r].op = "status" /\ reply'[r] # reply[r] /\ shares # NoSplit)
           => reply'[r] \notin FullButSealed]_vars

(***************************************************************************)
(* While its window is open, an accepted fragment leaves the ritual only   *)
(* by unsealing, a seal, a new split or a restart, and never because Redis *)
(* fails, the worker drops the hash or another request overlaps.  Of the   *)
(* end of the window, the expiry of the hash, it says nothing.             *)
(***************************************************************************)
AcceptedFragmentsStay ==
    [][sealed /\ sealed' /\ ~(entered \subseteq entered')
         => \/ shares' # shares
            \/ \E r \in Requests : lock' = r /\ call[r].op \in {"seal", "initialize"}
            \/ HashExpires]_vars

(***************************************************************************)
(* Every request is answered, whoever else uses the gatekeeper.            *)
(***************************************************************************)
RequestsReturn == \A r \in Requests : pc[r] = "lock" ~> pc[r] = "idle"

(***************************************************************************)
(* A threshold of distinct accepted fragments opens the vault, unless it   *)
(* is closed again meanwhile; Redis errors do not prevent it.              *)
(***************************************************************************)
FullRitualUnseals ==
    (sealed /\ Cardinality(entered) >= Threshold) ~> (~sealed \/ entered = {})
=============================================================================
