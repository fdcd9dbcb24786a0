---------------------------- MODULE LeaseLedger ----------------------------
(***************************************************************************)
(* Dynamic secret leases (backend/secrets/service.py) under the three      *)
(* parties that write them: requests that issue a lease, panic requests    *)
(* that revoke all of them and seal the vault, and the reaper of the       *)
(* Celery worker.  Each SELECT and each COMMIT is a step of its own, so    *)
(* rows are written from what was read earlier.                            *)
(*                                                                         *)
(* A lease stands for the request that issues it until its row exists.     *)
(* The gatekeeper is the boolean its promise leaves (ThresholdSeal).       *)
(***************************************************************************)
EXTENDS Naturals, FiniteSets

CONSTANTS
    Leases,   \* leases, each issued by a request of its own (bound)
    Panics,   \* panic requests that may be in progress together
    MaxTtl    \* bound: the longest ttl_minutes, in ticks

ASSUME LedgerAssumption == IsFiniteSet(Leases) /\ MaxTtl \in Nat \ {0}

VARIABLES
    status,   \* where a lease's request is, then the status column of its row
    left,     \* ticks until expires_at has passed
    ppc,      \* the await each panic request is at
    found,    \* the leases its SELECT returned
    outcome,  \* how a panic request last ended
    rpc,      \* the await the reaper is at
    overdue,  \* the leases its SELECT returned
    sealed,   \* the gatekeeper is closed
    since     \* history: leases committed since each panic's SELECT

panics == <<ppc, found, outcome>>
reaper == <<rpc, overdue>>
vars == <<status, left, panics, reaper, sealed, since>>

Stages == {"new", "admitted", "built", "lost"}
Statuses == {"active", "expired", "revoked"}

TypeOK ==
    /\ status \in [Leases -> Stages \cup Statuses]
    /\ left \in [Leases -> 0..MaxTtl]
    /\ ppc \in [Panics -> {"idle", "select", "commit", "publish", "seal"}]
    /\ found \in [Panics -> SUBSET Leases]
    /\ outcome \in [Panics -> {"none", "done", "failed"}]
    /\ rpc \in {"idle", "commit"}
    /\ overdue \in SUBSET Leases
    /\ sealed \in BOOLEAN
    /\ since \in [Panics -> SUBSET Leases]

Init ==
    /\ status = [l \in Leases |-> "new"]
    /\ left = [l \in Leases |-> 0]
    /\ ppc = [p \in Panics |-> "idle"]
    /\ found = [p \in Panics |-> {}]
    /\ outcome = [p \in Panics |-> "none"]
    /\ rpc = "idle"
    /\ overdue = {}
    /\ sealed = TRUE
    /\ since = [p \in Panics |-> {}]

Active == {l \in Leases : status[l] = "active"}

(* Seeded bug: the rows are changed in the session and never committed. *)
MarkInSession(rows, value) == UNCHANGED status

(* The UPDATE that a commit flushes: by primary key, whatever the row says now. *)
Mark(rows, value) ==
    status' = [l \in Leases |-> IF l \in rows THEN value ELSE status[l]]

-----------------------------------------------------------------------------
(* POST /api/secrets/issue *)

(* enforce_vault_state asks the gatekeeper once, before the handler runs. *)
Admit(l) ==
    /\ status[l] = "new" /\ ~sealed
    /\ status' = [status EXCEPT ![l] = "admitted"]
    /\ UNCHANGED <<left, panics, reaper, sealed, since>>

(* Seeded bug: the upper end of the ttl's range is not enforced. *)
TtlsUnbounded == 1..(MaxTtl + 1)
Ttls == 1..MaxTtl

Build(l) ==
    /\ status[l] = "admitted"
    /\ \E ttl \in Ttls : left' = [left EXCEPT ![l] = ttl]
    /\ status' = [status EXCEPT ![l] = "built"]
    /\ UNCHANGED <<panics, reaper, sealed, since>>

CommitIssue(l) ==
    /\ status[l] = "built"
    /\ status' = [status EXCEPT ![l] = "active"]
    /\ since' = [p \in Panics |-> since[p] \cup {l}]
    /\ UNCHANGED <<left, panics, reaper, sealed>>

FailIssue(l) ==
    /\ status[l] = "built"
    /\ status' = [status EXCEPT ![l] = "lost"]
    /\ UNCHANGED <<left, panics, reaper, sealed, since>>

-----------------------------------------------------------------------------
(* POST /api/vault/panic: panic_revoke, then the gatekeeper's seal. *)

AdmitPanic(p) ==
    /\ ppc[p] = "idle" /\ ~sealed
    /\ ppc' = [ppc EXCEPT ![p] = "select"]
    /\ outcome' = [outcome EXCEPT ![p] = "none"]
    /\ UNCHANGED <<status, left, found, reaper, sealed, since>>

(* Seeded bug: leases past their expiry are left to the reaper. *)
RevocableRunning == {l \in Active : left[l] > 0}
Revocable == Active

(* Seeded bug: with nothing to revoke the handler returns early. *)
AfterSelectReturn(rows) == IF rows = {} THEN "idle" ELSE "commit"

(* With nothing to revoke there is no commit and no event. *)
AfterSelect(rows) == IF rows = {} THEN "seal" ELSE "commit"

SelectActive(p) ==
    /\ ppc[p] = "select"
    /\ found' = [found EXCEPT ![p] = Revocable]
    /\ since' = [since EXCEPT ![p] = {}]
    /\ ppc' = [ppc EXCEPT ![p] = AfterSelect(Revocable)]
    /\ UNCHANGED <<status, left, outcome, reaper, sealed>>

CommitRevoked(p) ==
    /\ ppc[p] = "commit"
    /\ Mark(found[p], "revoked")
    /\ ppc' = [ppc EXCEPT ![p] = "publish"]
    /\ UNCHANGED <<left, found, outcome, reaper, sealed, since>>

(* A database error leaves the handler before it seals. *)
FailPanic(p) ==
    /\ ppc[p] \in {"select", "commit"}
    /\ ppc' = [ppc EXCEPT ![p] = "idle"]
    /\ found' = [found EXCEPT ![p] = {}]
    /\ outcome' = [outcome EXCEPT ![p] = "failed"]
    /\ UNCHANGED <<status, left, reaper, sealed, since>>

PublishRevoked(p) ==
    /\ ppc[p] = "publish"
    /\ ppc' = [ppc EXCEPT ![p] = "seal"]
    /\ UNCHANGED <<status, left, found, outcome, reaper, sealed, since>>

SealAfterPanic(p) ==
    /\ ppc[p] = "seal"
    /\ sealed' = TRUE
    /\ ppc' = [ppc EXCEPT ![p] = "idle"]
    /\ found' = [found EXCEPT ![p] = {}]
    /\ outcome' = [outcome EXCEPT ![p] = "done"]
    /\ UNCHANGED <<status, left, reaper, since>>

PanicStep(p) ==
    SelectActive(p) \/ CommitRevoked(p) \/ FailPanic(p) \/ PublishRevoked(p) \/ SealAfterPanic(p)

-----------------------------------------------------------------------------
(* reap_expired_leases: expire_overdue_leases in the worker. *)

(* Seeded bug: the SELECT has lost its comparison with expires_at. *)
OverdueOrNot == Active
Overdue == {l \in Active : left[l] = 0}

SelectOverdue ==
    /\ rpc = "idle"
    /\ overdue' = Overdue
    /\ rpc' = IF overdue' = {} THEN "idle" ELSE "commit"
    /\ UNCHANGED <<status, left, panics, sealed, since>>

CommitExpired ==
    /\ rpc = "commit"
    /\ Mark(overdue, "expired")
    /\ rpc' = "idle"
    /\ overdue' = {}
    /\ UNCHANGED <<left, panics, sealed, since>>

(* A database error or a lost worker: nothing is written, the next run retries. *)
FailReap ==
    /\ rpc = "commit"
    /\ rpc' = "idle"
    /\ overdue' = {}
    /\ UNCHANGED <<status, left, panics, sealed, since>>

-----------------------------------------------------------------------------
(* The surroundings. *)

Tick ==
    /\ left' = [l \in Leases |-> IF left[l] = 0 THEN 0 ELSE left[l] - 1]
    /\ UNCHANGED <<status, panics, reaper, sealed, since>>

(* A ritual opens the gatekeeper; seal requests and auto-seals close it. *)
Unseal ==
    /\ sealed
    /\ sealed' = FALSE
    /\ UNCHANGED <<status, left, panics, reaper, since>>

Seal ==
    /\ ~sealed
    /\ sealed' = TRUE
    /\ UNCHANGED <<status, left, panics, reaper, since>>

Next ==
    \/ \E l \in Leases : Admit(l) \/ Build(l) \/ CommitIssue(l) \/ FailIssue(l)
    \/ \E p \in Panics : AdmitPanic(p) \/ PanicStep(p)
    \/ SelectOverdue
    \/ CommitExpired
    \/ FailReap
    \/ Tick
    \/ Unseal
    \/ Seal

(* Handlers that were admitted run to their end, and time passes.  Nothing  *)
(* is assumed of the reaper: a worker without a beat never starts it.       *)
Fairness ==
    /\ \A l \in Leases : WF_vars(Build(l)) /\ WF_vars(CommitIssue(l) \/ FailIssue(l))
    /\ \A p \in Panics : WF_vars(PanicStep(p))
    /\ WF_vars(Tick)

Spec == Init /\ [][Next]_vars
FairSpec == Spec /\ Fairness

-----------------------------------------------------------------------------
(* Properties. *)

(***************************************************************************)
(* The reaper expires only what is overdue, although the rows it writes    *)
(* were read in an earlier step and may have been revoked since.           *)
(***************************************************************************)
ExpiredWasOverdue == \A l \in Leases : status[l] = "expired" => left[l] = 0

(***************************************************************************)
(* When a panic request seals, the only leases still active are those that *)
(* were committed after its SELECT: nothing it could see escapes it,       *)
(* whichever of panic, reaper and a second panic commits last.             *)
(***************************************************************************)
PanicMissesOnlyLatecomers ==
    [][\A p \in Panics : SealAfterPanic(p) => Active \subseteq since[p]]_vars

(***************************************************************************)
(* The transactions of issue, panic and reaper, each a read and a later    *)
(* write, have the effect of single steps on the terms of the leases: what *)
(* has ended is never active again, it ended on time or for a panic, and a *)
(* panic that reports success has ended every lease that it found.         *)
(***************************************************************************)
LT == INSTANCE LeaseTerms WITH
    phase <- [l \in Leases |->
                IF status[l] \in Stages THEN "none"
                ELSE IF status[l] = "active" THEN "held" ELSE "ended"],
    left  <- [l \in Leases |-> IF status[l] \in Stages THEN 0 ELSE left[l]],
    panic <- [p \in Panics |-> IF ppc[p] \in {"idle", "select"} THEN outcome[p] ELSE "bound"],
    due   <- found

LeaseTermsSpec == LT!Spec

(***************************************************************************)
(* A panic request ends with the vault sealed unless the database fails.   *)
(***************************************************************************)
PanicSealsOrFails ==
    \A p \in Panics : ppc[p] = "select" ~> (sealed \/ outcome[p] = "failed")

(***************************************************************************)
(* Where something does start the reaper again and again, and the database *)
(* is not down at each of its commits, no lease stays active for ever: the *)
(* runs that fail, and the panics that write the same rows, lose none.     *)
(***************************************************************************)
ReaperRuns == WF_vars(SelectOverdue) /\ SF_vars(CommitExpired)

LeasesEnd == ReaperRuns =>
    \A l \in Leases : status[l] = "active" ~> status[l] # "active"

(***************************************************************************)
(* After the emergency operation no lease is active.                       *)
(***************************************************************************)
PanicRevokesAll == [][\A p \in Panics : SealAfterPanic(p) => Active = {}]_vars
=============================================================================
