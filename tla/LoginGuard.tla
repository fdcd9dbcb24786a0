---------------------------- MODULE LoginGuard ----------------------------
(***************************************************************************)
(* POST /api/auth/login (backend/auth/router.py): concurrent logins of one *)
(* client address for one user, from the rate limiter's Redis commands to  *)
(* the rows that authentication writes.  Every await is a step boundary,   *)
(* so a login acts on what it read before other logins ran, and the Redis  *)
(* key may expire between any two commands.                                *)
(*                                                                         *)
(* The code tells only "over the limit or not" of the counter, "zero or    *)
(* not" of failed_attempts and "none, one or several" of the device rows:  *)
(* the three numbers saturate just above what it tells apart.              *)
(***************************************************************************)
EXTENDS Naturals, FiniteSets

CONSTANTS
    Logins,   \* logins that may be in progress together
    Limit,    \* settings.rate_limit_requests
    Window    \* settings.rate_limit_window_seconds, in ticks

ASSUME LoginAssumption == Limit \in Nat \ {0} /\ Window \in Nat \ {0}

VARIABLES
    count,     \* the Redis counter of the client's key, 0 when the key is gone
    ttl,       \* ticks until the key expires, 0 when it has no expiry
    attempts,  \* failed_attempts of the user's row
    devices,   \* device rows with the user's fingerprint
    typed,     \* the database takes the enumerations of the alerts table
    sealed,    \* the gatekeeper is closed
    pc,        \* the await each login is at
    bare,      \* TTL replied -1: the key had no expiry
    tally,     \* the reply of INCR
    row,       \* failed_attempts in the login's session
    reply,     \* how the login last ended
    passed     \* history: requests let through since the key was created

key == <<count, ttl>>
rows == <<attempts, devices, typed>>
local == <<bare, tally, row>>
vars == <<key, rows, sealed, pc, local, reply, passed>>

Stages == {"idle", "ttl", "incr", "expire", "retry", "alert", "seal",
           "select", "wrong", "device", "insert", "update", "log"}
Replies == {"none", "refused", "unauthorized", "tokens", "error"}

Cap(n, bound) == IF n > bound THEN bound ELSE n

TypeOK ==
    /\ count \in 0..(Limit + 1)
    /\ ttl \in 0..Window
    /\ count = 0 => ttl = 0
    /\ attempts \in 0..2
    /\ devices \in 0..2
    /\ typed \in BOOLEAN
    /\ sealed \in BOOLEAN
    /\ pc \in [Logins -> Stages]
    /\ bare \in [Logins -> BOOLEAN]
    /\ tally \in [Logins -> 0..(Limit + 1)]
    /\ row \in [Logins -> 0..2]
    /\ reply \in [Logins -> Replies]
    /\ passed \in 0..(Limit + 1)

(* SQLite takes them as text.  PostgreSQL wants a type for each, and the    *)
(* migration creates none: its severity and status are VARCHAR.             *)
Init ==
    /\ count = 0 /\ ttl = 0
    /\ attempts = 0 /\ devices = 0
    /\ typed \in BOOLEAN
    /\ sealed = TRUE
    /\ pc = [t \in Logins |-> "idle"]
    /\ bare = [t \in Logins |-> FALSE]
    /\ tally = [t \in Logins |-> 0]
    /\ row = [t \in Logins |-> 0]
    /\ reply = [t \in Logins |-> "none"]
    /\ passed = 0

Goto(t, stage) ==
    /\ pc' = [pc EXCEPT ![t] = stage]
    /\ UNCHANGED reply

(* The handler returns or raises; its session and its locals are gone. *)
Finish(t, answer) ==
    /\ pc' = [pc EXCEPT ![t] = "idle"]
    /\ reply' = [reply EXCEPT ![t] = answer]
    /\ bare' = [bare EXCEPT ![t] = FALSE]
    /\ tally' = [tally EXCEPT ![t] = 0]
    /\ row' = [row EXCEPT ![t] = 0]

-----------------------------------------------------------------------------
(* enforce_rate_limit *)

(* The login path is allow-listed: it runs whether or not the vault is sealed. *)
Arrive(t) ==
    /\ pc[t] = "idle"
    /\ pc' = [pc EXCEPT ![t] = "ttl"]
    /\ reply' = [reply EXCEPT ![t] = "none"]
    /\ UNCHANGED <<key, rows, sealed, local, passed>>

(* Seeded bug: every request renews the expiry, a sliding window. *)
BareOrNot == count > 0
Bare == count > 0 /\ ttl = 0

ReadTtl(t) ==
    /\ pc[t] = "ttl"
    /\ bare' = [bare EXCEPT ![t] = Bare]
    /\ Goto(t, "incr")
    /\ UNCHANGED <<key, rows, sealed, tally, row, passed>>

(* Seeded bug: one request too many. *)
OverByTwo(n) == n > Limit + 1
Over(n) == n > Limit

Admitted(n) == IF Over(n) THEN "retry" ELSE "select"

(* INCR creates a key without an expiry and keeps the expiry of an old one. *)
Incr(t) ==
    LET n == Cap(count + 1, Limit + 1)
    IN  /\ pc[t] = "incr"
        /\ count' = n
        /\ tally' = [tally EXCEPT ![t] = n]
        /\ passed' = IF Over(n) THEN passed ELSE Cap(passed + 1, Limit + 1)
        /\ Goto(t, IF bare[t] THEN "expire" ELSE Admitted(n))
        /\ UNCHANGED <<ttl, rows, sealed, bare, row>>

(* Seeded bug: the window is given in another unit. *)
ExpiryScaled == 2 * Window
Expiry == Window

(* EXPIRE does nothing when the key has gone meanwhile. *)
SetExpiry(t) ==
    /\ pc[t] = "expire"
    /\ ttl' = IF count = 0 THEN 0 ELSE Expiry
    /\ Goto(t, Admitted(tally[t]))
    /\ UNCHANGED <<count, rows, sealed, local, passed>>

(* The TTL for retry_after, and the 429 that the handler catches. *)
ReadRetryAfter(t) ==
    /\ pc[t] = "retry"
    /\ Goto(t, "alert")
    /\ UNCHANGED <<key, rows, sealed, local, passed>>

-----------------------------------------------------------------------------
(* The handler's answer to a 429: an alert, then the auto-seal. *)

(* Without the types the INSERT of the alert raises, every time. *)
CreateAlert(t) ==
    /\ pc[t] = "alert"
    /\ \/ typed /\ Goto(t, "seal") /\ UNCHANGED local
       \/ ~typed /\ Finish(t, "error")
    /\ UNCHANGED <<key, rows, sealed, passed>>

TriggerAutoSeal(t) ==
    /\ pc[t] = "seal"
    /\ sealed' = TRUE
    /\ Finish(t, "refused")
    /\ UNCHANGED <<key, rows, passed>>

-----------------------------------------------------------------------------
(* authenticate_user, register_device, log_access *)

UnknownUser(t) ==
    /\ pc[t] = "select"
    /\ Finish(t, "unauthorized")
    /\ UNCHANGED <<key, rows, sealed, passed>>

(* The SELECT and the password check: failed_attempts changes in the session only. *)
SelectUser(t) ==
    /\ pc[t] = "select"
    /\ row' = [row EXCEPT ![t] = attempts]
    /\ \/ Goto(t, "wrong")
       \/ Goto(t, "device")     \* the login sends a fingerprint
       \/ Goto(t, "log")
    /\ UNCHANGED <<key, rows, sealed, bare, tally, passed>>

CommitFailure(t) ==
    /\ pc[t] = "wrong"
    /\ attempts' = Cap(row[t] + 1, 2)
    /\ Finish(t, "unauthorized")
    /\ UNCHANGED <<key, devices, typed, sealed, passed>>

(* Setting failed_attempts to the 0 that was read is no change: no UPDATE is sent. *)
FlushReset(t) ==
    /\ attempts' = IF row[t] = 0 THEN attempts ELSE 0
    /\ row' = [row EXCEPT ![t] = 0]

(* scalar_one_or_none raises when there are several rows. *)
SelectDevice(t) ==
    /\ pc[t] = "device"
    /\ \/ devices = 0 /\ Goto(t, "insert") /\ UNCHANGED local
       \/ devices = 1 /\ Goto(t, "update") /\ UNCHANGED local
       \/ devices > 1 /\ Finish(t, "error")
    /\ UNCHANGED <<key, rows, sealed, passed>>

CommitDevice(t) ==
    /\ pc[t] \in {"insert", "update"}
    /\ devices' = IF pc[t] = "insert" THEN Cap(devices + 1, 2) ELSE devices
    /\ FlushReset(t)
    /\ Goto(t, "log")
    /\ UNCHANGED <<key, typed, sealed, bare, tally, passed>>

CommitLog(t) ==
    /\ pc[t] = "log"
    /\ attempts' = IF row[t] = 0 THEN attempts ELSE 0
    /\ Finish(t, "tokens")
    /\ UNCHANGED <<key, devices, typed, sealed, passed>>

-----------------------------------------------------------------------------
(* A Redis or database error leaves the handler; nothing of it is caught. *)
Fail(t) ==
    /\ pc[t] # "idle"
    /\ Finish(t, "error")
    /\ UNCHANGED <<key, rows, sealed, passed>>

Tick ==
    /\ ttl > 0
    /\ ttl' = ttl - 1
    /\ count' = IF ttl = 1 THEN 0 ELSE count
    /\ passed' = IF ttl = 1 THEN 0 ELSE passed
    /\ UNCHANGED <<rows, sealed, pc, local, reply>>

Unseal ==
    /\ sealed
    /\ sealed' = FALSE
    /\ UNCHANGED <<key, rows, pc, local, reply, passed>>

Limiter(t) == ReadTtl(t) \/ Incr(t) \/ SetExpiry(t) \/ ReadRetryAfter(t)
Refusal(t) == CreateAlert(t) \/ TriggerAutoSeal(t)
Authentication(t) ==
    \/ UnknownUser(t) \/ SelectUser(t) \/ CommitFailure(t)
    \/ SelectDevice(t) \/ CommitDevice(t) \/ CommitLog(t)
Step(t) == Limiter(t) \/ Refusal(t) \/ Authentication(t)

Next ==
    \/ \E t \in Logins : Arrive(t) \/ Step(t) \/ Fail(t)
    \/ Tick
    \/ Unseal

(* Handlers run to an end, and Redis counts time. *)
Fairness ==
    /\ \A t \in Logins : WF_vars(Step(t) \/ Fail(t))
    /\ WF_vars(Tick)

Spec == Init /\ [][Next]_vars
FairSpec == Spec /\ Fairness

-----------------------------------------------------------------------------
(* Properties. *)

(***************************************************************************)
(* While one key lives, at most Limit requests reach the password check,   *)
(* however the commands of concurrent logins interleave.                   *)
(***************************************************************************)
PassedWithinLimit == passed <= Limit

(***************************************************************************)
(* A client that keeps trying, and keeps being refused, is let in again in *)
(* between: its own requests neither leave the key without an expiry nor   *)
(* extend the window for good.                                             *)
(***************************************************************************)
ThrottleEnds ==
    (\E t \in Logins : []<>(pc[t] = "retry")) => (count > Limit ~> count = 0)

(***************************************************************************)
(* register_device "inserts or updates": one row for one fingerprint.      *)
(***************************************************************************)
OneDeviceRecord == devices <= 1
=============================================================================
