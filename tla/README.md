# Project Aegis: specification and verification

Project Aegis is a secrets vault: a FastAPI service (`src/backend`), a Celery worker that runs the
same Python code in a process of its own, PostgreSQL, Redis, a HashiCorp Vault used for Transit
encryption, and a React client (`src/frontend`). This directory holds TLA+ models of its protocols,
the TLC runs that check them on small instances, and TLAPS proofs of the most important results for
all instances. `PROJECT.json` maps every definition to the lines it models.

## 1. Inventory

| Component | State | Operations | Talks to |
|---|---|---|---|
| Vault gatekeeper, `vault/service.py` 41-121 | `_lock`, `_shares`, `_entered`, `_sealed`; Redis hash `vault:unseal:fragments` with a TTL | `initialize`, `submit_share`, `seal`, `status` | Redis, event bus; asked by the middleware, the websockets and the status page; sealed by panic, audit and login |
| Sealed-vault middleware, `main.py` 33-61 | none | one look at the gatekeeper before a handler that is not allow-listed | gatekeeper |
| Audit log, `audit/` | table `audit_logs` | append, list and verify, periodic guard (worker) | database, gatekeeper (auto-seal), event bus |
| Dynamic leases and panic, `secrets/service.py` 46-70, 109-131, `vault/router.py` 52-59 | table `secret_leases` | issue, list, panic, reaper (worker) | database, gatekeeper |
| Login and rate limiter, `auth/`, `services/rate_limiter.py`, `services/alerts.py` | Redis counter per address; `users.failed_attempts`, `devices`, `access_logs`, `alerts` | login | Redis, database, gatekeeper (auto-seal) |
| Transit and remote Vault, `vault/service.py` 128-217 | `_transit_ready`; the key in Vault | ensure ready, encrypt, decrypt, remote status, remote seal | Vault |
| Stored secrets and views, `secrets/service.py` 28-43, 83-106 | table `stored_secrets`; view tokens in Redis | store, list, view | Transit, Redis, audit log |
| Event bus and websockets, `services/events.py`, `main.py` 78-123 | sockets by channel | connect, disconnect, publish | every publisher; the pages |
| Administrator script, `scripts/create_admin.py` | tables `users`, `roles` | check, create role, create user, report | database; its users are what the login looks up |
| Pages, `frontend/src/pages` | React state | fetch, socket events, forms | HTTP API, websockets |

What is hard in this code is concurrency at every `await`. The API process is one event loop, so the
code between two awaits is atomic and nothing else is; the gatekeeper alone has a lock, and holds it
while it awaits Redis. Database rows are written from earlier reads without locking. The worker is a
second process with a gatekeeper of its own that nobody asks. Redis expires keys between commands,
may fail at any of them, and outlives the API process.

What makes each component correct:

- Gatekeeper: it opens only for a threshold of distinct fragments of the split in force, accepted since
  it was last closed; a full ritual does open it; no accepted fragment is lost while the ritual's window
  lasts; every request is answered.
- Middleware: a closed vault stops the effects of requests, late ones drain.
- Audit log: rows chain onto earlier rows; what is called intact is what was written, what is called
  broken has been tampered with, and stays broken. The code keeps the first for the rows that a verified
  hash covers only, and the second not at all (section 4).
- Leases: only overdue leases expire; a panic leaves none active and ends sealed; every lease ends.
- Login: no more than the limit pass in a window; throttling ends; a trip seals; one row per device. The
  code keeps the first two (section 4).
- Transit and secret views: answers and audit rows agree; a remembered state of Vault heals; access is
  back after a ritual.
- Event bus and pages: dead sockets hold nothing up and leave, live ones are told of every change, and a
  page at rest shows nothing older than it was told of, unless it applied a response that another one had
  overtaken.
- Administrator script: runs that overlap, die or are repeated leave one account for each username and
  email, and no account takes over the login name of another.

The properties of section 3 state these; where the code breaks one, a run shows how (section 4).

## 2. Modules

| Module | Models | State and actions |
|---|---|---|
| `ThresholdSeal` | what the gatekeeper promises | `issued`, `contributed`, `sealed`; the vault opens only for a threshold of distinct contributions since it was last closed |
| `Gatekeeper` | `VaultGatekeeper` | `lock`, `shares`, `entered`, `sealed` are the four attributes; `fields` and `ttl` the Redis hash; `pc`, `call`, `reply` the request tasks. `Acquire` is the head of a method up to its first await, `HSet`, `Expire`, `HLen`, `Delete` one Redis command each, `Counted` what `submit_share` and `status` do with the count, `Return` the reply after the event; `LateAnswer` is what `initialize` and `submit_share` read of the gatekeeper then, without the lock: the shares of another split, or a state that is no longer |
| `AuditChain` | `append_audit_log`, `verify_audit_chain`, the endpoint and the guard | `log` is the committed table; `ReadLast`, `Flush`, `EndAppend` are SELECT, INSERT and COMMIT of an append; `Fetch`, `Verify`, `AutoSeal` the steps of a verification. From outside, `Alter` changes hashed fields, `Forge` the hash with them, `Relink` the `prev_hash` column, `Remove` deletes a row; `written` remembers the rows as they were committed |
| `LeaseLedger` | issue, panic, reaper | `status` of each lease (its request until the row exists), `left` until its expiry; every SELECT and COMMIT is a step |
| `LeaseTerms` | what the lease table promises | `phase`, `left`, `panic`, `due`; a lease is granted once, ends by its term or by a panic, and has ended for good; a panic is bound to the leases held at one instant and reports success when none of them is held |
| `LoginGuard` | the login handler | `count` and `ttl` of the Redis key, `attempts` and `devices` of the user, `typed`: the database knows the types of the alert's enumerations; one action per Redis command and per commit |
| `SecretView` | store and view of stored secrets, Transit | `ready` and `lock` are `_transit_ready` and `_transit_lock`; `boot`, `mounted`, `keyed`, `vsealed` the external Vault; `stored` the table. `Ensure`, `Mount`, `CreateKey` are `ensure_transit_ready`; `Crypt` is encrypt or decrypt with its one retry after `InvalidPath`; `CommitAudit`, `Refresh`, `Disclose` are the three awaits between the plaintext and the answer |
| `EventFeed` | the `vault` channel of `EventBus`, its websocket endpoint, the auto-seal's order of calls, and the dashboard's status panel | `ver` counts the gatekeeper's changes; `channel` is `_channels["vault"]`, `targets` each publisher's copy of it; `handler` the endpoint's await; `asked`, `answers`, `shown` the page's requests, responses and React state. `Deliver`, `Lose`, `Drop` are the three ways one `send_json` ends, `Leave` and `Break` the two ways an endpoint ends: `WebSocketDisconnect`, and any other exception, which leaves the socket in the channel |
| `Accounts` | `create_admin.py`, and the lookup of `authenticate_user` | `users` and `roles` are the committed rows, `stage` the query or commit a run is at; `Die` ends a run anywhere |
| `GatekeeperProofs`, `LeaseLedgerProofs`, `LoginGuardProofs`, `AuditChainProofs`, `AuditVerdictProofs`, `SecretViewProofs`, `EventFeedProofs`, `AccountsProofs` | theorems | section 5 |
| `MC...` | the instances TLC checks | |

`Gatekeeper` is checked and proved to implement `ThresholdSeal` (`issued <- shares # NoSplit`,
`contributed <- IF sealed THEN entered ELSE {}`). `LeaseLedger` is checked and proved to implement
`LeaseTerms`: a lease is held while its row is active, whether the reaper or a panic ended it is
forgotten, and a panic is bound from its SELECT until it answers or fails, to the rows it selected
(`INSTANCE` at the end of `LeaseLedger`). An abstract `Expire` may end leases whose term is over only, so
the two writers may overwrite each other's status but not each other's effect. The other modules use the
gatekeeper through what that leaves of it: a boolean that a ritual opens and anybody closes. `Admit` in
`AuditChain`, `LeaseLedger` and `SecretView` is the middleware's check before the handler, a step of its
own, as in `enforce_vault_state`; `Ask` and `Refuse` in `EventFeed` are the same check for a websocket.

Definitions under a comment "Seeded bug" are not part of a specification. Each is a plausible mistake
in one definition; the `mutants` of `PROJECT.json` say which property notices it.

Abstractions. A Shamir fragment is its index and the identity of the random split it comes from. A hash is
the sequence of the payloads below it, so two chains are equal exactly when their contents are. A
payload's time is the pair of an instant and the lag of the reading, because the code reads the clock
twice; no two appends read the same instant, where the code has microseconds. In `LoginGuard` the counter
saturates at `Limit + 1` and the column and the device count at 2: the code compares them with the limit,
with zero and with one only. In `EventFeed` a state of the gatekeeper is the number of changes before it.
The task that changed the gatekeeper runs on from the release of `_lock` until it has copied the channel,
and a status request needs that lock, so none falls between the change and the copy: the two are one step.
A page that is left forgets everything. The `secret_view` events on the same channel and the three other
channels would only cause further fetches. `Accounts` leaves out password hashing and the ids of rows.

## 3. Runs

| Run | Shows |
|---|---|
| `gatekeeper` | with restarts, hash expiry, the worker's deletes and Redis errors in the commands that record and count, the gatekeeper implements `ThresholdSeal`; opening needs a threshold of fragments accepted by this process (`UnsealNeedsThreshold`); a full ritual is never left pending and opens the vault; accepted fragments are not lost while the ritual's hash lives; no status reports a full count beside a sealed vault once a split is in force; every request returns |
| `gatekeeper_outage_unseal` | **violation**: a suppressed error of the delete leaves fragments of an ended ritual in the hash, and `max(len(_entered), hlen)` counts them |
| `audit_chain` | rows chain onto earlier rows however appends overlap; "intact" vouches for every row that a verified hash covers, and the bounds contain the edits it says nothing of (`Relink`, `Forge`, the newest row removed); an alarm has a cause; no service step mends a broken chain |
| `audit_clock` | **violation**: two readings of the clock in one append make an untouched log fail verification |
| `leases` | the reaper expires overdue leases only, a panic misses only what was committed after its SELECT, the three implement `LeaseTerms`, a panic ends sealed or with a database error; where the reaper is run, every lease ends |
| `lease_panic` | **violation**: a lease issued between a panic's SELECT and its seal is active afterwards |
| `login` | at most `Limit` requests of a key's life pass; throttling ends though the client keeps trying; both with and without the alert's types in the database |
| `login_device` | **violation**: two first logins of one device store two rows, which `scalar_one_or_none` then refuses |
| `secrets` | at every await and after every failure, a plaintext has its committed audit row and no row tells of a view that was refused or not decrypted; after Vault restarts the engine is prepared again and no request fails for want of it; every request ends; a vault that stays sealed stops disclosing |
| `secrets_ritual` | **violation**: sealing seals the external Vault too, and the ritual does not unseal it |
| `event_feed` | a page at rest shows nothing older than the last event it got, unless a newer response was overtaken; a publisher passes over dead sockets only; dead or alive, sockets do not keep an auto-seal from the remote Vault; a dead socket leaves the channel by its endpoint, or by the next publish if the endpoint broke |
| `accounts` | of overlapping runs that were told "User created" no two share a username or email; two users answer to one login name only across the two columns; a login name never moves to another user; a command repeated when it fails ends in an account |

Bounds. `gatekeeper`, `gatekeeper_outage_unseal`: two request tasks that start over and over, so one
waits for the lock or is passed by while the other is at each of its awaits; three indices with
threshold two, so that there are rituals of the threshold exactly and beyond; three splits, of which one
is always fresh. A delete that fails is in `gatekeeper_outage_unseal` only, because it breaks three of
the properties of `gatekeeper`; `RitualNeverPending` and `FragmentsStay` (section 5) are proved with it.
`audit_chain`: two appenders, a reader and the guard, three rows, one of which may be touched from
outside (`MaxEdits`), lags of zero and one; forks, reordered commits and a gap in the ids all occur.
`leases`: two leases, two panic requests, a ttl of up to two ticks. `login`: two tasks, a limit of two, a
window of two ticks. `secrets`: two requests, one secret, two restarts of Vault, so that one falls between any two steps of a preparation
and its retry. `event_feed`: two publishers, two pages and two changes, so that two events overtake each
other and one socket dies between sends to the other; pages come and go without bound. `accounts`: three
runs with any usernames and emails out of two names, one role that does not exist at first, and one run
that dies. In each of them tasks repeat without bound except for appends, issued leases, changes of the
gatekeeper in `event_feed`, commands of `accounts` and restarts of Vault.

Fairness. The event loop resumes a task whose await is over (`WF` of a step). `asyncio.Lock` is first-in
first-out, so a waiter is served although the lock is free only from time to time (`SF` of `Acquire`).
Redis and the clock count time (`WF` of `Tick`). The requests return because Redis answers or raises: a
command that hangs is not modelled, and `cache.py` sets no socket timeout. Nothing is assumed of the
reaper: the compose file starts no beat, so `LeasesEnd` carries the assumption itself (`ReaperRuns`: it is
started again and again, and not every one of its commits fails; a run may inherit a pooled connection of
an earlier event loop, and the next one then gets a new one). `AuditChain` has no fairness. A publisher
in `event_feed` goes on (`WF` of `Publish`): a send to a socket whose other end is silent ends when the
websocket keepalive gives it up. A run of the script goes on and its operator repeats what failed (`WF`
of `Step` in `accounts`). Nothing is assumed of arrivals, faults, seals or rituals. Where a step may
fail, fairness is on "succeeds or fails".

## 4. Findings

The five violation runs are described in `PROJECT.json` under `findings`, with the line each
contradicts. Two need an error or a coincidence (`gatekeeper_outage_unseal`, `login_device`), two
happen in ordinary use (`audit_clock` with any real clock, `secrets_ritual` with any seal), one is a gap
between document and design (`lease_panic`).

Other disagreements of code and documents (`PROJECT_DETAILED_NOTE.md` is NOTE), modelled as the code has
it, with no property that says otherwise:

- The ritual window. NOTE:159 and 720 and the setting `unseal_share_ttl_seconds` let a ritual expire. Only
  the Redis hash does: `_entered` keeps the fragments (`vault/service.py:71`) and they count until the
  vault opens, seals, is split anew or the process restarts. `AcceptedFragmentsStay` ends with the expiry
  of the hash and does not ask that fragments survive it. `UnsealNeedsThreshold` and `FullRitualUnseals`
  count the fragments of `_entered`, as the code does, those past the window included.
- What verification notices. `README.md:30` calls the log tamper-proof and `README.md:207` immutable.
  `audit/service.py:62-81` never compares `prev_hash`, accepts a row whose hash was computed anew as long
  as nothing is chained onto the old one, and cannot know that the newest rows are gone. `IntactVouches`
  states what an intact answer is still worth.
- The guard's alarm. NOTE:189-195 and 766-767 have it seal the vault. It seals the gatekeeper of the
  worker's process and asks the remote Vault to seal; the API's gatekeeper stays open until a reader
  meets the mismatch there (`AutoSeal`).
- The periodic tasks. NOTE:757-761 runs the reaper and the guard by schedule. `docker-compose.yml:22`
  starts a worker without a beat, and `secrets/tasks.py:8` and `audit/tasks.py` register the schedules in a
  hook of an autodiscovered module, so nothing sends them.
- The alert before an auto-seal. NOTE:145-147 and 806-812 seal when the rate limiter trips. `create_alert`
  comes first and its columns are native enumerations (`models/alert.py:24,27`), while the migration
  (`202403251200_initial.py:98,101`) makes `VARCHAR` columns and no type: on PostgreSQL the INSERT is
  expected to raise, and the handler ends before the seal. `Init` leaves open which database it is
  (`typed`; `config.py:18` defaults to SQLite), and that a trip seals is no property here.
- Websockets of a sealed vault. NOTE:106, 223 and 697 close them or make them unavailable. The endpoint
  asks once, before it accepts: open sockets stay through a seal, and one that was let in may join after
  it (`Ask`, `Join`).
- A socket whose endpoint ends by anything but `WebSocketDisconnect` (`main.py:110-115`; a binary frame
  makes `receive_text` raise `KeyError`) stays in its channel until something is published (`Break`).
- `README.md:200` and the panic: `lease_panic` is a finding; a panic whose revocation fails leaves the
  vault open (`FailPanic`), of which no document speaks.

Seen on the way: a dashboard opened on a sealed vault is refused its sockets and never opens others, so it
hears nothing of the unsealing (`Refuse`); a page that applied the older of two responses last stays stale
until the next event (`Apply`); a username that equals another user's email shuts both out under that name
(`AmbiguousOnlyAcross`).

## 5. Proofs

All are checked by TLAPS for every value of the constants that satisfies the modules' assumptions.

`GatekeeperProofs`. `LockInv` (exactly the task at a Redis command owns `_lock`) is inductive with
the types: `TypeCorrect`. Neither "a sealed gatekeeper is below the threshold" nor "opening needs a
threshold" is inductive, since both fail inside critical sections: `RitualInv` says that only the
submission about to decide may hold a full ritual (`RitualNeverPending`, whatever faults are
allowed), `HashInv` that, while no delete of it fails, the Redis hash holds nothing that is not in
`_entered` except before the first split and while it is being deleted. From these follow
`UnsealSafe`, `StatusConsistent` and the refinement `GatekeeperRefinesThresholdSeal`; the three
assume only that no delete of the hash fails, and `gatekeeper_outage_unseal` shows that this is needed.
`HashInv` holds through the other errors because the index is in `_entered` before the first command is
sent. `FragmentsStay`, which speaks of fragments until the ritual is over or its hash expires, needs no
such assumption: it rests on a gatekeeper without a split holding no fragments, so that a restart shows as a change of the split. The threshold is at least two: with one,
all fragments of all splits are the same.

`LeaseLedgerProofs`. `LedgerTypeCorrect`; `OnlyOverdueExpire` from `ReapInv` (what the reaper holds has
run out and never starts again); `PanicMissesNothingItSaw` from `PanicInv` (every active lease is
known to a panic in progress or was committed since; after its commit, only the latter).
`LedgerRefinesTerms` maps every step to one of `LeaseTerms` or a stutter. Two facts about states are
needed: `ReapInv`, so that the reaper's commit ends overdue leases only, and `StageInv`, that a panic
past its commit has left none of its leases active.

`LoginGuardProofs`. `WithinLimit` from `PassedInv`: the history is bounded by the Redis counter,
because one INCR counts a request and decides on it. `LoginTypeCorrect` is inductive as it stands.

`AuditChainProofs`. `AuditTypeCorrect` strengthens the types by the rows of transactions in progress and
by the bound that the ids still to be drawn leave room for them. `RowsChainedOnEarlier` from `ChainInv`:
the hash an append has read belongs to a row below the id it will draw, and stays that row's hash,
because ids are not given out again (`LogIds`) and `written` keeps every row as it was committed. A row
that was forged hands its new hash to the next append, which the property allows for; the proof has to
follow it only while it is in the table, for a row is touched once.

`AuditVerdictProofs` says what the answers of `verify_audit_chain` are worth. The hash that a row is
verified against is that of the highest row below it, or the seed (`LastBelow`). A hash being the history
it was computed from, equal hashes have equal last payloads and equal predecessors (`AppendParts`,
`NextHashParts`), and `RowVerifiesIff` follows: a row with the hash it was written with matches exactly
when its content is the one written, its two readings of the clock agree and the row below it is the one
it was chained onto. Three invariants carry this to all states:

- `HashInv`: whatever is done to a row from outside, it keeps its instant, its hash ends in that instant,
  and if it says what was written it has the hash it was written with (`Copies`).
- `UniqueInv`: no two rows are built in one instant, and every hash that a row of the table or a pending
  row was made from ends in the instant of a committed row. So the hash of a pending row is in nobody
  else's hands.
- `ShownInv`: rows that a session still shows from an earlier SELECT are such copies too, and a row that
  was touched is never made good again.

`ServiceHealsNothing`: a broken row can be mended by an insertion below it only if the new row is the
predecessor it asks for, which `UniqueInv` excludes. `IntactVouchesFor`: in a table that verifies, every
prefix of a row's hash is the hash of a row (`VerifiedPrefixes`: descend from row to row). If a verified
hash covers the hash of a committed row, some row of the table therefore has that hash; it was built in
the same instant, so it is the row itself; and as it verifies, it says what was hashed. Nothing follows
for a row that no verified hash covers, and the code indeed answers "intact" when such a row is gone or
forged. `AlarmsHaveCauses`: the lowest row that fails hangs on another row than its neighbour; if nothing
was altered, that one is further down, and the row after it verifies and so hangs on the same hash.
`HonestLogVerifiesIff` sharpens this for a table nobody touched: it verifies exactly when no row was dated
by two instants and no two rows hang on one predecessor. This is the exact extent of what `audit_clock`
finds on one instance.

`SecretViewProofs`. `SecretTypeCorrect` includes that exactly the request preparing the engine holds
`_transit_lock`; `NothingUnaudited` rests on it: between the commit of the audit row and the answer
lie two awaits, any of which may fail, so the invariant has to say at which of them a row may be there
without an answer; that is why it speaks of `pc` and of errors.

`EventFeedProofs`. `PagesCatchUp` from `FeedInv`: a page behind what it was told has a request that the
server has not read or a new enough response on the way; the property itself speaks of pages at rest and
is not inductive. `OnlyTheDeadArePassedOver` follows from the types, step by step.

`AccountsProofs`. `AccountsTypeCorrect` (every user's role is committed) from `RoleReady`;
`OneWinnerOnly` and `AmbiguityIsAcross` from `AloneInv`, in which runs that have committed and not yet
reported count as winners too; `LoginKeepsItsUser` from the finiteness of the table, since a name that
leads to one user leads to that user or to two after an insertion.

Only model-checked: everything under fairness (`RequestsReturn`, `FullRitualUnseals`,
`PanicSealsOrFails`, `LeasesEnd`, `ThrottleEnds`, `TransitHeals`, `RequestsEnd`, `SealStopsDisclosure`,
`AutoSealReachesRemote`, `DeadSocketsLeave`, `CommandTakesHold`). Liveness and
`ENABLED` are beyond the prover. Every invariant, every action property and both refinements that a passing run checks are proved.

## 6. Not modelled

Shamir's arithmetic, AES and JWT are cryptography with no state. Role checks and the lists of users,
secrets, leases and alerts are pure reads. Configuration and most models and migrations are
declarations, and their values appear as constants; the tables `users` and `roles` with their unique
columns are in `Accounts`. Of the pages only the dashboard's status panel is modelled: its other panels
prepend an event or fetch a list again, and the vault and secrets pages fetch after their own forms.
A restart of the API process is in `Gatekeeper` and not in `EventFeed`, where it would only drop every
socket. The remote Vault that a worker's auto-seal may seal is in `SecretView` (`SealRemote`), where it
does not matter who sealed.

## 7. Plan

1. Gatekeeper and its promise, audit chain, leases, login, secret views with Transit, event bus with the
   dashboard, administrator script: done, as above.
2. What a verification of the audit log says, and the lease table's abstract specification: proved.
3. Facts about single states on which the liveness properties rest, such as that a lock in use has an
   owner that can go on, as theorems of their own.
4. A module in which the gatekeeper's users act on `ThresholdSeal` itself and not on a boolean.
