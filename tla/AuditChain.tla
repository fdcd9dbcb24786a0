----------------------------- MODULE AuditChain -----------------------------
(***************************************************************************)
(* The hash-chained audit log (backend/audit): requests append rows,       *)
(* GET /api/audit/entries and the Celery guard recompute the chain, and a  *)
(* mismatch seals the gatekeeper of the process that found it.             *)
(*                                                                         *)
(* A hash is the sequence of the payloads below it, so it is injective.    *)
(* A payload is the row's content and the instant hashed with it.          *)
(***************************************************************************)
EXTENDS Integers, FiniteSets, FiniteSetsExt, Sequences, Functions

CONSTANTS
    Appenders,  \* requests that append an entry (secret views)
    Readers,    \* requests for GET /api/audit/entries
    Worker,     \* the guard task of the Celery worker
    MaxRows,    \* bound: appends begun
    MaxEdits,   \* bound: rows touched behind the service's back, once each
    Lags        \* by how much the two clock readings of an append may differ

ASSUME AuditAssumption ==
    /\ IsFiniteSet(Appenders) /\ IsFiniteSet(Readers)
    /\ Worker \notin Readers
    /\ MaxRows \in Nat /\ MaxEdits \in Nat
    /\ Lags \subseteq Nat

Verifiers == Readers \cup {Worker}

VARIABLES
    log,      \* committed rows of audit_logs, by id
    ids,      \* the id sequence: rows inserted so far
    clock,    \* appends begun: the instant of the last clock reading
    apc,      \* the await each appender is at
    draft,    \* the row each appender has built
    draftId,  \* the id its INSERT was given
    vpc,      \* the await each verifier is at
    shown,    \* the rows a reader's session holds from fetch_audit_logs
    sealed,   \* the API process's gatekeeper is closed
    written   \* history: the rows as the service committed them, by id

appends == <<apc, draft, draftId>>
checks == <<vpc, shown>>
vars == <<log, ids, clock, appends, checks, sealed, written>>

Seed == <<>>

-----------------------------------------------------------------------------
(* next_chain_hash over {actor_id, action, details} and the timestamp. *)

next_chain_hash(prev, content, instant) == Append(prev, <<content, instant>>)

NoRows == [id \in {} |-> Seed]

LastHash(rows) ==
    IF DOMAIN rows = {} THEN Seed ELSE rows[Max(DOMAIN rows)].chain

Below(rows, id) == Restrict(rows, {i \in DOMAIN rows : i < id})

(* Seeded bug: the expected hash is never advanced beyond the seed. *)
MatchesSeed(rows, id) ==
    rows[id].chain = next_chain_hash(Seed, rows[id].content, rows[id].created)

(* The row's hash is what its stored fields and the row before it give. *)
Matches(rows, id) ==
    rows[id].chain =
        next_chain_hash(LastHash(Below(rows, id)), rows[id].content, rows[id].created)

(* Seeded bugs: prev_hash is compared instead of recomputing the hash; only *)
(* the newest row is looked at.                                             *)
VerifyLinks(rows) == \A id \in DOMAIN rows : rows[id].prev = LastHash(Below(rows, id))
VerifyTail(rows) == DOMAIN rows # {} => Matches(rows, Max(DOMAIN rows))

verify_audit_chain(rows) == \A id \in DOMAIN rows : Matches(rows, id)

Contents == {"written", "altered"}
Hashes == Seq(Contents \X (Nat \X Nat))
Rows == [content : Contents, created : Nat \X Lags, prev : Hashes, chain : Hashes]

AppendStages == {"idle", "select", "flush", "commit"}
VerifyStages == {"idle", "fetch", "select", "alarm"}

TypeOK ==
    /\ ids \in 0..MaxRows /\ clock \in 0..MaxRows
    /\ \A id \in DOMAIN log : log[id] \in Rows
    /\ apc \in [Appenders -> AppendStages]
    /\ draftId \in [Appenders -> 0..MaxRows]
    /\ vpc \in [Verifiers -> VerifyStages]
    /\ sealed \in BOOLEAN
    /\ DOMAIN log \subseteq DOMAIN written /\ DOMAIN written \subseteq 1..ids
    /\ \A id \in DOMAIN written : written[id] \in Rows

Init ==
    /\ log = NoRows
    /\ ids = 0
    /\ clock = 0
    /\ apc = [a \in Appenders |-> "idle"]
    /\ draft = [a \in Appenders |-> Seed]
    /\ draftId = [a \in Appenders |-> 0]
    /\ vpc = [v \in Verifiers |-> "idle"]
    /\ shown = [v \in Verifiers |-> NoRows]
    /\ sealed = TRUE
    /\ written = NoRows

-----------------------------------------------------------------------------
(* append_audit_log *)

(* enforce_vault_state looks at the gatekeeper once, before the handler runs. *)
Admit(a) ==
    /\ apc[a] = "idle" /\ ~sealed
    /\ apc' = [apc EXCEPT ![a] = "select"]
    /\ UNCHANGED <<log, ids, clock, draft, draftId, checks, sealed, written>>

Store(rows, id, row) == [i \in DOMAIN rows \cup {id} |-> IF i = id THEN row ELSE rows[i]]

(* Seeded bug: an append that has not committed is read. *)
VisibleDirty ==
    {log} \cup {Store(log, draftId[b], draft[b]) : b \in {c \in Appenders : apc[c] = "commit"}}
Visible == {log}

(* The last row is read and the next one built.  The clock is read once for *)
(* the hashed payload and again for created_at.                             *)
ReadLast(a) ==
    /\ apc[a] = "select" /\ clock < MaxRows
    /\ clock' = clock + 1
    /\ \E rows \in Visible, lag \in Lags :
         LET prev == LastHash(rows) IN
         draft' = [draft EXCEPT ![a] =
           [content |-> "written",
            created |-> <<clock', lag>>,
            prev |-> prev,
            chain |-> next_chain_hash(prev, "written", <<clock', 0>>)]]
    /\ apc' = [apc EXCEPT ![a] = "flush"]
    /\ UNCHANGED <<log, ids, draftId, checks, sealed, written>>

(* Seeded bug: the id in use is taken again. *)
NextIdReused == ids
NextId == ids + 1

(* session.commit() first sends the INSERT, which takes the next id. *)
Flush(a) ==
    /\ apc[a] = "flush"
    /\ ids' = NextId
    /\ draftId' = [draftId EXCEPT ![a] = ids']
    /\ apc' = [apc EXCEPT ![a] = "commit"]
    /\ UNCHANGED <<log, clock, draft, checks, sealed, written>>

(* The transaction ends: the row is visible, or lost and its id unused. *)
EndAppend(a) ==
    /\ apc[a] = "commit"
    /\ \/ /\ log' = Store(log, draftId[a], draft[a])
          /\ written' = Store(written, draftId[a], draft[a])
       \/ UNCHANGED <<log, written>>
    /\ apc' = [apc EXCEPT ![a] = "idle"]
    /\ draft' = [draft EXCEPT ![a] = Seed]
    /\ draftId' = [draftId EXCEPT ![a] = 0]
    /\ UNCHANGED <<ids, clock, checks, sealed>>

-----------------------------------------------------------------------------
(* Verification. *)

AdmitReader(r) ==
    /\ vpc[r] = "idle" /\ ~sealed
    /\ vpc' = [vpc EXCEPT ![r] = "fetch"]
    /\ UNCHANGED <<log, ids, clock, appends, shown, sealed, written>>

(* list_audit_entries fetches the rows to show before it verifies them. *)
Fetch(r) ==
    /\ vpc[r] = "fetch"
    /\ shown' = [shown EXCEPT ![r] = log]
    /\ vpc' = [vpc EXCEPT ![r] = "select"]
    /\ UNCHANGED <<log, ids, clock, appends, sealed, written>>

(* audit_chain_guard starts with an empty session, sealed or not. *)
StartGuard ==
    /\ vpc[Worker] = "idle"
    /\ vpc' = [vpc EXCEPT ![Worker] = "select"]
    /\ UNCHANGED <<log, ids, clock, appends, shown, sealed, written>>

(* A session does not reload the rows it already holds: the second SELECT   *)
(* decides which rows there are, the first one what the shown rows say.     *)
Seen(v) ==
    [id \in DOMAIN log |-> IF id \in DOMAIN shown[v] THEN shown[v][id] ELSE log[id]]

Intact(v) == verify_audit_chain(Seen(v))

(* An intact log ends the request; a mismatch goes on to the alert. *)
Verify(v) ==
    /\ vpc[v] = "select"
    /\ IF Intact(v)
       THEN /\ vpc' = [vpc EXCEPT ![v] = "idle"]
            /\ shown' = [shown EXCEPT ![v] = NoRows]
       ELSE /\ vpc' = [vpc EXCEPT ![v] = "alarm"]
            /\ UNCHANGED shown
    /\ UNCHANGED <<log, ids, clock, appends, sealed, written>>

(* The alert is out; trigger_auto_seal closes the gatekeeper of the process *)
(* it runs in, which is not the API's when the guard found the mismatch.    *)
AutoSeal(v) ==
    /\ vpc[v] = "alarm"
    /\ sealed' = (sealed \/ v # Worker)
    /\ vpc' = [vpc EXCEPT ![v] = "idle"]
    /\ shown' = [shown EXCEPT ![v] = NoRows]
    /\ UNCHANGED <<log, ids, clock, appends, written>>

-----------------------------------------------------------------------------
(* The surroundings. *)

(* A ritual opens the API's gatekeeper, a request seals it. *)
Unseal ==
    /\ sealed
    /\ sealed' = FALSE
    /\ UNCHANGED <<log, ids, clock, appends, checks, written>>

Seal ==
    /\ ~sealed
    /\ sealed' = TRUE
    /\ UNCHANGED <<log, ids, clock, appends, checks, written>>

(* What others do to the table: one UPDATE or DELETE of a row as the        *)
(* service wrote it.  "altered" stands for any change of the hashed fields. *)
Removed == DOMAIN written \ DOMAIN log
Touched == {id \in DOMAIN written : id \in DOMAIN log => log[id] # written[id]}

Update(id, row) ==
    /\ Cardinality(Touched) < MaxEdits
    /\ log[id] = written[id]
    /\ log' = [log EXCEPT ![id] = row]
    /\ UNCHANGED <<ids, clock, appends, checks, sealed, written>>

Alter(id) == Update(id, [log[id] EXCEPT !.content = "altered"])

(* ... with the hash that goes with it; the hash function is no secret. *)
Forge(id) ==
    Update(id, [log[id] EXCEPT !.content = "altered",
                               !.chain = next_chain_hash(LastHash(Below(log, id)),
                                                         "altered", log[id].created)])

(* The prev_hash column alone. *)
Relink(id) ==
    \E hash \in {Seed} \cup {log[i].chain : i \in DOMAIN log} :
        /\ hash # log[id].prev
        /\ Update(id, [log[id] EXCEPT !.prev = hash])

Remove(id) ==
    /\ Cardinality(Touched) < MaxEdits
    /\ log[id] = written[id]
    /\ log' = Restrict(log, DOMAIN log \ {id})
    /\ UNCHANGED <<ids, clock, appends, checks, sealed, written>>

Edit == \E id \in DOMAIN log : Alter(id) \/ Forge(id) \/ Relink(id) \/ Remove(id)

Service ==
    \/ \E a \in Appenders : Admit(a) \/ ReadLast(a) \/ Flush(a) \/ EndAppend(a)
    \/ \E r \in Readers : AdmitReader(r) \/ Fetch(r)
    \/ StartGuard
    \/ \E v \in Verifiers : Verify(v) \/ AutoSeal(v)

Next == Service \/ Unseal \/ Seal \/ Edit

Spec == Init /\ [][Next]_vars

-----------------------------------------------------------------------------
(* Properties. *)

(***************************************************************************)
(* Every row that the service committed was chained onto the seed or onto  *)
(* a row with a smaller id, as that row was written or as it has been      *)
(* forged since: even when appends overlap and commit out of order.        *)
(***************************************************************************)
ChainedOnEarlier ==
    \A id \in DOMAIN written :
      \/ written[id].prev = Seed
      \/ \E i \in DOMAIN written :
           /\ i < id
           /\ \/ written[i].chain = written[id].prev
              \/ i \in DOMAIN log /\ log[i].chain = written[id].prev

(***************************************************************************)
(* "Intact" vouches for every row that a verified hash covers: it is still *)
(* there, and says what it said when it was committed, although the rows   *)
(* shown and the rows verified come from two SELECTs.  It vouches for      *)
(* nothing else: not for prev_hash, not for the newest rows once they are  *)
(* removed, and not for a row that was forged and what was then chained    *)
(* onto it.                                                                *)
(***************************************************************************)
Covers(hash, part) ==
    Len(part) <= Len(hash) /\ \A n \in DOMAIN part : hash[n] = part[n]

SaysTheSame(row, was) ==
    row.content = was.content /\ row.created = was.created /\ row.chain = was.chain

IntactVouches ==
    [][\A v \in Verifiers : Verify(v) /\ vpc'[v] = "idle" =>
         \A id \in DOMAIN log, i \in DOMAIN written :
           Covers(Seen(v)[id].chain, written[i].chain) =>
             i \in DOMAIN log /\ SaysTheSame(Seen(v)[i], written[i])]_vars

(***************************************************************************)
(* A false alarm has one of three causes: two clock readings of an append  *)
(* differed, two appends overlapped and extend one hash, or a row was      *)
(* altered or removed.  Appends one after the other in one instant each    *)
(* verify.                                                                 *)
(***************************************************************************)
Altered(rows) == {id \in DOMAIN rows : rows[id].content = "altered"}
ClockSplit(rows) == \E id \in DOMAIN rows : rows[id].created[2] # 0

(* The hash that a row's hash was computed from, whatever its prev_hash says. *)
Base(row) == SubSeq(row.chain, 1, Len(row.chain) - 1)
Forked(rows) == \E i, j \in DOMAIN rows : i # j /\ Base(rows[i]) = Base(rows[j])

AlarmHasACause ==
    [][\A v \in Verifiers : Verify(v) /\ vpc'[v] = "alarm" =>
         \/ ClockSplit(log)
         \/ Forked(log)
         \/ Removed # {} \/ Altered(log) # {}]_vars

(***************************************************************************)
(* No service step heals a broken chain: every later look at the audit     *)
(* log reports tampering and seals the vault again.                        *)
(***************************************************************************)
BrokenStaysBroken ==
    [][Service /\ ~verify_audit_chain(log) => ~verify_audit_chain(log')]_vars

(***************************************************************************)
(* The log of a service nobody tampered with verifies.                     *)
(***************************************************************************)
HonestLogVerifies ==
    (Removed = {} /\ Altered(log) = {}) => verify_audit_chain(log)
=============================================================================
