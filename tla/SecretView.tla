----------------------------- MODULE SecretView -----------------------------
(***************************************************************************)
(* Stored secrets (backend/secrets) and the Transit engine that encrypts   *)
(* them (backend/vault/service.py): requests that store a secret or view   *)
(* one, the remembered _transit_ready under its lock, and an external      *)
(* Vault in dev mode, which a restart empties and a seal request seals.    *)
(*                                                                         *)
(* Each await is a step.  A key lives as long as the Vault process, so a   *)
(* ciphertext is the number of the Vault process that made it.             *)
(***************************************************************************)
EXTENDS Naturals

CONSTANTS
    Requests,   \* requests to store or view that run at the same time
    NoRequest,  \* "nobody" as the owner of _transit_lock
    Secrets,    \* names of secrets, unique in stored_secrets
    NoText,     \* no ciphertext
    MaxBoots    \* bound: restarts of Vault

ASSUME SecretViewAssumption ==
    NoRequest \notin Requests /\ MaxBoots \in Nat /\ NoText \notin Nat

VARIABLES
    boot,     \* which Vault process runs
    mounted,  \* its transit engine is enabled
    keyed,    \* its transit key exists
    vsealed,  \* Vault is sealed
    sealed,   \* the gatekeeper is closed
    spc,      \* where the request that seals is
    ready,    \* _transit_ready
    lock,     \* owner of _transit_lock
    stored,   \* stored_secrets: the ciphertext of each secret
    pc,       \* the await each request is at
    call,     \* what each request asked for
    forced,   \* the request has had an InvalidPath and prepares again
    text,     \* the ciphertext the request has read or made
    reply,    \* how the request last ended
    audited   \* history: the audit row of this view is committed

vault == <<boot, mounted, keyed, vsealed>>
gate == <<sealed, spc>>
transit == <<ready, lock>>
task == <<call, forced, text>>
vars == <<vault, gate, transit, stored, pc, task, reply, audited>>

Calls == [op : {"store", "view"}, secret : Secrets]
NoCall == [op |-> "none"]
Texts == 0..MaxBoots \cup {NoText}
Stages == {"idle", "load", "ensure", "mount", "key", "crypt", "insert", "token", "audit",
           "refresh", "publish"}
Replies == {"none", "stored", "plaintext", "unready", "lost", "error"}

TypeOK ==
    /\ boot \in 0..MaxBoots
    /\ mounted \in BOOLEAN /\ keyed \in BOOLEAN /\ vsealed \in BOOLEAN
    /\ sealed \in BOOLEAN /\ spc \in {"idle", "remote"}
    /\ ready \in BOOLEAN
    /\ lock \in Requests \cup {NoRequest}
    /\ stored \in [Secrets -> Texts]
    /\ pc \in [Requests -> Stages]
    /\ call \in [Requests -> Calls \cup {NoCall}]
    /\ forced \in [Requests -> BOOLEAN]
    /\ text \in [Requests -> Texts]
    /\ reply \in [Requests -> Replies]
    /\ audited \in [Requests -> BOOLEAN]
    /\ \A r \in Requests : pc[r] \in {"mount", "key"} <=> lock = r

(* on_startup tries to prepare the engine and goes on if it cannot. *)
Init ==
    /\ boot = 0
    /\ mounted \in BOOLEAN /\ keyed = mounted /\ ready = mounted
    /\ vsealed = FALSE
    /\ sealed = TRUE /\ spc = "idle"
    /\ lock = NoRequest
    /\ stored = [s \in Secrets |-> NoText]
    /\ pc = [r \in Requests |-> "idle"]
    /\ call = [r \in Requests |-> NoCall]
    /\ forced = [r \in Requests |-> FALSE]
    /\ text = [r \in Requests |-> NoText]
    /\ reply = [r \in Requests |-> "none"]
    /\ audited = [r \in Requests |-> FALSE]

Goto(r, stage) ==
    /\ pc' = [pc EXCEPT ![r] = stage]
    /\ UNCHANGED reply

(* The handler returns or raises. *)
Finish(r, answer) ==
    /\ pc' = [pc EXCEPT ![r] = "idle"]
    /\ reply' = [reply EXCEPT ![r] = answer]
    /\ call' = [call EXCEPT ![r] = NoCall]
    /\ forced' = [forced EXCEPT ![r] = FALSE]
    /\ text' = [text EXCEPT ![r] = NoText]

-----------------------------------------------------------------------------
(* The heads of the two handlers. *)

(* Seeded bug: the path of the handler is allow-listed. *)
OpenAlways == TRUE
Open == ~sealed

Admit(r) ==
    /\ pc[r] = "idle" /\ Open
    /\ \E c \in Calls :
         /\ call' = [call EXCEPT ![r] = c]
         /\ pc' = [pc EXCEPT ![r] = IF c.op = "view" THEN "load" ELSE "ensure"]
    /\ reply' = [reply EXCEPT ![r] = "none"]
    /\ audited' = [audited EXCEPT ![r] = FALSE]
    /\ UNCHANGED <<vault, gate, transit, stored, forced, text>>

(* session.get; an unknown secret is a 404. *)
Load(r) ==
    LET row == stored[call[r].secret]
    IN  /\ pc[r] = "load"
        /\ \/ row = NoText /\ Finish(r, "error")
           \/ /\ row # NoText
              /\ text' = [text EXCEPT ![r] = row]
              /\ Goto(r, "ensure")
              /\ UNCHANGED <<call, forced>>
        /\ UNCHANGED <<vault, gate, transit, stored, audited>>

-----------------------------------------------------------------------------
(* ensure_transit_ready *)

(* Seeded bug: the lock is looked at and not taken. *)
TakeNothing(r) == UNCHANGED lock
TakeLock(r) == lock' = r

(* The flag is looked at only by the holder of the lock. *)
Ensure(r) ==
    /\ pc[r] = "ensure" /\ lock = NoRequest
    /\ \/ ready /\ ~forced[r] /\ Goto(r, "crypt") /\ UNCHANGED lock
       \/ (~ready \/ forced[r]) /\ Goto(r, "mount") /\ TakeLock(r)
    /\ UNCHANGED <<vault, gate, ready, stored, task, audited>>

(* Seeded bug: a failed preparation keeps the lock. *)
AbandonLocked(r, answer) == Finish(r, answer) /\ UNCHANGED <<vault, transit>>

(* An exception releases the lock and leaves the flag as it was. *)
AbandonPrepare(r, answer) ==
    /\ lock' = NoRequest
    /\ Finish(r, answer)
    /\ UNCHANGED <<vault, ready>>

Mount(r) ==
    /\ pc[r] = "mount"
    /\ \/ vsealed /\ AbandonPrepare(r, "error")
       \/ /\ ~vsealed
          /\ mounted' = TRUE
          /\ Goto(r, "key")
          /\ UNCHANGED <<boot, keyed, vsealed, transit, task>>
    /\ UNCHANGED <<gate, stored, audited>>

(* read_key, then create_key; both need the engine that the last step saw. *)
CreateKey(r) ==
    /\ pc[r] = "key"
    /\ \/ vsealed /\ AbandonPrepare(r, "error")
       \/ ~vsealed /\ ~mounted /\ AbandonPrepare(r, "unready")
       \/ /\ ~vsealed /\ mounted
          /\ keyed' = TRUE
          /\ ready' = TRUE
          /\ lock' = NoRequest
          /\ Goto(r, "crypt")
          /\ UNCHANGED <<boot, mounted, vsealed, task>>
    /\ UNCHANGED <<gate, stored, audited>>

-----------------------------------------------------------------------------
(* encrypt_with_vault and decrypt_with_vault *)

(* Seeded bug: the engine is not prepared again. *)
InvalidPathRaised(r) == ~mounted /\ Finish(r, "unready") /\ UNCHANGED keyed

(* The engine is not mounted: prepare it once more, then give up. *)
InvalidPath(r) ==
    /\ ~mounted
    /\ \/ forced[r] /\ Finish(r, "unready")
       \/ /\ ~forced[r]
          /\ forced' = [forced EXCEPT ![r] = TRUE]
          /\ Goto(r, "ensure")
          /\ UNCHANGED <<call, text>>
    /\ UNCHANGED keyed

(* Vault creates a missing key when it is asked to encrypt with it. *)
Encrypt(r) ==
    /\ call[r].op = "store" /\ mounted
    /\ keyed' = TRUE
    /\ text' = [text EXCEPT ![r] = boot]
    /\ Goto(r, "insert")
    /\ UNCHANGED <<call, forced>>

(* A ciphertext of an earlier process, or no key: an InvalidRequest. *)
Decrypt(r) ==
    /\ call[r].op = "view" /\ mounted
    /\ IF keyed /\ text[r] = boot
       THEN Goto(r, "token") /\ UNCHANGED task
       ELSE Finish(r, "lost")
    /\ UNCHANGED keyed

Crypt(r) ==
    /\ pc[r] = "crypt"
    /\ \/ vsealed /\ Finish(r, "error") /\ UNCHANGED keyed
       \/ ~vsealed /\ (InvalidPath(r) \/ Encrypt(r) \/ Decrypt(r))
    /\ UNCHANGED <<boot, mounted, vsealed, gate, transit, stored, audited>>

-----------------------------------------------------------------------------
(* The tails of the two handlers. *)

(* The name is unique: a second INSERT of it fails. *)
Insert(r) ==
    LET s == call[r].secret
    IN  /\ pc[r] = "insert"
        /\ \/ stored[s] # NoText /\ Finish(r, "error") /\ UNCHANGED stored
           \/ /\ stored[s] = NoText
              /\ stored' = [stored EXCEPT ![s] = text[r]]
              /\ Finish(r, "stored")
        /\ UNCHANGED <<vault, gate, transit, audited>>

(* setex of the view token, and the secret_view event. *)
StoreToken(r) ==
    /\ pc[r] = "token"
    /\ Goto(r, "audit")
    /\ UNCHANGED <<vault, gate, transit, stored, task, audited>>

(* Seeded bug: a failed append is suppressed. *)
AppendedOrNot(r) == \E done \in BOOLEAN : audited' = [audited EXCEPT ![r] = done]
Appended(r) == audited' = [audited EXCEPT ![r] = TRUE]

(* append_audit_log commits the row, reads it again and tells the auditors. *)
CommitAudit(r) ==
    /\ pc[r] = "audit"
    /\ Appended(r)
    /\ Goto(r, "refresh")
    /\ UNCHANGED <<vault, gate, transit, stored, task>>

Refresh(r) ==
    /\ pc[r] = "refresh"
    /\ Goto(r, "publish")
    /\ UNCHANGED <<vault, gate, transit, stored, task, audited>>

(* The event is out, and view_secret_value returns the plaintext. *)
Disclose(r) ==
    /\ pc[r] = "publish"
    /\ Finish(r, "plaintext")
    /\ UNCHANGED <<vault, gate, transit, stored, audited>>

(* A database, Redis or connection error leaves the handler, and the lock.  *)
(* A commit that fails may have reached the database.                       *)
Fail(r) ==
    /\ pc[r] \notin {"idle", "ensure"}
    /\ lock' = IF lock = r THEN NoRequest ELSE lock
    /\ \/ UNCHANGED audited
       \/ pc[r] = "audit" /\ audited' = [audited EXCEPT ![r] = TRUE]
    /\ Finish(r, "error")
    /\ UNCHANGED <<vault, gate, ready, stored>>

-----------------------------------------------------------------------------
(* The surroundings. *)

(* The seal route and auto-seals: the gatekeeper first, then Vault itself, *)
(* whose failure to seal is ignored.  Panic stops after the gatekeeper.    *)
SealGate ==
    /\ spc = "idle"
    /\ sealed' = TRUE
    /\ spc' \in {"idle", "remote"}
    /\ UNCHANGED <<vault, transit, stored, pc, task, reply, audited>>

SealRemote ==
    /\ spc = "remote"
    /\ vsealed' \in {vsealed, TRUE}
    /\ spc' = "idle"
    /\ UNCHANGED <<boot, mounted, keyed, sealed, transit, stored, pc, task, reply, audited>>

(* A ritual opens the gatekeeper, and nothing else. *)
Unseal ==
    /\ sealed
    /\ sealed' = FALSE
    /\ UNCHANGED <<vault, spc, transit, stored, pc, task, reply, audited>>

(* Vault in dev mode comes back empty and unsealed. *)
RestartVault ==
    /\ boot < MaxBoots
    /\ boot' = boot + 1
    /\ mounted' = FALSE /\ keyed' = FALSE /\ vsealed' = FALSE
    /\ UNCHANGED <<gate, transit, stored, pc, task, reply, audited>>

Step(r) ==
    \/ Load(r) \/ Ensure(r) \/ Mount(r) \/ CreateKey(r) \/ Crypt(r)
    \/ Insert(r) \/ StoreToken(r) \/ CommitAudit(r) \/ Refresh(r) \/ Disclose(r)

Next ==
    \/ \E r \in Requests : Admit(r) \/ Step(r) \/ Fail(r)
    \/ SealGate
    \/ SealRemote
    \/ Unseal
    \/ RestartVault

(* A handler whose await is over runs on; _transit_lock is first-in first-out. *)
Fairness == \A r \in Requests : WF_vars(Step(r) \/ Fail(r)) /\ SF_vars(Ensure(r))

Spec == Init /\ [][Next]_vars
FairSpec == Spec /\ Fairness

-----------------------------------------------------------------------------
(* Properties. *)

(***************************************************************************)
(* The audit log and the answers agree, whatever fails on the way: no      *)
(* plaintext leaves the service without its committed row, and no row      *)
(* tells of a view that was refused or could not be decrypted.  A row      *)
(* without a plaintext means a request that failed after the commit, or in *)
(* it.                                                                     *)
(***************************************************************************)
AuditMatchesAnswers == \A r \in Requests :
    /\ reply[r] = "plaintext" => audited[r]
    /\ audited[r] => pc[r] \in {"refresh", "publish"} \/ reply[r] \in {"plaintext", "error"}

(***************************************************************************)
(* A remembered _transit_ready does not outlive the engine it was set for: *)
(* once Vault stays up, no request fails for want of the engine.           *)
(***************************************************************************)
TransitHeals ==
    <>[][\A r \in Requests : reply[r] # "unready" => reply'[r] # "unready"]_vars

(***************************************************************************)
(* Every store or view ends, whoever prepares the engine or fails to.      *)
(***************************************************************************)
RequestsEnd == \A r \in Requests : pc[r] = "ensure" ~> pc[r] = "idle"

(***************************************************************************)
(* Views admitted before a seal may still be answered after it, but a      *)
(* vault that stays sealed stops disclosing.                               *)
(***************************************************************************)
SealStopsDisclosure ==
    (<>[]sealed) =>
        <>[][\A r \in Requests : reply[r] # "plaintext" => reply'[r] # "plaintext"]_vars

(***************************************************************************)
(* The documents promise that the unseal ritual gives access to secrets    *)
(* again after a seal.                                                     *)
(***************************************************************************)
RitualRestoresAccess == ~sealed /\ spc = "idle" => ~vsealed
=============================================================================
