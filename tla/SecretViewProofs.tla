-------------------------- MODULE SecretViewProofs --------------------------
(***************************************************************************)
(* Theorems about SecretView, for any number of requests, secrets and      *)
(* restarts of Vault.                                                      *)
(***************************************************************************)
EXTENDS SecretView, TLAPS

-----------------------------------------------------------------------------
(* Type correctness, and who holds _transit_lock. *)

(***************************************************************************)
(* TypeOK needs to know that a request in progress has a call: the row it  *)
(* loads is the row of the secret it named.                                *)
(***************************************************************************)
Called == \A r \in Requests : pc[r] # "idle" => call[r] \in Calls

LEMMA FinishType ==
    ASSUME TypeOK, Called, NEW r \in Requests, NEW answer \in Replies, Finish(r, answer)
    PROVE  /\ pc' \in [Requests -> Stages] /\ reply' \in [Requests -> Replies]
           /\ call' \in [Requests -> Calls \cup {NoCall}]
           /\ forced' \in [Requests -> BOOLEAN]
           /\ text' \in [Requests -> Texts]
           /\ Called'
           /\ pc' = [pc EXCEPT ![r] = "idle"]
<1>1. "idle" \in Stages /\ NoText \in Texts
  BY DEF Stages, Texts
<1> QED BY <1>1 DEF TypeOK, Called, Finish

LEMMA GotoType ==
    ASSUME TypeOK, Called, NEW r \in Requests, pc[r] # "idle",
           NEW stage \in Stages, Goto(r, stage),
           call' = call
    PROVE  /\ pc' \in [Requests -> Stages] /\ reply' \in [Requests -> Replies]
           /\ Called'
           /\ pc' = [pc EXCEPT ![r] = stage]
BY DEF TypeOK, Called, Goto

LEMMA NextType == TypeOK /\ Called /\ [Next]_vars => TypeOK' /\ Called'
<1> SUFFICES ASSUME TypeOK, Called, [Next]_vars PROVE TypeOK' /\ Called'
  OBVIOUS
<1> USE SecretViewAssumption DEF vault, gate, transit, task
<1>s. /\ {"load", "ensure", "mount", "key", "crypt", "insert", "token", "audit",
           "refresh", "publish"} \subseteq Stages
      /\ {"stored", "plaintext", "unready", "lost", "error"} \subseteq Replies
      /\ "none" \in Replies
  BY DEF Stages, Replies
<1>1. ASSUME NEW r \in Requests, Admit(r) PROVE TypeOK' /\ Called'
  BY <1>1, <1>s DEF Admit, TypeOK, Called
<1>2. ASSUME NEW r \in Requests, Load(r) PROVE TypeOK' /\ Called'
  <2>1. stored[call[r].secret] \in Texts
    BY <1>2 DEF Load, TypeOK, Called, Calls
  <2>2. CASE Finish(r, "error")
    BY <1>2, <2>2, <1>s, FinishType DEF Load, TypeOK
  <2>3. CASE text' = [text EXCEPT ![r] = stored[call[r].secret]] /\ Goto(r, "ensure") /\ UNCHANGED <<call, forced>>
    BY <1>2, <2>1, <2>3, <1>s, GotoType DEF Load, TypeOK
  <2> QED BY <1>2, <2>2, <2>3 DEF Load
<1>3. ASSUME NEW r \in Requests, Ensure(r) PROVE TypeOK' /\ Called'
  <2>1. CASE Goto(r, "crypt") /\ UNCHANGED lock
    BY <1>3, <2>1, <1>s, GotoType DEF Ensure, TypeOK
  <2>2. CASE Goto(r, "mount") /\ TakeLock(r)
    BY <1>3, <2>2, <1>s, GotoType DEF Ensure, TakeLock, TypeOK
  <2> QED BY <1>3, <2>1, <2>2 DEF Ensure
<1>4. ASSUME NEW r \in Requests, NEW answer \in Replies, AbandonPrepare(r, answer),
             pc[r] \in {"mount", "key"}, UNCHANGED <<gate, stored, audited>>
      PROVE  TypeOK' /\ Called'
  BY <1>4, FinishType DEF AbandonPrepare, TypeOK
<1>5. ASSUME NEW r \in Requests, Mount(r) PROVE TypeOK' /\ Called'
  <2>1. CASE AbandonPrepare(r, "error")
    BY <1>5, <2>1, <1>4, <1>s DEF Mount
  <2>2. CASE Goto(r, "key") /\ mounted' = TRUE /\ UNCHANGED <<boot, keyed, vsealed, transit, task>>
    BY <1>5, <2>2, <1>s, GotoType DEF Mount, TypeOK
  <2> QED BY <1>5, <2>1, <2>2 DEF Mount
<1>6. ASSUME NEW r \in Requests, CreateKey(r) PROVE TypeOK' /\ Called'
  <2>1. CASE AbandonPrepare(r, "error") \/ AbandonPrepare(r, "unready")
    BY <1>6, <2>1, <1>4, <1>s DEF CreateKey
  <2>2. CASE /\ keyed' = TRUE /\ ready' = TRUE /\ lock' = NoRequest
             /\ Goto(r, "crypt")
             /\ UNCHANGED <<boot, mounted, vsealed, task>>
    BY <1>6, <2>2, <1>s, GotoType DEF CreateKey, TypeOK
  <2> QED BY <1>6, <2>1, <2>2 DEF CreateKey
<1>7. ASSUME NEW r \in Requests, Crypt(r) PROVE TypeOK' /\ Called'
  <2>1. CASE (\E a \in Replies : Finish(r, a)) /\ UNCHANGED keyed
    BY <1>7, <2>1, FinishType DEF Crypt, TypeOK
  <2>2. CASE forced' = [forced EXCEPT ![r] = TRUE] /\ Goto(r, "ensure") /\ UNCHANGED <<call, text, keyed>>
    BY <1>7, <2>2, <1>s, GotoType DEF Crypt, TypeOK
  <2>3. CASE Encrypt(r)
    BY <1>7, <2>3, <1>s, GotoType DEF Crypt, Encrypt, TypeOK, Texts
  <2>4. CASE Goto(r, "token") /\ UNCHANGED <<task, keyed>>
    BY <1>7, <2>4, <1>s, GotoType DEF Crypt, TypeOK
  <2> QED BY <1>7, <2>1, <2>2, <2>3, <2>4, <1>s DEF Crypt, InvalidPath, Decrypt
<1>8. ASSUME NEW r \in Requests, Insert(r) PROVE TypeOK' /\ Called'
  <2>1. stored' \in [Secrets -> Texts] /\ (\E a \in Replies : Finish(r, a))
    BY <1>8, <1>s DEF Insert, TypeOK
  <2> QED BY <1>8, <2>1, FinishType DEF Insert, TypeOK
<1>9. ASSUME NEW r \in Requests, StoreToken(r) PROVE TypeOK' /\ Called'
  BY <1>9, <1>s, GotoType DEF StoreToken, TypeOK
<1>10. ASSUME NEW r \in Requests, CommitAudit(r) \/ Refresh(r) \/ Disclose(r)
       PROVE  TypeOK' /\ Called'
  <2>1. CASE CommitAudit(r)
    BY <2>1, <1>s, GotoType DEF CommitAudit, Appended, TypeOK
  <2>2. CASE Refresh(r)
    BY <2>2, <1>s, GotoType DEF Refresh, TypeOK
  <2>3. CASE Disclose(r)
    BY <2>3, <1>s, FinishType DEF Disclose, TypeOK
  <2> QED BY <1>10, <2>1, <2>2, <2>3
<1>11. ASSUME NEW r \in Requests, Fail(r) PROVE TypeOK' /\ Called'
  <2>1. audited' \in [Requests -> BOOLEAN]
    BY <1>11 DEF Fail, TypeOK
  <2>2. Finish(r, "error") /\ lock' = (IF lock = r THEN NoRequest ELSE lock)
    BY <1>11 DEF Fail
  <2>3. UNCHANGED <<vault, gate, ready, stored>> /\ pc[r] \notin {"idle", "ensure"}
    BY <1>11 DEF Fail
  <2> QED BY <2>1, <2>2, <2>3, <1>s, FinishType DEF TypeOK
<1>12. CASE SealGate \/ SealRemote \/ Unseal \/ RestartVault
  <2>1. CASE SealGate \/ Unseal
    BY <2>1 DEF SealGate, Unseal, TypeOK, Called
  <2>2. CASE SealRemote
    BY <2>2 DEF SealRemote, TypeOK, Called
  <2>3. CASE RestartVault
    <3>1. boot' \in 0..MaxBoots
      BY <2>3 DEF RestartVault, TypeOK
    <3>2. mounted' \in BOOLEAN /\ keyed' \in BOOLEAN /\ vsealed' \in BOOLEAN
      BY <2>3 DEF RestartVault
    <3>3. UNCHANGED <<gate, transit, stored, pc, task, reply, audited>>
      BY <2>3 DEF RestartVault
    <3> QED BY <3>1, <3>2, <3>3 DEF TypeOK, Called
  <2> QED BY <1>12, <2>1, <2>2, <2>3
<1>13. CASE UNCHANGED vars
  BY <1>13 DEF vars, TypeOK, Called
<1> QED BY <1>1, <1>2, <1>3, <1>5, <1>6, <1>7, <1>8, <1>9, <1>10, <1>11, <1>12, <1>13
        DEF Next, Step

LEMMA InitType == Init => TypeOK /\ Called
<1>1. "idle" \in Stages /\ "none" \in Replies /\ NoText \in Texts
  BY DEF Stages, Replies, Texts
<1>2. ASSUME Init PROVE \A r \in Requests : pc[r] \in {"mount", "key"} <=> lock = r
  BY <1>2, SecretViewAssumption DEF Init
<1>3. ASSUME Init PROVE /\ mounted \in BOOLEAN /\ keyed \in BOOLEAN /\ ready \in BOOLEAN
                        /\ vsealed \in BOOLEAN /\ sealed \in BOOLEAN
  BY <1>3 DEF Init
<1>4. ASSUME Init PROVE Called /\ boot \in 0..MaxBoots /\ spc \in {"idle", "remote"}
  BY <1>4, SecretViewAssumption DEF Init, Called
<1>5. ASSUME Init PROVE /\ pc \in [Requests -> Stages] /\ reply \in [Requests -> Replies]
                        /\ stored \in [Secrets -> Texts] /\ text \in [Requests -> Texts]
  BY <1>1, <1>5 DEF Init
<1>6. ASSUME Init PROVE /\ call \in [Requests -> Calls \cup {NoCall}]
                        /\ forced \in [Requests -> BOOLEAN] /\ audited \in [Requests -> BOOLEAN]
                        /\ lock \in Requests \cup {NoRequest}
  BY <1>6 DEF Init
<1> QED BY <1>2, <1>3, <1>4, <1>5, <1>6 DEF TypeOK

(***************************************************************************)
(* Every state has its type, and _transit_lock is held by exactly the      *)
(* request that prepares the engine, whatever fails while it does.         *)
(***************************************************************************)
THEOREM SecretTypeCorrect == Spec => []TypeOK
BY InitType, NextType, PTL DEF Spec

-----------------------------------------------------------------------------
(* Disclosure. *)

(***************************************************************************)
(* AuditMatchesAnswers speaks of how requests ended.  What carries it over *)
(* the awaits of a view is that a request that still runs has its row      *)
(* exactly when it is past the commit.                                     *)
(***************************************************************************)
AuditInv == \A r \in Requests :
    /\ pc[r] \in {"refresh", "publish"} => audited[r]
    /\ pc[r] \notin {"idle", "refresh", "publish"} => ~audited[r]
    /\ reply[r] = "plaintext" => audited[r]
    /\ audited[r] /\ pc[r] = "idle" => reply[r] \in {"plaintext", "error"}

(***************************************************************************)
(* A view is answered with the plaintext only after its audit row is       *)
(* committed, and has such a row only if it got as far as the commit: for  *)
(* any number of requests, and whatever fails between the steps.           *)
(***************************************************************************)
THEOREM NothingUnaudited == Spec => []AuditMatchesAnswers
<1>1. Init => AuditInv
  BY DEF Init, AuditInv
<1>2. TypeOK /\ AuditInv /\ [Next]_vars => AuditInv'
  <2> SUFFICES ASSUME TypeOK, AuditInv, [Next]_vars PROVE AuditInv'
    OBVIOUS
  <2> USE DEF TypeOK, AuditInv, Finish, Goto
  <2>1. ASSUME NEW r \in Requests, Admit(r) PROVE AuditInv'
    BY <2>1 DEF Admit
  <2>2. ASSUME NEW r \in Requests, Load(r) \/ Ensure(r) \/ Insert(r) \/ StoreToken(r)
        PROVE  AuditInv'
    BY <2>2 DEF Load, Ensure, Insert, StoreToken
  <2>3. ASSUME NEW r \in Requests, Mount(r) \/ CreateKey(r) PROVE AuditInv'
    BY <2>3 DEF Mount, CreateKey, AbandonPrepare
  <2>4. ASSUME NEW r \in Requests, Crypt(r) PROVE AuditInv'
    BY <2>4 DEF Crypt, InvalidPath, Encrypt, Decrypt
  <2>5. ASSUME NEW r \in Requests, CommitAudit(r) PROVE AuditInv'
    BY <2>5 DEF CommitAudit, Appended
  <2>6. ASSUME NEW r \in Requests, Refresh(r) \/ Disclose(r) PROVE AuditInv'
    BY <2>6 DEF Refresh, Disclose
  <2>7. ASSUME NEW r \in Requests, Fail(r) PROVE AuditInv'
    BY <2>7 DEF Fail
  <2>8. CASE SealGate \/ SealRemote \/ Unseal \/ RestartVault \/ UNCHANGED vars
    BY <2>8 DEF SealGate, SealRemote, Unseal, RestartVault, vars
  <2> QED BY <2>1, <2>2, <2>3, <2>4, <2>5, <2>6, <2>7, <2>8 DEF Next, Step
<1>3. AuditInv => AuditMatchesAnswers
  BY DEF AuditInv, AuditMatchesAnswers
<1> QED BY <1>1, <1>2, <1>3, SecretTypeCorrect, PTL DEF Spec
=============================================================================
