-------------------------- MODULE AuditChainProofs --------------------------
(***************************************************************************)
(* Theorems about AuditChain, for any number of appenders, readers, rows   *)
(* and edits, and any lags of the clock.                                   *)
(***************************************************************************)
EXTENDS AuditChain, FiniteSetTheorems, SequenceTheorems, TLAPS

-----------------------------------------------------------------------------
(* The newest row. *)

(***************************************************************************)
(* A nonempty set of ids has a greatest one.  Among the sets of ids above  *)
(* a given one, a least under strict inclusion is empty.                   *)
(***************************************************************************)
LEMMA MaxOfIds == ASSUME NEW n \in Nat, NEW S \in SUBSET (1..n), S # {}
                  PROVE  Max(S) \in S /\ \A y \in S : y <= Max(S)
<1> DEFINE Above(x) == {y \in S : y > x}
           R == StrictSubsetOrdering(S)
           T == {Above(x) : x \in S}
<1>1. IsFiniteSet(S)
  <2>1. IsFiniteSet(1..n)
    BY FS_Interval
  <2> QED BY <2>1, FS_Subset
<1>2. IsWellFoundedOn(R, FiniteSubsetsOf(S))
  BY FS_StrictSubsetOrderingWellFounded
<1>3. T \subseteq FiniteSubsetsOf(S) /\ T # {}
  <2>1. FiniteSubsetsOf(S) = SUBSET S
    BY <1>1, FS_FiniteSubsetsOfFinite
  <2>2. \A x \in S : Above(x) \in SUBSET S
    OBVIOUS
  <2>3. T \subseteq SUBSET S
    BY <2>2
  <2>4. PICK x \in S : TRUE
    OBVIOUS
  <2>5. Above(x) \in T
    BY <2>4
  <2> QED BY <2>1, <2>3, <2>5
<1>4. PICK U \in T : \A V \in T : <<V, U>> \notin R
  <2> HIDE DEF R, T
  <2> QED BY <1>2, <1>3, WFMin
<1>5. PICK x \in S : U = Above(x)
  BY <1>4
<1>6. ASSUME NEW y \in S, y > x PROVE FALSE
  <2>1. Above(y) \subseteq Above(x)
    <3>1. \A z \in S : z > y => z > x
      BY <1>6
    <3> QED BY <3>1
  <2>2. y \in Above(x) /\ y \notin Above(y)
    BY <1>6
  <2>3. Above(y) \in T
    BY <1>6
  <2>4. <<Above(y), U>> \in (SUBSET S) \X (SUBSET S)
    BY <1>5
  <2>5. <<Above(y), U>> \in R
    BY <2>1, <2>2, <2>4, <1>5 DEF StrictSubsetOrdering
  <2> QED BY <1>4, <2>3, <2>5
<1>7. \A y \in S : x >= y
  BY <1>6
<1>8. Max(S) \in S /\ \A y \in S : Max(S) >= y
  BY <1>7 DEF Max
<1> QED BY <1>8

(* m is the row that verify_audit_chain has looked at just before row id. *)
Precedes(rows, m, id) ==
    /\ m \in DOMAIN rows /\ m < id
    /\ \A i \in DOMAIN rows : i < id => i <= m

First(rows, id) == \A i \in DOMAIN rows : ~(i < id)

(***************************************************************************)
(* The hash that a row is verified against is the seed for the first row   *)
(* and the chain hash of the row before it for any other.                  *)
(***************************************************************************)
LEMMA LastBelow ==
  ASSUME NEW n \in Nat, NEW rows, DOMAIN rows \subseteq 1..n, NEW id \in 1..n
  PROVE  \/ First(rows, id) /\ LastHash(Below(rows, id)) = Seed
         \/ \E m \in DOMAIN rows :
              Precedes(rows, m, id) /\ LastHash(Below(rows, id)) = rows[m].chain
<1> DEFINE S == {i \in DOMAIN rows : i < id}
<1>1. Below(rows, id) = [i \in S |-> rows[i]]
  BY DEF Below, Restrict
<1>2. CASE S = {}
  <2>1. DOMAIN Below(rows, id) = {}
    BY <1>1, <1>2
  <2>2. LastHash(Below(rows, id)) = Seed
    BY <2>1 DEF LastHash
  <2>3. First(rows, id)
    BY <1>2 DEF First
  <2> QED BY <2>2, <2>3
<1>3. CASE S # {}
  <2>1. S \in SUBSET (1..n)
    OBVIOUS
  <2>2. Max(S) \in S /\ \A y \in S : y <= Max(S)
    <3> HIDE DEF S
    <3> QED BY <2>1, <1>3, MaxOfIds
  <2>3. Precedes(rows, Max(S), id)
    BY <2>2 DEF Precedes
  <2>4. DOMAIN Below(rows, id) = S /\ Below(rows, id)[Max(S)] = rows[Max(S)]
    BY <1>1, <2>2
  <2>5. LastHash(Below(rows, id)) = rows[Max(S)].chain
    BY <2>4, <1>3 DEF LastHash
  <2> QED BY <2>2, <2>3, <2>5
<1> QED BY <1>2, <1>3

-----------------------------------------------------------------------------
(* Type correctness. *)

(***************************************************************************)
(* TypeOK bounds the id sequence, whose guard is the clock's: every append *)
(* between its SELECT and its INSERT has ticked the clock and taken no id. *)
(***************************************************************************)
Flushing == {a \in Appenders : apc[a] = "flush"}

TypeInv ==
    /\ TypeOK
    /\ log = [id \in DOMAIN log |-> log[id]]
    /\ written = [id \in DOMAIN written |-> written[id]]
    /\ draft = [a \in Appenders |-> draft[a]]
    /\ \A a \in Appenders : apc[a] \in {"flush", "commit"} => draft[a] \in Rows
    /\ \A a \in Appenders : apc[a] = "commit" => draftId[a] \in 1..ids
    /\ ids + Cardinality(Flushing) <= clock

LEMMA LogIds ==
  ASSUME TypeInv
  PROVE  ids \in Nat /\ DOMAIN log \subseteq 1..ids /\ DOMAIN written \subseteq 1..ids
BY AuditAssumption DEF TypeInv, TypeOK

LEMMA FlushingFinite == IsFiniteSet(Flushing) /\ IsFiniteSet(Flushing') /\ Cardinality(Flushing) \in Nat
<1>1. IsFiniteSet(Appenders)
  BY AuditAssumption
<1>2. Flushing \in SUBSET Appenders /\ Flushing' \in SUBSET Appenders
  BY DEF Flushing
<1> QED BY <1>1, <1>2, FS_Subset, FS_CardinalityType

LEMMA LastHashType == ASSUME TypeInv PROVE LastHash(log) \in Hashes
<1>1. CASE DOMAIN log = {}
  BY <1>1 DEF LastHash, Seed, Hashes
<1>2. CASE DOMAIN log # {}
  <2>1. Max(DOMAIN log) \in DOMAIN log
    BY <1>2, LogIds, MaxOfIds
  <2> QED BY <1>2, <2>1 DEF LastHash, TypeInv, TypeOK, Rows
<1> QED BY <1>1, <1>2

LEMMA BelowHashType ==
  ASSUME TypeInv, NEW id \in DOMAIN log
  PROVE  /\ LastHash(Below(log, id)) \in Hashes
         /\ \/ LastHash(Below(log, id)) = Seed
            \/ \E m \in DOMAIN log : LastHash(Below(log, id)) = log[m].chain
<1>1. \/ LastHash(Below(log, id)) = Seed
      \/ \E m \in DOMAIN log : LastHash(Below(log, id)) = log[m].chain
  BY LogIds, LastBelow
<1>2. Seed \in Hashes
  BY DEF Seed, Hashes
<1>3. \A m \in DOMAIN log : log[m].chain \in Hashes
  BY DEF TypeInv, TypeOK, Rows
<1> QED BY <1>1, <1>2, <1>3

LEMMA NextHashType ==
  ASSUME NEW prev \in Hashes, NEW content \in Contents, NEW instant \in Nat \X Nat
  PROVE  next_chain_hash(prev, content, instant) \in Hashes
<1>1. <<content, instant>> \in Contents \X (Nat \X Nat)
  OBVIOUS
<1> QED BY <1>1, AppendProperties DEF Hashes, next_chain_hash

LEMMA ReadLastType ==
    ASSUME TypeInv, NEW a \in Appenders, ReadLast(a)
    PROVE  \E row \in Rows :
             /\ draft' = [draft EXCEPT ![a] = row]
             /\ row.prev = LastHash(log) /\ row.created[1] = clock' /\ row.content = "written"
             /\ row.chain = next_chain_hash(row.prev, "written", <<row.created[1], 0>>)
<1>1. PICK lag \in Lags :
        draft' = [draft EXCEPT ![a] =
           [content |-> "written",
            created |-> <<clock', lag>>,
            prev |-> LastHash(log),
            chain |-> next_chain_hash(LastHash(log), "written", <<clock', 0>>)]]
  BY DEF ReadLast, Visible
<1>2. clock' \in Nat
  BY AuditAssumption DEF ReadLast, TypeInv, TypeOK
<1>3. LastHash(log) \in Hashes
  BY LastHashType
<1>4. "written" \in Contents /\ <<clock', 0>> \in Nat \X Nat
  BY <1>2 DEF Contents
<1>5. next_chain_hash(LastHash(log), "written", <<clock', 0>>) \in Hashes
  BY <1>3, <1>4, NextHashType
<1>6. <<clock', lag>> \in Nat \X Lags /\ "written" \in Contents
  BY <1>2 DEF Contents
<1> DEFINE row == [content |-> "written",
                   created |-> <<clock', lag>>,
                   prev |-> LastHash(log),
                   chain |-> next_chain_hash(LastHash(log), "written", <<clock', 0>>)]
<1>7. row \in Rows
  BY <1>3, <1>5, <1>6 DEF Rows
<1>8. /\ draft' = [draft EXCEPT ![a] = row]
      /\ row.prev = LastHash(log) /\ row.created[1] = clock' /\ row.content = "written"
      /\ row.chain = next_chain_hash(row.prev, "written", <<row.created[1], 0>>)
  BY <1>1
<1> QED BY <1>7, <1>8

(***************************************************************************)
(* An edit from outside removes a row that is as it was written, or makes  *)
(* another row of it: with the old hash, or with the forged one.           *)
(***************************************************************************)
Cuts(id) == log' = Restrict(log, DOMAIN log \ {id})

Edits(id, row) ==
    /\ log' = [log EXCEPT ![id] = row]
    /\ row \in Rows /\ row.created = log[id].created
    /\ row.content = log[id].content \/ row.content = "altered"
    /\ \/ row.chain = log[id].chain
       \/ /\ row.content = "altered"
          /\ row.chain = next_chain_hash(LastHash(Below(log, id)), "altered", row.created)

LEMMA EditStep ==
  ASSUME TypeInv, Edit
  PROVE  \E id \in DOMAIN log :
           /\ log[id] = written[id]
           /\ UNCHANGED <<ids, clock, appends, checks, sealed, written>>
           /\ Cuts(id) \/ \E row : Edits(id, row)
<1>1. PICK id \in DOMAIN log : Alter(id) \/ Forge(id) \/ Relink(id) \/ Remove(id)
  BY DEF Edit
<1>2. /\ log[id] = written[id]
      /\ UNCHANGED <<ids, clock, appends, checks, sealed, written>>
  BY <1>1 DEF Alter, Forge, Relink, Remove, Update
<1> DEFINE was == log[id]
<1>3. was \in Rows
  BY DEF TypeInv, TypeOK
<1>4. CASE Alter(id)
  <2> DEFINE row == [was EXCEPT !.content = "altered"]
  <2>1. log' = [log EXCEPT ![id] = row]
    BY <1>4 DEF Alter, Update
  <2>2. row \in Rows /\ row.created = was.created /\ row.chain = was.chain /\ row.content = "altered"
    BY <1>3 DEF Rows, Contents
  <2>3. Edits(id, row)
    BY <2>1, <2>2 DEF Edits
  <2> QED BY <1>2, <2>3
<1>5. CASE Forge(id)
  <2> DEFINE hash == next_chain_hash(LastHash(Below(log, id)), "altered", was.created)
             row == [was EXCEPT !.content = "altered", !.chain = hash]
  <2>1. log' = [log EXCEPT ![id] = row]
    BY <1>5 DEF Forge, Update
  <2>2. hash \in Hashes
    <3>1. was.created \in Nat \X Nat /\ "altered" \in Contents
      BY <1>3, AuditAssumption DEF Rows, Contents
    <3> QED BY <3>1, BelowHashType, NextHashType
  <2>3. row \in Rows /\ row.created = was.created /\ row.chain = hash /\ row.content = "altered"
    <3> HIDE DEF hash
    <3> QED BY <1>3, <2>2 DEF Rows, Contents
  <2>4. Edits(id, row)
    <3> HIDE DEF row
    <3> QED BY <2>1, <2>3 DEF Edits
  <2> QED BY <1>2, <2>4
<1>6. CASE Relink(id)
  <2>1. PICK hash \in {Seed} \cup {log[i].chain : i \in DOMAIN log} :
          log' = [log EXCEPT ![id] = [was EXCEPT !.prev = hash]]
    BY <1>6 DEF Relink, Update
  <2> DEFINE row == [was EXCEPT !.prev = hash]
  <2>2. hash \in Hashes
    <3>1. Seed \in Hashes
      BY DEF Seed, Hashes
    <3>2. \A m \in DOMAIN log : log[m].chain \in Hashes
      BY DEF TypeInv, TypeOK, Rows
    <3> QED BY <3>1, <3>2
  <2>3. row \in Rows /\ row.created = was.created /\ row.chain = was.chain /\ row.content = was.content
    BY <1>3, <2>2 DEF Rows
  <2>4. Edits(id, row)
    BY <2>1, <2>3 DEF Edits
  <2> QED BY <1>2, <2>4
<1>7. CASE Remove(id)
  <2>1. Cuts(id)
    BY <1>7 DEF Remove, Cuts
  <2> QED BY <1>2, <2>1
<1> QED BY <1>1, <1>4, <1>5, <1>6, <1>7

LEMMA NextType == TypeInv /\ [Next]_vars => TypeInv'
<1> SUFFICES ASSUME TypeInv, [Next]_vars PROVE TypeInv'
  OBVIOUS
<1> USE AuditAssumption DEF TypeInv, TypeOK, appends, checks
<1>1. ASSUME UNCHANGED <<log, ids, clock, appends, written>>,
             vpc' \in [Verifiers -> VerifyStages], sealed' \in BOOLEAN
      PROVE  TypeInv'
  BY <1>1 DEF Flushing
<1>2. ASSUME NEW a \in Appenders, Admit(a) PROVE TypeInv'
  <2>1. Flushing' = Flushing
    BY <1>2 DEF Admit, Flushing
  <2>2. apc' \in [Appenders -> AppendStages]
    BY <1>2 DEF Admit, AppendStages
  <2> QED BY <1>2, <2>1, <2>2 DEF Admit
<1>3. ASSUME NEW a \in Appenders, ReadLast(a) PROVE TypeInv'
  <2>1. PICK row \in Rows : draft' = [draft EXCEPT ![a] = row]
    BY <1>3, ReadLastType
  <2>2. Flushing' = Flushing \cup {a} /\ a \notin Flushing
    BY <1>3 DEF ReadLast, Flushing
  <2>3. Cardinality(Flushing') = Cardinality(Flushing) + 1
    BY <2>2, FlushingFinite, FS_AddElement
  <2>4. apc' \in [Appenders -> AppendStages]
    BY <1>3 DEF ReadLast, AppendStages
  <2>5. clock' \in 0..MaxRows /\ ids' + Cardinality(Flushing') <= clock'
    BY <1>3, <2>3, FlushingFinite DEF ReadLast
  <2>6. \A b \in Appenders : apc'[b] \in {"flush", "commit"} => draft'[b] \in Rows
    BY <1>3, <2>1 DEF ReadLast
  <2>7. \A b \in Appenders : apc'[b] = "commit" => draftId'[b] \in 1..ids'
    BY <1>3 DEF ReadLast
  <2> QED BY <1>3, <2>1, <2>4, <2>5, <2>6, <2>7 DEF ReadLast
<1>4. ASSUME NEW a \in Appenders, Flush(a) PROVE TypeInv'
  <2>1. Flushing' = Flushing \ {a} /\ a \in Flushing
    BY <1>4 DEF Flush, Flushing
  <2>2. Cardinality(Flushing') = Cardinality(Flushing) - 1
    BY <2>1, FlushingFinite, FS_RemoveElement
  <2>3. Cardinality(Flushing') \in Nat
    BY FlushingFinite, FS_CardinalityType
  <2>4. ids' = ids + 1 /\ ids' \in 0..MaxRows
    BY <1>4, <2>2, <2>3, FlushingFinite DEF Flush, NextId
  <2>5. apc' \in [Appenders -> AppendStages] /\ draftId' \in [Appenders -> 0..MaxRows]
    BY <1>4, <2>4 DEF Flush, AppendStages
  <2>6. ids' + Cardinality(Flushing') <= clock'
    BY <1>4, <2>2, <2>4, FlushingFinite DEF Flush
  <2>7. \A b \in Appenders : apc'[b] = "commit" => draftId'[b] \in 1..ids'
    BY <1>4, <2>4 DEF Flush
  <2>8. \A b \in Appenders : apc'[b] \in {"flush", "commit"} => draft'[b] \in Rows
    BY <1>4 DEF Flush
  <2>9. DOMAIN written \subseteq 1..ids'
    BY <2>4
  <2> QED BY <1>4, <2>4, <2>5, <2>6, <2>7, <2>8, <2>9 DEF Flush
<1>5. ASSUME NEW a \in Appenders, EndAppend(a) PROVE TypeInv'
  <2>1. Flushing' = Flushing
    BY <1>5 DEF EndAppend, Flushing
  <2>2. /\ log' = [id \in DOMAIN log' |-> log'[id]]
        /\ written' = [id \in DOMAIN written' |-> written'[id]]
        /\ DOMAIN log' \subseteq DOMAIN written' /\ DOMAIN written' \subseteq 1..ids
        /\ \A id \in DOMAIN log' : log'[id] \in Rows
        /\ \A id \in DOMAIN written' : written'[id] \in Rows
    BY <1>5 DEF EndAppend, Store
  <2>3. apc' \in [Appenders -> AppendStages] /\ draftId' \in [Appenders -> 0..MaxRows]
    BY <1>5 DEF EndAppend, AppendStages
  <2>4. \A b \in Appenders : apc'[b] \in {"flush", "commit"} => apc[b] = apc'[b] /\ b # a
    BY <1>5 DEF EndAppend
  <2>5. /\ \A b \in Appenders : apc'[b] \in {"flush", "commit"} => draft'[b] \in Rows
        /\ \A b \in Appenders : apc'[b] = "commit" => draftId'[b] \in 1..ids'
    BY <1>5, <2>4 DEF EndAppend
  <2> QED BY <1>5, <2>1, <2>2, <2>3, <2>5 DEF EndAppend
<1>6. ASSUME NEW r \in Readers, AdmitReader(r) \/ Fetch(r) PROVE TypeInv'
  BY <1>6, <1>1 DEF AdmitReader, Fetch, Verifiers, VerifyStages
<1>7. CASE StartGuard
  BY <1>7, <1>1 DEF StartGuard, Verifiers, VerifyStages
<1>8. ASSUME NEW v \in Verifiers, Verify(v) PROVE TypeInv'
  BY <1>8, <1>1 DEF Verify, VerifyStages
<1>9. ASSUME NEW v \in Verifiers, AutoSeal(v) PROVE TypeInv'
  <2>1. sealed' \in BOOLEAN
    BY <1>9 DEF AutoSeal
  <2> QED BY <1>9, <2>1, <1>1 DEF AutoSeal, VerifyStages
<1>10. CASE Unseal \/ Seal
  BY <1>10, <1>1 DEF Unseal, Seal
<1>11. CASE Edit
  <2>1. PICK id \in DOMAIN log :
          /\ UNCHANGED <<ids, clock, appends, checks, sealed, written>>
          /\ Cuts(id) \/ \E row : Edits(id, row)
    BY <1>11, EditStep
  <2>2. /\ log' = [i \in DOMAIN log' |-> log'[i]]
        /\ DOMAIN log' \subseteq DOMAIN log
        /\ \A i \in DOMAIN log' : log'[i] \in Rows
    <3>1. CASE Cuts(id)
      BY <3>1 DEF Cuts, Restrict
    <3>2. ASSUME NEW row, Edits(id, row)
          PROVE  /\ log' = [i \in DOMAIN log' |-> log'[i]]
                 /\ DOMAIN log' \subseteq DOMAIN log
                 /\ \A i \in DOMAIN log' : log'[i] \in Rows
      BY <3>2 DEF Edits
    <3> QED BY <2>1, <3>1, <3>2
  <2>3. Flushing' = Flushing
    BY <2>1 DEF Flushing
  <2> QED BY <2>1, <2>2, <2>3
<1>12. CASE UNCHANGED vars
  BY <1>12, <1>1 DEF vars
<1> QED BY <1>2, <1>3, <1>4, <1>5, <1>6, <1>7, <1>8, <1>9, <1>10, <1>11, <1>12
        DEF Next, Service

LEMMA InitType == Init => TypeInv
<1> SUFFICES ASSUME Init PROVE TypeInv
  OBVIOUS
<1>1. Flushing = {}
  BY DEF Init, Flushing
<1>2. Cardinality(Flushing) = 0
  BY <1>1, FS_EmptySet
<1> QED BY <1>2, AuditAssumption
        DEF Init, TypeInv, TypeOK, NoRows, AppendStages, VerifyStages

(***************************************************************************)
(* Every state has its type; in particular the rows, whoever wrote them    *)
(* from whatever read, hold hashes, and no id lies beyond the sequence.    *)
(***************************************************************************)
THEOREM AuditTypeCorrect == Spec => []TypeOK
<1>1. TypeInv => TypeOK
  BY DEF TypeInv
<1> QED BY <1>1, InitType, NextType, PTL DEF Spec
-----------------------------------------------------------------------------
(* Every row is chained onto an earlier one. *)

(***************************************************************************)
(* ChainedOnEarlier follows a row from the SELECT that it is built on: the *)
(* row read there stays below the id that the INSERT draws later, for the  *)
(* ids of committed rows are not given out again.  The hash read is the    *)
(* one that row was written with, or a forged one, which then stays as it  *)
(* is: an edit that takes it away takes it from a row as it was written.   *)
(***************************************************************************)
Earlier(rows, was, prev, n) ==
    \/ prev = Seed
    \/ \E i \in DOMAIN was :
         /\ i < n
         /\ was[i].chain = prev \/ (i \in DOMAIN rows /\ rows[i].chain = prev)

ChainInv ==
    /\ \A id \in DOMAIN written : Earlier(log, written, written[id].prev, id)
    /\ \A a \in Appenders : apc[a] = "flush" => Earlier(log, written, draft[a].prev, ids + 1)
    /\ \A a \in Appenders : apc[a] = "commit" =>
         Earlier(log, written, draft[a].prev, draftId[a]) /\ draftId[a] \notin DOMAIN written
    /\ \A a, b \in Appenders :
         a # b /\ apc[a] = "commit" /\ apc[b] = "commit" => draftId[a] # draftId[b]

(* What a step may do to the table so that hashes read before stay good. *)
Kept ==
    /\ DOMAIN written \subseteq DOMAIN written'
    /\ \A i \in DOMAIN written : written'[i] = written[i]
    /\ \A i \in DOMAIN log :
         \/ log[i].chain = written[i].chain
         \/ i \in DOMAIN log' /\ log'[i].chain = log[i].chain

LEMMA EarlierKept ==
  ASSUME Kept, NEW prev, NEW n, Earlier(log, written, prev, n)
  PROVE  Earlier(log', written', prev, n)
<1>1. CASE prev = Seed
  BY <1>1 DEF Earlier
<1>2. ASSUME NEW i \in DOMAIN written, i < n, written[i].chain = prev
      PROVE  Earlier(log', written', prev, n)
  BY <1>2 DEF Kept, Earlier
<1>3. ASSUME NEW i \in DOMAIN written, i < n, i \in DOMAIN log, log[i].chain = prev
      PROVE  Earlier(log', written', prev, n)
  BY <1>2, <1>3 DEF Kept, Earlier
<1> QED BY <1>1, <1>2, <1>3 DEF Earlier

LEMMA NextChain == TypeInv /\ ChainInv /\ [Next]_vars => ChainInv'
<1> SUFFICES ASSUME TypeInv, ChainInv, [Next]_vars PROVE ChainInv'
  OBVIOUS
<1> USE DEF appends, checks
<1>0. DOMAIN log \subseteq DOMAIN written
  BY DEF TypeInv, TypeOK
<1>1. ASSUME UNCHANGED <<log, ids, appends, written>> PROVE ChainInv'
  BY <1>1 DEF ChainInv, Earlier
<1>2. ASSUME NEW a \in Appenders, Admit(a) PROVE ChainInv'
  <2>1. \A b \in Appenders : apc'[b] \in {"flush", "commit"} => apc[b] = apc'[b]
    BY <1>2 DEF Admit, TypeInv, TypeOK
  <2>2. UNCHANGED <<log, ids, draft, draftId, written>>
    BY <1>2 DEF Admit
  <2> QED BY <2>1, <2>2 DEF ChainInv, Earlier
<1>3. ASSUME NEW a \in Appenders, ReadLast(a) PROVE ChainInv'
  <2>1. PICK row \in Rows : draft' = [draft EXCEPT ![a] = row] /\ row.prev = LastHash(log)
    BY <1>3, ReadLastType
  <2>2. Earlier(log, written, LastHash(log), ids + 1)
    <3>1. CASE DOMAIN log = {}
      BY <3>1 DEF LastHash, Earlier
    <3>2. CASE DOMAIN log # {}
      <4>1. Max(DOMAIN log) \in DOMAIN log
        BY <3>2, LogIds, MaxOfIds
      <4>2. Max(DOMAIN log) < ids + 1
        BY <4>1, LogIds
      <4> QED BY <1>0, <3>2, <4>1, <4>2 DEF LastHash, Earlier
    <3> QED BY <3>1, <3>2
  <2>3. /\ apc' = [apc EXCEPT ![a] = "flush"]
        /\ UNCHANGED <<log, ids, draftId, written>>
    BY <1>3 DEF ReadLast
  <2>4. draft'[a].prev = LastHash(log) /\ \A b \in Appenders \ {a} : draft'[b] = draft[b]
    BY <2>1 DEF TypeInv
  <2>5. apc'[a] = "flush" /\ \A b \in Appenders \ {a} : apc'[b] = apc[b]
    BY <2>3 DEF TypeInv, TypeOK
  <2> QED BY <2>2, <2>3, <2>4, <2>5 DEF ChainInv, Earlier
<1>4. ASSUME NEW a \in Appenders, Flush(a) PROVE ChainInv'
  <2>1. /\ ids' = ids + 1 /\ apc[a] = "flush"
        /\ draftId'[a] = ids + 1 /\ \A b \in Appenders \ {a} : draftId'[b] = draftId[b]
        /\ apc'[a] = "commit" /\ \A b \in Appenders \ {a} : apc'[b] = apc[b]
        /\ UNCHANGED <<log, draft, written>>
    BY <1>4 DEF Flush, NextId, TypeInv, TypeOK
  <2>2. ids \in Nat /\ DOMAIN written \subseteq 1..ids
    BY LogIds
  <2>3. \A b \in Appenders : apc[b] = "commit" => draftId[b] \in 1..ids
    BY DEF TypeInv
  <2>4. ASSUME NEW prev, Earlier(log, written, prev, ids + 1)
        PROVE  Earlier(log, written, prev, ids + 2)
    <3>1. \A i \in DOMAIN written : i < ids + 2
      BY <2>2
    <3> QED BY <2>4, <3>1 DEF Earlier
  <2>5. \A b \in Appenders : apc'[b] = "flush" => Earlier(log, written, draft[b].prev, ids' + 1)
    BY <2>1, <2>2, <2>4 DEF ChainInv
  <2>6. Earlier(log, written, draft[a].prev, ids + 1) /\ ids + 1 \notin DOMAIN written
    BY <2>1, <2>2 DEF ChainInv
  <2>7. \A b \in Appenders \ {a} : apc[b] = "commit" => draftId[b] # ids + 1
    BY <2>2, <2>3
  <2> QED BY <2>1, <2>5, <2>6, <2>7 DEF ChainInv, Earlier
<1>5. ASSUME NEW a \in Appenders, EndAppend(a), UNCHANGED <<log, written>> PROVE ChainInv'
  <2>1. \A b \in Appenders : apc'[b] \in {"flush", "commit"} =>
          b # a /\ apc[b] = apc'[b] /\ draft'[b] = draft[b] /\ draftId'[b] = draftId[b]
    BY <1>5 DEF EndAppend, TypeInv, TypeOK
  <2>2. UNCHANGED <<log, ids, written>>
    BY <1>5 DEF EndAppend
  <2> QED BY <2>1, <2>2 DEF ChainInv, Earlier
<1>6. ASSUME NEW a \in Appenders, EndAppend(a),
             log' = Store(log, draftId[a], draft[a]),
             written' = Store(written, draftId[a], draft[a])
      PROVE  ChainInv'
  <2>1. \A b \in Appenders : apc'[b] \in {"flush", "commit"} =>
          b # a /\ apc[b] = apc'[b] /\ draft'[b] = draft[b] /\ draftId'[b] = draftId[b]
    BY <1>6 DEF EndAppend, TypeInv, TypeOK
  <2>2. ids' = ids /\ apc[a] = "commit"
    BY <1>6 DEF EndAppend
  <2>3. /\ DOMAIN written' = DOMAIN written \cup {draftId[a]}
        /\ written'[draftId[a]] = draft[a]
        /\ \A i \in DOMAIN written \ {draftId[a]} : written'[i] = written[i]
        /\ DOMAIN log \subseteq DOMAIN log'
        /\ \A i \in DOMAIN log \ {draftId[a]} : log'[i] = log[i]
    BY <1>6 DEF Store
  <2>4. draftId[a] \notin DOMAIN written /\ Earlier(log, written, draft[a].prev, draftId[a])
    BY <2>2 DEF ChainInv
  <2>5. Kept
    BY <1>0, <2>3, <2>4 DEF Kept
  <2>6. \A id \in DOMAIN written' : Earlier(log', written', written'[id].prev, id)
    <3> SUFFICES ASSUME NEW id \in DOMAIN written'
                 PROVE  Earlier(log', written', written'[id].prev, id)
      OBVIOUS
    <3>1. Earlier(log, written, written'[id].prev, id)
      BY <2>3, <2>4 DEF ChainInv
    <3> QED BY <3>1, <2>5, EarlierKept
  <2>7. \A b \in Appenders : apc'[b] = "flush" => Earlier(log', written', draft'[b].prev, ids' + 1)
    <3> SUFFICES ASSUME NEW b \in Appenders, apc'[b] = "flush"
                 PROVE  Earlier(log', written', draft'[b].prev, ids' + 1)
      OBVIOUS
    <3>1. Earlier(log, written, draft'[b].prev, ids' + 1)
      BY <2>1, <2>2 DEF ChainInv
    <3> QED BY <3>1, <2>5, EarlierKept
  <2>8. \A b \in Appenders : apc'[b] = "commit" =>
          Earlier(log', written', draft'[b].prev, draftId'[b]) /\ draftId'[b] \notin DOMAIN written'
    <3> SUFFICES ASSUME NEW b \in Appenders, apc'[b] = "commit"
                 PROVE  /\ Earlier(log', written', draft'[b].prev, draftId'[b])
                        /\ draftId'[b] \notin DOMAIN written'
      OBVIOUS
    <3>1. /\ Earlier(log, written, draft'[b].prev, draftId'[b])
          /\ draftId[b] \notin DOMAIN written /\ draftId[b] # draftId[a]
      BY <2>1, <2>2 DEF ChainInv
    <3>2. draftId'[b] \notin DOMAIN written'
      BY <2>1, <2>3, <3>1
    <3> QED BY <3>1, <3>2, <2>5, EarlierKept
  <2>9. \A b, c \in Appenders :
          b # c /\ apc'[b] = "commit" /\ apc'[c] = "commit" => draftId'[b] # draftId'[c]
    BY <2>1 DEF ChainInv
  <2> QED BY <2>6, <2>7, <2>8, <2>9 DEF ChainInv
<1>7. CASE Edit
  <2>1. PICK id \in DOMAIN log :
          /\ log[id] = written[id]
          /\ UNCHANGED <<ids, clock, appends, checks, sealed, written>>
          /\ Cuts(id) \/ \E row : Edits(id, row)
    BY <1>7, EditStep
  <2>2. \A i \in DOMAIN log \ {id} : i \in DOMAIN log' /\ log'[i] = log[i]
    BY <2>1 DEF Cuts, Edits, Restrict
  <2>3. Kept
    BY <2>1, <2>2 DEF Kept
  <2>4. ASSUME NEW prev, NEW n, Earlier(log, written, prev, n)
        PROVE  Earlier(log', written', prev, n)
    BY <2>3, <2>4, EarlierKept
  <2> QED BY <2>1, <2>4 DEF ChainInv
<1>8. ASSUME NEW r \in Readers, AdmitReader(r) \/ Fetch(r) PROVE ChainInv'
  BY <1>8, <1>1 DEF AdmitReader, Fetch
<1>9. ASSUME NEW v \in Verifiers, Verify(v) \/ AutoSeal(v) PROVE ChainInv'
  BY <1>9, <1>1 DEF Verify, AutoSeal
<1>10. CASE StartGuard \/ Unseal \/ Seal \/ UNCHANGED vars
  BY <1>10, <1>1 DEF StartGuard, Unseal, Seal, vars
<1> QED BY <1>2, <1>3, <1>4, <1>5, <1>6, <1>7, <1>8, <1>9, <1>10
        DEF Next, Service, EndAppend

(***************************************************************************)
(* Every committed row was chained onto the seed or onto a row with a      *)
(* smaller id, however many appends overlap and in whatever order they     *)
(* commit, and whatever is done to the table meanwhile.                    *)
(***************************************************************************)
THEOREM RowsChainedOnEarlier == Spec => []ChainedOnEarlier
<1>1. Init => ChainInv
  BY DEF Init, ChainInv, NoRows
<1>2. ChainInv => ChainedOnEarlier
  BY DEF ChainInv, Earlier, ChainedOnEarlier
<1> QED BY <1>1, <1>2, InitType, NextType, NextChain, PTL DEF Spec
=============================================================================
