------------------------- MODULE AuditVerdictProofs -------------------------
(***************************************************************************)
(* Theorems about what a verification of the audit log may conclude: what  *)
(* "intact" promises, what an alarm means, and that a broken chain is      *)
(* never healed by the service itself.                                     *)
(***************************************************************************)
EXTENDS AuditChainProofs

-----------------------------------------------------------------------------
(* The row before a row. *)

(***************************************************************************)
(* A nonempty set of ids has a least one: the greatest, seen from above.   *)
(***************************************************************************)
LEMMA LeastOfIds == ASSUME NEW n \in Nat, NEW S \in SUBSET (1..n), S # {}
                    PROVE  \E m \in S : \A y \in S : m <= y
<1> DEFINE T == {n + 1 - x : x \in S}
<1>1. T \in SUBSET (1..n) /\ T # {}
  <2>1. \A x \in S : n + 1 - x \in 1..n
    OBVIOUS
  <2>2. T \subseteq 1..n
    BY <2>1
  <2>3. PICK x \in S : TRUE
    OBVIOUS
  <2>4. n + 1 - x \in T
    BY <2>3
  <2> QED BY <2>2, <2>4
<1>2. Max(T) \in T /\ \A z \in T : z <= Max(T)
  <2> HIDE DEF T
  <2> QED BY <1>1, MaxOfIds
<1>3. PICK m \in S : Max(T) = n + 1 - m
  BY <1>2
<1>4. \A y \in S : n + 1 - y <= n + 1 - m
  BY <1>2, <1>3
<1>5. \A y \in S : m <= y
  BY <1>4
<1> QED BY <1>5

-----------------------------------------------------------------------------
(* The parts of a hash. *)

Payloads == Contents \X (Nat \X Nat)

(* What was hashed last, on top of the row's base: its content and instant. *)
Stamp(row) == row.chain[Len(row.chain)]

LEMMA AppendParts ==
  ASSUME NEW p \in Hashes, NEW e \in Payloads, NEW hash, hash = Append(p, e)
  PROVE  /\ hash \in Hashes /\ hash # Seed
         /\ Len(hash) \in Nat \ {0} /\ Len(p) = Len(hash) - 1
         /\ hash[Len(hash)] = e
         /\ \A i \in 1..Len(p) : hash[i] = p[i]
         /\ SubSeq(hash, 1, Len(hash) - 1) = p
<1>1. p \in Seq(Payloads) /\ Len(p) \in Nat
  BY LenProperties DEF Hashes, Payloads
<1>2. /\ hash \in Seq(Payloads) /\ hash # <<>> /\ Len(hash) = Len(p) + 1
      /\ \A i \in 1..Len(p) : hash[i] = p[i]
      /\ hash[Len(p) + 1] = e
  BY <1>1, AppendProperties
<1> DEFINE front == SubSeq(hash, 1, Len(p))
<1>3. \A i \in 1..Len(p) : p[i] \in Payloads
  BY <1>1, ElementOfSeq
<1>4. \A i \in 1..Len(p) : hash[i] \in Payloads
  BY <1>2, <1>3
<1>5. /\ front \in Seq(Payloads)
      /\ Len(front) = IF 1 <= Len(p) THEN Len(p) - 1 + 1 ELSE 0
      /\ \A i \in 1..(Len(p) - 1 + 1) : front[i] = hash[1 + i - 1]
  <2>1. 1 \in Int /\ Len(p) \in Int
    BY <1>1
  <2> QED BY <1>4, <2>1, SubSeqProperties
<1>6. Len(front) = Len(p) /\ \A i \in 1..Len(front) : front[i] = p[i]
  <2> HIDE DEF front
  <2>1. Len(front) = Len(p)
    BY <1>1, <1>5
  <2>2. \A i \in 1..Len(p) : front[i] = hash[i]
    BY <1>1, <1>5
  <2> QED BY <1>2, <2>1, <2>2
<1>7. front = p
  <2> HIDE DEF front
  <2> QED BY <1>1, <1>5, <1>6, SeqEqual
<1>8. Len(hash) - 1 = Len(p)
  BY <1>1, <1>2
<1> QED BY <1>1, <1>2, <1>7, <1>8 DEF Hashes, Payloads, Seed

(***************************************************************************)
(* A hash that is not the seed is its front with its last payload on top.  *)
(***************************************************************************)
LEMMA HashParts ==
  ASSUME NEW row, row.chain \in Hashes, row.chain # Seed
  PROVE  /\ Len(row.chain) \in Nat \ {0}
         /\ Base(row) \in Hashes /\ Stamp(row) \in Payloads
         /\ Len(Base(row)) = Len(row.chain) - 1
         /\ row.chain = Append(Base(row), Stamp(row))
         /\ \A i \in 1..Len(Base(row)) : row.chain[i] = Base(row)[i]
<1>1. row.chain \in Seq(Payloads) /\ row.chain # <<>>
  BY DEF Hashes, Payloads, Seed
<1>2. PICK p \in Seq(Payloads), e \in Payloads : row.chain = Append(p, e)
  BY <1>1, SequenceEmptyOrAppend
<1>3. p \in Hashes
  BY DEF Hashes, Payloads
<1>4. /\ row.chain \in Hashes /\ row.chain # Seed
      /\ Len(row.chain) \in Nat \ {0} /\ Len(p) = Len(row.chain) - 1
      /\ row.chain[Len(row.chain)] = e
      /\ \A i \in 1..Len(p) : row.chain[i] = p[i]
      /\ SubSeq(row.chain, 1, Len(row.chain) - 1) = p
  BY <1>2, <1>3, AppendParts
<1> QED BY <1>2, <1>3, <1>4 DEF Base, Stamp

(***************************************************************************)
(* Two rows have one chain hash only if every hashed field agrees.         *)
(***************************************************************************)
LEMMA NextHashParts ==
  ASSUME NEW row, NEW p \in Hashes, NEW content \in Contents, NEW instant \in Nat \X Nat,
         row.chain = next_chain_hash(p, content, instant)
  PROVE  /\ row.chain \in Hashes /\ row.chain # Seed
         /\ Base(row) = p /\ Stamp(row) = <<content, instant>>
<1>1. <<content, instant>> \in Payloads
  BY DEF Payloads
<1>2. row.chain = Append(p, <<content, instant>>)
  BY DEF next_chain_hash
<1>3. /\ row.chain \in Hashes /\ row.chain # Seed
      /\ Len(row.chain) \in Nat \ {0} /\ Len(p) = Len(row.chain) - 1
      /\ row.chain[Len(row.chain)] = <<content, instant>>
      /\ \A i \in 1..Len(p) : row.chain[i] = p[i]
      /\ SubSeq(row.chain, 1, Len(row.chain) - 1) = p
  BY <1>1, <1>2, AppendParts
<1> QED BY <1>3 DEF Base, Stamp

-----------------------------------------------------------------------------
(* When a row verifies. *)

(* A row's hash is the one append_audit_log gave it, whatever it says now. *)
HashedAsWritten(row) ==
    row.chain = next_chain_hash(row.prev, "written", <<row.created[1], 0>>)

(***************************************************************************)
(* A stored row verifies exactly when its hash was made from the hash of   *)
(* the row before it and from the fields it has now.                       *)
(***************************************************************************)
LEMMA RowMatchesIff ==
  ASSUME NEW rows, NEW id \in DOMAIN rows, rows[id] \in Rows, rows[id].chain # Seed,
         LastHash(Below(rows, id)) \in Hashes
  PROVE  Matches(rows, id) <=>
           /\ Base(rows[id]) = LastHash(Below(rows, id))
           /\ Stamp(rows[id]) = <<rows[id].content, rows[id].created>>
<1> DEFINE row == rows[id]
           base == LastHash(Below(rows, id))
<1>1. row.chain \in Hashes /\ row.content \in Contents /\ row.created \in Nat \X Nat
  BY AuditAssumption DEF Rows
<1>2. row.chain = Append(Base(row), Stamp(row))
  BY <1>1, HashParts
<1>3. row.chain = next_chain_hash(base, row.content, row.created)
        => Base(row) = base /\ Stamp(row) = <<row.content, row.created>>
  BY <1>1, NextHashParts
<1>4. Base(row) = base /\ Stamp(row) = <<row.content, row.created>>
        => row.chain = next_chain_hash(base, row.content, row.created)
  BY <1>2 DEF next_chain_hash
<1> QED BY <1>3, <1>4 DEF Matches

LEMMA AsWrittenParts ==
  ASSUME NEW row \in Rows, HashedAsWritten(row)
  PROVE  /\ row.chain # Seed /\ Base(row) = row.prev
         /\ Stamp(row) = <<"written", <<row.created[1], 0>>>>
<1>1. row.prev \in Hashes /\ "written" \in Contents /\ <<row.created[1], 0>> \in Nat \X Nat
  BY DEF Rows, Contents
<1> QED BY <1>1, NextHashParts DEF HashedAsWritten

(***************************************************************************)
(* A row with the hash it was written with verifies exactly when its       *)
(* content is what was written, one instant was hashed and stored, and the *)
(* row before it is the one that it was chained onto.                      *)
(***************************************************************************)
THEOREM RowVerifiesIff ==
  ASSUME NEW rows, NEW id \in DOMAIN rows, rows[id] \in Rows,
         HashedAsWritten(rows[id]), LastHash(Below(rows, id)) \in Hashes
  PROVE  Matches(rows, id) <=>
           /\ rows[id].prev = LastHash(Below(rows, id))
           /\ rows[id].content = "written"
           /\ rows[id].created[2] = 0
<1> DEFINE row == rows[id]
<1>1. row.created \in Nat \X Nat
  BY AuditAssumption DEF Rows
<1>2. /\ row.chain # Seed /\ Base(row) = row.prev
      /\ Stamp(row) = <<"written", <<row.created[1], 0>>>>
  BY AsWrittenParts
<1>3. Stamp(row) = <<row.content, row.created>> <=> row.content = "written" /\ row.created[2] = 0
  BY <1>1, <1>2
<1> QED BY <1>2, <1>3, RowMatchesIff

-----------------------------------------------------------------------------
(* What holds of any table of rows that have a hash. *)

Table(rows, n) ==
    /\ DOMAIN rows \subseteq 1..n
    /\ \A i \in DOMAIN rows : rows[i] \in Rows /\ rows[i].chain # Seed

(***************************************************************************)
(* The hash that a row is verified against, for a known neighbour.         *)
(***************************************************************************)
LEMMA BelowIs ==
  ASSUME NEW n \in Nat, NEW rows, Table(rows, n), NEW id \in DOMAIN rows
  PROVE  /\ First(rows, id) => LastHash(Below(rows, id)) = Seed
         /\ \A m \in DOMAIN rows :
              Precedes(rows, m, id) => LastHash(Below(rows, id)) = rows[m].chain
         /\ First(rows, id) \/ \E m \in DOMAIN rows : Precedes(rows, m, id)
         /\ LastHash(Below(rows, id)) \in Hashes
<1>1. DOMAIN rows \subseteq 1..n /\ id \in 1..n /\ \A i \in DOMAIN rows : rows[i] \in Rows
  BY DEF Table
<1>2. \/ First(rows, id) /\ LastHash(Below(rows, id)) = Seed
      \/ \E m \in DOMAIN rows :
           Precedes(rows, m, id) /\ LastHash(Below(rows, id)) = rows[m].chain
  BY <1>1, LastBelow
<1>3. \A m \in DOMAIN rows : Precedes(rows, m, id) => ~First(rows, id)
  BY DEF Precedes, First
<1>4. \A m, k \in DOMAIN rows : Precedes(rows, m, id) /\ Precedes(rows, k, id) => m = k
  <2> SUFFICES ASSUME NEW m \in DOMAIN rows, NEW k \in DOMAIN rows,
                      Precedes(rows, m, id), Precedes(rows, k, id)
               PROVE  m = k
    OBVIOUS
  <2>1. m \in Nat /\ k \in Nat /\ m <= k /\ k <= m
    BY <1>1 DEF Precedes
  <2> QED BY <2>1
<1>5. LastHash(Below(rows, id)) \in Hashes
  <2>1. Seed \in Hashes
    BY DEF Seed, Hashes
  <2>2. \A m \in DOMAIN rows : rows[m].chain \in Hashes
    BY <1>1 DEF Rows
  <2> QED BY <1>2, <2>1, <2>2
<1> QED BY <1>2, <1>3, <1>4, <1>5

LEMMA TableVerifiesIff ==
  ASSUME NEW n \in Nat, NEW rows, Table(rows, n), NEW id \in DOMAIN rows
  PROVE  Matches(rows, id) <=>
           /\ Base(rows[id]) = LastHash(Below(rows, id))
           /\ Stamp(rows[id]) = <<rows[id].content, rows[id].created>>
BY BelowIs, RowMatchesIff DEF Table

(***************************************************************************)
(* In a table that verifies every row counts the rows below it: the hash   *)
(* that its own was made from has one payload for each.                    *)
(***************************************************************************)
LEMMA VerifiedCounts ==
  ASSUME NEW n \in Nat, NEW rows, Table(rows, n), verify_audit_chain(rows)
  PROVE  \A id \in DOMAIN rows :
           Len(Base(rows[id])) = Cardinality({i \in DOMAIN rows : i < id})
<1> DEFINE Before(id) == {i \in DOMAIN rows : i < id}
           Bad == {id \in DOMAIN rows : Len(Base(rows[id])) # Cardinality(Before(id))}
<1>1. DOMAIN rows \subseteq 1..n
  BY DEF Table
<1>2. \A id \in DOMAIN rows : Base(rows[id]) = LastHash(Below(rows, id))
  BY TableVerifiesIff DEF verify_audit_chain
<1> SUFFICES ASSUME Bad # {} PROVE FALSE
  OBVIOUS
<1>3. PICK m \in Bad : \A y \in Bad : m <= y
  <2>1. Bad \in SUBSET (1..n)
    BY <1>1
  <2> HIDE DEF Bad
  <2> QED BY <2>1, LeastOfIds
<1>4. m \in DOMAIN rows /\ Len(Base(rows[m])) # Cardinality(Before(m))
  OBVIOUS
<1>5. CASE First(rows, m)
  <2>1. Before(m) = {}
    BY <1>5 DEF First
  <2>2. Cardinality(Before(m)) = 0
    BY <2>1, FS_EmptySet
  <2>3. Base(rows[m]) = <<>>
    BY <1>2, <1>4, <1>5, BelowIs DEF Seed
  <2> QED BY <1>4, <2>2, <2>3
<1>6. ASSUME NEW k \in DOMAIN rows, Precedes(rows, k, m) PROVE FALSE
  <2>1. Base(rows[m]) = rows[k].chain
    BY <1>2, <1>4, <1>6, BelowIs
  <2>2. k \in Nat /\ m \in Nat /\ k < m
    BY <1>1, <1>4, <1>6 DEF Precedes
  <2>3. Before(m) = Before(k) \cup {k} /\ k \notin Before(k)
    <3>1. \A i \in DOMAIN rows : i < m <=> i < k \/ i = k
      <4> SUFFICES ASSUME NEW i \in DOMAIN rows PROVE i < m <=> i < k \/ i = k
        OBVIOUS
      <4>1. i \in Nat /\ (i < m => i <= k)
        BY <1>1, <1>6 DEF Precedes
      <4> QED BY <2>2, <4>1
    <3> QED BY <2>2, <3>1
  <2>4. IsFiniteSet(Before(k))
    <3>1. Before(k) \in SUBSET (1..n) /\ IsFiniteSet(1..n)
      BY <1>1, FS_Interval
    <3> QED BY <3>1, FS_Subset
  <2>5. Cardinality(Before(m)) = Cardinality(Before(k)) + 1
    <3> HIDE DEF Before
    <3> QED BY <2>3, <2>4, FS_AddElement
  <2>6. Len(Base(rows[k])) = Cardinality(Before(k))
    <3>1. ~(m <= k)
      BY <2>2
    <3>2. k \notin Bad
      <4> HIDE DEF Bad
      <4> QED BY <1>3, <3>1
    <3> QED BY <3>2
  <2>7. Len(rows[k].chain) = Len(Base(rows[k])) + 1 /\ Len(rows[k].chain) \in Nat
    <3>1. rows[k].chain \in Hashes /\ rows[k].chain # Seed
      BY DEF Table, Rows
    <3> QED BY <3>1, HashParts
  <2> QED BY <1>4, <2>1, <2>5, <2>6, <2>7
<1> QED BY <1>4, <1>5, <1>6, BelowIs

(***************************************************************************)
(* Two rows that extend one hash would count the same rows below them, so  *)
(* one of them does not verify.                                            *)
(***************************************************************************)
LEMMA ForkUnverified ==
  ASSUME NEW n \in Nat, NEW rows, Table(rows, n), Forked(rows)
  PROVE  ~verify_audit_chain(rows)
<1> SUFFICES ASSUME verify_audit_chain(rows) PROVE FALSE
  OBVIOUS
<1>1. DOMAIN rows \subseteq 1..n
  BY DEF Table
<1>2. PICK i, j \in DOMAIN rows : i < j /\ Base(rows[i]) = Base(rows[j])
  <2>1. PICK i, j \in DOMAIN rows : i # j /\ Base(rows[i]) = Base(rows[j])
    BY DEF Forked
  <2>2. i < j \/ j < i
    BY <1>1, <2>1
  <2> QED BY <2>1, <2>2
<1> DEFINE A == {k \in DOMAIN rows : k < i}
           B == {k \in DOMAIN rows : k < j}
<1>3. Cardinality(A) = Cardinality(B)
  BY <1>2, VerifiedCounts
<1>4. A \subseteq B /\ i \in B /\ i \notin A
  <2>1. i \in Nat /\ j \in Nat /\ \A k \in DOMAIN rows : k \in Nat
    BY <1>1
  <2> QED BY <1>2, <2>1
<1>5. IsFiniteSet(B)
  <2>1. B \in SUBSET (1..n) /\ IsFiniteSet(1..n)
    BY <1>1, FS_Interval
  <2> QED BY <2>1, FS_Subset
<1>6. A = B
  <2> HIDE DEF A, B
  <2> QED BY <1>3, <1>4, <1>5, FS_Subset
<1> QED BY <1>4, <1>6

(***************************************************************************)
(* Take the first row that does not verify, in a table whose rows say what *)
(* was hashed and when.  It extends an earlier row's hash, or the seed,    *)
(* and does not stand next to that row; the row after that one verifies,   *)
(* so both extend the same hash.                                           *)
(***************************************************************************)
LEMMA UnverifiedForks ==
  ASSUME NEW n \in Nat, NEW rows, Table(rows, n), ~verify_audit_chain(rows),
         \A id \in DOMAIN rows : Earlier(rows, rows, Base(rows[id]), id),
         \A id \in DOMAIN rows : Stamp(rows[id]) = <<rows[id].content, rows[id].created>>
  PROVE  Forked(rows)
<1> DEFINE Bad == {id \in DOMAIN rows : ~Matches(rows, id)}
<1>1. DOMAIN rows \subseteq 1..n
  BY DEF Table
<1>2. \A id \in DOMAIN rows : Matches(rows, id) <=> Base(rows[id]) = LastHash(Below(rows, id))
  BY TableVerifiesIff
<1>3. PICK m \in Bad : \A y \in Bad : m <= y
  <2>1. Bad \in SUBSET (1..n)
    BY <1>1
  <2>2. Bad # {}
    BY DEF verify_audit_chain
  <2> HIDE DEF Bad
  <2> QED BY <2>1, <2>2, LeastOfIds
<1>4. /\ m \in DOMAIN rows /\ m \in Nat
      /\ Base(rows[m]) # LastHash(Below(rows, m))
  BY <1>1, <1>2
<1>5. ASSUME NEW j \in DOMAIN rows, j < m
      PROVE  j # m /\ Base(rows[j]) = LastHash(Below(rows, j))
  <2>1. j \in Nat /\ ~(m <= j) /\ j # m
    BY <1>1, <1>4, <1>5
  <2>2. j \notin Bad
    <3> HIDE DEF Bad
    <3> QED BY <1>3, <2>1
  <2> QED BY <1>2, <2>1, <2>2
<1>6. CASE Base(rows[m]) = Seed
  <2> DEFINE Before == {i \in DOMAIN rows : i < m}
  <2>1. Before # {}
    <3>1. ~First(rows, m)
      BY <1>4, <1>6, BelowIs
    <3> QED BY <3>1 DEF First
  <2>2. PICK f \in Before : \A y \in Before : f <= y
    <3>1. Before \in SUBSET (1..n)
      BY <1>1
    <3> HIDE DEF Before
    <3> QED BY <2>1, <3>1, LeastOfIds
  <2>3. First(rows, f)
    <3> SUFFICES ASSUME NEW i \in DOMAIN rows, i < f PROVE FALSE
      BY DEF First
    <3>1. i \in Nat /\ f \in Nat /\ f < m
      BY <1>1, <2>2
    <3>2. i < m /\ ~(f <= i)
      BY <1>4, <3>1
    <3> QED BY <2>2, <3>2
  <2>4. f \in DOMAIN rows /\ f < m
    BY <2>2
  <2>5. Base(rows[f]) = Seed /\ f # m
    BY <1>5, <2>3, <2>4, BelowIs
  <2> QED BY <1>4, <1>6, <2>4, <2>5 DEF Forked
<1>7. ASSUME NEW i \in DOMAIN rows, i < m, rows[i].chain = Base(rows[m]) PROVE Forked(rows)
  <2> DEFINE After == {j \in DOMAIN rows : i < j /\ j < m}
  <2>1. i \in Nat
    BY <1>1
  <2>2. After # {}
    <3> SUFFICES ASSUME After = {} PROVE Precedes(rows, i, m)
      BY <1>4, <1>7, BelowIs
    <3>1. \A j \in DOMAIN rows : j \in Nat /\ (j < m => ~(i < j))
      BY <1>1
    <3>2. \A j \in DOMAIN rows : j < m => j <= i
      BY <2>1, <3>1
    <3> QED BY <1>7, <3>2 DEF Precedes
  <2>3. PICK j \in After : \A y \in After : j <= y
    <3>1. After \in SUBSET (1..n)
      BY <1>1
    <3> HIDE DEF After
    <3> QED BY <2>2, <3>1, LeastOfIds
  <2>4. j \in DOMAIN rows /\ j \in Nat /\ i < j /\ j < m
    BY <1>1, <2>3
  <2>5. Precedes(rows, i, j)
    <3> SUFFICES ASSUME NEW k \in DOMAIN rows, k < j PROVE k <= i
      BY <2>4 DEF Precedes
    <3>1. k \in Nat /\ k < m /\ ~(j <= k)
      BY <1>1, <1>4, <2>4
    <3>2. k \notin After
      <4> HIDE DEF After
      <4> QED BY <2>3, <3>1
    <3>3. ~(i < k)
      BY <3>1, <3>2
    <3> QED BY <2>1, <3>1, <3>3
  <2>6. Base(rows[j]) = Base(rows[m]) /\ j # m
    BY <1>5, <1>7, <2>4, <2>5, BelowIs
  <2> QED BY <1>4, <2>4, <2>6 DEF Forked
<1>8. Earlier(rows, rows, Base(rows[m]), m)
  BY <1>4
<1> QED BY <1>6, <1>7, <1>8 DEF Earlier

-----------------------------------------------------------------------------
(* What a step does to the table and to the rows about to join it. *)

(* The appenders that have built a row and not yet committed it. *)
Pending == {a \in Appenders : apc[a] \in {"flush", "commit"}}

(* Rows that were pending may have moved on or been given up. *)
FewerPending ==
    \A a \in Appenders : a \in Pending' => a \in Pending /\ draft'[a] = draft[a]

(* A row says what append_audit_log was asked to write. *)
AsBuilt(row) == row.content = "written" /\ HashedAsWritten(row)

Draws(a) ==
    /\ UNCHANGED <<log, written>> /\ clock' = clock + 1
    /\ draft'[a] \in Rows /\ AsBuilt(draft'[a])
    /\ draft'[a].prev = LastHash(log) /\ draft'[a].created[1] = clock + 1
    /\ a \notin Pending
    /\ \A b \in Appenders : b \in Pending' /\ b # a => b \in Pending /\ draft'[b] = draft[b]

Inserts(a) ==
    /\ UNCHANGED clock
    /\ a \in Pending /\ a \notin Pending' /\ FewerPending
    /\ draftId[a] \in 1..ids /\ draftId[a] \notin DOMAIN written
    /\ DOMAIN log' = DOMAIN log \cup {draftId[a]}
    /\ log'[draftId[a]] = draft[a]
    /\ \A i \in DOMAIN log : log'[i] = log[i]
    /\ DOMAIN written' = DOMAIN written \cup {draftId[a]}
    /\ written'[draftId[a]] = draft[a]
    /\ \A i \in DOMAIN written : written'[i] = written[i]

Tampers ==
    /\ UNCHANGED <<clock, draft, apc, written>>
    /\ DOMAIN log' \subseteq DOMAIN log
    /\ \A i \in DOMAIN log' :
         log'[i] = log[i] \/ (log[i] = written[i] /\ Edits(i, log'[i]))

LEMMA InsertStep ==
  ASSUME TypeInv, ChainInv, NEW a \in Appenders, EndAppend(a), ~ UNCHANGED <<log, written>>
  PROVE  Inserts(a)
<1>1. /\ log' = Store(log, draftId[a], draft[a])
      /\ written' = Store(written, draftId[a], draft[a])
      /\ apc[a] = "commit"
  BY DEF EndAppend
<1>2. draftId[a] \in 1..ids /\ draftId[a] \notin DOMAIN written
  BY <1>1 DEF TypeInv, ChainInv
<1>3. DOMAIN log \subseteq DOMAIN written
  BY DEF TypeInv, TypeOK
<1>4. /\ DOMAIN log' = DOMAIN log \cup {draftId[a]}
      /\ log'[draftId[a]] = draft[a]
      /\ \A i \in DOMAIN log : log'[i] = log[i]
  BY <1>1, <1>2, <1>3 DEF Store
<1>5. /\ DOMAIN written' = DOMAIN written \cup {draftId[a]}
      /\ written'[draftId[a]] = draft[a]
      /\ \A i \in DOMAIN written : written'[i] = written[i]
  BY <1>1, <1>2 DEF Store
<1>6. a \in Pending /\ a \notin Pending' /\ FewerPending
  BY <1>1 DEF EndAppend, Pending, FewerPending, TypeInv, TypeOK
<1> QED BY <1>2, <1>4, <1>5, <1>6 DEF EndAppend, Inserts

LEMMA DrawStep ==
  ASSUME TypeInv, NEW a \in Appenders, ReadLast(a)
  PROVE  Draws(a)
<1>1. PICK row \in Rows :
        /\ draft' = [draft EXCEPT ![a] = row]
        /\ row.prev = LastHash(log) /\ row.created[1] = clock' /\ row.content = "written"
        /\ row.chain = next_chain_hash(row.prev, "written", <<row.created[1], 0>>)
  BY ReadLastType
<1>2. draft'[a] = row /\ \A b \in Appenders \ {a} : draft'[b] = draft[b]
  BY <1>1 DEF TypeInv
<1>3. a \notin Pending /\ \A b \in Appenders \ {a} : b \in Pending' => b \in Pending
  BY DEF ReadLast, Pending, TypeInv, TypeOK
<1> QED BY <1>1, <1>2, <1>3 DEF ReadLast, Draws, HashedAsWritten, AsBuilt

LEMMA TamperStep ==
  ASSUME TypeInv, Edit
  PROVE  Tampers
<1>1. PICK id \in DOMAIN log :
        /\ log[id] = written[id]
        /\ UNCHANGED <<ids, clock, appends, checks, sealed, written>>
        /\ Cuts(id) \/ \E row : Edits(id, row)
  BY EditStep
<1>2. CASE Cuts(id)
  BY <1>1, <1>2 DEF Cuts, Restrict, Tampers, appends
<1>3. ASSUME NEW row, Edits(id, row) PROVE Tampers
  <2>1. DOMAIN log' = DOMAIN log /\ log'[id] = row /\ \A i \in DOMAIN log \ {id} : log'[i] = log[i]
    BY <1>3 DEF Edits
  <2>2. Edits(id, log'[id])
    BY <1>3, <2>1
  <2> QED BY <1>1, <2>1, <2>2 DEF Tampers, appends
<1> QED BY <1>1, <1>2, <1>3

LEMMA StepKinds ==
  ASSUME TypeInv, ChainInv, [Next]_vars
  PROVE  \/ UNCHANGED <<log, written, clock>> /\ FewerPending
         \/ \E a \in Appenders : Draws(a) \/ Inserts(a)
         \/ Tampers
<1> USE DEF Pending, FewerPending, appends, checks
<1>1. ASSUME NEW a \in Appenders, Admit(a)
      PROVE  UNCHANGED <<log, written, clock>> /\ FewerPending
  BY <1>1 DEF Admit, TypeInv, TypeOK
<1>2. ASSUME NEW a \in Appenders, Flush(a)
      PROVE  UNCHANGED <<log, written, clock>> /\ FewerPending
  BY <1>2 DEF Flush, TypeInv, TypeOK
<1>3. ASSUME NEW a \in Appenders, EndAppend(a), UNCHANGED <<log, written>>
      PROVE  UNCHANGED <<log, written, clock>> /\ FewerPending
  BY <1>3 DEF EndAppend, TypeInv, TypeOK
<1>4. ASSUME UNCHANGED <<log, clock, appends, written>>
      PROVE  UNCHANGED <<log, written, clock>> /\ FewerPending
  BY <1>4
<1>5. ASSUME NEW r \in Readers, AdmitReader(r) \/ Fetch(r)
      PROVE  UNCHANGED <<log, clock, appends, written>>
  BY <1>5 DEF AdmitReader, Fetch
<1>6. ASSUME NEW v \in Verifiers, Verify(v) \/ AutoSeal(v)
      PROVE  UNCHANGED <<log, clock, appends, written>>
  BY <1>6 DEF Verify, AutoSeal
<1>7. ASSUME StartGuard \/ Unseal \/ Seal \/ UNCHANGED vars
      PROVE  UNCHANGED <<log, clock, appends, written>>
  BY <1>7 DEF StartGuard, Unseal, Seal, vars
<1> HIDE DEF Pending, FewerPending, appends, checks
<1> QED BY <1>1, <1>2, <1>3, <1>4, <1>5, <1>6, <1>7, DrawStep, InsertStep, TamperStep
        DEF Next, Service

-----------------------------------------------------------------------------
(* The hashes in existence. *)

(* The instant of the newest append that a hash contains. *)
Dated(hash) == IF hash = Seed THEN 0 ELSE hash[Len(hash)][2][1]

(***************************************************************************)
(* Whatever is done to a row behind the service's back, it says when it    *)
(* was written, its hash ends in that instant, and if it still says what   *)
(* was written it has the hash it was written with.                        *)
(***************************************************************************)
Copies(row, was) ==
    /\ row \in Rows /\ row.created = was.created
    /\ row.chain # Seed /\ Dated(row.chain) = was.created[1]
    /\ row.content = "written" => row.chain = was.chain

HashInv ==
    /\ \A a \in Pending : AsBuilt(draft[a])
    /\ \A id \in DOMAIN written : AsBuilt(written[id])
    /\ \A id \in DOMAIN log : Copies(log[id], written[id])

LEMMA RowDated ==
  ASSUME NEW row \in Rows, AsBuilt(row)
  PROVE  Dated(row.chain) = row.created[1] /\ Copies(row, row)
<1>1. row.chain # Seed /\ Stamp(row) = <<"written", <<row.created[1], 0>>>>
  BY AsWrittenParts DEF AsBuilt
<1> QED BY <1>1 DEF Dated, Stamp, Copies

LEMMA EditCopies ==
  ASSUME TypeInv, HashInv, NEW id \in DOMAIN log, log[id] = written[id],
         NEW row, Edits(id, row)
  PROVE  Copies(row, written[id])
<1>1. /\ written[id] \in Rows /\ AsBuilt(written[id])
      /\ Dated(written[id].chain) = written[id].created[1] /\ written[id].chain # Seed
  BY RowDated DEF HashInv, TypeInv, TypeOK, Copies
<1>2. row \in Rows /\ row.created = written[id].created
  BY DEF Edits
<1>3. CASE row.chain = log[id].chain
  BY <1>1, <1>2, <1>3 DEF Copies
<1>4. CASE /\ row.content = "altered"
           /\ row.chain = next_chain_hash(LastHash(Below(log, id)), "altered", row.created)
  <2>1. row.created \in Nat \X Nat /\ "altered" \in Contents
    BY <1>2, AuditAssumption DEF Rows, Contents
  <2>2. LastHash(Below(log, id)) \in Hashes
    BY BelowHashType
  <2>3. row.chain # Seed /\ Stamp(row) = <<"altered", row.created>>
    BY <1>4, <2>1, <2>2, NextHashParts
  <2>4. Dated(row.chain) = row.created[1]
    BY <2>3 DEF Dated, Stamp
  <2> QED BY <1>2, <1>4, <2>3, <2>4 DEF Copies
<1> QED BY <1>3, <1>4 DEF Edits

LEMMA NextHash == TypeInv /\ ChainInv /\ HashInv /\ [Next]_vars => HashInv'
<1> SUFFICES ASSUME TypeInv, ChainInv, HashInv, [Next]_vars PROVE HashInv'
  OBVIOUS
<1> USE DEF HashInv
<1>1. CASE UNCHANGED <<log, written, clock>> /\ FewerPending
  <2>1. \A a \in Pending' : a \in Pending /\ draft'[a] = draft[a]
    BY <1>1 DEF FewerPending, Pending
  <2> QED BY <1>1, <2>1
<1>2. ASSUME NEW a \in Appenders, Draws(a) PROVE HashInv'
  <2>1. \A b \in Pending' : b # a => b \in Pending /\ draft'[b] = draft[b]
    BY <1>2 DEF Draws, Pending
  <2> QED BY <1>2, <2>1 DEF Draws
<1>3. ASSUME NEW a \in Appenders, Inserts(a) PROVE HashInv'
  <2>1. \A b \in Pending' : b \in Pending /\ draft'[b] = draft[b]
    BY <1>3 DEF Inserts, FewerPending, Pending
  <2>2. DOMAIN log \subseteq DOMAIN written
    BY DEF TypeInv, TypeOK
  <2>3. AsBuilt(draft[a]) /\ Copies(draft[a], draft[a])
    BY <1>3, RowDated DEF Inserts, Pending, TypeInv
  <2>4. \A id \in DOMAIN written' : AsBuilt(written'[id])
    BY <1>3, <2>3 DEF Inserts
  <2>5. \A id \in DOMAIN log' : Copies(log'[id], written'[id])
    BY <1>3, <2>2, <2>3 DEF Inserts
  <2> QED BY <2>1, <2>4, <2>5
<1>4. CASE Tampers
  <2>1. Pending' = Pending /\ UNCHANGED <<draft, written>>
    BY <1>4 DEF Tampers, Pending
  <2>2. ASSUME NEW id \in DOMAIN log' PROVE Copies(log'[id], written[id])
    <3>1. id \in DOMAIN log
      BY <1>4 DEF Tampers
    <3>2. CASE log'[id] = log[id]
      BY <3>1, <3>2
    <3>3. CASE log[id] = written[id] /\ Edits(id, log'[id])
      BY <3>1, <3>3, EditCopies
    <3> QED BY <1>4, <3>2, <3>3 DEF Tampers
  <2> QED BY <2>1, <2>2
<1> QED BY <1>1, <1>2, <1>3, <1>4, StepKinds

(***************************************************************************)
(* The hash of a pending row is in nobody else's hands: it ends in an      *)
(* instant at which no other row was built, and every hash that a row of   *)
(* the table or another pending row was made from ends in the instant of a *)
(* committed row.                                                          *)
(***************************************************************************)
Dates == {0} \cup {written[i].created[1] : i \in DOMAIN written}

UniqueInv ==
    /\ \A i \in DOMAIN written : written[i].created[1] \in 1..clock
    /\ \A i, j \in DOMAIN written : i # j => written[i].created[1] # written[j].created[1]
    /\ \A a \in Pending : draft[a].created[1] \in (1..clock) \ Dates
    /\ \A a, b \in Pending : a # b => draft[a].created[1] # draft[b].created[1]
    /\ \A a \in Pending : Dated(draft[a].prev) \in Dates
    /\ \A id \in DOMAIN log : Dated(Base(log[id])) \in Dates

LEMMA LogDated ==
  ASSUME TypeInv, HashInv
  PROVE  /\ Dated(Seed) \in Dates
         /\ \A m \in DOMAIN log : Dated(log[m].chain) \in Dates
         /\ Dated(LastHash(log)) \in Dates
<1>1. Dated(Seed) \in Dates
  BY DEF Dated, Dates
<1>2. \A m \in DOMAIN log : Dated(log[m].chain) \in Dates
  BY DEF TypeInv, TypeOK, HashInv, Copies, Dates
<1>3. LastHash(log) = Seed \/ \E m \in DOMAIN log : LastHash(log) = log[m].chain
  BY LogIds, MaxOfIds DEF LastHash
<1> QED BY <1>1, <1>2, <1>3

LEMMA NextUnique == TypeInv /\ ChainInv /\ HashInv /\ UniqueInv /\ [Next]_vars => UniqueInv'
<1> SUFFICES ASSUME TypeInv, ChainInv, HashInv, UniqueInv, [Next]_vars PROVE UniqueInv'
  OBVIOUS
<1>0. clock \in Nat
  BY AuditAssumption DEF TypeInv, TypeOK
<1>1. CASE UNCHANGED <<log, written, clock>> /\ FewerPending
  <2>1. \A a \in Pending' : a \in Pending /\ draft'[a] = draft[a]
    BY <1>1 DEF FewerPending, Pending
  <2>2. Dates' = Dates
    BY <1>1 DEF Dates
  <2> QED BY <1>1, <2>1, <2>2 DEF UniqueInv
<1>2. ASSUME NEW a \in Appenders, Draws(a) PROVE UniqueInv'
  <2> DEFINE new == draft'[a]
  <2>1. \A b \in Pending' : b # a => b \in Pending /\ draft'[b] = draft[b]
    BY <1>2 DEF Draws, Pending
  <2>2. /\ new.created[1] = clock + 1 /\ new.prev = LastHash(log)
        /\ log' = log /\ written' = written /\ clock' = clock + 1
    BY <1>2 DEF Draws
  <2>3. Dates' = Dates /\ clock + 1 \notin Dates
    BY <1>0, <2>2 DEF Dates, UniqueInv
  <2>4. 1..clock \subseteq 1..clock' /\ clock + 1 \in 1..clock' /\ clock + 1 \notin 1..clock
    BY <1>0, <2>2
  <2>5. \A i \in DOMAIN written' : written'[i].created[1] \in 1..clock'
    BY <2>2, <2>4 DEF UniqueInv
  <2>6. \A b \in Pending' : draft'[b].created[1] \in (1..clock') \ Dates'
    BY <2>1, <2>2, <2>3, <2>4 DEF UniqueInv
  <2>7. \A b, c \in Pending' : b # c => draft'[b].created[1] # draft'[c].created[1]
    <3>1. \A b \in Pending : draft[b].created[1] # clock + 1
      BY <2>4 DEF UniqueInv
    <3> QED BY <2>1, <2>2, <3>1 DEF UniqueInv
  <2>8. \A b \in Pending' : Dated(draft'[b].prev) \in Dates'
    BY <2>1, <2>2, <2>3, LogDated DEF UniqueInv
  <2> QED BY <2>2, <2>3, <2>5, <2>6, <2>7, <2>8 DEF UniqueInv
<1>3. ASSUME NEW a \in Appenders, Inserts(a) PROVE UniqueInv'
  <2> DEFINE d == draftId[a]
  <2>1. \A b \in Pending' : b # a /\ b \in Pending /\ draft'[b] = draft[b]
    BY <1>3 DEF Inserts, FewerPending, Pending
  <2>2. /\ DOMAIN log' = DOMAIN log \cup {d} /\ log'[d] = draft[a]
        /\ \A i \in DOMAIN log : log'[i] = log[i]
        /\ DOMAIN written' = DOMAIN written \cup {d} /\ written'[d] = draft[a]
        /\ \A i \in DOMAIN written : written'[i] = written[i]
        /\ d \notin DOMAIN written /\ clock' = clock /\ a \in Pending
    BY <1>3 DEF Inserts
  <2>3. Dates' = Dates \cup {draft[a].created[1]}
    BY <2>2 DEF Dates
  <2>4. draft[a].created[1] \in (1..clock) \ Dates
    BY <2>2 DEF UniqueInv
  <2>5. Base(draft[a]) = draft[a].prev
    BY <2>2, AsWrittenParts DEF HashInv, AsBuilt, Pending, TypeInv
  <2> HIDE DEF d
  <2>6. \A i \in DOMAIN written' : written'[i].created[1] \in 1..clock'
    BY <2>2, <2>4 DEF UniqueInv
  <2>7. \A i, j \in DOMAIN written' : i # j => written'[i].created[1] # written'[j].created[1]
    <3>1. \A i \in DOMAIN written : written[i].created[1] # draft[a].created[1]
      BY <2>4 DEF Dates
    <3> QED BY <2>2, <3>1 DEF UniqueInv
  <2>8. \A b \in Pending' : draft'[b].created[1] \in (1..clock') \ Dates'
    BY <2>1, <2>2, <2>3 DEF UniqueInv
  <2>9. \A b, c \in Pending' : b # c => draft'[b].created[1] # draft'[c].created[1]
    BY <2>1 DEF UniqueInv
  <2>10. \A b \in Pending' : Dated(draft'[b].prev) \in Dates'
    BY <2>1, <2>3 DEF UniqueInv
  <2>11. \A id \in DOMAIN log' : Dated(Base(log'[id])) \in Dates'
    BY <2>2, <2>3, <2>5 DEF UniqueInv
  <2> QED BY <2>6, <2>7, <2>8, <2>9, <2>10, <2>11 DEF UniqueInv
<1>4. CASE Tampers
  <2>1. Pending' = Pending /\ UNCHANGED <<clock, draft, written>>
    BY <1>4 DEF Tampers, Pending
  <2>2. Dates' = Dates
    BY <2>1 DEF Dates
  <2>3. ASSUME NEW id \in DOMAIN log' PROVE Dated(Base(log'[id])) \in Dates
    <3> DEFINE row == log'[id]
    <3>1. id \in DOMAIN log
      BY <1>4 DEF Tampers
    <3>2. CASE row.chain = log[id].chain
      BY <3>1, <3>2 DEF UniqueInv, Base
    <3>3. CASE Edits(id, row) /\ row.chain # log[id].chain
      <4>1. /\ row.chain = next_chain_hash(LastHash(Below(log, id)), "altered", row.created)
            /\ row \in Rows
        BY <3>3 DEF Edits
      <4>2. row.created \in Nat \X Nat /\ "altered" \in Contents
        BY <4>1, AuditAssumption DEF Rows, Contents
      <4>3. Base(row) = LastHash(Below(log, id))
        BY <3>1, <4>1, <4>2, BelowHashType, NextHashParts
      <4> QED BY <3>1, <4>3, BelowHashType, LogDated
    <3> QED BY <1>4, <3>2, <3>3 DEF Tampers
  <2> QED BY <2>1, <2>2, <2>3 DEF UniqueInv
<1> QED BY <1>1, <1>2, <1>3, <1>4, StepKinds

-----------------------------------------------------------------------------
(* A broken chain stays broken. *)

LEMMA LogIsTable ==
  ASSUME TypeInv, HashInv
  PROVE  ids \in Nat /\ Table(log, ids)
BY LogIds DEF HashInv, Table, Copies

(***************************************************************************)
(* A committed append repairs no row: the hash it brings with it is not    *)
(* the one that any stored row's hash was made from.                       *)
(***************************************************************************)
LEMMA InsertHealsNothing ==
  ASSUME TypeInv, HashInv, UniqueInv, NEW a \in Appenders, Inserts(a),
         NEW id \in DOMAIN log, Matches(log', id)
  PROVE  Matches(log, id)
<1> DEFINE d == draftId[a]
<1>1. ids \in Nat /\ Table(log, ids)
  BY LogIsTable
<1>2. /\ d \in 1..ids /\ d \notin DOMAIN log
      /\ DOMAIN log' = DOMAIN log \cup {d} /\ log'[d] = draft[a]
      /\ \A i \in DOMAIN log : log'[i] = log[i]
  BY DEF Inserts, TypeInv, TypeOK
<1>3. draft[a] \in Rows /\ draft[a].chain # Seed
  BY AsWrittenParts DEF Inserts, Pending, TypeInv, HashInv, AsBuilt
<1>4. draft[a].chain # Base(log[id])
  <2>1. draft[a] \in Rows /\ AsBuilt(draft[a]) /\ draft[a].created[1] \notin Dates
    BY <1>3 DEF Inserts, HashInv, UniqueInv
  <2>2. Dated(draft[a].chain) \notin Dates
    BY <2>1, RowDated
  <2>3. Dated(Base(log[id])) \in Dates
    BY DEF UniqueInv
  <2> QED BY <2>2, <2>3
<1>5. Table(log', ids) /\ id \in DOMAIN log'
  BY <1>1, <1>2, <1>3 DEF Table
<1>6. /\ Base(log[id]) = LastHash(Below(log', id))
      /\ Stamp(log[id]) = <<log[id].content, log[id].created>>
  <2>1. log'[id] = log[id]
    BY <1>2
  <2>2. /\ Base(log'[id]) = LastHash(Below(log', id))
        /\ Stamp(log'[id]) = <<log'[id].content, log'[id].created>>
    BY <1>1, <1>5, TableVerifiesIff
  <2> QED BY <2>1, <2>2
<1>7. LastHash(Below(log', id)) = LastHash(Below(log, id))
  <2>1. CASE First(log', id)
    <3>1. First(log, id)
      BY <2>1, <1>2 DEF First
    <3> QED BY <1>1, <1>5, <2>1, <3>1, BelowIs
  <2>2. ASSUME NEW m \in DOMAIN log', Precedes(log', m, id)
        PROVE  LastHash(Below(log', id)) = LastHash(Below(log, id))
    <3>1. LastHash(Below(log', id)) = log'[m].chain
      BY <1>1, <1>5, <2>2, BelowIs
    <3>2. m # d
      BY <3>1, <1>2, <1>4, <1>6
    <3>3. m \in DOMAIN log /\ Precedes(log, m, id) /\ log'[m] = log[m]
      BY <2>2, <3>2, <1>2 DEF Precedes
    <3>4. LastHash(Below(log, id)) = log[m].chain
      BY <1>1, <3>3, BelowIs
    <3> QED BY <3>1, <3>3, <3>4
  <2> QED BY <1>1, <1>5, <2>1, <2>2, BelowIs
<1> QED BY <1>1, <1>6, <1>7, TableVerifiesIff

(***************************************************************************)
(* The hashes in existence are always as HashInv and UniqueInv say.        *)
(***************************************************************************)
AuditInv == TypeInv /\ ChainInv /\ HashInv /\ UniqueInv

LEMMA InitAudit == Init => AuditInv
<1> SUFFICES ASSUME Init PROVE AuditInv
  OBVIOUS
<1>1. ChainInv
  BY DEF Init, ChainInv, NoRows
<1>2. Pending = {} /\ DOMAIN log = {} /\ DOMAIN written = {}
  BY DEF Init, Pending, NoRows
<1>3. HashInv /\ UniqueInv
  BY <1>2 DEF HashInv, UniqueInv
<1> QED BY <1>1, <1>3, InitType DEF AuditInv

LEMMA NextAudit == AuditInv /\ [Next]_vars => AuditInv'
  BY NextType, NextChain, NextHash, NextUnique DEF AuditInv

(***************************************************************************)
(* No service step heals a broken chain.  A row that does not verify can   *)
(* be saved only by a row that comes to stand just before it, with the     *)
(* hash it was made from; the hash of a pending row is no such hash.       *)
(***************************************************************************)
THEOREM ServiceHealsNothing == Spec => BrokenStaysBroken
<1>1. AuditInv /\ [Next]_vars
        => [Service /\ ~verify_audit_chain(log) => ~verify_audit_chain(log')]_vars
  <2> SUFFICES ASSUME AuditInv, Service, ~verify_audit_chain(log)
               PROVE  ~verify_audit_chain(log')
    OBVIOUS
  <2>1. PICK id \in DOMAIN log : ~Matches(log, id)
    BY DEF verify_audit_chain
  <2>2. UNCHANGED log \/ \E a \in Appenders : Inserts(a)
    <3>1. ASSUME NEW a \in Appenders, Admit(a) \/ ReadLast(a) \/ Flush(a) PROVE UNCHANGED log
      BY <3>1 DEF Admit, ReadLast, Flush
    <3>2. ASSUME NEW r \in Readers, AdmitReader(r) \/ Fetch(r) PROVE UNCHANGED log
      BY <3>2 DEF AdmitReader, Fetch
    <3>3. ASSUME NEW v \in Verifiers, Verify(v) \/ AutoSeal(v) PROVE UNCHANGED log
      BY <3>3 DEF Verify, AutoSeal
    <3>4. ASSUME StartGuard PROVE UNCHANGED log
      BY <3>4 DEF StartGuard
    <3>5. ASSUME NEW a \in Appenders, EndAppend(a) PROVE UNCHANGED log \/ Inserts(a)
      BY <3>5, InsertStep DEF AuditInv
    <3> QED BY <3>1, <3>2, <3>3, <3>4, <3>5 DEF Service
  <2>3. CASE UNCHANGED log
    BY <2>3
  <2>4. ASSUME NEW a \in Appenders, Inserts(a) PROVE ~verify_audit_chain(log')
    <3>1. ~Matches(log', id) /\ id \in DOMAIN log'
      BY <2>1, <2>4, InsertHealsNothing DEF AuditInv, Inserts
    <3> QED BY <3>1 DEF verify_audit_chain
  <2> QED BY <2>2, <2>3, <2>4
<1> QED BY <1>1, InitAudit, NextAudit, PTL DEF Spec, BrokenStaysBroken

-----------------------------------------------------------------------------
(* The rows a verification looks at. *)

(* A session may hold rows as they were before they were altered, and rows *)
(* that are gone, but no row that was made good again.                     *)
ShownInv ==
    /\ shown = [v \in Verifiers |-> shown[v]]
    /\ \A v \in Verifiers : \A id \in DOMAIN shown[v] :
         /\ id \in DOMAIN written /\ Copies(shown[v][id], written[id])
         /\ id \in DOMAIN log /\ log[id].content = "written"
              => shown[v][id].content = "written"

LEMMA NextShown == AuditInv /\ ShownInv /\ [Next]_vars => ShownInv'
<1> SUFFICES ASSUME AuditInv, ShownInv, [Next]_vars PROVE ShownInv'
  OBVIOUS
<1> USE DEF ShownInv
<1>0. DOMAIN log \subseteq DOMAIN written
  BY DEF AuditInv, TypeInv, TypeOK
<1>1. ASSUME NEW r \in Readers, Fetch(r) PROVE ShownInv'
  <2>1. /\ shown' = [shown EXCEPT ![r] = log] /\ r \in Verifiers
        /\ UNCHANGED <<log, written>>
    BY <1>1 DEF Fetch, Verifiers
  <2>2. shown'[r] = log /\ \A v \in Verifiers \ {r} : shown'[v] = shown[v]
    BY <2>1
  <2>3. \A id \in DOMAIN log : Copies(log[id], written[id])
    BY DEF AuditInv, HashInv
  <2>4. shown' = [v \in Verifiers |-> shown'[v]]
    BY <2>1
  <2> QED BY <1>0, <2>1, <2>2, <2>3, <2>4
<1>2. ASSUME NEW v \in Verifiers, Verify(v) \/ AutoSeal(v) PROVE ShownInv'
  <2>1. /\ shown' = shown \/ shown' = [shown EXCEPT ![v] = NoRows]
        /\ UNCHANGED <<log, written>>
    BY <1>2 DEF Verify, AutoSeal
  <2>2. DOMAIN NoRows = {}
    BY DEF NoRows
  <2>3. \A w \in Verifiers : shown'[w] = shown[w] \/ shown'[w] = NoRows
    BY <2>1
  <2>4. shown' = [w \in Verifiers |-> shown'[w]]
    BY <2>1
  <2> QED BY <2>1, <2>2, <2>3, <2>4
<1>3. ASSUME UNCHANGED <<log, written, shown>> PROVE ShownInv'
  BY <1>3
<1>4. ASSUME UNCHANGED shown, NEW a \in Appenders, Inserts(a) PROVE ShownInv'
  <2>1. /\ draftId[a] \notin DOMAIN written
        /\ DOMAIN written \subseteq DOMAIN written'
        /\ \A i \in DOMAIN written : written'[i] = written[i]
        /\ \A i \in DOMAIN log' : i = draftId[a] \/ (i \in DOMAIN log /\ log'[i] = log[i])
    BY <1>4 DEF Inserts
  <2> QED BY <1>4, <2>1
<1>5. ASSUME UNCHANGED shown, Tampers PROVE ShownInv'
  <2>1. \A i \in DOMAIN log' :
          i \in DOMAIN log /\ (log'[i].content = "written" => log[i].content = "written")
    BY <1>5 DEF Tampers, Edits
  <2> QED BY <1>5, <2>1 DEF Tampers
<1>6. ASSUME UNCHANGED shown PROVE ShownInv'
  <2>1. CASE UNCHANGED <<log, written, clock>>
    BY <1>6, <2>1, <1>3
  <2>2. ASSUME NEW a \in Appenders, Draws(a) PROVE ShownInv'
    BY <1>6, <2>2, <1>3 DEF Draws
  <2> QED BY <1>6, <2>1, <2>2, <1>4, <1>5, StepKinds DEF AuditInv
<1>7. ASSUME NEW a \in Appenders, Admit(a) \/ ReadLast(a) \/ Flush(a) \/ EndAppend(a)
      PROVE  UNCHANGED shown
  BY <1>7 DEF Admit, ReadLast, Flush, EndAppend, checks
<1>8. ASSUME (\E r \in Readers : AdmitReader(r)) \/ StartGuard \/ Unseal \/ Seal \/ UNCHANGED vars
      PROVE  UNCHANGED shown
  BY <1>8 DEF AdmitReader, StartGuard, Unseal, Seal, vars, checks
<1>9. CASE Edit
  BY <1>6, <1>9, EditStep DEF AuditInv, checks
<1> QED BY <1>1, <1>2, <1>6, <1>7, <1>8, <1>9 DEF Next, Service

LEMMA InitShown == Init => ShownInv
  BY DEF Init, ShownInv, NoRows

LEMMA SeenRows ==
  ASSUME AuditInv, ShownInv, NEW v \in Verifiers
  PROVE  /\ ids \in Nat /\ Table(Seen(v), ids) /\ DOMAIN Seen(v) = DOMAIN log
         /\ \A id \in DOMAIN log :
              /\ id \in DOMAIN written /\ Copies(Seen(v)[id], written[id])
              /\ log[id].content = "written" => Seen(v)[id].content = "written"
<1>1. ids \in Nat /\ Table(log, ids)
  BY LogIsTable DEF AuditInv
<1>2. DOMAIN Seen(v) = DOMAIN log
  BY DEF Seen
<1>3. ASSUME NEW id \in DOMAIN log
      PROVE  /\ id \in DOMAIN written /\ Copies(Seen(v)[id], written[id])
             /\ log[id].content = "written" => Seen(v)[id].content = "written"
  BY DEF Seen, ShownInv, AuditInv, HashInv, TypeInv, TypeOK
<1>4. \A id \in DOMAIN log : Seen(v)[id] \in Rows /\ Seen(v)[id].chain # Seed
  BY <1>3 DEF Copies
<1> QED BY <1>1, <1>2, <1>3, <1>4 DEF Table

-----------------------------------------------------------------------------
(* What a verdict means. *)

(***************************************************************************)
(* In a table that verifies, whatever a hash covers is the hash of a row:  *)
(* below a row there is, payload for payload, the row before it.           *)
(***************************************************************************)
LEMMA VerifiedPrefixes ==
  ASSUME NEW n \in Nat, NEW rows, Table(rows, n), verify_audit_chain(rows),
         NEW part \in Hashes, part # Seed,
         NEW id \in DOMAIN rows, Covers(rows[id].chain, part)
  PROVE  \E j \in DOMAIN rows : rows[j].chain = part
<1> DEFINE Covering == {k \in DOMAIN rows : Covers(rows[k].chain, part)}
<1>1. DOMAIN rows \subseteq 1..n
  BY DEF Table
<1>2. PICK m \in Covering : \A y \in Covering : m <= y
  <2>1. Covering \in SUBSET (1..n) /\ Covering # {}
    BY <1>1
  <2> HIDE DEF Covering
  <2> QED BY <2>1, LeastOfIds
<1>3. /\ m \in DOMAIN rows /\ m \in Nat /\ Covers(rows[m].chain, part)
      /\ rows[m].chain \in Hashes /\ rows[m].chain # Seed
  BY <1>1, <1>2 DEF Table, Rows
<1>4. /\ part \in Seq(Payloads) /\ Len(part) \in Nat \ {0} /\ DOMAIN part = 1..Len(part)
      /\ rows[m].chain \in Seq(Payloads)
  BY <1>3, EmptySeq, LenProperties DEF Hashes, Payloads, Seed
<1>5. CASE Len(rows[m].chain) = Len(part)
  <2>1. \A i \in 1..Len(part) : rows[m].chain[i] = part[i]
    BY <1>3, <1>4 DEF Covers
  <2>2. rows[m].chain = part
    BY <1>4, <1>5, <2>1, SeqEqual
  <2> QED BY <1>3, <2>2
<1>6. CASE Len(rows[m].chain) # Len(part)
  <2> DEFINE base == Base(rows[m])
  <2>1. /\ Len(rows[m].chain) \in Nat /\ base \in Hashes
        /\ Len(base) = Len(rows[m].chain) - 1
        /\ \A i \in 1..Len(base) : rows[m].chain[i] = base[i]
    BY <1>3, HashParts
  <2> HIDE DEF base
  <2>2. Len(part) <= Len(base)
    BY <1>3, <1>4, <1>6, <2>1 DEF Covers
  <2>3. Covers(base, part)
    <3>1. \A i \in DOMAIN part : i \in 1..Len(base) /\ rows[m].chain[i] = part[i]
      BY <1>3, <1>4, <2>1, <2>2 DEF Covers
    <3> QED BY <2>1, <2>2, <3>1 DEF Covers
  <2>4. base # Seed
    <3>1. Len(base) # 0
      BY <1>4, <2>1, <2>2
    <3> QED BY <3>1 DEF Seed
  <2>5. base = LastHash(Below(rows, m))
    BY <1>3, TableVerifiesIff DEF verify_audit_chain, base
  <2>6. PICK k \in DOMAIN rows : Precedes(rows, k, m) /\ base = rows[k].chain
    BY <1>3, <2>4, <2>5, BelowIs
  <2>7. k \in Covering /\ k \in Nat /\ k < m
    BY <1>1, <2>3, <2>6 DEF Precedes
  <2>8. m <= k
    <3> HIDE DEF Covering
    <3> QED BY <1>2, <2>7
  <2> QED BY <1>3, <2>7, <2>8
<1> QED BY <1>5, <1>6

(***************************************************************************)
(* "Intact" vouches for every row that a verified hash covers.  The hash   *)
(* of that row is then the hash of some row of the table; that row was     *)
(* built in the same instant, so it is the row itself, and as it verifies  *)
(* it says what was hashed.                                                *)
(***************************************************************************)
THEOREM IntactVouchesFor == Spec => IntactVouches
<1>1. AuditInv /\ ShownInv =>
        \A v \in Verifiers : Verify(v) /\ vpc'[v] = "idle" =>
          \A id \in DOMAIN log, i \in DOMAIN written :
            Covers(Seen(v)[id].chain, written[i].chain) =>
              i \in DOMAIN log /\ SaysTheSame(Seen(v)[i], written[i])
  <2> SUFFICES ASSUME AuditInv, ShownInv, NEW v \in Verifiers, Verify(v), vpc'[v] = "idle",
                      NEW id \in DOMAIN log, NEW i \in DOMAIN written,
                      Covers(Seen(v)[id].chain, written[i].chain)
               PROVE  i \in DOMAIN log /\ SaysTheSame(Seen(v)[i], written[i])
    OBVIOUS
  <2> DEFINE rows == Seen(v)
             was == written[i]
  <2>1. verify_audit_chain(rows)
    BY DEF Verify, Intact, AuditInv, TypeInv, TypeOK
  <2>2. /\ ids \in Nat /\ Table(rows, ids) /\ DOMAIN rows = DOMAIN log
        /\ \A j \in DOMAIN log : j \in DOMAIN written /\ Copies(rows[j], written[j])
    BY SeenRows
  <2>3. was \in Rows /\ was.content = "written" /\ HashedAsWritten(was)
    BY DEF AuditInv, TypeInv, TypeOK, HashInv, AsBuilt
  <2>4. was.chain # Seed /\ Stamp(was) = <<"written", <<was.created[1], 0>>>> /\ was.chain \in Hashes
    BY <2>3, AsWrittenParts DEF Rows
  <2> HIDE DEF rows, was
  <2>5. PICK j \in DOMAIN rows : rows[j].chain = was.chain
    <3>1. Covers(rows[id].chain, was.chain)
      BY DEF rows, was
    <3> QED BY <2>1, <2>2, <2>4, <3>1, VerifiedPrefixes
  <2>6. Stamp(rows[j]) = <<rows[j].content, rows[j].created>>
    BY <2>1, <2>2, TableVerifiesIff DEF verify_audit_chain
  <2>7. Stamp(rows[j]) = Stamp(was)
    BY <2>5 DEF Stamp
  <2>8. rows[j].content = "written" /\ rows[j].created = <<was.created[1], 0>>
    BY <2>4, <2>6, <2>7
  <2>9. j \in DOMAIN written /\ rows[j].created = written[j].created
    BY <2>2 DEF Copies
  <2>10. written[j].created[1] = written[i].created[1]
    BY <2>8, <2>9 DEF was
  <2>11. j = i
    BY <2>9, <2>10 DEF AuditInv, UniqueInv
  <2>12. rows[i].created = was.created
    BY <2>9, <2>11 DEF was
  <2>13. SaysTheSame(rows[i], was)
    BY <2>3, <2>5, <2>8, <2>11, <2>12 DEF SaysTheSame
  <2> QED BY <2>2, <2>11, <2>13 DEF rows, was
<1> QED BY <1>1, InitAudit, NextAudit, InitShown, NextShown, PTL DEF Spec, IntactVouches

(***************************************************************************)
(* Rows that nobody touched extend the hash of an earlier row, or the      *)
(* seed, and say what was hashed if the clock was read in one instant.     *)
(***************************************************************************)
LEMMA HonestRows ==
  ASSUME AuditInv, Removed = {}, Altered(log) = {}, NEW rows, DOMAIN rows = DOMAIN log,
         \A id \in DOMAIN log :
           rows[id].content = "written" /\ Copies(rows[id], written[id])
  PROVE  \A id \in DOMAIN log :
           /\ rows[id].chain = written[id].chain /\ rows[id].created = written[id].created
           /\ Stamp(rows[id]) = <<rows[id].content, rows[id].created>>
                <=> written[id].created[2] = 0
           /\ Earlier(rows, rows, Base(rows[id]), id)
<1>1. DOMAIN written = DOMAIN log
  BY DEF Removed, AuditInv, TypeInv, TypeOK
<1>2. \A id \in DOMAIN log :
        rows[id].chain = written[id].chain /\ rows[id].created = written[id].created
  BY DEF Copies
<1>3. ASSUME NEW id \in DOMAIN log
      PROVE  /\ Stamp(rows[id]) = <<rows[id].content, rows[id].created>>
                  <=> written[id].created[2] = 0
             /\ Earlier(rows, rows, Base(rows[id]), id)
  <2>1. written[id] \in Rows /\ AsBuilt(written[id])
    BY <1>1 DEF AuditInv, TypeInv, TypeOK, HashInv
  <2>2. /\ Base(written[id]) = written[id].prev
        /\ Stamp(written[id]) = <<"written", <<written[id].created[1], 0>>>>
    BY <2>1, AsWrittenParts DEF AsBuilt
  <2>3. Base(rows[id]) = Base(written[id]) /\ Stamp(rows[id]) = Stamp(written[id])
    BY <1>2, <1>3 DEF Base, Stamp
  <2>4. written[id].created \in Nat \X Nat
    BY <2>1, AuditAssumption DEF Rows
  <2>5. Stamp(rows[id]) = <<rows[id].content, rows[id].created>> <=> written[id].created[2] = 0
    BY <1>2, <1>3, <2>2, <2>3, <2>4
  <2>6. Earlier(log, written, written[id].prev, id)
    BY <1>1, <1>3 DEF AuditInv, ChainInv
  <2>7. \A i \in DOMAIN log : log[i].chain = written[i].chain
    BY DEF AuditInv, HashInv, Copies, Rows, Contents, Altered
  <2>8. Earlier(rows, rows, Base(rows[id]), id)
    BY <1>1, <1>2, <2>2, <2>3, <2>6, <2>7 DEF Earlier
  <2> QED BY <2>5, <2>8
<1> QED BY <1>2, <1>3

(***************************************************************************)
(* A false alarm has one of the causes named: the two clock readings of an *)
(* append differed, two appends overlapped, or a row was altered or        *)
(* removed.  No other schedule of appends and readers raises one.          *)
(***************************************************************************)
THEOREM AlarmsHaveCauses == Spec => AlarmHasACause
<1>1. AuditInv /\ ShownInv =>
        \A v \in Verifiers : Verify(v) /\ vpc'[v] = "alarm" =>
          \/ ClockSplit(log)
          \/ Forked(log)
          \/ Removed # {} \/ Altered(log) # {}
  <2> SUFFICES ASSUME AuditInv, ShownInv, NEW v \in Verifiers, Verify(v), vpc'[v] = "alarm",
                      ~ClockSplit(log), Removed = {}, Altered(log) = {}
               PROVE  Forked(log)
    OBVIOUS
  <2> DEFINE rows == Seen(v)
  <2>1. ~verify_audit_chain(rows)
    BY DEF Verify, Intact, AuditInv, TypeInv, TypeOK
  <2>2. \A id \in DOMAIN log : log[id].content = "written"
    BY DEF Altered, AuditInv, TypeInv, TypeOK, Rows, Contents
  <2>3. /\ ids \in Nat /\ Table(rows, ids) /\ DOMAIN rows = DOMAIN log
        /\ \A id \in DOMAIN log :
             rows[id].content = "written" /\ Copies(rows[id], written[id])
    BY <2>2, SeenRows
  <2> HIDE DEF rows
  <2>4. \A id \in DOMAIN log :
          /\ rows[id].chain = written[id].chain
          /\ Stamp(rows[id]) = <<rows[id].content, rows[id].created>>
               <=> written[id].created[2] = 0
          /\ Earlier(rows, rows, Base(rows[id]), id)
    BY <2>3, HonestRows
  <2>5. \A id \in DOMAIN log : log[id].chain = written[id].chain /\ written[id].created[2] = 0
    BY <2>2 DEF AuditInv, HashInv, Copies, ClockSplit
  <2>6. Forked(rows)
    BY <2>1, <2>3, <2>4, <2>5, UnverifiedForks
  <2>7. \A id \in DOMAIN log : Base(rows[id]) = Base(log[id])
    BY <2>4, <2>5 DEF Base
  <2> QED BY <2>3, <2>6, <2>7 DEF Forked
<1> QED BY <1>1, InitAudit, NextAudit, InitShown, NextShown, PTL DEF Spec, AlarmHasACause

(***************************************************************************)
(* Exactly when a log that nobody touched verifies: if no append read the  *)
(* clock in two different instants and no two appends extend one hash.     *)
(* Either accident is an alarm at every later verification.                *)
(***************************************************************************)
THEOREM HonestLogVerifiesIff ==
  Spec => [](Removed = {} /\ Altered(log) = {} =>
               (verify_audit_chain(log) <=> ~ClockSplit(log) /\ ~Forked(log)))
<1>1. AuditInv =>
        (Removed = {} /\ Altered(log) = {} =>
           (verify_audit_chain(log) <=> ~ClockSplit(log) /\ ~Forked(log)))
  <2> SUFFICES ASSUME AuditInv, Removed = {}, Altered(log) = {}
               PROVE  verify_audit_chain(log) <=> ~ClockSplit(log) /\ ~Forked(log)
    OBVIOUS
  <2>1. ids \in Nat /\ Table(log, ids)
    BY LogIsTable DEF AuditInv
  <2>2. \A id \in DOMAIN log : log[id].content = "written" /\ Copies(log[id], written[id])
    BY DEF Altered, AuditInv, TypeInv, TypeOK, HashInv, Rows, Contents
  <2>3. \A id \in DOMAIN log :
          /\ log[id].created = written[id].created
          /\ Stamp(log[id]) = <<log[id].content, log[id].created>>
               <=> written[id].created[2] = 0
          /\ Earlier(log, log, Base(log[id]), id)
    BY <2>2, HonestRows
  <2>4. verify_audit_chain(log) => ~ClockSplit(log)
    BY <2>1, <2>3, TableVerifiesIff DEF verify_audit_chain, ClockSplit
  <2>5. verify_audit_chain(log) => ~Forked(log)
    BY <2>1, ForkUnverified
  <2>6. ~ClockSplit(log) /\ ~Forked(log) => verify_audit_chain(log)
    BY <2>1, <2>3, UnverifiedForks DEF ClockSplit
  <2> QED BY <2>4, <2>5, <2>6
<1> QED BY <1>1, InitAudit, NextAudit, PTL DEF Spec
=============================================================================
