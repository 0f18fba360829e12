------------------------------ MODULE SyncProofs ------------------------------
(***************************************************************************)
(* The replica's cursor is exact, for any number of containers and of      *)
(* transactions open at one time, and wherever passes are cut off: it      *)
(* passes no row that did not land, except one that was committed after a  *)
(* later one or that a LIMIT can part from the others of its stamp.        *)
(***************************************************************************)
EXTENDS Sync, FiniteSetTheorems, WellFoundedInduction, TLAPS

-----------------------------------------------------------------------------
(* Sets of rows *)

\* One row for each primary key.
OneRowEach(rows) == \A r, s \in rows : r.key = s.key => r = s

Less == OpToRel(<, Nat)

\* A set of numbers that is not empty has a least one.
LEMMA LeastNatural ==
  ASSUME NEW S \in SUBSET Nat, S # {}
  PROVE  \E n \in S : \A m \in S : n <= m
<1>1. IsWellFoundedOn(Less, Nat)
  BY NatLessThanWellFounded DEF Less
<1>2. PICK n \in S : \A m \in S : <<m, n>> \notin Less
  BY <1>1, WFMin
<1>3. \A m \in S : ~ (m < n)
  BY <1>2 DEF Less, OpToRel
<1> QED
  BY <1>3

\* What is computed from the members of a finite set is finite.
LEMMA ImageFinite ==
  ASSUME NEW S, IsFiniteSet(S), NEW T, NEW f \in [S -> T],
         \A y \in T : \E x \in S : f[x] = y
  PROVE  IsFiniteSet(T)
<1>1. f \in Surjection(S, T)
  BY DEF Surjection
<1> QED
  BY <1>1, FS_Surjection

\* A table with one row for each key has as many keys as rows.
LEMMA KeysCounted ==
  ASSUME NEW rows, IsFiniteSet(rows), OneRowEach(rows)
  PROVE  Cardinality(Keys(rows)) = Cardinality(rows)
<1> DEFINE f == [r \in rows |-> r.key]
<1>1. f \in [rows -> Keys(rows)]
  BY DEF Keys
<1>2. \A k \in Keys(rows) : \E r \in rows : f[r] = k
  BY DEF Keys
<1>3. \A r, s \in rows : f[r] = f[s] => r = s
  BY DEF OneRowEach
<1>4. ExistsBijection(rows, Keys(rows))
  <2>1. f \in Bijection(rows, Keys(rows))
    BY <1>1, <1>2, <1>3 DEF Bijection, Injection, Surjection, IsInjective
  <2> QED
    BY <2>1 DEF ExistsBijection
<1> QED
  BY <1>4, FS_Bijection

\* In the order of the cursor, some row of a table comes before all others.
LEMMA FirstOfAll ==
  ASSUME NEW rows \in SUBSET Row, rows # {}
  PROVE  \E r \in rows : \A s \in rows : ~Before(s, r)
<1>1. PICK a \in {r.at : r \in rows} : \A b \in {r.at : r \in rows} : a <= b
  <2>1. {r.at : r \in rows} \in SUBSET Nat /\ {r.at : r \in rows} # {}
    BY DEF Row
  <2> QED
    BY <2>1, LeastNatural
<1> DEFINE ties == {r \in rows : r.at = a}
<1>2. PICK k \in {r.key : r \in ties} : \A l \in {r.key : r \in ties} : k <= l
  <2>1. {r.key : r \in ties} \in SUBSET Nat /\ {r.key : r \in ties} # {}
    BY <1>1 DEF Row
  <2> HIDE DEF ties
  <2> QED
    BY <2>1, LeastNatural
<1>3. PICK r \in rows : r.at = a /\ r.key = k
  BY <1>2
<1>4. ASSUME NEW s \in rows PROVE ~Before(s, r)
  <2>1. s.at \in Nat /\ s.key \in Nat /\ r.at \in Nat /\ r.key \in Nat
    BY DEF Row
  <2>2. a <= s.at /\ (s.at = a => k <= s.key)
    BY <1>1, <1>2
  <2> QED
    BY <1>3, <2>1, <2>2 DEF Before
<1> QED
  BY <1>4

\* Rows are ordered by what they are asked for by.
LEMMA BeforeTransitive ==
  ASSUME NEW q \in Row, NEW r \in Row, NEW s \in Row, Before(q, r), Before(r, s)
  PROVE  Before(q, s)
  BY DEF Before, Row

\* A LIMIT keeps the first rows: some, and with each all that come before it.
LEMMA FirstRowsAreFirst ==
  ASSUME NEW rows \in SUBSET Row, IsFiniteSet(rows), rows # {}
  PROVE  /\ FirstRows(rows) # {} /\ FirstRows(rows) \subseteq rows
         /\ \A r \in rows, s \in FirstRows(rows) :
              Before(r, s) => r \in FirstRows(rows)
<1> DEFINE Ahead(r) == {s \in rows : Before(s, r)}
<1>1. FirstRows(rows) = {r \in rows : Cardinality(Ahead(r)) < BatchRows}
  BY DEF FirstRows
<1>2. PICK r \in rows : \A s \in rows : ~Before(s, r)
  BY FirstOfAll
<1>3. r \in FirstRows(rows)
  <2>1. Ahead(r) = {}
    BY <1>2
  <2>2. Cardinality(Ahead(r)) = 0
    BY <2>1, FS_EmptySet
  <2> QED
    BY <1>1, <2>2, SyncAssumption
<1>4. ASSUME NEW q \in rows, NEW s \in FirstRows(rows), Before(q, s)
      PROVE  q \in FirstRows(rows)
  <2>1. s \in rows /\ Cardinality(Ahead(s)) < BatchRows
    BY <1>1
  <2>2. Ahead(q) \subseteq Ahead(s)
    BY <1>4, <2>1, BeforeTransitive
  <2>3. IsFiniteSet(Ahead(s))
    BY FS_Subset
  <2> HIDE DEF Ahead
  <2>4. /\ Cardinality(Ahead(q)) <= Cardinality(Ahead(s))
        /\ Cardinality(Ahead(q)) \in Nat /\ Cardinality(Ahead(s)) \in Nat
    BY <2>2, <2>3, FS_Subset, FS_CardinalityType
  <2> QED
    BY <1>1, <2>1, <2>4, SyncAssumption
<1> QED
  BY <1>1, <1>3, <1>4

-----------------------------------------------------------------------------
(* The inductive invariant *)

\* One pair for each first component: a transaction writes a row once.
OneEach(pairs) == \A v, w \in pairs : v[1] = w[1] => v = w

TypesOK ==
  /\ local \in [SyncedTables -> SUBSET Row]
  /\ open \subseteq Transaction
  /\ started \in 0..MaxTx /\ nextId \in Nat \ {0} /\ newest \in 0..started
  /\ cloud \in [SyncedTables -> SUBSET Row]
  /\ cursor \in [SyncedTables -> Nat]
  /\ pc \in {"position", "read", "ties", "send"} /\ table \in SyncedTables
  /\ position \in Nat /\ batch \subseteq Row
  /\ outages \in 0..MaxOutages
  /\ pc \in {"ties", "send"} => batch # {}

\* The tables of the warehouse.  Rows of one stamp come from one transaction.
TablesInv ==
  /\ \A t \in SyncedTables : OneRowEach(local[t]) /\ IsFiniteSet(local[t])
  /\ \A r \in local["containers"] : r.at \in 1..newest
  /\ \A r, s \in local["containers"] : r # s /\ r.at = s.at => r.tied
  /\ \A m \in local["movements"] : m.at = m.key /\ m.key \in 1..(nextId - 1)

\* What a transaction in progress is going to write: its stamp and its ids are
\* in no table and no other transaction's.
OpenInv ==
  \A tx \in open :
    /\ tx.at \in 1..started /\ tx.at # newest
    /\ \A r \in local["containers"] : r.at # tx.at
    /\ \A other \in open : other.at = tx.at => other = tx
    /\ IsFiniteSet(tx.containers) /\ OneEach(tx.containers)
    /\ IsFiniteSet(tx.movements) /\ OneEach(tx.movements)
    /\ \A w \in tx.movements :
         /\ w[1] \in 1..(nextId - 1)
         /\ \A m \in local["movements"] : m.key # w[1]
         /\ \A other \in open \ {tx} : \A v \in other.movements : v[1] # w[1]

\* The cursor has not passed what the warehouse has committed.
ReplicaInv ==
  /\ \A t \in SyncedTables : OneRowEach(cloud[t]) /\ IsFiniteSet(cloud[t])
  /\ \A r \in cloud["movements"] : r.at = r.key
  /\ cursor["containers"] <= newest
  /\ cursor["movements"] # 0 =>
       \E m \in local["movements"] : m.key = cursor["movements"]

\* What the worker has read, while the warehouse goes on: the batch is all there
\* is from the cursor to the batch's end, and a row of it that has changed since
\* will be read again, but for rows that are late or tied.
BatchInv ==
  /\ pc # "position" => position = cursor[table]
  /\ pc \in {"position", "read"} => batch = {}
  /\ OneRowEach(batch) /\ IsFiniteSet(batch)
  /\ \A s \in batch :
       /\ s.at > position
       /\ table = "containers" => s.at <= newest
       /\ table = "movements" => s \in local["movements"]
  /\ pc = "ties" =>
       /\ table = "containers"
       /\ \A r, s \in batch : r.at = s.at
       /\ \A r \in local[table], s \in batch :
            r.at > position /\ r.at < s.at => r.late
  /\ pc = "send" =>
       /\ \A r \in local[table], s \in batch :
            r.at > position /\ r.at <= s.at => r \in batch \/ r.late \/ r.tied
       /\ \A r \in local[table], s \in batch :
            r.key = s.key => r = s \/ r.late \/ r.at > s.at

SyncInv ==
  TypesOK /\ TablesInv /\ OpenInv /\ ReplicaInv /\ BatchInv /\ CursorExact

\* It says all of TypeOK: with one row for each key the keys are as many.
LEMMA TypeOKFollows ==
  ASSUME SyncInv
  PROVE  TypeOK
<1>1. \A t \in SyncedTables :
        /\ Cardinality(Keys(local[t])) = Cardinality(local[t])
        /\ Cardinality(Keys(cloud[t])) = Cardinality(cloud[t])
  BY KeysCounted DEF SyncInv, TablesInv, ReplicaInv
<1> QED
  BY <1>1 DEF SyncInv, TypesOK, TypeOK

\* Nothing is committed, read or sent at the start.
LEMMA InitSync == Init => SyncInv
<1> SUFFICES ASSUME Init PROVE SyncInv
  OBVIOUS
<1> USE DEF Init, SyncedTables
<1>1. TypesOK
  BY SyncAssumption DEF TypesOK
<1>2. TablesInv /\ ReplicaInv
  BY FS_EmptySet DEF TablesInv, ReplicaInv, OneRowEach
<1>3. OpenInv
  BY DEF OpenInv
<1>4. BatchInv
  BY FS_EmptySet DEF BatchInv, OneRowEach
<1>5. CursorExact
  BY DEF CursorExact, Skipped
<1> QED
  BY <1>1, <1>2, <1>3, <1>4, <1>5 DEF SyncInv

-----------------------------------------------------------------------------
(* The worker's steps *)

\* Whatever ends its work on a batch, the worker holds nothing after it.
LEMMA BatchDropped ==
  ASSUME SyncInv, UNCHANGED localVars,
         pc' = "position", position' = 0, batch' = {}, table' \in SyncedTables,
         outages' \in 0..MaxOutages,
         cloud' \in [SyncedTables -> SUBSET Row], cursor' \in [SyncedTables -> Nat],
         ReplicaInv', CursorExact'
  PROVE  SyncInv'
<1> USE DEF SyncInv
<1>1. TypesOK'
  BY DEF TypesOK, localVars
<1>2. TablesInv' /\ OpenInv'
  BY DEF TablesInv, OpenInv, localVars
<1>3. BatchInv'
  BY FS_EmptySet DEF BatchInv, OneRowEach
<1> QED
  BY <1>1, <1>2, <1>3

\* A pass that goes on with the next table, or that is cut off, with nothing sent.
LEMMA NothingSent ==
  ASSUME SyncInv, UNCHANGED <<localVars, cloud, cursor>>,
         (NextTable /\ UNCHANGED outages) \/ Interrupted
  PROVE  SyncInv'
<1>1. /\ pc' = "position" /\ position' = 0 /\ batch' = {}
      /\ table' \in SyncedTables
  BY DEF NextTable, Interrupted, SyncedTables
<1>2. outages' \in 0..MaxOutages
  BY SyncAssumption DEF SyncInv, TypesOK, Interrupted
<1>3. cloud' \in [SyncedTables -> SUBSET Row] /\ cursor' \in [SyncedTables -> Nat]
  BY DEF SyncInv, TypesOK
<1>4. ReplicaInv' /\ CursorExact'
  BY DEF SyncInv, ReplicaInv, CursorExact, Skipped, localVars
<1> QED
  BY <1>1, <1>2, <1>3, <1>4, BatchDropped

\* Reading the cursor keeps the invariant: the pass now goes by what the replica says.
LEMMA ReadPositionSync ==
  ASSUME SyncInv, ReadPosition
  PROVE  SyncInv'
<1> USE DEF SyncInv, ReadPosition, localVars
<1>1. TypesOK'
  BY DEF TypesOK
<1>2. TablesInv' /\ OpenInv' /\ ReplicaInv' /\ CursorExact'
  BY DEF TablesInv, OpenInv, ReplicaInv, CursorExact, Skipped
<1>3. BatchInv'
  <2>1. batch = {}
    BY DEF BatchInv, TypesOK
  <2> QED
    BY <2>1, FS_EmptySet DEF BatchInv, OneRowEach
<1> QED
  BY <1>1, <1>2, <1>3

\* A worker that only reads rows keeps the invariant if its batch is in order.
LEMMA RowsRead ==
  ASSUME SyncInv, UNCHANGED <<localVars, cloud, cursor, table, position, outages>>,
         batch' \subseteq local[table], batch' # {}, pc' \in {"ties", "send"},
         pc # "position", \A s \in batch' : s.at > position,
         pc' = "ties" =>
           /\ table = "containers"
           /\ \A r, s \in batch' : r.at = s.at
           /\ \A r \in local[table], s \in batch' :
                r.at > position /\ r.at < s.at => r.late,
         pc' = "send" =>
           \A r \in local[table], s \in batch' :
             r.at > position /\ r.at <= s.at => r \in batch' \/ r.late \/ r.tied
  PROVE  SyncInv'
<1> USE DEF SyncInv
<1>0. /\ table \in SyncedTables
      /\ local[table] \subseteq Row /\ OneRowEach(local[table])
      /\ IsFiniteSet(local[table])
  BY DEF TypesOK, TablesInv
<1>1. TypesOK'
  BY <1>0 DEF TypesOK, localVars
<1>2. TablesInv' /\ OpenInv' /\ ReplicaInv' /\ CursorExact'
  BY DEF TablesInv, OpenInv, ReplicaInv, CursorExact, Skipped, localVars
<1>3. OneRowEach(batch') /\ IsFiniteSet(batch')
  BY <1>0, FS_Subset DEF OneRowEach
<1>4. \A s \in batch' :
        /\ table = "containers" => s.at <= newest
        /\ table = "movements" => s \in local["movements"]
  BY DEF TablesInv, TypesOK
<1>5. \A r \in local[table], s \in batch' : r.key = s.key => r = s
  BY <1>0 DEF OneRowEach
<1>6. BatchInv'
  BY <1>3, <1>4, <1>5 DEF BatchInv, localVars
<1> QED
  BY <1>1, <1>2, <1>6

\* The first rows after the cursor.
LEMMA ReadBatchSync ==
  ASSUME SyncInv, ReadBatch
  PROVE  SyncInv'
<1>1. CASE NextTable
  BY <1>1, NothingSent DEF ReadBatch, localVars
<1>2. CASE /\ NewRows # {}
           /\ batch' = FirstRows(NewRows)
           /\ pc' = IF SplitsOneStamp(FirstRows(NewRows), table) THEN "ties" ELSE "send"
           /\ UNCHANGED <<table, position>>
  <2>1. /\ NewRows \in SUBSET Row /\ NewRows \subseteq local[table]
        /\ IsFiniteSet(NewRows) /\ table \in SyncedTables
    <3>1. /\ table \in SyncedTables
          /\ local[table] \subseteq Row /\ IsFiniteSet(local[table])
      BY DEF SyncInv, TypesOK, TablesInv
    <3>2. NewRows \subseteq local[table]
      BY DEF NewRows
    <3> QED
      BY <3>1, <3>2, FS_Subset
  <2>2. /\ batch' # {} /\ batch' \subseteq NewRows
        /\ \A r \in NewRows, s \in batch' : Before(r, s) => r \in batch'
    BY <1>2, <2>1, FirstRowsAreFirst
  <2>3. ASSUME NEW r \in local[table], NEW s \in batch', r.at > position, r.at < s.at
        PROVE  r \in batch'
    BY <2>2, <2>3 DEF NewRows, Before
  <2>4. CASE pc' = "ties"
    <3>1. /\ table = "containers"
          /\ Cardinality({r.at : r \in batch'}) = 1
      BY <1>2, <2>1, <2>4 DEF SplitsOneStamp, ById, SyncedTables
    <3>2. IsFiniteSet({r.at : r \in batch'})
      <4> DEFINE f == [r \in batch' |-> r.at]
      <4>1. IsFiniteSet(batch')
        BY <2>1, <2>2, FS_Subset
      <4>2. f \in [batch' -> {r.at : r \in batch'}]
            /\ \A y \in {r.at : r \in batch'} : \E x \in batch' : f[x] = y
        OBVIOUS
      <4> HIDE DEF f
      <4> QED
        BY <4>1, <4>2, ImageFinite
    <3>3. PICK a : {r.at : r \in batch'} = {a}
      BY <3>1, <3>2, FS_Singleton
    <3>4. \A r, s \in batch' : r.at = s.at
      BY <3>3
    <3>5. \A r \in local[table], s \in batch' :
            r.at > position /\ r.at < s.at => r.late
      <4> SUFFICES ASSUME NEW r \in local[table], NEW s \in batch',
                          r.at > position, r.at < s.at
                   PROVE  FALSE
        OBVIOUS
      <4>1. r.at = s.at /\ s.at \in Nat
        BY <2>1, <2>2, <2>3, <3>4 DEF Row
      <4> QED
        BY <4>1
    <3> QED
      BY <1>2, <2>1, <2>2, <2>4, <3>1, <3>4, <3>5, RowsRead DEF ReadBatch, NewRows
  <2>5. CASE pc' = "send"
    <3>1. ASSUME NEW r \in local[table], NEW s \in batch', r.at > position, r.at <= s.at
          PROVE  r \in batch' \/ r.tied
      <4>1. /\ s \in local[table] /\ r \in NewRows
            /\ r.at \in Nat /\ s.at \in Nat /\ r.key \in Nat /\ s.key \in Nat
        BY <2>1, <2>2, <3>1 DEF NewRows, Row
      <4>2. CASE r.at < s.at
        BY <2>3, <3>1, <4>2
      <4>3. CASE r.at = s.at /\ table = "containers"
        BY <4>1, <4>3 DEF SyncInv, TablesInv
      <4>4. CASE r.at = s.at /\ table = "movements"
        <5>1. r.key = s.key
          BY <4>1, <4>4 DEF SyncInv, TablesInv
        <5>2. r = s
          BY <2>1, <4>1, <5>1 DEF SyncInv, TablesInv, OneRowEach
        <5> QED
          BY <5>2
      <4> QED
        BY <2>1, <3>1, <4>1, <4>2, <4>3, <4>4 DEF SyncedTables
    <3> QED
      BY <1>2, <2>1, <2>2, <2>5, <3>1, RowsRead DEF ReadBatch, NewRows
  <2> QED
    BY <1>2, <2>4, <2>5
<1> QED
  BY <1>1, <1>2 DEF ReadBatch

\* All rows of the stamp that filled a batch.
LEMMA ReadTiesSync ==
  ASSUME SyncInv, ReadTies
  PROVE  SyncInv'
<1> DEFINE tied == {r \in local[table] : \E s \in batch : r.at = s.at}
<1>1. CASE NextTable
  BY <1>1, NothingSent DEF ReadTies, localVars
<1>2. CASE tied # {} /\ batch' = tied /\ pc' = "send" /\ UNCHANGED <<table, position>>
  <2>1. /\ batch' \subseteq local[table] /\ pc = "ties"
        /\ \A s \in batch' : s.at > position
    BY <1>2 DEF ReadTies, SyncInv, BatchInv
  <2>2. ASSUME NEW r \in local[table], NEW s \in batch', r.at > position, r.at <= s.at
        PROVE  r \in batch' \/ r.late
    <3>1. PICK b \in batch : s.at = b.at
      BY <1>2
    <3>2. r.at \in Nat /\ b.at \in Nat
      BY DEF SyncInv, TypesOK, Row
    <3>3. CASE r.at = b.at
      BY <1>2, <3>3
    <3>4. CASE r.at < b.at
      BY <2>1, <2>2, <3>4 DEF SyncInv, BatchInv
    <3> QED
      BY <2>2, <3>1, <3>2, <3>3, <3>4
  <2> QED
    BY <1>2, <2>1, <2>2, RowsRead DEF ReadTies
<1> QED
  BY <1>1, <1>2 DEF ReadTies

-----------------------------------------------------------------------------
(* Sending a batch *)

\* The batch is in the replica once it is upserted, and of the other rows the
\* replica keeps those the batch has no newer one for.
LEMMA Upserted ==
  ASSUME SyncInv, pc = "send"
  PROVE  /\ Upsert(batch) \subseteq Row
         /\ OneRowEach(Upsert(batch)) /\ IsFiniteSet(Upsert(batch))
         /\ batch \subseteq Upsert(batch)
         /\ \A c \in Upsert(batch) : c \in cloud[table] \/ c \in batch
         /\ \A c \in cloud[table] :
              \/ c \in Upsert(batch)
              \/ table = "containers" /\ \E s \in batch : s.key = c.key
<1>1. /\ table \in SyncedTables
      /\ cloud[table] \subseteq Row /\ OneRowEach(cloud[table])
      /\ IsFiniteSet(cloud[table])
      /\ batch \subseteq Row /\ OneRowEach(batch) /\ IsFiniteSet(batch)
      /\ position = cursor[table]
  BY DEF SyncInv, TypesOK, ReplicaInv, BatchInv
<1>2. CASE table = "movements"
  <2>1. ASSUME NEW s \in batch PROVE s.key \notin Keys(cloud[table])
    <3> SUFFICES ASSUME NEW c \in cloud[table], c.key = s.key PROVE FALSE
      BY DEF Keys
    <3>1. s.at = s.key /\ c.at = c.key
      BY <1>2 DEF SyncInv, TablesInv, ReplicaInv, BatchInv
    <3>2. s.at > cursor[table] /\ c.at <= cursor[table]
      BY <1>1 DEF SyncInv, BatchInv, CursorExact
    <3>3. s.at \in Nat /\ cursor[table] \in Nat
      BY <1>1 DEF Row, SyncInv, TypesOK
    <3> QED
      BY <3>1, <3>2, <3>3
  <2>2. Upsert(batch) = cloud[table] \cup batch
    BY <1>2, <2>1 DEF Upsert, ById
  <2>3. OneRowEach(Upsert(batch))
    BY <1>1, <2>1, <2>2 DEF OneRowEach, Keys
  <2> QED
    BY <1>1, <2>2, <2>3, FS_Union
<1>3. CASE table = "containers"
  <2> DEFINE kept == {r \in cloud[table] : r.key \notin Keys(batch)}
  <2>1. Upsert(batch) = kept \cup batch
    BY <1>3 DEF Upsert, ById
  <2>2. OneRowEach(Upsert(batch))
    BY <1>1, <2>1 DEF OneRowEach, Keys
  <2>3. IsFiniteSet(kept \cup batch)
    BY <1>1, FS_Subset, FS_Union
  <2>4. \A c \in cloud[table] :
          c \in Upsert(batch) \/ \E s \in batch : s.key = c.key
    BY <2>1 DEF Keys
  <2> QED
    BY <1>1, <1>3, <2>1, <2>2, <2>3, <2>4
<1> QED
  BY <1>1, <1>2, <1>3 DEF SyncedTables

\* The rows and the cursor land together: what the cursor now passes has landed,
\* now or before, or is late or tied.
LEMMA SendBatchSync ==
  ASSUME SyncInv, SendBatch
  PROVE  SyncInv'
<1>1. /\ table \in SyncedTables /\ pc = "send" /\ position = cursor[table]
      /\ UNCHANGED localVars
      /\ cloud' = [cloud EXCEPT ![table] = Upsert(batch)]
  BY DEF SendBatch, SyncInv, TypesOK, BatchInv
<1>2. PICK last \in batch : /\ \A s \in batch : s.at <= last.at
                            /\ cursor' = [cursor EXCEPT ![table] = last.at]
  BY DEF SendBatch
<1>3. /\ pc' = "position" /\ position' = 0 /\ batch' = {} /\ table' \in SyncedTables
  BY DEF SendBatch, NextTable, Interrupted, SyncedTables
<1>4. outages' \in 0..MaxOutages
  BY SyncAssumption DEF SendBatch, SyncInv, TypesOK, Interrupted
<1>5. /\ cloud \in [SyncedTables -> SUBSET Row] /\ cursor \in [SyncedTables -> Nat]
      /\ local \in [SyncedTables -> SUBSET Row]
      /\ batch \subseteq Row /\ last.at \in Nat
      /\ last.at > cursor[table]
  BY <1>1 DEF SyncInv, TypesOK, BatchInv, Row
<1>6. /\ cloud' \in [SyncedTables -> SUBSET Row] /\ cursor' \in [SyncedTables -> Nat]
      /\ cloud'[table] = Upsert(batch) /\ cursor'[table] = last.at
      /\ \A t \in SyncedTables \ {table} : cloud'[t] = cloud[t] /\ cursor'[t] = cursor[t]
  BY <1>1, <1>2, <1>5, Upserted
<1>7. ReplicaInv'
  <2>1. \A t \in SyncedTables : OneRowEach(cloud'[t]) /\ IsFiniteSet(cloud'[t])
    BY <1>1, <1>6, Upserted DEF SyncInv, ReplicaInv
  <2>2. ASSUME NEW r \in cloud'["movements"] PROVE r.at = r.key
    <3>1. r \in cloud["movements"] \/ (table = "movements" /\ r \in batch)
      BY <1>1, <1>6, <2>2, Upserted DEF SyncedTables
    <3> QED
      BY <3>1 DEF SyncInv, ReplicaInv, TablesInv, BatchInv
  <2>3. cursor'["containers"] <= newest
    BY <1>2, <1>6 DEF SyncInv, ReplicaInv, BatchInv, SyncedTables
  <2>4. cursor'["movements"] # 0 =>
          \E m \in local["movements"] : m.key = cursor'["movements"]
    <3>1. CASE table = "movements"
      <4>1. last \in local["movements"] /\ last.key = last.at
        BY <3>1 DEF SyncInv, BatchInv, TablesInv
      <4> QED
        BY <1>6, <3>1, <4>1
    <3>2. CASE table # "movements"
      BY <1>6, <3>2 DEF SyncInv, ReplicaInv, SyncedTables
    <3> QED
      BY <3>1, <3>2
  <2> QED
    BY <1>1, <2>1, <2>2, <2>3, <2>4 DEF ReplicaInv, localVars
<1>8. CursorExact'
  <2>1. ASSUME NEW r \in local[table], r.at <= last.at, r \notin Upsert(batch)
        PROVE  r.late \/ r.tied
    <3>1. r \in Row /\ r.at \in Nat /\ cursor[table] \in Nat
      BY <1>1, <1>5 DEF Row
    <3>2. CASE r.at <= cursor[table] /\ r \notin cloud[table]
      BY <1>1, <3>2 DEF SyncInv, CursorExact, Skipped
    <3>3. CASE r.at <= cursor[table] /\ r \in cloud[table]
      <4>1. PICK s \in batch : s.key = r.key
        BY <1>1, <2>1, <3>3, Upserted
      <4>2. s.at \in Nat /\ s.at > cursor[table]
        BY <1>1, <1>5 DEF SyncInv, BatchInv, Row
      <4>3. r = s \/ r.late \/ r.at > s.at
        BY <1>1, <4>1 DEF SyncInv, BatchInv
      <4> QED
        BY <3>1, <3>3, <4>2, <4>3
    <3>4. CASE r.at > position
      <4>1. r \in batch \/ r.late \/ r.tied
        BY <1>1, <2>1, <3>4 DEF SyncInv, BatchInv
      <4> QED
        BY <1>1, <2>1, <4>1, Upserted
    <3> QED
      BY <1>1, <3>1, <3>2, <3>3, <3>4
  <2>2. ASSUME NEW c \in Upsert(batch) PROVE c.at <= last.at
    <3>1. CASE c \in batch
      BY <1>2, <3>1
    <3>2. CASE c \in cloud[table]
      <4>1. c.at <= cursor[table] /\ c.at \in Nat /\ cursor[table] \in Nat
        BY <1>1, <1>5, <3>2 DEF SyncInv, CursorExact, Row
      <4> QED
        BY <1>5, <4>1
    <3> QED
      BY <1>1, <3>1, <3>2, Upserted
  <2>3. ASSUME NEW t \in SyncedTables
        PROVE  /\ \A r \in local[t] :
                    r.at <= cursor'[t] /\ r \notin cloud'[t] => r.late \/ r.tied
               /\ \A c \in cloud'[t] : c.at <= cursor'[t]
    <3>1. CASE t = table
      BY <1>6, <2>1, <2>2, <3>1
    <3>2. CASE t # table
      BY <1>6, <3>2 DEF SyncInv, CursorExact, Skipped
    <3> QED
      BY <3>1, <3>2
  <2> QED
    BY <1>1, <2>3 DEF CursorExact, Skipped, localVars
<1> QED
  BY <1>1, <1>3, <1>4, <1>6, <1>7, <1>8, BatchDropped

-----------------------------------------------------------------------------
(* The warehouse's steps before a commit *)

\* What a transaction does before it commits is seen by nobody.
LEMMA Unseen ==
  ASSUME SyncInv, UNCHANGED <<local, newest, workerVars>>,
         open' \subseteq Transaction, OpenInv',
         started' \in 0..MaxTx, started <= started',
         nextId' \in Nat \ {0}, nextId <= nextId'
  PROVE  SyncInv'
<1> USE DEF SyncInv, workerVars
<1>1. TypesOK'
  BY DEF TypesOK
<1>2. TablesInv'
  <2>1. ASSUME NEW m \in local["movements"]
        PROVE  m.key \in 1..(nextId' - 1)
    BY DEF TablesInv, TypesOK
  <2> QED
    BY <2>1 DEF TablesInv
<1>3. ReplicaInv' /\ BatchInv' /\ CursorExact'
  BY DEF ReplicaInv, BatchInv, CursorExact, Skipped
<1> QED
  BY <1>1, <1>2, <1>3

\* So does a transaction that begins, with the next start time and nothing written.
LEMMA BeginSync ==
  ASSUME SyncInv, Begin
  PROVE  SyncInv'
<1> DEFINE new == [at |-> started + 1, containers |-> {}, movements |-> {}]
<1>1. /\ started \in Nat /\ started < MaxTx /\ newest \in 0..started
      /\ started' = started + 1
      /\ open' = open \cup {new}
      /\ UNCHANGED <<local, nextId, newest, workerVars>>
      /\ nextId \in Nat \ {0} /\ open \subseteq Transaction
  BY SyncAssumption DEF Begin, SyncInv, TypesOK
<1>2. /\ new \in Transaction
      /\ new.at = started + 1 /\ new.containers = {} /\ new.movements = {}
  BY <1>1 DEF Transaction
<1> HIDE DEF new
<1>3. \A tx \in open : tx.at \in 1..started /\ tx.at # newest
  BY DEF SyncInv, OpenInv
<1>4. \A r \in local["containers"] : r.at \in 1..newest
  BY DEF SyncInv, TablesInv
<1>5. OpenInv'
  <2> SUFFICES ASSUME NEW tx \in open'
               PROVE  /\ tx.at \in 1..started' /\ tx.at # newest
                      /\ \A r \in local["containers"] : r.at # tx.at
                      /\ \A other \in open' : other.at = tx.at => other = tx
                      /\ IsFiniteSet(tx.containers) /\ OneEach(tx.containers)
                      /\ IsFiniteSet(tx.movements) /\ OneEach(tx.movements)
                      /\ \A w \in tx.movements :
                           /\ w[1] \in 1..(nextId - 1)
                           /\ \A m \in local["movements"] : m.key # w[1]
                           /\ \A other \in open' \ {tx} :
                                \A v \in other.movements : v[1] # w[1]
    BY <1>1 DEF OpenInv
  <2>1. CASE tx = new
    <3>1. tx.at \in 1..started' /\ tx.at # newest
      BY <1>1, <1>2, <2>1
    <3>2. \A r \in local["containers"] : r.at # tx.at
      BY <1>1, <1>2, <1>4, <2>1
    <3>3. \A other \in open : other.at # started + 1
      BY <1>1, <1>3
    <3>4. \A other \in open' : other.at = tx.at => other = tx
      BY <1>1, <1>2, <2>1, <3>3
    <3>5. tx.containers = {} /\ tx.movements = {}
      BY <1>2, <2>1
    <3> QED
      BY <3>1, <3>2, <3>4, <3>5, FS_EmptySet DEF OneEach
  <2>2. CASE tx \in open
    <3>1. tx.at \in 1..started' /\ tx.at # started + 1
      BY <1>1, <1>3, <2>2
    <3>2. \A other \in open' : other.at = tx.at => other = tx
      BY <1>1, <1>2, <2>2, <3>1 DEF SyncInv, OpenInv
    <3>3. \A w \in tx.movements : \A other \in open' \ {tx} :
            \A v \in other.movements : v[1] # w[1]
      BY <1>1, <1>2, <2>2 DEF SyncInv, OpenInv
    <3> QED
      BY <2>2, <3>1, <3>2, <3>3 DEF SyncInv, OpenInv
  <2> QED
    BY <1>1, <2>1, <2>2
<1>6. started' \in 0..MaxTx /\ started <= started'
  BY <1>1, SyncAssumption
<1>7. open' \subseteq Transaction
  BY <1>1, <1>2
<1> QED
  BY <1>1, <1>5, <1>6, <1>7, Unseen

\* A transaction that writes its rows: one of each key, with its own stamp and
\* ids it had or has just drawn.
LEMMA Writes ==
  ASSUME SyncInv, NEW tx \in open, NEW new \in Transaction,
         new.at = tx.at, open' = (open \ {tx}) \cup {new},
         IsFiniteSet(new.containers), OneEach(new.containers),
         IsFiniteSet(new.movements), OneEach(new.movements),
         UNCHANGED <<local, started, newest, workerVars>>,
         nextId' \in Nat \ {0}, nextId <= nextId',
         \A w \in new.movements :
           w \in tx.movements \/ w[1] \in nextId..(nextId' - 1)
  PROVE  SyncInv'
<1>1. /\ open \subseteq Transaction /\ started \in 0..MaxTx /\ nextId \in Nat
      /\ started \in Nat
  BY SyncAssumption DEF SyncInv, TypesOK
<1>2. OpenInv
  BY DEF SyncInv
<1>3. ASSUME NEW other \in open, NEW v \in other.movements
      PROVE  v[1] \in 1..(nextId - 1) /\ v[1] \in 1..(nextId' - 1)
  <2>1. v[1] \in 1..(nextId - 1)
    BY <1>2 DEF OpenInv
  <2> QED
    BY <1>1, <2>1
<1>4. ASSUME NEW w \in new.movements
      PROVE  /\ w[1] \in 1..(nextId' - 1)
             /\ \A m \in local["movements"] : m.key # w[1]
             /\ \A other \in open \ {tx} : \A v \in other.movements : v[1] # w[1]
  <2>1. CASE w \in tx.movements
    BY <1>2, <1>3, <2>1 DEF OpenInv
  <2>2. CASE w[1] \in nextId..(nextId' - 1)
    <3>1. nextId >= 1 /\ w[1] \in Nat /\ nextId <= w[1]
      BY <1>1, <2>2 DEF SyncInv, TypesOK
    <3>2. \A m \in local["movements"] : m.key \in 1..(nextId - 1)
      BY DEF SyncInv, TablesInv
    <3>3. w[1] \in 1..(nextId' - 1)
      BY <1>1, <2>2, <3>1
    <3>4. \A k \in 1..(nextId - 1) : k # w[1]
      BY <1>1, <3>1
    <3> QED
      BY <1>3, <3>2, <3>3, <3>4
  <2> QED
    BY <2>1, <2>2
<1>5. OpenInv'
  <2> SUFFICES ASSUME NEW x \in open'
               PROVE  /\ x.at \in 1..started /\ x.at # newest
                      /\ \A r \in local["containers"] : r.at # x.at
                      /\ \A other \in open' : other.at = x.at => other = x
                      /\ IsFiniteSet(x.containers) /\ OneEach(x.containers)
                      /\ IsFiniteSet(x.movements) /\ OneEach(x.movements)
                      /\ \A w \in x.movements :
                           /\ w[1] \in 1..(nextId' - 1)
                           /\ \A m \in local["movements"] : m.key # w[1]
                           /\ \A other \in open' \ {x} :
                                \A v \in other.movements : v[1] # w[1]
    BY DEF OpenInv
  <2>1. \A other \in open \ {tx} : other.at # new.at
    BY <1>2 DEF OpenInv
  <2>2. CASE x = new
    <3>1. /\ x.at \in 1..started /\ x.at # newest
          /\ \A r \in local["containers"] : r.at # x.at
      BY <1>2, <2>2 DEF OpenInv
    <3> QED
      BY <1>4, <2>1, <2>2, <3>1
  <2>3. CASE x \in open \ {tx}
    <3>1. /\ x.at \in 1..started /\ x.at # newest
          /\ \A r \in local["containers"] : r.at # x.at
          /\ IsFiniteSet(x.containers) /\ OneEach(x.containers)
          /\ IsFiniteSet(x.movements) /\ OneEach(x.movements)
          /\ \A w \in x.movements : \A m \in local["movements"] : m.key # w[1]
      BY <1>2, <2>3 DEF OpenInv
    <3>2. \A other \in open' : other.at = x.at => other = x
      BY <1>2, <2>1, <2>3 DEF OpenInv
    <3>3. \A w \in x.movements : \A other \in open' \ {x} :
            \A v \in other.movements : v[1] # w[1]
      BY <1>2, <1>4, <2>3 DEF OpenInv
    <3> QED
      BY <1>3, <2>3, <3>1, <3>2, <3>3
  <2> QED
    BY <2>2, <2>3
<1> QED
  BY <1>1, <1>5, Unseen

\* So does one that puts a container on another, in a row nobody sees yet.
LEMMA StackSync ==
  ASSUME SyncInv, NEW tx \in open, NEW c \in Containers,
         NEW p \in {0} \cup Containers, Stack(tx, c, p)
  PROVE  SyncInv'
<1> DEFINE new == [tx EXCEPT !.containers = {<<c, p>>}]
<1>1. tx \in Transaction /\ c \in Nat /\ p \in Nat /\ nextId \in Nat \ {0}
  BY SyncAssumption DEF SyncInv, TypesOK
<1>2. /\ new \in Transaction /\ new.at = tx.at
      /\ new.containers = {<<c, p>>} /\ new.movements = tx.movements
  BY <1>1 DEF Transaction
<1>3. /\ open' = (open \ {tx}) \cup {new}
      /\ UNCHANGED <<local, started, nextId, newest, workerVars>>
  BY DEF Stack
<1> HIDE DEF new
<1>4. IsFiniteSet(new.containers) /\ OneEach(new.containers)
  BY <1>2, FS_Singleton DEF OneEach
<1>5. IsFiniteSet(new.movements) /\ OneEach(new.movements)
  BY <1>2 DEF SyncInv, OpenInv
<1>6. nextId' \in Nat \ {0} /\ nextId <= nextId'
  BY <1>1, <1>3
<1> QED
  BY <1>2, <1>3, <1>4, <1>5, <1>6, Writes

\* The movement's id of c, of a tree S, if the next of the sequence is n.
IdOf(n, S, c) == n + Cardinality({d \in S : d < c})

\* The ids drawn for the containers of a tree are as many as the containers, and
\* different ones.
LEMMA IdsDrawn ==
  ASSUME NEW S \in SUBSET Containers, NEW n \in Nat
  PROVE  /\ IsFiniteSet(S) /\ Cardinality(S) \in Nat
         /\ \A c \in S : IdOf(n, S, c) \in n..(n + Cardinality(S) - 1)
         /\ \A c, d \in S : IdOf(n, S, c) = IdOf(n, S, d) => c = d
<1> USE DEF IdOf
<1> DEFINE Below(c) == {d \in S : d < c}
<1>1. IsFiniteSet(S) /\ Cardinality(S) \in Nat /\ S \subseteq Nat
  BY SyncAssumption, FS_Subset, FS_CardinalityType
<1>2. ASSUME NEW U, NEW V, U \subseteq V, V \subseteq S, U # V
      PROVE  /\ Cardinality(U) < Cardinality(V)
             /\ Cardinality(U) \in Nat /\ Cardinality(V) \in Nat
  <2>1. IsFiniteSet(V) /\ IsFiniteSet(U)
    BY <1>1, <1>2, FS_Subset
  <2>2. Cardinality(U) \in Nat /\ Cardinality(V) \in Nat
    BY <2>1, FS_CardinalityType
  <2>3. Cardinality(U) <= Cardinality(V) /\ Cardinality(U) # Cardinality(V)
    BY <1>2, <2>1, FS_Subset
  <2> QED
    BY <2>2, <2>3
<1>3. ASSUME NEW c \in S
      PROVE  /\ Cardinality(Below(c)) < Cardinality(S)
             /\ Cardinality(Below(c)) \in Nat
  <2>1. Below(c) \subseteq S /\ c \notin Below(c)
    BY <1>1
  <2> HIDE DEF Below
  <2> QED
    BY <1>2, <2>1
<1>4. ASSUME NEW c \in S, NEW d \in S, c < d
      PROVE  Cardinality(Below(c)) < Cardinality(Below(d))
  <2>1. c \in Nat /\ d \in Nat /\ \A e \in S : e \in Nat
    BY <1>1
  <2>2. ~(c < c) /\ \A e \in S : e < c => e < d
    BY <1>4, <2>1
  <2>3. Below(c) \subseteq Below(d) /\ Below(d) \subseteq S
        /\ c \in Below(d) /\ c \notin Below(c)
    BY <1>4, <2>2
  <2> HIDE DEF Below
  <2> QED
    BY <1>2, <2>3
<1>5. ASSUME NEW c \in S
      PROVE  n + Cardinality(Below(c)) \in n..(n + Cardinality(S) - 1)
  <2> HIDE DEF Below
  <2> QED
    BY <1>1, <1>3
<1>6. ASSUME NEW c \in S, NEW d \in S,
             n + Cardinality(Below(c)) = n + Cardinality(Below(d))
      PROVE  c = d
  <2>1. Cardinality(Below(c)) \in Nat /\ Cardinality(Below(d)) \in Nat
    BY <1>3
  <2>2. ~(c < d) /\ ~(d < c)
    <3>1. /\ c < d => Cardinality(Below(c)) < Cardinality(Below(d))
          /\ d < c => Cardinality(Below(d)) < Cardinality(Below(c))
      BY <1>4
    <3> HIDE DEF Below
    <3> QED
      BY <1>6, <2>1, <3>1
  <2> QED
    BY <1>1, <2>2
<1> QED
  BY <1>1, <1>5, <1>6

\* So does one that moves containers, with the next ids of movements.
LEMMA MoveSync ==
  ASSUME SyncInv, NEW tx \in open, NEW S \in SUBSET Containers, Move(tx, S)
  PROVE  SyncInv'
<1> DEFINE Id(c) == IdOf(nextId, S, c)
           rows == {<<r.key, r.refers>> : r \in RowsOf(S)}
           ids == {<<Id(c), c>> : c \in S}
           new == [tx EXCEPT !.containers = rows, !.movements = ids]
<1>1. /\ tx \in Transaction /\ nextId \in Nat /\ nextId # 0
      /\ local["containers"] \subseteq Row
      /\ RowsOf(S) \subseteq local["containers"] /\ S \subseteq Nat
      /\ OneRowEach(local["containers"]) /\ IsFiniteSet(local["containers"])
  BY SyncAssumption DEF SyncInv, TypesOK, TablesInv, SyncedTables, RowsOf
<1>2. /\ open' = (open \ {tx}) \cup {new}
      /\ UNCHANGED <<local, started, newest, workerVars>>
  BY DEF Move, IdOf
<1>3. /\ IsFiniteSet(S) /\ Cardinality(S) \in Nat
      /\ \A c \in S : Id(c) \in nextId..(nextId + Cardinality(S) - 1)
      /\ \A c, d \in S : Id(c) = Id(d) => c = d
  BY <1>1, IdsDrawn
<1> HIDE DEF Id
<1>4. IsFiniteSet(rows) /\ OneEach(rows) /\ rows \subseteq Nat \X Nat
  <2> DEFINE f == [r \in RowsOf(S) |-> <<r.key, r.refers>>]
  <2>1. IsFiniteSet(RowsOf(S))
    BY <1>1, FS_Subset
  <2>2. f \in [RowsOf(S) -> rows] /\ \A y \in rows : \E x \in RowsOf(S) : f[x] = y
    OBVIOUS
  <2>3. OneEach(rows)
    BY <1>1 DEF OneEach, OneRowEach
  <2>4. rows \subseteq Nat \X Nat
    BY <1>1 DEF Row
  <2> HIDE DEF f, rows
  <2> QED
    BY <2>1, <2>2, <2>3, <2>4, ImageFinite
<1>5. IsFiniteSet(ids) /\ OneEach(ids) /\ ids \subseteq Nat \X Nat
  <2> DEFINE f == [c \in S |-> <<Id(c), c>>]
  <2>1. f \in [S -> ids] /\ \A y \in ids : \E x \in S : f[x] = y
    OBVIOUS
  <2>2. OneEach(ids)
    BY <1>3 DEF OneEach
  <2>3. ids \subseteq Nat \X Nat
    BY <1>1, <1>3
  <2> HIDE DEF f, ids
  <2> QED
    BY <1>3, <2>1, <2>2, <2>3, ImageFinite
<1>6. nextId' = nextId + Cardinality(S)
  BY DEF Move
<1>7. \A w \in ids : w[1] \in nextId..(nextId' - 1)
  <2>1. \A c \in S : Id(c) \in nextId..(nextId' - 1)
    <3> SUFFICES ASSUME NEW c \in S PROVE Id(c) \in nextId..(nextId' - 1)
      OBVIOUS
    <3>1. Id(c) \in Nat /\ nextId <= Id(c) /\ Id(c) <= nextId + Cardinality(S) - 1
      BY <1>1, <1>3
    <3>2. nextId' \in Nat /\ nextId' - 1 = nextId + Cardinality(S) - 1
      BY <1>1, <1>3, <1>6
    <3> QED
      BY <1>1, <3>1, <3>2
  <2>2. \A w \in ids : \E c \in S : w[1] = Id(c)
    OBVIOUS
  <2> QED
    BY <2>1, <2>2
<1> HIDE DEF ids, rows
<1>8. nextId' \in Nat \ {0} /\ nextId <= nextId'
  <2>1. nextId \in Nat /\ nextId # 0 /\ Cardinality(S) \in Nat
    BY <1>1, <1>3
  <2> QED
    BY <1>6, <2>1
<1>9. new \in Transaction /\ new.at = tx.at /\ new.containers = rows /\ new.movements = ids
  BY <1>1, <1>4, <1>5 DEF Transaction
<1> HIDE DEF new
<1> QED
  BY <1>2, <1>4, <1>5, <1>7, <1>8, <1>9, Writes

-----------------------------------------------------------------------------
(* A commit *)

\* The rows a transaction adds to the tables.
NewContainer(tx, w) ==
  [key |-> w[1], at |-> tx.at, refers |-> w[2], late |-> tx.at < newest,
   tied |-> Cardinality(tx.containers) > 1]

NewMovement(w) ==
  [key |-> w[1], at |-> w[1], refers |-> w[2],
   late |-> \E m \in local["movements"] : m.key > w[1], tied |-> FALSE]

\* A container that a transaction commits is a row stamped with its start, and it is
\* late unless that is after all that has been committed.
LEMMA ContainerWritten ==
  ASSUME SyncInv, NEW tx \in open, NEW w \in tx.containers
  PROVE  /\ NewContainer(tx, w) \in Row
         /\ NewContainer(tx, w).key = w[1] /\ NewContainer(tx, w).at = tx.at
         /\ tx.at \in 1..started /\ tx.at # newest
         /\ NewContainer(tx, w).late \/ tx.at > newest
         /\ \A s \in local["containers"] : s.at # tx.at
<1>1. /\ w \in Nat \X Nat /\ tx.at \in Nat /\ newest \in Nat
      /\ tx.at \in 1..started /\ tx.at # newest
      /\ \A s \in local["containers"] : s.at # tx.at
  BY SyncAssumption DEF SyncInv, TypesOK, OpenInv, Transaction
<1> DEFINE late == tx.at < newest
           tied == Cardinality(tx.containers) > 1
<1>2. NewContainer(tx, w) =
        [key |-> w[1], at |-> tx.at, refers |-> w[2], late |-> late, tied |-> tied]
  BY DEF NewContainer
<1>3. late \in BOOLEAN /\ tied \in BOOLEAN
  OBVIOUS
<1>4. late \/ tx.at > newest
  BY <1>1
<1> HIDE DEF late, tied
<1>5. NewContainer(tx, w) \in Row
  BY <1>1, <1>2, <1>3 DEF Row
<1>6. /\ NewContainer(tx, w).key = w[1] /\ NewContainer(tx, w).at = tx.at
      /\ NewContainer(tx, w).late = late
  BY <1>2
<1> QED
  BY <1>1, <1>4, <1>5, <1>6

\* A movement that a transaction commits is a row of an id it was given, and any row
\* of a later id that is there already makes it late.
LEMMA MovementWritten ==
  ASSUME SyncInv, NEW tx \in open, NEW w \in tx.movements
  PROVE  /\ NewMovement(w) \in Row
         /\ NewMovement(w).key = w[1] /\ NewMovement(w).at = w[1]
         /\ w[1] \in 1..(nextId - 1)
         /\ \A m \in local["movements"] :
              m.key # w[1] /\ (m.key > w[1] => NewMovement(w).late)
<1>1. /\ w \in Nat \X Nat /\ w[1] \in 1..(nextId - 1)
      /\ \A m \in local["movements"] : m.key # w[1]
  BY DEF SyncInv, TypesOK, OpenInv, Transaction
<1> DEFINE late == \E m \in local["movements"] : m.key > w[1]
<1>2. NewMovement(w) =
        [key |-> w[1], at |-> w[1], refers |-> w[2], late |-> late, tied |-> FALSE]
  BY DEF NewMovement
<1>3. late \in BOOLEAN
  OBVIOUS
<1>4. \A m \in local["movements"] : m.key > w[1] => late
  OBVIOUS
<1> HIDE DEF late
<1>5. NewMovement(w) \in Row
  BY <1>1, <1>2, <1>3 DEF Row
<1>6. /\ NewMovement(w).key = w[1] /\ NewMovement(w).at = w[1]
      /\ NewMovement(w).late = late
  BY <1>2
<1> QED
  BY <1>1, <1>4, <1>5, <1>6

\* What has changed of the tables.
LEMMA Committed ==
  ASSUME SyncInv, NEW tx \in open, CommitTx(tx)
  PROVE  /\ local' \in [SyncedTables -> SUBSET Row]
         /\ \A t \in SyncedTables : IsFiniteSet(local'[t])
         /\ \A r \in local'["containers"] :
              \/ /\ r \in local["containers"]
                 /\ \A w \in tx.containers : w[1] # r.key
              \/ \E w \in tx.containers : r = NewContainer(tx, w)
         /\ \A m \in local'["movements"] :
              \/ m \in local["movements"]
              \/ \E w \in tx.movements : m = NewMovement(w)
         /\ local["movements"] \subseteq local'["movements"]
         /\ newest' = IF tx.at > newest THEN tx.at ELSE newest
         /\ open' = open \ {tx}
         /\ UNCHANGED <<started, nextId, workerVars>>
<1> DEFINE written == {w[1] : w \in tx.containers}
           kept == {r \in local["containers"] : r.key \notin written}
           cs == {NewContainer(tx, w) : w \in tx.containers}
           ms == {NewMovement(w) : w \in tx.movements}
<1>1. /\ tx \in Transaction
      /\ local["containers"] \subseteq Row /\ local["movements"] \subseteq Row
      /\ IsFiniteSet(local["containers"]) /\ IsFiniteSet(local["movements"])
      /\ IsFiniteSet(tx.containers) /\ IsFiniteSet(tx.movements)
  BY DEF SyncInv, TypesOK, TablesInv, OpenInv, SyncedTables
<1>2. local' = [containers |-> kept \cup cs, movements |-> local["movements"] \cup ms]
  BY DEF CommitTx, NewContainer, NewMovement
<1>3. /\ newest' = IF tx.at > newest THEN tx.at ELSE newest
      /\ open' = open \ {tx}
      /\ UNCHANGED <<started, nextId, workerVars>>
  BY DEF CommitTx
<1>4. cs \subseteq Row /\ IsFiniteSet(cs)
  <2> DEFINE f == [w \in tx.containers |-> NewContainer(tx, w)]
  <2>1. f \in [tx.containers -> cs] /\ \A y \in cs : \E x \in tx.containers : f[x] = y
    OBVIOUS
  <2>2. cs \subseteq Row
    BY ContainerWritten
  <2> HIDE DEF f, cs
  <2> QED
    BY <1>1, <2>1, <2>2, ImageFinite
<1>5. ms \subseteq Row /\ IsFiniteSet(ms)
  <2> DEFINE f == [w \in tx.movements |-> NewMovement(w)]
  <2>1. f \in [tx.movements -> ms] /\ \A y \in ms : \E x \in tx.movements : f[x] = y
    OBVIOUS
  <2>2. ms \subseteq Row
    BY MovementWritten
  <2> HIDE DEF f, ms
  <2> QED
    BY <1>1, <2>1, <2>2, ImageFinite
<1>6. kept \subseteq Row /\ IsFiniteSet(kept)
  BY <1>1, FS_Subset
<1>7. /\ \A r \in kept : r \in local["containers"]
                         /\ \A w \in tx.containers : w[1] # r.key
      /\ \A r \in cs : \E w \in tx.containers : r = NewContainer(tx, w)
      /\ \A m \in ms : \E w \in tx.movements : m = NewMovement(w)
  OBVIOUS
<1> HIDE DEF kept, cs, ms
<1>8. /\ local'["containers"] = kept \cup cs
      /\ local'["movements"] = local["movements"] \cup ms
      /\ local' \in [SyncedTables -> SUBSET Row]
  BY <1>1, <1>2, <1>4, <1>5, <1>6 DEF SyncedTables
<1>9. IsFiniteSet(kept \cup cs) /\ IsFiniteSet(local["movements"] \cup ms)
  BY <1>1, <1>4, <1>5, <1>6, FS_Union
<1> QED
  BY <1>3, <1>7, <1>8, <1>9 DEF SyncedTables

\* The rows of one transaction are tied.
LEMMA WrittenTogether ==
  ASSUME SyncInv, NEW tx \in open, NEW v \in tx.containers, NEW w \in tx.containers,
         v # w
  PROVE  NewContainer(tx, v).tied
<1>1. IsFiniteSet(tx.containers)
  BY DEF SyncInv, OpenInv
<1>2. IsFiniteSet({v}) /\ Cardinality({v}) = 1 /\ w \notin {v}
  BY FS_Singleton
<1>3. Cardinality({v, w}) = 2
  <2>1. Cardinality({v} \cup {w}) = Cardinality({v}) + 1
    BY <1>2, FS_AddElement
  <2>2. {v} \cup {w} = {v, w}
    OBVIOUS
  <2> QED
    BY <1>2, <2>1, <2>2
<1>4. /\ Cardinality({v, w}) <= Cardinality(tx.containers)
      /\ Cardinality(tx.containers) \in Nat
  BY <1>1, FS_Subset, FS_CardinalityType
<1>5. Cardinality(tx.containers) > 1
  BY <1>3, <1>4
<1> QED
  BY <1>5 DEF NewContainer

\* The table of containers after a commit: its new rows have a stamp no row had,
\* and are late unless it is the newest.
LEMMA ContainersCommitted ==
  ASSUME SyncInv, NEW tx \in open, CommitTx(tx)
  PROVE  /\ \A r \in local'["containers"] :
              \/ r \in local["containers"]
              \/ r.at = tx.at /\ (r.late \/ tx.at > newest)
         /\ \A r, s \in local'["containers"] : r # s /\ r.at = s.at => r.tied
         /\ OneRowEach(local'["containers"])
<1> DEFINE old == local["containers"]
           new == local'["containers"]
           Writ(r) == \E w \in tx.containers : r = NewContainer(tx, w)
<1>1. \A r \in new : \/ r \in old /\ \A w \in tx.containers : w[1] # r.key
                     \/ Writ(r)
  BY Committed
<1>2. \A r : Writ(r) => /\ r.at = tx.at /\ (r.late \/ tx.at > newest)
                        /\ \E w \in tx.containers : w[1] = r.key
                        /\ \A s \in old : s.at # r.at
  BY ContainerWritten
<1>3. \A r, s : Writ(r) /\ Writ(s) /\ r # s => r.tied /\ r.key # s.key
  <2> SUFFICES ASSUME NEW v \in tx.containers, NEW w \in tx.containers,
                      NewContainer(tx, v) # NewContainer(tx, w)
               PROVE  /\ NewContainer(tx, v).tied
                      /\ NewContainer(tx, v).key # NewContainer(tx, w).key
    OBVIOUS
  <2>1. v # w
    OBVIOUS
  <2>2. v[1] # w[1]
    BY <2>1 DEF SyncInv, OpenInv, OneEach
  <2> QED
    BY <2>1, <2>2, WrittenTogether, ContainerWritten
<1>4. OneRowEach(old) /\ \A r, s \in old : r # s /\ r.at = s.at => r.tied
  BY DEF SyncInv, TablesInv, SyncedTables
<1> HIDE DEF old, new, Writ
<1>5. \A r \in new : r \in old \/ (r.at = tx.at /\ (r.late \/ tx.at > newest))
  BY <1>1, <1>2
<1>6. \A r, s \in new : r # s /\ r.at = s.at => r.tied
  BY <1>1, <1>2, <1>3, <1>4
<1>7. OneRowEach(new)
  BY <1>1, <1>2, <1>3, <1>4 DEF OneRowEach
<1> QED
  BY <1>5, <1>6, <1>7 DEF old, new

\* The table of movements after a commit: its new rows have ids no row had, and
\* are late if a row with a later one is there already.
LEMMA MovementsCommitted ==
  ASSUME SyncInv, NEW tx \in open, CommitTx(tx)
  PROVE  /\ local["movements"] \subseteq local'["movements"]
         /\ \A m \in local'["movements"] :
              \/ m \in local["movements"]
              \/ /\ m.at = m.key /\ m.key \in 1..(nextId - 1)
                 /\ \E w \in tx.movements : w[1] = m.key
                 /\ \A n \in local["movements"] :
                      n.key # m.key /\ (n.key > m.key => m.late)
         /\ OneRowEach(local'["movements"])
<1> DEFINE old == local["movements"]
           new == local'["movements"]
           Writ(m) == \E w \in tx.movements : m = NewMovement(w)
<1>1. old \subseteq new /\ \A m \in new : m \in old \/ Writ(m)
  BY Committed
<1>2. \A m : Writ(m) => /\ m.at = m.key /\ m.key \in 1..(nextId - 1)
                        /\ \E w \in tx.movements : w[1] = m.key
                        /\ \A n \in old : n.key # m.key /\ (n.key > m.key => m.late)
  <2> SUFFICES ASSUME NEW w \in tx.movements, NEW m, m = NewMovement(w)
               PROVE  /\ m.at = m.key /\ m.key \in 1..(nextId - 1)
                      /\ m.key = w[1]
                      /\ \A n \in old : n.key # m.key /\ (n.key > m.key => m.late)
    OBVIOUS
  <2>1. /\ m.key = w[1] /\ m.at = w[1] /\ w[1] \in 1..(nextId - 1)
        /\ \A n \in old : n.key # w[1] /\ (n.key > w[1] => m.late)
    BY MovementWritten
  <2> QED
    BY <2>1
<1>3. \A l, m : Writ(l) /\ Writ(m) /\ l # m => l.key # m.key
  <2> SUFFICES ASSUME NEW v \in tx.movements, NEW w \in tx.movements,
                      NewMovement(v) # NewMovement(w)
               PROVE  NewMovement(v).key # NewMovement(w).key
    OBVIOUS
  <2>1. v[1] # w[1]
    BY DEF SyncInv, OpenInv, OneEach
  <2> QED
    BY <2>1, MovementWritten
<1>4. OneRowEach(old)
  BY DEF SyncInv, TablesInv, SyncedTables
<1> HIDE DEF old, new, Writ
<1>5. OneRowEach(new)
  BY <1>1, <1>2, <1>3, <1>4 DEF OneRowEach
<1> QED
  BY <1>1, <1>2, <1>5 DEF old, new

\* A commit keeps the invariant: what it puts behind the cursor, or into what the
\* worker has read past, is late.
LEMMA CommitSync ==
  ASSUME SyncInv, NEW tx \in open, CommitTx(tx)
  PROVE  SyncInv'
<1>1. /\ local' \in [SyncedTables -> SUBSET Row]
      /\ \A t \in SyncedTables : IsFiniteSet(local'[t])
      /\ newest' = IF tx.at > newest THEN tx.at ELSE newest
      /\ open' = open \ {tx}
      /\ UNCHANGED <<started, nextId, workerVars>>
  BY Committed
<1>2. /\ tx.at \in Nat /\ newest \in Nat /\ started \in Nat
      /\ tx.at >= 1 /\ tx.at <= started /\ newest <= started
  BY SyncAssumption DEF SyncInv, TypesOK, OpenInv
<1>3. /\ newest' \in Nat /\ newest <= newest' /\ tx.at <= newest'
      /\ newest' \in {newest, tx.at} /\ newest' \in 0..started
  BY <1>1, <1>2
<1>4. TypesOK'
  BY <1>1, <1>3 DEF SyncInv, TypesOK, workerVars
<1>5. TablesInv'
  <2>1. \A t \in SyncedTables : OneRowEach(local'[t])
    BY ContainersCommitted, MovementsCommitted DEF SyncedTables
  <2>2. ASSUME NEW r \in local'["containers"] PROVE r.at \in 1..newest'
    <3>1. r.at \in 1..newest \/ r.at = tx.at
      BY ContainersCommitted DEF SyncInv, TablesInv
    <3> QED
      BY <1>2, <1>3, <3>1
  <2>3. \A m \in local'["movements"] : m.at = m.key /\ m.key \in 1..(nextId - 1)
    BY MovementsCommitted DEF SyncInv, TablesInv
  <2> QED
    BY <1>1, <2>1, <2>2, <2>3, ContainersCommitted DEF TablesInv
<1>6. OpenInv'
  <2>1. ASSUME NEW x \in open \ {tx}
        PROVE  /\ x.at \in 1..started /\ x.at # newest'
               /\ \A r \in local'["containers"] : r.at # x.at
    <3>1. /\ x.at \in 1..started /\ x.at # newest /\ x.at # tx.at
          /\ \A r \in local["containers"] : r.at # x.at
      BY <2>1 DEF SyncInv, OpenInv
    <3> QED
      BY <1>3, <3>1, ContainersCommitted
  <2>2. ASSUME NEW x \in open \ {tx}, NEW w \in x.movements
        PROVE  \A m \in local'["movements"] : m.key # w[1]
    <3>1. /\ \A m \in local["movements"] : m.key # w[1]
          /\ \A v \in tx.movements : v[1] # w[1]
      BY <2>2 DEF SyncInv, OpenInv
    <3> QED
      BY <3>1, MovementsCommitted
  <2> QED
    BY <1>1, <2>1, <2>2 DEF SyncInv, OpenInv
<1>7. ReplicaInv'
  <2>1. cursor["containers"] \in Nat /\ cursor["containers"] <= newest
    BY DEF SyncInv, TypesOK, ReplicaInv, SyncedTables
  <2>2. cursor["containers"] <= newest'
    BY <1>2, <1>3, <2>1
  <2> QED
    BY <1>1, <2>2, MovementsCommitted DEF SyncInv, ReplicaInv, workerVars
<1>8. BatchInv'
  <2>1. /\ table \in SyncedTables /\ batch \subseteq Row
        /\ local[table] \subseteq Row /\ local'[table] \subseteq Row
    BY <1>1 DEF SyncInv, TypesOK
  <2>2. \A s \in batch : table = "containers" => s.at <= newest'
    BY <1>2, <1>3, <2>1 DEF SyncInv, BatchInv, Row
  <2>3. \A s \in batch : table = "movements" => s \in local'["movements"]
    BY MovementsCommitted DEF SyncInv, BatchInv
  <2>4. ASSUME NEW r \in local'[table], NEW s \in batch, r \notin local[table]
        PROVE  /\ r.at <= s.at => r.late
               /\ r.key = s.key => r.late \/ r.at > s.at
    <3>1. r.at \in Nat /\ s.at \in Nat /\ r.key \in Nat /\ s.key \in Nat
      BY <2>1, <2>4 DEF Row
    <3>2. CASE table = "containers"
      <4>1. s.at <= newest
        BY <3>2 DEF SyncInv, BatchInv
      <4>2. r.late \/ r.at > newest
        BY <2>4, <3>2, ContainersCommitted
      <4> QED
        BY <1>2, <3>1, <4>1, <4>2
    <3>3. CASE table = "movements"
      <4>1. s \in local["movements"] /\ s.at = s.key
        BY <3>3 DEF SyncInv, BatchInv, TablesInv
      <4>2. r.at = r.key /\ s.key # r.key /\ (s.key > r.key => r.late)
        BY <2>4, <3>3, <4>1, MovementsCommitted
      <4> QED
        BY <3>1, <4>1, <4>2
    <3> QED
      BY <2>1, <3>2, <3>3 DEF SyncedTables
  <2>5. pc = "ties" =>
          \A r \in local'[table], s \in batch :
            r.at > position /\ r.at < s.at => r.late
    <3> SUFFICES ASSUME pc = "ties", NEW r \in local'[table], NEW s \in batch,
                        r.at > position, r.at < s.at
                 PROVE  r.late
      OBVIOUS
    <3>1. r.at \in Nat /\ s.at \in Nat
      BY <2>1 DEF Row
    <3>2. r.at <= s.at
      BY <3>1
    <3> QED
      BY <2>4, <3>2 DEF SyncInv, BatchInv
  <2>6. pc = "send" =>
          /\ \A r \in local'[table], s \in batch :
               r.at > position /\ r.at <= s.at => r \in batch \/ r.late \/ r.tied
          /\ \A r \in local'[table], s \in batch :
               r.key = s.key => r = s \/ r.late \/ r.at > s.at
    BY <2>4 DEF SyncInv, BatchInv
  <2> QED
    BY <1>1, <2>2, <2>3, <2>5, <2>6 DEF SyncInv, BatchInv, workerVars
<1>9. CursorExact'
  <2>1. cloud' = cloud /\ cursor' = cursor
    BY <1>1 DEF workerVars
  <2>2. ASSUME NEW t \in SyncedTables, NEW r \in local'[t], r \notin local[t],
               r.at <= cursor[t]
        PROVE  r.late
    <3>1. r.at \in Nat /\ cursor[t] \in Nat
      BY <1>1 DEF SyncInv, TypesOK, Row
    <3>2. CASE t = "containers"
      <4>1. cursor[t] <= newest
        BY <3>2 DEF SyncInv, ReplicaInv
      <4>2. r.late \/ r.at > newest
        BY <2>2, <3>2, ContainersCommitted
      <4> QED
        BY <1>2, <2>2, <3>1, <4>1, <4>2
    <3>3. CASE t = "movements"
      <4>1. /\ r.at = r.key /\ r.at >= 1
            /\ \A n \in local["movements"] : n.key # r.key /\ (n.key > r.key => r.late)
        <5>1. /\ r.at = r.key /\ r.key \in 1..(nextId - 1)
              /\ \A n \in local["movements"] :
                   n.key # r.key /\ (n.key > r.key => r.late)
          BY <2>2, <3>3, MovementsCommitted
        <5> QED
          BY <3>1, <5>1
      <4>2. cursor[t] # 0
        BY <2>2, <3>1, <4>1
      <4>3. PICK m \in local["movements"] : m.key = cursor[t]
        BY <3>3, <4>2 DEF SyncInv, ReplicaInv
      <4> QED
        BY <2>2, <3>1, <4>1, <4>3
    <3> QED
      BY <3>2, <3>3 DEF SyncedTables
  <2> QED
    BY <2>1, <2>2 DEF SyncInv, CursorExact, Skipped
<1> QED
  BY <1>4, <1>5, <1>6, <1>7, <1>8, <1>9 DEF SyncInv

-----------------------------------------------------------------------------

\* Every step of the warehouse and of the worker keeps the invariant.
LEMMA NextSync == SyncInv /\ [Next]_vars => SyncInv'
<1> SUFFICES ASSUME SyncInv, [Next]_vars PROVE SyncInv'
  OBVIOUS
<1>1. CASE Begin
  BY <1>1, BeginSync
<1>2. ASSUME NEW tx \in open, NEW c \in Containers, NEW p \in {0} \cup Containers,
             Stack(tx, c, p)
      PROVE  SyncInv'
  BY <1>2, StackSync
<1>3. ASSUME NEW tx \in open, NEW S \in SUBSET Containers, Move(tx, S)
      PROVE  SyncInv'
  BY <1>3, MoveSync
<1>4. ASSUME NEW tx \in open, CommitTx(tx) PROVE SyncInv'
  BY <1>4, CommitSync
<1>5. CASE ReadPosition
  BY <1>5, ReadPositionSync
<1>6. CASE ReadBatch
  BY <1>6, ReadBatchSync
<1>7. CASE ReadTies
  BY <1>7, ReadTiesSync
<1>8. CASE HoldBatch
  BY <1>8, NothingSent DEF HoldBatch, localVars
<1>9. CASE SendBatch
  BY <1>9, SendBatchSync
<1>10. CASE Outage
  BY <1>10, NothingSent DEF Outage, localVars
<1>11. CASE UNCHANGED vars
  BY <1>11 DEF vars, localVars, workerVars, SyncInv, TypesOK, TablesInv, OpenInv,
               ReplicaInv, BatchInv, CursorExact, Skipped
<1> QED
  BY <1>1, <1>2, <1>3, <1>4, <1>5, <1>6, <1>7, <1>8, <1>9, <1>10, <1>11
  DEF Next, WarehouseNext, WorkerNext

\* The tables, the transactions under way, the pass and the replica fit together in
\* every state, for any number of rows, transactions and interruptions.
THEOREM SyncInvariant == Spec => []SyncInv
<1> QED
  BY InitSync, NextSync, PTL DEF Spec

\* Every variable has its type, no table and no copy of one holds two rows of one
\* key, and a worker that is about to send has something to send.
THEOREM TypeCorrect == Spec => []TypeOK
<1> QED
  BY SyncInvariant, TypeOKFollows, PTL

\* Wherever the worker's passes are cut off, and whatever is committed between its
\* reads: the cursor passes no row the replica does not hold, but for one that was
\* committed after a later one or shares its stamp with others of its
\* transaction, and the replica holds no row the cursor does not cover.
THEOREM CursorIsExact == Spec => []CursorExact
<1>1. SyncInv => CursorExact
  BY DEF SyncInv
<1> QED
  BY <1>1, SyncInvariant, PTL

=============================================================================
