---------------------------- MODULE IngestProofs ----------------------------
(***************************************************************************)
(* What holds of Ingest for every queue, batch and window size and any     *)
(* number of messages and faults: its type invariant, that nothing the     *)
(* broker took is dropped, and that Ingest implements Delivery.            *)
(***************************************************************************)
EXTENDS Ingest, TLAPS

-----------------------------------------------------------------------------
(* Sequences *)

\* A published message keeps the others and comes after them.
LEMMA AppendKeeps ==
  ASSUME NEW S, NEW s \in Seq(S), NEW e \in S
  PROVE  /\ Append(s, e) \in Seq(S)
         /\ Len(Append(s, e)) = Len(s) + 1
         /\ DOMAIN Append(s, e) = 1..(Len(s) + 1)
         /\ \A k \in DOMAIN s : Append(s, e)[k] = s[k]
         /\ Append(s, e)[Len(s) + 1] = e
  OBVIOUS

\* A sequence over a set is one over any larger set.
LEMMA SeqWidens ==
  ASSUME NEW S, NEW T, S \subseteq T, NEW s \in Seq(S)
  PROVE  s \in Seq(T)
  OBVIOUS

\* The first n of a queue, and the rest.
LEMMA SplitAt ==
  ASSUME NEW S, NEW s \in Seq(S), NEW n \in 1..Len(s)
  PROVE  LET front == SubSeq(s, 1, n)
             back == SubSeq(s, n + 1, Len(s))
         IN  /\ front \in Seq(S) /\ back \in Seq(S)
             /\ Len(front) = n /\ Len(back) = Len(s) - n
             /\ \A k \in 1..n : front[k] = s[k]
             /\ \A k \in 1..(Len(s) - n) : back[k] = s[n + k]
  OBVIOUS

\* The batch without its first message.
LEMMA TailKeeps ==
  ASSUME NEW S, NEW s \in Seq(S), s # <<>>
  PROVE  /\ Len(s) \in Nat \ {0} /\ DOMAIN s = 1..Len(s)
         /\ Head(s) = s[1] /\ Head(s) \in S
         /\ Tail(s) \in Seq(S) /\ Len(Tail(s)) = Len(s) - 1
         /\ \A k \in 1..(Len(s) - 1) : Tail(s)[k] = s[k + 1]
<1>1. Len(s) \in Nat \ {0} /\ DOMAIN s = 1..Len(s)
  OBVIOUS
<1>2. Head(s) = s[1] /\ s[1] \in S
  BY <1>1
<1>3. Tail(s) \in Seq(S) /\ Len(Tail(s)) = Len(s) - 1
  OBVIOUS
<1>4. \A k \in 1..(Len(s) - 1) : Tail(s)[k] = s[k + 1]
  OBVIOUS
<1> QED
  BY <1>1, <1>2, <1>3, <1>4

\* Only the empty sequence has no elements.
LEMMA OnlyEmptyIsEmpty ==
  ASSUME NEW S, NEW s \in Seq(S)
  PROVE  s = <<>> <=> Len(s) = 0
  OBVIOUS

-----------------------------------------------------------------------------
(* Type correctness *)

\* One fault more is within the bound.
LEMMA FaultTyped ==
  ASSUME faults \in 0..MaxFaults, Fault
  PROVE  faults' \in 0..MaxFaults
  BY IngestAssumption DEF IngestAssumption, Fault


\* The state a fresh broker and a starting process are in has the right types.
LEMMA InitTypeOK == Init => TypeOK
<1> SUFFICES ASSUME Init PROVE TypeOK
  OBVIOUS
<1>1. /\ Len(<<>>) = 0 /\ \A S : <<>> \in Seq(S)
      /\ 0 <= QueueMax /\ 0 <= BatchMax /\ 0 \in 0..MaxFaults /\ 0 \in Nat
  BY IngestAssumption DEF IngestAssumption
<1> QED
  BY <1>1, Zenon DEF Init, TypeOK

\* The broker and the network thread keep the types.
LEMMA BrokerTypeOK ==
  ASSUME TypeOK,
         \/ \E kind \in Kinds : Publish(kind)
         \/ \E i \in broker : OnMessage(i)
         \/ Disconnect \/ Connect
  PROVE  TypeOK'
<1>0. QueueMax \in Nat /\ BatchMax \in Nat /\ MaxFaults \in Nat
  BY IngestAssumption DEF IngestAssumption
<1> USE DEF TypeOK, Ids
<1>1. ASSUME NEW kind \in Kinds, Publish(kind)
      PROVE  TypeOK'
  <2>1. CASE UNCHANGED <<sent, broker>>
    BY <1>1, <2>1 DEF Publish
  <2>2. CASE sent' = Append(sent, kind) /\ broker' = broker \cup {Len(sent) + 1}
    <3>1. sent' \in Seq(Kinds) /\ DOMAIN sent' = 1..(Len(sent) + 1)
      BY <2>2, AppendKeeps
    <3>2. Ids \subseteq Ids' /\ broker' \subseteq Ids'
      BY <2>2, <3>1
    <3>3. pending \in Seq(Ids') /\ batch \in Seq(Ids')
      BY <3>2, SeqWidens
    <3> QED
      BY <1>1, <2>2, <3>1, <3>2, <3>3 DEF Publish
  <2> QED
    BY <1>1, <2>1, <2>2 DEF Publish
<1>2. ASSUME NEW i \in broker, OnMessage(i)
      PROVE  TypeOK'
  <2>1. pending' \in Seq(Ids) /\ Len(pending') = Len(pending) + 1
    BY <1>2, AppendKeeps DEF OnMessage
  <2> QED
    BY <1>0, <1>2, <2>1 DEF OnMessage
<1>3. CASE Disconnect
  BY <1>3, FaultTyped, Zenon DEF Disconnect, Ids
<1>4. CASE Connect
  BY <1>4, Zenon DEF Connect, Ids
<1> QED
  BY <1>1, <1>2, <1>3, <1>4

\* The writer and the process keep the types.
LEMMA WriterTypeOK ==
  ASSUME TypeOK,
         \/ CollectBatch \/ WriteBatch \/ WriteFails \/ GiveUp \/ Ack
         \/ WriterStops \/ RequestStop \/ Exit \/ Crash \/ Restart
  PROVE  TypeOK'
<1>0. /\ QueueMax \in Nat /\ BatchMax \in Nat /\ MaxFaults \in Nat
      /\ batch \in Seq(Ids) /\ pending \in Seq(Ids)
  BY IngestAssumption DEF IngestAssumption, TypeOK
<1>a. Rows \subseteq Ids
  BY <1>0 DEF Rows, Range
<1> USE DEF TypeOK
<1>1. CASE CollectBatch
  <2> PICK n \in 1..BatchMax :
        /\ n <= Len(pending)
        /\ batch' = SubSeq(pending, 1, n)
        /\ pending' = SubSeq(pending, n + 1, Len(pending))
    BY <1>1 DEF CollectBatch
  <2>1. n \in 1..Len(pending)
    BY <1>0
  <2>2. /\ batch' \in Seq(Ids) /\ Len(batch') = n
        /\ pending' \in Seq(Ids) /\ Len(pending') = Len(pending) - n
    BY <1>0, <2>1, SplitAt
  <2>3. Len(batch') <= BatchMax /\ Len(pending') <= QueueMax
    BY <1>0, <2>1, <2>2
  <2>4. batch' # <<>>
    <3>1. Len(batch') # 0
      BY <2>2
    <3> QED
      BY <2>2, <3>1, OnlyEmptyIsEmpty
  <2> QED
    BY <1>1, <2>2, <2>3, <2>4 DEF CollectBatch, brokerVars, Ids
<1>2. CASE WriteBatch
  BY <1>a, <1>2 DEF WriteBatch, brokerVars, Ids
<1>3. CASE WriteFails
  BY <1>0, <1>a, <1>3 DEF WriteFails, Fault, brokerVars, Ids
<1>4. CASE GiveUp
  BY <1>0, <1>4 DEF GiveUp, Fault, brokerVars, Ids
<1>5. CASE Ack
  <2>1. batch # <<>>
    BY <1>5 DEF Ack
  <2>2. /\ batch' \in Seq(Ids) /\ Len(batch') = Len(batch) - 1
        /\ Len(batch) \in Nat \ {0} /\ Head(batch) \in Ids
    BY <1>0, <1>5, <2>1, TailKeeps DEF Ack
  <2>3. batch' = <<>> <=> Len(batch) = 1
    BY <2>2, OnlyEmptyIsEmpty
  <2>4. pc' \in {"write", "ack"} <=> batch' # <<>>
    BY <1>5, <2>3 DEF Ack
  <2>5. broker' \subseteq Ids /\ inflight' \subseteq broker'
    BY <1>5 DEF Ack
  <2> QED
    <3>1. Len(batch') <= BatchMax
      BY <1>0, <2>2
    <3>2. pc' \in {"collect", "ack"} /\ pc' # "down"
      BY <1>5 DEF Ack
    <3> QED
      BY <1>5, <2>2, <2>4, <2>5, <3>1, <3>2, Zenon DEF Ack, Ids
<1>6. CASE WriterStops
  BY <1>6 DEF WriterStops, brokerVars, Ids
<1>7. CASE RequestStop
  BY <1>0, <1>7 DEF RequestStop, Fault, brokerVars, Ids
<1>8. CASE Exit \/ Crash
  <2>1. /\ Len(<<>>) = 0 /\ \A S : <<>> \in Seq(S)
        /\ 0 <= QueueMax /\ 0 <= BatchMax
    BY <1>0
  <2>2. faults' \in 0..MaxFaults
    BY <1>8, FaultTyped DEF Exit, Crash
  <2>3. pc' = "down" /\ "down" \notin {"write", "ack"}
    BY <1>8 DEF Exit, Crash, Gone
  <2>4. Gone
    BY <1>8 DEF Exit, Crash
  <2> QED
    BY <2>1, <2>2, <2>3, <2>4, Zenon DEF Gone, Ids
<1>9. CASE Restart
  BY <1>9 DEF Restart, brokerVars, Ids
<1> QED
  BY <1>1, <1>2, <1>3, <1>4, <1>5, <1>6, <1>7, <1>8, <1>9

\* Every variable keeps its type, for every size of queue, batch and window.
THEOREM TypeCorrect == Spec => []TypeOK
<1>1. TypeOK /\ [Next]_vars => TypeOK'
  <2> SUFFICES ASSUME TypeOK, [Next]_vars PROVE TypeOK'
    OBVIOUS
  <2>1. CASE Next
    BY <2>1, BrokerTypeOK, WriterTypeOK DEF Next
  <2>2. CASE UNCHANGED vars
    BY <2>2 DEF vars, brokerVars, TypeOK, Ids
  <2> QED
    BY <2>1, <2>2
<1> QED
  BY <1>1, InitTypeOK, PTL DEF Spec

-----------------------------------------------------------------------------
(* Nothing is dropped, and nothing overtakes *)

Inv == TypeOK /\ NeverDropped /\ InOrder

\* What the step proofs need of the types.
LEMMA Shapes ==
  ASSUME TypeOK
  PROVE  /\ sent \in Seq(Kinds) /\ Ids = 1..Len(sent) /\ Len(sent) \in Nat
         /\ batch \in Seq(Ids) /\ DOMAIN batch = 1..Len(batch) /\ Len(batch) \in Nat
         /\ pending \in Seq(Ids) /\ DOMAIN pending = 1..Len(pending)
         /\ Len(pending) \in Nat
         /\ \A k \in DOMAIN batch : batch[k] \in Ids
         /\ \A k \in DOMAIN pending : pending[k] \in Ids
         /\ stored \subseteq Ids /\ broker \subseteq Ids /\ inflight \subseteq broker
<1>1. /\ sent \in Seq(Kinds) /\ batch \in Seq(Ids) /\ pending \in Seq(Ids)
      /\ stored \subseteq Ids /\ broker \subseteq Ids /\ inflight \subseteq broker
  BY DEF TypeOK
<1>2. Ids = 1..Len(sent) /\ Len(sent) \in Nat
  BY <1>1 DEF Ids
<1> QED
  BY <1>1, <1>2

\* Rows that appear while the writer's hands stay as they are disturb nothing.
LEMMA MoreStored ==
  ASSUME Inv, UNCHANGED <<sent, inflight, connected, batch, pending>>,
         stored \subseteq stored', pc \notin {"done", "down"}
  PROVE  BatchInOrder' /\ QueueInOrder' /\ HandsHold'
  BY DEF Inv, InOrder, BatchInOrder, QueueInOrder, HandsHold, Ids, IsRow, Range

\* A batch is written in the order it was sent in.
LEMMA RowsInOrder ==
  ASSUME Inv, pc = "write", UNCHANGED sent, stored' = stored \cup Rows
  PROVE  StoredInOrder' /\ stored' \subseteq {i \in Ids' : IsRow(i)'}
<1> USE DEF IsRow, Ids
<1>1. \A i \in Rows, j \in Ids : j < i /\ IsRow(j) => j \in stored \cup Rows
  <2> SUFFICES ASSUME NEW i \in Rows, NEW j \in Ids, j < i, IsRow(j)
               PROVE  j \in stored \cup Rows
    OBVIOUS
  <2>1. PICK k \in DOMAIN batch : batch[k] = i
    BY DEF Rows, Range
  <2>2. j \in stored \/ \E l \in 1..(k - 1) : batch[l] = j
    BY <2>1 DEF Inv, InOrder, BatchInOrder
  <2>3. \A l \in 1..(k - 1) : l \in DOMAIN batch
    BY Shapes DEF Inv
  <2> QED
    BY <2>2, <2>3 DEF Rows, Range
<1>2. Rows \subseteq Ids
  BY Shapes DEF Inv, Rows, Range
<1> QED
  BY <1>1, <1>2 DEF Inv, InOrder, StoredInOrder, Rows

\* A message published comes after all the others.
LEMMA PublishInv ==
  ASSUME Inv, NEW kind \in Kinds, Publish(kind)
  PROVE  NeverDropped' /\ InOrder'
<1>1. CASE UNCHANGED <<sent, broker>>
  BY <1>1 DEF Publish, Inv, NeverDropped, InOrder, StoredInOrder, BatchInOrder,
     QueueInOrder, HandsHold, Ids, IsRow, Range, Rows
<1>2. CASE sent' = Append(sent, kind) /\ broker' = broker \cup {Len(sent) + 1}
  <2>1. /\ Ids' = 1..(Len(sent) + 1) /\ \A j \in Ids : sent'[j] = sent[j]
        /\ Ids = 1..Len(sent) /\ Len(sent) \in Nat
    <3>1. sent \in Seq(Kinds) /\ Ids = 1..Len(sent) /\ Len(sent) \in Nat
      BY Shapes DEF Inv
    <3> QED
      BY <1>2, <3>1, AppendKeeps DEF Ids
  <2>2. \A j \in Ids : IsRow(j)' <=> IsRow(j)
    BY <2>1 DEF IsRow
  <2>3. \A i \in Ids, j \in Ids' : j < i => j \in Ids
    BY <2>1
  <2>4. UNCHANGED <<inflight, connected, pending, batch, pc, stored>>
    BY <1>2 DEF Publish
  <2>5. NeverDropped'
    BY <1>2, <2>1, <2>2, <2>4 DEF Inv, NeverDropped
  <2>6. /\ \A k \in DOMAIN batch : batch[k] \in Ids
        /\ \A k \in DOMAIN pending : pending[k] \in Ids
        /\ stored \subseteq Ids /\ inflight \subseteq Ids
    BY Shapes DEF Inv
  <2>7. StoredInOrder' /\ stored' \subseteq {i \in Ids' : IsRow(i)'}
    BY <2>1, <2>2, <2>3, <2>4, <2>6 DEF Inv, InOrder, StoredInOrder
  <2>8. ASSUME pc \notin {"done", "down"}
        PROVE  BatchInOrder' /\ QueueInOrder' /\ HandsHold'
    <3>1. BatchInOrder'
      BY <2>2, <2>3, <2>4, <2>6, <2>8 DEF Inv, InOrder, BatchInOrder
    <3>2. QueueInOrder'
      BY <2>2, <2>3, <2>4, <2>6, <2>8 DEF Inv, InOrder, QueueInOrder, Range
    <3>3. HandsHold'
      BY <2>2, <2>4, <2>6, <2>8 DEF Inv, InOrder, HandsHold, Range
    <3> QED
      BY <3>1, <3>2, <3>3
  <2>9. pc' = "ack" => Rows' \subseteq stored'
    BY <2>2, <2>4, <2>6 DEF Inv, InOrder, Rows, Range
  <2> QED
    BY <2>4, <2>5, <2>7, <2>8, <2>9 DEF InOrder
<1> QED
  BY <1>1, <1>2 DEF Publish

\* The broker delivers the first it has not delivered on this connection: what
\* was sent before that is delivered, or no longer the broker's.
LEMMA OnMessageInv ==
  ASSUME Inv, NEW i \in broker, OnMessage(i)
  PROVE  NeverDropped' /\ InOrder'
<1>1. /\ UNCHANGED <<sent, broker, connected, batch, pc, stored>>
      /\ pending' = Append(pending, i) /\ inflight' = inflight \cup {i}
      /\ connected /\ \A j \in broker \ inflight : i <= j
  BY DEF OnMessage
<1>2. /\ DOMAIN pending' = 1..(Len(pending) + 1)
      /\ \A k \in 1..Len(pending) : pending'[k] = pending[k]
      /\ pending'[Len(pending) + 1] = i
      /\ Len(pending) \in Nat /\ DOMAIN pending = 1..Len(pending) /\ Ids = 1..Len(sent)
      /\ i \in Ids /\ Len(sent) \in Nat
  BY <1>1, Shapes, AppendKeeps DEF Inv
<1>3. \A j : IsRow(j)' <=> IsRow(j)
  BY <1>1 DEF IsRow
<1>4. NeverDropped' /\ StoredInOrder' /\ stored' \subseteq {j \in Ids' : IsRow(j)'}
  BY <1>1, <1>3 DEF Inv, NeverDropped, InOrder, StoredInOrder, Ids
<1>5. ASSUME pc \notin {"done", "down"}
      PROVE  BatchInOrder' /\ QueueInOrder' /\ HandsHold'
  <2>1. BatchInOrder'
    BY <1>1, <1>3, <1>5 DEF Inv, InOrder, BatchInOrder, Ids
  <2>2. Range(pending)' = Range(pending) \cup {i}
    BY <1>2 DEF Range
  <2>3. HandsHold'
    BY <1>1, <1>3, <1>5, <2>2 DEF Inv, InOrder, HandsHold, Range
  <2>4. QueueInOrder'
    <3> SUFFICES ASSUME NEW k \in DOMAIN pending', NEW j \in Ids,
                        j < pending'[k], IsRow(j)
                 PROVE  j \in stored \cup Range(batch)
                          \/ \E l \in 1..(k - 1) : pending'[l] = j
      BY <1>1, <1>3 DEF QueueInOrder, Ids, Range
    <3>1. CASE k \in 1..Len(pending)
      <4>1. j \in stored \cup Range(batch) \/ \E l \in 1..(k - 1) : pending[l] = j
        BY <1>2, <1>5, <3>1 DEF Inv, InOrder, QueueInOrder
      <4> QED
        BY <1>2, <3>1, <4>1
    <3>2. CASE k = Len(pending) + 1
      <4>1. j \in stored \cup broker
        BY DEF Inv, NeverDropped
      <4>2. j \notin broker \ inflight
        BY <1>1, <1>2, <3>2
      <4>3. j \in stored \cup Range(batch) \cup Range(pending)
        BY <1>1, <1>5, <4>1, <4>2 DEF Inv, InOrder, HandsHold
      <4> QED
        BY <1>2, <3>2, <4>3 DEF Range
    <3> QED
      BY <1>2, <3>1, <3>2
  <2> QED
    BY <2>1, <2>3, <2>4
<1>6. pc' = "ack" => Rows' \subseteq stored'
  BY <1>1, <1>3 DEF Inv, InOrder, Rows, Range
<1> QED
  BY <1>1, <1>4, <1>5, <1>6 DEF InOrder

\* The front of the queue becomes the batch.
LEMMA CollectInv ==
  ASSUME Inv, CollectBatch
  PROVE  NeverDropped' /\ InOrder'
<1>1. /\ UNCHANGED <<sent, broker, inflight, connected, stored>>
      /\ pc = "collect" /\ pc' = "write" /\ batch = <<>>
  BY DEF CollectBatch, brokerVars, Inv, TypeOK
<1>2. PICK n \in 1..BatchMax :
        /\ n <= Len(pending)
        /\ batch' = SubSeq(pending, 1, n)
        /\ pending' = SubSeq(pending, n + 1, Len(pending))
  BY DEF CollectBatch
<1>3. n \in 1..Len(pending)
  BY <1>2, Shapes, IngestAssumption DEF Inv, IngestAssumption
<1>4. /\ DOMAIN batch' = 1..n /\ DOMAIN pending' = 1..(Len(pending) - n)
      /\ \A k \in 1..n : batch'[k] = pending[k]
      /\ \A k \in 1..(Len(pending) - n) : pending'[k] = pending[n + k]
      /\ Len(pending) \in Nat /\ DOMAIN pending = 1..Len(pending)
  <2>1. pending \in Seq(Ids) /\ Len(pending) \in Nat
        /\ DOMAIN pending = 1..Len(pending)
    BY Shapes DEF Inv
  <2>2. /\ batch' \in Seq(Ids) /\ pending' \in Seq(Ids)
        /\ Len(batch') = n /\ Len(pending') = Len(pending) - n
        /\ \A k \in 1..n : batch'[k] = pending[k]
        /\ \A k \in 1..(Len(pending) - n) : pending'[k] = pending[n + k]
    BY <1>2, <1>3, <2>1, SplitAt
  <2> QED
    BY <2>1, <2>2
<1>5. \A j : IsRow(j)' <=> IsRow(j)
  BY <1>1 DEF IsRow
<1>6. NeverDropped' /\ StoredInOrder' /\ stored' \subseteq {j \in Ids' : IsRow(j)'}
  BY <1>1, <1>5 DEF Inv, NeverDropped, InOrder, StoredInOrder, Ids
<1>7. Range(batch) = {}
  BY <1>1 DEF Range
<1>8. \A k \in 1..Len(pending), j \in Ids : j < pending[k] /\ IsRow(j) =>
        j \in stored \/ \E l \in 1..(k - 1) : pending[l] = j
  BY <1>1, <1>4, <1>7 DEF Inv, InOrder, QueueInOrder
<1>9. BatchInOrder'
  <2> SUFFICES ASSUME NEW k \in 1..n, NEW j \in Ids, j < batch'[k], IsRow(j)
               PROVE  j \in stored \/ \E l \in 1..(k - 1) : batch'[l] = j
    BY <1>1, <1>4, <1>5 DEF BatchInOrder, Ids
  <2>1. j \in stored \/ \E l \in 1..(k - 1) : pending[l] = j
    BY <1>3, <1>4, <1>8
  <2> QED
    BY <1>4, <2>1
<1>10. QueueInOrder'
  <2> SUFFICES ASSUME NEW k \in 1..(Len(pending) - n), NEW j \in Ids,
                      j < pending'[k], IsRow(j)
               PROVE  j \in stored \cup Range(batch')
                        \/ \E l \in 1..(k - 1) : pending'[l] = j
    BY <1>1, <1>4, <1>5 DEF QueueInOrder, Ids, Range
  <2>1. j \in stored \/ \E l \in 1..(n + k - 1) : pending[l] = j
    BY <1>3, <1>4, <1>8
  <2>2. ASSUME NEW l \in 1..(n + k - 1), pending[l] = j
        PROVE  j \in Range(batch') \/ \E h \in 1..(k - 1) : pending'[h] = j
    <3>1. CASE l <= n
      BY <1>4, <2>2, <3>1 DEF Range
    <3>2. CASE l > n
      <4>1. l - n \in 1..(k - 1) /\ l - n \in 1..(Len(pending) - n) /\ n + (l - n) = l
        BY <1>3, <1>4, <3>2
      <4> QED
        BY <1>4, <2>2, <4>1
    <3> QED
      BY <3>1, <3>2
  <2> QED
    BY <2>1, <2>2
<1>11. Range(pending) \subseteq Range(batch') \cup Range(pending')
  <2> SUFFICES ASSUME NEW k \in 1..Len(pending)
               PROVE  pending[k] \in Range(batch') \cup Range(pending')
    BY <1>4 DEF Range
  <2>1. CASE k <= n
    BY <1>4, <2>1 DEF Range
  <2>2. CASE k > n
    <3>1. k - n \in 1..(Len(pending) - n) /\ n + (k - n) = k
      BY <1>3, <1>4, <2>2
    <3> QED
      BY <1>4, <3>1 DEF Range
  <2> QED
    BY <1>3, <1>4, <2>1, <2>2
<1>12. HandsHold'
  BY <1>1, <1>5, <1>7, <1>11 DEF Inv, InOrder, HandsHold, Range
<1> QED
  BY <1>1, <1>6, <1>9, <1>10, <1>12 DEF InOrder

\* Only what is stored, or no row, is taken from the broker.
LEMMA AckInv ==
  ASSUME Inv, Ack
  PROVE  NeverDropped' /\ InOrder'
<1>1. /\ UNCHANGED <<sent, connected, pending, stored>>
      /\ pc = "ack" /\ pc' \in {"collect", "ack"} /\ batch' = Tail(batch)
      /\ inflight' \subseteq inflight /\ broker \subseteq broker' \cup {Head(batch)}
      /\ batch # <<>>
  BY DEF Ack, Inv, TypeOK
<1>2. /\ Len(batch) \in Nat \ {0} /\ DOMAIN batch = 1..Len(batch)
      /\ Head(batch) = batch[1] /\ DOMAIN batch' = 1..(Len(batch) - 1)
      /\ \A k \in 1..(Len(batch) - 1) : batch'[k] = batch[k + 1]
  <2>1. batch \in Seq(Ids)
    BY Shapes DEF Inv
  <2>2. /\ Len(batch) \in Nat \ {0} /\ DOMAIN batch = 1..Len(batch)
        /\ Head(batch) = batch[1] /\ Tail(batch) \in Seq(Ids)
        /\ Len(Tail(batch)) = Len(batch) - 1
        /\ \A k \in 1..(Len(batch) - 1) : Tail(batch)[k] = batch[k + 1]
    BY <1>1, <2>1, TailKeeps
  <2> QED
    BY <1>1, <2>2
<1>3. \A j : IsRow(j)' <=> IsRow(j)
  BY <1>1 DEF IsRow
<1>4. Rows \subseteq stored
  BY <1>1 DEF Inv, InOrder
<1>5. IsRow(Head(batch)) => Head(batch) \in stored
  BY <1>2, <1>4 DEF Rows, Range
<1>6. NeverDropped' /\ StoredInOrder' /\ stored' \subseteq {j \in Ids' : IsRow(j)'}
  BY <1>1, <1>3, <1>5 DEF Inv, NeverDropped, InOrder, StoredInOrder, Ids
<1>7. Range(batch) = Range(batch') \cup {Head(batch)}
  <2>1. Range(batch') \subseteq Range(batch)
    BY <1>2 DEF Range
  <2>2. ASSUME NEW k \in 1..Len(batch), k # 1
        PROVE  batch[k] \in Range(batch')
    <3>1. k - 1 \in 1..(Len(batch) - 1) /\ (k - 1) + 1 = k
      BY <1>2, <2>2
    <3> QED
      BY <1>2, <3>1 DEF Range
  <2>3. batch[1] \in Range(batch)
    BY <1>2 DEF Range
  <2> QED
    BY <1>2, <2>1, <2>2, <2>3 DEF Range
<1>8. BatchInOrder'
  <2> SUFFICES ASSUME NEW k \in 1..(Len(batch) - 1), NEW j \in Ids,
                      j < batch'[k], IsRow(j)
               PROVE  j \in stored \/ \E l \in 1..(k - 1) : batch'[l] = j
    BY <1>1, <1>2, <1>3 DEF BatchInOrder, Ids
  <2>1. j \in stored \/ \E l \in 1..k : batch[l] = j
    BY <1>1, <1>2 DEF Inv, InOrder, BatchInOrder
  <2>2. ASSUME NEW l \in 1..k, batch[l] = j
        PROVE  j \in stored \/ \E h \in 1..(k - 1) : batch'[h] = j
    <3>1. CASE l = 1
      BY <1>2, <1>5, <2>2, <3>1
    <3>2. CASE l # 1
      <4>1. l - 1 \in 1..(k - 1) /\ l - 1 \in 1..(Len(batch) - 1) /\ (l - 1) + 1 = l
        BY <1>2, <3>2
      <4> QED
        BY <1>2, <2>2, <4>1
    <3> QED
      BY <3>1, <3>2
  <2> QED
    BY <2>1, <2>2
<1>9. QueueInOrder'
  BY <1>1, <1>3, <1>5, <1>7 DEF Inv, InOrder, QueueInOrder, Ids, Range
<1>10. HandsHold'
  BY <1>1, <1>3, <1>5, <1>7 DEF Inv, InOrder, HandsHold, Range
<1>11. Rows' \subseteq stored'
  BY <1>1, <1>3, <1>4, <1>7 DEF Rows
<1> QED
  BY <1>1, <1>6, <1>8, <1>9, <1>10, <1>11 DEF InOrder

\* A batch is committed, once or again.
LEMMA WriteInv ==
  ASSUME Inv, WriteBatch \/ WriteFails
  PROVE  NeverDropped' /\ InOrder'
<1>1. /\ UNCHANGED <<sent, broker, inflight, connected, pending, batch>>
      /\ pc = "write" /\ pc' \in {"write", "ack"}
  BY DEF WriteBatch, WriteFails, Fault, brokerVars
<1>2. CASE stored' = stored \cup Rows
  <2>1. StoredInOrder' /\ stored' \subseteq {i \in Ids' : IsRow(i)'}
    BY <1>1, <1>2, RowsInOrder
  <2>2. BatchInOrder' /\ QueueInOrder' /\ HandsHold'
    BY <1>1, <1>2, MoreStored
  <2>3. Rows' \subseteq stored' /\ NeverDropped'
    BY <1>1, <1>2 DEF Inv, NeverDropped, Rows, Range, Ids, IsRow
  <2> QED
    BY <2>1, <2>2, <2>3 DEF InOrder
<1>3. CASE UNCHANGED stored /\ pc' = "write"
  BY <1>1, <1>3 DEF Inv, NeverDropped, InOrder, StoredInOrder, BatchInOrder,
     QueueInOrder, HandsHold, Ids, IsRow, Range, Rows
<1> QED
  BY <1>1, <1>2, <1>3 DEF WriteBatch, WriteFails

\* The other steps of the link and of the process store nothing and take
\* nothing from the broker; where they leave a writer at work, its hands are as
\* they were, or empty.
LEMMA ProcessInv ==
  ASSUME Inv,
         \/ Disconnect \/ Connect \/ GiveUp \/ WriterStops \/ RequestStop
         \/ Exit \/ Crash \/ Restart
  PROVE  NeverDropped' /\ InOrder'
<1>1. UNCHANGED <<sent, broker, stored>>
  BY DEF Disconnect, Connect, GiveUp, WriterStops, RequestStop, Exit, Crash,
     Gone, Restart, brokerVars
<1>2. NeverDropped' /\ StoredInOrder' /\ stored' \subseteq {i \in Ids' : IsRow(i)'}
  BY <1>1 DEF Inv, NeverDropped, InOrder, StoredInOrder, Ids, IsRow
<1>3. CASE GiveUp \/ WriterStops \/ Exit \/ Crash
  <2>1. pc' \in {"done", "down"}
    BY <1>3 DEF GiveUp, WriterStops, Exit, Crash, Gone
  <2> QED
    BY <1>2, <2>1 DEF InOrder
<1>4. CASE Connect
  <2>1. UNCHANGED <<pc, batch, pending>> /\ inflight' = {}
    BY <1>4 DEF Connect
  <2> QED
    BY <1>1, <1>2, <2>1 DEF Inv, InOrder, BatchInOrder, QueueInOrder, HandsHold,
       Ids, IsRow, Range, Rows
<1>5. CASE Disconnect
  <2>1. UNCHANGED <<pc, batch, pending, inflight>> /\ connected' = FALSE
    BY <1>5 DEF Disconnect
  <2> QED
    BY <1>1, <1>2, <2>1 DEF Inv, InOrder, BatchInOrder, QueueInOrder, HandsHold,
       Ids, IsRow, Range, Rows
<1>6. CASE RequestStop
  <2>1. UNCHANGED <<pc, batch, pending, inflight, connected>>
    BY <1>6 DEF RequestStop, brokerVars
  <2> QED
    BY <1>1, <1>2, <2>1 DEF Inv, InOrder, BatchInOrder, QueueInOrder, HandsHold,
       Ids, IsRow, Range, Rows
<1>7. CASE Restart
  <2>1. /\ pc = "down" /\ pc' = "collect"
        /\ UNCHANGED <<batch, pending, connected>>
    BY <1>7 DEF Restart, brokerVars
  <2>2. batch = <<>> /\ pending = <<>> /\ ~connected
    BY <2>1 DEF Inv, TypeOK
  <2> QED
    BY <1>1, <1>2, <2>1, <2>2 DEF InOrder, BatchInOrder, QueueInOrder, HandsHold
<1> QED
  BY <1>3, <1>4, <1>5, <1>6, <1>7

\* The invariant, of every step.
LEMMA NextInv == Inv /\ [Next]_vars => Inv'
<1> SUFFICES ASSUME Inv, [Next]_vars PROVE Inv'
  OBVIOUS
<1>1. TypeOK'
  <2>1. CASE Next
    BY <2>1, BrokerTypeOK, WriterTypeOK DEF Next, Inv
  <2>2. CASE UNCHANGED vars
    BY <2>2 DEF vars, brokerVars, Inv, TypeOK, Ids
  <2> QED
    BY <2>1, <2>2
<1>2. CASE Next
  BY <1>1, <1>2, PublishInv, OnMessageInv, CollectInv, WriteInv, AckInv,
     ProcessInv DEF Next, Inv
<1>3. CASE UNCHANGED vars
  BY <1>1, <1>3 DEF vars, brokerVars, Inv, NeverDropped, InOrder, StoredInOrder,
     BatchInOrder, QueueInOrder, HandsHold, Ids, IsRow, Range, Rows
<1> QED
  BY <1>2, <1>3

\* Nothing is sent or stored at the start.
LEMMA InitInv == Init => Inv
<1> SUFFICES ASSUME Init PROVE Inv
  OBVIOUS
<1>1. Ids = {} /\ DOMAIN batch = {} /\ DOMAIN pending = {}
  BY DEF Init, Ids
<1>2. NeverDropped /\ InOrder
  BY <1>1 DEF Init, NeverDropped, InOrder, StoredInOrder, BatchInOrder,
     QueueInOrder, HandsHold
<1> QED
  BY <1>2, InitTypeOK DEF Inv

\* The inductive invariant, of every state.
THEOREM Invariant == Spec => []Inv
  BY InitInv, NextInv, PTL DEF Spec

\* Whatever fails and wherever the process stops, what the broker took is a
\* row, is rejected, or is still the broker's.
THEOREM NothingDropped == Spec => []NeverDropped
<1>1. Inv => NeverDropped
  BY DEF Inv
<1> QED
  BY <1>1, Invariant, PTL

\* The order that lets ingest keep its promise, of every state.
THEOREM OrderKept == Spec => []InOrder
<1>1. Inv => InOrder
  BY DEF Inv
<1> QED
  BY <1>1, Invariant, PTL

-----------------------------------------------------------------------------
(* Refinement *)

\* A step of ingest publishes a message, stores what comes next, or is nothing
\* to Delivery.
LEMMA StepsDeliver ==
  ASSUME Inv, Inv', [Next]_vars
  PROVE  [Promise!Send \/ Promise!Store]_<<sent, stored>>
<1>1. CASE UNCHANGED <<sent, stored>>
  BY <1>1
<1>2. CASE \E kind \in Kinds : Publish(kind)
  BY <1>2 DEF Publish, Promise!Send
<1>3. CASE WriteBatch \/ WriteFails
  <2>1. UNCHANGED sent /\ stored \subseteq stored'
    BY <1>3 DEF WriteBatch, WriteFails, brokerVars
  <2>2. /\ stored' \subseteq {i \in Ids : IsRow(i)}
        /\ \A i \in stored', j \in Ids : j < i /\ IsRow(j) => j \in stored'
    BY <2>1 DEF Inv, InOrder, StoredInOrder, Ids, IsRow
  <2> QED
    BY <2>1, <2>2 DEF Promise!Store, Promise!Rows, Ids, IsRow
<1>4. CASE \/ \E i \in broker : OnMessage(i)
           \/ Disconnect \/ Connect \/ CollectBatch \/ GiveUp \/ Ack
           \/ WriterStops \/ RequestStop \/ Exit \/ Crash \/ Restart
  BY <1>1, <1>4 DEF OnMessage, Disconnect, Connect, CollectBatch, GiveUp, Ack,
     WriterStops, RequestStop, Exit, Crash, Gone, Restart, brokerVars
<1> QED
  BY <1>1, <1>2, <1>3, <1>4 DEF Next, vars, brokerVars

\* Ingest keeps what Delivery promises to the debouncer, for every size of its
\* queues and any number of failures, stops and crashes.
THEOREM Refinement == Spec => ImplementsDelivery
<1>1. Init => Promise!Init
  BY DEF Init, Promise!Init
<1> QED
  BY <1>1, StepsDeliver, Invariant, PTL DEF Spec, ImplementsDelivery, Promise!Spec

=============================================================================
