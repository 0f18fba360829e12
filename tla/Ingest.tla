------------------------------- MODULE Ingest -------------------------------
(***************************************************************************)
(* Ingest (services/ingest/service.py): MQTT messages to rows of reads_raw *)
(* and gate_events.  The network thread only queues what the broker        *)
(* delivers; the writer thread writes it in batches and acknowledges a     *)
(* message once its row is committed.  The broker keeps what is not        *)
(* acknowledged and delivers it again on the next connection.              *)
(***************************************************************************)
EXTENDS Naturals, Sequences, FiniteSets

CONSTANTS
    Kinds,                \* of messages: "read" and "gate", the rows of two
                          \* tables, "invalid", those validation rejects, and
                          \* "unstorable", those that it accepts and Postgres
                          \* does not, such as a text with a NUL in it
    QueueMax, BatchMax,   \* QUEUE_MAX, BATCH_MAX_ROWS
    MaxInflight,          \* max_inflight_messages of the broker
    MaxQueued,            \* max_queued_messages of the broker
    MaxMessages,          \* bound: messages published
    MaxFaults             \* bound: failures of the database or the link, stops
                          \* and crashes

ASSUME IngestAssumption ==
  /\ Kinds \subseteq {"read", "gate", "invalid", "unstorable"}
  /\ QueueMax \in Nat \ {0} /\ BatchMax \in Nat \ {0}
  /\ MaxInflight \in Nat \ {0} /\ MaxQueued \in Nat \ {0}
  /\ MaxMessages \in Nat /\ MaxFaults \in Nat

VARIABLES
    sent,          \* history: the kinds of the messages the broker took, in
                   \* order; a message is its place in `sent`
    refused,       \* history: how many it discarded
    broker,        \* those it holds for ingest; it delivers them in order
    inflight,      \* those delivered on this connection
    connected,
    pending,       \* the queue between the two threads
    batch,         \* what the writer is working on
    pc,            \* where it is; "down" when there is no process
    stopping,      \* stop_event
    stored,        \* the messages whose rows are committed
    faults

brokerVars == <<sent, refused, broker, inflight, connected>>
vars == <<brokerVars, pending, batch, pc, stopping, stored, faults>>

Ids == DOMAIN sent

IsRow(i) == sent[i] # "invalid"

TypeOK ==
  /\ sent \in Seq(Kinds) /\ refused \in Nat
  /\ broker \subseteq Ids /\ inflight \subseteq broker
  /\ connected \in BOOLEAN
  /\ pending \in Seq(Ids) /\ Len(pending) <= QueueMax
  /\ batch \in Seq(Ids) /\ Len(batch) <= BatchMax
  /\ pc \in {"collect", "write", "ack", "done", "down"}
  /\ stopping \in BOOLEAN
  /\ stored \subseteq Ids
  /\ faults \in 0..MaxFaults
  /\ pc \in {"write", "ack"} <=> batch # <<>>
  /\ pc = "down" => ~connected /\ pending = <<>>

Init ==
  /\ sent = <<>> /\ refused = 0
  /\ broker = {} /\ inflight = {} /\ connected = FALSE
  /\ pending = <<>> /\ batch = <<>> /\ pc = "collect" /\ stopping = FALSE
  /\ stored = {} /\ faults = 0

-----------------------------------------------------------------------------
(* The broker, and the network thread *)

Publish(kind) ==
  /\ Len(sent) + refused < MaxMessages
  /\ IF Cardinality(broker) < MaxQueued
     THEN /\ sent' = Append(sent, kind)
          /\ broker' = broker \cup {Len(sent) + 1}
          /\ UNCHANGED refused
     ELSE refused' = refused + 1 /\ UNCHANGED <<sent, broker>>
  /\ UNCHANGED <<inflight, connected, pending, batch, pc, stopping, stored, faults>>

\* on_message: the callback waits while the queue is full.
OnMessage(i) ==
  /\ connected /\ i \in broker \ inflight
  /\ \A j \in broker \ inflight : i <= j
  /\ Cardinality(inflight) < MaxInflight
  /\ Len(pending) < QueueMax
  /\ pending' = Append(pending, i)
  /\ inflight' = inflight \cup {i}
  /\ UNCHANGED <<sent, refused, broker, connected, batch, pc, stopping, stored, faults>>

Fault == faults < MaxFaults /\ faults' = faults + 1

Disconnect ==
  /\ Fault /\ connected
  /\ connected' = FALSE
  /\ UNCHANGED <<sent, refused, broker, inflight, pending, batch, pc, stopping, stored>>

\* Mutant: the broker goes on after what it delivered on the last connection.
ConnectGoesOn ==
  /\ ~connected /\ pc # "down"
  /\ connected' = TRUE
  /\ UNCHANGED <<sent, refused, broker, inflight, pending, batch, pc, stopping,
                 stored, faults>>

\* The session is kept: the broker starts over with what is not acknowledged,
\* also what the queue and the writer still have of the last connection.
Connect ==
  /\ ~connected /\ pc # "down"
  /\ connected' = TRUE /\ inflight' = {}
  /\ UNCHANGED <<sent, refused, broker, pending, batch, pc, stopping, stored, faults>>

-----------------------------------------------------------------------------
(* The writer thread *)

Range(s) == {s[k] : k \in DOMAIN s}

\* Mutant: one message more than fits.
CollectBatchOneMore ==
  /\ pc = "collect"
  /\ \E n \in 1..BatchMax + 1 :
       /\ n <= Len(pending)
       /\ batch' = SubSeq(pending, 1, n)
       /\ pending' = SubSeq(pending, n + 1, Len(pending))
  /\ pc' = "write"
  /\ UNCHANGED <<brokerVars, stopping, stored, faults>>

\* A batch is what there is after a quarter of a second, or a full one.
CollectBatch ==
  /\ pc = "collect"
  /\ \E n \in 1..BatchMax :
       /\ n <= Len(pending)
       /\ batch' = SubSeq(pending, 1, n)
       /\ pending' = SubSeq(pending, n + 1, Len(pending))
  /\ pc' = "write"
  /\ UNCHANGED <<brokerVars, stopping, stored, faults>>

\* validate_batch: the messages that become rows.
Rows == {i \in Range(batch) : IsRow(i)}

Storable == \A i \in Rows : sent[i] # "unstorable"

WriteBatch ==
  /\ pc = "write" /\ Storable
  /\ stored' = stored \cup Rows
  /\ pc' = "ack"
  /\ UNCHANGED <<brokerVars, pending, batch, stopping, faults>>

\* Mutant: reads and gate events are committed apart.
WriteFailsBetween ==
  /\ Fault /\ pc = "write" /\ Storable
  /\ stored' = stored \cup {i \in Rows : sent[i] = "gate"}
  /\ UNCHANGED <<brokerVars, pending, batch, pc, stopping>>

\* Mutant: a batch that cannot be written is left to the broker at once.
WriteFailsGivesUp ==
  /\ Fault /\ pc = "write" /\ Rows # {}
  /\ batch' = <<>> /\ pc' = "collect"
  /\ UNCHANGED <<brokerVars, pending, stopping, stored>>

\* The batch is tried again.  It may have been committed, if what is lost is
\* the acknowledgement; its rows are then written twice.
WriteFails ==
  /\ Fault /\ pc = "write" /\ Rows # {}
  /\ \/ UNCHANGED stored
     \/ Storable /\ stored' = stored \cup Rows
  /\ UNCHANGED <<brokerVars, pending, batch, pc, stopping>>

\* Mutant: what could not be written is acknowledged all the same.
GiveUpAcks ==
  /\ Fault /\ pc = "write" /\ Rows # {} /\ stopping
  /\ pc' = "ack"
  /\ UNCHANGED <<brokerVars, pending, batch, stopping, stored>>

\* After SHUTDOWN_DB_GRACE_S of failures the writer returns.
GiveUp ==
  /\ Fault /\ pc = "write" /\ Rows # {} /\ stopping
  /\ batch' = <<>> /\ pc' = "done"
  /\ UNCHANGED <<brokerVars, pending, stopping, stored>>

\* Without a connection the acknowledgement goes nowhere.
Ack ==
  /\ pc = "ack"
  /\ batch' = Tail(batch)
  /\ pc' = IF Len(batch) = 1 THEN "collect" ELSE "ack"
  /\ IF connected
     THEN /\ broker' = broker \ {Head(batch)}
          /\ inflight' = inflight \ {Head(batch)}
     ELSE UNCHANGED <<broker, inflight>>
  /\ UNCHANGED <<sent, refused, connected, pending, stopping, stored, faults>>

WriterStops ==
  /\ pc = "collect" /\ stopping /\ pending = <<>>
  /\ pc' = "done"
  /\ UNCHANGED <<brokerVars, pending, batch, stopping, stored, faults>>

-----------------------------------------------------------------------------
(* The process *)

RequestStop ==
  /\ Fault /\ pc # "down" /\ ~stopping
  /\ stopping' = TRUE
  /\ UNCHANGED <<brokerVars, pending, batch, pc, stored>>

\* What is in memory is gone.
Gone ==
  /\ pc' = "down" /\ pending' = <<>> /\ batch' = <<>> /\ connected' = FALSE
  /\ UNCHANGED <<sent, refused, broker, inflight, stopping, stored>>

Exit == pc = "done" /\ Gone /\ UNCHANGED faults

\* It is killed, its writer dies, or it stops waiting for its writer.
Crash == Fault /\ pc # "down" /\ Gone

Restart ==
  /\ pc = "down"
  /\ pc' = "collect" /\ stopping' = FALSE
  /\ UNCHANGED <<brokerVars, pending, batch, stored, faults>>

Next ==
  \/ \E kind \in Kinds : Publish(kind)
  \/ \E i \in broker : OnMessage(i)
  \/ Disconnect \/ Connect
  \/ CollectBatch \/ WriteBatch \/ WriteFails \/ GiveUp \/ Ack \/ WriterStops
  \/ RequestStop \/ Exit \/ Crash \/ Restart

Spec == Init /\ [][Next]_vars

\* The two threads run, paho reconnects, the container is restarted.
FairSpec ==
  /\ Spec
  /\ WF_vars(\E i \in broker : OnMessage(i)) /\ WF_vars(Connect)
  /\ WF_vars(CollectBatch \/ WriteBatch \/ Ack \/ WriterStops)
  /\ WF_vars(Exit) /\ WF_vars(Restart)

-----------------------------------------------------------------------------
(* Properties *)

\* Whatever fails, and wherever the process stops: what the broker took and
\* validation does not reject is a row or is still the broker's.
NeverDropped == {i \in Ids : IsRow(i)} \subseteq stored \cup broker

StoredInOrder == \A i \in stored, j \in Ids : j < i /\ IsRow(j) => j \in stored

BatchInOrder ==
  \A k \in DOMAIN batch : \A j \in Ids : j < batch[k] /\ IsRow(j) =>
    j \in stored \/ \E l \in 1..(k - 1) : batch[l] = j

QueueInOrder ==
  \A k \in DOMAIN pending : \A j \in Ids : j < pending[k] /\ IsRow(j) =>
    j \in stored \cup Range(batch) \/ \E l \in 1..(k - 1) : pending[l] = j

HandsHold ==
  connected => {i \in inflight : IsRow(i)}
                 \subseteq stored \cup Range(batch) \cup Range(pending)

\* What lets the order survive: all that was sent before a message in the
\* writer's hands, or before one in the queue, is stored or ahead of it; so the
\* broker, which goes on where this connection is, leaves nothing out.
InOrder ==
  /\ StoredInOrder
  /\ pc \notin {"done", "down"} => BatchInOrder /\ QueueInOrder /\ HandsHold
  /\ stored \subseteq {i \in Ids : IsRow(i)}
  /\ pc = "ack" => Rows \subseteq stored

\* What Delivery promises is kept: whatever is redelivered and wherever the
\* process stops, messages become rows in the order they were sent in, so a beam
\* event is not visible without every read that was sent before it.
Promise == INSTANCE Delivery WITH sent <- sent, stored <- stored

ImplementsDelivery == Promise!Spec

\* Every read and beam event that the broker took becomes a row in the end:
\* nothing wedges the messages behind it.
EventuallyStored ==
  \A i \in 1..MaxMessages :
    i \in Ids /\ IsRow(i) ~> i \in stored

\* "applies backpressure instead of losing reads" (ingest/service.py).
NothingRefused == refused = 0

=============================================================================
