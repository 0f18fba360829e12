-------------------------------- MODULE Sync --------------------------------
(***************************************************************************)
(* The sync worker (services/sync/service.py, tables.py): copies the       *)
(* warehouse database to a cloud replica, one batch of each table per      *)
(* pass, while the warehouse goes on writing.                              *)
(*                                                                         *)
(* Two tables stand for the twelve.  `containers` is mutable: it is asked  *)
(* for by updated_at, which a trigger sets to the start of the updating    *)
(* transaction, and refers to itself.  `movements` is append-only: it is   *)
(* asked for by id, drawn when the row is inserted, and refers to          *)
(* containers.  Neither order is the order in which transactions commit.   *)
(***************************************************************************)
EXTENDS Naturals, FiniteSets

CONSTANTS
    Containers,    \* container ids
    BatchRows,     \* BATCH_ROWS, the LIMIT of one read
    MaxTx,         \* bound: transactions in the warehouse
    MaxOpen,       \* bound: transactions open at one time
    MaxOutages     \* bound: times the worker loses the cloud or is stopped

ASSUME SyncAssumption ==
  /\ Containers \subseteq Nat \ {0} /\ IsFiniteSet(Containers)
  /\ BatchRows \in Nat \ {0} /\ MaxTx \in Nat /\ MaxOpen \in Nat
  /\ MaxOutages \in Nat

VARIABLES
    local,         \* the committed rows of the warehouse, by table
    open,          \* its transactions in progress
    started,       \* the start of the latest of them: their clock
    nextId,        \* the sequence behind movements.id
    newest,        \* history: the newest updated_at committed in containers
    cloud,         \* the rows of the replica, by table
    cursor,        \* its sync_cursor, by table
    pc, table,     \* where the worker is in its pass
    position,      \* the cursor it has read
    batch,         \* the rows it has read
    outages

localVars == <<local, open, started, nextId, newest>>
workerVars == <<cloud, cursor, pc, table, position, batch, outages>>
vars == <<localVars, workerVars>>

SyncedTables == {"containers", "movements"}

ById(t) == t = "movements"

\* `at` is the cursor column: updated_at of a container, the id of a movement.
\* `refers` is its foreign key, always to containers, 0 for NULL.  The rest is
\* history: a row is `late` if one with a later `at` was committed before it,
\* and `tied` if its transaction gave others the same `at`.
Row == [key : Nat, at : Nat, refers : Nat, late : BOOLEAN, tied : BOOLEAN]

Keys(rows) == {r.key : r \in rows}

\* A transaction in progress: when it started, and the rows it has written.
Transaction == [at : Nat, containers : SUBSET (Nat \X Nat),
                movements : SUBSET (Nat \X Nat)]

TypeOK ==
  /\ local \in [SyncedTables -> SUBSET Row]
  /\ open \subseteq Transaction
  /\ started \in 0..MaxTx /\ nextId \in Nat \ {0} /\ newest \in 0..started
  /\ cloud \in [SyncedTables -> SUBSET Row]
  /\ cursor \in [SyncedTables -> Nat]
  /\ pc \in {"position", "read", "ties", "send"} /\ table \in SyncedTables
  /\ position \in Nat /\ batch \subseteq Row
  /\ outages \in 0..MaxOutages
  /\ \A t \in SyncedTables :            \* the primary keys
       /\ Cardinality(Keys(local[t])) = Cardinality(local[t])
       /\ Cardinality(Keys(cloud[t])) = Cardinality(cloud[t])
  /\ pc \in {"ties", "send"} => batch # {}

Init ==
  /\ local = [t \in SyncedTables |-> {}]
  /\ open = {} /\ started = 0 /\ nextId = 1 /\ newest = 0
  /\ cloud = [t \in SyncedTables |-> {}]
  /\ cursor = [t \in SyncedTables |-> 0]     \* 0, and NEVER_SYNCED
  /\ pc = "position" /\ table = "containers"
  /\ position = 0 /\ batch = {}
  /\ outages = 0

-----------------------------------------------------------------------------
(* The warehouse: its services' transactions, as the worker can see them *)

Registered == Keys(local["containers"])

\* Rows some transaction in progress has inserted or updated.
Locked == UNION {{w[1] : w \in tx.containers} : tx \in open}

Begin ==
  /\ Cardinality(open) < MaxOpen /\ started < MaxTx
  /\ started' = started + 1
  /\ open' = open \cup {[at |-> started + 1, containers |-> {}, movements |-> {}]}
  /\ UNCHANGED <<local, nextId, newest, workerVars>>

IsFresh(tx) == tx.containers = {}

\* A container is registered alone, or registered or put on p.
Stack(tx, c, p) ==
  /\ IsFresh(tx) /\ c \notin Locked
  /\ p = 0 \/ \E r \in local["containers"] : r.key = p /\ r.refers = 0 /\ p # c
  /\ open' = (open \ {tx}) \cup {[tx EXCEPT !.containers = {<<c, p>>}]}
  /\ UNCHANGED <<local, started, nextId, newest, workerVars>>

RowsOf(S) == {r \in local["containers"] : r.key \in S}

\* The containers of a tree get a status, and a movement each.
Move(tx, S) ==
  /\ IsFresh(tx) /\ S # {} /\ S \subseteq Registered \ Locked
  /\ open' = (open \ {tx}) \cup
       {[tx EXCEPT
           !.containers = {<<r.key, r.refers>> : r \in RowsOf(S)},
           !.movements = {<<nextId + Cardinality({d \in S : d < c}), c>> : c \in S}]}
  /\ nextId' = nextId + Cardinality(S)
  /\ UNCHANGED <<local, started, newest, workerVars>>

CommitTx(tx) ==
  /\ ~IsFresh(tx)
  /\ LET written == {w[1] : w \in tx.containers}
     IN  local' =
       [containers |->
          {r \in local["containers"] : r.key \notin written} \cup
          {[key |-> w[1], at |-> tx.at, refers |-> w[2],
            late |-> tx.at < newest,
            tied |-> Cardinality(tx.containers) > 1] : w \in tx.containers},
        movements |->
          local["movements"] \cup
          {[key |-> w[1], at |-> w[1], refers |-> w[2],
            late |-> \E m \in local["movements"] : m.key > w[1],
            tied |-> FALSE] : w \in tx.movements}]
  /\ newest' = IF tx.at > newest THEN tx.at ELSE newest
  /\ open' = open \ {tx}
  /\ UNCHANGED <<started, nextId, workerVars>>

-----------------------------------------------------------------------------
(* The worker *)

NextTable ==
  /\ pc' = "position" /\ position' = 0 /\ batch' = {}
  /\ table' = IF table = "containers" THEN "movements" ELSE "containers"

ReadPosition ==
  /\ pc = "position"
  /\ position' = cursor[table]
  /\ pc' = "read"
  /\ UNCHANGED <<localVars, cloud, cursor, table, batch, outages>>

\* ORDER BY the cursor column, then the primary key.
Before(r, s) == r.at < s.at \/ (r.at = s.at /\ r.key < s.key)

FirstRows(rows) ==
  {r \in rows : Cardinality({s \in rows : Before(s, r)}) < BatchRows}

\* A full batch of one stamp would leave the cursor where the batch began: it
\* is read again, with a second statement and without the LIMIT.
SplitsOneStamp(rows, t) ==
  /\ ~ById(t) /\ Cardinality(rows) = BatchRows
  /\ Cardinality({r.at : r \in rows}) = 1

NewRows == {r \in local[table] : r.at > position}

ReadBatch ==
  /\ pc = "read"
  /\ \/ NewRows = {} /\ NextTable
     \/ /\ NewRows # {}
        /\ batch' = FirstRows(NewRows)
        /\ pc' = IF SplitsOneStamp(FirstRows(NewRows), table) THEN "ties" ELSE "send"
        /\ UNCHANGED <<table, position>>
  /\ UNCHANGED <<localVars, cloud, cursor, outages>>

\* By then a row of that stamp may have got another.
ReadTies ==
  LET tied == {r \in local[table] : \E s \in batch : r.at = s.at}
  IN  /\ pc = "ties"
      /\ \/ tied = {} /\ NextTable
         \/ tied # {} /\ batch' = tied /\ pc' = "send" /\ UNCHANGED <<table, position>>
      /\ UNCHANGED <<localVars, cloud, cursor, outages>>

\* The foreign keys of the replica, once the batch is in.
RefersToSynced(rows, t) ==
  \A r \in rows :
    r.refers \in {0} \cup Keys(cloud["containers"])
                   \cup (IF t = "containers" THEN Keys(rows) ELSE {})

\* Mutant: INSERT without ON CONFLICT DO UPDATE, on a table without its key.
UpsertAppends(rows) == cloud[table] \cup rows

Upsert(rows) ==
  IF ById(table)
  THEN cloud[table] \cup {r \in rows : r.key \notin Keys(cloud[table])}
  ELSE {r \in cloud[table] : r.key \notin Keys(rows)} \cup rows

\* Mutant: the batch is tried again and again before anything else.
HoldBatchRetries ==
  /\ pc = "send" /\ ~RefersToSynced(batch, table)
  /\ pc' = "read" /\ batch' = {}
  /\ UNCHANGED <<localVars, cloud, cursor, table, position, outages>>

\* A foreign key violation: the batch waits for the next pass.
HoldBatch ==
  /\ pc = "send" /\ ~RefersToSynced(batch, table)
  /\ NextTable
  /\ UNCHANGED <<localVars, cloud, cursor, outages>>

\* A pass ends early, and the next begins with the first table.
Interrupted ==
  /\ outages < MaxOutages
  /\ outages' = outages + 1
  /\ pc' = "position" /\ table' = "containers" /\ position' = 0 /\ batch' = {}

\* Mutant: the cursor is committed before the rows.
SendBatchCursorFirst ==
  /\ pc = "send" /\ RefersToSynced(batch, table)
  /\ \E r \in batch : /\ \A s \in batch : s.at <= r.at
                      /\ cursor' = [cursor EXCEPT ![table] = r.at]
  /\ \/ /\ cloud' = [cloud EXCEPT ![table] = Upsert(batch)]
        /\ NextTable /\ UNCHANGED outages
     \/ Interrupted /\ UNCHANGED cloud
  /\ UNCHANGED localVars

\* The rows and the cursor are one transaction in the cloud.  Its commit is
\* acknowledged, or the connection is lost just after it.
SendBatch ==
  /\ pc = "send" /\ RefersToSynced(batch, table)
  /\ cloud' = [cloud EXCEPT ![table] = Upsert(batch)]
  /\ \E r \in batch : /\ \A s \in batch : s.at <= r.at
                      /\ cursor' = [cursor EXCEPT ![table] = r.at]
  /\ \/ NextTable /\ UNCHANGED outages
     \/ Interrupted
  /\ UNCHANGED localVars

\* Either database is out of reach, or the worker is stopped and started.
Outage ==
  /\ Interrupted
  /\ UNCHANGED <<localVars, cloud, cursor>>

-----------------------------------------------------------------------------

WarehouseNext ==
  \/ Begin
  \/ \E tx \in open :
       \/ \E c \in Containers, p \in {0} \cup Containers : Stack(tx, c, p)
       \/ \E S \in SUBSET Containers : Move(tx, S)
       \/ CommitTx(tx)

WorkerNext ==
  ReadPosition \/ ReadBatch \/ ReadTies \/ HoldBatch \/ SendBatch \/ Outage

Next == WarehouseNext \/ WorkerNext

Spec == Init /\ [][Next]_vars

\* The worker's loop goes on; the warehouse need not.
FairSpec ==
  Spec /\ WF_vars(ReadPosition \/ ReadBatch \/ ReadTies \/ HoldBatch \/ SendBatch)

-----------------------------------------------------------------------------
(* Properties *)

\* A row the cursor has passed, and that the replica does not hold.
Skipped(t) == {r \in local[t] : r.at <= cursor[t] /\ r \notin cloud[t]}

\* Wherever a pass is cut off, also between a commit and its acknowledgement,
\* the cursor and the rows agree.  It never passes a row that did not land,
\* except one that was committed after a later one or that a LIMIT can part
\* from the others of its stamp, and no row lands that it does not cover.
CursorExact ==
  \A t \in SyncedTables :
    /\ \A r \in Skipped(t) : r.late \/ r.tied
    /\ \A r \in cloud[t] : r.at <= cursor[t]

\* What the worker would send of a table, if it read it now.
NextBatch(t) ==
  LET left == {r \in local[t] : r.at > cursor[t]}
      first == FirstRows(left)
  IN  IF SplitsOneStamp(first, t)
      THEN {r \in left : \E s \in first : r.at = s.at}
      ELSE first

\* The worker comes to rest, wherever passes are cut off, only where nothing of
\* a table is left after its cursor, or its next batch refers to a container
\* that is neither in the replica nor in the batch.  A batch that is
\* held back does not keep another table from being sent, nor itself once what
\* it refers to has landed.
EventuallyCaughtUp ==
  <>[](\A t \in SyncedTables :
         NextBatch(t) = {} \/ ~RefersToSynced(NextBatch(t), t))

\* "It cannot lose rows" (sync/service.py): the cursor has not moved past rows
\* that did not land.
NothingLost == \A t \in SyncedTables : Skipped(t) = {}

=============================================================================
