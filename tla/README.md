# TLA+ models of tasker-rfid

Models, model-checking runs and proofs of the services under
`src/src/tasker_rfid`. The code is the reference: every definition is a
translation of the lines `PROJECT.json` ("map") names. Paths below are relative
to `src/src/tasker_rfid/services/` unless they start with `src/`.

    tlc -workers 2 -config corrections.cfg MCWarehouse.tla
    tlapm WarehouseProofs.tla     # and IngestProofs, DebouncerProofs, DirectionsProofs,
                                  # GateProofs, PipelineProofs, CycleCountProofs, SyncProofs

## The system

RFID readers and infrared beams at the doors of a warehouse publish over MQTT.
Five processes work on one Postgres database, and share nothing else:

    readers, beams --MQTT--> ingest --> reads_raw, gate_events
        debouncer: reads_raw, gate_events --> observations, debouncer_cursor
        state engine: observations --> containers, movements, anomalies
        API: containers, movements, anomalies, dispatch_sessions, cycle_counts
        sync: all of these --> a replica in the cloud, and its sync_cursor

| component | state | operations | talks to |
|---|---|---|---|
| ingest (`ingest/`) | the queue between its two threads, the batch in hand | on_message, collect, validate, write, acknowledge, stop | the broker (session, redelivery), the database |
| debouncer (`debouncer/service.py`, `grouping.py`) | open groups, cursor_id | fetch, absorb, close, filter, commit, flush | the database by polling |
| gate directions (`debouncer/direction.py`) | none (pure) | crossings from beam events, the crossing of an observation | called by the debouncer's commit |
| state engine (`state_engine/service.py`, `transitions.py`) | first_seen (settle clocks), the transaction of handle() | poll, wait for a load, lock, decide, move a tree, detach, raise, log | the database by polling |
| corrections (`state_engine/corrections.py`) | none | a status and a MANUAL movement | called by two routers |
| API (`api/routers/`) | none between requests | register, attach, correct, open and close a session, resolve, count | the database, each request a transaction |
| cycle counts (`api/routers/cycle_counts.py`) | two tables | start, scan, close | the database |
| sync (`sync/`) | the pass, a batch | read the cursor, read a batch, send it, hold it back | reads one database, writes another |
| broker | the session's queue | queue, deliver, discard | external, modelled from its configuration |
| reports and health (`api/routers/stock.py`, `reports.py`, `health.py`) | none | stock on hand, consumption, a session's detail, the debouncer's backlog | reads the tables |
| simulator (`simulator/`) | none | box, pallet, stray, reverse: reads and beam events on one timeline | publishes what readers and beams would |
| configuration (`src/src/tasker_rfid/config.py`) | none | antennas, gate and timeout of a portal, with their defaults | read by the debouncer and the simulator |
| feed, catalogue, dashboard, seed, errors, migrations | none | | not modelled, see below |

What is hard here is between the components and between their statements:

- All transactions are READ COMMITTED. A statement sees what was committed when
  it began, so what a request or `handle()` has read may be old when it writes.
  Only `SELECT ... FOR UPDATE` of one container row and the foreign key on
  `parent_id` order anything.
- Every service retries a database action after any error, one whose COMMIT
  took effect included.
- What is only in memory (a queue, open groups, settle clocks) is gone after a
  crash; what is acknowledged or passed by a cursor is not read again.
- Time enters in three places: the quiet period, the settle wait, the timeout of
  the gate. Stamps come from readers, from beams and from the database.

## The modules

| module | models | 
|---|---|
| `Transitions` | `transitions.py`: the decision table, and the target statuses a person may set |
| `Database` | the tables the engine and the API share, the lock on a container row, who is on whom |
| `StateEngine` | the polling loop, the settle wait, `handle()` statement by statement, retry, lost acknowledgement, restart |
| `Api` | the requests that write containers, sessions and anomalies, and `apply_manual_correction` |
| `Warehouse` | the composition: engine, API, and the debouncer as an environment that inserts observations; the properties |
| `MCWarehouse` | small instances: a pallet `p`, a box `b`, a second pallet `q` |
| `Custody` | abstract: what the warehouse promises of one container's way and its ledger |
| `Reports` | stock on hand, consumption and a session's detail, as operators over the tables |
| `WarehouseProofs` | theorems about `Warehouse`: its types and its ledger; that it implements `Custody`; what the engine makes of one observation; `Reports` |
| `Ingest` | the two threads of ingest, and the broker's session |
| `Delivery` | abstract: messages become rows in the order they were sent in, and none is passed over |
| `IngestProofs` | theorems about `Ingest`; that it implements `Delivery` |
| `Debouncer`, `MCDebouncer` | the debouncer's loop, groups, filters and cursor |
| `DebouncerProofs` | theorems about `Debouncer` |
| `Directions` | `direction.py`: beam events to crossings, and the crossing of an observation |
| `DirectionsProofs` | lemmas about the operators of `Directions`: one event read more, the fetched window, the nearest crossing |
| `Gate` | a load that moves through the gate, against which `Directions` is checked |
| `GateProofs` | theorems about `Gate` |
| `Config` | what `config.py` reads of the portals, and what it falls back to |
| `Simulator` | what the commands of the simulator publish for a load |
| `Pipeline`, `MCPipeline` | the composition: `Simulator`, delayed writes, `Debouncer`, `Directions` |
| `PipelineProofs` | theorems about `Pipeline`; that it implements `Debouncer` |
| `CycleCount`, `MCCycleCount` | start, scan and close of cycle counts, while stock moves |
| `CycleCountProofs` | theorems about `CycleCount` |
| `Sync` | a pass of the sync worker over two tables that stand for the twelve |
| `SyncProofs` | theorems about `Sync` |

### Warehouse

One variable per table, with the columns the code decides from: `status`,
`parent`, `registered` (the rows of `containers`), `movements` by container,
`observations`, `anomalies`, `sessions`. Times are left out where the code only
compares them: the order of rows is the order of a sequence, and an observation
carries, as history, the state the dock had when its tag was read.

The transaction of `handle()` is cut at its reads: `Lock` (the `FOR UPDATE` read
of the row and the decision), `ReadSession`, `ReadTree`, and then one `Finish`
action, in which everything it wrote becomes visible. Two transactions that both
write one row are ordered by that row's lock, so nothing can see a `Finish` half
done. A child row is only locked when it is updated, and its status may have
changed since `ReadTree`; this is kept (`LogPortal` logs the status that was
read). `DbError` is any failing statement (the transaction is rolled back and
`handle()` starts over with the same observation), also one at the commit whose
effect is kept; `Restart` is a stop or a crash. A request to attach or to
resolve is two steps, its check and its write, with the correction's row lock in
between. The 15 s window of `check_short_pallet` is a free choice.

`Custody` says the same without processes: a container goes its way (in, out,
and back to the pool if it is reusable) because a portal read it, because it is on
one that a portal read, or because a person said so, and each change is a row of
its ledger. `Warehouse` implements it with `ledger <- movements` (`KeepsCustody`):
whatever `handle()` had read before, the step in which it takes effect is one that
`Custody` allows.

`Reports` has the queries of `/stock`, `/reports` and a session's detail. Stock is
counted from `containers`, consumption from `movements`; `AccountedForOnce` compares
them, which no code does. The contents, by which the code sums, are left out: two
reports agree if they are of the same containers.

### Ingest, Debouncer, Gate

`Ingest` models a message as a value of one of four kinds: a read, a beam event,
one that validation rejects, one that it accepts and that Postgres does not
store. The broker is a queue and the set of what it has delivered on this
connection; a reconnection starts over with whatever is not acknowledged.
`sent` and `refused` are history. `Delivery` is what the debouncer may rely on: what is
in the tables is a prefix of the valid messages, in the order sent. A later message
is written before an earlier one only if a batch, the queue or a redelivery
changed their order, and none does.

`Debouncer` keeps the ids of a group where the code keeps running totals
(`read_count` and `peak_rssi` are functions of them; the time stamps are kept).
A read has a stamp, and an rssi that is strong, weak or missing (`Rssis`), and
arrives up to `MaxDelay` ticks later. Anything that talks
to the database may take time; absorbing and closing do not. A fetch is two steps:
the query, which fixes the rows it sees (`FetchReads`), and its answer and the rollback
after it (`FetchReturns`). Between them up to `MaxStall` ticks go by and more rows are
written, and `FetchFails` asks again, with a query of its own. This matters because the
clock that judges a group quiet is read after the answer is there: a group ages while
its next reads are already rows. `MaxStall` bounds how long, and `PassWhole` subtracts it.
A commit may take any time, since the next query comes after it.

`rejected` and `lost` are history, for the account `NeverSkipped` keeps;
`unacknowledged` has the groups of each commit that was made and failed all the
same, by which `ObservedOnce` counts the copies of a group in `observations`, a bag;
`smooth` is true while there was no stop, no crash and no full batch, which is what
`PassWhole` is about.
`ReadsAwaitingDebounce` is the backlog that `/health` shows.

`Directions` is the code of `direction.py`. `Gate` has the geometry it describes: two beams closer together
than a load is long, so a load breaks one, both, the other. `AfterEvents` is the loop of
`crossings_from_events`, a function on the events read so far, and what it makes of them is
checked against the loads themselves, which is an independent account. The load in the gate
is alone. With `LateTurns` it may turn back after breaking both beams.

### Pipeline

A load is made by one of the simulator's commands: a set of reads (which of those
that are strong enough to be heard is a choice), and four beam events in the middle
of the pass, or none for a parked box. Its messages are one timeline by their
stamps, as `main` of `simulator/cli.py` sorts them: a set with the order `Before`, in which
reads of one stamp may come in any order. Each is written,
in that order, up to `MaxDelay` ticks after its stamp; a beam event becomes a row of its
gate (`gateEvents`), since every query is for one gate. The publisher sends the first message
at once and paces the others from it, so that a load whose first tick is not heard is published
as much before its stamps; that is left out. The debouncer is the module's own;
`ResolveDirections` is the query of the beam events of one portal, for all groups
that are about to be written, before the transaction and outside of what is
retried; the groups and their directions are then written in one step. Rows may
be written between any two of its steps (but not between absorbing and closing,
where it does not look). The run lets them come while a fetch is under way, but no tick go by
(`MaxStall = 0`, for the number of states); `DirectionsOfLoads` holds for any stall.

A tick is about 0.9 s: a pass of 1.8 s is two ticks, the quiet period of 2 s two, the
timeout of 3 s three, the margin of 5 s five, a pallet's beams are blocked for one and
the 0.04 s between the two beams are none. The module assumes of these (`GateAssumption`)
that no two portals share a gate, that a gate's timeout is one that the second beam keeps
and the margin holds a whole crossing, and that
`PalletBlocked + Separation + MaxDelay <= Quiet`: a load that is still in the beams
a quiet period after its tag was last heard has no complete crossing when its
group is closed. Rows are late by at least the `Stagger` of a pallet's boxes, the first of
which may be heard before the load is there. `OneInTheGate` leaves out two loads in the beams at
one time; passes may overlap otherwise. What a stop flushes is left out of
`DirectionOfALoad`, see "Further disagreements".

### CycleCount, Sync

In `CycleCount` each statement of `close_count` is a step; its writes are one
transaction. Tags, counts and workers are symmetric, and no liveness is checked.

`Sync` has `containers`, mutable and asked for by `updated_at`, and `movements`,
append-only and asked for by `id`. `updated_at` is the start of the updating
transaction (`now()` in the trigger of migration 0005) and `id` is drawn at the
insert; neither is the order of commits. The read of tied rows is a second
statement, and a step of its own. The cloud's transaction (rows and cursor) is
one step, after which the acknowledgement may be lost. In the replica the trigger
stamps the rows anew, so the replica's `updated_at` is not the warehouse's; no
code reads it, and the model leaves it out. A pass ends early (`Interrupted`) for
either database, for a stop and for a missing schema; back-off is no more than
the time until the next step.

## The runs

Runs that pass. "Mutant" is a plausible bug of the code with which TLC finds the
property violated under the same configuration; it stands above the definition
it changes.

| run | bounds | what it shows |
|---|---|---|
| `corrections` | p with b on it or not, 3 observations, 1 session, 1 correction | `LedgerEndsAtStatus`: a container's last movement ends at its status. `NeverDispatchedTwice`, `StartsWhereLastEnded`, `PalletMovesWhole` (mutant: an attach that takes no key lock on the pallet), and `LedgerInv`, the inductive invariant of the proofs. `AccountedForOnce`: stock and consumption, from two tables, count a container once (mutant: the top-level stock of an earlier version). `KeepsCustody`: the refinement of `Custody` |
| `restarts` | 2 observations, 1 crash, 1 lost acknowledgement, any failing statement | `AppliedOnce`: an observation takes effect only together with its mark, and once unless an acknowledgement was lost. `OvertakesOnlyHeld`: a container's observations are applied in order, unless a pallet is held for its load. `EventuallyProcessed` |
| `dock` | a box nobody has registered yet, 2 observations, 2 sessions, 2 operators, 2 resolutions, 1 correction | `DispatchAttributed`: a dispatch has a session, and not one that was closed before the read. `CorrectionNotApart`: a disposition and its correction happen together or not at all |
| `delivery` | 4 messages, each a read, a beam event or invalid, batches of 2, a queue of 3, 2 faults | `NeverDropped`; `InOrder`: what was sent before a message in the queue or in a batch is stored or ahead of it, on every connection; `ImplementsDelivery`: the refinement of `Delivery`; `EventuallyStored` |
| `debouncing` | 3 reads of a tag under a portal and of one under none, weak or without an rssi, up to a tick late, fetches that take up to a tick, a quiet period of 3, minimum of 2 reads, batches of 2, 4 ticks, 1 fault | `NeverSkipped`: a read that the cursor has passed is observed, rejected, in memory, or was in memory at a crash. `ObservedOnce`: no two groups share a read, and one is written once, and once more for a commit that was made and not acknowledged (mutant: the observations are committed before the cursor). `PassWhole`: a pass is parted only by a gap longer than the quiet period less the delay of a read and the stall of a fetch. `EventuallyObserved`: the cursor reaches every read and no group stays open |
| `crossings` | 3 ticks, up to one crossing each, a repeated event, a timeout of 1 | `CrossingsAreLoads`; `OwnDirection`: an observation gets its own load's direction although the events of its window cut through the neighbours, in a batch with another load's too |
| `pipeline` | an entrance without and an exit with a gate, 2 tags, 3 reads, boxes, pallets, returns and parked boxes, 2 loads or a load and a stop, a crash, a failed fetch or a failed commit, messages up to a tick late and any number of them while a fetch is under way (`MaxStall = 0`: no tick), 7 ticks | `DirectionOfALoad`: an observation at the exit has the direction of a load that was in the beams while its tag was heard, and UNKNOWN only if none was |
| `counting` | 2 tags, 2 counts, 2 requests at a time, 2 changes of stock | `VarianceRight`: what stood still is found or reported missing, never unexpected, and what had been found is not reported missing. `FoundStaysFound` |
| `replica` | 3 containers, batches of 2, 4 transactions, 2 at a time, 1 outage | `CursorExact`: the cursor passes no row that did not land, but those of `NothingLost` below, and no row lands that it does not cover. `EventuallyCaughtUp`: the worker rests only where nothing it could send is left |

Operators (`dock`), tags (`pipeline`), and tags, counts and requests (`counting`) are
symmetric; no liveness is checked in those runs.

Each bound is the least with which the interesting case happens, plus what the
machine allows: a pallet and one box have every case of a tree of one level (a
child read early, detached, corrected, attached late), three observations let a
container come, go and come again, a batch of two can be cut or tied, two
faults are a write that fails, or takes effect unseen, and a broken link or a crash
after it. Two loads in `pipeline` are enough for one's beam events to lie in the
other's window. In `debouncing` a quiet period of 3 leaves one tick after delay and stall:
`PassWhole` is violated there if either is not subtracted. In `dock` the
portal is always EXIT, with each of the three directions: for the engine an
ENTRANCE is an EXIT whose direction is IN. `MaxNow`, `MaxReads`, `MaxMoves`, `MaxEvents` and the
messages of `delivery` come to an end, and so does what the models do with them;
this is why those runs do not check for deadlock. In the other runs the bounds
leave the loops of the workers running.

Fairness. The engine's, the sync worker's, ingest's and the debouncer's loops are
processes that run (`WF` of their steps); Docker restarts them
(`restart: unless-stopped`), and paho reconnects (`WF` of `Restart`, `Connect`). The
clock of `Debouncer` goes on (`SF` of `Tick`, which waits while the loop works on what it
has fetched). Failures are bounded where a
service has to get through in the end (`MaxLostAcks`, `MaxCrashes`, `MaxFaults`,
`MaxOutages`), and `EngineFairness` asks that statements do not fail for ever
(`SF` of the commit). Nothing is asked of people, readers or the warehouse.

Each run that is expected to fail shows a place where the code does something
else than a doc, comment or test of the repository says, quoted in
`PROJECT.json` under "findings".

| run | property | what happens |
|---|---|---|
| `lost_ack` | `MovedOnce` | after a lost acknowledgement a returned pallet is moved twice by one read |
| `late_commit` | `NothingLost` | a row of a transaction that commits after a later one is never copied |
| `unstorable` | `EventuallyStored` | a text with a NUL passes validation and is tried for ever |

### Further disagreements

The properties below stand last in their modules. They have no run of their own; TLC finds each violated with
the configuration named, its properties replaced by this one and its constants
changed as the third column says.

| property | what happens | configuration |
|---|---|---|
| `OneOpenSession` | two requests to open the dock at once both succeed, since nothing backs the check of `api/routers/dispatch_sessions.py:39`; line 32: "Only one session may be open at a time" | `dock` |
| `AttributedToSessionAtRead` | a dispatch goes to the session open when it is handled (`state_engine/service.py:468`), not to that of the read; `src/SPEC.md:71`: "everything read during that window is attributed to it" | `lost_ack`: `MaxObs = 2`, `MaxSessions = 2`, `MaxLostAcks = 0` |
| `MovesToAnotherStatus` | a box that a person moved to the target after the tree was read is moved there once more; `state_engine/service.py:243`: "A box that is already at the target status is skipped" | `lost_ack`: `MaxObs = 2`, `MaxCorrections = 1`, `MaxLostAcks = 0` |
| `TreeMovesWhole` (action property) | a box put on a nested container after the tree was read stays behind; `state_engine/service.py:100`: "however deep the nesting goes" | `lost_ack`: `Tids`, `Known = {p, q, b}`, `Reusable = {p, q}`, `Loads <- NestedLoads`, `MaxObs = 2`, `MaxSessions = 0`, `MaxLostAcks = 0` |
| `NeverOnItself` | two pallets are put on each other, and the tree query does not end; `api/routers/containers.py:118`: "A container cannot be placed on itself." | `lost_ack`: `Tids`, `Known`, `Reusable = {p, q}`, `Loads <- Circular`, `MaxObs = 1`, `MaxLostAcks = 0` |
| `NeverRestockedAtDoor` | a pallet that comes in REGISTERED restocks the dispatched box on it; `src/SPEC.md:374`: "never silently restocked at the door" | `lost_ack`: `MaxLostAcks = 0` |
| `ResolverKept` (action property) | the second of two concurrent resolutions overwrites the first; `src/tests/integration/test_api.py:295`: "refused rather than silently overwriting who did it" | `lost_ack`: `MaxObs = 1`, `MaxResolutions = 2`, `MaxLostAcks = 0`, `Operators = {o1, o2}` |
| `DetailFinal` (action property) | the detail of a session grows after it was closed, by the load that the engine was handling; `api/routers/dispatch_sessions.py`: "Closes the session and returns what went out during it" | `lost_ack`: `MaxObs = 2`, `MaxCorrections = 1`, `MaxLostAcks = 0` |
| `NoneUnattributed` | a person's DISPATCHED has no session, and the report does not count it; `api/routers/reports.py`: "An unattributed load would be invisible to this report, so the system refuses to record one" | the same |
| `CountIsRecord` | a tag scanned while `close_count` runs is reported missing and recorded as found; `api/routers/cycle_counts.py:138`: "a complete record" | `counting` |
| `ClosedOnce` | two concurrent requests close one count, with different variances; `src/tests/integration/test_api.py:257` expects a refusal | `counting` |
| `NothingRefused` | the broker discards what its queue does not hold; `ingest/service.py:18`: "the system applies backpressure instead of losing reads" | `delivery`: `Kinds = {"read"}`, `QueueMax = 2`, `MaxQueued = 1`, `MaxFaults = 1` |
| `ClosedWhenAbsent` | a group is closed by the clock while its next reads wait in reads_raw, behind a full batch or the query of a slow fetch, or have not been written yet; `debouncer/grouping.py:3`: "when a TID has been absent for quiet_period_ms" | `debouncing`; `MinReadCount = 1`, `MaxFaults = 0`, and `FetchBatch = 1`, `MaxDelay = 0`, `MaxStall = 0` for rows behind a full batch, `FetchBatch = 3`, `MaxDelay = 2`, `MaxStall = 0` for late ones, or `FetchBatch = 3`, `MaxDelay = 0`, `MaxStall = 1` for those behind a slow query; with `FetchBatch = 3` and neither delay nor stall it holds |
| `WrittenOnce` | after a lost acknowledgement the observations are written twice; `debouncer/service.py:22`: "a crash cannot lose an observation or double-count one" | `debouncing` |
| `CrashOnlyTruncates` | a crash loses a short pass as a whole; `debouncer/service.py:26`: "The event is not lost" | `debouncing` |
| `GoneThrough` | a load that turns back after breaking both beams counts as gone; `debouncer/direction.py:9`: "Break INNER then OUTER and something left" | `crossings`: `Reach = 2`, `LateTurns = TRUE`, `MaxRepeats = 0` |
| `NothingLost` | a LIMIT parts rows of one `updated_at`, and the rest are never copied; `sync/service.py:16`: "IT CANNOT LOSE ROWS." | `replica`: `MaxOpen = 1`, `MaxOutages = 0` |

`EventuallyCaughtUp` allows for one more: a full batch of children whose parent was
updated after them is read and held back on every pass, and blocks its table for
good, where `sync/service.py:412` says "try again next cycle, by which time the
parent will have gone across".

`DirectionOfALoad` allows for what the debouncer's comments do not:

- "A crossing always falls inside its observation" (`debouncer/service.py:75`, and
  `gate_crossing` in `simulator/model.py`): the beams of a pallet clear 1.9 s after the pass
  began, which lasts 1.8 s, and a tag may be heard only before or only after its load is in
  the beams. In the first case the code finds the crossing all the same; in the others the
  observation is UNKNOWN.
- A box parked at the exit gets the direction of a load that crosses while it is heard, and a
  tag the direction of another load in whose crossing its observation reaches.
- A stop flushes groups whose load is still in the beams, with UNKNOWN.

## What is proved

`WarehouseProofs` proves, for every set of tags and operators, every load, and
every bound, with one assumption per constant (`WarehouseAssumption`,
`EngineAssumption`, ...: they are sets of the right kind, and natural numbers):

- `TypeCorrect`: `Spec => []TypeOK`. One lemma for the reads of the engine, one
  for its `Finish` actions, one for the API and one for the debouncer's insert.
- `LedgerInvariant`: `Spec => []LedgerInv`, and from it `LedgerExplainsStatus`,
  `ReadsAndCorrectionsChain` and `NoDoubleDispatch`, which state
  `LedgerEndsAtStatus`, `StartsWhereLastEnded` and `NeverDispatchedTwice`.

`LedgerEndsAtStatus` is not inductive: whether a `Finish` keeps it depends on what
`handle()` has read. `LedgerInv` adds that the row `handle()` has locked still
has the status it decided from (`RootHeld`), that any other status it has read
and that has changed since was changed by a person (`OverruledByHand`), that two
movements in a row end alike only where a portal read repeats what a person has
just done (`RepeatsOnlyAPerson`), and that portal rows have an observation
(`PortalRowsHaveCause`). The central lemma, `LedgerExtends`, says that a step which
gives each container no new row or one more row, ending at its new status, and
starting at the old one or being a box's, keeps the ledger; each action is then
shown to be such a step. `NeverDispatchedTwice` follows from `RepeatsOnlyAPerson`:
two portal rows to DISPATCHED with nothing but DISPATCHED between them would have
to be next to each other.

A second part of the module proves `CustodyKept`: `Spec => KeepsCustody`, the refinement of
`Custody`. Only the `Finish` actions and the corrections change a status; the others
are stutters. What is missing from `LedgerInv` is what `handle()` has decided:
`DecisionInv` says that while a move is on its way its target is one that the table
of `transitions.py` gives for the root's status, that it has a session if and only if
that target is DISPATCHED, and that it takes nothing along on its way back to the pool.
With it each `Finish` is a `ByRead` of the root with what it takes along, and each
correction a `ByHand`.

The third part of `WarehouseProofs` proves the other properties of `Warehouse` and
`Reports`, each from an invariant of its own that stands on `LedgerInv` and `DecisionInv`:

- `NeverToAClosedSession` (`DispatchAttributed`). `AttributionInv`: a session that was
  closed when a tag was read is closed for good, and the session `handle()` holds is not
  one of these, though it may have been closed since it was read.
- `AppliedInOrder` (`OvertakesOnlyHeld`, an action property). `QueueInOrder`: what is
  unprocessed and earlier than a row of the batch is in the batch too, or held. A batch is
  the first `FetchBatch` unprocessed rows, and is taken up in the order of ids.
- `EffectsOnce` (`AppliedOnce`). `OnceInv`: as long as no acknowledgement was lost, the row
  in hand and the rest of the batch are unprocessed, and what is unprocessed has caused
  nothing. So what a commit adds is the first that its observation causes.
- `NothingLeftBehind` (`PalletMovesWhole`, an action property). `ChildrenRead`: from
  `ReadTree` to the commit every child of the locked pallet is among what was read, since the
  lock keeps new ones off. A child whose status changed since has a person's row.
- `ResolvedWithItsCorrection` (`CorrectionNotApart`, an action property) needs the types only:
  the two writes are in one step, and each other end of a request writes nothing.
- `AccountedFor` (`AccountedForOnce`). `BalanceInv`: of a container nobody has corrected, the
  rows to DISPATCHED are as many as those out of it, and one more while it is DISPATCHED.
  A row of such a container starts at its status, by `OverruledByHand`, and every row that
  leaves has a session, by `NeverToAClosedSession`, so the report counts it.

`IngestProofs` proves, for batches, queues and broker windows of any size and any
number of faults, `TypeCorrect`, `NothingDropped` (`NeverDropped`), `OrderKept` (`InOrder`)
and `Refinement` (`ImplementsDelivery`). The inductive invariant is `InOrder` itself, in
four parts: all that was sent before a message that is stored, in the batch or in the
queue is stored or ahead of it (`StoredInOrder`, `BatchInOrder`, `QueueInOrder`), and what the
broker has delivered on this connection is in one of the three (`HandsHold`). A batch
that is written extends what is stored by just what follows it, which is
`Store` of `Delivery`; redelivery and lost acknowledgements only shrink what covers,
never what is stored.

`CycleCountProofs` proves `TypeCorrect`, `FoundStays` (`FoundStaysFound`, an action property)
and `VarianceIsRight` (`VarianceRight`). The invariant is `ReadsHold`: at each statement of
`close_count`, what stayed in stock is among what the request expects, what had been found
is among what it has seen scanned, and what it has seen scanned is still found. The last
holds because found rows only grow, which is `FoundStaysFound`.

`SyncProofs` proves `TypeCorrect` and `CursorIsExact` (`CursorExact`), for any number of
containers, transactions open at one time and interruptions. `SyncInv` has a part for the
tables (one row of a key, rows of one stamp are tied), one for the transactions in progress
(their stamps and ids are nobody else's, so what commits below the newest is late), one for
the replica (the cursor has not passed what is committed) and one for the worker,
`BatchInv`: from the cursor to the end of the batch there is nothing but the batch and rows
that are late or tied, although the tables change between the read and the send.

`DebouncerProofs` proves `TypeCorrect`, `NoneSkipped` (`NeverSkipped`), `EachObservedOnce`
(`ObservedOnce`) and `PassesWhole` (`PassWhole`), for any number of reads, keys, faults
and ticks, any delay and any stall. `DebouncerInv` says of the groups that no two hold one
read and that what is written is not past the stored cursor (`GroupsInv`), of the rows of a
group that they are as many as the commits of it that were made, of which at most one was
acknowledged, and none while it is still being written (`CopiesInv`), of a round that the rows it works on are
just those that follow the last it absorbed (`RoundInv`), of the reads that each one passed is
in a place the account of `NeverSkipped` names (`CoverInv`), of time that a later read is
stamped at most `MaxDelay` earlier (`TimeInv`), of an open group that it holds the latest
read of its key (`OpenInv`), and, while the loop keeps up, that each closed group has its gap
after it, and that a row which the round does not hold was written after its query, so that
its stamp is at most the delay and the stall back (`SmoothInv`, `Behind`).

`DirectionsProofs` has the lemmas about the operators. `after[n]` and `fetched[n]` are recursive
functions, and that each equation holds for every n is proved by a least counterexample: the
least n at which the function is not what `after[n - 1]` makes of it cannot be. From that: what
one more event makes of what has been read, that the window that is fetched is in order of
`occurred_at` and has just the rows that fall in it, and which crossing is nearest.

`GateProofs` proves `TypeCorrect` for whatever loads do. `GateInv` relates what the events so
far have been read as to where the load is: the beams that are broken are those it is in, and
a crossing is open if and only if one is. A repeated row changes nothing (`ReadTwice`). The
other three theorems ask that no load turns back after it has broken both beams
(`~ LateTurns`), since then two loads and one that turns look alike to the beams; how
`GoneThrough` fails for one that does is among the disagreements above.

- `CrossingsOfAll` (`CrossingsAreLoads`). That the crossings are the loads so far is not
  inductive without the load in the gate, and the directions need windows, not only all events.
  So `StraightInv` says of every window of times (`WindowOK`) what its reader knows of the load
  in the gate (`Sees`: which beams it is in, when it came in and whether it broke the second in
  time, or, if it came in before the window, less than that), and which crossings it has made.
- `OwnDirections` (`OwnDirection`). A window may begin or end within a load. What it makes of a
  load that it cuts has another midpoint than any whole load's crossing, and overlaps nothing
  that the load does not (`ApartInTime`); so the observation's own load is the nearest, or the
  only one.
- `GoneThroughStraight` states `GoneThrough`, which no run checks, since it fails with
  `LateTurns`.

`PipelineProofs` proves, for every configuration of the portals, any tags, commands and
lengths of time that `GateAssumption` allows, and any number of loads and faults,
`PipelineDebounces` (`PipelineSpec => Spec` of `Debouncer`: what is proved of the debouncer is
true of it in the pipeline), `PipelineTypes` (`PipelineTypeOK`) and `DirectionsOfLoads`
(`DirectionOfALoad`). `PipelineInv` has a part for each component:

- `SimulatorInv`: loads follow one another in the beams, each that crosses has four beam events
  at their distances, and no message that is not yet written is later than `MaxDelay`.
- `GatesInv`: the rows of a gate are events of its loads; each event that is not on a timeline
  any more is one of them, and the rows of one load are in the order of its events.
- `QuietInv`: a group that is to be written was last heard more than a quiet period ago, but for
  those a stop flushes.
- `DirectionsInv`: each direction that was given, or written, is right for the loads there are
  (`Right`), and stays so: a load that is run later is in the beams after the group was closed.

The step that matters is `ResolveDirections`. By `QuietInv` and the last assumption of
`GateAssumption` every event of a load that was in the beams while a tag was heard is a row
(`RowsShown`), so the fetched window shows these loads as a whole, in turn. Loads that began
before the window are cut, and what they leave ends before the tag was heard; loads that came
later start after it, and may be there in part. `Stage` says how far a load is read, and
`CrossingsOfLoads` that the crossings which overlap the group are those of its loads.

The order of ids and stamps is used by way of least elements: `LeastNatural`, that a set of
numbers has a least one, gives the row of a batch that comes first, the next read to
absorb, the first row of a window and the recursive functions of `Directions`. That is the only
induction over data.

TLC checks the properties the theorems state on the instances of the runs. Some bounds of
the models (`MaxObs`, `MaxReads`, `MaxTx`, `MaxMoves`, ...) are constants like any other here:
a theorem holds whatever they are.

Every invariant and every action property of the runs is a theorem. Only checked is liveness
(`EventuallyProcessed`, `EventuallyStored`, `EventuallyObserved`, `EventuallyCaughtUp`), which is
out of the prover's reach, as is `ENABLED`; and `CrossingsAreLoads` and `OwnDirection` with
late turns are neither proved nor true.

## What is not modelled

- The feed of observations, the catalogue, request and response bodies, the wording
  of errors and the dashboard keep no state. They show what the modelled tables hold.
- The rest of `/health` compares times with the clock. It counts the minutes of a
  reader's silence through the night: `reader_has_gone_quiet` (`api/routers/health.py:41`)
  looks only at whether it is working hours now, and so alerts at opening, where its
  docstring says "Outside working hours [...] the same silence means nothing". This is
  read from the code; there is no state to model.
- The seed checks two spreadsheets and upserts them before anything else runs; the
  migrations make the tables.
- Of the simulator: `sim burst`, which moves nothing, noise, rounding, the rate at which tags
  answer, and the command line.
- Contents of containers, SKUs and customers: no status, session or direction
  depends on them. Quantities and periods of the reports.
- `parse_read` and `parse_gate_event`: what they accept is a set of messages.
- Two loads in the gate at once: their beam events are one crossing, and nothing
  in the repository says what it should be.

## Plan

1. *Done*: the core (`Transitions`, `Database`, `StateEngine`, `Api`, `Warehouse`), its
   runs and its ledger theorems; `Sync`; `CycleCount`; `Ingest`; `Debouncer`; `Gate`.
2. *Done*: `Delivery` and `Custody`, what `Ingest` and `Warehouse` promise, with their
   refinements proved; `Simulator`, `Config` and `Pipeline`; `Reports`; liveness of the
   debouncer.
3. Left to model: `Replica`, an abstract log of which `Sync` sends a prefix when
   transactions commit in order; nested loads of two levels in a passing run; the
   15 s window of `check_short_pallet` with stamps.
4. *Done*: all safety properties of the runs are theorems; `Pipeline` implements `Debouncer`.
5. Left to prove: the directions of what a stop flushes, which are a load's or UNKNOWN if the
   rows of one gate are written in the order of its loads, and not only of each load's events.
