------------------------------ MODULE Debouncer ------------------------------
(***************************************************************************)
(* The debouncer (services/debouncer/service.py, grouping.py): rows of     *)
(* reads_raw, fetched in order of id, are grouped by tag and portal, and   *)
(* a group becomes an observation once its tag has been quiet.  Reads are  *)
(* stamped by the reader, come late when ingest or its database does, and  *)
(* never out of the order of their ids.                                    *)
(***************************************************************************)
EXTENDS Naturals, Sequences, FiniteSets, FiniteSetsExt, Bags

CONSTANTS
    Keys,          \* (tid, portal)
    Unmapped,      \* those whose antenna is under no portal
    Quiet,         \* quiet_period_ms, in ticks
    MinReadCount,  \* min_read_count
    FetchBatch,    \* FETCH_BATCH
    Rssis,         \* bound: what a read reports, against rssi_floor_dbm
    MaxDelay,      \* bound: ticks from a read to its row
    MaxStall,      \* bound: ticks from the query of a fetch to its answer
    MaxReads,      \* bound: rows of reads_raw
    MaxNow,        \* bound: the clock
    MaxFaults      \* bound: failed statements and crashes

ASSUME DebouncerAssumption ==
  /\ Unmapped \subseteq Keys /\ Rssis \subseteq {"strong", "weak", "none"}
  /\ Quiet \in Nat \ {0} /\ MinReadCount \in Nat \ {0} /\ FetchBatch \in Nat \ {0}
  /\ MaxDelay \in Nat /\ MaxStall \in Nat
  /\ MaxReads \in Nat /\ MaxNow \in Nat /\ MaxFaults \in Nat

VARIABLES
    now,
    reads,         \* reads_raw, by id: the key, the stamp, and the rssi
    dbCursor,      \* debouncer_cursor
    observations,  \* a bag: a group may be written twice
    pc,            \* where the process is; "down" when there is none
    cursorId,      \* its cursor_id
    highest,       \* highest_id, the cursor the round will commit
    rows,          \* the ids it has fetched
    stall,         \* ticks since that query, while its answer is on its way
    openGroups,    \* a group or Nothing for each key
    finished,      \* closed_this_round, and then what is kept of it
    stopping,
    rejected,      \* history: the ids in groups that were filtered out
    lost,          \* history: the ids in groups a crash took
    unacknowledged,  \* history: a bag, the groups whose commit was made and failed
    smooth,        \* history: no stop, no crash, and no batch that was full
    faults

dbVars == <<reads, dbCursor, observations>>
histories == <<rejected, lost, unacknowledged>>
vars == <<now, dbVars, pc, cursorId, highest, rows, stall, openGroups, finished,
          stopping, histories, smooth, faults>>

\* A read is weak when its rssi is below rssi_floor_dbm, and may have none.
Read == [key : Keys, at : 0..MaxNow, rssi : Rssis]

Ids == 1..Len(reads)

\* `ids` stands for read_count and peak_rssi, which are functions of it.
\* `touched` is last_touched, by the process's own clock.
Group == [key : Keys, ids : SUBSET (1..MaxReads), first : 0..MaxNow,
          last : 0..MaxNow, touched : 0..MaxNow]

Nothing == [ids |-> {}]

ReadCount(g) == Cardinality(g.ids)

\* peak_rssi is there, and below the floor.
PeakIsWeak(g) == {reads[i].rssi : i \in g.ids} \ {"none"} = {"weak"}

Rejected(g) == ReadCount(g) < MinReadCount \/ PeakIsWeak(g)

IdsOf(S) == UNION {g.ids : g \in S}

OpenKeys == {k \in Keys : openGroups[k] # Nothing}

InMemory == {openGroups[k] : k \in OpenKeys} \cup finished

TypeOK ==
  /\ now \in 0..MaxNow
  /\ reads \in Seq(Read) /\ Len(reads) <= MaxReads
  /\ dbCursor \in 0..Len(reads)
  /\ IsABag(observations) /\ BagToSet(observations) \subseteq Group
  /\ pc \in {"load", "fetch", "fetching", "absorb", "close", "commit", "final", "down"}
  /\ cursorId \in 0..dbCursor /\ highest \in 0..Len(reads)
  /\ rows \subseteq Ids /\ Cardinality(rows) <= FetchBatch /\ stall \in 0..MaxStall
  /\ \A k \in Keys : openGroups[k] # Nothing =>
       openGroups[k] \in Group /\ openGroups[k].key = k
  /\ finished \subseteq Group
  /\ stopping \in BOOLEAN /\ smooth \in BOOLEAN
  /\ rejected \subseteq Ids /\ lost \subseteq Ids /\ IsABag(unacknowledged)
  /\ faults \in 0..MaxFaults
  /\ pc \in {"fetch", "fetching", "absorb", "close"} => cursorId = dbCursor

Init ==
  /\ now = 0
  /\ reads = <<>> /\ dbCursor = 0 /\ observations = EmptyBag
  /\ pc = "load" /\ cursorId = 0 /\ highest = 0 /\ rows = {} /\ stall = 0
  /\ openGroups = [k \in Keys |-> Nothing] /\ finished = {}
  /\ stopping = FALSE
  /\ rejected = {} /\ lost = {} /\ unacknowledged = EmptyBag
  /\ smooth = TRUE /\ faults = 0

-----------------------------------------------------------------------------

\* Absorbing what was fetched and looking for quiet groups takes no time; what
\* talks to the database may take any.
Tick ==
  /\ now < MaxNow /\ pc \notin {"absorb", "close"}
  /\ pc = "fetching" => stall < MaxStall
  /\ now' = now + 1
  /\ stall' = IF pc = "fetching" THEN stall + 1 ELSE stall
  /\ UNCHANGED <<dbVars, pc, cursorId, highest, rows, openGroups, finished, stopping,
                 histories, smooth, faults>>

ReadArrives(k, delay, rssi) ==
  /\ Len(reads) < MaxReads /\ delay <= now
  /\ reads' = Append(reads, [key |-> k, at |-> now - delay, rssi |-> rssi])
  /\ UNCHANGED <<now, dbCursor, observations, pc, cursorId, highest, rows, stall,
                 openGroups, finished, stopping, histories, smooth, faults>>

LoadCursor ==
  /\ pc = "load"
  /\ cursorId' = dbCursor /\ highest' = dbCursor
  /\ pc' = "fetch"
  /\ UNCHANGED <<now, dbVars, rows, stall, openGroups, finished, stopping, histories,
                 smooth, faults>>

\* What the query sees.  Rows that are written from now on are not in the answer.
Snapshot ==
  /\ rows' = {i \in Ids : cursorId < i /\ i <= cursorId + FetchBatch}
  /\ stall' = 0

FetchReads ==
  /\ pc = "fetch" /\ ~stopping
  /\ Snapshot
  /\ pc' = "fetching"
  /\ UNCHANGED <<now, dbVars, cursorId, highest, openGroups, finished, stopping,
                 histories, smooth, faults>>

\* The rows are transferred, and the transaction is rolled back.
FetchReturns ==
  /\ pc = "fetching"
  /\ pc' = IF rows = {} THEN "close" ELSE "absorb"
  /\ smooth' = (smooth /\ Cardinality(rows) < FetchBatch)
  /\ stall' = 0
  /\ UNCHANGED <<now, dbVars, cursorId, highest, rows, openGroups, finished, stopping,
                 histories, faults>>

\* Mutant: the quiet period is measured by the process's clock.
StartsNewSessionByClock(g, i) == now > g.touched + Quiet

StartsNewSession(g, i) == reads[i].at > g.last + Quiet

StartGroup(i) == [key |-> reads[i].key, ids |-> {i}, first |-> reads[i].at,
                  last |-> reads[i].at, touched |-> now]

Add(g, i) ==
  [g EXCEPT !.ids = @ \cup {i},
            !.first = IF reads[i].at < @ THEN reads[i].at ELSE @,
            !.last = IF reads[i].at > @ THEN reads[i].at ELSE @,
            !.touched = now]

\* One pass of the loop of absorb: the next row.
Absorb ==
  LET i == Min(rows)
      k == reads[i].key
      g == openGroups[k]
  IN  /\ pc = "absorb"
      /\ rows' = rows \ {i}
      /\ \/ k \in Unmapped /\ UNCHANGED <<openGroups, finished>>
         \/ /\ k \notin Unmapped /\ g = Nothing
            /\ openGroups' = [openGroups EXCEPT ![k] = StartGroup(i)]
            /\ UNCHANGED finished
         \/ /\ g # Nothing /\ StartsNewSession(g, i)
            /\ openGroups' = [openGroups EXCEPT ![k] = StartGroup(i)]
            /\ finished' = finished \cup {g}
         \/ /\ g # Nothing /\ ~StartsNewSession(g, i)
            /\ openGroups' = [openGroups EXCEPT ![k] = Add(g, i)]
            /\ UNCHANGED finished
      /\ highest' = i
      /\ pc' = IF rows' = {} THEN "close" ELSE "absorb"
      /\ UNCHANGED <<now, dbVars, cursorId, stall, stopping, histories, smooth, faults>>

HasGoneQuiet(g) == now > g.touched + Quiet

\* What absorb closed and the groups of S, less those the filters reject.
Close(S) ==
  LET closed == finished \cup {openGroups[k] : k \in S}
      kept == {g \in closed : ~Rejected(g)}
  IN  /\ finished' = kept
      /\ rejected' = rejected \cup IdsOf(closed \ kept)
      /\ openGroups' = [k \in Keys |-> IF k \in S THEN Nothing ELSE openGroups[k]]

\* Mutant: a round that closes nothing commits nothing.
CloseQuietGroupsLazy ==
  /\ pc = "close"
  /\ Close({k \in OpenKeys : HasGoneQuiet(openGroups[k])})
  /\ pc' = IF finished' # {} THEN "commit" ELSE "fetch"
  /\ UNCHANGED <<now, dbVars, cursorId, highest, rows, stall, stopping, lost,
                 unacknowledged, smooth, faults>>

CloseQuietGroups ==
  /\ pc = "close"
  /\ Close({k \in OpenKeys : HasGoneQuiet(openGroups[k])})
  /\ pc' = IF finished' # {} \/ highest # cursorId THEN "commit" ELSE "fetch"
  /\ UNCHANGED <<now, dbVars, cursorId, highest, rows, stall, stopping, lost,
                 unacknowledged, smooth, faults>>

\* Mutant: the last groups are closed as any others.
FlushQuietOnly ==
  /\ pc = "fetch" /\ stopping
  /\ Close({k \in OpenKeys : HasGoneQuiet(openGroups[k])})
  /\ highest' = cursorId /\ pc' = "final"
  /\ UNCHANGED <<now, dbVars, cursorId, rows, stall, stopping, lost, unacknowledged,
                 smooth, faults>>

\* A graceful stop closes every group.
Flush ==
  /\ pc = "fetch" /\ stopping
  /\ Close(OpenKeys)
  /\ highest' = cursorId /\ pc' = "final"
  /\ UNCHANGED <<now, dbVars, cursorId, rows, stall, stopping, lost, unacknowledged,
                 smooth, faults>>

\* The observations and the cursor are one transaction.
Written ==
  /\ observations' = observations (+) SetToBag(finished)
  /\ dbCursor' = highest

Forget ==
  /\ openGroups' = [k \in Keys |-> Nothing] /\ finished' = {}
  /\ rows' = {} /\ stall' = 0
  /\ cursorId' = 0 /\ highest' = 0 /\ stopping' = FALSE

\* Mutant: cursor_id stays where it was.
CommitKeepsCursor ==
  /\ Written
  /\ \/ /\ pc = "commit"
        /\ pc' = "fetch" /\ finished' = {}
        /\ UNCHANGED <<cursorId, highest, rows, stall, openGroups, stopping>>
     \/ pc = "final" /\ pc' = "down" /\ Forget
  /\ UNCHANGED <<now, reads, histories, smooth, faults>>

Commit ==
  /\ Written
  /\ \/ /\ pc = "commit"
        /\ pc' = "fetch" /\ cursorId' = highest /\ finished' = {}
        /\ UNCHANGED <<highest, rows, stall, openGroups, stopping>>
     \/ pc = "final" /\ pc' = "down" /\ Forget
  /\ UNCHANGED <<now, reads, histories, smooth, faults>>

Fault == faults < MaxFaults /\ faults' = faults + 1

\* A fetch that fails is tried again with a query of its own.
FetchFails ==
  /\ Fault /\ pc = "fetching"
  /\ Snapshot
  /\ UNCHANGED <<now, dbVars, pc, cursorId, highest, openGroups, finished, stopping,
                 histories, smooth>>

\* Mutant: the observations are committed before the cursor is written.
CommitFailsBetween ==
  /\ Fault /\ pc \in {"commit", "final"}
  /\ observations' = observations (+) SetToBag(finished)
  /\ UNCHANGED <<now, reads, dbCursor, pc, cursorId, highest, rows, stall, openGroups,
                 finished, stopping, histories, smooth>>

\* The commit is lost, and tried again; or only its acknowledgement was.
CommitFails ==
  /\ Fault /\ pc \in {"commit", "final"}
  /\ \/ Written /\ unacknowledged' = unacknowledged (+) SetToBag(finished)
     \/ UNCHANGED <<dbCursor, observations, unacknowledged>>
  /\ UNCHANGED <<now, reads, pc, cursorId, highest, rows, stall, openGroups, finished,
                 stopping, rejected, lost, smooth>>

RequestStop ==
  /\ Fault /\ pc # "down" /\ ~stopping
  /\ stopping' = TRUE
  /\ smooth' = FALSE
  /\ UNCHANGED <<now, dbVars, pc, cursorId, highest, rows, stall, openGroups, finished,
                 histories>>

WrittenIds == IdsOf(BagToSet(observations))

\* What is in memory is gone.  What the cursor has not passed is read again.
Crash ==
  /\ Fault /\ pc # "down"
  /\ pc' = "down" /\ Forget
  /\ LET consumed == 1..dbCursor
     IN  /\ lost' = lost \cup ((IdsOf(InMemory) \cap consumed) \ WrittenIds)
         /\ rejected' = rejected \cap consumed
  /\ smooth' = FALSE
  /\ UNCHANGED <<now, dbVars, unacknowledged>>

Restart ==
  /\ pc = "down"
  /\ pc' = "load"
  /\ UNCHANGED <<now, dbVars, cursorId, highest, rows, stall, openGroups, finished,
                 stopping, histories, smooth, faults>>

Next ==
  \/ Tick
  \/ \E k \in Keys, delay \in 0..MaxDelay, rssi \in Rssis : ReadArrives(k, delay, rssi)
  \/ LoadCursor \/ FetchReads \/ FetchReturns \/ FetchFails
  \/ Absorb \/ CloseQuietGroups \/ Flush
  \/ Commit \/ CommitFails
  \/ RequestStop \/ Crash \/ Restart

Spec == Init /\ [][Next]_vars

\* The loop goes on, and is started again; and time passes, although not in
\* between the steps of one round.
FairSpec ==
  /\ Spec
  /\ WF_vars(LoadCursor \/ FetchReads \/ FetchReturns \/ Absorb \/ CloseQuietGroups
               \/ Flush \/ Commit \/ Restart)
  /\ SF_vars(Tick)

-----------------------------------------------------------------------------
(* Properties *)

\* Through failures, stops and crashes, a read that the cursor has passed is in
\* an observation, in one the filters rejected, in memory, or was in memory when
\* the process was killed, unless its antenna is unknown.
NeverSkipped ==
  {i \in 1..dbCursor : reads[i].key \notin Unmapped}
    \subseteq WrittenIds \cup rejected \cup IdsOf(InMemory) \cup lost

\* How often g is in the bag B.
Copies(g, B) == IF g \in BagToSet(B) THEN B[g] ELSE 0

\* Through failures, stops and crashes, no two groups that are written share a read,
\* nor does one with a group that still grows; and the rows of a group are written
\* once, and once more for every commit of it that was made and not acknowledged.
ObservedOnce ==
  \A o \in BagToSet(observations) :
    /\ \A g \in (BagToSet(observations) \cup {openGroups[k] : k \in OpenKeys}) \ {o} :
         o.ids \cap g.ids = {}
    /\ observations[o] <= 1 + Copies(o, unacknowledged)

\* However long a commit takes, and however often it or a fetch fails, a pass is
\* parted only by a gap of more than the quiet period less the longest delay of a
\* read and the longest stall of an answer (a group ages while the next reads are
\* written behind the query); so long as no stop, crash or backlog comes between.
PassWhole ==
  smooth => \A o \in BagToSet(observations) : \A i \in Ids \ o.ids :
    reads[i].key = o.key /\ (\A j \in o.ids : j < i)
      => reads[i].at + MaxDelay + MaxStall > o.last + Quiet

\* reads_awaiting_debounce, as routers/health.py shows it.
ReadsAwaitingDebounce == Len(reads) - dbCursor

\* Whatever fails, and wherever the process is stopped or killed, no read waits for
\* ever: the cursor reaches the last one, and each is written, rejected or lost in
\* the end.  (But for groups that would be quiet after the end of time.)
EventuallyObserved ==
  <>[](/\ ReadsAwaitingDebounce = 0 /\ finished = {}
       /\ \A k \in OpenKeys : openGroups[k].touched + Quiet >= MaxNow)

\* "Emit one observation when a TID has been absent for quiet_period_ms"
\* (grouping.py): it was absent, by its stamps.
ClosedWhenAbsent ==
  \A o \in BagToSet(observations) : \A i \in Ids \ o.ids :
    reads[i].key = o.key /\ (\A j \in o.ids : j < i) => reads[i].at > o.last + Quiet

\* "a crash cannot ... double-count one that was already written" (service.py).
WrittenOnce ==
  \A o \in BagToSet(observations) : observations[o] = 1

Settled ==
  /\ pc = "fetch" /\ ~stopping /\ cursorId = Len(reads)
  /\ OpenKeys = {} /\ finished = {}

\* "The event is not lost ... but the observation may be split or truncated"
\* (service.py): some of it is observed.
CrashOnlyTruncates ==
  Settled =>
    \A i \in lost : \E o \in BagToSet(observations) : o.key = reads[i].key

=============================================================================
