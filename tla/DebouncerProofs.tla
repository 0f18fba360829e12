---------------------------- MODULE DebouncerProofs ----------------------------
(***************************************************************************)
(* The debouncer keeps every read it has passed, in one group, and writes  *)
(* a group no more often than its commit is made, wherever it fails, stops *)
(* or is killed; and parts no pass that it need not part; for any keys,    *)
(* any quiet period, any delays, any stalls and any batches.               *)
(***************************************************************************)
EXTENDS Debouncer, FiniteSetTheorems, WellFoundedInduction, TLAPS

-----------------------------------------------------------------------------
(* The inductive invariant *)

Observed == BagToSet(observations)

\* The groups no read is added to any more, and those that still grow.
Closed == Observed \cup finished
Open == {openGroups[k] : k \in OpenKeys}

\* Groups share no read with each other, nor with what is still to be read.
GroupsInv ==
  /\ openGroups \in [Keys -> Group \cup {Nothing}]
  /\ \A g \in Open : g.key \notin Unmapped
  /\ \A g \in Closed \cup Open :
       g.ids # {} /\ \A i \in g.ids : i \in Ids /\ reads[i].key = g.key
  /\ \A o \in Observed : \A i \in o.ids : i <= dbCursor
  /\ \A g \in InMemory : \A i \in g.ids : i <= highest
  /\ \A g, h \in Closed : g # h => g.ids \cap h.ids = {}
  /\ \A g \in Open, h \in Closed : g.ids \cap h.ids = {}

\* A group has been written once for each of its commits that was made.  While its
\* commit is under way none of these was acknowledged, and after it one may be.
CopiesInv ==
  \A o \in Observed :
    /\ observations[o] <= 1 + Copies(o, unacknowledged)
    /\ o \in finished => observations[o] <= Copies(o, unacknowledged)

\* What the process holds in each place of a round.  The rows it has fetched are
\* those that follow the last it has absorbed.
RoundInv ==
  /\ pc \in {"load", "down"} => OpenKeys = {} /\ finished = {}
  /\ pc = "fetch" => finished = {} /\ highest = cursorId
  /\ pc = "absorb" => rows # {}
  /\ rows # {} => pc \in {"fetching", "absorb"}
  /\ pc = "fetching" => finished = {} /\ highest = cursorId
  /\ pc = "final" => OpenKeys = {}
  /\ pc \notin {"load", "down"} => dbCursor <= highest
  /\ \A i \in rows : highest < i
  /\ \A i \in Ids, j \in rows : highest < i /\ i <= j => i \in rows

\* A read that the cursor has passed, or the process, is kept or accounted for.
CoverInv ==
  \A i \in Ids :
    (i <= dbCursor \/ i <= highest) /\ reads[i].key \notin Unmapped
      => i \in WrittenIds \cup rejected \cup IdsOf(InMemory) \cup lost

\* Reads come late by MaxDelay at most, so a later one is stamped little earlier.
TimeInv ==
  /\ \A i \in Ids : reads[i].at <= now
  /\ \A i, j \in Ids : i < j => reads[i].at <= reads[j].at + MaxDelay

\* An open group holds the latest read of its key that was absorbed.
OpenInv ==
  \A g \in Open :
    /\ g.last <= g.touched /\ g.touched <= now
    /\ \A i \in Ids \ g.ids :
         reads[i].key = g.key /\ i <= highest => \E j \in g.ids : i < j

\* The pass of g has a gap after it.
Parted(g) ==
  \A i \in Ids \ g.ids :
    reads[i].key = g.key /\ (\A j \in g.ids : j < i)
      => reads[i].at + MaxDelay + MaxStall > g.last + Quiet

\* The reads that the rows of a round do not hold were not there when it asked: the
\* rows are no full batch, or all reads are among them that were.
Behind == \A i \in Ids \ rows : highest < i => now <= reads[i].at + MaxDelay + MaxStall

SmoothInv ==
  smooth =>
    /\ ~stopping /\ pc # "final"
    /\ pc = "fetching" /\ Cardinality(rows) < FetchBatch =>
         \A i \in Ids \ rows : highest < i => now <= reads[i].at + MaxDelay + stall
    /\ pc \in {"absorb", "close"} => Behind
    /\ \A g \in Closed : g.last + Quiet < now /\ Parted(g)

DebouncerInv ==
  /\ TypeOK /\ GroupsInv /\ CopiesInv /\ RoundInv /\ CoverInv
  /\ TimeInv /\ OpenInv /\ SmoothInv

-----------------------------------------------------------------------------
(* Facts about groups, rows and the bag *)

\* The types of what is counted.
LEMMA Typed ==
  ASSUME TypeOK
  PROVE  /\ now \in Nat /\ dbCursor \in Nat /\ highest \in Nat /\ cursorId \in Nat
         /\ Len(reads) \in Nat /\ dbCursor <= Len(reads) /\ highest <= Len(reads)
         /\ stall \in Nat /\ stall <= MaxStall
         /\ \A i \in Ids : i \in Nat /\ reads[i] \in Read /\ reads[i].at \in Nat
         /\ IsFiniteSet(Ids) /\ IsFiniteSet(rows)
         /\ \A g \in Group : g.first \in Nat /\ g.last \in Nat /\ g.touched \in Nat
<1>1. /\ reads \in Seq(Read) /\ now \in 0..MaxNow /\ dbCursor \in 0..Len(reads)
      /\ cursorId \in 0..dbCursor /\ highest \in 0..Len(reads) /\ rows \subseteq Ids
      /\ stall \in 0..MaxStall
  BY DEF TypeOK
<1>2. Len(reads) \in Nat
  BY <1>1
<1>3. \A i \in Ids : i \in Nat /\ reads[i] \in Read
  BY <1>1, <1>2 DEF Ids
<1>4. \A i \in Ids : reads[i].at \in Nat
  BY <1>3, DebouncerAssumption DEF Read
<1>5. IsFiniteSet(Ids)
  BY <1>2, FS_Interval DEF Ids
<1>6. IsFiniteSet(rows)
  BY <1>1, <1>5, FS_Subset
<1>7. \A g \in Group : g.first \in Nat /\ g.last \in Nat /\ g.touched \in Nat
  BY DebouncerAssumption DEF Group
<1> QED
  BY <1>1, <1>2, <1>3, <1>4, <1>5, <1>6, <1>7, DebouncerAssumption

\* No read is in two open groups: they are of different keys.
LEMMA OpenApart ==
  ASSUME DebouncerInv
  PROVE  /\ \A g \in Open : g \in Group /\ g.key \in OpenKeys /\ openGroups[g.key] = g
         /\ \A g, h \in Open : g # h => g.key # h.key /\ g.ids \cap h.ids = {}
<1>1. \A g \in Open : g \in Group /\ g.key \in OpenKeys /\ openGroups[g.key] = g
  BY DEF DebouncerInv, TypeOK, Open, OpenKeys
<1>2. \A g, h \in Open : g # h => g.key # h.key
  BY <1>1
<1> QED
  BY <1>1, <1>2 DEF DebouncerInv, GroupsInv

\* A commit adds the groups of the round to the observations.
LEMMA WrittenBag ==
  ASSUME DebouncerInv, Written
  PROVE  /\ IsABag(observations') /\ Observed' = Observed \cup finished
         /\ Observed' \subseteq Group
<1>1. IsABag(observations) /\ Observed \subseteq Group /\ finished \subseteq Group
  BY DEF DebouncerInv, TypeOK, Observed
<1>2. observations' = observations (+) SetToBag(finished)
  BY DEF Written
<1>3. Observed' = Observed \cup finished
  BY <1>2 DEF Observed, BagToSet, SetToBag, (+)
<1>4. IsABag(observations')
  BY <1>1, <1>2 DEF IsABag, SetToBag, (+)
<1> QED
  BY <1>1, <1>3, <1>4

\* Adding a set to a bag counts one more of each of its elements.
LEMMA BagAdded ==
  ASSUME NEW B, IsABag(B), NEW S
  PROVE  LET C == B (+) SetToBag(S)
         IN  /\ IsABag(C)
             /\ \A e : /\ Copies(e, B) \in Nat
                      /\ Copies(e, C) = Copies(e, B) + (IF e \in S THEN 1 ELSE 0)
  BY DEF IsABag, SetToBag, (+), Copies, BagToSet

\* The copies of a group that is written, and of what is not acknowledged.
LEMMA WrittenCopies ==
  ASSUME DebouncerInv, Written
  PROVE  \A o \in Observed' :
           /\ observations'[o] <= 1 + Copies(o, unacknowledged)
           /\ o \notin finished => o \in Observed /\ observations'[o] = observations[o]
<1>1. IsABag(observations) /\ IsABag(unacknowledged)
  BY DEF DebouncerInv, TypeOK
<1>2. /\ observations' = observations (+) SetToBag(finished)
      /\ Observed' = Observed \cup finished
  BY WrittenBag DEF Written
<1>3. \A o \in Observed : observations[o] = Copies(o, observations)
  BY DEF Observed, Copies, BagToSet
<1>4. \A o \in Observed' : observations'[o] = Copies(o, observations')
  BY DEF Observed, Copies, BagToSet
<1>5. \A o : o \notin Observed => Copies(o, observations) = 0
  BY DEF Observed, Copies, BagToSet
<1>6. \A o : Copies(o, observations) \in Nat /\ Copies(o, unacknowledged) \in Nat
  BY <1>1, BagAdded
<1>7. \A o : Copies(o, observations') =
              Copies(o, observations) + (IF o \in finished THEN 1 ELSE 0)
  BY <1>1, <1>2, BagAdded
<1> SUFFICES ASSUME NEW o \in Observed'
             PROVE  /\ observations'[o] <= 1 + Copies(o, unacknowledged)
                    /\ o \notin finished =>
                         o \in Observed /\ observations'[o] = observations[o]
  OBVIOUS
<1>8. CASE o \in finished
  <2>1. Copies(o, observations) <= Copies(o, unacknowledged)
    BY <1>3, <1>5, <1>6, <1>8 DEF DebouncerInv, CopiesInv
  <2> QED
    BY <1>4, <1>6, <1>7, <1>8, <2>1
<1>9. CASE o \notin finished
  <2>1. o \in Observed /\ observations'[o] = observations[o]
    BY <1>2, <1>3, <1>4, <1>6, <1>7, <1>9
  <2> QED
    BY <1>9, <2>1 DEF DebouncerInv, CopiesInv
<1> QED
  BY <1>8, <1>9

\* The next row is one of them, and all others come after it.
LEMMA NextRow ==
  ASSUME NEW S \in SUBSET Nat, S # {}
  PROVE  Min(S) \in S /\ \A j \in S : Min(S) <= j
<1> DEFINE R == OpToRel(<, Nat)
<1>1. IsWellFoundedOn(R, Nat)
  BY NatLessThanWellFounded
<1>2. PICK n \in S : \A m \in S : <<m, n>> \notin R
  BY <1>1, WFMin
<1>3. \A m \in S : ~ (m < n)
  BY <1>2 DEF OpToRel
<1>4. \A m \in S : n <= m
  BY <1>3
<1> QED
  BY <1>4 DEF Min

\* The rows of a batch are no more than FETCH_BATCH, and fewer only if there are
\* no others.
LEMMA BatchCounted ==
  ASSUME NEW n \in Nat, NEW c \in Nat, NEW F \in Nat
  PROVE  LET S == {i \in 1..n : c < i /\ i <= c + F}
         IN  /\ Cardinality(S) <= F
             /\ Cardinality(S) < F => \A i \in 1..n : c < i => i \in S
<1> DEFINE S == {i \in 1..n : c < i /\ i <= c + F}
           T == (c + 1)..(c + F)
<1>1. IsFiniteSet(T) /\ Cardinality(T) = F
  BY FS_Interval
<1>2. S \subseteq T
  OBVIOUS
<1>3. Cardinality(S) <= F
  BY <1>1, <1>2, FS_Subset
<1>4. CASE c + F <= n
  <2>1. S = T
    BY <1>4
  <2>2. Cardinality(S) = F
    BY <1>1, <2>1
  <2> HIDE DEF S
  <2>3. ~(Cardinality(S) < F)
    BY <2>2
  <2> QED
    BY <1>3, <2>3 DEF S
<1>5. CASE n < c + F
  <2>1. \A i \in 1..n : c < i => i \in S
    BY <1>5
  <2> QED
    BY <1>3, <2>1
<1> QED
  BY <1>4, <1>5

-----------------------------------------------------------------------------
(* The start, and the steps that leave groups and reads alone *)

\* Nothing is read at the start.
LEMMA InitDebouncer == Init => DebouncerInv
<1> SUFFICES ASSUME Init PROVE DebouncerInv
  OBVIOUS
<1> USE DEF Init
<1>1. Ids = {} /\ reads \in Seq(Read) /\ Len(reads) = 0
  BY DEF Ids
<1>2. OpenKeys = {} /\ Open = {} /\ InMemory = {}
  BY DEF OpenKeys, Open, InMemory
<1>3. Observed = {} /\ Closed = {} /\ IsABag(observations)
  BY DEF Observed, Closed, EmptyBag, SetToBag, BagToSet, IsABag
<1>4. TypeOK
  <2>1. IsABag(observations) /\ BagToSet(observations) \subseteq Group
    BY <1>3 DEF Observed
  <2>2. \A k \in Keys : openGroups[k] = Nothing
    OBVIOUS
  <2>3. Cardinality(rows) <= FetchBatch
    BY DebouncerAssumption, FS_EmptySet
  <2>4. /\ now \in 0..MaxNow /\ Len(reads) <= MaxReads /\ dbCursor \in 0..Len(reads)
        /\ cursorId \in 0..dbCursor /\ highest \in 0..Len(reads)
        /\ faults \in 0..MaxFaults
    BY <1>1, DebouncerAssumption
  <2>5. stall \in 0..MaxStall /\ IsABag(unacknowledged)
    BY DebouncerAssumption DEF EmptyBag, SetToBag, IsABag
  <2> QED
    BY <1>1, <2>1, <2>2, <2>3, <2>4, <2>5 DEF TypeOK
<1>5. GroupsInv /\ CopiesInv /\ OpenInv
  BY <1>1, <1>2, <1>3 DEF GroupsInv, CopiesInv, OpenInv
<1>6. RoundInv
  BY <1>1, <1>2 DEF RoundInv
<1>7. CoverInv /\ TimeInv /\ SmoothInv
  BY <1>1, <1>3 DEF CoverInv, TimeInv, SmoothInv
<1> QED
  BY <1>4, <1>5, <1>6, <1>7 DEF DebouncerInv

\* Time passes only while no round works on its rows, and may while they are under way.
LEMMA TickKeeps ==
  ASSUME DebouncerInv, Tick
  PROVE  DebouncerInv'
<1> USE DEF DebouncerInv, Tick, dbVars
<1>0. /\ now \in Nat /\ now' \in Nat /\ now' = now + 1 /\ now' \in 0..MaxNow
      /\ stall' \in 0..MaxStall /\ stall \in Nat
      /\ pc = "fetching" => stall' = stall + 1
  BY DebouncerAssumption DEF TypeOK
<1>1. TypeOK'
  BY <1>0 DEF TypeOK, Ids, histories
<1>2. GroupsInv' /\ CopiesInv' /\ RoundInv' /\ CoverInv'
  <2>1. /\ UNCHANGED <<reads, dbCursor, observations, pc, cursorId, highest, rows,
                       openGroups, finished, rejected, lost, unacknowledged>>
        /\ Ids' = Ids /\ Open' = Open /\ OpenKeys' = OpenKeys /\ InMemory' = InMemory
        /\ Closed' = Closed /\ Observed' = Observed /\ WrittenIds' = WrittenIds
    BY DEF histories, Ids, Open, OpenKeys, InMemory, Closed, Observed, WrittenIds, IdsOf
  <2>2. GroupsInv' /\ CopiesInv'
    BY <2>1 DEF GroupsInv, CopiesInv
  <2>3. RoundInv'
    BY <2>1 DEF RoundInv
  <2>4. CoverInv'
    BY <2>1 DEF CoverInv, IdsOf
  <2> QED
    BY <2>2, <2>3, <2>4
<1>3. TimeInv'
  <2>1. \A i \in Ids : reads[i].at \in Nat
    BY Typed
  <2>2. \A i \in Ids : reads[i].at <= now'
    BY <1>0, <2>1 DEF TimeInv
  <2> QED
    BY <2>2 DEF TimeInv, Ids
<1>4. OpenInv'
  <2>1. \A g \in Open : g.touched \in Nat
    BY OpenApart DEF Group
  <2>2. \A g \in Open : g.touched <= now'
    BY <1>0, <2>1 DEF OpenInv
  <2> QED
    BY <2>2 DEF OpenInv, Open, OpenKeys, Ids
<1>5. SmoothInv'
  <2>1. \A g \in Closed : g.last \in Nat
    BY DEF TypeOK, Closed, Observed, Group
  <2>2. smooth => \A g \in Closed : g.last + Quiet < now'
    BY <1>0, <2>1, DebouncerAssumption DEF SmoothInv
  <2>3. ASSUME smooth, pc = "fetching", Cardinality(rows) < FetchBatch,
               NEW i \in Ids \ rows, highest < i
        PROVE  now' <= reads[i].at + MaxDelay + stall'
    <3>1. now <= reads[i].at + MaxDelay + stall
      BY <2>3 DEF SmoothInv
    <3>2. reads[i].at \in Nat
      BY <2>3, Typed
    <3> QED
      BY <1>0, <2>3, <3>1, <3>2, DebouncerAssumption
  <2> QED
    BY <2>2, <2>3 DEF SmoothInv, Closed, Observed, Ids, Parted
<1> QED
  BY <1>1, <1>2, <1>3, <1>4, <1>5

\* A step of the process that moves no group and absorbs no row.
LEMMA NothingMoves ==
  ASSUME DebouncerInv, UNCHANGED <<now, reads, dbCursor, observations, openGroups,
                                   finished, histories>>,
         TypeOK', RoundInv', SmoothInv',
         highest' <= highest \/ highest' <= dbCursor,
         highest' = highest \/ Open \cup finished = {}
  PROVE  DebouncerInv'
<1> USE DEF DebouncerInv, histories
<1>0. /\ Ids' = Ids /\ Open' = Open /\ InMemory' = InMemory
      /\ InMemory = Open \cup finished
      /\ Closed' = Closed /\ Observed' = Observed /\ WrittenIds' = WrittenIds
  BY DEF Ids, Open, OpenKeys, InMemory, Closed, Observed, WrittenIds, IdsOf
<1>1. GroupsInv' /\ CopiesInv'
  BY <1>0 DEF GroupsInv, CopiesInv
<1>2. CoverInv'
  <2>1. /\ highest \in Nat /\ highest' \in Nat /\ dbCursor \in Nat
        /\ \A i \in Ids : i \in Nat
    BY <1>0 DEF TypeOK, Ids
  <2>2. \A i \in Ids : i <= dbCursor \/ i <= highest' => i <= dbCursor \/ i <= highest
    BY <2>1
  <2> QED
    BY <1>0, <2>2 DEF CoverInv, IdsOf
<1>3. TimeInv' /\ OpenInv'
  BY <1>0 DEF TimeInv, OpenInv
<1> QED
  BY <1>1, <1>2, <1>3

\* A process that starts takes up where the cursor is.
LEMMA LoadCursorKeeps ==
  ASSUME DebouncerInv, LoadCursor
  PROVE  DebouncerInv'
<1> USE DEF DebouncerInv, LoadCursor, dbVars, histories
<1>0. /\ OpenKeys = {} /\ Open \cup finished = {} /\ rows = {}
      /\ dbCursor \in Nat /\ cursorId \in Nat /\ highest' = dbCursor
  BY Typed DEF RoundInv, Open
<1>1. TypeOK'
  BY <1>0 DEF TypeOK, Ids
<1>2. RoundInv'
  BY <1>0 DEF RoundInv
<1>3. SmoothInv'
  BY DEF SmoothInv, Closed, Observed, Parted, Ids
<1> QED
  BY <1>0, <1>1, <1>2, <1>3, NothingMoves

\* What a query sees follows the cursor, and is all if it is no full batch.
LEMMA SnapshotTaken ==
  ASSUME DebouncerInv, Snapshot, pc \in {"fetch", "fetching"},
         UNCHANGED <<now, reads, dbCursor, observations, cursorId, highest, openGroups,
                     finished, stopping, histories, smooth>>,
         pc' = "fetching", faults' \in 0..MaxFaults,
         ~(smooth /\ stopping)
  PROVE  DebouncerInv'
<1> USE DEF DebouncerInv, Snapshot, histories
<1>0. /\ rows' = {i \in 1..Len(reads) : cursorId < i /\ i <= cursorId + FetchBatch}
      /\ highest = cursorId /\ highest' = highest /\ cursorId = dbCursor
      /\ cursorId \in Nat /\ Len(reads) \in Nat /\ FetchBatch \in Nat
      /\ \A i \in Ids : i \in Nat
      /\ stall' = 0 /\ stall' \in 0..MaxStall
  BY Typed, DebouncerAssumption DEF RoundInv, TypeOK, Ids
<1>1. /\ Cardinality(rows') <= FetchBatch
      /\ Cardinality(rows') < FetchBatch => \A i \in Ids : cursorId < i => i \in rows'
  BY <1>0, BatchCounted DEF Ids
<1>2. rows' \subseteq Ids /\ Ids' = Ids
  BY <1>0 DEF Ids
<1>3. TypeOK'
  BY <1>0, <1>1, <1>2 DEF TypeOK
<1>4. RoundInv'
  <2>1. \A i \in Ids, j \in rows' : cursorId < i /\ i <= j => i \in rows'
    BY <1>0 DEF Ids
  <2>2. \A i \in rows' : cursorId < i
    BY <1>0
  <2>3. OpenKeys' = OpenKeys
    BY DEF OpenKeys
  <2> QED
    BY <1>0, <1>2, <2>1, <2>2, <2>3 DEF RoundInv
<1>5. SmoothInv'
  BY <1>0, <1>1, <1>2 DEF SmoothInv, Closed, Observed, Parted
<1> QED
  BY <1>3, <1>4, <1>5, <1>0, NothingMoves

\* A fetch asks, or asks again.
LEMMA FetchKeeps ==
  ASSUME DebouncerInv, FetchReads \/ FetchFails
  PROVE  DebouncerInv'
<1>1. faults' \in 0..MaxFaults
  BY DebouncerAssumption DEF DebouncerInv, TypeOK, FetchReads, FetchFails, Fault
<1>2. ~(smooth /\ stopping)
  BY DEF DebouncerInv, SmoothInv
<1> QED
  BY <1>1, <1>2, SnapshotTaken DEF FetchReads, FetchFails, dbVars

\* When the answer is there, what was not there when it was given is little older.
LEMMA FetchReturnsKeeps ==
  ASSUME DebouncerInv, FetchReturns
  PROVE  DebouncerInv'
<1> USE DEF DebouncerInv, FetchReturns, dbVars, histories
<1>0. highest \in Nat /\ highest' = highest /\ stall' \in 0..MaxStall /\ Ids' = Ids
  BY Typed, DebouncerAssumption DEF Ids
<1>1. TypeOK'
  BY <1>0 DEF TypeOK
<1>2. RoundInv'
  BY <1>0 DEF RoundInv, OpenKeys
<1>3. SmoothInv'
  <2>1. ASSUME smooth'
        PROVE  Behind
    <3> SUFFICES ASSUME NEW i \in Ids \ rows, highest < i
                 PROVE  now <= reads[i].at + MaxDelay + MaxStall
      BY DEF Behind
    <3>1. now <= reads[i].at + MaxDelay + stall
      BY <2>1 DEF SmoothInv
    <3>2. /\ now \in Nat /\ reads[i].at \in Nat /\ MaxDelay \in Nat
          /\ stall \in Nat /\ MaxStall \in Nat /\ stall <= MaxStall
      BY Typed, DebouncerAssumption
    <3> HIDE DEF FetchReturns
    <3> QED
      BY <3>1, <3>2
  <2> QED
    BY <1>0, <2>1 DEF SmoothInv, Behind, Closed, Observed, Parted
<1> QED
  BY <1>0, <1>1, <1>2, <1>3, NothingMoves

\* A stop is asked for, or a new process started.
LEMMA StopAndRestartKeep ==
  ASSUME DebouncerInv, RequestStop \/ Restart
  PROVE  DebouncerInv'
<1> USE DEF DebouncerInv, RequestStop, Restart, dbVars, histories
<1>0. highest \in Nat /\ highest' = highest
  BY Typed
<1>1. TypeOK'
  <2>1. faults' \in 0..MaxFaults
    BY DebouncerAssumption DEF TypeOK, Fault
  <2>2. /\ UNCHANGED <<now, reads, dbCursor, observations, cursorId, highest, rows, stall,
                      openGroups, finished, rejected, lost, unacknowledged>>
        /\ pc' \in {pc, "load"} /\ stopping' \in BOOLEAN /\ smooth' \in BOOLEAN
    BY DEF TypeOK
  <2>3. Ids' = Ids
    BY <2>2 DEF Ids
  <2> QED
    BY <2>1, <2>2, <2>3 DEF TypeOK
<1>2. RoundInv'
  BY DEF RoundInv, OpenKeys, Ids
<1>3. SmoothInv'
  BY DEF SmoothInv, Closed, Observed, Parted, Ids
<1> QED
  BY <1>0, <1>1, <1>2, <1>3, NothingMoves

-----------------------------------------------------------------------------
(* A read arrives *)

\* It comes after all others, and its stamp is that of now but for its delay.
LEMMA ReadArrivesKeeps ==
  ASSUME DebouncerInv, NEW k \in Keys, NEW delay \in 0..MaxDelay, NEW rssi \in Rssis,
         ReadArrives(k, delay, rssi)
  PROVE  DebouncerInv'
<1> DEFINE n == Len(reads) + 1
           r == [key |-> k, at |-> now - delay, rssi |-> rssi]
<1> USE DEF DebouncerInv, histories
<1>0. /\ UNCHANGED <<now, dbCursor, observations, pc, cursorId, highest, rows, stall,
                     openGroups, finished, stopping, histories, smooth, faults>>
      /\ reads' = Append(reads, r) /\ Len(reads) < MaxReads
  BY DEF ReadArrives
<1>1. /\ now \in Nat /\ delay \in Nat /\ MaxDelay \in Nat /\ delay <= MaxDelay
      /\ delay <= now /\ now <= MaxNow /\ Quiet \in Nat
  BY Typed, DebouncerAssumption DEF ReadArrives, TypeOK
<1>2. r.at \in 0..MaxNow /\ r.at \in Nat /\ r.at <= now /\ now <= r.at + MaxDelay
  BY <1>1, DebouncerAssumption
<1>3. r \in Read
  BY <1>2 DEF Read
<1> HIDE DEF r
<1>4. /\ reads' \in Seq(Read) /\ Len(reads') = n /\ reads'[n] = r
      /\ \A i \in Ids : reads'[i] = reads[i] /\ i \in Nat /\ i < n
      /\ Ids' = Ids \cup {n} /\ n \notin Ids /\ n \in Nat /\ Len(reads) \in Nat
  BY <1>0, <1>3, Typed DEF TypeOK, Ids
<1>5. /\ dbCursor < n /\ highest < n /\ dbCursor \in Nat /\ highest \in Nat
      /\ \A i \in rows : i < n
  BY <1>4, Typed DEF TypeOK
<1> HIDE DEF n
<1>6. /\ Open' = Open /\ OpenKeys' = OpenKeys /\ InMemory' = InMemory
      /\ Closed' = Closed /\ Observed' = Observed /\ WrittenIds' = WrittenIds
  BY <1>0 DEF Open, OpenKeys, InMemory, Closed, Observed, WrittenIds, IdsOf
<1>7. TypeOK'
  <2>1. Len(reads') <= MaxReads
    BY <1>0, <1>4, DebouncerAssumption DEF n
  <2>2. dbCursor \in 0..Len(reads') /\ highest \in 0..Len(reads')
    BY <1>4, <1>5
  <2>3. rows \subseteq Ids' /\ rejected \subseteq Ids' /\ lost \subseteq Ids'
    BY <1>4 DEF TypeOK
  <2> QED
    BY <1>0, <1>4, <2>1, <2>2, <2>3 DEF TypeOK
<1>8. GroupsInv'
  <2>1. \A g \in Closed \cup Open :
          g.ids # {} /\ \A i \in g.ids : i \in Ids' /\ reads'[i].key = g.key
    BY <1>4 DEF GroupsInv
  <2>2. /\ \A o \in Observed : \A i \in o.ids : i <= dbCursor'
        /\ \A g \in InMemory : \A i \in g.ids : i <= highest'
    BY <1>0 DEF GroupsInv
  <2> QED
    BY <1>0, <1>6, <2>1, <2>2 DEF GroupsInv
<1>14. CopiesInv'
  BY <1>0, <1>6 DEF CopiesInv
<1>9. RoundInv'
  <2>1. \A i \in Ids', j \in rows : highest < i /\ i <= j => i \in rows
    <3>1. \A j \in rows : ~(n <= j)
      BY <1>4, <1>5 DEF TypeOK
    <3> QED
      BY <1>4, <3>1 DEF RoundInv
  <2> QED
    BY <1>0, <1>6, <2>1 DEF RoundInv
<1>10. CoverInv'
  <2>1. ~(n <= dbCursor) /\ ~(n <= highest)
    BY <1>4, <1>5
  <2> QED
    BY <1>0, <1>4, <1>6, <2>1 DEF CoverInv, IdsOf
<1>11. TimeInv'
  <2>1. \A i \in Ids : reads[i].at \in Nat /\ reads[i].at <= now
    BY Typed DEF TimeInv
  <2>2. \A i \in Ids : reads[i].at <= r.at + MaxDelay
    BY <1>1, <1>2, <2>1
  <2>3. \A i \in Ids : ~(n < i)
    BY <1>4
  <2>4. ~(n < n)
    BY <1>4
  <2>5. \A i \in Ids' : reads'[i].at <= now
    BY <1>2, <1>4, <2>1
  <2>6. \A i, j \in Ids' : i < j => reads'[i].at <= reads'[j].at + MaxDelay
    <3>1. \A i, j \in Ids : i < j => reads[i].at <= reads[j].at + MaxDelay
      BY DEF TimeInv
    <3> QED
      BY <1>4, <2>2, <2>3, <2>4, <3>1
  <2> QED
    BY <1>0, <2>5, <2>6 DEF TimeInv
<1>12. OpenInv'
  <2>1. ~(n <= highest)
    BY <1>4, <1>5
  <2> QED
    BY <1>0, <1>4, <1>6, <2>1 DEF OpenInv
<1>13. SmoothInv'
  <2>1. \A g \in Closed : g.last \in Nat
    BY Typed DEF TypeOK, Closed, Observed
  <2>2. ASSUME smooth, NEW g \in Closed
        PROVE  g.last + Quiet < now /\ Parted(g)'
    <3>1. g.last + Quiet < now /\ Parted(g)
      BY <2>2 DEF SmoothInv
    <3>2. r.at + MaxDelay + MaxStall > g.last + Quiet
      BY <1>1, <1>2, <2>1, <3>1, DebouncerAssumption
    <3> QED
      BY <1>4, <3>1, <3>2 DEF Parted
  <2>3. /\ now <= r.at + MaxDelay + stall
        /\ now <= r.at + MaxDelay + MaxStall
    <3>1. stall \in Nat /\ MaxStall \in Nat
      BY Typed, DebouncerAssumption
    <3> QED
      BY <1>1, <1>2, <3>1
  <2> QED
    BY <1>0, <1>4, <1>6, <2>2, <2>3 DEF SmoothInv, Behind
<1> QED
  BY <1>7, <1>8, <1>9, <1>10, <1>11, <1>12, <1>13, <1>14

-----------------------------------------------------------------------------
(* Commits and crashes *)

\* What a commit changes of the groups, whether it is acknowledged or not.
LEMMA WrittenKeeps ==
  ASSUME DebouncerInv, Written, pc \in {"commit", "final"},
         UNCHANGED <<now, reads, rejected, lost, smooth>>,
         Open' = Open, finished' \in {finished, {}},
         openGroups' \in [Keys -> Group \cup {Nothing}],
         highest' = highest \/ (highest' = 0 /\ Open \cup finished' = {})
  PROVE  /\ GroupsInv' /\ CoverInv' /\ TimeInv' /\ OpenInv' /\ Closed' = Closed
         /\ dbCursor' = highest /\ IsABag(observations')
         /\ BagToSet(observations') \subseteq Group
<1> USE DEF DebouncerInv
<1>1. /\ dbCursor' = highest /\ dbCursor <= highest /\ dbCursor \in Nat /\ highest \in Nat
      /\ \A i \in Ids : i \in Nat
      /\ Observed' = Observed \cup finished /\ Ids' = Ids
      /\ InMemory = Open \cup finished /\ InMemory' = Open' \cup finished'
  BY Typed, WrittenBag DEF Written, RoundInv, Ids, InMemory, Open
<1>2. Closed' = Closed
  BY <1>1 DEF Closed
<1>3. GroupsInv'
  <2>1. \A o \in Observed : \A i \in o.ids : i \in Ids /\ i <= dbCursor
    BY DEF GroupsInv, Closed
  <2>2. \A o \in Observed : \A i \in o.ids : i <= highest
    BY <1>1, <2>1
  <2>3. \A g \in finished : \A i \in g.ids : i <= highest
    BY <1>1 DEF GroupsInv
  <2>4. \A g \in InMemory' : \A i \in g.ids : i <= highest'
    BY <1>1 DEF GroupsInv
  <2> QED
    BY <1>1, <1>2, <2>2, <2>3, <2>4 DEF GroupsInv
<1>4. CoverInv'
  <2>1. IdsOf(Observed \cup finished) \cup IdsOf(Open \cup finished)
          \subseteq IdsOf(Observed') \cup IdsOf(InMemory')
    BY <1>1 DEF IdsOf
  <2>2. WrittenIds = IdsOf(Observed) /\ WrittenIds' = IdsOf(Observed')
        /\ IdsOf(InMemory)' = IdsOf(InMemory')
    BY DEF WrittenIds, Observed, IdsOf
  <2>3. \A i \in Ids : i <= dbCursor' \/ i <= highest' => i <= highest
    BY <1>1
  <2> QED
    BY <1>1, <2>1, <2>2, <2>3 DEF CoverInv, IdsOf
<1>5. TimeInv' /\ OpenInv'
  <2>1. \A i \in Ids : i <= highest' => i <= highest
    BY <1>1
  <2> QED
    BY <1>1, <2>1 DEF TimeInv, OpenInv
<1> QED
  BY <1>1, <1>2, <1>3, <1>4, <1>5, WrittenBag DEF Observed

\* A process that ends takes its memory with it.
LEMMA Forgotten ==
  ASSUME Forget
  PROVE  /\ openGroups' \in [Keys -> Group \cup {Nothing}]
         /\ \A k \in Keys : openGroups'[k] = Nothing
         /\ OpenKeys' = {} /\ Open' = {} /\ finished' = {} /\ rows' = {}
         /\ InMemory' = {} /\ highest' = 0 /\ cursorId' = 0 /\ stopping' = FALSE
         /\ stall' = 0
<1>1. /\ openGroups' = [k \in Keys |-> Nothing] /\ finished' = {} /\ rows' = {}
      /\ highest' = 0 /\ cursorId' = 0 /\ stopping' = FALSE /\ stall' = 0
  BY DEF Forget
<1>2. OpenKeys' = {} /\ Open' = {}
  BY <1>1 DEF OpenKeys, Open
<1>3. InMemory' = {}
  BY <1>1, <1>2 DEF InMemory
<1> QED
  BY <1>1, <1>2, <1>3

\* The round's observations are in, and its cursor; or the process's last.
LEMMA CommitKeeps ==
  ASSUME DebouncerInv, Commit
  PROVE  DebouncerInv'
<1> USE DEF DebouncerInv, histories
<1>0. /\ Written /\ UNCHANGED <<now, reads, histories, smooth, faults>>
      /\ pc \in {"commit", "final"} /\ rows = {} /\ Ids' = Ids
      /\ dbCursor \in Nat /\ highest \in Nat /\ highest <= Len(reads) /\ Len(reads) \in Nat
      /\ openGroups \in [Keys -> Group \cup {Nothing}]
      /\ finished' = {}
  BY Typed, Forgotten DEF Commit, RoundInv, Ids, GroupsInv
<1>3. CopiesInv'
  BY <1>0, WrittenCopies DEF CopiesInv, Observed
<1>1. CASE /\ pc = "commit" /\ pc' = "fetch" /\ cursorId' = highest /\ finished' = {}
           /\ UNCHANGED <<highest, rows, stall, openGroups, stopping>>
  <2>1. Open' = Open /\ OpenKeys' = OpenKeys
    BY <1>1 DEF Open, OpenKeys
  <2>2. /\ GroupsInv' /\ CoverInv' /\ TimeInv' /\ OpenInv' /\ Closed' = Closed
        /\ dbCursor' = highest /\ IsABag(observations')
        /\ BagToSet(observations') \subseteq Group
    BY <1>0, <1>1, <2>1, WrittenKeeps
  <2>3. TypeOK'
    <3>1. dbCursor' \in 0..Len(reads) /\ cursorId' \in 0..dbCursor'
      BY <1>0, <1>1, <2>2
    <3> QED
      BY <1>0, <1>1, <2>2, <3>1 DEF TypeOK
  <2>4. RoundInv'
    BY <1>0, <1>1, <2>2 DEF RoundInv
  <2>5. SmoothInv'
    BY <1>0, <1>1, <2>2 DEF SmoothInv, Parted
  <2> QED
    BY <1>3, <2>2, <2>3, <2>4, <2>5
<1>2. CASE pc = "final" /\ pc' = "down" /\ Forget
  <2>1. Open = {} /\ Open' = {}
    BY <1>2, Forgotten DEF RoundInv, Open
  <2>2. /\ GroupsInv' /\ CoverInv' /\ TimeInv' /\ OpenInv' /\ Closed' = Closed
        /\ dbCursor' = highest /\ IsABag(observations')
        /\ BagToSet(observations') \subseteq Group
    BY <1>0, <1>2, <2>1, Forgotten, WrittenKeeps
  <2>3. TypeOK'
    <3>1. /\ dbCursor' \in 0..Len(reads) /\ cursorId' \in 0..dbCursor'
          /\ highest' \in 0..Len(reads) /\ Cardinality(rows') <= FetchBatch
          /\ stall' \in 0..MaxStall
      BY <1>0, <1>2, <2>2, Forgotten, FS_EmptySet, DebouncerAssumption
    <3> QED
      BY <1>0, <1>2, <2>2, <3>1, Forgotten DEF TypeOK
  <2>4. RoundInv'
    BY <1>2, Forgotten DEF RoundInv
  <2>5. SmoothInv'
    BY <1>0, <1>2 DEF SmoothInv
  <2> QED
    BY <1>3, <2>2, <2>3, <2>4, <2>5
<1> QED
  BY <1>1, <1>2 DEF Commit

\* A commit that is tried again, and may have been made.
LEMMA CommitFailsKeeps ==
  ASSUME DebouncerInv, CommitFails
  PROVE  DebouncerInv'
<1> USE DEF DebouncerInv, histories
<1>0. /\ UNCHANGED <<now, reads, pc, cursorId, highest, rows, stall, openGroups, finished,
                     stopping, rejected, lost, smooth>>
      /\ pc \in {"commit", "final"} /\ rows = {} /\ Ids' = Ids
      /\ dbCursor \in Nat /\ highest \in Nat /\ cursorId \in Nat
      /\ highest <= Len(reads) /\ Len(reads) \in Nat /\ dbCursor <= highest
      /\ cursorId <= dbCursor
      /\ openGroups \in [Keys -> Group \cup {Nothing}]
      /\ faults' \in 0..MaxFaults
  BY Typed, DebouncerAssumption DEF CommitFails, RoundInv, Ids, GroupsInv, Fault, TypeOK
<1>1. Open' = Open /\ OpenKeys' = OpenKeys /\ highest' = highest /\ finished' = finished
  BY <1>0 DEF Open, OpenKeys
<1>2. CASE Written /\ unacknowledged' = unacknowledged (+) SetToBag(finished)
  <2>1. /\ GroupsInv' /\ CoverInv' /\ TimeInv' /\ OpenInv' /\ Closed' = Closed
        /\ dbCursor' = highest /\ IsABag(observations')
        /\ BagToSet(observations') \subseteq Group
    BY <1>0, <1>1, <1>2, WrittenKeeps
  <2>2. TypeOK'
    <3>1. dbCursor' \in 0..Len(reads) /\ cursorId \in 0..dbCursor'
      BY <1>0, <2>1
    <3>2. IsABag(unacknowledged')
      BY <1>2, BagAdded DEF TypeOK
    <3> QED
      BY <1>0, <2>1, <3>1, <3>2 DEF TypeOK
  <2>3. RoundInv'
    BY <1>0, <1>1, <2>1 DEF RoundInv
  <2>4. SmoothInv'
    BY <1>0, <2>1 DEF SmoothInv, Parted
  <2>5. CopiesInv'
    <3>1. \A o : /\ Copies(o, unacknowledged) \in Nat
                /\ Copies(o, unacknowledged') =
                     Copies(o, unacknowledged) + (IF o \in finished THEN 1 ELSE 0)
      BY <1>2, BagAdded DEF TypeOK
    <3>2. \A o \in Observed :
            o \notin finished => observations[o] <= 1 + Copies(o, unacknowledged)
      BY DEF CopiesInv
    <3>3. \A o \in Observed' :
            /\ o \in finished => observations'[o] <= Copies(o, unacknowledged')
            /\ observations'[o] <= 1 + Copies(o, unacknowledged')
      <4> SUFFICES ASSUME NEW o \in Observed'
                   PROVE  /\ o \in finished => observations'[o] <= Copies(o, unacknowledged')
                          /\ observations'[o] <= 1 + Copies(o, unacknowledged')
        OBVIOUS
      <4>1. observations'[o] \in Nat
        BY <2>1 DEF IsABag, Observed, BagToSet
      <4> QED
        BY <1>2, <3>1, <4>1, WrittenCopies
    <3> QED
      BY <1>1, <3>3 DEF CopiesInv, Observed
  <2> QED
    BY <2>1, <2>2, <2>3, <2>4, <2>5
<1>3. CASE UNCHANGED <<dbCursor, observations, unacknowledged>>
  <2>1. TypeOK'
    BY <1>0, <1>3 DEF TypeOK
  <2>2. RoundInv'
    BY <1>0, <1>1, <1>3 DEF RoundInv
  <2>3. SmoothInv'
    BY <1>0, <1>3 DEF SmoothInv, Parted, Closed, Observed
  <2> QED
    BY <1>0, <1>3, <2>1, <2>2, <2>3, NothingMoves
<1> QED
  BY <1>2, <1>3 DEF CommitFails

\* A crash loses the groups in memory.  Of their reads those the cursor has passed
\* are lost with them; the others are read again.
LEMMA CrashKeeps ==
  ASSUME DebouncerInv, Crash
  PROVE  DebouncerInv'
<1> USE DEF DebouncerInv
<1>0. /\ UNCHANGED <<now, reads, dbCursor, observations, unacknowledged>>
      /\ pc' = "down" /\ Forget
      /\ lost' = lost \cup ((IdsOf(InMemory) \cap 1..dbCursor) \ WrittenIds)
      /\ rejected' = rejected \cap 1..dbCursor
      /\ smooth' = FALSE /\ faults' \in 0..MaxFaults
  BY DebouncerAssumption DEF Crash, Fault, dbVars, TypeOK
<1>1. /\ Ids' = Ids /\ Observed' = Observed /\ WrittenIds' = WrittenIds
      /\ dbCursor \in Nat /\ Len(reads) \in Nat /\ dbCursor <= Len(reads)
      /\ \A i \in Ids : i \in Nat /\ i >= 1
  BY <1>0, Typed DEF Ids, Observed, WrittenIds, IdsOf
<1>2. 1..dbCursor \subseteq Ids
  BY <1>1 DEF Ids
<1>3. Closed' = Observed /\ Observed \subseteq Closed /\ Open' = {} /\ InMemory' = {}
  BY <1>0, <1>1, Forgotten DEF Closed
<1>4. TypeOK'
  <2>1. lost' \subseteq Ids /\ rejected' \subseteq Ids
    BY <1>0, <1>2 DEF TypeOK
  <2>2. /\ cursorId' \in 0..dbCursor /\ highest' \in 0..Len(reads)
        /\ Cardinality(rows') <= FetchBatch /\ stall' \in 0..MaxStall
    <3>1. cursorId' = 0 /\ highest' = 0 /\ rows' = {} /\ stall' = 0
      BY <1>0, Forgotten
    <3>2. Cardinality({}) <= FetchBatch /\ 0 \in 0..MaxStall
      BY FS_EmptySet, DebouncerAssumption
    <3> QED
      BY <1>1, <3>1, <3>2
  <2> QED
    BY <1>0, <1>1, <2>1, <2>2, Forgotten DEF TypeOK
<1>5. GroupsInv' /\ CopiesInv'
  <2>1. openGroups' \in [Keys -> Group \cup {Nothing}] /\ finished' = {}
    BY <1>0, Forgotten
  <2> QED
    BY <1>0, <1>1, <1>3, <2>1 DEF GroupsInv, CopiesInv
<1>6. RoundInv'
  BY <1>0, Forgotten DEF RoundInv
<1>7. CoverInv'
  <2> SUFFICES ASSUME NEW i \in Ids, i <= dbCursor \/ i <= 0, reads[i].key \notin Unmapped
               PROVE  i \in WrittenIds \cup rejected' \cup lost'
    BY <1>0, <1>1, Forgotten DEF CoverInv
  <2>1. i \in 1..dbCursor
    BY <1>1
  <2>2. i \in WrittenIds \cup rejected \cup IdsOf(InMemory) \cup lost
    BY <2>1 DEF CoverInv
  <2> QED
    BY <1>0, <2>1, <2>2
<1>8. TimeInv' /\ OpenInv' /\ SmoothInv'
  BY <1>0, <1>1, <1>3 DEF TimeInv, OpenInv, SmoothInv
<1> QED
  BY <1>4, <1>5, <1>6, <1>7, <1>8

-----------------------------------------------------------------------------
(* A row is absorbed *)

\* The groups that are open once that of k is another.
LEMMA GroupPut ==
  ASSUME DebouncerInv, NEW k \in Keys, NEW new \in Group, new.key = k, new.ids # {},
         openGroups' = [openGroups EXCEPT ![k] = new]
  PROVE  /\ openGroups' \in [Keys -> Group \cup {Nothing}]
         /\ Open' = {h \in Open : h.key # k} \cup {new}
<1>1. openGroups \in [Keys -> Group \cup {Nothing}]
  BY DEF DebouncerInv, GroupsInv
<1>2. new # Nothing
  BY DEF Nothing
<1>3. /\ openGroups' \in [Keys -> Group \cup {Nothing}] /\ openGroups'[k] = new
      /\ \A l \in Keys \ {k} : openGroups'[l] = openGroups[l]
  BY <1>1
<1>4. \A h : h \in Open' <=> \E l \in Keys : openGroups'[l] # Nothing /\ h = openGroups'[l]
  BY DEF Open, OpenKeys
<1>5. \A h : h \in Open <=> \E l \in Keys : openGroups[l] # Nothing /\ h = openGroups[l]
  BY DEF Open, OpenKeys
<1>6. \A l \in Keys : openGroups[l] # Nothing => openGroups[l].key = l
  BY DEF DebouncerInv, TypeOK
<1>7. \A h : h \in Open' <=> (h \in Open /\ h.key # k) \/ h = new
  BY <1>2, <1>3, <1>4, <1>5, <1>6
<1> QED
  BY <1>3, <1>7

NextId == Min(rows)

\* It follows all that was absorbed.
NextIs(i) ==
  /\ i \in rows /\ highest < i
  /\ \A j \in Ids : j <= i => j <= highest \/ j = i
  /\ \A j \in Ids : highest < j => i <= j

\* What absorbing a row does whatever becomes of it.
LEMMA AbsorbsNext ==
  ASSUME DebouncerInv, Absorb
  PROVE  /\ NextId \in Ids /\ NextIs(NextId)
         /\ rows' = rows \ {NextId} /\ highest' = NextId
         /\ dbCursor < NextId /\ \A g \in Closed \cup Open : NextId \notin g.ids
         /\ UNCHANGED <<now, dbVars, cursorId, stall, stopping, histories, smooth, faults>>
         /\ Ids' = Ids /\ pc = "absorb" /\ pc' \in {"absorb", "close"}
         /\ pc' = "absorb" <=> rows' # {}
<1> USE DEF DebouncerInv
<1> DEFINE i == NextId
<1>1. /\ pc = "absorb" /\ rows # {} /\ rows \subseteq Ids
      /\ \A j \in Ids : j \in Nat
      /\ highest \in Nat /\ dbCursor \in Nat /\ dbCursor <= highest
  BY Typed DEF Absorb, RoundInv, TypeOK
<1>2. i \in rows /\ \A j \in rows : i <= j
  <2>1. rows \in SUBSET Nat
    BY <1>1
  <2> QED
    BY <1>1, <2>1, NextRow DEF NextId
<1>3. /\ rows' = rows \ {i} /\ highest' = i
      /\ UNCHANGED <<now, dbVars, cursorId, stall, stopping, histories, smooth, faults>>
      /\ pc' \in {"absorb", "close"}
      /\ pc' = "absorb" <=> rows' # {}
  BY DEF Absorb, NextId
<1> HIDE DEF i
<1>4. i \in Ids /\ i \in Nat /\ highest < i /\ dbCursor < i
  BY <1>1, <1>2 DEF RoundInv
<1>5. \A j \in Ids : j <= i => j <= highest \/ j = i
  <2> SUFFICES ASSUME NEW j \in Ids, j <= i, highest < j PROVE j = i
    BY <1>1
  <2>1. j \in rows
    BY <1>2 DEF RoundInv
  <2> QED
    BY <1>1, <1>2, <1>4, <2>1
<1>6. \A j \in Ids : highest < j => i <= j
  BY <1>1, <1>4, <1>5
<1>7. \A g \in Closed \cup Open : i \notin g.ids
  <2>1. \A o \in Observed : \A j \in o.ids : j <= dbCursor
    BY DEF GroupsInv
  <2>2. \A g \in finished \cup Open : \A j \in g.ids : j <= highest
    BY DEF GroupsInv, InMemory, Open
  <2>3. ~(i <= dbCursor) /\ ~(i <= highest)
    BY <1>1, <1>4
  <2> QED
    BY <2>1, <2>2, <2>3 DEF Closed
<1> QED
  BY <1>1, <1>2, <1>3, <1>4, <1>5, <1>6, <1>7 DEF i, NextIs, dbVars, Ids

\* A group that was open has not been written.
LEMMA CopiesKept ==
  ASSUME DebouncerInv, UNCHANGED <<observations, unacknowledged>>,
         finished' \subseteq finished \cup Open
  PROVE  CopiesInv'
<1>1. \A g \in Open : g \notin Observed
  BY DEF DebouncerInv, GroupsInv, Closed
<1> QED
  BY <1>1 DEF DebouncerInv, CopiesInv, Observed

\* What remains to be shown of a step that absorbs a row.
LEMMA AbsorbedRow ==
  ASSUME DebouncerInv, Absorb, GroupsInv', CoverInv', OpenInv',
         finished' \subseteq Group, finished' \subseteq finished \cup Open,
         \A k \in Keys : openGroups'[k] # Nothing =>
           openGroups'[k] \in Group /\ openGroups'[k].key = k,
         smooth => \A g \in Closed' : g.last + Quiet < now /\ Parted(g)
  PROVE  DebouncerInv'
<1> USE DEF DebouncerInv, dbVars, histories
<1> DEFINE i == NextId
<1>1. /\ i \in Ids /\ NextIs(i) /\ rows' = rows \ {i} /\ highest' = i
      /\ dbCursor < i
      /\ UNCHANGED <<now, dbVars, cursorId, stall, stopping, histories, smooth, faults>>
      /\ Ids' = Ids /\ pc = "absorb" /\ pc' \in {"absorb", "close"}
      /\ pc' = "absorb" <=> rows' # {}
  BY AbsorbsNext
<1> HIDE DEF i
<1>2. /\ i \in Nat /\ Len(reads) \in Nat /\ i <= Len(reads) /\ IsFiniteSet(rows)
      /\ highest \in Nat /\ dbCursor \in Nat /\ \A j \in Ids : j \in Nat
      /\ rows \subseteq Ids
  BY <1>1, Typed DEF Ids, TypeOK
<1>3. TypeOK'
  <2>1. Cardinality(rows') <= FetchBatch
    <3>1. Cardinality(rows') <= Cardinality(rows) /\ IsFiniteSet(rows')
      BY <1>1, <1>2, FS_Subset
    <3>2. Cardinality(rows') \in Nat /\ Cardinality(rows) \in Nat
      BY <1>2, <3>1, FS_CardinalityType
    <3> QED
      BY <3>1, <3>2, DebouncerAssumption DEF TypeOK
  <2>2. highest' \in 0..Len(reads) /\ rows' \subseteq Ids
    <3>1. i \in 0..Len(reads)
      BY <1>2
    <3>2. rows \ {i} \subseteq Ids
      BY <1>2
    <3> QED
      BY <1>1, <3>1, <3>2
  <2> QED
    BY <1>1, <2>1, <2>2 DEF TypeOK
<1>4. RoundInv'
  <2>1. \A j \in rows' : i < j
    <3>1. \A j \in rows' : j \in Ids /\ highest < j /\ j # i
      BY <1>1, <1>2 DEF RoundInv
    <3>2. \A j \in rows' : i <= j
      BY <1>1, <3>1 DEF NextIs
    <3> QED
      BY <1>2, <3>1, <3>2
  <2>2. \A j \in Ids, l \in rows' : i < j /\ j <= l => j \in rows'
    <3> SUFFICES ASSUME NEW j \in Ids, NEW l \in rows', i < j, j <= l PROVE j \in rows'
      OBVIOUS
    <3>0. highest < i /\ i \in Nat /\ j \in Nat /\ highest \in Nat
      BY <1>1, <1>2 DEF NextIs
    <3>1. highest < j /\ j # i
      BY <3>0
    <3>2. j \in rows
      BY <1>1, <3>1 DEF RoundInv
    <3> QED
      BY <1>1, <3>1, <3>2
  <2>3. dbCursor <= i
    BY <1>1, <1>2
  <2> QED
    BY <1>1, <2>1, <2>2, <2>3 DEF RoundInv
<1>5. TimeInv' /\ CopiesInv'
  BY <1>1, CopiesKept DEF TimeInv
<1>6. SmoothInv'
  <2>1. smooth => \A j \in Ids \ rows' : i < j => now <= reads[j].at + MaxDelay + MaxStall
    <3> SUFFICES ASSUME smooth, NEW j \in Ids, j \notin rows', i < j
                 PROVE  now <= reads[j].at + MaxDelay + MaxStall
      OBVIOUS
    <3>1. highest < i /\ i \in Nat /\ j \in Nat /\ highest \in Nat
      BY <1>1, <1>2 DEF NextIs
    <3>2. highest < j /\ j # i
      BY <3>1
    <3>3. j \notin rows
      BY <1>1, <3>2
    <3> QED
      BY <1>1, <3>2, <3>3 DEF SmoothInv, Behind
  <2> QED
    BY <1>1, <2>1 DEF SmoothInv, Behind, Parted
<1> QED
  BY <1>3, <1>4, <1>5, <1>6

\* An open group is what its key has open.
LEMMA OpenOf ==
  ASSUME DebouncerInv, NEW k \in Keys, openGroups[k] # Nothing
  PROVE  openGroups[k] \in Open /\ openGroups[k] \in Group /\ openGroups[k].key = k
  BY DEF DebouncerInv, TypeOK, Open, OpenKeys

\* A row begins a group, its key's first or the next after a gap.
LEMMA GroupStarted ==
  ASSUME DebouncerInv, Absorb,
         LET k == reads[NextId].key
         IN  /\ k \notin Unmapped
             /\ openGroups' = [openGroups EXCEPT ![k] = StartGroup(NextId)]
             /\ finished' = finished \cup {h \in Open : h.key = k}
             /\ \A h \in Open : h.key = k => StartsNewSession(h, NextId)
  PROVE  DebouncerInv'
<1> USE DEF DebouncerInv
<1> DEFINE i == NextId
           k == reads[i].key
           new == StartGroup(i)
           rest == {h \in Open : h.key # k}
           left == {h \in Open : h.key = k}
<1>1. /\ i \in Ids /\ NextIs(i) /\ highest' = i /\ dbCursor < i
      /\ \A g \in Closed \cup Open : i \notin g.ids
      /\ UNCHANGED <<now, reads, dbCursor, observations, rejected, lost, smooth>>
      /\ Ids' = Ids
  BY AbsorbsNext DEF dbVars, histories
<1>2. /\ reads[i] \in Read /\ reads[i].at \in Nat /\ now \in Nat /\ i \in 1..MaxReads
      /\ highest \in Nat /\ dbCursor \in Nat /\ \A j \in Ids : j \in Nat /\ reads[j].at \in Nat
  BY <1>1, Typed, DebouncerAssumption DEF TypeOK, Ids
<1>3. /\ new \in Group /\ new.key = k /\ new.ids = {i} /\ new.first = reads[i].at
      /\ new.last = reads[i].at /\ new.touched = now /\ k \in Keys
  BY <1>2 DEF StartGroup, Group, Read, TypeOK
<1>4. /\ openGroups' = [openGroups EXCEPT ![k] = new] /\ k \notin Unmapped
      /\ finished' = finished \cup left
      /\ \A h \in left : reads[i].at > h.last + Quiet
  BY DEF StartsNewSession
<1> HIDE DEF i, k, new
<1>5. /\ \A j \in Ids : j <= highest => j <= i
      /\ \A j \in Ids \ {i} : j <= i => j < i
  <2> SUFFICES ASSUME NEW j \in Ids
               PROVE  (j <= highest => j <= i) /\ (j # i /\ j <= i => j < i)
    OBVIOUS
  <2>1. j \in Nat /\ i \in Nat /\ highest \in Nat /\ highest < i
    BY <1>1, <1>2 DEF NextIs
  <2> QED
    BY <2>1
<1>6. /\ openGroups' \in [Keys -> Group \cup {Nothing}] /\ Open' = rest \cup {new}
  BY <1>3, <1>4, GroupPut
<1>7. /\ Closed' = Closed \cup left /\ Observed' = Observed /\ InMemory' = Open' \cup finished'
      /\ Open = rest \cup left /\ InMemory = Open \cup finished
      /\ WrittenIds' = WrittenIds
  BY <1>1, <1>4 DEF Closed, Observed, InMemory, Open, WrittenIds, IdsOf
<1> HIDE DEF rest, left
<1>8. GroupsInv'
  <2>1. \A g \in Closed' \cup Open' :
          g.ids # {} /\ \A j \in g.ids : j \in Ids /\ reads[j].key = g.key
    BY <1>1, <1>3, <1>6, <1>7 DEF GroupsInv, k
  <2>2. \A g \in InMemory' : \A j \in g.ids : j <= i
    <3>1. \A g \in InMemory : \A j \in g.ids : j \in Ids /\ j <= highest
      BY <1>7 DEF GroupsInv, Closed
    <3>2. \A g \in InMemory : \A j \in g.ids : j <= i
      BY <1>5, <3>1
    <3> QED
      BY <1>2, <1>3, <1>4, <1>6, <1>7, <3>2
  <2>3. \A g, h \in Closed' : g # h => g.ids \cap h.ids = {}
    BY <1>7, OpenApart DEF GroupsInv
  <2>4. \A g \in rest, h \in left : g.ids \cap h.ids = {}
    BY <1>7, OpenApart DEF rest, left
  <2>5. \A g \in Open', h \in Closed' : g.ids \cap h.ids = {}
    BY <1>1, <1>3, <1>6, <1>7, <2>4 DEF GroupsInv
  <2>6. \A g \in Open' : g.key \notin Unmapped
    BY <1>3, <1>4, <1>6, <1>7 DEF GroupsInv
  <2>7. \A o \in Observed' : \A j \in o.ids : j <= dbCursor'
    BY <1>1, <1>7 DEF GroupsInv
  <2> QED
    BY <1>1, <1>6, <2>1, <2>2, <2>3, <2>5, <2>6, <2>7 DEF GroupsInv
<1>9. CoverInv'
  <2> SUFFICES ASSUME NEW j \in Ids, j <= dbCursor \/ j <= i, reads[j].key \notin Unmapped
               PROVE  j \in WrittenIds \cup rejected \cup IdsOf(InMemory') \cup lost
    BY <1>1, <1>7 DEF CoverInv, IdsOf
  <2>1. IdsOf(InMemory) \subseteq IdsOf(InMemory') /\ i \in IdsOf(InMemory')
    BY <1>3, <1>4, <1>6, <1>7 DEF IdsOf
  <2>2. j <= dbCursor \/ j <= highest \/ j = i
    BY <1>1 DEF NextIs
  <2> QED
    BY <2>1, <2>2 DEF CoverInv
<1>10. OpenInv'
  <2>2. new.last <= now
    BY <1>1, <1>3 DEF TimeInv
  <2>3. /\ new.last <= new.touched /\ new.touched <= now
        /\ \A j \in Ids \ new.ids : j <= i => \E l \in new.ids : j < l
    BY <1>2, <1>3, <1>5, <2>2
  <2>4. ASSUME NEW g \in rest
        PROVE  /\ g.last <= g.touched /\ g.touched <= now
               /\ \A j \in Ids \ g.ids :
                    reads[j].key = g.key /\ j <= i => \E l \in g.ids : j < l
    <3>1. g \in Open /\ g.key # k
      BY <2>4 DEF rest
    <3>2. \A j \in Ids : reads[j].key = g.key /\ j <= i => j <= highest
      BY <1>1, <3>1 DEF NextIs, k
    <3> QED
      BY <3>1, <3>2 DEF OpenInv
  <2> QED
    BY <1>1, <1>6, <2>3, <2>4 DEF OpenInv
<1>11. ASSUME smooth, NEW g \in Closed'
       PROVE  g.last + Quiet < now /\ Parted(g)
  <2>1. CASE g \in Closed
    BY <1>11, <2>1 DEF SmoothInv
  <2>2. CASE g \in left
    <3>1. g \in Open /\ g.key = k /\ g.last \in Nat
      BY <2>2, OpenApart, Typed DEF left
    <3>2. reads[i].at > g.last + Quiet
      BY <1>4, <2>2
    <3>3. reads[i].at <= now
      BY <1>1 DEF TimeInv
    <3>4. g.last + Quiet < now
      BY <1>2, <3>1, <3>2, <3>3, DebouncerAssumption
    <3>5. ASSUME NEW j \in Ids \ g.ids, reads[j].key = g.key, \A l \in g.ids : l < j
          PROVE  reads[j].at + MaxDelay + MaxStall > g.last + Quiet
      <4>1. ~(j <= highest)
        <5>1. \A l \in g.ids : l \in Nat /\ j \in Nat
          BY <1>2, <3>1 DEF GroupsInv
        <5>2. \A l \in g.ids : ~(j < l)
          BY <3>5, <5>1
        <5> QED
          BY <3>1, <3>5, <5>2 DEF OpenInv
      <4>2. i <= j
        BY <1>1, <1>2, <4>1 DEF NextIs
      <4>3. reads[i].at <= reads[j].at + MaxDelay
        <5>1. CASE i = j
          BY <1>2, <5>1, DebouncerAssumption
        <5>2. CASE i < j
          BY <1>1, <5>2 DEF TimeInv
        <5> QED
          BY <1>1, <1>2, <4>2, <5>1, <5>2
      <4> QED
        BY <1>2, <3>1, <3>2, <4>3, DebouncerAssumption
    <3> QED
      BY <3>4, <3>5 DEF Parted
  <2> QED
    BY <1>7, <2>1, <2>2
<1>12. /\ finished' \subseteq Group /\ finished' \subseteq finished \cup Open
       /\ \A l \in Keys : openGroups'[l] # Nothing =>
            openGroups'[l] \in Group /\ openGroups'[l].key = l
  <2>1. left \subseteq Group /\ finished \subseteq Group
    BY OpenApart DEF left, TypeOK
  <2>2. openGroups \in [Keys -> Group \cup {Nothing}]
    BY DEF GroupsInv
  <2> QED
    BY <1>3, <1>4, <1>7, <2>1, <2>2 DEF TypeOK
<1> QED
  BY <1>8, <1>9, <1>10, <1>11, <1>12, AbsorbedRow

\* A row is added to the group its key has open.
LEMMA GroupGrown ==
  ASSUME DebouncerInv, Absorb, NEW g \in Open, g.key = reads[NextId].key,
         openGroups' = [openGroups EXCEPT ![g.key] = Add(g, NextId)],
         finished' = finished
  PROVE  DebouncerInv'
<1> USE DEF DebouncerInv
<1> DEFINE i == NextId
           k == g.key
           new == Add(g, i)
           rest == {h \in Open : h.key # k}
<1>1. /\ i \in Ids /\ NextIs(i) /\ highest' = i /\ dbCursor < i
      /\ \A h \in Closed \cup Open : i \notin h.ids
      /\ UNCHANGED <<now, reads, dbCursor, observations, rejected, lost, smooth>>
      /\ Ids' = Ids
  BY AbsorbsNext DEF dbVars, histories
<1>2. /\ reads[i] \in Read /\ reads[i].at \in Nat /\ now \in Nat /\ i \in 1..MaxReads
      /\ highest \in Nat /\ dbCursor \in Nat /\ \A j \in Ids : j \in Nat /\ reads[j].at \in Nat
      /\ now \in 0..MaxNow /\ reads[i].at \in 0..MaxNow
  <2>1. i \in 1..MaxReads
    BY <1>1, Typed, DebouncerAssumption DEF TypeOK, Ids
  <2>2. reads[i] \in Read /\ reads[i].at \in 0..MaxNow
    BY <1>1, Typed DEF Read
  <2> QED
    BY <1>1, <2>1, <2>2, Typed DEF TypeOK
<1>3. /\ g \in Group /\ g.first \in Nat /\ g.last \in Nat /\ k \in Keys
      /\ openGroups[k] = g
  BY OpenApart, Typed DEF OpenKeys
<1>4. /\ new \in Group /\ new.key = k /\ new.ids = g.ids \cup {i}
      /\ new.last \in {g.last, reads[i].at} /\ new.touched = now
  BY <1>2, <1>3 DEF Add, Group
<1>5. openGroups' = [openGroups EXCEPT ![k] = new] /\ k = reads[i].key
  OBVIOUS
<1> HIDE DEF i, k, new
<1>6. /\ \A j \in Ids : j <= highest => j <= i
      /\ \A j \in Ids \ {i} : j <= i => j < i
  <2> SUFFICES ASSUME NEW j \in Ids
               PROVE  (j <= highest => j <= i) /\ (j # i /\ j <= i => j < i)
    OBVIOUS
  <2>1. j \in Nat /\ i \in Nat /\ highest \in Nat /\ highest < i
    BY <1>1, <1>2 DEF NextIs
  <2> QED
    BY <2>1
<1>7. openGroups' \in [Keys -> Group \cup {Nothing}] /\ Open' = rest \cup {new}
  BY <1>3, <1>4, <1>5, GroupPut
<1>8. /\ Closed' = Closed /\ Observed' = Observed /\ InMemory' = Open' \cup finished
      /\ Open = rest \cup {g} /\ InMemory = Open \cup finished
      /\ WrittenIds' = WrittenIds
  <2>1. Open = rest \cup {g}
    BY OpenApart DEF k
  <2> QED
    BY <1>1, <2>1 DEF Closed, Observed, InMemory, Open, WrittenIds, IdsOf
<1> HIDE DEF rest
<1>9. GroupsInv'
  <2>1. \A h \in Closed' \cup Open' :
          h.ids # {} /\ \A j \in h.ids : j \in Ids /\ reads[j].key = h.key
    BY <1>1, <1>4, <1>5, <1>7, <1>8 DEF GroupsInv, k
  <2>2. \A h \in InMemory' : \A j \in h.ids : j <= i
    <3>1. \A h \in InMemory : \A j \in h.ids : j \in Ids /\ j <= highest
      BY <1>8 DEF GroupsInv, Closed
    <3>2. \A h \in InMemory : \A j \in h.ids : j <= i
      BY <1>6, <3>1
    <3> QED
      BY <1>2, <1>4, <1>7, <1>8, <3>2
  <2>3. \A h, o \in Closed' : h # o => h.ids \cap o.ids = {}
    BY <1>8 DEF GroupsInv
  <2>4. \A h \in Open', o \in Closed' : h.ids \cap o.ids = {}
    BY <1>1, <1>4, <1>7, <1>8 DEF GroupsInv
  <2>5. \A h \in Open' : h.key \notin Unmapped
    BY <1>4, <1>7, <1>8 DEF GroupsInv, k
  <2>6. \A o \in Observed' : \A j \in o.ids : j <= dbCursor'
    BY <1>1, <1>8 DEF GroupsInv
  <2> QED
    BY <1>1, <1>7, <2>1, <2>2, <2>3, <2>4, <2>5, <2>6 DEF GroupsInv
<1>10. CoverInv'
  <2> SUFFICES ASSUME NEW j \in Ids, j <= dbCursor \/ j <= i, reads[j].key \notin Unmapped
               PROVE  j \in WrittenIds \cup rejected \cup IdsOf(InMemory') \cup lost
    BY <1>1, <1>8 DEF CoverInv, IdsOf
  <2>1. IdsOf(InMemory) \subseteq IdsOf(InMemory') /\ i \in IdsOf(InMemory')
    BY <1>4, <1>7, <1>8 DEF IdsOf
  <2>2. j <= dbCursor \/ j <= highest \/ j = i
    BY <1>1 DEF NextIs
  <2> QED
    BY <2>1, <2>2 DEF CoverInv
<1>11. OpenInv'
  <2>1. g.last <= now /\ reads[i].at <= now
    <3>1. g.last <= g.touched /\ g.touched <= now /\ g.touched \in Nat
      BY <1>3, Typed DEF OpenInv
    <3> QED
      BY <1>1, <1>2, <1>3, <3>1 DEF TimeInv
  <2>2. /\ new.last <= new.touched /\ new.touched <= now
        /\ \A j \in Ids \ new.ids : j <= i => \E l \in new.ids : j < l
    BY <1>2, <1>4, <1>6, <2>1
  <2>3. ASSUME NEW h \in rest
        PROVE  /\ h.last <= h.touched /\ h.touched <= now
               /\ \A j \in Ids \ h.ids :
                    reads[j].key = h.key /\ j <= i => \E l \in h.ids : j < l
    <3>1. h \in Open /\ h.key # k
      BY <2>3 DEF rest
    <3>2. \A j \in Ids : reads[j].key = h.key /\ j <= i => j <= highest
      BY <1>1, <1>5, <3>1 DEF NextIs
    <3> QED
      BY <3>1, <3>2 DEF OpenInv
  <2> QED
    BY <1>1, <1>7, <2>2, <2>3 DEF OpenInv
<1>12. smooth => \A h \in Closed' : h.last + Quiet < now /\ Parted(h)
  BY <1>8 DEF SmoothInv
<1>13. /\ finished' \subseteq Group
       /\ \A l \in Keys : openGroups'[l] # Nothing =>
            openGroups'[l] \in Group /\ openGroups'[l].key = l
  <2>1. openGroups \in [Keys -> Group \cup {Nothing}]
    BY DEF GroupsInv
  <2> QED
    BY <1>3, <1>4, <1>5, <2>1 DEF TypeOK
<1> QED
  BY <1>9, <1>10, <1>11, <1>12, <1>13, AbsorbedRow

\* A row from an antenna that is under no portal is passed over.
LEMMA RowPassedOver ==
  ASSUME DebouncerInv, Absorb, reads[NextId].key \in Unmapped,
         UNCHANGED <<openGroups, finished>>
  PROVE  DebouncerInv'
<1> USE DEF DebouncerInv
<1> DEFINE i == NextId
<1>1. /\ i \in Ids /\ NextIs(i) /\ highest' = i /\ dbCursor < i
      /\ UNCHANGED <<now, reads, dbCursor, observations, rejected, lost, smooth>>
      /\ Ids' = Ids
  BY AbsorbsNext DEF dbVars, histories
<1>2. reads[i].key \in Unmapped
  OBVIOUS
<1> HIDE DEF i
<1>3. \A j \in Ids : j <= highest => j <= i
  <2> SUFFICES ASSUME NEW j \in Ids, j <= highest PROVE j <= i
    OBVIOUS
  <2>1. j \in Nat /\ i \in Nat /\ highest \in Nat /\ highest < i
    BY <1>1, Typed DEF NextIs
  <2> QED
    BY <2>1
<1>4. /\ Open' = Open /\ Closed' = Closed /\ Observed' = Observed /\ InMemory' = InMemory
      /\ InMemory = Open \cup finished /\ WrittenIds' = WrittenIds
  BY <1>1 DEF Closed, Observed, InMemory, Open, OpenKeys, WrittenIds, IdsOf
<1>5. GroupsInv'
  <2>1. \A h \in InMemory : \A j \in h.ids : j <= i
    BY <1>3, <1>4 DEF GroupsInv, Closed
  <2> QED
    BY <1>1, <1>4, <2>1 DEF GroupsInv
<1>6. CoverInv'
  BY <1>1, <1>2, <1>4 DEF CoverInv, NextIs, IdsOf
<1>7. OpenInv'
  <2>1. \A g \in Open, j \in Ids : reads[j].key = g.key /\ j <= i => j <= highest
    BY <1>1, <1>2 DEF NextIs, GroupsInv
  <2> QED
    BY <1>1, <1>4, <2>1 DEF OpenInv
<1>8. smooth => \A h \in Closed' : h.last + Quiet < now /\ Parted(h)
  BY <1>4 DEF SmoothInv
<1>9. /\ finished' \subseteq Group
      /\ \A l \in Keys : openGroups'[l] # Nothing =>
           openGroups'[l] \in Group /\ openGroups'[l].key = l
  BY DEF TypeOK
<1> QED
  BY <1>5, <1>6, <1>7, <1>8, <1>9, AbsorbedRow

\* Taking one fetched read into its group keeps the invariant.
LEMMA AbsorbKeeps ==
  ASSUME DebouncerInv, Absorb
  PROVE  DebouncerInv'
<1> DEFINE i == NextId
           k == reads[i].key
           g == openGroups[k]
<1>1. k \in Keys
  BY AbsorbsNext, Typed DEF DebouncerInv, Read
<1>2. \/ k \in Unmapped /\ UNCHANGED <<openGroups, finished>>
      \/ /\ k \notin Unmapped /\ g = Nothing
         /\ openGroups' = [openGroups EXCEPT ![k] = StartGroup(i)]
         /\ UNCHANGED finished
      \/ /\ g # Nothing /\ StartsNewSession(g, i)
         /\ openGroups' = [openGroups EXCEPT ![k] = StartGroup(i)]
         /\ finished' = finished \cup {g}
      \/ /\ g # Nothing /\ ~StartsNewSession(g, i)
         /\ openGroups' = [openGroups EXCEPT ![k] = Add(g, i)]
         /\ UNCHANGED finished
  BY DEF Absorb, NextId
<1>3. g = Nothing => {h \in Open : h.key = k} = {}
  BY <1>1, OpenApart DEF OpenKeys
<1>4. g # Nothing => g \in Open /\ g.key = k /\ {h \in Open : h.key = k} = {g}
                     /\ k \notin Unmapped
  <2> SUFFICES ASSUME g # Nothing
               PROVE  g \in Open /\ g.key = k /\ {h \in Open : h.key = k} = {g}
                      /\ k \notin Unmapped
    OBVIOUS
  <2>1. g \in Open /\ g.key = k
    BY <1>1, OpenOf
  <2>2. \A h \in Open : h.key = k => h = g
    BY OpenApart
  <2> QED
    BY <2>1, <2>2 DEF DebouncerInv, GroupsInv
<1>5. CASE k \in Unmapped /\ UNCHANGED <<openGroups, finished>>
  BY <1>5, RowPassedOver
<1>6. CASE /\ k \notin Unmapped /\ g = Nothing
           /\ openGroups' = [openGroups EXCEPT ![k] = StartGroup(i)]
           /\ UNCHANGED finished
  BY <1>3, <1>6, GroupStarted
<1>7. CASE /\ g # Nothing /\ StartsNewSession(g, i)
           /\ openGroups' = [openGroups EXCEPT ![k] = StartGroup(i)]
           /\ finished' = finished \cup {g}
  BY <1>4, <1>7, GroupStarted
<1>8. CASE /\ g # Nothing /\ ~StartsNewSession(g, i)
           /\ openGroups' = [openGroups EXCEPT ![k] = Add(g, i)]
           /\ UNCHANGED finished
  BY <1>4, <1>8, GroupGrown
<1> QED
  BY <1>2, <1>5, <1>6, <1>7, <1>8

-----------------------------------------------------------------------------
(* Groups are closed *)

\* What closing the groups of S does to the groups and to their reads.
LEMMA GroupsClosed ==
  ASSUME DebouncerInv, NEW S \in SUBSET OpenKeys, Close(S), highest' = highest,
         UNCHANGED <<now, reads, dbCursor, observations, lost, unacknowledged>>
  PROVE  /\ GroupsInv' /\ CopiesInv' /\ CoverInv' /\ TimeInv' /\ OpenInv'
         /\ OpenKeys' = OpenKeys \ S
         /\ finished' \subseteq Group /\ rejected' \subseteq Ids
         /\ \A k \in Keys : openGroups'[k] # Nothing =>
              openGroups'[k] \in Group /\ openGroups'[k].key = k
         /\ \A g \in Closed' : g \in Closed \/ \E k \in S : g = openGroups[k]
<1> USE DEF DebouncerInv
<1> DEFINE gone == {openGroups[k] : k \in S}
           closed == finished \cup gone
<1>1. /\ openGroups' = [k \in Keys |-> IF k \in S THEN Nothing ELSE openGroups[k]]
      /\ openGroups \in [Keys -> Group \cup {Nothing}]
      /\ finished' \subseteq closed
      /\ rejected' = rejected \cup IdsOf(closed \ finished')
  BY DEF Close, GroupsInv
<1>2. OpenKeys' = OpenKeys \ S
  BY <1>1 DEF OpenKeys
<1>3. /\ Open = Open' \cup gone
      /\ \A g \in Open', h \in gone : g.ids \cap h.ids = {}
  <2>1. Open' = {openGroups[k] : k \in OpenKeys \ S}
    BY <1>1, <1>2 DEF Open, OpenKeys
  <2>2. Open = Open' \cup gone
    BY <2>1 DEF Open
  <2>3. \A k \in OpenKeys : openGroups[k].key = k
    BY DEF OpenKeys, TypeOK
  <2>4. \A g \in Open', h \in gone : g.key # h.key
    BY <2>1, <2>3
  <2> QED
    BY <2>2, <2>4, OpenApart
<1> HIDE DEF gone
<1>4. /\ Closed' \subseteq Closed \cup gone /\ Observed' = Observed /\ Ids' = Ids
      /\ InMemory = Open \cup finished /\ InMemory' = Open' \cup finished'
      /\ WrittenIds' = WrittenIds
  BY <1>1 DEF Closed, Observed, InMemory, Open, Ids, WrittenIds, IdsOf
<1>5. GroupsInv'
  <2>1. openGroups' \in [Keys -> Group \cup {Nothing}]
    BY <1>1
  <2>2. Closed' \cup Open' \subseteq Closed \cup Open /\ InMemory' \subseteq InMemory
    BY <1>1, <1>3, <1>4
  <2>3. \A g, h \in Closed' : g # h => g.ids \cap h.ids = {}
    BY <1>3, <1>4, OpenApart DEF GroupsInv
  <2>4. \A g \in Open', h \in Closed' : g.ids \cap h.ids = {}
    BY <1>3, <1>4 DEF GroupsInv
  <2> QED
    BY <1>3, <1>4, <2>1, <2>2, <2>3, <2>4 DEF GroupsInv
<1>6. CoverInv'
  <2>1. IdsOf(InMemory) \cup rejected \subseteq IdsOf(InMemory') \cup rejected'
    BY <1>1, <1>3, <1>4 DEF IdsOf
  <2>2. IdsOf(InMemory)' = IdsOf(InMemory')
    BY DEF IdsOf
  <2> QED
    BY <1>4, <2>1, <2>2 DEF CoverInv
<1>7. TimeInv' /\ OpenInv'
  BY <1>3, <1>4 DEF TimeInv, OpenInv
<1>8. finished' \subseteq Group /\ rejected' \subseteq Ids
  <2>1. closed \subseteq Group
    BY <1>3, OpenApart DEF TypeOK
  <2>2. \A g \in closed : g.ids \subseteq Ids
    BY <1>3 DEF GroupsInv, Closed
  <2> QED
    BY <1>1, <2>1, <2>2 DEF TypeOK, IdsOf
<1>9. \A k \in Keys : openGroups'[k] # Nothing =>
        openGroups'[k] \in Group /\ openGroups'[k].key = k
  BY <1>1 DEF TypeOK
<1>10. CopiesInv'
  BY <1>1, <1>3, CopiesKept
<1> QED
  BY <1>10, <1>2, <1>4, <1>5, <1>6, <1>7, <1>8, <1>9 DEF gone

\* A group that has gone quiet by the process's clock is a whole pass, as no row
\* of its key is left and all that come will be stamped after its gap.
LEMMA QuietIsParted ==
  ASSUME DebouncerInv, pc = "close", smooth, NEW g \in Open, HasGoneQuiet(g)
  PROVE  g.last + Quiet < now /\ Parted(g)
<1> USE DEF DebouncerInv
<1>1. /\ g.last \in Nat /\ g.touched \in Nat /\ now \in Nat /\ highest \in Nat
      /\ Quiet \in Nat /\ MaxDelay \in Nat /\ MaxStall \in Nat
      /\ \A j \in Ids : j \in Nat /\ reads[j].at \in Nat
  BY OpenApart, Typed, DebouncerAssumption
<1>2. g.last <= g.touched /\ now > g.touched + Quiet
  BY DEF OpenInv, HasGoneQuiet
<1>3. g.last + Quiet < now
  BY <1>1, <1>2
<1>4. ASSUME NEW j \in Ids \ g.ids, reads[j].key = g.key, \A l \in g.ids : l < j
      PROVE  reads[j].at + MaxDelay + MaxStall > g.last + Quiet
  <2>1. ~(j <= highest)
    <3>1. \A l \in g.ids : l \in Nat /\ j \in Nat
      BY <1>1 DEF GroupsInv
    <3>2. \A l \in g.ids : ~(j < l)
      BY <1>4, <3>1
    <3> QED
      BY <1>4, <3>2 DEF OpenInv
  <2>2. highest < j /\ j \notin rows
    BY <1>1, <2>1 DEF RoundInv
  <2>3. now <= reads[j].at + MaxDelay + MaxStall
    BY <2>2 DEF SmoothInv, Behind
  <2> QED
    BY <1>1, <1>3, <2>3
<1> QED
  BY <1>3, <1>4 DEF Parted

\* A round closes the groups that have gone quiet.
LEMMA CloseQuietGroupsKeeps ==
  ASSUME DebouncerInv, CloseQuietGroups
  PROVE  DebouncerInv'
<1> USE DEF DebouncerInv, dbVars
<1> DEFINE S == {k \in OpenKeys : HasGoneQuiet(openGroups[k])}
<1>1. /\ pc = "close" /\ Close(S) /\ S \in SUBSET OpenKeys /\ rows = {}
      /\ UNCHANGED <<now, dbVars, cursorId, highest, rows, stall, stopping, lost,
                     unacknowledged, smooth, faults>>
      /\ pc' = IF finished' # {} \/ highest # cursorId THEN "commit" ELSE "fetch"
      /\ Ids' = Ids
  BY DEF CloseQuietGroups, RoundInv, Ids
<1>2. \A k \in S : openGroups[k] \in Open /\ HasGoneQuiet(openGroups[k])
  BY DEF Open
<1> HIDE DEF S
<1>3. /\ GroupsInv' /\ CopiesInv' /\ CoverInv' /\ TimeInv' /\ OpenInv'
      /\ finished' \subseteq Group /\ rejected' \subseteq Ids
      /\ \A k \in Keys : openGroups'[k] # Nothing =>
           openGroups'[k] \in Group /\ openGroups'[k].key = k
      /\ \A g \in Closed' : g \in Closed \/ \E k \in S : g = openGroups[k]
  BY <1>1, GroupsClosed
<1>4. TypeOK'
  BY <1>1, <1>3 DEF TypeOK
<1>5. RoundInv'
  BY <1>1 DEF RoundInv
<1>6. SmoothInv'
  <2>1. ASSUME smooth, NEW g \in Closed' PROVE g.last + Quiet < now /\ Parted(g)
    BY <1>1, <1>2, <1>3, <2>1, QuietIsParted DEF SmoothInv
  <2> QED
    BY <1>1, <2>1 DEF SmoothInv, Parted
<1> QED
  BY <1>3, <1>4, <1>5, <1>6

\* A process that stops closes all groups.
LEMMA FlushKeeps ==
  ASSUME DebouncerInv, Flush
  PROVE  DebouncerInv'
<1> USE DEF DebouncerInv, dbVars
<1>1. /\ pc = "fetch" /\ pc' = "final" /\ Close(OpenKeys) /\ stopping
      /\ highest' = cursorId /\ highest = cursorId /\ rows = {} /\ Ids' = Ids
      /\ UNCHANGED <<now, dbVars, cursorId, rows, stall, stopping, lost, unacknowledged,
                     smooth, faults>>
  BY DEF Flush, RoundInv, Ids
<1>2. /\ GroupsInv' /\ CopiesInv' /\ CoverInv' /\ TimeInv' /\ OpenInv' /\ OpenKeys' = {}
      /\ finished' \subseteq Group /\ rejected' \subseteq Ids
      /\ \A k \in Keys : openGroups'[k] # Nothing =>
           openGroups'[k] \in Group /\ openGroups'[k].key = k
  BY <1>1, GroupsClosed
<1>3. TypeOK'
  BY <1>1, <1>2 DEF TypeOK
<1>4. RoundInv'
  BY <1>1, <1>2 DEF RoundInv
<1>5. SmoothInv'
  BY <1>1 DEF SmoothInv
<1> QED
  BY <1>2, <1>3, <1>4, <1>5

-----------------------------------------------------------------------------

\* Every step keeps the invariant.
LEMMA NextDebouncer == DebouncerInv /\ [Next]_vars => DebouncerInv'
<1> SUFFICES ASSUME DebouncerInv, [Next]_vars PROVE DebouncerInv'
  OBVIOUS
<1>1. CASE Tick
  BY <1>1, TickKeeps
<1>2. ASSUME NEW k \in Keys, NEW delay \in 0..MaxDelay, NEW rssi \in Rssis,
             ReadArrives(k, delay, rssi)
      PROVE  DebouncerInv'
  BY <1>2, ReadArrivesKeeps
<1>3. CASE LoadCursor
  BY <1>3, LoadCursorKeeps
<1>4. CASE FetchReads \/ FetchFails
  BY <1>4, FetchKeeps
<1>13. CASE FetchReturns
  BY <1>13, FetchReturnsKeeps
<1>5. CASE Absorb
  BY <1>5, AbsorbKeeps
<1>6. CASE CloseQuietGroups
  BY <1>6, CloseQuietGroupsKeeps
<1>7. CASE Flush
  BY <1>7, FlushKeeps
<1>8. CASE Commit
  BY <1>8, CommitKeeps
<1>9. CASE CommitFails
  BY <1>9, CommitFailsKeeps
<1>10. CASE RequestStop \/ Restart
  BY <1>10, StopAndRestartKeep
<1>11. CASE Crash
  BY <1>11, CrashKeeps
<1>12. CASE UNCHANGED vars
  <2> USE <1>12 DEF vars, dbVars, histories, DebouncerInv
  <2>1. TypeOK'
    BY DEF TypeOK, Ids
  <2>2. RoundInv'
    BY DEF RoundInv, OpenKeys, Ids
  <2>3. SmoothInv'
    BY DEF SmoothInv, Behind, Parted, Closed, Observed, Ids
  <2>4. highest \in Nat
    BY Typed
  <2> QED
    BY <2>1, <2>2, <2>3, <2>4, NothingMoves
<1> QED
  BY <1>1, <1>2, <1>3, <1>4, <1>5, <1>6, <1>7, <1>8, <1>9, <1>10, <1>11, <1>12, <1>13 DEF Next

\* The debouncer's groups, its round and its cursor account for every read in every
\* state, for any number of reads, ticks, faults and stops.
THEOREM DebouncerInvariant == Spec => []DebouncerInv
<1> QED
  BY InitDebouncer, NextDebouncer, PTL DEF Spec

\* Every variable has its type, a batch is never too large, and while a round is at
\* work the process and the database agree on the cursor.
THEOREM TypeCorrect == Spec => []TypeOK
<1>1. DebouncerInv => TypeOK
  BY DEF DebouncerInv
<1> QED
  BY <1>1, DebouncerInvariant, PTL

\* Through failed and unacknowledged commits, stops and crashes, the cursor passes no
\* read that is not in an observation, rejected, in memory, or lost with a process.
THEOREM NoneSkipped == Spec => []NeverSkipped
<1>1. DebouncerInv => NeverSkipped
  <2> SUFFICES ASSUME DebouncerInv PROVE NeverSkipped
    OBVIOUS
  <2>1. \A i \in 1..dbCursor : i \in Ids /\ i <= dbCursor
    BY Typed DEF DebouncerInv, Ids
  <2> QED
    BY <2>1 DEF DebouncerInv, CoverInv, NeverSkipped
<1> QED
  BY <1>1, DebouncerInvariant, PTL

\* A read is in one group only, through failures, stops and crashes, and a group is
\* written once for each of its commits that was made: once, and once more for each
\* that was not acknowledged (service.py: commit, with_retry).
THEOREM EachObservedOnce == Spec => []ObservedOnce
<1>1. DebouncerInv => ObservedOnce
  <2>1. DebouncerInv => CopiesInv /\ GroupsInv
    BY DEF DebouncerInv
  <2> QED
    BY <2>1 DEF GroupsInv, CopiesInv, ObservedOnce, Closed, Observed, Open
<1> QED
  BY <1>1, DebouncerInvariant, PTL

\* So long as no stop, crash or backlog comes between, a pass is parted only by a
\* gap of more than the quiet period less the longest delay of a read and the longest
\* time that the answer to a fetch takes (service.py: fetch_reads, close_quiet_groups).
THEOREM PassesWhole == Spec => []PassWhole
<1>1. DebouncerInv => PassWhole
  BY DEF DebouncerInv, SmoothInv, Parted, PassWhole, Closed, Observed
<1> QED
  BY <1>1, DebouncerInvariant, PTL

=============================================================================
