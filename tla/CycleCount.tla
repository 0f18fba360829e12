----------------------------- MODULE CycleCount -----------------------------
(***************************************************************************)
(* Cycle counts (services/api/routers/cycle_counts.py): tags are scanned   *)
(* into an open count; closing it compares them with what is believed in   *)
(* stock.  Requests run at READ COMMITTED: each statement sees what was    *)
(* committed when it began, and meanwhile the rest of the system moves     *)
(* containers and other requests scan and close.                           *)
(***************************************************************************)
EXTENDS Naturals

CONSTANTS
    Tids,          \* the tags that may be scanned
    Counts,        \* ids of cycle_counts
    Workers,       \* requests served at one time
    MaxMoves       \* bound: changes of status by the rest of the system

ASSUME CycleCountAssumption == MaxMoves \in Nat

VARIABLES
    inStock,       \* the tags of containers that are IN_STOCK; the others are
                   \* dispatched, registered or of no container
    count,         \* cycle_counts: not inserted, open, or closed
    items,         \* cycle_count_items by count and tag
    request,       \* what each worker is doing, with the rows it has read
    reports,       \* the variance reports that were returned
    moves

vars == <<inStock, count, items, request, reports, moves>>

Item == {"absent", "found", "not found"}

Idle == [doing |-> "idle"]

\* The last two fields are history: the tags in stock ever since the request
\* began, and those it could have found when it did.
Closing(d, c, e, s, stay, early) ==
  [doing |-> d, count |-> c, expected |-> e, scanned |-> s,
   stayed |-> stay, early |-> early]

Request ==
  {Idle}
    \cup [doing : {"scan"}, count : Counts, tid : Tids]
    \cup [doing : {"expect", "compare", "write"}, count : Counts,
          expected : SUBSET Tids, scanned : SUBSET Tids,
          stayed : SUBSET Tids, early : SUBSET Tids]

Report == [count : Counts, missing : SUBSET Tids, unexpected : SUBSET Tids,
           stayed : SUBSET Tids, early : SUBSET Tids]

Found(c) == {t \in Tids : items[c][t] = "found"}

Init ==
  /\ inStock \in SUBSET Tids
  /\ count = [c \in Counts |-> "none"]
  /\ items = [c \in Counts |-> [t \in Tids |-> "absent"]]
  /\ request = [w \in Workers |-> Idle]
  /\ reports = {} /\ moves = 0

-----------------------------------------------------------------------------

StartCount(c) ==
  /\ count[c] = "none"
  /\ count' = [count EXCEPT ![c] = "open"]
  /\ UNCHANGED <<inStock, items, request, reports, moves>>

RequireOpenCount(c) == count[c] = "open"

Scan(w, c, t) ==
  /\ request[w] = Idle /\ RequireOpenCount(c)
  /\ request' = [request EXCEPT ![w] = [doing |-> "scan", count |-> c, tid |-> t]]
  /\ UNCHANGED <<inStock, count, items, reports, moves>>

\* The upsert, and the commit.
RecordScan(w) ==
  /\ request[w].doing = "scan"
  /\ items' = [items EXCEPT ![request[w].count][request[w].tid] = "found"]
  /\ request' = [request EXCEPT ![w] = Idle]
  /\ UNCHANGED <<inStock, count, reports, moves>>

CloseCount(w, c) ==
  /\ request[w] = Idle /\ RequireOpenCount(c)
  /\ request' = [request EXCEPT ![w] =
                   Closing("expect", c, {}, {}, inStock, Found(c))]
  /\ UNCHANGED <<inStock, count, items, reports, moves>>

ReadExpected(w) ==
  /\ request[w].doing = "expect"
  /\ request' = [request EXCEPT ![w].doing = "compare", ![w].expected = inStock]
  /\ UNCHANGED <<inStock, count, items, reports, moves>>

\* Mutant: the tags scanned into any count.
ReadScannedAnyCount(w) ==
  /\ request[w].doing = "compare"
  /\ request' = [request EXCEPT ![w].doing = "write",
                                ![w].scanned = UNION {Found(c) : c \in Counts}]
  /\ UNCHANGED <<inStock, count, items, reports, moves>>

ReadScanned(w) ==
  /\ request[w].doing = "compare"
  /\ request' = [request EXCEPT ![w].doing = "write",
                                ![w].scanned = Found(request[w].count)]
  /\ UNCHANGED <<inStock, count, items, reports, moves>>

Missing(q) == q.expected \ q.scanned
Unexpected(q) == q.scanned \ q.expected

\* Mutant: the missing are upserted as a scan is.
NotFoundOverwrites(c, S) ==
  [items EXCEPT ![c] = [t \in Tids |-> IF t \in S THEN "not found" ELSE @[t]]]

\* INSERT ... ON CONFLICT DO NOTHING.
NotFound(c, S) ==
  [items EXCEPT ![c] =
     [t \in Tids |-> IF t \in S /\ @[t] = "absent" THEN "not found" ELSE @[t]]]

\* Mutant: finished_at is not set.
WriteVarianceStaysOpen(w) ==
  LET q == request[w]
  IN  /\ q.doing = "write"
      /\ items' = NotFound(q.count, Missing(q))
      /\ reports' = reports \cup
           {[count |-> q.count, missing |-> Missing(q),
             unexpected |-> Unexpected(q), stayed |-> q.stayed, early |-> q.early]}
      /\ request' = [request EXCEPT ![w] = Idle]
      /\ UNCHANGED <<inStock, count, moves>>

\* One transaction: the items, an anomaly for each discrepancy, finished_at.
WriteVariance(w) ==
  LET q == request[w]
  IN  /\ q.doing = "write"
      /\ items' = NotFound(q.count, Missing(q))
      /\ count' = [count EXCEPT ![q.count] = "closed"]
      /\ reports' = reports \cup
           {[count |-> q.count, missing |-> Missing(q),
             unexpected |-> Unexpected(q), stayed |-> q.stayed, early |-> q.early]}
      /\ request' = [request EXCEPT ![w] = Idle]
      /\ UNCHANGED <<inStock, moves>>

Closers == {w \in Workers : request[w].doing \in {"expect", "compare", "write"}}

\* A portal read or a correction puts a container in stock, or takes it out.
Enter(t) ==
  /\ moves < MaxMoves /\ t \notin inStock
  /\ moves' = moves + 1
  /\ inStock' = inStock \cup {t}
  /\ UNCHANGED <<count, items, request, reports>>

Leave(t) ==
  /\ moves < MaxMoves /\ t \in inStock
  /\ moves' = moves + 1
  /\ inStock' = inStock \ {t}
  /\ request' = [w \in Workers |->
                   IF w \in Closers THEN [request[w] EXCEPT !.stayed = @ \ {t}]
                   ELSE request[w]]
  /\ UNCHANGED <<count, items, reports>>

Next ==
  \/ \E c \in Counts : StartCount(c)
  \/ \E w \in Workers :
       \/ \E c \in Counts, t \in Tids : Scan(w, c, t)
       \/ RecordScan(w)
       \/ \E c \in Counts : CloseCount(w, c)
       \/ ReadExpected(w)
       \/ ReadScanned(w)
       \/ WriteVariance(w)
  \/ \E t \in Tids : Enter(t) \/ Leave(t)

Spec == Init /\ [][Next]_vars

-----------------------------------------------------------------------------
(* Properties *)

TypeOK ==
  /\ inStock \subseteq Tids
  /\ count \in [Counts -> {"none", "open", "closed"}]
  /\ items \in [Counts -> [Tids -> Item]]
  /\ request \in [Workers -> Request]
  /\ reports \subseteq Report
  /\ moves \in 0..MaxMoves
  /\ \A c \in Counts, t \in Tids :      \* only closing finds a tag missing
       items[c][t] = "not found" => count[c] = "closed"

\* Whatever moves while a count is being closed: what stayed in stock all along
\* is found or reported missing, and never unexpected, and what was found when
\* the closing began is not reported missing.
VarianceRight ==
  \A r \in reports :
    /\ r.stayed \subseteq r.missing \cup Found(r.count)
    /\ r.stayed \cap r.unexpected = {}
    /\ r.early \cap r.missing = {}

\* A tag once found in a count stays found, also when the scan lands between
\* the reads of close_count and its writes.
FoundStaysFound ==
  [][\A c \in Counts : Found(c) \subseteq Found(c)']_vars

\* "the count itself is a complete record" (close_count): what it reported
\* missing is recorded in the count as not found.
CountIsRecord ==
  \A r \in reports : \A t \in r.missing : items[r.count][t] = "not found"

\* Closing a closed count is refused (test_api.py): no count has two reports
\* that differ.
ClosedOnce ==
  \A r1, r2 \in reports : r1.count = r2.count => r1 = r2

=============================================================================
