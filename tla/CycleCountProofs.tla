-------------------------- MODULE CycleCountProofs --------------------------
(***************************************************************************)
(* The variance of a cycle count is right about what stood still, and a    *)
(* tag once found stays found, for any number of tags, counts, concurrent  *)
(* requests and changes of stock.                                          *)
(***************************************************************************)
EXTENDS CycleCount, TLAPS

-----------------------------------------------------------------------------
(* Type correctness *)

\* A request to close a count, in any of its three steps.
ClosingRequest ==
  [doing : {"expect", "compare", "write"}, count : Counts,
   expected : SUBSET Tids, scanned : SUBSET Tids,
   stayed : SUBSET Tids, early : SUBSET Tids]

\* What a worker is doing tells which rows it holds.
LEMMA ByDoing ==
  ASSUME TypeOK, NEW w \in Workers
  PROVE  /\ request[w] \in Request
         /\ request[w].doing = "scan" =>
              request[w].count \in Counts /\ request[w].tid \in Tids
         /\ request[w].doing \in {"expect", "compare", "write"} =>
              request[w] \in ClosingRequest
<1>1. request[w] \in Request
  BY DEF TypeOK
<1>2. CASE request[w] = Idle
  BY <1>1, <1>2 DEF Idle
<1>3. CASE request[w] \in [doing : {"scan"}, count : Counts, tid : Tids]
  BY <1>1, <1>3
<1>4. CASE request[w] \in ClosingRequest
  BY <1>1, <1>4 DEF ClosingRequest
<1> QED
  BY <1>1, <1>2, <1>3, <1>4 DEF Request, ClosingRequest

\* Each table of items stays one, whatever is found missing.
LEMMA NotFoundType ==
  ASSUME TypeOK, NEW c \in Counts, NEW S \in SUBSET Tids
  PROVE  /\ NotFound(c, S) \in [Counts -> [Tids -> Item]]
         /\ \A d \in Counts, t \in Tids :
              NotFound(c, S)[d][t] =
                IF d = c /\ t \in S /\ items[d][t] = "absent" THEN "not found" ELSE items[d][t]
  BY DEF TypeOK, NotFound, Item

\* A change of stock is counted up to the bound.
LEMMA MoveCounted ==
  ASSUME moves \in 0..MaxMoves, moves < MaxMoves, moves' = moves + 1
  PROVE  moves' \in 0..MaxMoves
  BY CycleCountAssumption

\* The state before the first count has the right types.
LEMMA InitTypeOK == Init => TypeOK
  BY CycleCountAssumption DEF Init, TypeOK, Request, Idle, Item

\* Every statement of a request, and every change of stock, keeps the types.
LEMMA NextTypeOK ==
  ASSUME TypeOK, [Next]_vars
  PROVE  TypeOK'
<1> USE DEF TypeOK
<1>1. ASSUME NEW c \in Counts, StartCount(c)
      PROVE  TypeOK'
  BY <1>1 DEF StartCount
<1>2. ASSUME NEW w \in Workers, NEW c \in Counts, NEW t \in Tids, Scan(w, c, t)
      PROVE  TypeOK'
  BY <1>2 DEF Scan, Request
<1>3. ASSUME NEW w \in Workers, RecordScan(w)
      PROVE  TypeOK'
  <2>1. request[w].count \in Counts /\ request[w].tid \in Tids
    BY <1>3, ByDoing DEF RecordScan
  <2>2. request' \in [Workers -> Request]
    BY <1>3 DEF RecordScan, Request
  <2> QED
    BY <1>3, <2>1, <2>2 DEF RecordScan, Item
<1>4. ASSUME NEW w \in Workers, NEW c \in Counts, CloseCount(w, c)
      PROVE  TypeOK'
  <2>1. Closing("expect", c, {}, {}, inStock, Found(c)) \in Request
    BY DEF Closing, Request, Found
  <2> QED
    BY <1>4, <2>1 DEF CloseCount
<1>5. ASSUME NEW w \in Workers, ReadExpected(w)
      PROVE  TypeOK'
  <2>1. request[w] \in ClosingRequest
    BY <1>5, ByDoing DEF ReadExpected
  <2>2. [request[w] EXCEPT !.doing = "compare", !.expected = inStock] \in Request
    BY <2>1 DEF ClosingRequest, Request
  <2> QED
    BY <1>5, <2>2 DEF ReadExpected
<1>6. ASSUME NEW w \in Workers, ReadScanned(w)
      PROVE  TypeOK'
  <2>1. request[w] \in ClosingRequest
    BY <1>6, ByDoing DEF ReadScanned
  <2>2. [request[w] EXCEPT !.doing = "write", !.scanned = Found(request[w].count)] \in Request
    BY <2>1 DEF ClosingRequest, Request, Found
  <2> QED
    BY <1>6, <2>2 DEF ReadScanned
<1>7. ASSUME NEW w \in Workers, WriteVariance(w)
      PROVE  TypeOK'
  <2> DEFINE q == request[w]
  <2>1. q \in ClosingRequest
    BY <1>7, ByDoing DEF WriteVariance
  <2>2. q.count \in Counts /\ Missing(q) \in SUBSET Tids
    BY <2>1 DEF ClosingRequest, Missing
  <2>3. items' \in [Counts -> [Tids -> Item]]
    BY <1>7, <2>2, NotFoundType DEF WriteVariance
  <2>4. reports' \subseteq Report
    <3>1. [count |-> q.count, missing |-> Missing(q), unexpected |-> Unexpected(q),
           stayed |-> q.stayed, early |-> q.early] \in Report
      BY <2>1 DEF ClosingRequest, Report, Missing, Unexpected
    <3> QED
      BY <1>7, <3>1 DEF WriteVariance
  <2>5. request' \in [Workers -> Request]
    BY <1>7 DEF WriteVariance, Request
  <2>6. count' \in [Counts -> {"none", "open", "closed"}]
    BY <1>7 DEF WriteVariance
  <2>7. ASSUME NEW c \in Counts, NEW t \in Tids, items'[c][t] = "not found"
        PROVE  count'[c] = "closed"
    <3>1. /\ items' = NotFound(q.count, Missing(q))
          /\ count' = [count EXCEPT ![q.count] = "closed"]
      BY <1>7 DEF WriteVariance
    <3> HIDE DEF q
    <3>2. CASE c = q.count
      BY <2>2, <3>1, <3>2
    <3>3. CASE c # q.count
      <4>1. items'[c][t] = items[c][t] /\ count'[c] = count[c]
        BY <2>2, <3>1, <3>3, NotFoundType
      <4> QED
        BY <2>7, <4>1
    <3> QED
      BY <3>2, <3>3
  <2> QED
    BY <1>7, <2>3, <2>4, <2>5, <2>6, <2>7 DEF WriteVariance
<1>8. ASSUME NEW t \in Tids, Enter(t)
      PROVE  TypeOK'
  <2>1. moves' \in 0..MaxMoves
    BY <1>8, MoveCounted DEF Enter
  <2>2. inStock' \subseteq Tids
    BY <1>8 DEF Enter
  <2> QED
    BY <1>8, <2>1, <2>2 DEF Enter
<1>9. ASSUME NEW t \in Tids, Leave(t)
      PROVE  TypeOK'
  <2>1. ASSUME NEW w \in Closers
        PROVE  [request[w] EXCEPT !.stayed = @ \ {t}] \in Request
    <3>1. request[w] \in ClosingRequest
      BY ByDoing DEF Closers
    <3> QED
      BY <3>1 DEF ClosingRequest, Request
  <2>2. request' \in [Workers -> Request]
    BY <1>9, <2>1 DEF Leave
  <2>3. moves' \in 0..MaxMoves
    BY <1>9, MoveCounted DEF Leave
  <2>4. inStock' \subseteq Tids
    BY <1>9 DEF Leave
  <2> QED
    BY <1>9, <2>2, <2>3, <2>4 DEF Leave
<1>10. CASE UNCHANGED vars
  BY <1>10 DEF vars
<1> QED
  BY <1>1, <1>2, <1>3, <1>4, <1>5, <1>6, <1>7, <1>8, <1>9, <1>10 DEF Next

\* Every table and every request in progress keeps its type, and a tag is recorded
\* as not found only in a count that is closed.
THEOREM TypeCorrect == Spec => []TypeOK
<1>1. TypeOK /\ [Next]_vars => TypeOK'
  BY NextTypeOK
<1> QED
  BY InitTypeOK, <1>1, PTL DEF Spec

-----------------------------------------------------------------------------
(* What a request holds *)

\* Between the reads of close_count: what it holds may be old, but what stayed in
\* stock is among what it expected, what had been found is among what it has seen
\* scanned, and what it has seen scanned is still found.
Holds(w) ==
  LET q == request[w]
  IN  /\ q.stayed \subseteq inStock
      /\ q.early \subseteq Found(q.count)
      /\ q.doing \in {"compare", "write"} => q.stayed \subseteq q.expected
      /\ q.doing = "write" =>
           q.early \subseteq q.scanned /\ q.scanned \subseteq Found(q.count)

ReadsHold == \A w \in Closers : Holds(w)

IInv == TypeOK /\ ReadsHold /\ VarianceRight

\* A row of a count that says found is never updated to say anything else.
LEMMA FoundGrows ==
  ASSUME TypeOK, [Next]_vars, NEW c \in Counts
  PROVE  Found(c) \subseteq Found(c)'
<1>1. CASE UNCHANGED items
  BY <1>1 DEF Found
<1>2. ASSUME NEW w \in Workers, RecordScan(w)
      PROVE  Found(c) \subseteq Found(c)'
  <2>1. request[w].count \in Counts /\ request[w].tid \in Tids
    BY <1>2, ByDoing DEF RecordScan
  <2> QED
    BY <1>2, <2>1 DEF RecordScan, Found, TypeOK
<1>3. ASSUME NEW w \in Workers, WriteVariance(w)
      PROVE  Found(c) \subseteq Found(c)'
  <2>1. request[w].count \in Counts /\ Missing(request[w]) \in SUBSET Tids
    BY <1>3, ByDoing DEF WriteVariance, ClosingRequest, Missing
  <2>2. items' = NotFound(request[w].count, Missing(request[w]))
    BY <1>3 DEF WriteVariance
  <2>3. \A t \in Tids : items[c][t] = "found" => items'[c][t] = "found"
    BY <2>1, <2>2 DEF NotFound, TypeOK
  <2> QED
    BY <2>3 DEF Found
<1> QED
  BY <1>1, <1>2, <1>3
  DEF Next, vars, StartCount, Scan, CloseCount, ReadExpected, ReadScanned, Enter, Leave

\* A tag once found stays found: neither closing nor scanning takes it back.
THEOREM FoundStays == Spec => FoundStaysFound
<1>1. TypeOK /\ [Next]_vars => [\A c \in Counts : Found(c) \subseteq Found(c)']_vars
  BY FoundGrows
<1> QED
  BY <1>1, TypeCorrect, PTL DEF Spec, FoundStaysFound

\* A report stays right, since what it calls found stays found.
LEMMA ReportsKept ==
  ASSUME TypeOK, [Next]_vars, VarianceRight, UNCHANGED reports
  PROVE  VarianceRight'
<1> SUFFICES ASSUME NEW r \in reports
             PROVE  /\ r.stayed \subseteq r.missing \cup Found(r.count)'
                    /\ r.stayed \cap r.unexpected = {}
                    /\ r.early \cap r.missing = {}
  BY DEF VarianceRight
<1>1. r.count \in Counts
  BY DEF TypeOK, Report
<1>2. Found(r.count) \subseteq Found(r.count)'
  BY <1>1, FoundGrows
<1> QED
  BY <1>2 DEF VarianceRight

\* A worker's rows stay as they should be while others act.
LEMMA OthersHold ==
  ASSUME TypeOK, ReadsHold, [Next]_vars, NEW w \in Closers,
         request'[w] = request[w], inStock \subseteq inStock'
  PROVE  Holds(w)'
<1>1. request[w].count \in Counts
  BY ByDoing DEF Closers, ClosingRequest
<1>2. \A t \in Tids : items[request[w].count][t] = "found"
                        => items'[request[w].count][t] = "found"
  BY <1>1, FoundGrows DEF Found
<1>3. Holds(w)
  BY DEF ReadsHold
<1> QED
  BY <1>2, <1>3 DEF Holds, Found

\* Every step leaves every worker with rows that hold.
LEMMA NextReadsHold ==
  ASSUME TypeOK, ReadsHold, [Next]_vars
  PROVE  ReadsHold'
<1> SUFFICES ASSUME NEW w \in Closers'
             PROVE  Holds(w)'
  BY DEF ReadsHold
<1>0. w \in Workers
  BY DEF Closers
<1>1. CASE request'[w] = request[w] /\ inStock \subseteq inStock'
  <2>1. w \in Closers
    BY <1>0, <1>1 DEF Closers
  <2> QED
    BY <1>1, <2>1, OthersHold
<1>2. ASSUME NEW c \in Counts, CloseCount(w, c)
      PROVE  Holds(w)'
  <2>1. request'[w] = Closing("expect", c, {}, {}, inStock, Found(c))
    BY <1>0, <1>2 DEF CloseCount, TypeOK
  <2> QED
    BY <1>2, <2>1 DEF CloseCount, Holds, Closing, Found
<1>3. CASE ReadExpected(w)
  <2>1. request[w] \in ClosingRequest /\ w \in Closers
    BY <1>0, <1>3, ByDoing DEF ReadExpected, Closers
  <2>2. request'[w] = [request[w] EXCEPT !.doing = "compare", !.expected = inStock]
    BY <1>0, <1>3 DEF ReadExpected, TypeOK
  <2>3. /\ request'[w].doing = "compare" /\ request'[w].expected = inStock
        /\ request'[w].count = request[w].count
        /\ request'[w].stayed = request[w].stayed /\ request'[w].early = request[w].early
    BY <2>1, <2>2 DEF ClosingRequest
  <2>4. Holds(w) /\ UNCHANGED <<inStock, items>>
    BY <1>3, <2>1 DEF ReadExpected, ReadsHold
  <2> QED
    BY <2>3, <2>4 DEF Holds, Found
<1>4. CASE ReadScanned(w)
  <2>1. request[w] \in ClosingRequest /\ w \in Closers
    BY <1>0, <1>4, ByDoing DEF ReadScanned, Closers
  <2>2. request'[w] = [request[w] EXCEPT !.doing = "write",
                                         !.scanned = Found(request[w].count)]
    BY <1>0, <1>4 DEF ReadScanned, TypeOK
  <2>3. /\ request'[w].doing = "write" /\ request'[w].scanned = Found(request[w].count)
        /\ request'[w].count = request[w].count
        /\ request'[w].expected = request[w].expected
        /\ request'[w].stayed = request[w].stayed /\ request'[w].early = request[w].early
    BY <2>1, <2>2 DEF ClosingRequest
  <2>4. Holds(w) /\ UNCHANGED <<inStock, items>> /\ request[w].doing = "compare"
    BY <1>4, <2>1 DEF ReadScanned, ReadsHold
  <2> QED
    BY <2>3, <2>4 DEF Holds, Found
<1>5. ASSUME NEW t \in Tids, Leave(t)
      PROVE  Holds(w)'
  <2>1. w \in Closers /\ request[w] \in ClosingRequest
    BY <1>0, <1>5, ByDoing DEF Leave, Closers, TypeOK
  <2>2. request'[w] = [request[w] EXCEPT !.stayed = @ \ {t}]
    BY <1>0, <1>5, <2>1 DEF Leave
  <2>3. /\ request'[w].doing = request[w].doing /\ request'[w].count = request[w].count
        /\ request'[w].expected = request[w].expected
        /\ request'[w].scanned = request[w].scanned
        /\ request'[w].stayed = request[w].stayed \ {t}
        /\ request'[w].early = request[w].early
    BY <2>1, <2>2 DEF ClosingRequest
  <2>4. Holds(w) /\ inStock' = inStock \ {t} /\ UNCHANGED items
    BY <1>5, <2>1 DEF Leave, ReadsHold
  <2> QED
    BY <2>3, <2>4 DEF Holds, Found
\* A request that has just been answered is not closing, and no other is touched.
<1>6. ASSUME NEW v \in Workers,
             RecordScan(v) \/ WriteVariance(v) \/ (\E c \in Counts, t \in Tids : Scan(v, c, t))
      PROVE  Holds(w)'
  <2>1. request'[v].doing \in {"idle", "scan"}
    <3>1. CASE RecordScan(v) \/ WriteVariance(v)
      <4>1. request'[v] = Idle
        BY <3>1 DEF RecordScan, WriteVariance, TypeOK
      <4> QED
        BY <4>1 DEF Idle
    <3>2. ASSUME NEW c \in Counts, NEW t \in Tids, Scan(v, c, t)
          PROVE  request'[v].doing = "scan"
      BY <3>2 DEF Scan, TypeOK
    <3> QED
      BY <1>6, <3>1, <3>2
  <2>2. v # w
    BY <2>1 DEF Closers
  <2> QED
    BY <1>0, <1>1, <1>6, <2>2 DEF RecordScan, WriteVariance, Scan, TypeOK
<1>7. ASSUME NEW v \in Workers \ {w},
             ReadExpected(v) \/ ReadScanned(v) \/ (\E c \in Counts : CloseCount(v, c))
      PROVE  Holds(w)'
  BY <1>0, <1>1, <1>7 DEF ReadExpected, ReadScanned, CloseCount, TypeOK
<1>8. CASE (\E c \in Counts : StartCount(c)) \/ (\E t \in Tids : Enter(t)) \/ UNCHANGED vars
  BY <1>1, <1>8 DEF StartCount, Enter, vars
<1> QED
  BY <1>0, <1>2, <1>3, <1>4, <1>5, <1>6, <1>7, <1>8 DEF Next

\* Every step keeps the reports right: the one that writes a report by what the
\* request still holds, any other because what a report is compared with only grows.
LEMMA NextVarianceRight ==
  ASSUME TypeOK, ReadsHold, VarianceRight, [Next]_vars
  PROVE  VarianceRight'
<1>1. CASE UNCHANGED reports
  BY <1>1, ReportsKept
<1>2. ASSUME NEW w \in Workers, WriteVariance(w)
      PROVE  VarianceRight'
  <2> DEFINE q == request[w]
             new == [count |-> q.count, missing |-> Missing(q), unexpected |-> Unexpected(q),
                     stayed |-> q.stayed, early |-> q.early]
  <2>1. q \in ClosingRequest /\ Holds(w) /\ q.doing = "write"
    BY <1>2, ByDoing DEF WriteVariance, ReadsHold, Closers
  <2>2. Found(q.count) \subseteq {t \in Tids : items'[q.count][t] = "found"}
    BY <2>1, FoundGrows DEF ClosingRequest, Found
  <2>3. /\ new.stayed \subseteq new.missing \cup {t \in Tids : items'[new.count][t] = "found"}
        /\ new.stayed \cap new.unexpected = {}
        /\ new.early \cap new.missing = {}
    BY <2>1, <2>2 DEF Holds, Missing, Unexpected
  <2>4. ASSUME NEW r \in reports
        PROVE  /\ r.stayed \subseteq r.missing \cup Found(r.count)'
               /\ r.stayed \cap r.unexpected = {}
               /\ r.early \cap r.missing = {}
    <3>1. Found(r.count) \subseteq Found(r.count)'
      BY FoundGrows DEF TypeOK, Report
    <3> QED
      BY <3>1 DEF VarianceRight
  <2>5. reports' = reports \cup {new}
    BY <1>2 DEF WriteVariance
  <2> QED
    BY <2>3, <2>4, <2>5 DEF VarianceRight, Found
<1> QED
  BY <1>1, <1>2
  DEF Next, vars, StartCount, Scan, RecordScan, CloseCount, ReadExpected, ReadScanned,
      Enter, Leave

\* Whatever is scanned and whatever moves between the reads of close_count and its
\* writes: what stayed in stock is found or reported missing, never unexpected,
\* and what had been found when the closing began is not reported missing.
THEOREM VarianceIsRight == Spec => []VarianceRight
<1>1. Init => IInv
  BY InitTypeOK DEF Init, IInv, ReadsHold, Closers, Idle, VarianceRight
<1>2. IInv /\ [Next]_vars => IInv'
  BY NextTypeOK, NextReadsHold, NextVarianceRight DEF IInv
<1>3. IInv => VarianceRight
  BY DEF IInv
<1> QED
  BY <1>1, <1>2, <1>3, PTL DEF Spec

=============================================================================
