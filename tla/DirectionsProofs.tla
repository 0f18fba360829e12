--------------------------- MODULE DirectionsProofs ---------------------------
(***************************************************************************)
(* Reading events one after another, and fetching them: the lemmas about   *)
(* the recursive functions of Directions, which the proofs of Gate and of  *)
(* Pipeline rest on.                                                       *)
(***************************************************************************)
EXTENDS Directions, FiniteSetTheorems, SequenceTheorems, WellFoundedInduction, TLAPS

-----------------------------------------------------------------------------
(* Reading one event after another *)

Less == OpToRel(<, Nat)

\* A set of numbers that is not empty has a least one.
LEMMA LeastNatural ==
  ASSUME NEW S \in SUBSET Nat, S # {}
  PROVE  \E n \in S : \A m \in S : n <= m
<1>1. IsWellFoundedOn(Less, Nat)
  BY NatLessThanWellFounded DEF Less
<1>2. PICK n \in S : \A m \in S : <<m, n>> \notin Less
  BY <1>1, WFMin
<1>3. \A m \in S : ~ (m < n)
  BY <1>2 DEF Less, OpToRel
<1> QED
  BY <1>3

\* f holds the local variables of crossings_from_events after each of n events.
Reads(f, es, n) ==
  f = [i \in 0..n |-> IF i = 0 THEN NothingRead ELSE AfterEvent(f[i - 1], es[i])]

\* There is such an f for every number of events.
LEMMA ReadsExist ==
  ASSUME NEW es, NEW n \in Nat
  PROVE  \E f : Reads(f, es, n)
<1> DEFINE Unread == {m \in Nat : ~ \E f : Reads(f, es, m)}
<1> SUFFICES ASSUME Unread # {} PROVE FALSE
  OBVIOUS
<1>1. PICK m \in Unread : \A k \in Unread : m <= k
  BY LeastNatural
<1>2. CASE m = 0
  <2>1. Reads([i \in 0..m |-> NothingRead], es, m)
    BY <1>2 DEF Reads
  <2> QED
    BY <1>1, <2>1
<1>3. CASE m # 0
  <2>1. m - 1 \in Nat /\ m - 1 \notin Unread
    BY <1>1, <1>3
  <2>2. PICK f : Reads(f, es, m - 1)
    BY <2>1
  <2> DEFINE g == [i \in 0..m |-> IF i = m THEN AfterEvent(f[m - 1], es[m]) ELSE f[i]]
  <2>3. \A i \in 0..(m - 1) :
          f[i] = IF i = 0 THEN NothingRead ELSE AfterEvent(f[i - 1], es[i])
    BY <2>2 DEF Reads
  <2>4. ASSUME NEW i \in 0..m
        PROVE  g[i] = IF i = 0 THEN NothingRead ELSE AfterEvent(g[i - 1], es[i])
    <3>1. CASE i = m
      BY <1>3, <2>1, <3>1
    <3>2. CASE i # m
      BY <1>3, <2>1, <2>3, <3>2
    <3> QED
      BY <3>1, <3>2
  <2>5. Reads(g, es, m)
    BY <2>4 DEF Reads
  <2> QED
    BY <1>1, <2>5
<1> QED
  BY <1>2, <1>3

\* What has been read is a matter of the events before it.
LEMMA ReadsAgree ==
  ASSUME NEW n \in Nat, NEW es, NEW fs, \A i \in 1..n : es[i] = fs[i],
         NEW f, Reads(f, es, n), NEW g, Reads(g, fs, n + 1)
  PROVE  f[n] = g[n]
<1> DEFINE Apart == {i \in 0..n : f[i] # g[i]}
<1> SUFFICES ASSUME Apart # {} PROVE FALSE
  OBVIOUS
<1>0. Apart \in SUBSET Nat
  OBVIOUS
<1>1. PICK i \in Apart : \A j \in Apart : i <= j
  <2> HIDE DEF Apart
  <2> QED
    BY <1>0, LeastNatural
<1>2. /\ f[i] = IF i = 0 THEN NothingRead ELSE AfterEvent(f[i - 1], es[i])
      /\ g[i] = IF i = 0 THEN NothingRead ELSE AfterEvent(g[i - 1], fs[i])
  BY DEF Reads
<1>3. i # 0 => f[i - 1] = g[i - 1] /\ es[i] = fs[i]
  BY <1>1
<1> QED
  BY <1>2, <1>3

\* AfterEvents is the last of them.
LEMMA AfterReads ==
  ASSUME NEW es, Len(es) \in Nat
  PROVE  \E f : Reads(f, es, Len(es)) /\ AfterEvents(es) = f[Len(es)]
<1> DEFINE f == CHOOSE f : Reads(f, es, Len(es))
<1>1. Reads(f, es, Len(es))
  BY ReadsExist
<1>2. AfterEvents(es) = f[Len(es)]
  BY DEF AfterEvents, Reads
<1> QED
  BY <1>1, <1>2

\* Before the first event nothing has been read.
LEMMA AfterNone == AfterEvents(<<>>) = NothingRead
<1>1. PICK f : Reads(f, <<>>, 0) /\ AfterEvents(<<>>) = f[0]
  BY AfterReads
<1> QED
  BY <1>1 DEF Reads

\* One more event is read in the state that the others have left.
LEMMA AfterAppend ==
  ASSUME NEW S, NEW es \in Seq(S), NEW e \in S
  PROVE  AfterEvents(Append(es, e)) = AfterEvent(AfterEvents(es), e)
<1> DEFINE n == Len(es)
           fs == Append(es, e)
<1>1. n \in Nat /\ Len(fs) = n + 1 /\ fs[n + 1] = e /\ \A i \in 1..n : es[i] = fs[i]
  OBVIOUS
<1> HIDE DEF n, fs
<1>2. PICK f : Reads(f, es, n) /\ AfterEvents(es) = f[n]
  BY <1>1, AfterReads DEF n
<1>3. PICK g : Reads(g, fs, n + 1) /\ AfterEvents(fs) = g[n + 1]
  BY <1>1, AfterReads
<1>4. f[n] = g[n]
  BY <1>1, <1>2, <1>3, ReadsAgree
<1>5. g[n + 1] = AfterEvent(g[n], fs[n + 1])
  BY <1>1, <1>3 DEF Reads
<1> QED
  BY <1>1, <1>2, <1>3, <1>4, <1>5 DEF fs

-----------------------------------------------------------------------------
(* Fetching the events of a window *)

\* f holds the rows that are fetched of the first n events, for each n.
Fetches(f, es, from, to, n) ==
  f = [i \in 0..n |->
         IF i = 0 THEN <<>>
         ELSE IF es[i].at \in from..to THEN Insert(f[i - 1], es[i]) ELSE f[i - 1]]

\* There is such an f for every number of events.
LEMMA FetchesExist ==
  ASSUME NEW es, NEW from, NEW to, NEW n \in Nat
  PROVE  \E f : Fetches(f, es, from, to, n)
<1> DEFINE Unread == {m \in Nat : ~ \E f : Fetches(f, es, from, to, m)}
<1> SUFFICES ASSUME Unread # {} PROVE FALSE
  OBVIOUS
<1>1. PICK m \in Unread : \A k \in Unread : m <= k
  BY LeastNatural
<1>2. CASE m = 0
  <2>1. Fetches([i \in 0..m |-> <<>>], es, from, to, m)
    BY <1>2 DEF Fetches
  <2> QED
    BY <1>1, <2>1
<1>3. CASE m # 0
  <2>1. m - 1 \in Nat /\ m - 1 \notin Unread
    BY <1>1, <1>3
  <2>2. PICK f : Fetches(f, es, from, to, m - 1)
    BY <2>1
  <2> DEFINE Then(h, i) == IF es[i].at \in from..to THEN Insert(h[i - 1], es[i]) ELSE h[i - 1]
             g == [i \in 0..m |-> IF i = m THEN Then(f, m) ELSE f[i]]
  <2>3. \A i \in 0..(m - 1) : f[i] = IF i = 0 THEN <<>> ELSE Then(f, i)
    BY <2>2 DEF Fetches
  <2>4. ASSUME NEW i \in 0..m
        PROVE  g[i] = IF i = 0 THEN <<>> ELSE Then(g, i)
    <3>1. CASE i = m
      BY <1>3, <2>1, <3>1
    <3>2. CASE i # m
      BY <1>3, <2>1, <2>3, <3>2
    <3> QED
      BY <3>1, <3>2
  <2>5. Fetches(g, es, from, to, m)
    BY <2>4 DEF Fetches
  <2> QED
    BY <1>1, <2>5
<1> QED
  BY <1>2, <1>3

\* What is fetched of the first events does not depend on the others.
LEMMA FetchesAgree ==
  ASSUME NEW n \in Nat, NEW es, NEW fs, \A i \in 1..n : es[i] = fs[i], NEW from, NEW to,
         NEW f, Fetches(f, es, from, to, n), NEW g, Fetches(g, fs, from, to, n + 1)
  PROVE  f[n] = g[n]
<1> DEFINE Apart == {i \in 0..n : f[i] # g[i]}
           Then(h, e, i) == IF e.at \in from..to THEN Insert(h[i - 1], e) ELSE h[i - 1]
<1> SUFFICES ASSUME Apart # {} PROVE FALSE
  OBVIOUS
<1>0. Apart \in SUBSET Nat
  OBVIOUS
<1>1. PICK i \in Apart : \A j \in Apart : i <= j
  <2> HIDE DEF Apart
  <2> QED
    BY <1>0, LeastNatural
<1>2. /\ f[i] = IF i = 0 THEN <<>> ELSE Then(f, es[i], i)
      /\ g[i] = IF i = 0 THEN <<>> ELSE Then(g, fs[i], i)
  BY DEF Fetches
<1>3. i # 0 => f[i - 1] = g[i - 1] /\ es[i] = fs[i]
  BY <1>1
<1> QED
  BY <1>2, <1>3

\* FetchGateEvents is what is fetched of all of them.
LEMMA FetchedRows ==
  ASSUME NEW es, NEW from, NEW to, Len(es) \in Nat
  PROVE  \E f : Fetches(f, es, from, to, Len(es)) /\ FetchGateEvents(es, from, to) = f[Len(es)]
<1> DEFINE f == CHOOSE f : Fetches(f, es, from, to, Len(es))
<1>1. Fetches(f, es, from, to, Len(es))
  BY FetchesExist
<1>2. FetchGateEvents(es, from, to) = f[Len(es)]
  BY DEF FetchGateEvents, Fetches
<1> QED
  BY <1>1, <1>2

\* Of no events none are fetched.
LEMMA FetchNone ==
  ASSUME NEW from, NEW to
  PROVE  FetchGateEvents(<<>>, from, to) = <<>>
<1>1. PICK f : Fetches(f, <<>>, from, to, 0) /\ FetchGateEvents(<<>>, from, to) = f[0]
  BY FetchedRows
<1> QED
  BY <1>1 DEF Fetches

\* One more event is put between the rows of the others, if it is in the window.
LEMMA FetchAppend ==
  ASSUME NEW S, NEW es \in Seq(S), NEW e \in S, NEW from, NEW to
  PROVE  FetchGateEvents(Append(es, e), from, to) =
           IF e.at \in from..to THEN Insert(FetchGateEvents(es, from, to), e)
                                ELSE FetchGateEvents(es, from, to)
<1> DEFINE n == Len(es)
           fs == Append(es, e)
<1>1. n \in Nat /\ Len(fs) = n + 1 /\ fs[n + 1] = e /\ \A i \in 1..n : es[i] = fs[i]
  OBVIOUS
<1> HIDE DEF n, fs
<1>2. PICK f : Fetches(f, es, from, to, n) /\ FetchGateEvents(es, from, to) = f[n]
  BY <1>1, FetchedRows DEF n
<1>3. PICK g : Fetches(g, fs, from, to, n + 1) /\ FetchGateEvents(fs, from, to) = g[n + 1]
  <2>1. Len(fs) \in Nat
    BY <1>1
  <2> QED
    BY <1>1, <2>1, FetchedRows
<1>4. f[n] = g[n]
  BY <1>1, <1>2, <1>3, FetchesAgree
<1>5. g[n + 1] = IF fs[n + 1].at \in from..to THEN Insert(g[n], fs[n + 1]) ELSE g[n]
  BY <1>1, <1>3 DEF Fetches
<1> QED
  BY <1>1, <1>2, <1>3, <1>4, <1>5 DEF fs

\* A row that none is later than comes last.
LEMMA InsertLast ==
  ASSUME NEW S, NEW rows \in Seq(S), NEW e \in S, \A i \in 1..Len(rows) : rows[i].at <= e.at
  PROVE  Insert(rows, e) = Append(rows, e)
<1> DEFINE n == Len(rows)
<1>1. n \in Nat /\ DOMAIN rows = 1..n
  OBVIOUS
<1>2. {i \in DOMAIN rows : rows[i].at <= e.at} = 1..n
  BY <1>1
<1>3. Cardinality(1..n) = n
  <2>1. 1 \in Int /\ n \in Int
    BY <1>1
  <2> HIDE DEF n
  <2>2. Cardinality(1..n) = IF 1 > n THEN 0 ELSE n - 1 + 1
    BY <2>1, FS_Interval, Zenon
  <2> QED
    BY <1>1, <2>2
<1>4. InsertAt(rows, n + 1, e) = Append(rows, e)
  <2>1. SubSeq(rows, 1, n) = rows /\ SubSeq(rows, n + 1, n) = <<>>
    OBVIOUS
  <2>2. InsertAt(rows, n + 1, e) = SubSeq(rows, 1, n) \o <<e>> \o SubSeq(rows, n + 1, n)
    BY <1>1 DEF InsertAt
  <2> QED
    BY <1>1, <2>1, <2>2
<1> QED
  BY <1>2, <1>3, <1>4 DEF Insert

\* Events with their stamps.
Stamped(E) == \A x \in E : x.at \in Int

\* A row is put behind those that are as early, and before the others.
LEMMA InsertPlace ==
  ASSUME NEW E, Stamped(E), NEW rows \in Seq(E), NEW e \in E,
         \A i, j \in 1..Len(rows) : i < j => rows[i].at <= rows[j].at
  PROVE  \E c \in 0..Len(rows) :
           /\ Insert(rows, e) \in Seq(E) /\ Len(Insert(rows, e)) = Len(rows) + 1
           /\ \A i \in 1..Len(rows) : rows[i].at <= e.at <=> i <= c
           /\ \A i \in 1..(Len(rows) + 1) :
                Insert(rows, e)[i] = IF i <= c THEN rows[i]
                                     ELSE IF i = c + 1 THEN e ELSE rows[i - 1]
<1> DEFINE C == {i \in DOMAIN rows : rows[i].at <= e.at}
           D == {i \in 1..(Len(rows) + 1) : i \notin C}
<1>1. PICK n \in Nat : Len(rows) = n /\ DOMAIN rows = 1..n
  OBVIOUS
<1>2. PICK d \in D : \A i \in D : d <= i
  <2>1. D \in SUBSET Nat /\ n + 1 \in D
    BY <1>1
  <2> HIDE DEF D
  <2> QED
    BY <2>1, LeastNatural
<1>3. PICK c \in 0..n : d = c + 1
  BY <1>1, <1>2
<1>4. C = 1..c
  <2>1. ASSUME NEW i \in 1..c PROVE i \in C
    BY <1>1, <1>2, <1>3, <2>1
  <2>2. ASSUME NEW i \in C PROVE i \in 1..c
    <3>1. i \in 1..n /\ rows[i].at <= e.at /\ rows[i].at \in Int /\ e.at \in Int
      BY <1>1 DEF Stamped
    <3>2. CASE i > c
      <4>1. c + 1 \in 1..n /\ c + 1 \notin C
        BY <1>1, <1>2, <1>3, <3>1, <3>2
      <4>2. rows[c + 1].at <= rows[i].at /\ rows[c + 1].at \in Int
        BY <1>1, <1>3, <3>1, <3>2, <4>1 DEF Stamped
      <4> QED
        BY <1>1, <3>1, <4>1, <4>2
    <3> QED
      BY <3>1, <3>2
  <2> QED
    BY <2>1, <2>2
<1>5. Cardinality(C) = c
  <2>1. Cardinality(1..c) = IF 1 > c THEN 0 ELSE c - 1 + 1
    <3>1. 1 \in Int /\ c \in Int
      OBVIOUS
    <3> QED
      BY <3>1, FS_Interval, Zenon
  <2> QED
    <3> HIDE DEF C
    <3> QED
      BY <1>1, <1>3, <1>4, <2>1
<1>6. Insert(rows, e) = SubSeq(rows, 1, c) \o <<e>> \o SubSeq(rows, c + 1, n)
  <2>1. Insert(rows, e) = InsertAt(rows, c + 1, e)
    BY <1>5 DEF Insert
  <2>2. (c + 1) - 1 = c
    BY <1>1, <1>3
  <2> HIDE DEF C, D
  <2> QED
    BY <1>1, <2>1, <2>2 DEF InsertAt
<1> DEFINE a == SubSeq(rows, 1, c)
           b == SubSeq(rows, c + 1, n)
<1>7. /\ a \in Seq(E) /\ Len(a) = c /\ \A i \in 1..c : a[i] = rows[i]
      /\ b \in Seq(E) /\ Len(b) = n - c /\ \A i \in 1..(n - c) : b[i] = rows[c + i]
  BY <1>1, <1>3
<1> HIDE DEF a, b, C, D
<1>8. /\ a \o <<e>> \in Seq(E) /\ Len(a \o <<e>>) = c + 1
      /\ \A i \in 1..c : (a \o <<e>>)[i] = rows[i]
      /\ (a \o <<e>>)[c + 1] = e
  BY <1>1, <1>3, <1>7
<1> DEFINE ae == a \o <<e>>
<1> HIDE DEF ae
<1>9. /\ ae \o b \in Seq(E) /\ Len(ae \o b) = n + 1
      /\ \A i \in 1..(c + 1) : (ae \o b)[i] = ae[i]
      /\ \A i \in (c + 2)..(n + 1) : (ae \o b)[i] = b[i - (c + 1)]
  <2>1. ae \in Seq(E) /\ Len(ae) = c + 1 /\ c + 1 \in Nat /\ n - c \in Nat
    BY <1>1, <1>3, <1>8 DEF ae
  <2>2. /\ ae \o b \in Seq(E) /\ Len(ae \o b) = Len(ae) + Len(b)
        /\ \A i \in 1..(Len(ae) + Len(b)) :
             (ae \o b)[i] = IF i <= Len(ae) THEN ae[i] ELSE b[i - Len(ae)]
    BY <1>7, <2>1, ConcatProperties, ZenonT(30)
  <2>3. Len(ae) + Len(b) = n + 1
    BY <1>1, <1>3, <1>7, <2>1
  <2>4. ASSUME NEW i \in 1..(n + 1)
        PROVE  /\ i <= c + 1 => (ae \o b)[i] = ae[i]
               /\ i >= c + 2 => (ae \o b)[i] = b[i - (c + 1)]
    BY <1>3, <2>1, <2>2, <2>3
  <2> QED
    BY <1>1, <1>3, <2>2, <2>3, <2>4
<1>10. \A i \in 1..(n + 1) :
         (ae \o b)[i] = IF i <= c THEN rows[i] ELSE IF i = c + 1 THEN e ELSE rows[i - 1]
  <2> SUFFICES ASSUME NEW i \in 1..(n + 1)
               PROVE  (ae \o b)[i] = IF i <= c THEN rows[i]
                                     ELSE IF i = c + 1 THEN e ELSE rows[i - 1]
    OBVIOUS
  <2>1. CASE i <= c
    BY <1>1, <1>3, <1>8, <1>9, <2>1 DEF ae
  <2>2. CASE i = c + 1
    BY <1>1, <1>3, <1>8, <1>9, <2>2 DEF ae
  <2>3. CASE i > c + 1
    <3>1. i \in (c + 2)..(n + 1) /\ i - (c + 1) \in 1..(n - c) /\ c + (i - (c + 1)) = i - 1
      BY <1>1, <1>3, <2>3
    <3> QED
      BY <1>1, <1>3, <1>7, <1>9, <2>3, <3>1, SMTT(30)
  <2>4. i <= c \/ i = c + 1 \/ i > c + 1
    BY <1>1, <1>3
  <2> DEFINE all == ae \o b
  <2> HIDE DEF all
  <2> QED
    BY <1>3, <2>1, <2>2, <2>3, <2>4 DEF all
<1>11. \A i \in 1..n : rows[i].at <= e.at <=> i <= c
  BY <1>1, <1>3, <1>4 DEF C
<1> QED
  BY <1>1, <1>6, <1>9, <1>10, <1>11, ZenonT(30) DEF ae, a, b

\* ids numbers the rows that are fetched of the first n events: those of the window, by
\* their stamps, and by their ids where these are equal.
Sorts(ids, rows, es, n, from, to) ==
  /\ ids \in Seq(1..n) /\ Len(ids) = Len(rows)
  /\ \A j \in 1..Len(rows) : rows[j] = es[ids[j]] /\ es[ids[j]].at \in from..to
  /\ \A m \in 1..n : es[m].at \in from..to => \E j \in 1..Len(rows) : ids[j] = m
  /\ \A j, k \in 1..Len(rows) : j < k =>
       es[ids[j]].at < es[ids[k]].at \/ (es[ids[j]].at = es[ids[k]].at /\ ids[j] < ids[k])

\* One more event.
LEMMA InsertSorts ==
  ASSUME NEW E, Stamped(E), NEW es \in Seq(E), NEW from \in Int, NEW to \in Int,
         NEW n \in 1..Len(es), es[n].at \in from..to,
         NEW rows \in Seq(E), NEW ids, Sorts(ids, rows, es, n - 1, from, to)
  PROVE  /\ Insert(rows, es[n]) \in Seq(E)
         /\ \E with : Sorts(with, Insert(rows, es[n]), es, n, from, to)
<1> DEFINE e == es[n]
           out == Insert(rows, e)
           First(a, b) == es[a].at < es[b].at \/ (es[a].at = es[b].at /\ a < b)
<1>1. PICK len \in Nat : Len(rows) = len /\ Len(ids) = len
  BY DEF Sorts
<1>0. n \in Nat /\ n >= 1 /\ n <= Len(es) /\ Len(es) \in Nat /\ DOMAIN es = 1..Len(es)
  OBVIOUS
<1>2. /\ ids \in Seq(1..(n - 1)) /\ \A j \in 1..len : ids[j] \in 1..(n - 1)
      /\ \A j \in 1..len : rows[j] = es[ids[j]] /\ es[ids[j]].at \in from..to
      /\ \A m \in 1..(n - 1) : es[m].at \in from..to => \E j \in 1..len : ids[j] = m
      /\ \A j, k \in 1..len : j < k => First(ids[j], ids[k])
  BY <1>1 DEF Sorts
<1>3. e \in E /\ e.at \in Int /\ \A j \in 1..len : rows[j].at \in Int
  BY <1>0, <1>1 DEF Stamped
<1>4. \A j, k \in 1..Len(rows) : j < k => rows[j].at <= rows[k].at
  <2> SUFFICES ASSUME NEW j \in 1..len, NEW k \in 1..len, j < k
               PROVE  rows[j].at <= rows[k].at
    BY <1>1
  <2>1. First(ids[j], ids[k]) /\ rows[j] = es[ids[j]] /\ rows[k] = es[ids[k]]
    BY <1>2
  <2> QED
    BY <1>3, <2>1, SMTT(30)
<1>5. PICK c \in 0..len :
        /\ out \in Seq(E) /\ Len(out) = len + 1
        /\ \A i \in 1..len : rows[i].at <= e.at <=> i <= c
        /\ \A i \in 1..(len + 1) :
             out[i] = IF i <= c THEN rows[i] ELSE IF i = c + 1 THEN e ELSE rows[i - 1]
  <2> HIDE DEF e
  <2>1. \E c \in 0..Len(rows) :
          /\ out \in Seq(E) /\ Len(out) = Len(rows) + 1
          /\ \A i \in 1..Len(rows) : rows[i].at <= e.at <=> i <= c
          /\ \A i \in 1..(Len(rows) + 1) :
               out[i] = IF i <= c THEN rows[i] ELSE IF i = c + 1 THEN e ELSE rows[i - 1]
    <3>1. e \in E
      BY <1>3
    <3> QED
      BY <1>4, <3>1, InsertPlace, ZenonT(60)
  <2> HIDE DEF out
  <2> QED
    BY <1>1, <2>1
<1>12. c \in Nat /\ c <= len
  BY <1>1, <1>5
<1> DEFINE with == [i \in 1..(len + 1) |-> IF i <= c THEN ids[i]
                                           ELSE IF i = c + 1 THEN n ELSE ids[i - 1]]
<1>6. with \in Seq(1..n) /\ Len(with) = len + 1
  <2>1. \A i \in 1..(len + 1) : with[i] \in 1..n
    BY <1>0, <1>1, <1>2, <1>12
  <2> HIDE DEF with
  <2>2. with \in [1..(len + 1) -> 1..n]
    BY <2>1 DEF with
  <2> QED
    BY <1>1, <2>2
<1>7. \A i \in 1..(len + 1) : with[i] = IF i <= c THEN ids[i]
                                        ELSE IF i = c + 1 THEN n ELSE ids[i - 1]
  OBVIOUS
<1> HIDE DEF with, out
<1>8. \A i \in 1..(len + 1) : out[i] = es[with[i]] /\ es[with[i]].at \in from..to
  <2> SUFFICES ASSUME NEW i \in 1..(len + 1)
               PROVE  out[i] = es[with[i]] /\ es[with[i]].at \in from..to
    OBVIOUS
  <2>1. CASE i <= c
    <3>1. i \in 1..len /\ out[i] = rows[i] /\ with[i] = ids[i]
      BY <1>1, <1>5, <1>7, <1>12, <2>1
    <3> QED
      BY <1>2, <3>1
  <2>2. CASE i = c + 1
    BY <1>1, <1>5, <1>7, <1>12, <2>2 DEF e
  <2>3. CASE i > c + 1
    <3>1. i - 1 \in 1..len /\ out[i] = rows[i - 1] /\ with[i] = ids[i - 1]
      BY <1>1, <1>5, <1>7, <1>12, <2>3
    <3> QED
      BY <1>2, <3>1
  <2> QED
    BY <1>1, <1>12, <2>1, <2>2, <2>3
<1>9. ASSUME NEW m \in 1..n, es[m].at \in from..to
      PROVE  \E j \in 1..(len + 1) : with[j] = m
  <2>1. CASE m = n
    <3>1. c + 1 \in 1..(len + 1) /\ with[c + 1] = n
      BY <1>1, <1>7, <1>12
    <3> QED
      BY <2>1, <3>1
  <2>2. CASE m \in 1..(n - 1)
    <3>1. PICK j \in 1..len : ids[j] = m
      BY <1>2, <1>9, <2>2
    <3>2. CASE j <= c
      BY <1>1, <1>7, <1>12, <3>1, <3>2, SMTT(30)
    <3>3. CASE j > c
      <4>1. j + 1 \in 1..(len + 1) /\ with[j + 1] = ids[j]
        BY <1>1, <1>7, <1>12, <3>1, <3>3
      <4> QED
        BY <3>1, <4>1
    <3> QED
      BY <3>2, <3>3
  <2> QED
    BY <1>0, <2>1, <2>2, SMTT(30)
<1>10. ASSUME NEW j \in 1..(len + 1), NEW k \in 1..(len + 1), j < k
       PROVE  First(with[j], with[k])
  <2> HIDE DEF First, e
  <2>1. CASE k <= c
    <3>1. j \in 1..len /\ k \in 1..len /\ with[j] = ids[j] /\ with[k] = ids[k]
      BY <1>1, <1>7, <1>12, <1>10, <2>1
    <3> QED
      BY <1>2, <1>10, <3>1
  <2>2. CASE k = c + 1
    <3>1. with[k] = n /\ j \in 1..len /\ with[j] = ids[j] /\ j <= c
      BY <1>1, <1>7, <1>12, <1>10, <2>2
    <3>2. rows[j].at <= e.at /\ rows[j] = es[ids[j]] /\ ids[j] \in 1..(n - 1) /\ rows[j].at \in Int
      BY <1>1, <1>2, <1>3, <1>5, <1>12, <3>1
    <3> QED
      BY <1>0, <1>3, <3>1, <3>2 DEF e, First
  <2>3. CASE k > c + 1 /\ j = c + 1
    <3>1. with[j] = n /\ k - 1 \in 1..len /\ with[k] = ids[k - 1] /\ ~ (k - 1 <= c)
      BY <1>1, <1>7, <1>12, <1>10, <2>3
    <3>2. ~ (rows[k - 1].at <= e.at) /\ rows[k - 1] = es[ids[k - 1]] /\ rows[k - 1].at \in Int
      BY <1>1, <1>2, <1>3, <1>5, <1>12, <3>1
    <3> QED
      BY <1>0, <1>3, <3>1, <3>2 DEF e, First
  <2>4. CASE k > c + 1 /\ j <= c
    <3>1. j \in 1..len /\ k - 1 \in 1..len /\ j < k - 1
          /\ with[j] = ids[j] /\ with[k] = ids[k - 1]
      BY <1>1, <1>7, <1>12, <1>10, <2>4
    <3> QED
      BY <1>2, <3>1
  <2>5. CASE k > c + 1 /\ j > c + 1
    <3>1. j - 1 \in 1..len /\ k - 1 \in 1..len /\ j - 1 < k - 1
      BY <1>1, <1>12, <1>10, <2>5
    <3>2. with[j] = ids[j - 1] /\ with[k] = ids[k - 1]
      BY <1>1, <1>7, <1>12, <2>5
    <3> QED
      BY <1>2, <3>1, <3>2
  <2> QED
    BY <1>1, <1>12, <1>10, <2>1, <2>2, <2>3, <2>4, <2>5
<1>11. Sorts(with, out, es, n, from, to)
  BY <1>5, <1>6, <1>8, <1>9, <1>10 DEF Sorts
<1> QED
  BY <1>5, <1>11 DEF out

\* What is fetched are the events of the window in order.
LEMMA FetchSorts ==
  ASSUME NEW E, Stamped(E), NEW es \in Seq(E), NEW from \in Int, NEW to \in Int
  PROVE  /\ FetchGateEvents(es, from, to) \in Seq(E)
         /\ \E ids : Sorts(ids, FetchGateEvents(es, from, to), es, Len(es), from, to)
<1>0. PICK len \in Nat : len = Len(es)
  OBVIOUS
<1>1. PICK f : Fetches(f, es, from, to, len) /\ FetchGateEvents(es, from, to) = f[len]
  BY <1>0, FetchedRows
<1> DEFINE OK(n) == f[n] \in Seq(E) /\ \E ids : Sorts(ids, f[n], es, n, from, to)
           Bad == {n \in 0..len : ~ OK(n)}
<1>2. \A n \in 0..len :
        f[n] = IF n = 0 THEN <<>>
               ELSE IF es[n].at \in from..to THEN Insert(f[n - 1], es[n]) ELSE f[n - 1]
  BY <1>1 DEF Fetches
<1>3. OK(0)
  <2>1. f[0] = <<>>
    BY <1>2
  <2>2. Sorts(<<>>, <<>>, es, 0, from, to)
    BY DEF Sorts
  <2> QED
    BY <2>1, <2>2
<1>4. ASSUME NEW n \in 1..len, OK(n - 1) PROVE OK(n)
  <2>1. PICK ids : Sorts(ids, f[n - 1], es, n - 1, from, to)
    BY <1>4
  <2>2. CASE es[n].at \in from..to
    <3>1. f[n] = Insert(f[n - 1], es[n])
      BY <1>2, <2>2
    <3>2. n \in 1..Len(es) /\ f[n - 1] \in Seq(E)
      BY <1>0, <1>4
    <3>3. /\ Insert(f[n - 1], es[n]) \in Seq(E)
          /\ \E with : Sorts(with, Insert(f[n - 1], es[n]), es, n, from, to)
      <4> HIDE DEF OK
      <4> QED
        BY <2>1, <2>2, <3>2, InsertSorts
    <3> QED
      BY <3>1, <3>3
  <2>3. CASE es[n].at \notin from..to
    <3>1. f[n] = f[n - 1]
      BY <1>2, <2>3
    <3>2. Sorts(ids, f[n - 1], es, n, from, to)
      <4>1. ids \in Seq(1..n)
        <5>1. ids \in Seq(1..(n - 1)) /\ 1..(n - 1) \subseteq 1..n
          BY <2>1 DEF Sorts
        <5> QED
          BY <5>1
      <4>2. \A m \in 1..n : es[m].at \in from..to => m \in 1..(n - 1)
        BY <2>3
      <4> QED
        BY <2>1, <4>1, <4>2 DEF Sorts
    <3> QED
      BY <1>4, <3>1, <3>2
  <2> QED
    BY <2>2, <2>3
<1> HIDE DEF OK
<1>5. Bad = {}
  <2> SUFFICES ASSUME Bad # {} PROVE FALSE
    OBVIOUS
  <2>1. PICK n \in Bad : \A m \in Bad : n <= m
    <3>1. Bad \in SUBSET Nat
      OBVIOUS
    <3> HIDE DEF Bad
    <3> QED
      BY <3>1, LeastNatural
  <2>2. n # 0 /\ n \in 1..len /\ n - 1 \in 0..len /\ n - 1 \notin Bad
    BY <1>3, <2>1
  <2> QED
    BY <1>4, <2>1, <2>2
<1>6. OK(len)
  BY <1>5
<1> QED
  BY <1>0, <1>1, <1>6 DEF OK

-----------------------------------------------------------------------------
(* The reader of any events *)

IsBeamEvent(e) ==
  e.beam \in {"INNER", "OUTER"} /\ e.state \in {"BROKEN", "CLEAR"} /\ e.at \in Nat

AnyOpening == [first : {"INNER", "OUTER"}, started : Nat, direction : {"IN", "OUT", None}]

AnyCrossing == [direction : {"IN", "OUT", None}, started : Nat, ended : Nat]

\* A crossing is open as long as a beam is broken.
IsReader(acc) ==
  /\ acc \in [broken : SUBSET {"INNER", "OUTER"}, open : AnyOpening \cup {NoCrossing},
              crossings : Seq(AnyCrossing)]
  /\ acc.broken = {} <=> acc.open = NoCrossing

\* No opening is NoCrossing.
LEMMA AnyOpeningDiffers == NoCrossing \notin AnyOpening
BY DEF NoCrossing, AnyOpening, None

\* What a BROKEN makes of it.
LEMMA BrokenIsRead ==
  ASSUME NEW acc, IsReader(acc), NEW e, IsBeamEvent(e), e.state = "BROKEN"
  PROVE  LET after == AfterEvent(acc, e)
         IN  /\ IsReader(after) /\ after.broken = acc.broken \cup {e.beam}
             /\ after.crossings = acc.crossings
             /\ after.open = IF acc.broken = {} THEN Start(e)
                             ELSE IF Confirms(acc.open, e)
                                  THEN [acc.open EXCEPT !.direction =
                                          FirstBeamDirection[acc.open.first]]
                                  ELSE acc.open
<1> DEFINE open == IF acc.broken = {} THEN Start(e)
                   ELSE IF Confirms(acc.open, e)
                        THEN [acc.open EXCEPT !.direction = FirstBeamDirection[acc.open.first]]
                        ELSE acc.open
           after == [broken |-> acc.broken \cup {e.beam}, open |-> open,
                     crossings |-> acc.crossings]
<1>1. AfterEvent(acc, e) = after
  BY DEF AfterEvent, BeamBreaks, IsReader
<1>2. open \in AnyOpening
  <2>1. CASE acc.broken = {}
    BY <2>1 DEF Start, IsBeamEvent, AnyOpening
  <2>2. CASE acc.broken # {}
    <3>1. acc.open \in AnyOpening
      BY <2>2 DEF IsReader
    <3>2. FirstBeamDirection[acc.open.first] \in {"IN", "OUT"}
      BY <3>1 DEF FirstBeamDirection, AnyOpening
    <3> QED
      BY <2>2, <3>1, <3>2 DEF AnyOpening
  <2> QED
    BY <2>1, <2>2
<1>3. e.beam \in {"INNER", "OUTER"}
  BY DEF IsBeamEvent
<1> HIDE DEF open
<1>4. IsReader(after)
  BY <1>2, <1>3, AnyOpeningDiffers DEF IsReader
<1> QED
  BY <1>1, <1>4 DEF open

\* And a CLEAR.
LEMMA ClearIsRead ==
  ASSUME NEW acc, IsReader(acc), NEW e, IsBeamEvent(e), e.state = "CLEAR"
  PROVE  LET after == AfterEvent(acc, e)
         IN  /\ IsReader(after) /\ after.broken = acc.broken \ {e.beam}
             /\ after.broken = {} /\ acc.broken # {} =>
                  after.crossings =
                    Append(acc.crossings, [direction |-> acc.open.direction,
                                           started |-> acc.open.started, ended |-> e.at])
             /\ ~ (after.broken = {} /\ acc.broken # {}) =>
                  after.open = acc.open /\ after.crossings = acc.crossings
<1> DEFINE broken == acc.broken \ {e.beam}
           closes == broken = {} /\ acc.broken # {}
           crossing == [direction |-> acc.open.direction,
                        started |-> acc.open.started, ended |-> e.at]
           after == [broken |-> broken, open |-> IF closes THEN NoCrossing ELSE acc.open,
                     crossings |-> IF closes THEN Append(acc.crossings, crossing)
                                             ELSE acc.crossings]
<1>1. (acc.broken # {}) = (acc.open # NoCrossing)
  BY DEF IsReader
<1>2. AfterEvent(acc, e) = after
  BY <1>1 DEF AfterEvent, BeamClears
<1>3. closes => crossing \in AnyCrossing
  <2> SUFFICES ASSUME closes PROVE crossing \in AnyCrossing
    OBVIOUS
  <2>1. acc.open \in AnyOpening
    BY DEF IsReader
  <2> QED
    BY <2>1 DEF AnyOpening, AnyCrossing, IsBeamEvent
<1>4. /\ acc.broken \in SUBSET {"INNER", "OUTER"} /\ acc.open \in AnyOpening \cup {NoCrossing}
      /\ acc.crossings \in Seq(AnyCrossing) /\ (acc.broken = {} <=> acc.open = NoCrossing)
  BY DEF IsReader
<1> HIDE DEF crossing
<1>5. CASE closes
  <2>1. Append(acc.crossings, crossing) \in Seq(AnyCrossing)
    BY <1>3, <1>4, <1>5
  <2> QED
    BY <1>2, <1>4, <1>5, <2>1 DEF crossing, IsReader
<1>6. CASE ~ closes
  BY <1>2, <1>4, <1>6 DEF crossing, IsReader
<1> QED
  BY <1>5, <1>6

\* So it is after each of any events.
LEMMA EventsAreRead ==
  ASSUME NEW es, NEW len \in Nat, Len(es) = len, \A n \in 1..len : IsBeamEvent(es[n])
  PROVE  \E f : /\ AfterEvents(es) = f[len] /\ f[0] = NothingRead
                /\ \A n \in 1..len : f[n] = AfterEvent(f[n - 1], es[n])
                /\ \A n \in 0..len : IsReader(f[n])
<1>1. PICK f : Reads(f, es, len) /\ AfterEvents(es) = f[len]
  BY AfterReads
<1>2. f[0] = NothingRead /\ \A n \in 1..len : f[n] = AfterEvent(f[n - 1], es[n])
  BY <1>1 DEF Reads
<1> DEFINE Not == {n \in 0..len : ~ IsReader(f[n])}
<1>3. Not = {}
  <2> SUFFICES ASSUME Not # {} PROVE FALSE
    OBVIOUS
  <2>1. Not \in SUBSET Nat
    OBVIOUS
  <2>2. PICK n \in Not : \A m \in Not : n <= m
    <3> HIDE DEF Not
    <3> QED
      BY <2>1, LeastNatural
  <2>3. n # 0
    <3>1. NothingRead \in [broken : SUBSET {"INNER", "OUTER"}, open : AnyOpening \cup {NoCrossing},
                           crossings : Seq(AnyCrossing)]
      BY DEF NothingRead
    <3>2. IsReader(NothingRead)
      BY <3>1 DEF IsReader, NothingRead
    <3> QED
      BY <1>2, <2>2, <3>2
  <2>4. n \in 1..len /\ n - 1 \in 0..len /\ IsReader(f[n - 1])
    BY <2>2, <2>3
  <2>5. IsReader(AfterEvent(f[n - 1], es[n]))
    <3>1. IsBeamEvent(es[n]) /\ (es[n].state = "BROKEN" \/ es[n].state = "CLEAR")
      BY <2>4 DEF IsBeamEvent
    <3> QED
      BY <2>4, <3>1, BrokenIsRead, ClearIsRead
  <2> QED
    BY <1>2, <2>2, <2>4, <2>5
<1> QED
  BY <1>1, <1>2, <1>3

-----------------------------------------------------------------------------
(* The direction of the nearest crossing *)

\* A distance is a number.
LEMMA DistanceIs ==
  ASSUME NEW c, c.started \in Int, c.ended \in Int, NEW first \in Int, NEW last \in Int
  PROVE  Distance(c, first, last) \in Nat
BY DEF Distance

\* direction_for_window gives the direction of a crossing that overlaps the
\* observation, and of none that is further from it than another.
LEMMA NearestOverlapping ==
  ASSUME NEW C, \A c \in C : c.started \in Int /\ c.ended \in Int,
         NEW cs \in Seq(C), NEW first \in Int, NEW last \in Int,
         Overlapping(first, last, cs) # {}
  PROVE  \E i \in Overlapping(first, last, cs) :
           /\ DirectionForWindow(first, last, cs) = cs[i].direction
           /\ \A j \in Overlapping(first, last, cs) :
                Distance(cs[i], first, last) <= Distance(cs[j], first, last)
<1> DEFINE over == Overlapping(first, last, cs)
           D(i) == Distance(cs[i], first, last)
           distances == {D(i) : i \in over}
<1>1. over \subseteq Nat /\ \A i \in over : cs[i] \in C
  BY DEF Overlapping
<1>2. \A i \in over : D(i) \in Nat
  <2> SUFFICES ASSUME NEW i \in over PROVE D(i) \in Nat
    OBVIOUS
  <2>1. cs[i].started \in Int /\ cs[i].ended \in Int
    BY <1>1
  <2> QED
    BY <2>1, DistanceIs
<1> HIDE DEF over, D
<1>3. PICK d \in distances : \A x \in distances : d <= x
  <2>1. distances \in SUBSET Nat /\ distances # {}
    BY <1>2 DEF over
  <2> HIDE DEF distances
  <2> QED
    BY <2>1, LeastNatural
<1> DEFINE nearest == {i \in over : D(i) = d}
<1>4. PICK i \in nearest : \A j \in nearest : i <= j
  <2>1. nearest \in SUBSET Nat /\ nearest # {}
    BY <1>1, <1>3
  <2> HIDE DEF nearest
  <2> QED
    BY <2>1, LeastNatural
<1>5. \A j \in over : D(i) <= D(j) /\ (D(i) = D(j) => i <= j)
  BY <1>3, <1>4
<1>6. \A j \in over : Precedes(i, j, first, last, cs)
  BY <1>1, <1>2, <1>4, <1>5 DEF Precedes, D
<1> DEFINE k == CHOOSE k \in over : \A j \in over : Precedes(k, j, first, last, cs)
<1>7. k \in over /\ \A j \in over : Precedes(k, j, first, last, cs)
  BY <1>4, <1>6
<1>8. DirectionForWindow(first, last, cs) = cs[k].direction
  BY DEF DirectionForWindow, over
<1> HIDE DEF k
<1>9. \A j \in over : D(k) <= D(j)
  BY <1>2, <1>7 DEF Precedes, D
<1> QED
  BY <1>7, <1>8, <1>9 DEF over, D

\* An observation is given the direction of a crossing, or none.
LEMMA DirectionIsOne ==
  ASSUME NEW E, Stamped(E), \A e \in E : IsBeamEvent(e), NEW es \in Seq(E),
         NEW first \in Int, NEW last \in Int, NEW from \in Int, NEW to \in Int
  PROVE  ResolveDirection(es, first, last, from, to) \in {"IN", "OUT", "UNKNOWN"}
<1> DEFINE fetched == FetchGateEvents(es, from - LookupMargin, to + LookupMargin)
           cs == CrossingsFromEvents(fetched)
<1>1. from - LookupMargin \in Int /\ to + LookupMargin \in Int
  BY DirectionsAssumption
<1>2. fetched \in Seq(E)
  BY <1>1, FetchSorts
<1>3. cs \in Seq(AnyCrossing)
  <2> HIDE DEF fetched
  <2>1. PICK len \in Nat : Len(fetched) = len /\ \A n \in 1..len : IsBeamEvent(fetched[n])
    BY <1>2
  <2>2. IsReader(AfterEvents(fetched))
    BY <2>1, EventsAreRead
  <2> QED
    BY <2>2 DEF IsReader, CrossingsFromEvents
<1> DEFINE d == DirectionForWindow(first, last, cs)
<1>4. d \in {"IN", "OUT", None}
  <2> HIDE DEF cs
  <2>1. CASE Overlapping(first, last, cs) = {}
    BY <2>1 DEF DirectionForWindow
  <2>2. CASE Overlapping(first, last, cs) # {}
    <3>1. \A c \in AnyCrossing : c.started \in Int /\ c.ended \in Int
      BY DEF AnyCrossing
    <3>2. PICK i \in Overlapping(first, last, cs) : d = cs[i].direction
      BY <1>3, <2>2, <3>1, NearestOverlapping
    <3>3. cs[i] \in AnyCrossing
      BY <1>3, <3>2 DEF Overlapping
    <3> QED
      BY <3>2, <3>3 DEF AnyCrossing
  <2> QED
    BY <2>1, <2>2
<1>5. ResolveDirection(es, first, last, from, to) = IF d = None THEN "UNKNOWN" ELSE d
  BY DEF ResolveDirection
<1> HIDE DEF d
<1> QED
  BY <1>4, <1>5 DEF None

=============================================================================
