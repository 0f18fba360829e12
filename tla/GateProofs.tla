----------------------------- MODULE GateProofs -----------------------------
(***************************************************************************)
(* What the crossings say of the loads, and the direction of an            *)
(* observation, for every length of the run and every timeout and margin.  *)
(***************************************************************************)
EXTENDS Gate, DirectionsProofs

-----------------------------------------------------------------------------
(* The reader of any events *)

EventsTo(n) == [beam : Beams, state : {"BROKEN", "CLEAR"}, at : 0..n]

Openings == [first : Beams, started : 0..MaxNow, direction : {"IN", "OUT", None}]

Readers ==
  [broken : SUBSET Beams, open : Openings \cup {NoCrossing}, crossings : Seq(Crossing)]

\* A crossing is open as long as a beam is broken.
ReaderOK(acc) == acc \in Readers /\ (acc.broken = {} <=> acc.open = NoCrossing)

\* No opening is NoCrossing.
LEMMA OpeningsDiffer == NoCrossing \notin Openings
BY DEF NoCrossing, Openings, Beams, None

\* A reader is what it has in its variables.
LEMMA SameReader ==
  ASSUME NEW a \in Readers, NEW b \in Readers,
         a.broken = b.broken, a.open = b.open, a.crossings = b.crossings
  PROVE  a = b
BY DEF Readers

\* What a BROKEN makes of it.
LEMMA ReadBroken ==
  ASSUME NEW acc, ReaderOK(acc), NEW e \in EventsTo(MaxNow), e.state = "BROKEN"
  PROVE  /\ AfterEvent(acc, e) =
              [broken |-> acc.broken \cup {e.beam},
               open |-> IF acc.broken = {} THEN Start(e)
                        ELSE IF Confirms(acc.open, e)
                             THEN [acc.open EXCEPT !.direction = FirstBeamDirection[acc.open.first]]
                             ELSE acc.open,
               crossings |-> acc.crossings]
         /\ AfterEvent(acc, e).open \in Openings
         /\ ReaderOK(AfterEvent(acc, e))
<1> DEFINE open == IF acc.broken = {} THEN Start(e)
                   ELSE IF Confirms(acc.open, e)
                        THEN [acc.open EXCEPT !.direction = FirstBeamDirection[acc.open.first]]
                        ELSE acc.open
           after == [broken |-> acc.broken \cup {e.beam}, open |-> open,
                     crossings |-> acc.crossings]
<1>1. AfterEvent(acc, e) = after
  BY DEF AfterEvent, BeamBreaks, ReaderOK, Readers
<1>2. open \in Openings
  <2>1. CASE acc.broken = {}
    BY <2>1 DEF Start, EventsTo, Openings
  <2>2. CASE acc.broken # {}
    <3>1. acc.open \in Openings
      BY <2>2 DEF ReaderOK, Readers
    <3>2. FirstBeamDirection[acc.open.first] \in {"IN", "OUT"}
      BY <3>1 DEF FirstBeamDirection, Openings, Beams
    <3> QED
      BY <2>2, <3>1, <3>2 DEF Openings
  <2> QED
    BY <2>1, <2>2
<1>3. e.beam \in Beams
  BY DEF EventsTo
<1> HIDE DEF open
<1>4. ReaderOK(after)
  BY <1>2, <1>3, OpeningsDiffer DEF ReaderOK, Readers
<1> QED
  BY <1>1, <1>2, <1>4 DEF open

\* And a CLEAR.
LEMMA ReadClear ==
  ASSUME NEW acc, ReaderOK(acc), NEW e \in EventsTo(MaxNow), e.state = "CLEAR"
  PROVE  LET after == AfterEvent(acc, e)
         IN  /\ ReaderOK(after) /\ after.broken = acc.broken \ {e.beam}
             /\ after.broken = {} /\ acc.broken # {} =>
                  after.crossings =
                    Append(acc.crossings, [direction |-> acc.open.direction,
                                           started |-> acc.open.started, ended |-> e.at])
             /\ ~ (after.broken = {} /\ acc.broken # {}) =>
                  after.open = acc.open /\ after.crossings = acc.crossings
<1> DEFINE broken == acc.broken \ {e.beam}
           closes == broken = {} /\ acc.broken # {}
           crossing == [direction |-> acc.open.direction,
                        started |-> acc.open.started, ended |-> e.at]
           after == [broken |-> broken, open |-> IF closes THEN NoCrossing ELSE acc.open,
                     crossings |-> IF closes THEN Append(acc.crossings, crossing)
                                             ELSE acc.crossings]
<1>1. (acc.broken # {}) = (acc.open # NoCrossing)
  BY DEF ReaderOK
<1>2. AfterEvent(acc, e) = after
  BY <1>1 DEF AfterEvent, BeamClears
<1>3. closes => crossing \in Crossing
  <2> SUFFICES ASSUME closes PROVE crossing \in Crossing
    OBVIOUS
  <2>1. acc.open \in Openings
    BY DEF ReaderOK, Readers
  <2> QED
    BY <2>1 DEF Openings, Crossing, EventsTo
<1>4. /\ acc.broken \in SUBSET Beams /\ acc.open \in Openings \cup {NoCrossing}
      /\ acc.crossings \in Seq(Crossing) /\ (acc.broken = {} <=> acc.open = NoCrossing)
  BY DEF ReaderOK, Readers
<1> HIDE DEF crossing
<1>5. CASE closes
  <2>1. Append(acc.crossings, crossing) \in Seq(Crossing)
    BY <1>3, <1>4, <1>5
  <2> QED
    BY <1>2, <1>4, <1>5, <2>1 DEF crossing, ReaderOK, Readers
<1>6. CASE ~ closes
  BY <1>2, <1>4, <1>6 DEF crossing, ReaderOK, Readers
<1> QED
  BY <1>5, <1>6

\* A second row of an event changes nothing.
LEMMA ReadTwice ==
  ASSUME NEW acc, ReaderOK(acc), NEW e \in EventsTo(MaxNow)
  PROVE  /\ ReaderOK(AfterEvent(acc, e))
         /\ AfterEvent(AfterEvent(acc, e), e) = AfterEvent(acc, e)
<1> DEFINE one == AfterEvent(acc, e)
<1>1. CASE e.state = "BROKEN"
  <2>1. /\ ReaderOK(one) /\ one.open \in Openings /\ one.broken = acc.broken \cup {e.beam}
        /\ one.crossings = acc.crossings
        /\ one.open = IF acc.broken = {} THEN Start(e)
                      ELSE IF Confirms(acc.open, e)
                           THEN [acc.open EXCEPT !.direction = FirstBeamDirection[acc.open.first]]
                           ELSE acc.open
    BY <1>1, ReadBroken
  <2>2. ~ Confirms(one.open, e)
    <3>1. CASE acc.broken = {}
      BY <2>1, <3>1 DEF Confirms, Start
    <3>2. CASE acc.broken # {} /\ Confirms(acc.open, e)
      <4>1. acc.open \in Openings
        BY <3>2 DEF ReaderOK, Readers
      <4>2. one.open.direction = FirstBeamDirection[acc.open.first]
        BY <2>1, <3>2, <4>1 DEF Openings
      <4> QED
        BY <4>1, <4>2 DEF Confirms, Openings, Beams, FirstBeamDirection, None
    <3>3. CASE acc.broken # {} /\ ~ Confirms(acc.open, e)
      BY <2>1, <3>3
    <3> QED
      BY <3>1, <3>2, <3>3
  <2>3. AfterEvent(one, e) = [broken |-> one.broken \cup {e.beam}, open |-> one.open,
                              crossings |-> one.crossings]
    <3>1. one.broken # {}
      BY <2>1
    <3> HIDE DEF one
    <3> QED
      BY <1>1, <2>1, <2>2, <3>1, ReadBroken
  <2>4. one = [broken |-> one.broken, open |-> one.open, crossings |-> one.crossings]
    BY <2>1 DEF ReaderOK, Readers
  <2> QED
    BY <2>1, <2>3, <2>4
<1>2. CASE e.state = "CLEAR"
  <2>1. ReaderOK(one) /\ one.broken = acc.broken \ {e.beam}
    BY <1>2, ReadClear
  <2>2. one = [broken |-> one.broken, open |-> one.open, crossings |-> one.crossings]
    BY <2>1 DEF ReaderOK, Readers
  <2>3. one.broken \ {e.beam} = one.broken
    BY <2>1
  <2> HIDE DEF one
  <2>4. ReaderOK(AfterEvent(one, e)) /\ AfterEvent(one, e).broken = one.broken
        /\ AfterEvent(one, e).open = one.open /\ AfterEvent(one, e).crossings = one.crossings
    <3> DEFINE after == AfterEvent(one, e)
    <3>1. /\ ReaderOK(after) /\ after.broken = one.broken \ {e.beam}
          /\ ~ (after.broken = {} /\ one.broken # {}) =>
               after.open = one.open /\ after.crossings = one.crossings
      BY <1>2, <2>1, ReadClear
    <3> QED
      BY <2>3, <3>1
  <2>5. AfterEvent(one, e) = one
    BY <2>1, <2>4, SameReader DEF ReaderOK
  <2> QED
    BY <2>1, <2>5 DEF one
<1> QED
  BY <1>1, <1>2 DEF EventsTo

-----------------------------------------------------------------------------
(* The reader of the events of a window *)

\* The events fetched are some of those there are, in their order, and all of
\* them when the window is wide enough.
Rows(es, n, f, t) ==
  /\ FetchGateEvents(es, f, t) \in Seq(EventsTo(n))
  /\ f <= 0 /\ MaxNow <= t => FetchGateEvents(es, f, t) = es
  /\ ReaderOK(AfterEvents(FetchGateEvents(es, f, t)))

\* An event that no other is later than is read last, where it is read.
LEMMA OneMoreEvent ==
  ASSUME NEW n \in 0..MaxNow, NEW es \in Seq(EventsTo(n)), NEW e \in EventsTo(n), e.at = n,
         NEW f \in Int, NEW t \in Int, Rows(es, n, f, t)
  PROVE  LET before == AfterEvents(FetchGateEvents(es, f, t))
             after == AfterEvents(FetchGateEvents(Append(es, e), f, t))
         IN  /\ Rows(Append(es, e), n, f, t)
             /\ n \in f..t => after = AfterEvent(before, e)
             /\ n \notin f..t => after = before
<1> DEFINE rows == FetchGateEvents(es, f, t)
           more == FetchGateEvents(Append(es, e), f, t)
<1>0. e \in EventsTo(MaxNow)
  BY GateAssumption DEF EventsTo
<1>1. more = IF n \in f..t THEN Insert(rows, e) ELSE rows
  BY FetchAppend
<1>2. rows \in Seq(EventsTo(n)) /\ ReaderOK(AfterEvents(rows))
  BY DEF Rows
<1>3. Insert(rows, e) = Append(rows, e)
  <2>1. \A i \in 1..Len(rows) : rows[i].at <= e.at
    <3> HIDE DEF rows
    <3> TAKE i \in 1..Len(rows)
    <3>1. rows[i] \in EventsTo(n)
      BY <1>2
    <3> QED
      BY <3>1 DEF EventsTo
  <2> HIDE DEF rows
  <2> QED
    BY <1>2, <2>1, InsertLast
<1> HIDE DEF rows, more
<1>4. AfterEvents(Append(rows, e)) = AfterEvent(AfterEvents(rows), e)
  BY <1>2, AfterAppend
<1>5. CASE n \in f..t
  <2>1. more = Append(rows, e)
    BY <1>1, <1>3, <1>5
  <2>2. ReaderOK(AfterEvents(more))
    BY <1>0, <1>2, <1>4, <2>1, ReadTwice
  <2>3. more \in Seq(EventsTo(n))
    BY <1>2, <2>1
  <2>4. f <= 0 /\ MaxNow <= t => more = Append(es, e)
    BY <2>1 DEF Rows, rows
  <2> QED
    BY <1>4, <1>5, <2>1, <2>2, <2>3, <2>4 DEF Rows, rows, more
<1>6. CASE n \notin f..t
  <2>1. more = rows
    BY <1>1, <1>6
  <2>2. ~ (f <= 0 /\ MaxNow <= t)
    BY <1>6, GateAssumption
  <2> QED
    BY <1>2, <1>6, <2>1, <2>2 DEF Rows, rows, more
<1> QED
  BY <1>5, <1>6

Window(f, t) == AfterEvents(FetchGateEvents(events, f, t))

\* What recording an event does to the reader of a window, whether ingest
\* writes one row of it or two.
LEMMA RecordReads ==
  ASSUME now \in 0..MaxNow, events \in Seq(EventsTo(now)),
         NEW e \in EventsTo(now), e.at = now, Record(e),
         NEW f \in Int, NEW t \in Int, Rows(events, now, f, t)
  PROVE  /\ events' \in Seq(EventsTo(now))
         /\ Rows(events', now, f, t)
         /\ now \in f..t => Window(f, t)' = AfterEvent(Window(f, t), e)
         /\ now \notin f..t => Window(f, t)' = Window(f, t)
<1> DEFINE one == Append(events, e)
           two == Append(one, e)
           w == Window(f, t)
           Read(es) == AfterEvents(FetchGateEvents(es, f, t))
<1>1. events' = one \/ events' = two
  BY DEF Record
<1>2. one \in Seq(EventsTo(now)) /\ two \in Seq(EventsTo(now))
  OBVIOUS
<1>3. /\ Rows(one, now, f, t)
      /\ now \in f..t => Read(one) = AfterEvent(w, e)
      /\ now \notin f..t => Read(one) = w
  BY OneMoreEvent DEF Window
<1> HIDE DEF one
<1>4. /\ Rows(two, now, f, t)
      /\ now \in f..t => Read(two) = AfterEvent(Read(one), e)
      /\ now \notin f..t => Read(two) = Read(one)
  BY <1>2, <1>3, OneMoreEvent
<1> HIDE DEF two
<1>5. AfterEvent(AfterEvent(w, e), e) = AfterEvent(w, e)
  <2>1. ReaderOK(w)
    BY DEF Rows, Window
  <2>2. e \in EventsTo(MaxNow)
    BY GateAssumption DEF EventsTo
  <2> QED
    BY <2>1, <2>2, ReadTwice
<1>6. Read(events') = Window(f, t)'
  BY DEF Window
<1> HIDE DEF w, Read
<1>7. CASE events' = one
  BY <1>2, <1>3, <1>6, <1>7 DEF w
<1>8. CASE events' = two
  BY <1>2, <1>3, <1>4, <1>5, <1>6, <1>8 DEF w
<1> QED
  BY <1>1, <1>7, <1>8

-----------------------------------------------------------------------------
(* The places of a load *)

Sides == {"inside", "outside"}

OtherSide(side) == IF side = "inside" THEN "outside" ELSE "inside"
FirstPlace(side) == IF side = "inside" THEN "inner" ELSE "outer"
LastPlace(side) == IF side = "inside" THEN "outer" ELSE "inner"
FirstBeam(side) == IF side = "inside" THEN "INNER" ELSE "OUTER"
SecondBeam(side) == IF side = "inside" THEN "OUTER" ELSE "INNER"

BrokenAt(p) == {b \in Beams : Broken(b, p)}

\* The places.
LEMMA PlacesAre == ToSet(Places) = {"inside", "inner", "both", "outer", "outside"}
<1>1. DOMAIN Places = 1..5
  BY DEF Places
<1>2. \A i \in 1..5 : Places[i] \in {"inside", "inner", "both", "outer", "outside"}
  BY DEF Places
<1>3. /\ Places[1] = "inside" /\ Places[2] = "inner" /\ Places[3] = "both"
      /\ Places[4] = "outer" /\ Places[5] = "outside"
  BY DEF Places
<1> QED
  BY <1>1, <1>2, <1>3 DEF ToSet

\* Which of them are next to each other.
LEMMA Adjacent ==
  ASSUME NEW p, NEW q, Neighbours(p, q)
  PROVE  /\ p \in ToSet(Places) /\ q \in ToSet(Places)
         /\ p = "inside" => q = "inner"
         /\ p = "inner" => q \in {"inside", "both"}
         /\ p = "both" => q \in {"inner", "outer"}
         /\ p = "outer" => q \in {"both", "outside"}
         /\ p = "outside" => q = "outer"
<1>1. PICK i \in 1..4 : {Places[i], Places[i + 1]} = {p, q} /\ p # q
  BY DEF Neighbours
<1>2. (p = Places[i] /\ q = Places[i + 1]) \/ (q = Places[i] /\ p = Places[i + 1])
  BY <1>1
<1>3. i = 1 \/ i = 2 \/ i = 3 \/ i = 4
  BY <1>1
<1>4. /\ Places[1] = "inside" /\ Places[2] = "inner" /\ Places[3] = "both"
      /\ Places[4] = "outer" /\ Places[5] = "outside"
  BY DEF Places
<1> QED
  BY <1>2, <1>3, <1>4, PlacesAre

\* The beams that a load breaks at each of them.
LEMMA BeamsBroken ==
  /\ BrokenAt("inside") = {} /\ BrokenAt("outside") = {}
  /\ BrokenAt("inner") = {"INNER"} /\ BrokenAt("outer") = {"OUTER"}
  /\ BrokenAt("both") = Beams
BY DEF BrokenAt, Broken, Beams

\* The event of a step breaks or clears the one beam in which the two places differ.
LEMMA EventBetween ==
  ASSUME NEW p, NEW q, NEW b \in Beams, NEW c \in Beams, c # b,
         b \in BrokenAt(p) <=> b \notin BrokenAt(q),
         c \in BrokenAt(p) <=> c \in BrokenAt(q)
  PROVE  BeamEvent(p, q) =
           [beam |-> b, at |-> now, state |-> IF b \in BrokenAt(q) THEN "BROKEN" ELSE "CLEAR"]
<1>1. \A x \in Beams : Broken(x, p) \in BOOLEAN /\ Broken(x, q) \in BOOLEAN
  BY DEF Broken, Beams
<1>2. \A x \in Beams : (Broken(x, p) # Broken(x, q)) <=> x = b
  BY <1>1 DEF BrokenAt, Beams
<1>3. (CHOOSE x \in Beams : Broken(x, p) # Broken(x, q)) = b
  BY <1>2
<1>4. Broken(b, q) <=> b \in BrokenAt(q)
  BY DEF BrokenAt
<1> QED
  BY <1>3, <1>4 DEF BeamEvent

\* Every step makes an event.
LEMMA StepEvent ==
  ASSUME now \in Nat, NEW p, NEW q, Neighbours(p, q)
  PROVE  BeamEvent(p, q) \in EventsTo(now) /\ BeamEvent(p, q).at = now
<1>1. /\ BeamEvent(p, q).at = now /\ BeamEvent(p, q).state \in {"BROKEN", "CLEAR"}
      /\ BeamEvent(p, q) = [beam |-> BeamEvent(p, q).beam, at |-> now,
                            state |-> BeamEvent(p, q).state]
  BY DEF BeamEvent
<1>2. BeamEvent(p, q).beam \in Beams
  <2>1. p \in {"inside", "inner", "both", "outer", "outside"}
    BY Adjacent, PlacesAre
  <2>2. \E b \in Beams : Broken(b, p) # Broken(b, q)
    BY <2>1, Adjacent, PlacesAre DEF Broken, Beams
  <2> QED
    BY <2>2 DEF BeamEvent
<1> QED
  BY <1>1, <1>2 DEF EventsTo

\* The events of a load that goes straight through, or back from its first beam.
LEMMA StraightEvents ==
  ASSUME NEW side \in Sides
  PROVE  LET Event(b, s) == [beam |-> b, at |-> now, state |-> s]
         IN  /\ BeamEvent(side, FirstPlace(side)) = Event(FirstBeam(side), "BROKEN")
             /\ BeamEvent(FirstPlace(side), side) = Event(FirstBeam(side), "CLEAR")
             /\ BeamEvent(FirstPlace(side), "both") = Event(SecondBeam(side), "BROKEN")
             /\ BeamEvent("both", LastPlace(side)) = Event(FirstBeam(side), "CLEAR")
             /\ BeamEvent(LastPlace(side), OtherSide(side)) = Event(SecondBeam(side), "CLEAR")
<1> DEFINE first == FirstBeam(side)
           second == SecondBeam(side)
<1>1. first \in Beams /\ second \in Beams /\ first # second /\ Beams = {first, second}
  BY DEF FirstBeam, SecondBeam, Beams
<1>2. /\ BrokenAt(side) = {} /\ BrokenAt(OtherSide(side)) = {} /\ BrokenAt("both") = Beams
      /\ BrokenAt(FirstPlace(side)) = {first} /\ BrokenAt(LastPlace(side)) = {second}
  BY BeamsBroken DEF Sides, OtherSide, FirstPlace, LastPlace, FirstBeam, SecondBeam
<1> HIDE DEF first, second
<1>3. BeamEvent(side, FirstPlace(side)) = [beam |-> first, at |-> now, state |-> "BROKEN"]
  BY <1>1, <1>2, EventBetween
<1>4. BeamEvent(FirstPlace(side), side) = [beam |-> first, at |-> now, state |-> "CLEAR"]
  BY <1>1, <1>2, EventBetween
<1>5. BeamEvent(FirstPlace(side), "both") = [beam |-> second, at |-> now, state |-> "BROKEN"]
  BY <1>1, <1>2, EventBetween
<1>6. BeamEvent("both", LastPlace(side)) = [beam |-> first, at |-> now, state |-> "CLEAR"]
  BY <1>1, <1>2, EventBetween
<1>7. BeamEvent(LastPlace(side), OtherSide(side)) =
        [beam |-> second, at |-> now, state |-> "CLEAR"]
  BY <1>1, <1>2, EventBetween
<1> QED
  BY <1>3, <1>4, <1>5, <1>6, <1>7 DEF first, second

-----------------------------------------------------------------------------
(* Type correctness *)

Typed ==
  /\ now \in 0..MaxNow /\ place \in ToSet(Places)
  /\ pass \in [side : Sides, from : Int, both : Int]
  /\ events \in Seq(EventsTo(now))

\* A load that has not been in both beams is in the first it met.
PassOK ==
  /\ pass.from \in 0..now
  /\ pass.both = Never \/ pass.both \in pass.from..now
  /\ pass.both = Never => place = FirstPlace(pass.side)

Passes ==
  [direction : {"IN", "OUT", None}, crossed : BOOLEAN, started : 0..MaxNow, ended : 0..MaxNow]

\* The loads come one after the other.
OneByOne ==
  /\ passes \in Seq(Passes)
  /\ \A i \in 1..Len(passes) : passes[i].started <= passes[i].ended /\ passes[i].ended <= now
  /\ \A i, j \in 1..Len(passes) : i < j => passes[i].ended < passes[j].started
  /\ place \in InGate => \A i \in 1..Len(passes) : passes[i].ended < pass.from

Read == \A f, t \in Int : Rows(events, now, f, t)

GateInv == Typed /\ (place \in InGate => PassOK) /\ OneByOne /\ Read

\* It holds when the gate has seen nothing.
LEMMA GateInit == Init => GateInv
<1> SUFFICES ASSUME Init PROVE GateInv
  OBVIOUS
<1> USE GateAssumption
<1>1. Typed
  BY PlacesAre DEF Init, Typed, Sides, Never
<1>2. place \notin InGate
  BY DEF Init, InGate
<1>3. OneByOne
  BY <1>2 DEF Init, OneByOne
<1>4. ASSUME NEW f \in Int, NEW t \in Int PROVE Rows(events, now, f, t)
  <2>1. FetchGateEvents(events, f, t) = <<>> /\ events = <<>>
    BY FetchNone DEF Init
  <2>2. ReaderOK(NothingRead)
    BY DEF ReaderOK, Readers, NothingRead
  <2> QED
    BY <2>1, <2>2, AfterNone DEF Rows
<1> QED
  BY <1>1, <1>2, <1>3, <1>4 DEF GateInv, Read

\* An event recorded keeps what the readers rely on.
LEMMA RecordKeeps ==
  ASSUME GateInv, NEW p, NEW q, Neighbours(p, q), Record(BeamEvent(p, q)), UNCHANGED now
  PROVE  events' \in Seq(EventsTo(now')) /\ Read'
<1> DEFINE e == BeamEvent(p, q)
<1>1. now \in 0..MaxNow /\ events \in Seq(EventsTo(now)) /\ now \in Nat
  BY DEF GateInv, Typed
<1>2. e \in EventsTo(now) /\ e.at = now
  BY <1>1, StepEvent
<1> HIDE DEF e
<1>3. ASSUME NEW f \in Int, NEW t \in Int
      PROVE  events' \in Seq(EventsTo(now)) /\ Rows(events', now, f, t)
  <2>1. Rows(events, now, f, t)
    BY DEF GateInv, Read
  <2> QED
    BY <1>1, <1>2, <2>1, RecordReads DEF e
<1> QED
  BY <1>3 DEF Read

\* A load comes in.
LEMMA EnterKeeps ==
  ASSUME GateInv, NEW side, NEW q, Enter(side, q)
  PROVE  GateInv'
<1> USE GateAssumption
<1>1. /\ place \notin InGate /\ side \in Sides /\ Neighbours(side, q) /\ place' = q
      /\ pass' = [side |-> side, from |-> now, both |-> Never]
      /\ now' = now /\ passes' = passes /\ Record(BeamEvent(side, q))
      /\ \A i \in 1..Len(passes) : passes[i].ended < now
  BY DEF Enter, Sides
<1>2. q = FirstPlace(side) /\ q \in InGate /\ q \in ToSet(Places)
  BY <1>1, Adjacent, PlacesAre DEF Sides, FirstPlace, InGate
<1>3. events' \in Seq(EventsTo(now')) /\ Read'
  BY <1>1, RecordKeeps
<1>4. Typed'
  BY <1>1, <1>2, <1>3 DEF GateInv, Typed, Never
<1>5. PassOK'
  BY <1>1, <1>2 DEF GateInv, Typed, PassOK
<1>6. OneByOne'
  BY <1>1 DEF GateInv, OneByOne
<1> QED
  BY <1>3, <1>4, <1>5, <1>6 DEF GateInv

\* A load moves on, or back.
LEMMA MoveKeeps ==
  ASSUME GateInv, NEW q, Move(q)
  PROVE  GateInv'
<1> USE GateAssumption
<1>1. /\ place \in InGate /\ Neighbours(place, q) /\ place' = q /\ now' = now
      /\ Record(BeamEvent(place, q))
      /\ pass' = IF q = "both" /\ pass.both = Never THEN [pass EXCEPT !.both = now] ELSE pass
      /\ passes' = IF q \in InGate THEN passes
                   ELSE Append(passes, [direction |-> Told(pass, q), crossed |-> q # pass.side,
                                        started |-> pass.from, ended |-> now])
  BY DEF Move
<1>2. events' \in Seq(EventsTo(now')) /\ Read'
  BY <1>1, RecordKeeps
<1>3. /\ now \in 0..MaxNow /\ pass \in [side : Sides, from : Int, both : Int] /\ PassOK
      /\ pass.from \in 0..now
  BY <1>1 DEF GateInv, Typed, PassOK
<1>4. q \in ToSet(Places)
  BY <1>1, Adjacent, PlacesAre
<1>5. Typed'
  BY <1>1, <1>2, <1>3, <1>4 DEF Typed
<1>6. ASSUME q \in InGate PROVE PassOK'
  <2>1. pass'.from = pass.from /\ pass'.side = pass.side
    BY <1>1, <1>3
  <2>2. CASE q = "both" /\ pass.both = Never
    <3>1. pass'.both = now
      BY <1>1, <1>3, <2>2
    <3> QED
      BY <1>1, <1>3, <2>1, <3>1 DEF PassOK, Never
  <2>3. CASE q # "both" /\ pass.both = Never
    <3>1. place = FirstPlace(pass.side) /\ pass.side \in Sides
      BY <1>3, <2>3 DEF PassOK
    <3>2. q = pass.side
      BY <1>1, <2>3, <3>1, Adjacent DEF Sides, FirstPlace
    <3> QED
      BY <1>6, <3>1, <3>2 DEF Sides, InGate
  <2>4. CASE pass.both # Never
    BY <1>1, <1>3, <2>1, <2>4 DEF PassOK
  <2> QED
    BY <2>2, <2>3, <2>4
<1>7. /\ passes \in Seq(Passes)
      /\ \A i \in 1..Len(passes) : passes[i].started <= passes[i].ended /\ passes[i].ended <= now
      /\ \A i, j \in 1..Len(passes) : i < j => passes[i].ended < passes[j].started
      /\ \A i \in 1..Len(passes) : passes[i].ended < pass.from
  BY <1>1 DEF GateInv, OneByOne
<1>8. OneByOne'
  <2>1. CASE q \in InGate
    <3>1. passes' = passes /\ pass'.from = pass.from
      BY <1>1, <1>3, <2>1
    <3> QED
      BY <1>1, <1>7, <3>1 DEF OneByOne
  <2>2. CASE q \notin InGate
    <3> DEFINE p == [direction |-> Told(pass, q), crossed |-> q # pass.side,
                     started |-> pass.from, ended |-> now]
               n == Len(passes)
    <3>1. p \in Passes /\ p.started <= p.ended /\ p.ended = now /\ p.started = pass.from
      BY <1>3 DEF Passes, Told, None
    <3>2. passes' = Append(passes, p)
      BY <1>1, <2>2
    <3> HIDE DEF p
    <3>3. /\ passes' \in Seq(Passes) /\ Len(passes') = n + 1 /\ n \in Nat
          /\ passes'[n + 1] = p /\ \A i \in 1..n : passes'[i] = passes[i]
      BY <1>7, <3>1, <3>2
    <3> HIDE DEF n
    <3>4. /\ \A i \in 1..n : passes[i].started <= passes[i].ended /\ passes[i].ended <= now
          /\ \A i, j \in 1..n : i < j => passes[i].ended < passes[j].started
          /\ \A i \in 1..n : passes[i].ended < pass.from
      BY <1>7 DEF n
    <3>5. ASSUME NEW i \in 1..(n + 1)
          PROVE  passes'[i].started <= passes'[i].ended /\ passes'[i].ended <= now
      <4>1. CASE i = n + 1
        BY <1>3, <3>1, <3>3, <4>1
      <4>2. CASE i # n + 1
        BY <3>3, <3>4, <4>2
      <4> QED
        BY <4>1, <4>2
    <3>6. ASSUME NEW i \in 1..(n + 1), NEW j \in 1..(n + 1), i < j
          PROVE  passes'[i].ended < passes'[j].started
      <4>1. i \in 1..n
        BY <3>3, <3>6
      <4>2. CASE j = n + 1
        BY <3>1, <3>3, <3>4, <4>1, <4>2
      <4>3. CASE j # n + 1
        BY <3>3, <3>4, <3>6, <4>1, <4>3
      <4> QED
        BY <4>2, <4>3
    <3> QED
      BY <1>1, <2>2, <3>3, <3>5, <3>6 DEF OneByOne
  <2> QED
    BY <2>1, <2>2
<1> QED
  BY <1>1, <1>2, <1>5, <1>6, <1>8 DEF GateInv

\* Time passes.
LEMMA TickKeeps ==
  ASSUME GateInv, Tick
  PROVE  GateInv'
<1> USE GateAssumption
<1>1. now' = now + 1 /\ now' \in 0..MaxNow /\ UNCHANGED <<place, pass, passes, events>>
  BY DEF Tick, GateInv, Typed
<1>2. now \in 0..MaxNow /\ EventsTo(now) \subseteq EventsTo(now')
  BY <1>1 DEF GateInv, Typed, EventsTo
<1>3. ASSUME NEW es \in Seq(EventsTo(now)) PROVE es \in Seq(EventsTo(now'))
  BY <1>2
<1>4. Typed'
  BY <1>1, <1>3 DEF GateInv, Typed
<1>5. (place \in InGate => PassOK)'
  BY <1>1, <1>2 DEF GateInv, PassOK
<1>6. OneByOne'
  <2>1. \A i \in 1..Len(passes) : passes[i].started <= passes[i].ended /\ passes[i].ended <= now'
    <3> TAKE i \in 1..Len(passes)
    <3>1. passes[i] \in Passes /\ passes[i].started <= passes[i].ended /\ passes[i].ended <= now
      BY DEF GateInv, OneByOne
    <3> QED
      BY <1>1, <1>2, <3>1 DEF Passes
  <2> QED
    BY <1>1, <2>1 DEF GateInv, OneByOne
<1>7. Read'
  BY <1>1, <1>3 DEF GateInv, Read, Rows
<1> QED
  BY <1>4, <1>5, <1>6, <1>7 DEF GateInv

\* The invariant of the gate is inductive.
LEMMA GateInductive == GateInv /\ [Next]_vars => GateInv'
<1> SUFFICES ASSUME GateInv, [Next]_vars PROVE GateInv'
  OBVIOUS
<1>1. ASSUME NEW side, NEW q, Enter(side, q) PROVE GateInv'
  BY <1>1, EnterKeeps
<1>2. ASSUME NEW q, Move(q) PROVE GateInv'
  BY <1>2, MoveKeeps
<1>3. CASE Tick
  BY <1>3, TickKeeps
<1>4. CASE UNCHANGED vars
  BY <1>4 DEF vars, GateInv, Typed, PassOK, OneByOne, Read
<1> QED
  BY <1>1, <1>2, <1>3, <1>4 DEF Next

\* In every run the invariant of the gate holds.
THEOREM GateInvariant == Spec => []GateInv
<1>1. Init => GateInv
  BY GateInit
<1>2. GateInv /\ [Next]_vars => GateInv'
  BY GateInductive
<1> QED
  BY <1>1, <1>2, PTL DEF Spec

\* The crossings have the type that the code gives them, a start and an end in
\* the time that has passed, whatever loads do in the gate and however late they
\* turn back.
THEOREM TypeCorrect == Spec => []TypeOK
<1>1. GateInv => TypeOK
  <2> SUFFICES ASSUME GateInv PROVE TypeOK
    OBVIOUS
  <2>1. now \in 0..MaxNow /\ place \in ToSet(Places) /\ events \in Seq(EventsTo(now))
    BY DEF GateInv, Typed
  <2>2. place \in InGate => pass.from \in 0..now
    BY DEF GateInv, PassOK
  <2>3. CrossingsFromEvents(events) \in Seq(Crossing)
    <3>1. Rows(events, now, 0, MaxNow)
      BY GateAssumption DEF GateInv, Read
    <3>2. ReaderOK(AfterEvents(events))
      BY <3>1, GateAssumption DEF Rows
    <3> QED
      BY <3>2 DEF CrossingsFromEvents, ReaderOK, Readers
  <2> QED
    BY <2>1, <2>2, <2>3 DEF TypeOK, EventsTo
<1> QED
  BY <1>1, GateInvariant, PTL

-----------------------------------------------------------------------------
(* Loads that do not turn back late: what a reader sees of the one that is in *)
(* the gate                                                                   *)

Confirmed(p) == p.both # Never /\ p.both - p.from <= Timeout

\* The variables of a reader that has seen load p come in.
OpenOf(p) ==
  [first |-> FirstBeam(p.side), started |-> p.from,
   direction |-> IF Confirmed(p) THEN FirstBeamDirection[FirstBeam(p.side)] ELSE None]

\* A reader whose window begins at f, at time n, with load p at place pl: one that
\* has not seen p come in knows nothing of the first beam.
Sees(w, f, n, pl, p) ==
  /\ pl \notin InGate => w.broken = {}
  /\ pl \in InGate /\ f <= p.from => w.broken = BrokenAt(pl) /\ w.open = OpenOf(p)
  /\ pl \in InGate /\ p.from < f => w.broken \subseteq BrokenAt(pl) \ {FirstBeam(p.side)}
  /\ pl \in InGate /\ p.from < f /\ w.broken # {} => w.open.started \in p.from..n

PassRecords(n) == [side : Sides, from : 0..n, both : Int]

\* The beams and the places of a side.
LEMMA OfASide ==
  ASSUME NEW side \in Sides
  PROVE  /\ FirstBeam(side) # SecondBeam(side) /\ Beams = {FirstBeam(side), SecondBeam(side)}
         /\ BrokenAt(side) = {} /\ BrokenAt(OtherSide(side)) = {} /\ BrokenAt("both") = Beams
         /\ BrokenAt(FirstPlace(side)) = {FirstBeam(side)}
         /\ BrokenAt(LastPlace(side)) = {SecondBeam(side)}
         /\ FirstPlace(side) \in InGate /\ LastPlace(side) \in InGate /\ "both" \in InGate
         /\ side \notin InGate /\ OtherSide(side) \notin InGate
BY BeamsBroken
   DEF Sides, OtherSide, FirstPlace, LastPlace, FirstBeam, SecondBeam, Beams, InGate

\* A load comes in.
LEMMA SeesItEnter ==
  ASSUME NEW n \in 0..MaxNow, NEW f \in Int, f <= n, NEW side \in Sides,
         NEW w, ReaderOK(w), w.broken = {}
  PROVE  LET e == [beam |-> FirstBeam(side), at |-> n, state |-> "BROKEN"]
             p == [side |-> side, from |-> n, both |-> Never]
         IN  /\ Sees(AfterEvent(w, e), f, n, FirstPlace(side), p)
             /\ AfterEvent(w, e).crossings = w.crossings
<1> USE GateAssumption
<1> DEFINE e == [beam |-> FirstBeam(side), at |-> n, state |-> "BROKEN"]
           p == [side |-> side, from |-> n, both |-> Never]
<1>1. e \in EventsTo(MaxNow) /\ e.state = "BROKEN"
  BY OfASide DEF EventsTo
<1>2. /\ AfterEvent(w, e).broken = {FirstBeam(side)} /\ AfterEvent(w, e).open = Start(e)
      /\ AfterEvent(w, e).crossings = w.crossings
  BY <1>1, ReadBroken
<1>3. Start(e) = OpenOf(p)
  BY DEF Start, OpenOf, Confirmed
<1>4. p.from = n /\ p.side = side
  OBVIOUS
<1> HIDE DEF e, p
<1> QED
  BY <1>2, <1>3, <1>4, OfASide DEF Sees, e, p

\* It breaks the second beam too.
LEMMA SeesItInBoth ==
  ASSUME NEW n \in 0..MaxNow, NEW f \in Int, f <= n, NEW p \in PassRecords(n), p.both = Never,
         NEW w, ReaderOK(w), Sees(w, f, n, FirstPlace(p.side), p)
  PROVE  LET e == [beam |-> SecondBeam(p.side), at |-> n, state |-> "BROKEN"]
         IN  /\ Sees(AfterEvent(w, e), f, n, "both", [p EXCEPT !.both = n])
             /\ AfterEvent(w, e).crossings = w.crossings
<1> USE GateAssumption
<1> DEFINE e == [beam |-> SecondBeam(p.side), at |-> n, state |-> "BROKEN"]
           after == AfterEvent(w, e)
           q == [p EXCEPT !.both = n]
<1>1. e \in EventsTo(MaxNow) /\ e.state = "BROKEN" /\ p.side \in Sides /\ p.from \in 0..n
  BY OfASide DEF EventsTo, PassRecords
<1>2. /\ after.broken = w.broken \cup {SecondBeam(p.side)} /\ after.crossings = w.crossings
      /\ after.open = IF w.broken = {} THEN Start(e)
                      ELSE IF Confirms(w.open, e)
                           THEN [w.open EXCEPT !.direction = FirstBeamDirection[w.open.first]]
                           ELSE w.open
  BY <1>1, ReadBroken
<1>3. q.from = p.from /\ q.side = p.side /\ q.both = n
  BY DEF PassRecords
<1>4. ASSUME f <= p.from
      PROVE  after.broken = Beams /\ after.open = OpenOf(q)
  <2>1. w.broken = {FirstBeam(p.side)} /\ w.open = OpenOf(p)
    BY <1>1, <1>4, OfASide DEF Sees
  <2>2. after.broken = Beams
    BY <1>1, <1>2, <2>1, OfASide
  <2>3. OpenOf(p) = [first |-> FirstBeam(p.side), started |-> p.from, direction |-> None]
    BY DEF OpenOf, Confirmed
  <2>4. Confirms(OpenOf(p), e) <=> n - p.from <= Timeout
    BY <1>1, <2>3, OfASide DEF Confirms
  <2>5. Confirmed(q) <=> n - p.from <= Timeout
    BY <1>3 DEF Confirmed, Never
  <2>6. after.open = IF n - p.from <= Timeout
                     THEN [OpenOf(p) EXCEPT !.direction = FirstBeamDirection[FirstBeam(p.side)]]
                     ELSE OpenOf(p)
    BY <1>2, <2>1, <2>3, <2>4
  <2>7. after.open = OpenOf(q)
    BY <1>3, <2>3, <2>5, <2>6 DEF OpenOf
  <2> QED
    BY <2>2, <2>7
<1>5. ASSUME p.from < f
      PROVE  after.broken = {SecondBeam(p.side)} /\ after.open.started = n
  <2>1. w.broken = {}
    BY <1>1, <1>5, OfASide DEF Sees
  <2> QED
    BY <1>2, <2>1 DEF Start
<1> HIDE DEF e, after, q
<1>6. Sees(after, f, n, "both", q)
  BY <1>1, <1>3, <1>4, <1>5, OfASide DEF Sees
<1> QED
  BY <1>2, <1>6 DEF e, after, q

\* It leaves the first beam.
LEMMA SeesItInTheLast ==
  ASSUME NEW n \in 0..MaxNow, NEW f \in Int, f <= n, NEW p \in PassRecords(n),
         NEW w, ReaderOK(w), Sees(w, f, n, "both", p)
  PROVE  LET e == [beam |-> FirstBeam(p.side), at |-> n, state |-> "CLEAR"]
         IN  /\ Sees(AfterEvent(w, e), f, n, LastPlace(p.side), p)
             /\ AfterEvent(w, e).crossings = w.crossings
<1> USE GateAssumption
<1> DEFINE e == [beam |-> FirstBeam(p.side), at |-> n, state |-> "CLEAR"]
           after == AfterEvent(w, e)
<1>1. e \in EventsTo(MaxNow) /\ e.state = "CLEAR" /\ p.side \in Sides /\ p.from \in 0..n
  BY OfASide DEF EventsTo, PassRecords
<1>2. /\ after.broken = w.broken \ {FirstBeam(p.side)}
      /\ ~ (after.broken = {} /\ w.broken # {}) =>
           after.open = w.open /\ after.crossings = w.crossings
  BY <1>1, ReadClear
<1> HIDE DEF e, after
<1>3. CASE f <= p.from
  <2>1. w.broken = Beams /\ w.open = OpenOf(p)
    BY <1>1, <1>3, OfASide DEF Sees
  <2>2. after.broken = {SecondBeam(p.side)}
    BY <1>1, <1>2, <2>1, OfASide
  <2> QED
    BY <1>1, <1>2, <1>3, <2>1, <2>2, OfASide DEF Sees, e, after
<1>4. CASE p.from < f
  <2>1. /\ w.broken \subseteq {SecondBeam(p.side)}
        /\ w.broken # {} => w.open.started \in p.from..n
    BY <1>1, <1>4, OfASide DEF Sees
  <2>2. after.broken = w.broken
    BY <1>1, <1>2, <2>1, OfASide
  <2> QED
    BY <1>1, <1>2, <1>4, <2>1, <2>2, OfASide DEF Sees, e, after
<1> QED
  BY <1>1, <1>3, <1>4

\* Load p has left the gate at time n: a reader that has seen it come in adds its
\* crossing, one that has not may add the end of one.
Leaves(w, after, f, n, p) ==
  /\ after.broken = {}
  /\ f <= p.from =>
       after.crossings =
         Append(w.crossings,
                [direction |-> OpenOf(p).direction, started |-> p.from, ended |-> n])
  /\ p.from < f =>
       \/ after.crossings = w.crossings
       \/ \E c \in Crossing : /\ p.from <= c.started /\ c.started <= n /\ c.ended = n
                              /\ after.crossings = Append(w.crossings, c)

\* It leaves the beam that it was in alone.
LEMMA SeesItOut ==
  ASSUME NEW n \in 0..MaxNow, NEW f \in Int, f <= n, NEW p \in PassRecords(n),
         NEW w, ReaderOK(w), NEW pl \in InGate, NEW b \in Beams, BrokenAt(pl) = {b},
         Sees(w, f, n, pl, p), NEW e, e = [beam |-> b, at |-> n, state |-> "CLEAR"]
  PROVE  Leaves(w, AfterEvent(w, e), f, n, p)
<1> USE GateAssumption
<1> DEFINE after == AfterEvent(w, e)
           c == [direction |-> w.open.direction, started |-> w.open.started, ended |-> n]
<1>1. e \in EventsTo(MaxNow) /\ e.state = "CLEAR" /\ e.beam = b /\ e.at = n /\ p.from \in 0..n
  BY DEF EventsTo, PassRecords
<1>2. /\ after.broken = w.broken \ {b}
      /\ after.broken = {} /\ w.broken # {} => after.crossings = Append(w.crossings, c)
      /\ w.broken = {} => after.crossings = w.crossings
  BY <1>1, ReadClear
<1>3. w.broken \subseteq {b}
  BY <1>1 DEF Sees
<1>4. after.broken = {}
  BY <1>2, <1>3
<1> HIDE DEF after
<1>5. ASSUME f <= p.from
      PROVE  after.crossings = Append(w.crossings, [direction |-> OpenOf(p).direction,
                                                    started |-> p.from, ended |-> n])
  <2>1. w.broken = {b} /\ w.open = OpenOf(p)
    BY <1>5 DEF Sees
  <2>2. c = [direction |-> OpenOf(p).direction, started |-> p.from, ended |-> n]
    BY <2>1 DEF OpenOf
  <2> QED
    BY <1>2, <1>4, <2>1, <2>2
<1>6. ASSUME p.from < f, w.broken # {}
      PROVE  /\ c \in Crossing /\ p.from <= c.started /\ c.started <= n /\ c.ended = n
             /\ after.crossings = Append(w.crossings, c)
  <2>1. w.open.started \in p.from..n /\ w.open \in Openings
    BY <1>6 DEF Sees, ReaderOK, Readers
  <2>2. c \in Crossing
    BY <2>1 DEF Openings, Crossing
  <2> QED
    BY <1>1, <1>2, <1>4, <1>6, <2>1, <2>2
<1> HIDE DEF c
<1> QED
  BY <1>2, <1>4, <1>5, <1>6 DEF Leaves, after

-----------------------------------------------------------------------------
(* The crossings in a window, and the loads that have been through *)

\* A crossing is that of a load, or what a window that begins at f has left of one.
Within(c, f, ps) ==
  \E j \in 1..Len(ps) :
    /\ ps[j].started <= c.started /\ c.started <= c.ended /\ c.ended <= ps[j].ended
    /\ f <= ps[j].started => c = AsCrossing(ps[j])

Reported(p, cs) == \E i \in 1..Len(cs) : cs[i] = AsCrossing(p)

\* Every load that a window has in it has its crossing, and no crossing is of
\* two loads or of none.
Listed(cs, f, t, ps) ==
  /\ \A i \in 1..Len(cs) : Within(cs[i], f, ps)
  /\ \A j \in 1..Len(ps) : f <= ps[j].started /\ ps[j].ended <= t => Reported(ps[j], cs)
  /\ f <= 0 /\ MaxNow <= t => cs = [j \in 1..Len(ps) |-> AsCrossing(ps[j])]

\* A load that the window cuts off need not have one.
LEMMA ListedWithout ==
  ASSUME NEW f \in Int, NEW t \in Int, NEW ps \in Seq(Passes), NEW p \in Passes,
         NEW cs \in Seq(Crossing), Listed(cs, f, t, ps), ~ (f <= p.started /\ p.ended <= t)
  PROVE  Listed(cs, f, t, Append(ps, p))
<1> DEFINE n == Len(ps)
           qs == Append(ps, p)
<1>1. n \in Nat /\ Len(qs) = n + 1 /\ qs[n + 1] = p /\ \A j \in 1..n : qs[j] = ps[j]
  OBVIOUS
<1> HIDE DEF qs
<1>2. ASSUME NEW i \in 1..Len(cs) PROVE Within(cs[i], f, qs)
  <2>1. Within(cs[i], f, ps)
    BY DEF Listed
  <2> QED
    BY <1>1, <2>1 DEF Within
<1>3. ASSUME NEW j \in 1..Len(qs), f <= qs[j].started, qs[j].ended <= t
      PROVE  Reported(qs[j], cs)
  <2>1. j \in 1..n
    BY <1>1, <1>3
  <2> QED
    BY <1>1, <1>3, <2>1 DEF Listed
<1>4. ~ (f <= 0 /\ MaxNow <= t)
  BY GateAssumption DEF Passes
<1> QED
  BY <1>2, <1>3, <1>4 DEF Listed, qs

\* The crossing of a load, or what is left of it, comes after the others.
LEMMA ListedWith ==
  ASSUME NEW f \in Int, NEW t \in Int, NEW ps \in Seq(Passes), NEW p \in Passes,
         NEW cs \in Seq(Crossing), Listed(cs, f, t, ps), NEW c \in Crossing,
         p.started <= c.started, c.started <= c.ended, c.ended <= p.ended,
         f <= p.started => c = AsCrossing(p)
  PROVE  Listed(Append(cs, c), f, t, Append(ps, p))
<1> DEFINE n == Len(ps)
           qs == Append(ps, p)
           m == Len(cs)
           ds == Append(cs, c)
<1>1. n \in Nat /\ Len(qs) = n + 1 /\ qs[n + 1] = p /\ \A j \in 1..n : qs[j] = ps[j]
  OBVIOUS
<1>2. /\ m \in Nat /\ Len(ds) = m + 1 /\ ds[m + 1] = c /\ \A i \in 1..m : ds[i] = cs[i]
      /\ ds \in Seq(Crossing)
  OBVIOUS
<1>3. cs = [j \in 1..n |-> AsCrossing(ps[j])] =>
        m = n /\ \A j \in 1..n : cs[j] = AsCrossing(ps[j])
  BY <1>1
<1> HIDE DEF qs, ds, m, n
<1>4. ASSUME NEW i \in 1..(m + 1) PROVE Within(ds[i], f, qs)
  <2>1. CASE i = m + 1
    <3>1. n + 1 \in 1..Len(qs)
      BY <1>1
    <3> QED
      BY <1>1, <1>2, <2>1, <3>1 DEF Within
  <2>2. CASE i # m + 1
    <3>1. i \in 1..m /\ ds[i] = cs[i]
      BY <1>2, <2>2
    <3>2. Within(cs[i], f, ps)
      BY <3>1 DEF Listed, m
    <3> QED
      BY <1>1, <3>1, <3>2 DEF Within, n
  <2> QED
    BY <2>1, <2>2
<1>5. ASSUME NEW j \in 1..(n + 1), f <= qs[j].started, qs[j].ended <= t
      PROVE  Reported(qs[j], ds)
  <2>1. CASE j = n + 1
    BY <1>1, <1>2, <1>5, <2>1 DEF Reported
  <2>2. CASE j # n + 1
    <3>1. j \in 1..n /\ qs[j] = ps[j]
      BY <1>1, <2>2
    <3>2. Reported(ps[j], cs)
      BY <1>5, <3>1 DEF Listed, n
    <3> QED
      BY <1>2, <3>1, <3>2 DEF Reported, m
  <2> QED
    BY <2>1, <2>2
<1>6. ASSUME f <= 0, MaxNow <= t
      PROVE  ds = [j \in 1..(n + 1) |-> AsCrossing(qs[j])]
  <2>1. c = AsCrossing(p)
    BY <1>6 DEF Passes
  <2>2. m = n /\ \A j \in 1..n : cs[j] = AsCrossing(ps[j])
    BY <1>3, <1>6 DEF Listed, n
  <2>3. \A j \in 1..(n + 1) : ds[j] = AsCrossing(qs[j])
    BY <1>1, <1>2, <2>1, <2>2
  <2>4. ds = [j \in 1..(n + 1) |-> ds[j]]
    BY <1>2, <2>2
  <2> QED
    BY <2>3, <2>4
<1> QED
  BY <1>1, <1>2, <1>4, <1>5, <1>6 DEF Listed, ds, qs

-----------------------------------------------------------------------------
(* Loads that do not turn back late: the invariant of every window *)

\* A load that has been in both beams is out of the first for good.
Straight == place \in InGate /\ pass.both # Never => place # FirstPlace(pass.side)

\* A window that has not begun is empty; one that has ended stays as it is.
WindowOK(f, t) ==
  /\ now < f => Window(f, t) = NothingRead
  /\ now <= t => Sees(Window(f, t), f, now, place, pass)
  /\ Listed(Window(f, t).crossings, f, t, passes)

StraightInv == GateInv /\ Straight /\ \A f, t \in Int : WindowOK(f, t)

\* It holds when the gate has seen nothing.
LEMMA StraightInit == Init => StraightInv
<1> SUFFICES ASSUME Init PROVE StraightInv
  OBVIOUS
<1>1. GateInv
  BY GateInit
<1>2. place \notin InGate /\ events = <<>> /\ passes = <<>> /\ pass.both = Never
  BY DEF Init, InGate
<1>3. ASSUME NEW f \in Int, NEW t \in Int PROVE WindowOK(f, t)
  <2>1. Window(f, t) = NothingRead
    BY <1>2, FetchNone, AfterNone DEF Window
  <2>2. Sees(NothingRead, f, now, place, pass)
    BY <1>2 DEF Sees, NothingRead
  <2>3. Listed(NothingRead.crossings, f, t, passes)
    BY <1>2 DEF Listed, NothingRead
  <2> QED
    BY <2>1, <2>2, <2>3 DEF WindowOK
<1> QED
  BY <1>1, <1>2, <1>3 DEF StraightInv, Straight

\* What every window has of the event of a step.
LEMMA WindowStep ==
  ASSUME GateInv, NEW p, NEW q, Neighbours(p, q), Record(BeamEvent(p, q)),
         NEW f \in Int, NEW t \in Int
  PROVE  /\ ReaderOK(Window(f, t))
         /\ now \in f..t => Window(f, t)' = AfterEvent(Window(f, t), BeamEvent(p, q))
         /\ now \notin f..t => Window(f, t)' = Window(f, t)
<1> DEFINE e == BeamEvent(p, q)
<1>1. now \in 0..MaxNow /\ events \in Seq(EventsTo(now)) /\ now \in Nat
  BY GateAssumption DEF GateInv, Typed
<1>2. e \in EventsTo(now) /\ e.at = now
  BY <1>1, StepEvent
<1>3. Rows(events, now, f, t)
  BY DEF GateInv, Read
<1> HIDE DEF e
<1>4. /\ now \in f..t => Window(f, t)' = AfterEvent(Window(f, t), e)
      /\ now \notin f..t => Window(f, t)' = Window(f, t)
  BY <1>1, <1>2, <1>3, RecordReads DEF e
<1>5. ReaderOK(Window(f, t))
  BY <1>3 DEF Rows, Window
<1> QED
  BY <1>4, <1>5 DEF e

\* A load comes in.
LEMMA StraightEnter ==
  ASSUME StraightInv, NEW side, NEW q, Enter(side, q)
  PROVE  StraightInv'
<1>1. /\ place \notin InGate /\ side \in Sides /\ Neighbours(side, q) /\ place' = q
      /\ pass' = [side |-> side, from |-> now, both |-> Never]
      /\ now' = now /\ passes' = passes /\ Record(BeamEvent(side, q))
  BY DEF Enter, Sides
<1>2. q = FirstPlace(side)
  BY <1>1, Adjacent DEF Sides, FirstPlace
<1>3. GateInv /\ GateInv' /\ now \in 0..MaxNow
  BY EnterKeeps DEF StraightInv, GateInv, Typed
<1>4. Straight'
  BY <1>1 DEF Straight
<1>5. BeamEvent(side, q) = [beam |-> FirstBeam(side), at |-> now, state |-> "BROKEN"]
  BY <1>1, <1>2, StraightEvents
<1>6. ASSUME NEW f \in Int, NEW t \in Int PROVE WindowOK(f, t)'
  <2> DEFINE w == Window(f, t)
             e == BeamEvent(side, q)
  <2>1. /\ now < f => w = NothingRead
        /\ now <= t => Sees(w, f, now, place, pass)
        /\ Listed(w.crossings, f, t, passes)
    BY DEF StraightInv, WindowOK
  <2>2. /\ ReaderOK(w)
        /\ now \in f..t => Window(f, t)' = AfterEvent(w, e)
        /\ now \notin f..t => Window(f, t)' = w
    BY <1>1, <1>3, WindowStep
  <2> HIDE DEF w, e
  <2>3. CASE now \in f..t
    <3>1. w.broken = {}
      BY <1>1, <2>1, <2>3 DEF Sees
    <3>2. f <= now
      BY <1>3, <2>3
    <3>3. Sees(AfterEvent(w, e), f, now, q, pass') /\ AfterEvent(w, e).crossings = w.crossings
      BY <1>1, <1>2, <1>3, <1>5, <2>2, <3>1, <3>2, SeesItEnter DEF e
    <3> QED
      BY <1>1, <1>3, <2>1, <2>2, <2>3, <3>2, <3>3 DEF WindowOK
  <2>4. CASE now \notin f..t
    <3>1. now <= t => Sees(w, f, now, q, pass')
      <4> SUFFICES ASSUME now <= t PROVE Sees(w, f, now, q, pass')
        OBVIOUS
      <4>1. now < f
        BY <1>3, <2>4
      <4>2. pass'.from = now /\ w.broken = {}
        BY <1>1, <2>1, <4>1 DEF NothingRead
      <4> QED
        BY <1>3, <4>1, <4>2 DEF Sees
    <3> QED
      BY <1>1, <2>1, <2>2, <2>4, <3>1 DEF WindowOK
  <2> QED
    BY <2>3, <2>4
<1> QED
  BY <1>3, <1>4, <1>6 DEF StraightInv

\* The moves of a load that does not turn back late.
LEMMA StraightMoves ==
  ASSUME ~ LateTurns, GateInv, Straight, NEW q, Move(q)
  PROVE  LET side == pass.side
         IN  \/ place = FirstPlace(side) /\ q = side /\ pass.both = Never
             \/ place = FirstPlace(side) /\ q = "both" /\ pass.both = Never
             \/ place = "both" /\ q = LastPlace(side) /\ pass.both # Never
             \/ place = LastPlace(side) /\ q = OtherSide(side) /\ pass.both # Never
<1> DEFINE side == pass.side
<1>1. /\ place \in InGate /\ Neighbours(place, q)
      /\ Turns(q) => q = side /\ pass.both = Never
      /\ side \in Sides /\ (pass.both = Never => place = FirstPlace(side))
      /\ (pass.both # Never => place # FirstPlace(side))
  BY DEF Move, GateInv, Typed, PassOK, Straight
<1>2. side = "inside" \/ side = "outside"
  BY <1>1 DEF Sides
<1>3. \/ place = "inner" /\ q \in {"inside", "both"}
      \/ place = "both" /\ q \in {"inner", "outer"}
      \/ place = "outer" /\ q \in {"both", "outside"}
  BY <1>1, Adjacent DEF InGate
<1>4. Neighbours("inside", "inner") /\ Neighbours("outside", "outer")
  <2>1. /\ {Places[1], Places[2]} = {"inside", "inner"}
        /\ {Places[4], Places[5]} = {"outside", "outer"}
    BY DEF Places
  <2> QED
    BY <2>1 DEF Neighbours
<1>5. /\ q = side => Turns(q)
      /\ place = "both" /\ q = FirstPlace(side) => Turns(q)
      /\ place \in {"inner", "outer"} /\ q = "both" /\ pass.both # Never => Turns(q)
  BY <1>2, <1>4 DEF Turns, FirstPlace
<1> HIDE DEF side
<1> QED
  BY <1>1, <1>2, <1>3, <1>5 DEF FirstPlace, LastPlace, OtherSide, side

\* It moves on in the gate.
LEMMA MoveInTheGate ==
  ASSUME ~ LateTurns, StraightInv, NEW q, Move(q), q \in InGate, NEW f \in Int, NEW t \in Int
  PROVE  WindowOK(f, t)'
<1> DEFINE side == pass.side
           w == Window(f, t)
           e == BeamEvent(place, q)
<1>1. /\ place \in InGate /\ Neighbours(place, q) /\ place' = q /\ now' = now
      /\ Record(BeamEvent(place, q)) /\ passes' = passes
      /\ pass' = IF q = "both" /\ pass.both = Never THEN [pass EXCEPT !.both = now] ELSE pass
  BY DEF Move
<1>2. /\ GateInv /\ now \in 0..MaxNow /\ side \in Sides /\ pass \in PassRecords(now)
      /\ pass.from \in 0..now
  BY <1>1 DEF StraightInv, GateInv, Typed, PassOK, PassRecords
<1>3. /\ now < f => w = NothingRead
      /\ now <= t => Sees(w, f, now, place, pass)
      /\ Listed(w.crossings, f, t, passes)
  BY DEF StraightInv, WindowOK
<1>4. /\ ReaderOK(w)
      /\ now \in f..t => Window(f, t)' = AfterEvent(w, e)
      /\ now \notin f..t => Window(f, t)' = w
  BY <1>1, <1>2, WindowStep
<1> HIDE DEF w, e
<1>5. \/ place = FirstPlace(side) /\ q = "both" /\ pass.both = Never
      \/ place = "both" /\ q = LastPlace(side) /\ pass.both # Never
  BY <1>2, StraightMoves, OfASide DEF StraightInv
<1>6. pass'.from = pass.from
  BY <1>1, <1>2
<1> HIDE DEF side
<1>7. CASE now \in f..t
  <2>1. f <= now /\ Sees(w, f, now, place, pass)
    BY <1>2, <1>3, <1>7
  <2>2. Sees(AfterEvent(w, e), f, now, q, pass') /\ AfterEvent(w, e).crossings = w.crossings
    <3>1. CASE place = FirstPlace(side) /\ q = "both" /\ pass.both = Never
      <4>1. e = [beam |-> SecondBeam(side), at |-> now, state |-> "BROKEN"]
        BY <1>2, <3>1, StraightEvents DEF e
      <4>2. pass' = [pass EXCEPT !.both = now]
        BY <1>1, <3>1
      <4> QED
        BY <1>2, <1>4, <2>1, <3>1, <4>1, <4>2, SeesItInBoth DEF side
    <3>2. CASE place = "both" /\ q = LastPlace(side) /\ pass.both # Never
      <4>1. e = [beam |-> FirstBeam(side), at |-> now, state |-> "CLEAR"]
        BY <1>2, <3>2, StraightEvents DEF e
      <4>2. pass' = pass
        BY <1>1, <3>2
      <4> QED
        BY <1>2, <1>4, <2>1, <3>2, <4>1, <4>2, SeesItInTheLast DEF side
    <3> QED
      BY <1>5, <3>1, <3>2
  <2>3. Window(f, t)' = AfterEvent(w, e)
    BY <1>4, <1>7
  <2> QED
    BY <1>1, <1>2, <1>3, <2>1, <2>2, <2>3 DEF WindowOK
<1>8. CASE now \notin f..t
  <2>1. now <= t => Sees(w, f, now, q, pass')
    <3> SUFFICES ASSUME now <= t PROVE Sees(w, f, now, q, pass')
      OBVIOUS
    <3>1. now < f
      BY <1>2, <1>8
    <3>2. pass'.from < f /\ w.broken = {}
      BY <1>2, <1>3, <1>6, <3>1 DEF NothingRead
    <3> QED
      BY <1>2, <1>6, <3>2 DEF Sees
  <2>2. Window(f, t)' = w
    BY <1>4, <1>8
  <2> QED
    BY <1>1, <1>3, <2>1, <2>2 DEF WindowOK
<1> QED
  BY <1>7, <1>8

\* It leaves the gate.
LEMMA MoveOutOfTheGate ==
  ASSUME ~ LateTurns, StraightInv, NEW q, Move(q), q \notin InGate, NEW f \in Int, NEW t \in Int
  PROVE  WindowOK(f, t)'
<1> DEFINE side == pass.side
           w == Window(f, t)
           e == BeamEvent(place, q)
           p == [direction |-> Told(pass, q), crossed |-> q # pass.side,
                 started |-> pass.from, ended |-> now]
           after == AfterEvent(w, e)
<1>1. /\ place \in InGate /\ Neighbours(place, q) /\ place' = q /\ now' = now
      /\ Record(BeamEvent(place, q)) /\ passes' = Append(passes, p)
  BY DEF Move
<1>2. /\ GateInv /\ now \in 0..MaxNow /\ side \in Sides /\ pass \in PassRecords(now)
      /\ pass.from \in 0..now /\ passes \in Seq(Passes)
  BY <1>1 DEF StraightInv, GateInv, Typed, PassOK, PassRecords, OneByOne
<1>3. /\ now < f => w = NothingRead
      /\ now <= t => Sees(w, f, now, place, pass)
      /\ Listed(w.crossings, f, t, passes)
  BY DEF StraightInv, WindowOK
<1>4. /\ ReaderOK(w)
      /\ now \in f..t => Window(f, t)' = after
      /\ now \notin f..t => Window(f, t)' = w
  BY <1>1, <1>2, WindowStep
<1>5. w.crossings \in Seq(Crossing)
  BY <1>4 DEF ReaderOK, Readers
<1>6. \/ place = FirstPlace(side) /\ q = side /\ pass.both = Never
      \/ place = LastPlace(side) /\ q = OtherSide(side) /\ pass.both # Never
  BY <1>2, StraightMoves, OfASide DEF StraightInv
<1>7. /\ p \in Passes /\ p.direction = OpenOf(pass).direction /\ p.started = pass.from
      /\ p.ended = now
  <2>1. Told(pass, q) = OpenOf(pass).direction
    <3>1. CASE q = side /\ pass.both = Never
      BY <3>1 DEF Told, OpenOf, Confirmed
    <3>2. CASE q = OtherSide(side) /\ pass.both # Never
      BY <1>2, <3>2
         DEF Told, OpenOf, Confirmed, OtherSide, FirstBeamDirection, FirstBeam, Sides
    <3> QED
      BY <1>6, <3>1, <3>2
  <2>2. Told(pass, q) \in {"IN", "OUT", None}
    BY DEF Told
  <2>3. (q # pass.side) \in BOOLEAN /\ pass.from \in 0..MaxNow /\ now \in 0..MaxNow
    BY <1>2, GateAssumption
  <2> QED
    BY <2>1, <2>2, <2>3 DEF Passes
<1>8. PICK b \in Beams : /\ BrokenAt(place) = {b}
                         /\ e = [beam |-> b, at |-> now, state |-> "CLEAR"]
  BY <1>2, <1>6, OfASide, StraightEvents
<1> HIDE DEF w, e, p, after, side
<1>9. CASE now \in f..t
  <2>1. f <= now /\ Sees(w, f, now, place, pass)
    BY <1>2, <1>3, <1>9
  <2>2. Leaves(w, after, f, now, pass)
    BY <1>1, <1>2, <1>4, <1>8, <2>1, SeesItOut DEF after
  <2>3. Listed(after.crossings, f, t, passes')
    <3>1. CASE f <= pass.from
      <4> DEFINE c == [direction |-> OpenOf(pass).direction, started |-> pass.from, ended |-> now]
      <4>1. c = AsCrossing(p)
        BY <1>7 DEF AsCrossing
      <4>2. c \in Crossing /\ c.started = pass.from /\ c.ended = now
        BY <1>7, <4>1 DEF AsCrossing, Passes, Crossing
      <4>3. after.crossings = Append(w.crossings, c)
        BY <2>2, <3>1 DEF Leaves
      <4>4. p.started <= c.started /\ c.started <= c.ended /\ c.ended <= p.ended
        BY <1>2, <1>7, <4>2
      <4> HIDE DEF c
      <4>5. Listed(Append(w.crossings, c), f, t, Append(passes, p))
        BY <1>2, <1>3, <1>5, <1>7, <4>1, <4>2, <4>4, ListedWith
      <4> QED
        BY <1>1, <4>3, <4>5
    <3>2. CASE pass.from < f /\ after.crossings = w.crossings
      BY <1>1, <1>2, <1>3, <1>5, <1>7, <3>2, ListedWithout
    <3>3. CASE pass.from < f /\ after.crossings # w.crossings
      <4>1. PICK c \in Crossing : /\ pass.from <= c.started /\ c.started <= now /\ c.ended = now
                                  /\ after.crossings = Append(w.crossings, c)
        BY <2>2, <3>3 DEF Leaves
      <4>2. p.started <= c.started /\ c.started <= c.ended /\ c.ended <= p.ended
        BY <1>2, <1>7, <4>1
      <4>3. ~ (f <= p.started)
        BY <1>2, <1>7, <3>3
      <4>4. Listed(Append(w.crossings, c), f, t, Append(passes, p))
        BY <1>2, <1>3, <1>5, <1>7, <4>1, <4>2, <4>3, ListedWith
      <4> QED
        BY <1>1, <4>1, <4>4
    <3> QED
      BY <1>2, <3>1, <3>2, <3>3
  <2>4. Sees(after, f, now, q, pass')
    BY <2>2 DEF Leaves, Sees
  <2>5. Window(f, t)' = after
    BY <1>4, <1>9
  <2> QED
    BY <1>1, <1>2, <2>1, <2>3, <2>4, <2>5 DEF WindowOK
<1>10. CASE now \notin f..t
  <2>1. now <= t => Sees(w, f, now, q, pass')
    BY <1>2, <1>3, <1>10 DEF Sees, NothingRead
  <2>2. ~ (f <= p.started /\ p.ended <= t)
    BY <1>2, <1>7, <1>10
  <2>3. Listed(w.crossings, f, t, passes')
    BY <1>1, <1>2, <1>3, <1>5, <1>7, <2>2, ListedWithout
  <2>4. Window(f, t)' = w
    BY <1>4, <1>10
  <2> QED
    BY <1>1, <1>3, <2>1, <2>3, <2>4 DEF WindowOK
<1> QED
  BY <1>9, <1>10

\* A load moves on, or back from its first beam.
LEMMA StraightMove ==
  ASSUME ~ LateTurns, StraightInv, NEW q, Move(q)
  PROVE  StraightInv'
<1>1. GateInv /\ GateInv' /\ Straight
  BY MoveKeeps DEF StraightInv
<1>2. pass \in [side : Sides, from : Int, both : Int] /\ place' = q
      /\ pass' = IF q = "both" /\ pass.both = Never THEN [pass EXCEPT !.both = now] ELSE pass
  BY <1>1 DEF GateInv, Typed, Move
<1>3. Straight'
  <2>1. pass'.side = pass.side /\ pass.side \in Sides
    BY <1>2
  <2>2. q = FirstPlace(pass.side) => FALSE
    BY <1>1, <2>1, StraightMoves DEF Sides, FirstPlace, LastPlace, OtherSide
  <2> QED
    BY <1>2, <2>1, <2>2 DEF Straight
<1>4. \A f, t \in Int : WindowOK(f, t)'
  BY MoveInTheGate, MoveOutOfTheGate
<1> QED
  BY <1>1, <1>3, <1>4 DEF StraightInv

\* Time passes.
LEMMA StraightTick ==
  ASSUME StraightInv, Tick
  PROVE  StraightInv'
<1>1. now' = now + 1 /\ UNCHANGED <<place, pass, passes, events>>
  BY DEF Tick
<1>2. GateInv /\ GateInv' /\ now \in 0..MaxNow
  BY TickKeeps DEF StraightInv, GateInv, Typed
<1>3. Straight'
  BY <1>1 DEF StraightInv, Straight
<1>4. place \in InGate => pass.from \in 0..now
  BY <1>2 DEF GateInv, PassOK
<1>5. ASSUME NEW f \in Int, NEW t \in Int PROVE WindowOK(f, t)'
  <2>1. WindowOK(f, t) /\ Window(f, t)' = Window(f, t)
    BY <1>1 DEF StraightInv, Window
  <2>2. now' <= t => Sees(Window(f, t), f, now', place, pass)
    <3> SUFFICES ASSUME now' <= t PROVE Sees(Window(f, t), f, now', place, pass)
      OBVIOUS
    <3>1. Sees(Window(f, t), f, now, place, pass)
      BY <1>1, <1>2, <2>1 DEF WindowOK
    <3> QED
      BY <1>1, <1>2, <1>4, <3>1 DEF Sees
  <2> QED
    BY <1>1, <1>2, <2>1, <2>2 DEF WindowOK
<1> QED
  BY <1>2, <1>3, <1>5 DEF StraightInv

\* The invariant of the windows is inductive.
LEMMA StraightInductive ==
  ASSUME ~ LateTurns
  PROVE  StraightInv /\ [Next]_vars => StraightInv'
<1> SUFFICES ASSUME StraightInv, [Next]_vars PROVE StraightInv'
  OBVIOUS
<1>1. ASSUME NEW side, NEW q, Enter(side, q) PROVE StraightInv'
  BY <1>1, StraightEnter
<1>2. ASSUME NEW q, Move(q) PROVE StraightInv'
  BY <1>2, StraightMove
<1>3. CASE Tick
  BY <1>3, StraightTick
<1>4. CASE UNCHANGED vars
  <2>1. GateInv' /\ Straight'
    BY <1>4, GateInductive DEF StraightInv, Straight, vars
  <2>2. \A f, t \in Int : WindowOK(f, t)'
    BY <1>4 DEF StraightInv, WindowOK, Window, vars
  <2> QED
    BY <2>1, <2>2 DEF StraightInv
<1> QED
  BY <1>1, <1>2, <1>3, <1>4 DEF Next

\* In every run in which no load turns back late, it holds.
THEOREM StraightInvariant == ASSUME ~ LateTurns PROVE Spec => []StraightInv
<1>1. Init => StraightInv
  BY StraightInit
<1>2. StraightInv /\ [Next]_vars => StraightInv'
  BY StraightInductive
<1> QED
  BY <1>1, <1>2, PTL DEF Spec

\* However often ingest writes the rows of an event, the crossings that are made
\* of all of them are the loads that have been through, if none turns back late.
THEOREM CrossingsOfAll == ASSUME ~ LateTurns PROVE Spec => []CrossingsAreLoads
<1>1. StraightInv => CrossingsAreLoads
  <2> SUFFICES ASSUME StraightInv PROVE CrossingsAreLoads
    OBVIOUS
  <2>1. Rows(events, now, 0, MaxNow) /\ WindowOK(0, MaxNow)
    BY GateAssumption DEF StraightInv, GateInv, Read
  <2>2. FetchGateEvents(events, 0, MaxNow) = events
    BY <2>1, GateAssumption DEF Rows
  <2> QED
    BY <2>1, <2>2, GateAssumption
       DEF WindowOK, Window, Listed, CrossingsAreLoads, CrossingsFromEvents
<1> QED
  BY <1>1, StraightInvariant, PTL

-----------------------------------------------------------------------------
(* The direction of an observation *)

\* No crossing is nearer than one that has the same midpoint, nor as near without it.
LEMMA NothingIsNearer ==
  ASSUME NEW first \in Int, NEW last \in Int,
         NEW c, c.started \in Int, c.ended \in Int, c.started + c.ended = first + last,
         NEW d, d.started \in Int, d.ended \in Int, d.started + d.ended # first + last
  PROVE  Distance(c, first, last) < Distance(d, first, last)
BY DEF Distance

\* The times of loads and of crossings are numbers.
LEMMA TimesAre ==
  /\ \A p \in Passes : p.started \in Int /\ p.ended \in Int
  /\ \A c \in Crossing : c.started \in Int /\ c.ended \in Int
BY GateAssumption DEF Passes, Crossing

\* What is within load q, that came before or after load p, has not the midpoint
\* of p, and overlaps nothing that q does not overlap.
LEMMA ApartInTime ==
  ASSUME NEW first \in Int, NEW last \in Int,
         NEW p, p.started \in Int, p.ended \in Int, p.started <= p.ended,
         NEW q, q.started \in Int, q.ended \in Int,
         q.ended < p.started \/ p.ended < q.started,
         NEW c, c.started \in Int, c.ended \in Int,
         q.started <= c.started, c.started <= c.ended, c.ended <= q.ended
  PROVE  /\ c.started + c.ended # p.started + p.ended
         /\ Overlaps(c, first, last) => Overlaps(q, first, last)
BY DEF Overlaps

\* What a batch reaches over, and the margin on both sides.
LEMMA BatchReaches ==
  ASSUME NEW first \in Int, NEW last \in Int, NEW x \in Int, NEW y \in Int
  PROVE  /\ Least(first, x) - LookupMargin \in Int /\ Least(first, x) - LookupMargin <= first
         /\ Greatest(last, y) + LookupMargin \in Int /\ last <= Greatest(last, y) + LookupMargin
BY DirectionsAssumption DEF Least, Greatest

\* An observation of a tag that is read before the beams and after them.
LEMMA ObservationReaches ==
  ASSUME NEW s \in Int, NEW e \in Int, NEW lead \in 0..Reach, NEW lag \in 0..Reach
  PROVE  /\ s - lead \in Int /\ e + lag \in Int /\ s - lead <= s /\ e <= e + lag
         /\ lead = lag => (s - lead) + (e + lag) = s + e
BY GateAssumption

InOrder(ps) ==
  /\ \A i \in 1..Len(ps) : ps[i].started <= ps[i].ended
  /\ \A i, j \in 1..Len(ps) : i < j => ps[i].ended < ps[j].started

\* An observation that no load can be nearer to than the i-th: it reaches as far
\* before it as after it, or overlaps no other.
Nearest(ps, i, first, last) ==
  \/ first + last = ps[i].started + ps[i].ended
  \/ \A j \in 1..Len(ps) \ {i} : ~ Overlaps(ps[j], first, last)

\* It gets the direction of that load from every window that has the whole of it.
LEMMA DirectionOfItsLoad ==
  ASSUME NEW ps \in Seq(Passes), InOrder(ps),
         NEW f \in Int, NEW t \in Int, NEW cs \in Seq(Crossing), Listed(cs, f, t, ps),
         NEW i \in 1..Len(ps), f <= ps[i].started, ps[i].ended <= t,
         NEW first \in Int, NEW last \in Int, first <= ps[i].started, ps[i].ended <= last,
         Nearest(ps, i, first, last)
  PROVE  DirectionForWindow(first, last, cs) = ps[i].direction
<1> DEFINE p == ps[i]
<1>1. p.started \in Int /\ p.ended \in Int /\ p.started <= p.ended
  <2>1. p \in Passes
    OBVIOUS
  <2> QED
    BY <2>1, GateAssumption DEF Passes, InOrder
<1>2. PICK m \in 1..Len(cs) : cs[m] = AsCrossing(p)
  BY DEF Listed, Reported
<1>3. cs[m].started = p.started /\ cs[m].ended = p.ended
  BY <1>2 DEF AsCrossing
<1>4. m \in Overlapping(first, last, cs)
  BY <1>1, <1>3 DEF Overlapping, Overlaps
<1>5. PICK k \in Overlapping(first, last, cs) :
        /\ DirectionForWindow(first, last, cs) = cs[k].direction
        /\ \A j \in Overlapping(first, last, cs) :
             Distance(cs[k], first, last) <= Distance(cs[j], first, last)
  BY <1>4, TimesAre, NearestOverlapping
<1>6. k \in 1..Len(cs) /\ Overlaps(cs[k], first, last)
  BY DEF Overlapping
<1>7. PICK j \in 1..Len(ps) :
        /\ ps[j].started <= cs[k].started /\ cs[k].started <= cs[k].ended
        /\ cs[k].ended <= ps[j].ended /\ (f <= ps[j].started => cs[k] = AsCrossing(ps[j]))
  BY <1>6 DEF Listed, Within
<1>8. /\ cs[k].started \in Int /\ cs[k].ended \in Int
      /\ ps[j].started \in Int /\ ps[j].ended \in Int
  <2>1. cs[k] \in Crossing /\ ps[j] \in Passes
    BY <1>6
  <2> QED
    BY <2>1, TimesAre
<1>9. j = i
  <2> SUFFICES ASSUME j # i PROVE FALSE
    OBVIOUS
  <2>1. ps[j].ended < p.started \/ p.ended < ps[j].started
    <3>1. i < j \/ j < i
      OBVIOUS
    <3> QED
      BY <3>1 DEF InOrder
  <2>2. /\ cs[k].started + cs[k].ended # p.started + p.ended
        /\ Overlaps(cs[k], first, last) => Overlaps(ps[j], first, last)
    BY <1>1, <1>7, <1>8, <2>1, ApartInTime DEF Overlaps
  <2>3. CASE first + last = p.started + p.ended
    <3>1. Distance(cs[m], first, last) < Distance(cs[k], first, last)
      <4>1. /\ cs[m].started \in Int /\ cs[m].ended \in Int
            /\ cs[m].started + cs[m].ended = first + last
            /\ cs[k].started + cs[k].ended # first + last
        BY <1>1, <1>3, <2>2, <2>3
      <4> QED
        BY <1>8, <4>1, NothingIsNearer
    <3>2. Distance(cs[k], first, last) <= Distance(cs[m], first, last)
      BY <1>4, <1>5
    <3>3. Distance(cs[k], first, last) \in Nat /\ Distance(cs[m], first, last) \in Nat
      BY <1>1, <1>3, <1>8, DistanceIs
    <3> QED
      BY <3>1, <3>2, <3>3
  <2>4. CASE \A n \in 1..Len(ps) \ {i} : ~ Overlaps(ps[n], first, last)
    BY <1>6, <1>7, <2>2, <2>4
  <2> QED
    BY <2>3, <2>4 DEF Nearest
<1>10. cs[k] = AsCrossing(p)
  BY <1>7, <1>9
<1> QED
  BY <1>5, <1>10 DEF AsCrossing

\* It gets it in one batch with an observation of another load.
LEMMA ResolvesToItsLoad ==
  ASSUME StraightInv, NEW i \in 1..Len(passes), NEW k \in 1..Len(passes),
         NEW first \in Int, NEW last \in Int,
         first <= passes[i].started, passes[i].ended <= last, Nearest(passes, i, first, last)
  PROVE  ResolveDirection(events, first, last, Least(first, passes[k].started),
                          Greatest(last, passes[k].ended)) =
           IF passes[i].direction = None THEN "UNKNOWN" ELSE passes[i].direction
<1> DEFINE f == Least(first, passes[k].started) - LookupMargin
           t == Greatest(last, passes[k].ended) + LookupMargin
           cs == CrossingsFromEvents(FetchGateEvents(events, f, t))
<1>1. passes \in Seq(Passes) /\ InOrder(passes)
  BY DEF StraightInv, GateInv, OneByOne, InOrder
<1>2. /\ passes[i].started \in Int /\ passes[i].ended \in Int
      /\ passes[k].started \in Int /\ passes[k].ended \in Int
  <2>1. passes[i] \in Passes /\ passes[k] \in Passes
    BY <1>1
  <2> QED
    BY <2>1, TimesAre
<1>3. f \in Int /\ t \in Int /\ f <= first /\ last <= t
  BY <1>2, BatchReaches
<1> HIDE DEF f, t
<1>4. cs \in Seq(Crossing) /\ Listed(cs, f, t, passes)
  <2>1. WindowOK(f, t) /\ Rows(events, now, f, t)
    BY <1>3 DEF StraightInv, GateInv, Read
  <2> QED
    BY <2>1 DEF WindowOK, Window, Rows, ReaderOK, Readers, CrossingsFromEvents
<1> HIDE DEF cs
<1>5. f <= passes[i].started /\ passes[i].ended <= t
  BY <1>2, <1>3
<1>6. DirectionForWindow(first, last, cs) = passes[i].direction
  BY <1>1, <1>3, <1>4, <1>5, DirectionOfItsLoad
<1> QED
  BY <1>6 DEF ResolveDirection, cs, f, t

\* What a batch with an observation of each of two loads gives the first is the
\* direction of its own load, and of no other's, although the gate's events are
\* those of a window that cuts through the loads at its ends.
THEOREM OwnDirections == ASSUME ~ LateTurns PROVE Spec => []OwnDirection
<1>1. StraightInv => OwnDirection
  <2> SUFFICES ASSUME StraightInv,
                      NEW i \in 1..Len(passes), NEW k \in 1..Len(passes),
                      NEW lead \in 0..Reach, NEW lag \in 0..Reach
               PROVE  GetsItsOwn(i, k, lead, lag)
    BY DEF OwnDirection
  <2> DEFINE first == passes[i].started - lead
             last == passes[i].ended + lag
  <2>1. passes[i].started \in Int /\ passes[i].ended \in Int
    <3>1. passes[i] \in Passes
      BY DEF StraightInv, GateInv, OneByOne
    <3> QED
      BY <3>1, TimesAre
  <2>2. /\ first \in Int /\ last \in Int /\ first <= passes[i].started
        /\ passes[i].ended <= last
        /\ lead = lag => first + last = passes[i].started + passes[i].ended
    BY <2>1, ObservationReaches
  <2> HIDE DEF first, last
  <2> DEFINE alone == \A j \in 1..Len(passes) \ {i} : ~ Overlaps(passes[j], first, last)
  <2>3. lead = lag \/ alone => Nearest(passes, i, first, last)
    BY <2>2 DEF Nearest
  <2>4. lead = lag \/ alone =>
          ResolveDirection(events, first, last, Least(first, passes[k].started),
                           Greatest(last, passes[k].ended)) =
            IF passes[i].direction = None THEN "UNKNOWN" ELSE passes[i].direction
    BY <2>2, <2>3, ResolvesToItsLoad
  <2> QED
    BY <2>4 DEF GetsItsOwn, first, last
<1> QED
  BY <1>1, StraightInvariant, PTL

\* Nothing has a direction that has gone back to where it came from.
ToldOnlyIfCrossed == \A i \in 1..Len(passes) : passes[i].direction # None => passes[i].crossed

\* It is inductive with the types of the loads.
LEMMA ToldKeeps == GateInv /\ ToldOnlyIfCrossed /\ [Next]_vars => ToldOnlyIfCrossed'
<1> SUFFICES ASSUME GateInv, ToldOnlyIfCrossed, [Next]_vars PROVE ToldOnlyIfCrossed'
  OBVIOUS
<1>1. CASE passes' = passes
  BY <1>1 DEF ToldOnlyIfCrossed
<1>2. CASE passes' # passes
  <2>1. PICK q : Move(q) /\ q \notin InGate
    BY <1>2 DEF Next, Enter, Move, Tick, vars
  <2> DEFINE p == [direction |-> Told(pass, q), crossed |-> q # pass.side,
                   started |-> pass.from, ended |-> now]
             n == Len(passes)
  <2>2. p.direction # None => p.crossed
    BY DEF Told
  <2>3. passes' = Append(passes, p) /\ passes \in Seq(Passes)
    BY <2>1 DEF Move, GateInv, OneByOne
  <2> HIDE DEF p
  <2>4. /\ n \in Nat /\ Len(passes') = n + 1 /\ passes'[n + 1] = p
        /\ \A i \in 1..n : passes'[i] = passes[i]
    BY <2>3
  <2>5. ASSUME NEW i \in 1..(n + 1), passes'[i].direction # None PROVE passes'[i].crossed
    <3>1. CASE i = n + 1
      BY <2>2, <2>4, <2>5, <3>1
    <3>2. CASE i # n + 1
      BY <2>4, <2>5, <3>2 DEF ToldOnlyIfCrossed
    <3> QED
      BY <3>1, <3>2
  <2> QED
    BY <2>4, <2>5 DEF ToldOnlyIfCrossed
<1> QED
  BY <1>1, <1>2

\* Only a load that turns back late can be said to have gone through when it has
\* not: "Break INNER then OUTER and something left" (direction.py) holds without.
THEOREM GoneThroughStraight == ASSUME ~ LateTurns PROVE Spec => []GoneThrough
<1>1. Init => ToldOnlyIfCrossed
  BY DEF Init, ToldOnlyIfCrossed
<1>2. Spec => []ToldOnlyIfCrossed
  BY <1>1, ToldKeeps, GateInvariant, PTL DEF Spec
<1>3. StraightInv /\ ToldOnlyIfCrossed => GoneThrough
  <2> SUFFICES ASSUME StraightInv, ToldOnlyIfCrossed, NEW i \in 1..Len(passes),
                      ResolveDirection(events, passes[i].started, passes[i].ended,
                                       passes[i].started, passes[i].ended) # "UNKNOWN"
               PROVE  passes[i].crossed
    BY DEF GoneThrough
  <2> DEFINE first == passes[i].started
             last == passes[i].ended
  <2>1. first \in Int /\ last \in Int
    <3>1. passes[i] \in Passes
      BY DEF StraightInv, GateInv, OneByOne
    <3> QED
      BY <3>1, TimesAre
  <2>2. Least(first, first) = first /\ Greatest(last, last) = last
    BY DEF Least, Greatest
  <2>3. first <= passes[i].started /\ passes[i].ended <= last /\ Nearest(passes, i, first, last)
    BY <2>1 DEF Nearest
  <2> HIDE DEF first, last
  <2>4. ResolveDirection(events, first, last, Least(first, passes[i].started),
                         Greatest(last, passes[i].ended)) =
          IF passes[i].direction = None THEN "UNKNOWN" ELSE passes[i].direction
    BY <2>1, <2>3, ResolvesToItsLoad
  <2>5. passes[i].direction # None
    BY <2>2, <2>4 DEF first, last
  <2> QED
    BY <2>5 DEF ToldOnlyIfCrossed
<1> QED
  BY <1>2, <1>3, StraightInvariant, PTL

=============================================================================
