-------------------------------- MODULE Gate --------------------------------
(***************************************************************************)
(* The IR gate of the exit: loads that go through it, the beam events they *)
(* make, and what the operators of Directions make of those.  The two      *)
(* beams are closer together than a load is long.                          *)
(***************************************************************************)
EXTENDS Directions, FiniteSets

CONSTANTS
    Reach,        \* ticks a tag may be read before and after the beams
    LateTurns,    \* whether a load that has broken both beams may turn back
    MaxRepeats,   \* bound: events of two rows, of a batch that ingest repeated
    MaxNow        \* bound: the clock

ASSUME GateAssumption ==
  Reach \in Nat /\ LateTurns \in BOOLEAN /\ MaxRepeats \in Nat /\ MaxNow \in Nat

VARIABLES
    now,
    place,        \* of the load in the gate: inside, in the first beam it meets
                  \* or the last, in both, outside
    pass,         \* history: where and when the load came in
    passes,       \* history: the loads that have been through, in order
    events        \* gate_events, in order of occurred_at and id

vars == <<now, place, pass, passes, events>>

-----------------------------------------------------------------------------
(* The loads, one at a time, and the beams *)

Beams == {"INNER", "OUTER"}

\* From the warehouse to the street.
Places == <<"inside", "inner", "both", "outer", "outside">>
InGate == {"inner", "both", "outer"}

Broken(beam, p) ==
  p \in [INNER |-> {"inner", "both"}, OUTER |-> {"both", "outer"}][beam]

Init ==
  /\ now = 0 /\ place = "inside"
  /\ pass = [side |-> "inside", from |-> Never, both |-> Never]
  /\ passes = <<>> /\ events = <<>>

\* Every step breaks one beam or clears one.
BeamEvent(p, q) ==
  LET beam == CHOOSE b \in Beams : Broken(b, p) # Broken(b, q)
  IN  [beam |-> beam, at |-> now,
       state |-> IF Broken(beam, q) THEN "BROKEN" ELSE "CLEAR"]

Repeats == {i \in 2..Len(events) : events[i] = events[i - 1]}

Record(e) ==
  \/ events' = Append(events, e)
  \/ Cardinality(Repeats) < MaxRepeats /\ events' = events \o <<e, e>>

Neighbours(p, q) ==
  \E i \in 1..4 : {Places[i], Places[i + 1]} = {p, q} /\ p # q

Enter(side, q) ==
  /\ place \notin InGate /\ side \in {"inside", "outside"}
  /\ \A i \in 1..Len(passes) : passes[i].ended < now
  /\ Neighbours(side, q)
  /\ place' = q
  /\ pass' = [side |-> side, from |-> now, both |-> Never]
  /\ Record(BeamEvent(side, q))
  /\ UNCHANGED <<now, passes>>

\* What the gate can tell of a load that has been through.
Told(p, q) ==
  IF q # p.side /\ p.both # Never /\ p.both - p.from <= Timeout
  THEN IF p.side = "inside" THEN "OUT" ELSE "IN"
  ELSE None

\* Back to where it came from.
Turns(q) == q = pass.side \/ (place = "both" /\ Neighbours(pass.side, q))
            \/ (place \in {"inner", "outer"} /\ q = "both" /\ pass.both # Never)

Move(q) ==
  /\ place \in InGate /\ Neighbours(place, q)
  /\ Turns(q) => LateTurns \/ (q = pass.side /\ pass.both = Never)
  /\ place' = q
  /\ Record(BeamEvent(place, q))
  /\ pass' = IF q = "both" /\ pass.both = Never THEN [pass EXCEPT !.both = now] ELSE pass
  /\ passes' = IF q \in InGate THEN passes
               ELSE Append(passes, [direction |-> Told(pass, q), crossed |-> q # pass.side,
                                    started |-> pass.from, ended |-> now])
  /\ UNCHANGED now

Tick == now < MaxNow /\ now' = now + 1 /\ UNCHANGED <<place, pass, passes, events>>

Next ==
  \/ \E side, q \in ToSet(Places) : Enter(side, q)
  \/ \E q \in ToSet(Places) : Move(q)
  \/ Tick

Spec == Init /\ [][Next]_vars

-----------------------------------------------------------------------------
(* Properties *)

Crossing == [direction : {"IN", "OUT", None}, started : 0..MaxNow, ended : 0..MaxNow]

TypeOK ==
  /\ now \in 0..MaxNow /\ place \in ToSet(Places)
  /\ place \in InGate => pass.from \in 0..now
  /\ events \in Seq([beam : Beams, state : {"BROKEN", "CLEAR"}, at : 0..now])
  /\ CrossingsFromEvents(events) \in Seq(Crossing)

Least(x, y) == IF x < y THEN x ELSE y
Greatest(x, y) == IF x < y THEN y ELSE x

AsCrossing(p) == [direction |-> p.direction, started |-> p.started, ended |-> p.ended]

\* However often the rows of an event are repeated, the crossings are the loads
\* that have been through, with the direction of those that went straight and
\* fast enough and None for those that stopped at the first beam.
CrossingsAreLoads ==
  CrossingsFromEvents(events) = [i \in 1..Len(passes) |-> AsCrossing(passes[i])]

\* The observation of the i-th load, of a tag that was read from lead ticks before
\* it came in to lag ticks after it left, in one batch with one of the k-th.
GetsItsOwn(i, k, lead, lag) ==
  LET p == passes[i]
      first == p.started - lead
      last == p.ended + lag
      alone == \A j \in 1..Len(passes) \ {i} : ~Overlaps(passes[j], first, last)
  IN  lead = lag \/ alone =>
        ResolveDirection(events, first, last, Least(first, passes[k].started),
                         Greatest(last, passes[k].ended)) =
          IF p.direction = None THEN "UNKNOWN" ELSE p.direction

\* An observation that reaches as far before its load's crossing as after it, or
\* that overlaps no other, gets the direction of its own load, alone or in one
\* batch with an observation of another load, although the events are those of
\* a window that may cut through other crossings.
OwnDirection ==
  \A i, k \in 1..Len(passes), lead, lag \in 0..Reach : GetsItsOwn(i, k, lead, lag)

\* "Break INNER then OUTER and something left" (direction.py): what the gate
\* says has gone through has.
GoneThrough ==
  \A i \in 1..Len(passes) :
    ResolveDirection(events, passes[i].started, passes[i].ended,
                     passes[i].started, passes[i].ended) # "UNKNOWN"
      => passes[i].crossed

=============================================================================
