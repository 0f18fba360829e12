----------------------------- MODULE Directions -----------------------------
(***************************************************************************)
(* services/debouncer/direction.py: the beam events of a gate to           *)
(* crossings, and the crossing that an observation belongs to.  INNER      *)
(* faces the warehouse, OUTER the street.  Module Gate checks these        *)
(* against loads that go through; module Pipeline uses them.               *)
(***************************************************************************)
EXTENDS Integers, Sequences, SequencesExt

CONSTANTS
    Timeout,      \* ir_gate_timeout_ms, in ticks
    LookupMargin  \* GATE_LOOKUP_MARGIN_S

ASSUME DirectionsAssumption == Timeout \in Nat /\ LookupMargin \in Nat

None == "NONE"
Never == -1                          \* of a time, None

FirstBeamDirection == [INNER |-> "OUT", OUTER |-> "IN"]

\* The local variables of crossings_from_events.
NoCrossing == [first |-> None, started |-> Never, direction |-> None]

Start(e) == [first |-> e.beam, started |-> e.at, direction |-> None]

\* Mutant: however late the second beam is.
ConfirmsLate(open, e) == open.direction = None /\ e.beam # open.first

Confirms(open, e) ==
  /\ open.direction = None /\ e.beam # open.first
  /\ e.at - open.started <= Timeout

BeamBreaks(acc, e) ==
  [acc EXCEPT
     !.broken = @ \cup {e.beam},
     !.open = IF acc.broken = {} THEN Start(e)
              ELSE IF Confirms(@, e)
                   THEN [@ EXCEPT !.direction = FirstBeamDirection[acc.open.first]]
                   ELSE @]

\* Mutant: a second row of the last CLEAR closes the crossing again.
BeamClearsTwice(acc, e) ==
  LET broken == acc.broken \ {e.beam}
      closes == broken = {}
  IN  [broken |-> broken,
       open |-> IF closes THEN NoCrossing ELSE acc.open,
       crossings |-> IF closes
                     THEN Append(acc.crossings,
                                 [direction |-> acc.open.direction,
                                  started |-> acc.open.started, ended |-> e.at])
                     ELSE acc.crossings]

BeamClears(acc, e) ==
  LET broken == acc.broken \ {e.beam}
      closes == broken = {} /\ acc.open # NoCrossing
  IN  [broken |-> broken,
       open |-> IF closes THEN NoCrossing ELSE acc.open,
       crossings |-> IF closes
                     THEN Append(acc.crossings,
                                 [direction |-> acc.open.direction,
                                  started |-> acc.open.started, ended |-> e.at])
                     ELSE acc.crossings]

NothingRead == [broken |-> {}, open |-> NoCrossing, crossings |-> <<>>]

AfterEvent(acc, e) == IF e.state = "BROKEN" THEN BeamBreaks(acc, e)
                                            ELSE BeamClears(acc, e)

AfterEvents(es) ==
  LET after[n \in 0..Len(es)] == IF n = 0 THEN NothingRead
                                          ELSE AfterEvent(after[n - 1], es[n])
  IN  after[Len(es)]

CrossingsFromEvents(es) == AfterEvents(es).crossings

Overlaps(c, first, last) == c.started <= last /\ c.ended >= first

\* Twice the distance of the midpoints.
Distance(c, first, last) ==
  LET d == (c.started + c.ended) - (first + last) IN IF d < 0 THEN -d ELSE d

Overlapping(first, last, crossings) ==
  {i \in DOMAIN crossings : Overlaps(crossings[i], first, last)}

\* Mutant: the earliest, not the nearest.
PrecedesInTime(i, j, first, last, crossings) == i <= j

\* min() takes the first of those that are as near.
Precedes(i, j, first, last, crossings) ==
  \/ Distance(crossings[i], first, last) < Distance(crossings[j], first, last)
  \/ /\ Distance(crossings[i], first, last) = Distance(crossings[j], first, last)
     /\ i <= j

DirectionForWindow(first, last, crossings) ==
  LET over == Overlapping(first, last, crossings)
  IN  IF over = {} THEN None
      ELSE crossings[CHOOSE i \in over :
                       \A j \in over : Precedes(i, j, first, last, crossings)].direction

\* ORDER BY occurred_at, id: a row comes after those that are as early.
Insert(rows, e) ==
  LET earlier == Cardinality({i \in DOMAIN rows : rows[i].at <= e.at})
  IN  InsertAt(rows, earlier + 1, e)

FetchGateEvents(events, from, to) ==
  LET fetched[n \in 0..Len(events)] ==
        IF n = 0 THEN <<>>
        ELSE LET rows == fetched[n - 1]
             IN  IF events[n].at \in from..to THEN Insert(rows, events[n]) ELSE rows
  IN  fetched[Len(events)]

\* Mutant: only what falls in the batch's own time.
ResolveDirectionInside(events, first, last, from, to) ==
  LET d == DirectionForWindow(first, last,
             CrossingsFromEvents(FetchGateEvents(events, from, to)))
  IN  IF d = None THEN "UNKNOWN" ELSE d

\* Mutant: what has no crossing is left NULL.
ResolveDirectionNull(events, first, last, from, to) ==
  DirectionForWindow(first, last,
    CrossingsFromEvents(FetchGateEvents(events, from - LookupMargin, to + LookupMargin)))

\* The direction of an observation, one of a batch that was read from `from`
\* to `to`.
ResolveDirection(events, first, last, from, to) ==
  LET d == DirectionForWindow(first, last,
             CrossingsFromEvents(FetchGateEvents(events, from - LookupMargin,
                                                 to + LookupMargin)))
  IN  IF d = None THEN "UNKNOWN" ELSE d

=============================================================================
