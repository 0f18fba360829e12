---------------------------- MODULE PipelineProofs ----------------------------
(***************************************************************************)
(* The composition of the simulator, delayed writes and the debouncer: it  *)
(* is a debouncer as module Debouncer has it, and it gives an observation  *)
(* the direction of a load that was in the beams while its tag was heard;  *)
(* for any portals, loads, delays, timeouts and margins that satisfy the   *)
(* assumptions, and any number of faults.                                  *)
(***************************************************************************)
EXTENDS Pipeline, DebouncerProofs, DirectionsProofs

-----------------------------------------------------------------------------
(* The inductive invariant *)

Beams == {"INNER", "OUTER"}

ReadRecords == [tag : Tags, antenna : Nat, at : Int, weak : BOOLEAN]

BeamEvents == [gate : Gates, beam : Beams, state : {"BROKEN", "CLEAR"}, at : Nat]

LoadRecords ==
  [command : {"box", "reverse", "pallet", "stray"}, portal : Portals,
   reads : SUBSET ReadRecords, gates : Seq(BeamEvents)]

MessageRecords ==
  [topic : {"reads"}, n : {0}, body : ReadRecords] \cup
  [topic : {"gates"}, n : 1..4, body : BeamEvents]

FirstBeamOf(load) == IF load.command = "reverse" THEN "OUTER" ELSE "INNER"
SecondBeamOf(load) == IF load.command = "reverse" THEN "INNER" ELSE "OUTER"

\* The beam events of a load that breaks the first beam at some time.
BeamsOf(load, at, separation, blocked) ==
  LET Event(beam, state, t) ==
        [gate |-> GateIdForPortal(load.portal), beam |-> beam, state |-> state, at |-> t]
  IN  <<Event(FirstBeamOf(load), "BROKEN", at),
        Event(SecondBeamOf(load), "BROKEN", at + separation),
        Event(FirstBeamOf(load), "CLEAR", at + blocked),
        Event(SecondBeamOf(load), "CLEAR", at + separation + blocked)>>

\* A load that crosses does so once, at a gate.
CrossesOnce(load) ==
  /\ load.portal \in Gated
  /\ \E separation \in 0..Separation, blocked \in 0..PalletBlocked :
       separation <= blocked /\ load.gates = BeamsOf(load, Starts(load), separation, blocked)

\* Loads cross one after another, and their messages are not late.
SimulatorInv ==
  /\ loads \in Seq(LoadRecords) /\ timelines \in Seq(SUBSET MessageRecords)
  /\ Len(timelines) = Len(loads) /\ Len(loads) + faults <= MaxEvents
  /\ \A i \in 1..Len(loads) :
       /\ Crosses(loads[i]) => CrossesOnce(loads[i])
       /\ \A m \in timelines[i] : m \in Messages(loads[i]) /\ now <= m.body.at + MaxDelay
  /\ \A i, j \in 1..Len(loads) :
       i < j /\ Crosses(loads[i]) /\ Crosses(loads[j]) => Ends(loads[i]) < Starts(loads[j])

\* The loads that go through a gate.
Through(g) == {i \in 1..Len(loads) : Crosses(loads[i]) /\ GateIdForPortal(loads[i].portal) = g}

\* A load's k-th beam event is still to be written.
IsDue(i, k) == [topic |-> "gates", n |-> k, body |-> loads[i].gates[k]] \in timelines[i]

\* The rows of a gate are the events of its loads, each once, and of each load in order.
RowsOf(g) ==
  LET es == gateEvents[g]
  IN  /\ es \in Seq(BeamEvents)
      /\ \A m \in 1..Len(es) : \E i \in Through(g), k \in 1..4 : es[m] = loads[i].gates[k]
      /\ \A i \in Through(g), k \in 1..4 :
           ~ IsDue(i, k) => \E m \in 1..Len(es) : es[m] = loads[i].gates[k]
      /\ \A i \in Through(g), k, l \in 1..4, m \in 1..Len(es) :
           es[m] = loads[i].gates[k] =>
             /\ IsDue(i, l) => k < l
             /\ \A n \in 1..Len(es) : m < n /\ es[n] = loads[i].gates[l] => k < l

GatesInv ==
  /\ DOMAIN gateEvents = Gates
  /\ \A g \in Gates : RowsOf(g)

\* A group is closed a quiet period after its last read, but for the last ones.
QuietInv ==
  pc \in {"absorb", "close", "commit"} => \A g \in finished : g.last + Quiet < now

Right(w) ==
  IF InTheBeams(w) = {} THEN w.direction = "UNKNOWN"
  ELSE w.direction \in {DirectionOf(l) : l \in InTheBeams(w)}

\* A load that comes later is not in the beams while their tags were heard.
DirectionsInv ==
  /\ resolved # {} => pc \in {"commit", "final"}
  /\ \A r \in resolved :
       /\ r.group \in finished /\ r.group.key[2] \in Gated
       /\ r.direction \in {"IN", "OUT", "UNKNOWN"}
       /\ pc = "commit" => Right(r)
  /\ {w.group : w \in written} = Observed
  /\ \A w \in written :
       ~ w.flushed => /\ w.group.last + Quiet < now
                      /\ w.group.key[2] \in Gated => Right(w)

PipelineInv ==
  DebouncerInv /\ SimulatorInv /\ GatesInv /\ QuietInv /\ DirectionsInv

-----------------------------------------------------------------------------
(* Facts about the constants, and what the simulator makes *)

\* The lengths of time are natural numbers.
LEMMA Times ==
  /\ Quiet \in Nat /\ MaxDelay \in Nat /\ MaxNow \in Nat /\ MaxFaults \in Nat
  /\ PassDuration \in Nat /\ PassDuration \div 2 \in Nat /\ Stagger \in Nat
  /\ Separation \in Nat /\ BoxBlocked \in Nat /\ PalletBlocked \in Nat /\ Parked \in Nat
  /\ Separation <= BoxBlocked /\ BoxBlocked <= PalletBlocked /\ Stagger <= MaxDelay
  /\ Timeout \in Nat /\ LookupMargin \in Nat
<1>1. PassDuration \in Nat /\ PassDuration \div 2 \in Nat
  BY SimulatorAssumption
<1> QED
  BY <1>1, SimulatorAssumption, DebouncerAssumption, DirectionsAssumption, PipelineAssumption

\* Each antenna is under a portal, or under none.
LEMMA Antennas ==
  /\ \A p \in Portals : AntennasForPortal(p) \subseteq Nat
  /\ \A a : PortalByAntenna(a) \in Portals \cup {Absent}
<1>1. \A p \in Portals : AntennasForPortal(p) \subseteq Nat
  BY ConfigAssumption DEF AntennasForPortal, Portals, Default
<1>2. ASSUME NEW a PROVE PortalByAntenna(a) \in Portals \cup {Absent}
  <2>1. CASE a \in AntennasForPortal("EXIT")
    BY <2>1 DEF PortalByAntenna, Portals
  <2>2. CASE a \in AntennasForPortal("ENTRANCE") \ AntennasForPortal("EXIT")
    BY <2>2 DEF PortalByAntenna, Portals
  <2>3. CASE a \notin AntennasForPortal("ENTRANCE") /\ a \notin AntennasForPortal("EXIT")
    BY <2>3 DEF PortalByAntenna
  <2> QED
    BY <2>1, <2>2, <2>3
<1> QED
  BY <1>1, <1>2

\* What a tag may give is read by some antenna, from a time on.
LEMMA ReadsTyped ==
  ASSUME NEW tag \in Tags, NEW antennas \in SUBSET Nat, NEW start \in Int, NEW n \in Nat,
         NEW strengths, DOMAIN strengths = 0..(n - 1),
         NEW R \in ReadsAt(tag, antennas, start, strengths)
  PROVE  R \in SUBSET ReadRecords /\ \A r \in R : start <= r.at
<1> DEFINE Heard(o) == {[tag |-> tag, antenna |-> a, at |-> start + o, weak |-> s < Floor] :
                          a \in antennas, s \in {s \in strengths[o] : Answers(s)}}
<1>1. R \subseteq UNION {Heard(o) : o \in DOMAIN strengths}
  BY DEF ReadsAt
<1>2. ASSUME NEW r \in R PROVE r \in ReadRecords /\ start <= r.at
  <2>1. PICK o \in 0..(n - 1) : r \in Heard(o)
    <3> HIDE DEF Heard
    <3> QED
      BY <1>1
  <2>2. PICK a \in antennas, s \in strengths[o] : r = [tag |-> tag, antenna |-> a, at |-> start + o,
                                      weak |-> s < Floor]
    BY <2>1
  <2> QED
    BY <2>2 DEF ReadRecords
<1> QED
  BY <1>2

\* Four beam events are in the middle of the pass, or none.
LEMMA CrossingMade ==
  ASSUME NEW load, NEW start \in Nat, NEW separation \in 0..Separation,
         NEW blocked \in {BoxBlocked, PalletBlocked}, load.portal \in Portals,
         NEW reverse, reverse = TRUE <=> load.command = "reverse",
         reverse = FALSE <=> load.command # "reverse",
         load.gates = CrossingFor(load.portal, start, blocked, separation, reverse)
  PROVE  /\ load.gates \in Seq(BeamEvents)
         /\ Crosses(load) => CrossesOnce(load) /\ Starts(load) \in Nat /\ start <= Starts(load)
<1>1. CASE load.portal \notin Gated
  BY <1>1 DEF CrossingFor, Crosses
<1>2. CASE load.portal \in Gated
  <2> DEFINE gate == GateIdForPortal(load.portal)
             at == start + PassDuration \div 2
             Event(beam, state, t) == [gate |-> gate, beam |-> beam, state |-> state, at |-> t]
             es == BeamsOf(load, at, separation, blocked)
  <2>1. load.gates = es
    BY <1>2 DEF CrossingFor, GateCrossing, FirstBeamOf, SecondBeamOf, BeamsOf
  <2>2. /\ at \in Nat /\ start <= at /\ separation \in Nat /\ blocked \in Nat
        /\ separation <= blocked /\ blocked <= PalletBlocked
    BY Times
  <2>3. gate \in Gates /\ FirstBeamOf(load) \in Beams /\ SecondBeamOf(load) \in Beams
    BY <1>2 DEF Gates, FirstBeamOf, SecondBeamOf, Beams
  <2>4. \A b \in Beams, s \in {"BROKEN", "CLEAR"}, t \in Nat : Event(b, s, t) \in BeamEvents
    BY <2>3 DEF BeamEvents
  <2>5. es \in Seq(BeamEvents)
    <3>1. /\ Event(FirstBeamOf(load), "BROKEN", at) \in BeamEvents
          /\ Event(SecondBeamOf(load), "BROKEN", at + separation) \in BeamEvents
          /\ Event(FirstBeamOf(load), "CLEAR", at + blocked) \in BeamEvents
          /\ Event(SecondBeamOf(load), "CLEAR", at + separation + blocked) \in BeamEvents
      BY <2>2, <2>3, <2>4
    <3>2. es = <<Event(FirstBeamOf(load), "BROKEN", at),
                 Event(SecondBeamOf(load), "BROKEN", at + separation),
                 Event(FirstBeamOf(load), "CLEAR", at + blocked),
                 Event(SecondBeamOf(load), "CLEAR", at + separation + blocked)>>
      BY DEF BeamsOf
    <3> HIDE DEF Event, at, es
    <3> QED
      BY <3>1, <3>2
  <2>6. Starts(load) = at
    BY <2>1 DEF Starts, BeamsOf
  <2>7. CrossesOnce(load)
    <3> HIDE DEF at
    <3>1. blocked \in 0..PalletBlocked
      BY <2>2, Times
    <3> QED
      BY <1>2, <2>1, <2>2, <2>6, <3>1 DEF CrossesOnce
  <2> QED
    BY <2>1, <2>2, <2>5, <2>6, <2>7
<1> QED
  BY <1>1, <1>2

\* The four events of a load that crosses.
LEMMA FourEvents ==
  ASSUME NEW load \in LoadRecords, CrossesOnce(load)
  PROVE  LET es == load.gates
         IN  /\ Len(es) = 4
             /\ \A k \in 1..4 : /\ es[k] \in BeamEvents /\ es[k].at \in Nat
                                /\ es[k].gate = GateIdForPortal(load.portal)
             /\ es[1].beam = FirstBeamOf(load) /\ es[1].state = "BROKEN"
             /\ es[2].beam = SecondBeamOf(load) /\ es[2].state = "BROKEN"
             /\ es[3].beam = FirstBeamOf(load) /\ es[3].state = "CLEAR"
             /\ es[4].beam = SecondBeamOf(load) /\ es[4].state = "CLEAR"
             /\ es[1].at = Starts(load) /\ es[4].at = Ends(load)
             /\ \A k, l \in 1..4 : k <= l => es[k].at <= es[l].at
             /\ es[2].at - es[1].at <= Separation
             /\ es[4].at - es[1].at <= PalletBlocked + Separation
             /\ \A k, l \in 1..4 : es[k] = es[l] => k = l
<1> DEFINE es == load.gates
           at == Starts(load)
           gate == GateIdForPortal(load.portal)
           Event(beam, state, t) == [gate |-> gate, beam |-> beam, state |-> state, at |-> t]
<1>1. PICK separation \in 0..Separation, blocked \in 0..PalletBlocked :
        separation <= blocked /\ es = BeamsOf(load, at, separation, blocked)
  BY DEF CrossesOnce
<1>2. /\ Len(es) = 4
      /\ es[1] = Event(FirstBeamOf(load), "BROKEN", at)
      /\ es[2] = Event(SecondBeamOf(load), "BROKEN", at + separation)
      /\ es[3] = Event(FirstBeamOf(load), "CLEAR", at + blocked)
      /\ es[4] = Event(SecondBeamOf(load), "CLEAR", at + separation + blocked)
  <2> HIDE DEF at, es, gate
  <2>1. /\ Len(BeamsOf(load, at, separation, blocked)) = 4
        /\ BeamsOf(load, at, separation, blocked)[1] = Event(FirstBeamOf(load), "BROKEN", at)
        /\ BeamsOf(load, at, separation, blocked)[2]
             = Event(SecondBeamOf(load), "BROKEN", at + separation)
        /\ BeamsOf(load, at, separation, blocked)[3]
             = Event(FirstBeamOf(load), "CLEAR", at + blocked)
        /\ BeamsOf(load, at, separation, blocked)[4]
             = Event(SecondBeamOf(load), "CLEAR", at + separation + blocked)
    BY DEF BeamsOf, gate
  <2> QED
    BY <1>1, <2>1
<1>3. \A k \in 1..4 : es[k] \in BeamEvents
  BY <1>2 DEF LoadRecords
<1>4. at \in Nat
  BY <1>2, <1>3 DEF BeamEvents
<1>5. FirstBeamOf(load) # SecondBeamOf(load)
  BY DEF FirstBeamOf, SecondBeamOf
<1>6. /\ separation \in Nat /\ separation <= Separation /\ Separation \in Nat
      /\ blocked \in Nat /\ blocked <= PalletBlocked /\ PalletBlocked \in Nat
      /\ separation <= blocked
  BY <1>1, Times
<1>7. at = Starts(load) /\ es[4].at = Ends(load)
  <2>1. Last(es) = es[4]
    BY <1>2 DEF Last
  <2> QED
    BY <2>1 DEF Ends
<1> HIDE DEF at, es, gate
<1>8. /\ es[1].at = at /\ es[2].at = at + separation /\ es[3].at = at + blocked
      /\ es[4].at = at + separation + blocked
      /\ es[1].beam = FirstBeamOf(load) /\ es[1].state = "BROKEN"
      /\ es[2].beam = SecondBeamOf(load) /\ es[2].state = "BROKEN"
      /\ es[3].beam = FirstBeamOf(load) /\ es[3].state = "CLEAR"
      /\ es[4].beam = SecondBeamOf(load) /\ es[4].state = "CLEAR"
      /\ \A k \in 1..4 : es[k].gate = gate
  BY <1>2
<1>9. \A k, l \in 1..4 : k <= l => es[k].at <= es[l].at
  <2> SUFFICES ASSUME NEW k \in 1..4, NEW l \in 1..4, k <= l
               PROVE  es[k].at <= es[l].at
    OBVIOUS
  <2>1. (k = 1 \/ k = 2 \/ k = 3 \/ k = 4) /\ (l = 1 \/ l = 2 \/ l = 3 \/ l = 4)
    OBVIOUS
  <2> QED
    BY <1>4, <1>6, <1>8, <2>1
<1>10. \A k, l \in 1..4 : es[k] = es[l] => k = l
  <2> SUFFICES ASSUME NEW k \in 1..4, NEW l \in 1..4, es[k] = es[l]
               PROVE  k = l
    OBVIOUS
  <2>1. (k = 1 \/ k = 2 \/ k = 3 \/ k = 4) /\ (l = 1 \/ l = 2 \/ l = 3 \/ l = 4)
    OBVIOUS
  <2> QED
    BY <1>5, <1>8, <2>1
<1>11. \A k \in 1..4 : es[k].at \in Nat
  BY <1>3 DEF BeamEvents
<1> QED
  BY <1>2, <1>3, <1>4, <1>6, <1>7, <1>8, <1>9, <1>10, <1>11 DEF at, es, gate

\* What holds of every load that a command makes.
Made(load, portal, start) ==
  /\ load \in LoadRecords /\ load.portal = portal
  /\ \A r \in load.reads : start - Stagger <= r.at
  /\ Crosses(load) => CrossesOnce(load) /\ Starts(load) \in Nat /\ start <= Starts(load)

\* A load in its parts.
LEMMA MadeOf ==
  ASSUME NEW command \in {"box", "reverse", "pallet", "stray"}, NEW portal \in Portals,
         NEW start \in Nat, NEW R \in SUBSET ReadRecords, \A r \in R : start - Stagger <= r.at,
         NEW es,
         \/ es = <<>>
         \/ \E separation \in 0..Separation, blocked \in {BoxBlocked, PalletBlocked},
                reverse \in BOOLEAN :
              /\ reverse <=> command = "reverse"
              /\ es = CrossingFor(portal, start, blocked, separation, reverse)
  PROVE  Made(Load(command, portal, R, es), portal, start)
<1> DEFINE load == Load(command, portal, R, es)
<1>1. /\ load.command = command /\ load.portal = portal /\ load.reads = R /\ load.gates = es
      /\ load = [command |-> command, portal |-> portal, reads |-> R, gates |-> es]
  BY DEF Load
<1> HIDE DEF load
<1>2. /\ es \in Seq(BeamEvents)
      /\ Crosses(load) => CrossesOnce(load) /\ Starts(load) \in Nat /\ start <= Starts(load)
  <2>1. CASE es = <<>>
    BY <1>1, <2>1 DEF Crosses
  <2>2. CASE es # <<>>
    <3>1. PICK separation \in 0..Separation, blocked \in {BoxBlocked, PalletBlocked},
               reverse \in BOOLEAN :
            /\ reverse <=> command = "reverse"
            /\ es = CrossingFor(portal, start, blocked, separation, reverse)
      BY <2>2
    <3>2. /\ load.gates = CrossingFor(load.portal, start, blocked, separation, reverse)
          /\ reverse = TRUE <=> load.command = "reverse"
          /\ reverse = FALSE <=> load.command # "reverse"
      BY <1>1, <3>1
    <3>3. load.portal \in Portals
      BY <1>1
    <3> QED
      BY <1>1, <3>2, <3>3, CrossingMade
  <2> QED
    BY <2>1, <2>2
<1>3. load \in LoadRecords
  BY <1>1, <1>2 DEF LoadRecords
<1> QED
  BY <1>1, <1>2, <1>3 DEF Made, load

\* Every command makes such loads.
LEMMA LoadsAreMade ==
  ASSUME NEW command \in {"box", "reverse", "pallet", "stray"}, NEW tag \in Tags,
         NEW other \in Tags, NEW portal \in Portals, NEW start \in Nat,
         NEW load \in LoadsOf(command, tag, other, portal, start)
  PROVE  Made(load, portal, start)
<1>0. /\ AntennasForPortal(portal) \in SUBSET Nat /\ PassDuration \in Nat /\ Parked \in Nat
      /\ Stagger \in Nat /\ start \in Int
  BY Times, Antennas
<1>1. ASSUME NEW t \in Tags, NEW from \in Int, NEW attenuation,
             NEW R \in PassReads(t, AntennasForPortal(portal), from, attenuation)
      PROVE  R \in SUBSET ReadRecords /\ \A r \in R : from <= r.at
  BY <1>0, <1>1, ReadsTyped DEF PassReads
<1>2. CASE command \in {"box", "reverse"}
  <2>1. load \in Carried(command, tag, portal, start)
    BY <1>2 DEF LoadsOf
  <2> DEFINE reverse == command = "reverse"
  <2>2. PICK R \in PassReads(tag, AntennasForPortal(portal), start, 0),
             separation \in 0..Separation :
          load = Load(command, portal, R,
                      CrossingFor(portal, start, BoxBlocked, separation, reverse))
    BY <2>1 DEF Carried
  <2>3. R \in SUBSET ReadRecords /\ \A r \in R : start - Stagger <= r.at
    <3>1. R \in SUBSET ReadRecords /\ \A r \in R : start <= r.at
      BY <1>0, <1>1
    <3>2. \A r \in R : r.at \in Int
      BY <3>1 DEF ReadRecords
    <3> QED
      BY <1>0, <3>1, <3>2
  <2>4. reverse \in BOOLEAN /\ (reverse <=> command = "reverse")
    OBVIOUS
  <2> HIDE DEF reverse
  <2> DEFINE es == CrossingFor(portal, start, BoxBlocked, separation, reverse)
  <2>5. \E s \in 0..Separation, blocked \in {BoxBlocked, PalletBlocked}, r \in BOOLEAN :
          /\ r <=> command = "reverse"
          /\ es = CrossingFor(portal, start, blocked, s, r)
    BY <2>4
  <2> HIDE DEF es
  <2>6. Made(Load(command, portal, R, es), portal, start)
    BY <2>3, <2>5, MadeOf
  <2> QED
    BY <2>2, <2>6 DEF es
<1>3. CASE command = "pallet"
  <2>1. load \in Pallet(tag, other, portal, start)
    BY <1>3 DEF LoadsOf
  <2> DEFINE reverse == FALSE
             Own == PassReads(tag, AntennasForPortal(portal), start, PalletAttenuation)
             Crossing(separation) ==
               CrossingFor(portal, start, PalletBlocked, separation, reverse)
             Of(own, boxed, separation) ==
               Load("pallet", portal, own \cup boxed, Crossing(separation))
  <2>2. PICK own \in Own, boxed \in Boxed(other, portal, start), separation \in 0..Separation :
          load = Of(own, boxed, separation)
    <3>1. Pallet(tag, other, portal, start) =
            {Of(own, boxed, separation) : own \in Own, boxed \in Boxed(other, portal, start),
                                          separation \in 0..Separation}
      BY DEF Pallet
    <3> HIDE DEF Of, Own
    <3> QED
      BY <2>1, <3>1
  <2>3. PICK stagger \in -Stagger..Stagger, attenuation \in Attenuations :
          boxed \in PassReads(other, AntennasForPortal(portal), start + stagger, attenuation)
    BY <2>2 DEF Boxed
  <2>4. own \in SUBSET ReadRecords /\ \A r \in own : start <= r.at
    BY <1>0, <1>1
  <2>5. boxed \in SUBSET ReadRecords /\ \A r \in boxed : start + stagger <= r.at
    <3>1. start + stagger \in Int
      BY <1>0
    <3> QED
      BY <1>1, <2>3, <3>1
  <2>6. own \cup boxed \in SUBSET ReadRecords /\ \A r \in own \cup boxed : start - Stagger <= r.at
    <3>1. \A r \in own \cup boxed : r.at \in Int
      BY <2>4, <2>5 DEF ReadRecords
    <3> QED
      BY <1>0, <2>4, <2>5, <3>1
  <2>7. (reverse <=> command = "reverse") /\ reverse \in BOOLEAN
    BY <1>3
  <2> HIDE DEF reverse
  <2> DEFINE es == Crossing(separation)
  <2>8. \E s \in 0..Separation, blocked \in {BoxBlocked, PalletBlocked}, r \in BOOLEAN :
          /\ r <=> command = "reverse"
          /\ es = CrossingFor(portal, start, blocked, s, r)
    BY <2>7
  <2> HIDE DEF es, Crossing
  <2>9. Made(Load(command, portal, own \cup boxed, es), portal, start)
    BY <2>6, <2>8, MadeOf
  <2> QED
    BY <1>3, <2>2, <2>9 DEF es
<1>4. CASE command = "stray"
  <2>1. load \in Stray(tag, portal, start)
    BY <1>4 DEF LoadsOf
  <2>2. PICK R \in StrayReads(tag, AntennasForPortal(portal), start) :
          load = Load("stray", portal, R, <<>>)
    BY <2>1 DEF Stray
  <2>3. R \in SUBSET ReadRecords /\ \A r \in R : start <= r.at
    BY <1>0, ReadsTyped DEF StrayReads
  <2>4. \A r \in R : start - Stagger <= r.at
    <3>1. \A r \in R : r.at \in Int
      BY <2>3 DEF ReadRecords
    <3> QED
      BY <1>0, <2>3, <3>1
  <2> QED
    BY <1>4, <2>2, <2>3, <2>4, MadeOf
<1> QED
  BY <1>2, <1>3, <1>4

-----------------------------------------------------------------------------
(* The debouncer does what module Debouncer says *)

\* What the invariant says of a message that is not written yet.
LEMMA Undelivered ==
  ASSUME PipelineInv, NEW i \in 1..Len(timelines), NEW m \in timelines[i]
  PROVE  /\ i \in 1..Len(loads) /\ loads[i] \in LoadRecords
         /\ m \in Messages(loads[i]) /\ m \in MessageRecords
         /\ m.body.at \in Int /\ now <= m.body.at + MaxDelay /\ now \in Nat
<1>1. /\ Len(timelines) = Len(loads) /\ loads \in Seq(LoadRecords)
      /\ timelines \in Seq(SUBSET MessageRecords)
  BY DEF PipelineInv, SimulatorInv
<1>2. i \in 1..Len(loads) /\ loads[i] \in LoadRecords /\ timelines[i] \in SUBSET MessageRecords
  BY <1>1
<1>3. m \in MessageRecords /\ m.body.at \in Int
  BY <1>2 DEF MessageRecords, ReadRecords, BeamEvents
<1>4. now \in Nat
  BY Typed DEF PipelineInv, DebouncerInv
<1> QED
  BY <1>2, <1>3, <1>4 DEF PipelineInv, SimulatorInv

\* A read is written within the delay, under its key.
LEMMA DeliverArrives ==
  ASSUME PipelineInv, NEW i \in 1..Len(timelines), NEW m \in timelines[i], Deliver(i, m)
  PROVE  [Next]_vars
<1>1. CASE m.topic = "gates"
  BY <1>1 DEF Deliver
<1>2. CASE m.topic = "reads"
  <2>1. m.body \in ReadRecords
    BY <1>2, Undelivered DEF MessageRecords
  <2>2. <<m.body.tag, PortalByAntenna(m.body.antenna)>> \in Keys
    BY <2>1, Antennas, PipelineAssumption DEF ReadRecords
  <2>3. now - m.body.at \in 0..MaxDelay
    <3>1. m.body.at <= now
      BY DEF Deliver
    <3> QED
      BY <3>1, Undelivered, Times
  <2>4. (IF m.body.weak THEN "weak" ELSE "strong") \in Rssis
    BY PipelineAssumption
  <2>5. ReadArrives(<<m.body.tag, PortalByAntenna(m.body.antenna)>>,
                    now - m.body.at, IF m.body.weak THEN "weak" ELSE "strong")
    BY <1>2 DEF Deliver
  <2> QED
    BY <2>2, <2>3, <2>4, <2>5 DEF Next
<1> QED
  BY <1>1, <1>2, Undelivered DEF MessageRecords

\* A load that is run, and a query, leave the debouncer alone; each other step is one of its own.
LEMMA StepsOfTheDebouncer ==
  ASSUME PipelineInv, [PipelineNext]_pipelineVars
  PROVE  [Next]_vars
<1>1. CASE \E c \in Commands, tag, other \in Tags : tag # other /\ Run(c[1], tag, other, c[2])
  BY <1>1 DEF Run
<1>2. CASE \E i \in 1..Len(timelines) : \E m \in timelines[i] : Deliver(i, m)
  BY <1>2, DeliverArrives
<1>3. CASE Clock
  BY <1>3 DEF Clock, Next
<1>4. CASE Debounce
  BY <1>4 DEF Debounce, Next
<1>5. CASE WriteObservations
  BY <1>5 DEF WriteObservations, Next
<1>6. CASE Stops \/ Crashes
  BY <1>6 DEF Stops, Crashes, Next
<1>7. CASE \E p \in Portals : ResolveDirections(p)
  BY <1>7 DEF ResolveDirections
<1>8. CASE UNCHANGED pipelineVars
  BY <1>8 DEF pipelineVars
<1> QED
  BY <1>1, <1>2, <1>3, <1>4, <1>5, <1>6, <1>7, <1>8 DEF PipelineNext

\* So its invariant is kept.
LEMMA DebouncerKept ==
  ASSUME PipelineInv, [PipelineNext]_pipelineVars
  PROVE  DebouncerInv'
BY StepsOfTheDebouncer, NextDebouncer DEF PipelineInv

\* The steps of the debouncer that are not the clock's move neither time nor loads.
LEMMA StepsApart ==
  ASSUME PipelineInv, \/ Debounce \/ WriteObservations \/ Stops \/ Crashes
                      \/ \E p \in Portals : ResolveDirections(p)
  PROVE  /\ UNCHANGED <<now, loads, timelines, gateEvents>>
         /\ faults' = faults \/ (Eventful /\ faults' = faults + 1)
<1>1. CASE Debounce
  BY <1>1 DEF Debounce, LoadCursor, FetchReads, FetchReturns, FetchFails, Fault, Absorb,
              CloseQuietGroups, Flush, Restart, simVars
<1>2. CASE WriteObservations
  BY <1>2 DEF WriteObservations, Commit, CommitFails, Fault, simVars
<1>3. CASE Stops \/ Crashes
  BY <1>3 DEF Stops, Crashes, RequestStop, Crash, Fault, simVars
<1>4. CASE \E p \in Portals : ResolveDirections(p)
  BY <1>4 DEF ResolveDirections, vars, simVars
<1> QED
  BY <1>1, <1>2, <1>3, <1>4

-----------------------------------------------------------------------------
(* The simulator and its messages *)

\* A load that is run comes after all that are in the beams, and its messages are in time.
LEMMA RunKeeps ==
  ASSUME PipelineInv,
         \E c \in Commands, tag, other \in Tags : tag # other /\ Run(c[1], tag, other, c[2])
  PROVE  SimulatorInv'
<1>1. PICK c \in Commands, tag \in Tags, other \in Tags : Run(c[1], tag, other, c[2])
  OBVIOUS
<1>2. PICK load \in LoadsOf(c[1], tag, other, c[2], now) :
        /\ OneInTheGate(load)
        /\ loads' = Append(loads, load)
        /\ timelines' = Append(timelines, Messages(load))
  BY <1>1 DEF Run
<1>3. c[1] \in {"box", "reverse", "pallet", "stray"} /\ c[2] \in Portals
  BY PipelineAssumption
<1>4. now \in Nat /\ faults \in Nat /\ MaxEvents \in Nat /\ UNCHANGED <<now, faults>>
  BY <1>1, Typed, PipelineAssumption DEF PipelineInv, DebouncerInv, TypeOK, Run, vars
<1>5. Made(load, c[2], now)
  BY <1>2, <1>3, <1>4, LoadsAreMade
<1> DEFINE n == Len(loads)
<1>6. /\ loads \in Seq(LoadRecords) /\ timelines \in Seq(SUBSET MessageRecords)
      /\ n \in Nat /\ Len(timelines) = n
  BY DEF PipelineInv, SimulatorInv
<1>7. Messages(load) \in SUBSET MessageRecords
  <2>1. load.reads \in SUBSET ReadRecords /\ load.gates \in Seq(BeamEvents)
    BY <1>5 DEF Made, LoadRecords
  <2>2. Len(load.gates) <= 4
    <3>1. CASE Crosses(load)
      <4>1. load \in LoadRecords /\ CrossesOnce(load)
        BY <1>5, <3>1 DEF Made
      <4>2. Len(load.gates) = 4
        BY <4>1, FourEvents
      <4> QED
        BY <4>2
    <3>2. CASE ~ Crosses(load)
      BY <3>2 DEF Crosses
    <3> QED
      BY <3>1, <3>2
  <2>3. \A k \in 1..Len(load.gates) : k \in 1..4 /\ load.gates[k] \in BeamEvents
    BY <2>1, <2>2
  <2> QED
    BY <2>1, <2>3 DEF Messages, MessageRecords
<1>8. /\ loads' \in Seq(LoadRecords) /\ timelines' \in Seq(SUBSET MessageRecords)
      /\ Len(loads') = n + 1 /\ Len(timelines') = n + 1
      /\ loads'[n + 1] = load /\ timelines'[n + 1] = Messages(load)
      /\ \A i \in 1..n : loads'[i] = loads[i] /\ timelines'[i] = timelines[i]
  <2>1. load \in LoadRecords
    BY <1>5 DEF Made
  <2> QED
    BY <1>2, <1>6, <1>7, <2>1
<1>9. Len(loads') + faults' <= MaxEvents
  BY <1>1, <1>4, <1>6, <1>8 DEF Run, Eventful
<1>10. ASSUME NEW i \in 1..(n + 1)
       PROVE  /\ Crosses(loads'[i]) => CrossesOnce(loads'[i])
              /\ \A m \in timelines'[i] : m \in Messages(loads'[i]) /\ now' <= m.body.at + MaxDelay
  <2>1. CASE i = n + 1
    <3>1. \A m \in Messages(load) : now <= m.body.at + MaxDelay
      <4> SUFFICES ASSUME NEW m \in Messages(load) PROVE now <= m.body.at + MaxDelay
        OBVIOUS
      <4>1. CASE m.topic = "reads"
        <5>1. m.body \in load.reads /\ m.body.at \in Int
          BY <1>7, <4>1 DEF Messages, MessageRecords, ReadRecords
        <5> QED
          BY <1>4, <1>5, <5>1, Times DEF Made
      <4>2. CASE m.topic = "gates"
        <5>1. PICK k \in 1..Len(load.gates) : m.body = load.gates[k]
          BY <4>2 DEF Messages
        <5>2. Crosses(load)
          BY <5>1 DEF Crosses
        <5>3. CrossesOnce(load) /\ Starts(load) \in Nat /\ now <= Starts(load)
          BY <1>5, <5>2 DEF Made
        <5>4. m.body.at >= Starts(load) /\ m.body.at \in Nat
          <6>1. load \in LoadRecords
            BY <1>5 DEF Made
          <6>2. Len(load.gates) = 4 /\ load.gates[1].at = Starts(load)
            BY <5>3, <6>1, FourEvents
          <6>3. k \in 1..4 /\ load.gates[1].at <= load.gates[k].at /\ load.gates[k].at \in Nat
            BY <5>1, <5>3, <6>1, <6>2, FourEvents
          <6> QED
            BY <5>1, <6>2, <6>3
        <5> QED
          BY <1>4, <5>3, <5>4, Times
      <4> QED
        BY <4>1, <4>2 DEF Messages
    <3> QED
      BY <1>4, <1>5, <1>8, <2>1, <3>1 DEF Made
  <2>2. CASE i \in 1..n
    BY <1>4, <1>8, <2>2 DEF PipelineInv, SimulatorInv
  <2> QED
    BY <1>6, <2>1, <2>2
<1>11. ASSUME NEW i \in 1..(n + 1), NEW j \in 1..(n + 1),
              i < j, Crosses(loads'[i]), Crosses(loads'[j])
       PROVE  Ends(loads'[i]) < Starts(loads'[j])
  <2>1. i \in 1..n
    BY <1>6, <1>11
  <2>2. CASE j = n + 1
    BY <1>2, <1>8, <1>11, <2>1, <2>2 DEF OneInTheGate
  <2>3. CASE j \in 1..n
    BY <1>8, <1>11, <2>1, <2>3 DEF PipelineInv, SimulatorInv
  <2> QED
    BY <1>6, <2>2, <2>3
<1> HIDE DEF n
<1> QED
  BY <1>8, <1>9, <1>10, <1>11 DEF SimulatorInv

\* What is written is out of the timeline; time passes when no message is late.
LEMMA SimulatorKept ==
  ASSUME PipelineInv, [PipelineNext]_pipelineVars
  PROVE  SimulatorInv'
<1>0. now \in Nat /\ faults \in Nat /\ loads \in Seq(LoadRecords)
  BY Typed DEF PipelineInv, DebouncerInv, TypeOK, SimulatorInv
<1>1. CASE \E c \in Commands, tag, other \in Tags : tag # other /\ Run(c[1], tag, other, c[2])
  BY <1>1, RunKeeps
<1>2. CASE \E i \in 1..Len(timelines) : \E m \in timelines[i] : Deliver(i, m)
  <2>1. PICK i \in 1..Len(timelines) : \E m \in timelines[i] : Deliver(i, m)
    BY <1>2
  <2>2. PICK m \in timelines[i] : Deliver(i, m)
    BY <2>1
  <2>3. timelines' = [timelines EXCEPT ![i] = @ \ {m}] /\ UNCHANGED <<now, faults, loads>>
    BY <2>2 DEF Deliver, ReadArrives, vars
  <2>4. /\ timelines \in Seq(SUBSET MessageRecords)
        /\ timelines' \in Seq(SUBSET MessageRecords) /\ Len(timelines') = Len(timelines)
        /\ \A j \in 1..Len(timelines) : timelines'[j] \subseteq timelines[j]
    BY <2>3 DEF PipelineInv, SimulatorInv
  <2> QED
    BY <2>3, <2>4 DEF PipelineInv, SimulatorInv
<1>3. CASE Clock
  <2>1. now' = now + 1 /\ UNCHANGED <<faults, loads, timelines>> /\ InTime
    BY <1>3 DEF Clock, Tick, simVars
  <2>2. ASSUME NEW i \in 1..Len(timelines), NEW m \in timelines[i]
        PROVE  now' <= m.body.at + MaxDelay
    <3>1. now < m.body.at + MaxDelay
      BY <2>1 DEF InTime
    <3> QED
      BY <1>0, <2>1, <3>1, Undelivered, Times
  <2> QED
    BY <2>1, <2>2 DEF PipelineInv, SimulatorInv
<1>4. CASE \/ Debounce \/ WriteObservations \/ Stops \/ Crashes
           \/ \E p \in Portals : ResolveDirections(p)
  <2>1. /\ UNCHANGED <<now, loads, timelines>>
        /\ faults' = faults \/ (Eventful /\ faults' = faults + 1)
    BY <1>4, StepsApart
  <2>2. Len(loads') + faults' <= MaxEvents
    <3>1. Len(loads) + faults <= MaxEvents /\ Len(loads) \in Nat
      BY <1>0 DEF PipelineInv, SimulatorInv
    <3> QED
      BY <1>0, <2>1, <3>1, PipelineAssumption DEF Eventful
  <2> QED
    BY <2>1, <2>2 DEF PipelineInv, SimulatorInv
<1>5. CASE UNCHANGED pipelineVars
  BY <1>5 DEF PipelineInv, SimulatorInv, pipelineVars, simVars, vars
<1> QED
  BY <1>1, <1>2, <1>3, <1>4, <1>5 DEF PipelineNext

-----------------------------------------------------------------------------
(* The rows of gate_events *)

\* A load that crosses has the four events, and they are in the times of that load.
LEMMA EventsOfALoad ==
  ASSUME PipelineInv, NEW i \in 1..Len(loads), Crosses(loads[i])
  PROVE  /\ loads[i] \in LoadRecords /\ CrossesOnce(loads[i])
         /\ loads[i].portal \in Gated /\ GateIdForPortal(loads[i].portal) \in Gates
         /\ Starts(loads[i]) \in Nat /\ Ends(loads[i]) \in Nat
         /\ Ends(loads[i]) - Starts(loads[i]) <= PalletBlocked + Separation
         /\ \A k \in 1..4 : /\ loads[i].gates[k] \in BeamEvents
                            /\ loads[i].gates[k].gate = GateIdForPortal(loads[i].portal)
                            /\ loads[i].gates[k].at \in Nat
                            /\ Starts(loads[i]) <= loads[i].gates[k].at
                            /\ loads[i].gates[k].at <= Ends(loads[i])
<1>1. loads[i] \in LoadRecords /\ CrossesOnce(loads[i])
  BY DEF PipelineInv, SimulatorInv
<1> DEFINE es == loads[i].gates
<1>2. /\ \A k \in 1..4 : /\ es[k] \in BeamEvents /\ es[k].at \in Nat
                         /\ es[k].gate = GateIdForPortal(loads[i].portal)
      /\ es[1].at = Starts(loads[i]) /\ es[4].at = Ends(loads[i])
      /\ \A k, l \in 1..4 : k <= l => es[k].at <= es[l].at
      /\ es[4].at - es[1].at <= PalletBlocked + Separation
  BY <1>1, FourEvents
<1>3. loads[i].portal \in Gated
  BY <1>1 DEF CrossesOnce
<1>4. \A k \in 1..4 : es[1].at <= es[k].at /\ es[k].at <= es[4].at
  <2> HIDE DEF es
  <2> QED
    BY <1>2
<1> QED
  BY <1>1, <1>2, <1>3, <1>4 DEF Gates

\* The events of two loads are apart in time, so that an event is of one load.
LEMMA EventsApart ==
  ASSUME PipelineInv, NEW i \in 1..Len(loads), NEW j \in 1..Len(loads),
         Crosses(loads[i]), Crosses(loads[j]), NEW k \in 1..4, NEW l \in 1..4
  PROVE  /\ i < j => loads[i].gates[k].at < loads[j].gates[l].at
         /\ loads[i].gates[k] = loads[j].gates[l] => i = j /\ k = l
<1> DEFINE Stamp(a, b) == loads[a].gates[b].at
<1>1. Stamp(i, k) \in Nat /\ Stamp(j, l) \in Nat
  BY EventsOfALoad
<1>2. ASSUME NEW a \in 1..Len(loads), NEW b \in 1..Len(loads), a < b,
             Crosses(loads[a]), Crosses(loads[b]), NEW p \in 1..4, NEW q \in 1..4
      PROVE  Stamp(a, p) < Stamp(b, q)
  <2>1. Ends(loads[a]) < Starts(loads[b])
    BY <1>2 DEF PipelineInv, SimulatorInv
  <2>2. /\ Stamp(a, p) <= Ends(loads[a]) /\ Starts(loads[b]) <= Stamp(b, q)
        /\ Stamp(a, p) \in Nat /\ Ends(loads[a]) \in Nat
        /\ Starts(loads[b]) \in Nat /\ Stamp(b, q) \in Nat
    BY <1>2, EventsOfALoad
  <2> QED
    BY <2>1, <2>2
<1>3. loads[i].gates[k] = loads[j].gates[l] => i = j
  <2>1. CASE i < j
    <3>1. Stamp(i, k) < Stamp(j, l)
      BY <1>2, <2>1
    <3> QED
      BY <1>1, <3>1
  <2>2. CASE j < i
    <3>1. Stamp(j, l) < Stamp(i, k)
      BY <1>2, <2>2
    <3> QED
      BY <1>1, <3>1
  <2>3. i \in Int /\ j \in Int
    OBVIOUS
  <2> QED
    BY <2>1, <2>2, <2>3
<1>4. i = j /\ loads[i].gates[k] = loads[j].gates[l] => k = l
  BY FourEvents, EventsOfALoad, SMTT(30)
<1> QED
  BY <1>2, <1>3, <1>4

\* A load that has just been run has written nothing.
LEMMA RunKeepsRows ==
  ASSUME PipelineInv, SimulatorInv',
         \E c \in Commands, tag, other \in Tags : tag # other /\ Run(c[1], tag, other, c[2])
  PROVE  GatesInv'
<1>1. PICK c \in Commands, tag \in Tags, other \in Tags : Run(c[1], tag, other, c[2])
  OBVIOUS
<1>2. PICK load :
        /\ OneInTheGate(load)
        /\ loads' = Append(loads, load)
        /\ timelines' = Append(timelines, Messages(load))
        /\ UNCHANGED gateEvents
  BY <1>1 DEF Run
<1>0. PICK n \in Nat : n = Len(loads)
  BY DEF PipelineInv, SimulatorInv
<1>3. /\ loads \in Seq(LoadRecords) /\ timelines \in Seq(SUBSET MessageRecords)
      /\ Len(loads) = n /\ Len(timelines) = n
  BY <1>0 DEF PipelineInv, SimulatorInv
<1>4. /\ Len(loads') = n + 1 /\ loads'[n + 1] = load /\ timelines'[n + 1] = Messages(load)
      /\ \A i \in 1..n : loads'[i] = loads[i] /\ timelines'[i] = timelines[i]
  BY <1>2, <1>3
<1>5. load \in LoadRecords /\ (Crosses(load) => CrossesOnce(load))
  BY <1>3, <1>4 DEF SimulatorInv
<1>6. ASSUME NEW g \in Gates PROVE RowsOf(g)'
  <2> DEFINE es == gateEvents[g]
  <2>0. RowsOf(g) /\ es' = es
    BY <1>2 DEF PipelineInv, GatesInv
  <2>1. \A i \in Through(g)' : i \in Through(g) \/ (i = n + 1 /\ Crosses(load))
    BY <1>3, <1>4 DEF Through
  <2>2. \A i \in Through(g) : i \in 1..n /\ i \in Through(g)'
    BY <1>3, <1>4 DEF Through
  <2>3. \A i \in 1..n, k \in 1..4 : IsDue(i, k)' <=> IsDue(i, k)
    BY <1>4 DEF IsDue
  <2>4. Crosses(load) => \A k \in 1..4 : IsDue(n + 1, k)'
    <3> SUFFICES ASSUME Crosses(load), NEW k \in 1..4 PROVE IsDue(n + 1, k)'
      OBVIOUS
    <3>1. Len(load.gates) = 4
      BY <1>5, FourEvents
    <3>2. [topic |-> "gates", n |-> k, body |-> load.gates[k]] \in Messages(load)
      BY <3>1 DEF Messages
    <3> QED
      BY <1>4, <3>2 DEF IsDue
  <2>5. ASSUME Crosses(load), NEW m \in 1..Len(es), NEW k \in 1..4
        PROVE  es[m] # load.gates[k]
    <3>1. PICK j \in Through(g), l \in 1..4 : es[m] = loads[j].gates[l]
      BY <2>0 DEF RowsOf
    <3>2. j \in 1..Len(loads) /\ Crosses(loads[j])
      BY DEF Through
    <3>3. loads[j].gates[l].at <= Ends(loads[j]) /\ loads[j].gates[l].at \in Nat
          /\ Ends(loads[j]) \in Nat
      BY <3>2, EventsOfALoad
    <3>4. Ends(loads[j]) < Starts(load)
      BY <1>2, <2>5, <3>2 DEF OneInTheGate
    <3>5. Starts(load) <= load.gates[k].at /\ load.gates[k].at \in Nat /\ Starts(load) \in Nat
      <4>1. /\ load.gates[1].at = Starts(load)
            /\ \A p \in 1..4 : load.gates[p].at \in Nat
            /\ load.gates[1].at <= load.gates[k].at
        BY <1>5, <2>5, FourEvents
      <4> QED
        BY <4>1
    <3> QED
      BY <3>1, <3>3, <3>4, <3>5
  <2> HIDE DEF es
  <2>6. \A m \in 1..Len(es) : \E i \in Through(g)', k \in 1..4 : es[m] = loads'[i].gates[k]
    <3> SUFFICES ASSUME NEW m \in 1..Len(es)
                 PROVE  \E i \in Through(g)', k \in 1..4 : es[m] = loads'[i].gates[k]
      OBVIOUS
    <3>1. PICK i \in Through(g), k \in 1..4 : es[m] = loads[i].gates[k]
      BY <2>0 DEF RowsOf, es
    <3>2. i \in Through(g)' /\ loads'[i] = loads[i]
      BY <1>4, <2>2
    <3> QED
      BY <3>1, <3>2
  <2>7. \A i \in Through(g)', k \in 1..4 :
          ~ IsDue(i, k)' => \E m \in 1..Len(es) : es[m] = loads'[i].gates[k]
    <3> SUFFICES ASSUME NEW i \in Through(g)', NEW k \in 1..4, ~ IsDue(i, k)'
                 PROVE  \E m \in 1..Len(es) : es[m] = loads'[i].gates[k]
      OBVIOUS
    <3>1. i \in Through(g) /\ i \in 1..n
      BY <2>1, <2>2, <2>4
    <3>2. loads'[i] = loads[i] /\ ~ IsDue(i, k)
      BY <1>4, <2>3, <3>1
    <3> QED
      BY <2>0, <3>1, <3>2 DEF RowsOf, es
  <2>8. \A i \in Through(g)', k, l \in 1..4, m \in 1..Len(es) :
          es[m] = loads'[i].gates[k] =>
            /\ IsDue(i, l)' => k < l
            /\ \A p \in 1..Len(es) : m < p /\ es[p] = loads'[i].gates[l] => k < l
    <3> SUFFICES ASSUME NEW i \in Through(g)', NEW k \in 1..4, NEW l \in 1..4,
                        NEW m \in 1..Len(es), es[m] = loads'[i].gates[k]
                 PROVE  /\ IsDue(i, l)' => k < l
                        /\ \A p \in 1..Len(es) : m < p /\ es[p] = loads'[i].gates[l] => k < l
      OBVIOUS
    <3>1. i \in Through(g) /\ i \in 1..n
      BY <1>4, <2>1, <2>2, <2>5
    <3>2. loads'[i] = loads[i] /\ (IsDue(i, l)' <=> IsDue(i, l))
      BY <1>4, <2>3, <3>1
    <3> QED
      BY <2>0, <3>1, <3>2 DEF RowsOf, es
  <2> QED
    BY <2>0, <2>6, <2>7, <2>8, SMTT(30) DEF RowsOf, es
<1> QED
  BY <1>2, <1>6 DEF PipelineInv, GatesInv

\* What is written next of a load follows what it has written.
LEMMA GateEventWritten ==
  ASSUME PipelineInv, NEW i0 \in 1..Len(timelines), NEW m0 \in timelines[i0],
         Deliver(i0, m0), m0.topic = "gates"
  PROVE  GatesInv'
<1>1. /\ timelines' = [timelines EXCEPT ![i0] = @ \ {m0}]
      /\ gateEvents' = [gateEvents EXCEPT ![m0.body.gate] = Append(@, m0.body)]
      /\ loads' = loads /\ \A other \in timelines[i0] : ~ Before(other, m0)
  BY DEF Deliver
<1>2. /\ timelines \in Seq(SUBSET MessageRecords) /\ DOMAIN gateEvents = Gates
      /\ i0 \in 1..Len(loads) /\ m0 \in Messages(loads[i0]) /\ loads \in Seq(LoadRecords)
  BY Undelivered DEF PipelineInv, SimulatorInv, GatesInv
<1> DEFINE Ev(i, k) == loads[i].gates[k]
           g0 == m0.body.gate
<1>3. PICK k0 \in 1..Len(loads[i0].gates) :
        m0 = [topic |-> "gates", n |-> k0, body |-> loads[i0].gates[k0]]
  BY <1>2 DEF Messages
<1>4. Crosses(loads[i0]) /\ k0 \in 1..4 /\ IsDue(i0, k0) /\ m0.body = Ev(i0, k0)
  <2>1. Crosses(loads[i0])
    BY <1>3 DEF Crosses
  <2>2. Len(loads[i0].gates) = 4
    BY <2>1, EventsOfALoad, FourEvents, <1>2
  <2> QED
    BY <1>3, <2>1, <2>2 DEF IsDue
<1>5. /\ g0 \in Gates /\ i0 \in Through(g0) /\ m0.body \in BeamEvents
      /\ gateEvents'[g0] = Append(gateEvents[g0], Ev(i0, k0))
  BY <1>1, <1>2, <1>4, EventsOfALoad DEF Through
<1>6. \A i \in 1..Len(loads), k \in 1..4 : IsDue(i, k)' <=> IsDue(i, k) /\ ~ (i = i0 /\ k = k0)
  <2> SUFFICES ASSUME NEW i \in 1..Len(loads), NEW k \in 1..4
               PROVE  IsDue(i, k)' <=> IsDue(i, k) /\ ~ (i = i0 /\ k = k0)
    OBVIOUS
  <2> DEFINE m == [topic |-> "gates", n |-> k, body |-> loads[i].gates[k]]
  <2>1. i \in 1..Len(timelines)
    BY DEF PipelineInv, SimulatorInv
  <2>2. CASE i # i0
    <3>1. timelines'[i] = timelines[i]
      BY <1>1, <1>2, <2>1, <2>2
    <3> QED
      BY <1>1, <2>2, <3>1 DEF IsDue
  <2>3. CASE i = i0
    <3>1. timelines'[i] = timelines[i] \ {m0}
      BY <1>1, <1>2, <2>1, <2>3
    <3>2. m = m0 <=> k = k0
      BY <1>3, <2>3
    <3> QED
      BY <1>1, <2>3, <3>1, <3>2 DEF IsDue
  <2> QED
    BY <2>2, <2>3
<1>7. ASSUME NEW l \in 1..4, IsDue(i0, l), l # k0
      PROVE  k0 < l
  <2> DEFINE m == [topic |-> "gates", n |-> l, body |-> loads[i0].gates[l]]
  <2>1. ~ Before(m, m0)
    BY <1>1, <1>7 DEF IsDue
  <2>2. ~ (Ev(i0, l).at < Ev(i0, k0).at \/ (Ev(i0, l).at = Ev(i0, k0).at /\ l < k0))
    BY <1>3, <2>1 DEF Before
  <2>3. l < k0 => Ev(i0, l).at <= Ev(i0, k0).at
    <3>1. loads[i0] \in LoadRecords /\ CrossesOnce(loads[i0])
      BY <1>2, <1>4, EventsOfALoad
    <3>2. \A k, p \in 1..4 : k <= p => Ev(i0, k).at <= Ev(i0, p).at
      BY <3>1, FourEvents
    <3> HIDE DEF Ev
    <3> QED
      BY <1>4, <3>2
  <2>4. Ev(i0, l).at \in Nat /\ Ev(i0, k0).at \in Nat
    BY <1>2, <1>4, EventsOfALoad
  <2> HIDE DEF Ev
  <2> QED
    BY <1>4, <1>7, <2>2, <2>3, <2>4
<1>8. ASSUME NEW g \in Gates PROVE RowsOf(g)'
  <2> DEFINE es == gateEvents[g]
             fs == gateEvents'[g]
  <2>0. RowsOf(g) /\ Through(g)' = Through(g) /\ Through(g) \subseteq 1..Len(loads)
    BY <1>1 DEF PipelineInv, GatesInv, Through
  <2>1. CASE g # g0
    <3>1. fs = es
      BY <1>1, <1>2, <2>1
    <3>2. \A i \in Through(g), k \in 1..4 : IsDue(i, k)' <=> IsDue(i, k)
      BY <1>5, <1>6, <2>0, <2>1 DEF Through
    <3> HIDE DEF es, fs
    <3>3. \A m \in 1..Len(fs) : \E i \in Through(g)', k \in 1..4 : fs[m] = loads'[i].gates[k]
      BY <1>1, <2>0, <3>1 DEF RowsOf, es
    <3>4. \A i \in Through(g)', k \in 1..4 :
            ~ IsDue(i, k)' => \E m \in 1..Len(fs) : fs[m] = loads'[i].gates[k]
      BY <1>1, <2>0, <3>1, <3>2 DEF RowsOf, es
    <3>5. \A i \in Through(g)', k, l \in 1..4, m \in 1..Len(fs) :
            fs[m] = loads'[i].gates[k] =>
              /\ IsDue(i, l)' => k < l
              /\ \A p \in 1..Len(fs) : m < p /\ fs[p] = loads'[i].gates[l] => k < l
      <4> SUFFICES ASSUME NEW i \in Through(g)', NEW k \in 1..4, NEW l \in 1..4,
                          NEW m \in 1..Len(fs), fs[m] = loads'[i].gates[k]
                   PROVE  /\ IsDue(i, l)' => k < l
                          /\ \A p \in 1..Len(fs) : m < p /\ fs[p] = loads'[i].gates[l] => k < l
        OBVIOUS
      <4>1. i \in Through(g) /\ loads'[i] = loads[i] /\ (IsDue(i, l)' <=> IsDue(i, l))
        BY <1>1, <2>0, <3>2
      <4> QED
        BY <2>0, <3>1, <4>1 DEF RowsOf, es
    <3>6. fs \in Seq(BeamEvents)
      BY <2>0, <3>1 DEF RowsOf, es
    <3> QED
      BY <3>3, <3>4, <3>5, <3>6 DEF RowsOf, fs
  <2>2. CASE g = g0
    <3>0. PICK n \in Nat : n = Len(es)
      BY <2>0 DEF RowsOf
    <3>1. es \in Seq(BeamEvents) /\ fs = Append(es, Ev(i0, k0)) /\ Ev(i0, k0) \in BeamEvents
      BY <1>4, <1>5, <2>0, <2>2 DEF RowsOf
    <3>2. /\ fs \in Seq(BeamEvents) /\ Len(fs) = n + 1 /\ Len(es) = n /\ fs[n + 1] = Ev(i0, k0)
          /\ \A m \in 1..n : fs[m] = es[m]
      <4> HIDE DEF es, fs, Ev
      <4> QED
        BY <3>0, <3>1
    <3>3. \A i \in Through(g), k \in 1..4 : Ev(i0, k0) = Ev(i, k) => i = i0 /\ k = k0
      <4> SUFFICES ASSUME NEW i \in Through(g), NEW k \in 1..4, Ev(i0, k0) = Ev(i, k)
                   PROVE  i = i0 /\ k = k0
        OBVIOUS
      <4>1. i \in 1..Len(loads) /\ Crosses(loads[i])
        BY DEF Through
      <4>2. i0 \in 1..Len(loads) /\ Crosses(loads[i0]) /\ k0 \in 1..4
        BY <1>2, <1>4 DEF Through
      <4> QED
        BY <4>1, <4>2, EventsApart
    <3>4. /\ \A m \in 1..n : \E i \in Through(g), k \in 1..4 : es[m] = Ev(i, k)
          /\ \A i \in Through(g), k \in 1..4 :
               ~ IsDue(i, k) => \E m \in 1..n : es[m] = Ev(i, k)
          /\ \A i \in Through(g), k, l \in 1..4, m \in 1..n :
               es[m] = Ev(i, k) =>
                 /\ IsDue(i, l) => k < l
                 /\ \A p \in 1..n : m < p /\ es[p] = Ev(i, l) => k < l
      BY <2>0, <3>2 DEF RowsOf
    <3> HIDE DEF es, fs, Ev
    <3>5. \A m \in 1..Len(fs) : \E i \in Through(g), k \in 1..4 : fs[m] = Ev(i, k)
      <4> SUFFICES ASSUME NEW m \in 1..(n + 1)
                   PROVE  \E i \in Through(g), k \in 1..4 : fs[m] = Ev(i, k)
        BY <3>2
      <4>1. CASE m = n + 1
        BY <1>4, <1>5, <2>2, <3>2, <4>1
      <4>2. CASE m \in 1..n
        BY <3>2, <3>4, <4>2
      <4> QED
        BY <4>1, <4>2
    <3>6. ASSUME NEW i \in Through(g), NEW k \in 1..4, ~ IsDue(i, k)'
          PROVE  \E m \in 1..Len(fs) : fs[m] = Ev(i, k)
      <4>1. CASE i = i0 /\ k = k0
        BY <3>2, <4>1
      <4>2. CASE ~ (i = i0 /\ k = k0)
        <5>1. ~ IsDue(i, k)
          BY <1>6, <2>0, <3>6, <4>2
        <5> QED
          BY <3>2, <3>4, <5>1
      <4> QED
        BY <4>1, <4>2
    <3>7. ASSUME NEW i \in Through(g), NEW k \in 1..4, NEW l \in 1..4, NEW m \in 1..Len(fs),
                 fs[m] = Ev(i, k)
          PROVE  /\ IsDue(i, l)' => k < l
                 /\ \A p \in 1..Len(fs) : m < p /\ fs[p] = Ev(i, l) => k < l
      <4>1. IsDue(i, l)' => IsDue(i, l) /\ ~ (i = i0 /\ l = k0)
        BY <1>6, <2>0
      <4>2. CASE m = n + 1
        <5>1. i = i0 /\ k = k0
          BY <3>2, <3>3, <3>7, <4>2
        <5> QED
          BY <1>7, <3>2, <4>1, <4>2, <5>1
      <4>3. CASE m \in 1..n
        <5>1. es[m] = Ev(i, k)
          BY <3>2, <3>7, <4>3
        <5>2. IsDue(i, l)' => k < l
          BY <3>4, <4>1, <4>3, <5>1
        <5>3. ASSUME NEW p \in 1..(n + 1), m < p, fs[p] = Ev(i, l)
              PROVE  k < l
          <6>1. CASE p = n + 1
            <7>1. i = i0 /\ l = k0
              BY <3>2, <3>3, <5>3, <6>1
            <7> QED
              BY <1>4, <3>4, <4>3, <5>1, <7>1
          <6>2. CASE p \in 1..n
            BY <3>2, <3>4, <4>3, <5>1, <5>3, <6>2, SMTT(30)
          <6> QED
            BY <6>1, <6>2
        <5> QED
          BY <3>2, <5>2, <5>3
      <4> QED
        BY <3>2, <4>2, <4>3
    <3>8. \A m \in 1..Len(fs) : \E i \in Through(g)', k \in 1..4 : fs[m] = loads'[i].gates[k]
      BY <1>1, <2>0, <3>5 DEF Ev
    <3>9. \A i \in Through(g)', k \in 1..4 :
            ~ IsDue(i, k)' => \E m \in 1..Len(fs) : fs[m] = loads'[i].gates[k]
      BY <1>1, <2>0, <3>6 DEF Ev
    <3>10. \A i \in Through(g)', k, l \in 1..4, m \in 1..Len(fs) :
             fs[m] = loads'[i].gates[k] =>
               /\ IsDue(i, l)' => k < l
               /\ \A p \in 1..Len(fs) : m < p /\ fs[p] = loads'[i].gates[l] => k < l
      BY <1>1, <2>0, <3>7, SMTT(30) DEF Ev
    <3> QED
      BY <3>2, <3>8, <3>9, <3>10 DEF RowsOf, fs
  <2> QED
    BY <2>1, <2>2
<1>9. DOMAIN gateEvents' = Gates
  BY <1>1, <1>2
<1> QED
  BY <1>8, <1>9 DEF GatesInv

\* A step that writes no beam event and runs no load leaves the rows as they are.
LEMMA RowsStay ==
  ASSUME PipelineInv, UNCHANGED <<loads, gateEvents>>,
         \A i \in 1..Len(loads), k \in 1..4 : IsDue(i, k)' <=> IsDue(i, k)
  PROVE  GatesInv'
<1>1. ASSUME NEW g \in Gates PROVE RowsOf(g)'
  <2>1. RowsOf(g) /\ Through(g)' = Through(g) /\ Through(g) \subseteq 1..Len(loads)
    BY DEF PipelineInv, GatesInv, Through
  <2> DEFINE es == gateEvents[g]
  <2>2. es' = es /\ es \in Seq(BeamEvents) /\ loads' = loads
    BY <2>1 DEF RowsOf
  <2> HIDE DEF es
  <2>3. \A m \in 1..Len(es) : \E i \in Through(g)', k \in 1..4 : es[m] = loads'[i].gates[k]
    BY <2>1, <2>2 DEF RowsOf, es
  <2>4. \A i \in Through(g)', k \in 1..4 :
          ~ IsDue(i, k)' => \E m \in 1..Len(es) : es[m] = loads'[i].gates[k]
    <3> SUFFICES ASSUME NEW i \in Through(g)', NEW k \in 1..4, ~ IsDue(i, k)'
                 PROVE  \E m \in 1..Len(es) : es[m] = loads'[i].gates[k]
      OBVIOUS
    <3>1. i \in Through(g) /\ loads'[i] = loads[i] /\ ~ IsDue(i, k)
      BY <2>1, <2>2
    <3> QED
      BY <2>1, <3>1 DEF RowsOf, es
  <2>5. \A i \in Through(g)', k, l \in 1..4, m \in 1..Len(es) :
          es[m] = loads'[i].gates[k] =>
            /\ IsDue(i, l)' => k < l
            /\ \A n \in 1..Len(es) : m < n /\ es[n] = loads'[i].gates[l] => k < l
    <3> SUFFICES ASSUME NEW i \in Through(g)', NEW k \in 1..4, NEW l \in 1..4,
                        NEW m \in 1..Len(es), es[m] = loads'[i].gates[k]
                 PROVE  /\ IsDue(i, l)' => k < l
                        /\ \A n \in 1..Len(es) : m < n /\ es[n] = loads'[i].gates[l] => k < l
      OBVIOUS
    <3>1. i \in Through(g) /\ loads'[i] = loads[i] /\ (IsDue(i, l)' <=> IsDue(i, l))
      BY <2>1, <2>2
    <3> QED
      BY <2>1, <3>1 DEF RowsOf, es
  <2> QED
    BY <2>2, <2>3, <2>4, <2>5 DEF RowsOf, es
<1> QED
  BY <1>1 DEF PipelineInv, GatesInv

\* In each step.
LEMMA GatesKept ==
  ASSUME PipelineInv, [PipelineNext]_pipelineVars
  PROVE  GatesInv'
<1>1. CASE \E c \in Commands, tag, other \in Tags : tag # other /\ Run(c[1], tag, other, c[2])
  BY <1>1, RunKeeps, RunKeepsRows
<1>2. CASE \E i \in 1..Len(timelines) : \E m \in timelines[i] : Deliver(i, m)
  <2>1. PICK i \in 1..Len(timelines) : \E m \in timelines[i] : Deliver(i, m)
    BY <1>2
  <2>2. PICK m \in timelines[i] : Deliver(i, m)
    BY <2>1
  <2>3. CASE m.topic = "gates"
    BY <2>2, <2>3, GateEventWritten
  <2>4. CASE m.topic = "reads"
    <3>1. /\ timelines' = [timelines EXCEPT ![i] = @ \ {m}] /\ UNCHANGED <<loads, gateEvents>>
          /\ timelines \in Seq(SUBSET MessageRecords) /\ Len(timelines) = Len(loads)
      BY <2>2, <2>4 DEF Deliver, PipelineInv, SimulatorInv
    <3>2. \A j \in 1..Len(loads) :
            timelines'[j] = timelines[j] \/ timelines'[j] = timelines[j] \ {m}
      BY <3>1
    <3>3. \A j \in 1..Len(loads), k \in 1..4 : IsDue(j, k)' <=> IsDue(j, k)
      <4>1. \A k, body : [topic |-> "gates", n |-> k, body |-> body] # m
        BY <2>4
      <4> QED
        BY <3>1, <3>2, <4>1 DEF IsDue
    <3> QED
      BY <3>1, <3>3, RowsStay
  <2> QED
    BY <2>2, <2>3, <2>4 DEF Deliver
<1>3. CASE \/ Clock \/ Debounce \/ WriteObservations \/ Stops \/ Crashes
           \/ \E p \in Portals : ResolveDirections(p)
  <2>1. UNCHANGED <<loads, timelines, gateEvents>>
    BY <1>3, StepsApart DEF Clock, simVars
  <2> QED
    BY <2>1, RowsStay DEF IsDue
<1>4. CASE UNCHANGED pipelineVars
  <2>1. UNCHANGED <<loads, timelines, gateEvents>>
    BY <1>4 DEF pipelineVars, simVars
  <2> QED
    BY <2>1, RowsStay DEF IsDue
<1> QED
  BY <1>1, <1>2, <1>3, <1>4 DEF PipelineNext

-----------------------------------------------------------------------------
(* What is read of a gate's loads *)

\* Loads that go through one gate, one after another.
InTurn(ls, T) ==
  /\ T \subseteq Nat
  /\ \A i \in T : ls[i] \in LoadRecords /\ CrossesOnce(ls[i])
  /\ \A i, j \in T : i < j => Ends(ls[i]) < Starts(ls[j])

\* es holds their events from `from` on, in order; all of those of the loads that
\* come until h.
Shown(es, ls, T, from, h) ==
  /\ es \in Seq(BeamEvents)
  /\ \A n \in 1..Len(es) : from <= es[n].at /\ \E i \in T, k \in 1..4 : es[n] = ls[i].gates[k]
  /\ \A m, n \in 1..Len(es), i, j \in T, k, l \in 1..4 :
       m < n /\ es[m] = ls[i].gates[k] /\ es[n] = ls[j].gates[l] => i < j \/ (i = j /\ k < l)
  /\ \A i \in T, k \in 1..4 :
       Starts(ls[i]) <= h /\ from <= ls[i].gates[k].at =>
         \E n \in 1..Len(es) : es[n] = ls[i].gates[k]

\* The times of loads that go through one after another.
LEMMA TimesInTurn ==
  ASSUME NEW ls, NEW T, InTurn(ls, T), NEW i \in T, NEW k \in 1..4
  PROVE  /\ i \in Nat /\ Starts(ls[i]) \in Nat /\ Ends(ls[i]) \in Nat
         /\ ls[i].gates[k].at \in Nat /\ Starts(ls[i]) <= ls[i].gates[k].at
         /\ ls[i].gates[k].at <= Ends(ls[i])
         /\ ls[i].gates[1].at = Starts(ls[i]) /\ ls[i].gates[4].at = Ends(ls[i])
         /\ \A l \in 1..4 : ls[i].gates[k] = ls[i].gates[l] => k = l
         /\ \A j \in T, l \in 1..4 : i < j => ls[i].gates[k].at < ls[j].gates[l].at
<1>1. \A j \in T : ls[j] \in LoadRecords /\ CrossesOnce(ls[j]) /\ j \in Nat
  BY DEF InTurn
<1>2. ASSUME NEW j \in T
      PROVE  LET es == ls[j].gates
             IN  /\ \A l \in 1..4 : es[l].at \in Nat
                 /\ es[1].at = Starts(ls[j]) /\ es[4].at = Ends(ls[j])
                 /\ \A l \in 1..4 : es[1].at <= es[l].at /\ es[l].at <= es[4].at
                 /\ \A l, m \in 1..4 : es[l] = es[m] => l = m
  <2>1. ls[j] \in LoadRecords /\ CrossesOnce(ls[j])
    BY <1>1
  <2> QED
    BY <2>1, FourEvents
<1>3. ASSUME NEW j \in T, NEW l \in 1..4, i < j
      PROVE  ls[i].gates[k].at < ls[j].gates[l].at
  <2>1. Ends(ls[i]) < Starts(ls[j])
    BY <1>3 DEF InTurn
  <2> QED
    BY <1>2, <2>1
<1> QED
  BY <1>1, <1>2, <1>3

\* Of two events the first is of an earlier load, or earlier of the same.
LEMMA ShownInOrder ==
  ASSUME NEW ls, NEW T, NEW es, NEW from, NEW h, Shown(es, ls, T, from, h),
         NEW m \in 1..Len(es), NEW n \in 1..Len(es), m < n, NEW i \in T, NEW j \in T,
         NEW k \in 1..4, NEW l \in 1..4, es[m] = ls[i].gates[k], es[n] = ls[j].gates[l]
  PROVE  i < j \/ (i = j /\ k < l)
BY ZenonT(60) DEF Shown

\* Of a load that all is shown of, one event follows another.
LEMMA FollowsItsOwn ==
  ASSUME NEW ls, NEW T, InTurn(ls, T), NEW es, NEW from \in Int, NEW h \in Int,
         Shown(es, ls, T, from, h), NEW n \in 1..Len(es),
         NEW i \in T, NEW k \in 2..4, es[n] = ls[i].gates[k],
         from <= Starts(ls[i]), Starts(ls[i]) <= h
  PROVE  n > 1 /\ es[n - 1] = ls[i].gates[k - 1]
<1>1. k \in 1..4 /\ k - 1 \in 1..4 /\ Len(es) \in Nat
  BY DEF Shown
<1>2. PICK p \in 1..Len(es) : es[p] = ls[i].gates[k - 1]
  <2>1. from <= ls[i].gates[k - 1].at
    BY <1>1, TimesInTurn, SMTT(30)
  <2> QED
    BY <1>1, <2>1 DEF Shown
<1>3. p # n
  <2>1. ls[i].gates[k] # ls[i].gates[k - 1]
    BY <1>1, TimesInTurn, SMTT(30)
  <2> QED
    BY <1>2, <2>1
<1>4. ASSUME n < p PROVE FALSE
  <2>1. i < i \/ (i = i /\ k < k - 1)
    BY <1>1, <1>2, <1>4, ShownInOrder, SMTT(30)
  <2>2. i \in Nat
    BY DEF InTurn
  <2> QED
    BY <1>1, <2>1, <2>2
<1>5. p < n
  BY <1>3, <1>4
<1>6. ASSUME p < n - 1 PROVE FALSE
  <2>1. n - 1 \in 1..Len(es)
    BY <1>1, <1>5
  <2>2. PICK j \in T, l \in 1..4 : es[n - 1] = ls[j].gates[l]
    BY <2>1 DEF Shown
  <2>3. (i < j \/ (i = j /\ k - 1 < l)) /\ (j < i \/ (j = i /\ l < k))
    <3>1. i < j \/ (i = j /\ k - 1 < l)
      BY <1>1, <1>2, <1>6, <2>1, <2>2, ShownInOrder, SMTT(30)
    <3>2. n - 1 < n
      BY <1>1
    <3>3. j < i \/ (j = i /\ l < k)
      BY <1>1, <2>1, <2>2, <3>2, ShownInOrder, SMTT(30)
    <3> QED
      BY <3>1, <3>3
  <2>4. i \in Nat /\ j \in Nat
    BY DEF InTurn
  <2> QED
    BY <1>1, <2>3, <2>4
<1>7. p = n - 1
  BY <1>1, <1>5, <1>6
<1> QED
  BY <1>2, <1>5, <1>7

\* The event before one of another load is the last of an earlier load, if all is
\* shown of that.
LEMMA FollowsAnother ==
  ASSUME NEW ls, NEW T, InTurn(ls, T), NEW es, NEW from \in Int, NEW h \in Int,
         Shown(es, ls, T, from, h), NEW n \in 2..Len(es),
         NEW i \in T, NEW k \in 1..4, es[n] = ls[i].gates[k],
         NEW j \in T, NEW l \in 1..4, es[n - 1] = ls[j].gates[l]
  PROVE  /\ j <= i /\ (j = i => l < k)
         /\ j # i => from < Starts(ls[i]) /\ Starts(ls[j]) < Starts(ls[i])
         /\ j # i /\ Starts(ls[j]) <= h => l = 4
<1>1. n \in 1..Len(es) /\ n - 1 \in 1..Len(es) /\ n - 1 < n /\ Len(es) \in Nat
  BY DEF Shown
<1>2. j < i \/ (j = i /\ l < k)
  BY <1>1, ShownInOrder, SMTT(30)
<1>3. i \in Nat /\ j \in Nat
  BY DEF InTurn
<1>4. from <= ls[j].gates[l].at
  BY <1>1 DEF Shown
<1>5. ASSUME j < i
      PROVE  /\ from < Starts(ls[i]) /\ Starts(ls[j]) < Starts(ls[i])
             /\ Starts(ls[j]) <= h => l = 4
  <2>1. /\ ls[j].gates[l].at <= Ends(ls[j]) /\ Starts(ls[j]) <= Ends(ls[j])
        /\ Ends(ls[j]) < Starts(ls[i])
        /\ ls[j].gates[l].at \in Nat /\ Starts(ls[j]) \in Nat /\ Ends(ls[j]) \in Nat
        /\ Starts(ls[i]) \in Nat /\ ls[j].gates[4].at = Ends(ls[j])
    <3>1. Ends(ls[j]) < Starts(ls[i])
      BY <1>5 DEF InTurn
    <3>2. /\ ls[j].gates[l].at <= Ends(ls[j]) /\ Starts(ls[j]) <= ls[j].gates[l].at
          /\ ls[j].gates[l].at \in Nat /\ Starts(ls[j]) \in Nat /\ Ends(ls[j]) \in Nat
          /\ ls[j].gates[4].at = Ends(ls[j])
      BY TimesInTurn
    <3>3. Starts(ls[i]) \in Nat
      BY TimesInTurn
    <3> QED
      BY <3>1, <3>2, <3>3
  <2>2. ASSUME Starts(ls[j]) <= h PROVE l = 4
    <3>1. 4 \in 1..4 /\ from <= ls[j].gates[4].at
      BY <1>4, <2>1, SMTT(30)
    <3>2. PICK p \in 1..Len(es) : es[p] = ls[j].gates[4]
      BY <2>2, <3>1 DEF Shown
    <3>3. ASSUME n < p PROVE FALSE
      <4>1. i < j \/ (i = j /\ k < 4)
        BY <1>1, <3>1, <3>2, <3>3, ShownInOrder, SMTT(30)
      <4> QED
        BY <1>3, <1>5, <4>1
    <3>4. p # n
      <4>1. ls[j].gates[4].at < ls[i].gates[k].at
        BY <1>5, <3>1, TimesInTurn
      <4>2. ls[i].gates[k].at \in Nat /\ ls[j].gates[4].at \in Nat
        BY <3>1, TimesInTurn
      <4> QED
        BY <3>2, <4>1, <4>2, SMTT(30)
    <3>5. ASSUME p < n - 1 PROVE FALSE
      <4>1. j < j \/ (j = j /\ 4 < l)
        BY <1>1, <3>1, <3>2, <3>5, ShownInOrder, SMTT(30)
      <4> QED
        BY <1>3, <4>1
    <3>6. p = n - 1
      BY <1>1, <3>3, <3>4, <3>5
    <3>7. ls[j].gates[l] = ls[j].gates[4]
      BY <3>2, <3>6
    <3> QED
      BY <3>1, <3>7, TimesInTurn, SMTT(30)
  <2>3. from < Starts(ls[i])
    BY <1>4, <2>1, SMTT(30)
  <2> QED
    BY <2>1, <2>2, <2>3
<1> QED
  BY <1>2, <1>3, <1>5

CrossingOf(load) ==
  [direction |-> DirectionOf(load), started |-> Starts(load), ended |-> Ends(load)]

\* Where the reader is after the k-th event of a load, of which it has all events from
\* `from` on, or any if the load comes after h.
Stage(acc, load, k, from, h) ==
  /\ Starts(load) > h => acc.open = NoCrossing \/ acc.open.started > h
  /\ Starts(load) <= h /\ Starts(load) < from =>
       acc.broken \subseteq {SecondBeamOf(load)} /\ (k = 4 => acc.broken = {})
  /\ Starts(load) <= h /\ from <= Starts(load) =>
       LET opened(direction) ==
             [first |-> FirstBeamOf(load), started |-> Starts(load), direction |-> direction]
       IN  /\ k = 1 => acc.broken = {FirstBeamOf(load)} /\ acc.open = opened(None)
           /\ k = 2 => acc.broken = Beams /\ acc.open = opened(DirectionOf(load))
           /\ k = 3 => /\ acc.broken = {SecondBeamOf(load)}
                       /\ acc.open = opened(DirectionOf(load))
           /\ k = 4 => acc.broken = {}

\* What the reader may then add to the crossings.
Adds(acc, after, load, k, from, h) ==
  IF Starts(load) <= h /\ from <= Starts(load)
  THEN after.crossings = IF k = 4 THEN Append(acc.crossings, CrossingOf(load))
                                  ELSE acc.crossings
  ELSE \/ after.crossings = acc.crossings
       \/ \E c \in AnyCrossing :
            /\ after.crossings = Append(acc.crossings, c)
            /\ Starts(load) > h => c.started > h
            /\ Starts(load) <= h => c.ended = Ends(load)

\* A beam event is one.
LEMMA AreBeamEvents ==
  /\ \A e \in BeamEvents : IsBeamEvent(e)
  /\ Stamped(BeamEvents)
<1>1. \A e \in BeamEvents : IsBeamEvent(e)
  BY DEF BeamEvents, IsBeamEvent, Beams
<1>2. Stamped(BeamEvents)
  BY DEF BeamEvents, Stamped
<1> QED
  BY <1>1, <1>2

\* The beams of a load.
LEMMA TwoBeams ==
  ASSUME NEW load
  PROVE  /\ FirstBeamOf(load) # SecondBeamOf(load)
         /\ Beams = {FirstBeamOf(load), SecondBeamOf(load)}
         /\ FirstBeamDirection[FirstBeamOf(load)] = DirectionOf(load)
         /\ DirectionOf(load) \in {"IN", "OUT"}
<1>1. CASE load.command = "reverse"
  BY <1>1 DEF FirstBeamOf, SecondBeamOf, Beams, FirstBeamDirection, DirectionOf
<1>2. CASE load.command # "reverse"
  BY <1>2 DEF FirstBeamOf, SecondBeamOf, Beams, FirstBeamDirection, DirectionOf
<1> QED
  BY <1>1, <1>2

\* An event of a load that comes after h.
LEMMA ReadLate ==
  ASSUME NEW load \in LoadRecords, CrossesOnce(load), NEW k \in 1..4, NEW from \in Int,
         NEW h \in Int, Starts(load) > h, NEW acc, IsReader(acc),
         acc.open = NoCrossing \/ acc.open.started > h
  PROVE  LET after == AfterEvent(acc, load.gates[k])
         IN  Stage(after, load, k, from, h) /\ Adds(acc, after, load, k, from, h)
<1> DEFINE e == load.gates[k]
           after == AfterEvent(acc, e)
<1>1. /\ IsBeamEvent(e) /\ e.at \in Nat /\ e.at > h /\ Starts(load) \in Nat
      /\ e.state = "BROKEN" \/ e.state = "CLEAR"
  <2>1. /\ e \in BeamEvents /\ e.at \in Nat /\ Starts(load) <= e.at
    BY FourEvents
  <2>2. Starts(load) \in Nat
    BY FourEvents
  <2> QED
    BY <2>1, <2>2, AreBeamEvents DEF IsBeamEvent
<1>2. ~ (Starts(load) <= h)
  BY <1>1
<1> HIDE DEF e
<1>3. CASE e.state = "BROKEN"
  <2>1. /\ after.crossings = acc.crossings
        /\ after.open = IF acc.broken = {} THEN Start(e)
                        ELSE IF Confirms(acc.open, e)
                             THEN [acc.open EXCEPT !.direction =
                                     FirstBeamDirection[acc.open.first]]
                             ELSE acc.open
    BY <1>1, <1>3, BrokenIsRead
  <2>2. after.open.started > h
    <3>1. CASE acc.broken = {}
      BY <1>1, <2>1, <3>1 DEF Start
    <3>2. CASE acc.broken # {}
      <4>1. acc.open \in AnyOpening /\ acc.open.started > h
        BY <3>2 DEF IsReader
      <4> QED
        BY <2>1, <3>2, <4>1 DEF AnyOpening
    <3> QED
      BY <3>1, <3>2
  <2> HIDE DEF after
  <2> QED
    BY <1>2, <2>1, <2>2 DEF Stage, Adds, e, after
<1>4. CASE e.state = "CLEAR"
  <2>1. /\ IsReader(after)
        /\ after.broken = {} /\ acc.broken # {} =>
             after.crossings =
               Append(acc.crossings, [direction |-> acc.open.direction,
                                      started |-> acc.open.started, ended |-> e.at])
        /\ ~ (after.broken = {} /\ acc.broken # {}) =>
             after.open = acc.open /\ after.crossings = acc.crossings
    BY <1>1, <1>4, ClearIsRead
  <2> HIDE DEF after
  <2>2. CASE after.broken = {} /\ acc.broken # {}
    <3> DEFINE c == [direction |-> acc.open.direction, started |-> acc.open.started,
                     ended |-> e.at]
    <3>1. acc.open \in AnyOpening /\ acc.open.started > h
      BY <2>2 DEF IsReader
    <3>2. c \in AnyCrossing /\ c.started > h
      BY <1>1, <3>1 DEF AnyOpening, AnyCrossing
    <3>3. after.open = NoCrossing
      BY <2>1, <2>2 DEF IsReader
    <3>4. after.crossings = Append(acc.crossings, c)
      BY <2>1, <2>2
    <3> HIDE DEF c
    <3> QED
      BY <1>2, <3>2, <3>3, <3>4 DEF Stage, Adds, e, after
  <2>3. CASE ~ (after.broken = {} /\ acc.broken # {})
    BY <1>2, <2>1, <2>3 DEF Stage, Adds, e, after
  <2> QED
    BY <2>2, <2>3
<1> QED
  BY <1>1, <1>3, <1>4 DEF e

\* One of a load the first events of which are not fetched.
LEMMA ReadInPart ==
  ASSUME NEW load \in LoadRecords, CrossesOnce(load), NEW k \in 1..4, NEW from \in Int,
         NEW h \in Int, Starts(load) <= h, Starts(load) < from, from <= load.gates[k].at,
         NEW acc, IsReader(acc), acc.broken \subseteq {SecondBeamOf(load)}
  PROVE  LET after == AfterEvent(acc, load.gates[k])
         IN  Stage(after, load, k, from, h) /\ Adds(acc, after, load, k, from, h)
<1> DEFINE e == load.gates[k]
           after == AfterEvent(acc, e)
           first == FirstBeamOf(load)
           second == SecondBeamOf(load)
<1>1. /\ IsBeamEvent(e) /\ e.at \in Nat /\ Starts(load) \in Nat
      /\ k = 1 => e.at = Starts(load)
      /\ k = 2 => e.beam = second /\ e.state = "BROKEN"
      /\ k = 3 => e.beam = first /\ e.state = "CLEAR"
      /\ k = 4 => e.beam = second /\ e.state = "CLEAR" /\ e.at = Ends(load)
  <2>1. e \in BeamEvents /\ e.at \in Nat
    BY FourEvents
  <2>2. Starts(load) \in Nat
    BY FourEvents
  <2>3. /\ k = 1 => e.at = Starts(load)
        /\ k = 2 => e.beam = second /\ e.state = "BROKEN"
        /\ k = 3 => e.beam = first /\ e.state = "CLEAR"
        /\ k = 4 => e.beam = second /\ e.state = "CLEAR" /\ e.at = Ends(load)
    BY FourEvents
  <2> QED
    BY <2>1, <2>2, <2>3, AreBeamEvents
<1>2. k = 2 \/ k = 3 \/ k = 4
  BY <1>1
<1>3. /\ ~ (Starts(load) > h) /\ ~ (from <= Starts(load))
  BY <1>1
<1>4. first # second
  BY TwoBeams
<1> HIDE DEF e, after, first, second
<1>5. CASE k = 2
  <2>1. after.broken = acc.broken \cup {second} /\ after.crossings = acc.crossings
    BY <1>1, <1>5, BrokenIsRead DEF after
  <2> QED
    BY <1>3, <1>5, <2>1 DEF Stage, Adds, e, after, second
<1>6. CASE k = 3 \/ k = 4
  <2>1. /\ IsReader(after) /\ after.broken = acc.broken \ {e.beam}
        /\ after.broken = {} /\ acc.broken # {} =>
             after.crossings =
               Append(acc.crossings, [direction |-> acc.open.direction,
                                      started |-> acc.open.started, ended |-> e.at])
        /\ ~ (after.broken = {} /\ acc.broken # {}) =>
             after.open = acc.open /\ after.crossings = acc.crossings
    BY <1>1, <1>6, ClearIsRead DEF after
  <2>2. CASE k = 3
    <3>1. after.broken = acc.broken
      BY <1>1, <1>4, <2>1, <2>2 DEF second
    <3> QED
      BY <1>3, <2>1, <2>2, <3>1 DEF Stage, Adds, e, after
  <2>3. CASE k = 4
    <3>1. after.broken = {}
      BY <1>1, <2>1, <2>3 DEF second
    <3>2. CASE acc.broken = {}
      BY <1>3, <2>1, <3>1, <3>2 DEF Stage, Adds, e, after
    <3>3. CASE acc.broken # {}
      <4> DEFINE c == [direction |-> acc.open.direction, started |-> acc.open.started,
                       ended |-> e.at]
      <4>1. acc.open \in AnyOpening
        BY <3>3 DEF IsReader
      <4>2. c \in AnyCrossing /\ c.ended = Ends(load)
        BY <1>1, <2>3, <4>1 DEF AnyOpening, AnyCrossing
      <4>3. after.crossings = Append(acc.crossings, c)
        BY <2>1, <3>1, <3>3
      <4> HIDE DEF c
      <4> QED
        BY <1>3, <3>1, <4>2, <4>3 DEF Stage, Adds, e, after
    <3> QED
      BY <3>2, <3>3
  <2> QED
    BY <1>6, <2>2, <2>3
<1> QED
  BY <1>2, <1>5, <1>6 DEF e, after

\* One of a load that is read from its first event on.
LEMMA ReadInFull ==
  ASSUME NEW load \in LoadRecords, CrossesOnce(load), NEW k \in 1..4, NEW from \in Int,
         NEW h \in Int, Starts(load) <= h, from <= Starts(load),
         NEW acc, IsReader(acc),
         k = 1 => acc.broken = {}, k > 1 => Stage(acc, load, k - 1, from, h)
  PROVE  LET after == AfterEvent(acc, load.gates[k])
         IN  Stage(after, load, k, from, h) /\ Adds(acc, after, load, k, from, h)
<1> DEFINE e == load.gates[k]
           after == AfterEvent(acc, e)
           first == FirstBeamOf(load)
           second == SecondBeamOf(load)
           at == Starts(load)
           opened(direction) == [first |-> first, started |-> at, direction |-> direction]
<1>1. /\ IsBeamEvent(e) /\ at \in Nat
      /\ k = 1 => e.beam = first /\ e.state = "BROKEN" /\ e.at = at
      /\ k = 2 => e.beam = second /\ e.state = "BROKEN" /\ e.at - at <= Timeout
      /\ k = 3 => e.beam = first /\ e.state = "CLEAR"
      /\ k = 4 => e.beam = second /\ e.state = "CLEAR" /\ e.at = Ends(load)
  <2>1. e \in BeamEvents /\ e.at \in Nat
    BY FourEvents
  <2>2. at \in Nat
    BY FourEvents
  <2>3. /\ k = 1 => e.beam = first /\ e.state = "BROKEN" /\ e.at = at
        /\ k = 2 => e.beam = second /\ e.state = "BROKEN" /\ e.at - at <= Separation
        /\ k = 3 => e.beam = first /\ e.state = "CLEAR"
        /\ k = 4 => e.beam = second /\ e.state = "CLEAR" /\ e.at = Ends(load)
    BY FourEvents
  <2>4. Separation <= Timeout /\ Separation \in Nat /\ Timeout \in Nat
    BY Times, GateAssumption
  <2> QED
    BY <2>1, <2>2, <2>3, <2>4, AreBeamEvents
<1>2. /\ first # second /\ Beams = {first, second}
      /\ FirstBeamDirection[first] = DirectionOf(load) /\ DirectionOf(load) # None
  BY TwoBeams DEF None
<1>3. k = 1 \/ k = 2 \/ k = 3 \/ k = 4
  OBVIOUS
<1>4. ~ (at > h) /\ ~ (at < from)
  BY <1>1
<1> HIDE DEF e, after, first, second, at
<1>5. ASSUME k \in {1, 2}
      PROVE  /\ after.broken = acc.broken \cup {e.beam} /\ after.crossings = acc.crossings
             /\ after.open = IF acc.broken = {} THEN Start(e)
                             ELSE IF Confirms(acc.open, e)
                                  THEN [acc.open EXCEPT !.direction =
                                          FirstBeamDirection[acc.open.first]]
                                  ELSE acc.open
  BY <1>1, <1>5, BrokenIsRead DEF after
<1>6. ASSUME k \in {3, 4}
      PROVE  /\ after.broken = acc.broken \ {e.beam}
             /\ after.broken = {} /\ acc.broken # {} =>
                  after.crossings =
                    Append(acc.crossings, [direction |-> acc.open.direction,
                                           started |-> acc.open.started, ended |-> e.at])
             /\ ~ (after.broken = {} /\ acc.broken # {}) =>
                  after.open = acc.open /\ after.crossings = acc.crossings
  BY <1>1, <1>6, ClearIsRead DEF after
<1>7. CASE k = 1
  <2>1. after.broken = {first} /\ after.open = opened(None) /\ after.crossings = acc.crossings
    BY <1>1, <1>5, <1>7 DEF Start
  <2> QED
    BY <1>4, <1>7, <2>1 DEF Stage, Adds, e, after, first, at
<1>8. CASE k = 2
  <2>1. acc.broken = {first} /\ acc.open = opened(None)
    BY <1>4, <1>8 DEF Stage, first, at
  <2>2. Confirms(acc.open, e)
    BY <1>1, <1>2, <1>8, <2>1 DEF Confirms
  <2>3. /\ after.broken = Beams /\ after.open = opened(DirectionOf(load))
        /\ after.crossings = acc.crossings
    BY <1>1, <1>2, <1>5, <1>8, <2>1, <2>2
  <2> QED
    BY <1>4, <1>8, <2>3 DEF Stage, Adds, e, after, first, at
<1>9. CASE k = 3
  <2>1. acc.broken = Beams /\ acc.open = opened(DirectionOf(load))
    BY <1>4, <1>9 DEF Stage, first, at
  <2>2. after.broken = {second}
    BY <1>1, <1>2, <1>6, <1>9, <2>1
  <2>3. after.open = acc.open /\ after.crossings = acc.crossings
    BY <1>6, <1>9, <2>2
  <2> QED
    BY <1>4, <1>9, <2>1, <2>2, <2>3 DEF Stage, Adds, e, after, first, second, at
<1>10. CASE k = 4
  <2>1. acc.broken = {second} /\ acc.open = opened(DirectionOf(load))
    BY <1>4, <1>10 DEF Stage, first, second, at
  <2>2. after.broken = {}
    BY <1>1, <1>6, <1>10, <2>1
  <2>3. after.crossings = Append(acc.crossings, CrossingOf(load))
    BY <1>1, <1>6, <1>10, <2>1, <2>2 DEF CrossingOf, at
  <2> QED
    BY <1>4, <1>10, <2>2, <2>3 DEF Stage, Adds, e, after, at
<1> QED
  BY <1>3, <1>7, <1>8, <1>9, <1>10 DEF e, after

\* A crossing that is that of a load, that comes after h, or that is over soon after `from`.
Accounted(c, ls, T, from, h) ==
  \/ c.started > h
  \/ c.ended < from + (PalletBlocked + Separation)
  \/ \E i \in T : from <= Starts(ls[i]) /\ Starts(ls[i]) <= h /\ c = CrossingOf(ls[i])

\* One event more.
LEMMA OneMoreIsRead ==
  ASSUME NEW ls, NEW T, InTurn(ls, T), NEW es, NEW from \in Int, NEW h \in Int,
         Shown(es, ls, T, from, h), NEW n \in 1..Len(es),
         NEW acc, IsReader(acc), n = 1 => acc = NothingRead,
         n > 1 => \A j \in T, l \in 1..4 : es[n - 1] = ls[j].gates[l] =>
                    Stage(acc, ls[j], l, from, h),
         NEW i \in T, NEW k \in 1..4, es[n] = ls[i].gates[k]
  PROVE  LET after == AfterEvent(acc, es[n])
         IN  Stage(after, ls[i], k, from, h) /\ Adds(acc, after, ls[i], k, from, h)
<1> DEFINE load == ls[i]
<1>1. load \in LoadRecords /\ CrossesOnce(load) /\ Starts(load) \in Nat
  BY TimesInTurn DEF InTurn
<1>2. n = 1 => acc.broken = {} /\ acc.open = NoCrossing
  BY DEF NothingRead
<1>3. ASSUME n > 1
      PROVE  \E j \in T, l \in 1..4 :
               /\ Stage(acc, ls[j], l, from, h) /\ Starts(ls[j]) \in Nat
               /\ j = i => l < k
               /\ j # i => from < Starts(load) /\ Starts(ls[j]) < Starts(load)
               /\ j # i /\ Starts(ls[j]) <= h => l = 4
  <2>1. n - 1 \in 1..Len(es) /\ n \in 2..Len(es)
    BY <1>3 DEF Shown
  <2>2. PICK j \in T, l \in 1..4 : es[n - 1] = ls[j].gates[l]
    BY <2>1 DEF Shown
  <2>3. Stage(acc, ls[j], l, from, h)
    BY <1>3, <2>2
  <2>4. Starts(ls[j]) \in Nat
    BY TimesInTurn
  <2>5. /\ j = i => l < k
        /\ j # i => from < Starts(load) /\ Starts(ls[j]) < Starts(load)
        /\ j # i /\ Starts(ls[j]) <= h => l = 4
    BY <2>1, <2>2, FollowsAnother, SMTT(30)
  <2> QED
    BY <2>3, <2>4, <2>5
<1>4. n = 1 \/ n > 1
  BY DEF Shown
<1>5. ASSUME NEW j \in T, Stage(acc, ls[j], 4, from, h), Starts(ls[j]) <= h,
             Starts(ls[j]) \in Nat
      PROVE  acc.broken = {} /\ acc.open = NoCrossing
  <2>1. Starts(ls[j]) < from \/ from <= Starts(ls[j])
    BY <1>5
  <2>2. acc.broken = {}
    BY <1>5, <2>1 DEF Stage
  <2> QED
    BY <2>2 DEF IsReader
<1> HIDE DEF load
<1>6. CASE Starts(load) > h
  <2>1. acc.open = NoCrossing \/ acc.open.started > h
    <3>1. CASE n > 1
      <4>1. PICK j \in T, l \in 1..4 :
              /\ Stage(acc, ls[j], l, from, h) /\ Starts(ls[j]) \in Nat
              /\ j # i /\ Starts(ls[j]) <= h => l = 4
        BY <1>3, <3>1
      <4>2. CASE Starts(ls[j]) > h
        BY <4>1, <4>2 DEF Stage
      <4>3. CASE Starts(ls[j]) <= h
        <5>1. j # i
          BY <1>1, <1>6, <4>3 DEF load
        <5> QED
          BY <1>5, <4>1, <4>3, <5>1
      <4> QED
        BY <4>1, <4>2, <4>3
    <3> QED
      BY <1>2, <1>4, <3>1
  <2> QED
    BY <1>1, <1>6, <2>1, ReadLate DEF load
<1>7. CASE Starts(load) <= h /\ Starts(load) < from
  <2>1. acc.broken \subseteq {SecondBeamOf(load)}
    <3>1. CASE n > 1
      <4>1. PICK j \in T, l \in 1..4 :
              /\ Stage(acc, ls[j], l, from, h)
              /\ j # i => from < Starts(load)
        BY <1>3, <3>1
      <4>2. j = i
        BY <1>1, <1>7, <4>1
      <4> QED
        BY <1>7, <4>1, <4>2 DEF Stage, load
    <3> QED
      BY <1>2, <1>4, <3>1
  <2>2. from <= load.gates[k].at
    BY DEF Shown, load
  <2> QED
    BY <1>1, <1>7, <2>1, <2>2, ReadInPart DEF load
<1>8. CASE Starts(load) <= h /\ from <= Starts(load)
  <2>1. ASSUME k = 1 PROVE acc.broken = {}
    <3>1. CASE n > 1
      <4>1. PICK j \in T, l \in 1..4 :
              /\ Stage(acc, ls[j], l, from, h) /\ Starts(ls[j]) \in Nat
              /\ j = i => l < k
              /\ j # i => Starts(ls[j]) < Starts(load)
              /\ j # i /\ Starts(ls[j]) <= h => l = 4
        BY <1>3, <3>1
      <4>2. j # i
        BY <2>1, <4>1
      <4>3. Starts(ls[j]) <= h /\ l = 4
        BY <1>1, <1>8, <4>1, <4>2
      <4> QED
        BY <1>5, <4>1, <4>3
    <3> QED
      BY <1>2, <1>4, <3>1
  <2>2. ASSUME k > 1 PROVE Stage(acc, load, k - 1, from, h)
    <3>1. k \in 2..4 /\ k - 1 \in 1..4
      BY <2>2
    <3>2. n > 1 /\ es[n - 1] = ls[i].gates[k - 1]
      BY <1>8, <3>1, FollowsItsOwn DEF load
    <3> QED
      BY <3>1, <3>2 DEF load
  <2> QED
    BY <1>1, <1>8, <2>1, <2>2, ReadInFull DEF load
<1>9. Starts(load) > h \/ Starts(load) < from \/ from <= Starts(load)
  BY <1>1
<1>10. Starts(load) > h \/ Starts(load) <= h
  BY <1>1
<1> QED
  BY <1>6, <1>7, <1>8, <1>9, <1>10 DEF load

\* It has one crossing more, which is accounted for, or none.
Lengthens(acc, after, ls, T, from, h) ==
  \/ after.crossings = acc.crossings
  \/ \E c : after.crossings = Append(acc.crossings, c) /\ Accounted(c, ls, T, from, h)

\* What is added is accounted for.
LEMMA AddsAccounted ==
  ASSUME NEW ls, NEW T, InTurn(ls, T), NEW from \in Int, NEW h \in Int,
         NEW i \in T, NEW k \in 1..4,
         NEW acc, NEW after, IsReader(acc), Adds(acc, after, ls[i], k, from, h)
  PROVE  Lengthens(acc, after, ls, T, from, h)
<1> DEFINE load == ls[i]
<1>1. /\ load \in LoadRecords /\ CrossesOnce(load) /\ Starts(load) \in Nat /\ Ends(load) \in Nat
      /\ Ends(load) - Starts(load) <= PalletBlocked + Separation
  <2>1. load \in LoadRecords /\ CrossesOnce(load)
    BY DEF InTurn
  <2>2. Starts(load) \in Nat /\ Ends(load) \in Nat
    BY TimesInTurn
  <2>3. load.gates[1].at = Starts(load) /\ load.gates[4].at = Ends(load)
    BY TimesInTurn
  <2>4. load.gates[4].at - load.gates[1].at <= PalletBlocked + Separation
    BY <2>1, FourEvents
  <2> QED
    BY <2>1, <2>2, <2>3, <2>4
<1>2. CASE Starts(load) <= h /\ from <= Starts(load)
  <2>1. after.crossings = acc.crossings \/ after.crossings = Append(acc.crossings, CrossingOf(load))
    BY <1>2 DEF Adds
  <2>2. Accounted(CrossingOf(load), ls, T, from, h)
    BY <1>2 DEF Accounted
  <2> QED
    BY <2>1, <2>2 DEF Lengthens
<1>3. CASE ~ (Starts(load) <= h /\ from <= Starts(load))
  <2>1. CASE after.crossings = acc.crossings
    BY <2>1 DEF Lengthens
  <2>2. CASE after.crossings # acc.crossings
    <3>1. PICK c \in AnyCrossing :
            /\ after.crossings = Append(acc.crossings, c)
            /\ Starts(load) > h => c.started > h
            /\ Starts(load) <= h => c.ended = Ends(load)
      BY <1>3, <2>2 DEF Adds
    <3>2. CASE Starts(load) > h
      BY <3>1, <3>2 DEF Accounted, Lengthens
    <3>3. CASE Starts(load) <= h
      <4>1. c.ended = Ends(load) /\ Starts(load) < from
        BY <1>1, <1>3, <3>1, <3>3
      <4>2. PalletBlocked + Separation \in Nat
        BY Times
      <4>3. c.ended < from + (PalletBlocked + Separation)
        BY <1>1, <4>1, <4>2
      <4> QED
        BY <3>1, <4>3 DEF Accounted, Lengthens
    <3> QED
      BY <1>1, <3>2, <3>3
  <2> QED
    BY <2>1, <2>2
<1> QED
  BY <1>2, <1>3

\* Its crossings are the loads that come until h, but for those that were in the beams
\* before `from`; and all of the loads are among them.
LEMMA CrossingsOfLoads ==
  ASSUME NEW ls, NEW T, InTurn(ls, T), NEW es, NEW from \in Int, NEW h \in Int,
         Shown(es, ls, T, from, h)
  PROVE  LET cs == CrossingsFromEvents(es)
         IN  /\ cs \in Seq(AnyCrossing)
             /\ \A c \in 1..Len(cs) : Accounted(cs[c], ls, T, from, h)
             /\ \A i \in T : from <= Starts(ls[i]) /\ Starts(ls[i]) <= h =>
                  \E c \in 1..Len(cs) : cs[c] = CrossingOf(ls[i])
<1>1. PICK len \in Nat : Len(es) = len /\ \A n \in 1..len : IsBeamEvent(es[n])
  <2>1. es \in Seq(BeamEvents)
    BY DEF Shown
  <2> QED
    BY <2>1, AreBeamEvents
<1>2. PICK f : /\ AfterEvents(es) = f[len] /\ f[0] = NothingRead
               /\ \A n \in 1..len : f[n] = AfterEvent(f[n - 1], es[n])
               /\ \A n \in 0..len : IsReader(f[n])
  BY <1>1, EventsAreRead, SMTT(30)
<1> DEFINE cs(n) == f[n].crossings
           Staged(n) == \A i \in T, k \in 1..4 :
                          n > 0 /\ es[n] = ls[i].gates[k] => Stage(f[n], ls[i], k, from, h)
           AllAccounted(n) == \A c \in 1..Len(cs(n)) : Accounted(cs(n)[c], ls, T, from, h)
           Has(n, i) == \E c \in 1..Len(cs(n)) : cs(n)[c] = CrossingOf(ls[i])
           HasAll(n) == \A i \in T, m \in 1..n :
                          es[m] = ls[i].gates[4] /\ from <= Starts(ls[i]) /\ Starts(ls[i]) <= h
                            => Has(n, i)
           OK(n) == Staged(n) /\ AllAccounted(n) /\ HasAll(n)
           Not == {n \in 0..len : ~ OK(n)}
<1>3. \A n \in 0..len : cs(n) \in Seq(AnyCrossing)
  BY <1>2 DEF IsReader
<1>4. OK(0)
  <2>1. cs(0) = <<>> /\ Len(cs(0)) = 0
    BY <1>2 DEF NothingRead
  <2> QED
    BY <2>1
<1>5. ASSUME NEW n \in 1..len, OK(n - 1) PROVE OK(n)
  <2> DEFINE acc == f[n - 1]
             after == f[n]
  <2>1. /\ IsReader(acc) /\ after = AfterEvent(acc, es[n]) /\ n - 1 \in 0..len
        /\ n \in 1..Len(es)
        /\ n = 1 => acc = NothingRead
    BY <1>1, <1>2
  <2>2. n > 1 => \A j \in T, l \in 1..4 : es[n - 1] = ls[j].gates[l] =>
                   Stage(acc, ls[j], l, from, h)
    BY <1>5
  <2>3. ASSUME NEW i \in T, NEW k \in 1..4, es[n] = ls[i].gates[k]
        PROVE  Stage(after, ls[i], k, from, h) /\ Adds(acc, after, ls[i], k, from, h)
    <3> HIDE DEF acc, after, OK
    <3> QED
      BY <2>1, <2>2, <2>3, OneMoreIsRead
  <2>4. PICK i \in T, k \in 1..4 : es[n] = ls[i].gates[k]
    BY <2>1 DEF Shown
  <2>5. \/ cs(n) = cs(n - 1)
        \/ \E c : cs(n) = Append(cs(n - 1), c) /\ Accounted(c, ls, T, from, h)
    <3> HIDE DEF acc, after
    <3>1. Lengthens(acc, after, ls, T, from, h)
      <4>1. Adds(acc, after, ls[i], k, from, h) /\ IsReader(acc)
        BY <2>1, <2>3, <2>4
      <4> QED
        BY <2>4, <4>1, AddsAccounted
    <3> QED
      BY <3>1 DEF acc, after, Lengthens
  <2>6. cs(n) \in Seq(AnyCrossing) /\ cs(n - 1) \in Seq(AnyCrossing)
    BY <1>3, <2>1
  <2>7. Staged(n)
    BY <2>3
  <2> HIDE DEF cs, Staged, Not
  <2>8. /\ \A c \in 1..Len(cs(n - 1)) : c \in 1..Len(cs(n)) /\ cs(n)[c] = cs(n - 1)[c]
        /\ AllAccounted(n)
    <3>1. AllAccounted(n - 1)
      BY <1>5
    <3>2. CASE cs(n) = cs(n - 1)
      BY <3>1, <3>2
    <3>3. CASE cs(n) # cs(n - 1)
      <4>1. PICK c : cs(n) = Append(cs(n - 1), c) /\ Accounted(c, ls, T, from, h)
        BY <2>5, <3>3
      <4>2. PICK m \in Nat : m = Len(cs(n - 1))
        BY <2>6
      <4>3. /\ Len(cs(n)) = m + 1 /\ cs(n)[m + 1] = c
            /\ \A x \in 1..m : cs(n)[x] = cs(n - 1)[x]
        BY <2>6, <4>1, <4>2
      <4>4. \A x \in 1..(m + 1) : x \in 1..m \/ x = m + 1
        BY <4>2
      <4> QED
        BY <3>1, <4>1, <4>2, <4>3, <4>4
    <3> QED
      BY <3>2, <3>3
  <2>9. ASSUME NEW j \in T, NEW m \in 1..n, es[m] = ls[j].gates[4],
               from <= Starts(ls[j]), Starts(ls[j]) <= h
        PROVE  Has(n, j)
    <3>1. CASE m = n
      <4>1. Adds(acc, after, ls[j], 4, from, h)
        BY <2>3, <2>9, <3>1
      <4>2. cs(n) = Append(cs(n - 1), CrossingOf(ls[j]))
        BY <2>9, <4>1 DEF Adds, cs
      <4>3. PICK x \in Nat : x = Len(cs(n - 1))
        BY <2>6
      <4>4. x + 1 \in 1..Len(cs(n)) /\ cs(n)[x + 1] = CrossingOf(ls[j])
        BY <2>6, <4>2, <4>3
      <4> QED
        BY <4>4
    <3>2. CASE m # n
      <4>1. m \in 1..(n - 1)
        BY <1>1, <3>2
      <4>2. Has(n - 1, j)
        BY <1>5, <2>9, <4>1
      <4> QED
        BY <2>8, <4>2
    <3> QED
      BY <3>1, <3>2
  <2> QED
    BY <2>7, <2>8, <2>9
<1> HIDE DEF OK
<1>6. Not = {}
  <2> SUFFICES ASSUME Not # {} PROVE FALSE
    OBVIOUS
  <2>1. Not \in SUBSET Nat
    OBVIOUS
  <2>2. PICK n \in Not : \A m \in Not : n <= m
    <3> HIDE DEF Not
    <3> QED
      BY <2>1, LeastNatural
  <2>3. n # 0
    BY <1>4, <2>2
  <2>4. n \in 1..len /\ n - 1 \in 0..len /\ OK(n - 1)
    BY <2>2, <2>3
  <2> QED
    BY <1>5, <2>2, <2>4
<1>7. OK(len)
  BY <1>6
<1>8. CrossingsFromEvents(es) = cs(len)
  BY <1>2 DEF CrossingsFromEvents
<1>9. ASSUME NEW i \in T, from <= Starts(ls[i]), Starts(ls[i]) <= h
      PROVE  Has(len, i)
  <2>1. 4 \in 1..4 /\ from <= ls[i].gates[4].at
    <3>1. /\ Starts(ls[i]) <= ls[i].gates[4].at /\ Starts(ls[i]) \in Nat
          /\ ls[i].gates[4].at \in Nat
      BY TimesInTurn
    <3> QED
      BY <1>9, <3>1
  <2>2. PICK m \in 1..len : es[m] = ls[i].gates[4]
    BY <1>1, <1>9, <2>1 DEF Shown
  <2> QED
    BY <1>7, <1>9, <2>2 DEF OK
<1>10. AllAccounted(len) /\ cs(len) \in Seq(AnyCrossing)
  BY <1>3, <1>7 DEF OK
<1> HIDE DEF cs
<1> QED
  BY <1>8, <1>9, <1>10

\* The direction of an observation whose portal's loads are shown until its last read.
LEMMA ResolvesToALoad ==
  ASSUME NEW ls, NEW T, InTurn(ls, T), NEW es,
         NEW first \in Int, NEW last \in Int, NEW from \in Int, NEW to \in Int,
         from <= first,
         Shown(FetchGateEvents(es, from - LookupMargin, to + LookupMargin), ls, T,
               from - LookupMargin, last)
  PROVE  LET over == {i \in T : Starts(ls[i]) <= last /\ first <= Ends(ls[i])}
             d == ResolveDirection(es, first, last, from, to)
         IN  IF over = {} THEN d = "UNKNOWN" ELSE d \in {DirectionOf(ls[i]) : i \in over}
<1> DEFINE f == from - LookupMargin
           fetched == FetchGateEvents(es, f, to + LookupMargin)
           cs == CrossingsFromEvents(fetched)
           over == {i \in T : Starts(ls[i]) <= last /\ first <= Ends(ls[i])}
           d == DirectionForWindow(first, last, cs)
<1>1. /\ f \in Int /\ LookupMargin \in Nat /\ PalletBlocked + Separation \in Nat
      /\ PalletBlocked + Separation <= LookupMargin
  BY Times, GateAssumption
<1>2. /\ cs \in Seq(AnyCrossing)
      /\ \A c \in 1..Len(cs) : Accounted(cs[c], ls, T, f, last)
      /\ \A i \in T : f <= Starts(ls[i]) /\ Starts(ls[i]) <= last =>
           \E c \in 1..Len(cs) : cs[c] = CrossingOf(ls[i])
  <2> HIDE DEF fetched, f
  <2>1. Shown(fetched, ls, T, f, last)
    BY DEF fetched, f
  <2> QED
    BY <1>1, <2>1, CrossingsOfLoads
<1>3. ResolveDirection(es, first, last, from, to) = IF d = None THEN "UNKNOWN" ELSE d
  BY DEF ResolveDirection
<1> HIDE DEF cs
<1>4. \A c \in 1..Len(cs) : cs[c] \in AnyCrossing /\ cs[c].started \in Int /\ cs[c].ended \in Int
  <2>1. \A c \in 1..Len(cs) : cs[c] \in AnyCrossing
    BY <1>2
  <2>2. \A c \in AnyCrossing : c.started \in Int /\ c.ended \in Int
    BY DEF AnyCrossing
  <2> QED
    BY <2>1, <2>2
<1>5. ASSUME NEW c \in Overlapping(first, last, cs)
      PROVE  \E i \in over : cs[c] = CrossingOf(ls[i])
  <2>1. c \in 1..Len(cs) /\ cs[c].started <= last /\ cs[c].ended >= first
    BY <1>2 DEF Overlapping, Overlaps
  <2>2. ~ (cs[c].started > last)
    BY <1>4, <2>1
  <2>3. ~ (cs[c].ended < f + (PalletBlocked + Separation))
    BY <1>1, <1>4, <2>1
  <2>4. PICK i \in T : Starts(ls[i]) <= last /\ cs[c] = CrossingOf(ls[i])
    BY <1>2, <2>1, <2>2, <2>3 DEF Accounted
  <2>5. first <= Ends(ls[i])
    BY <2>1, <2>4 DEF CrossingOf
  <2> QED
    BY <2>4, <2>5
<1>6. ASSUME NEW i \in over
      PROVE  \E c \in Overlapping(first, last, cs) : cs[c] = CrossingOf(ls[i])
  <2>1. /\ Starts(ls[i]) \in Nat /\ Ends(ls[i]) \in Nat
        /\ Ends(ls[i]) - Starts(ls[i]) <= PalletBlocked + Separation
    <3>1. ls[i] \in LoadRecords /\ CrossesOnce(ls[i])
      BY DEF InTurn
    <3>2. /\ Starts(ls[i]) \in Nat /\ Ends(ls[i]) \in Nat
          /\ ls[i].gates[1].at = Starts(ls[i]) /\ ls[i].gates[4].at = Ends(ls[i])
      BY TimesInTurn
    <3>3. ls[i].gates[4].at - ls[i].gates[1].at <= PalletBlocked + Separation
      BY <3>1, FourEvents
    <3> QED
      BY <3>2, <3>3
  <2>2. f <= Starts(ls[i])
    BY <1>1, <2>1
  <2>3. PICK c \in 1..Len(cs) : cs[c] = CrossingOf(ls[i])
    BY <1>2, <2>2
  <2>4. Overlaps(cs[c], first, last)
    BY <2>1, <2>3 DEF Overlaps, CrossingOf
  <2>5. c \in Overlapping(first, last, cs)
    BY <1>2, <2>4 DEF Overlapping
  <2> QED
    BY <2>3, <2>5
<1> HIDE DEF d, over
<1>7. CASE over = {}
  <2>1. Overlapping(first, last, cs) = {}
    BY <1>5, <1>7
  <2>2. d = None
    BY <2>1 DEF d, DirectionForWindow
  <2> QED
    BY <1>3, <1>7, <2>2 DEF over
<1>8. CASE over # {}
  <2>1. Overlapping(first, last, cs) # {}
    BY <1>6, <1>8
  <2>2. PICK c \in Overlapping(first, last, cs) : d = cs[c].direction
    <3>1. \A c \in AnyCrossing : c.started \in Int /\ c.ended \in Int
      BY DEF AnyCrossing
    <3> QED
      BY <1>2, <2>1, <3>1, NearestOverlapping DEF d
  <2>3. PICK i \in over : cs[c] = CrossingOf(ls[i])
    BY <1>5
  <2>4. d = DirectionOf(ls[i]) /\ d # None
    <3>1. DirectionOf(ls[i]) # None
      BY TwoBeams DEF None
    <3> QED
      BY <2>2, <2>3, <3>1 DEF CrossingOf
  <2> QED
    BY <1>3, <1>8, <2>4 DEF over
<1> QED
  BY <1>7, <1>8

\* A quiet period after the last read of a group, all loads that came until then are
\* in the rows of the gate.
LEMMA RowsShown ==
  ASSUME PipelineInv, NEW g \in Gates, NEW last \in Int, last + Quiet < now,
         NEW from \in Int, NEW to \in Int, last <= to
  PROVE  /\ InTurn(loads, Through(g))
         /\ Shown(FetchGateEvents(gateEvents[g], from, to + LookupMargin), loads, Through(g),
                  from, last)
<1> DEFINE es == gateEvents[g]
           T == Through(g)
           t == to + LookupMargin
           fetched == FetchGateEvents(es, from, t)
<1>1. RowsOf(g) /\ es \in Seq(BeamEvents)
  BY DEF PipelineInv, GatesInv, RowsOf
<1>2. InTurn(loads, T)
  <2>1. T \subseteq Nat /\ \A i \in T : i \in 1..Len(loads) /\ Crosses(loads[i])
    BY DEF Through
  <2>2. \A i \in T : loads[i] \in LoadRecords /\ CrossesOnce(loads[i])
    BY <2>1, EventsOfALoad
  <2>3. \A i, j \in T : i < j => Ends(loads[i]) < Starts(loads[j])
    BY <2>1 DEF PipelineInv, SimulatorInv
  <2> QED
    BY <2>1, <2>2, <2>3 DEF InTurn
<1>3. t \in Int /\ LookupMargin \in Nat /\ PalletBlocked + Separation \in Nat
      /\ PalletBlocked + Separation <= LookupMargin /\ Quiet \in Nat /\ MaxDelay \in Nat
      /\ (PalletBlocked + Separation) + MaxDelay <= Quiet
  BY Times, GateAssumption
<1>4. PICK len \in Nat : Len(es) = len
  BY <1>1
<1>5. fetched \in Seq(BeamEvents) /\ \E ids : Sorts(ids, fetched, es, len, from, t)
  BY <1>1, <1>3, <1>4, AreBeamEvents, FetchSorts
<1> HIDE DEF fetched, t, es, T
<1>6. PICK ids : Sorts(ids, fetched, es, len, from, t)
  BY <1>5
<1>7. /\ \A n \in 1..Len(fetched) : ids[n] \in 1..len
      /\ \A n \in 1..Len(fetched) : fetched[n] = es[ids[n]] /\ es[ids[n]].at \in from..t
      /\ \A m \in 1..len : es[m].at \in from..t => \E n \in 1..Len(fetched) : ids[n] = m
  BY <1>6 DEF Sorts
<1>8. ASSUME NEW n \in 1..Len(fetched)
      PROVE  from <= fetched[n].at /\ \E i \in T, k \in 1..4 : fetched[n] = loads[i].gates[k]
  <2>1. ids[n] \in 1..len /\ fetched[n] = es[ids[n]] /\ es[ids[n]].at \in from..t
    BY <1>7
  <2>2. \E i \in T, k \in 1..4 : es[ids[n]] = loads[i].gates[k]
    BY <1>1, <1>4, <2>1 DEF RowsOf, es, T
  <2>3. from <= fetched[n].at
    BY <1>3, <2>1
  <2> QED
    BY <2>1, <2>2, <2>3
<1>9. ASSUME NEW m \in 1..Len(fetched), NEW n \in 1..Len(fetched), NEW i \in T, NEW j \in T,
             NEW k \in 1..4, NEW l \in 1..4,
             m < n, fetched[m] = loads[i].gates[k], fetched[n] = loads[j].gates[l]
      PROVE  i < j \/ (i = j /\ k < l)
  <2> DEFINE e == loads[i].gates[k]
             o == loads[j].gates[l]
  <2>1. e.at < o.at \/ (e.at = o.at /\ ids[m] < ids[n])
    <3>1. es[ids[m]].at < es[ids[n]].at \/ (es[ids[m]].at = es[ids[n]].at /\ ids[m] < ids[n])
      BY <1>6, <1>9, Zenon DEF Sorts
    <3>2. es[ids[m]] = e /\ es[ids[n]] = o
      BY <1>7, <1>9
    <3> QED
      BY <3>1, <3>2
  <2>2. i \in Nat /\ j \in Nat /\ e.at \in Nat /\ o.at \in Nat /\ (j < i => o.at < e.at)
    BY <1>2, TimesInTurn
  <2>3. ASSUME i = j PROVE k < l
    <3>1. loads[i] \in LoadRecords /\ CrossesOnce(loads[i])
      BY <1>2 DEF InTurn
    <3>2. l <= k => o.at <= e.at
      BY <2>3, <3>1, FourEvents
    <3>3. CASE e.at < o.at
      BY <2>2, <3>2, <3>3
    <3>4. CASE ids[m] < ids[n]
      <4>1. /\ ids[m] \in 1..Len(es) /\ ids[n] \in 1..Len(es)
            /\ es[ids[m]] = loads[i].gates[k] /\ es[ids[n]] = loads[i].gates[l]
        BY <1>4, <1>7, <1>9, <2>3
      <4>2. \A a, b \in 1..Len(es) :
              a < b /\ es[a] = loads[i].gates[k] /\ es[b] = loads[i].gates[l] => k < l
        BY <1>1, Zenon DEF RowsOf, es, T
      <4> QED
        BY <3>4, <4>1, <4>2
    <3> QED
      BY <2>1, <3>3, <3>4
  <2> HIDE DEF e, o
  <2> QED
    BY <2>1, <2>2, <2>3
<1>10. ASSUME NEW i \in T, NEW k \in 1..4, Starts(loads[i]) <= last,
              from <= loads[i].gates[k].at
       PROVE  \E n \in 1..Len(fetched) : fetched[n] = loads[i].gates[k]
  <2> DEFINE e == loads[i].gates[k]
  <2>1. i \in 1..Len(loads) /\ Crosses(loads[i])
    BY DEF T, Through
  <2>2. /\ e.at \in Nat /\ e.at <= Ends(loads[i])
        /\ Starts(loads[i]) \in Nat /\ Ends(loads[i]) \in Nat
        /\ Ends(loads[i]) - Starts(loads[i]) <= PalletBlocked + Separation
    BY <2>1, EventsOfALoad
  <2>3. now \in Nat
    BY Typed DEF PipelineInv, DebouncerInv
  <2>4. e.at <= last + (PalletBlocked + Separation)
    BY <1>3, <1>10, <2>2
  <2>5. ~ IsDue(i, k)
    <3> SUFFICES ASSUME IsDue(i, k) PROVE FALSE
      OBVIOUS
    <3>1. now <= e.at + MaxDelay
      <4>1. \A m \in timelines[i] : now <= m.body.at + MaxDelay
        BY <2>1 DEF PipelineInv, SimulatorInv
      <4> QED
        BY <4>1 DEF IsDue
    <3> HIDE DEF e
    <3> QED
      BY <1>3, <2>2, <2>3, <2>4, <3>1
  <2>6. PICK m \in 1..len : es[m] = e
    BY <1>1, <1>4, <2>5 DEF RowsOf, es, T
  <2>7. es[m].at \in from..t
    <3> HIDE DEF e
    <3> QED
      BY <1>3, <1>10, <2>2, <2>4, <2>6 DEF t, e
  <2>8. PICK n \in 1..Len(fetched) : ids[n] = m
    BY <1>7, <2>7
  <2> QED
    BY <1>7, <2>6, <2>8
<1>11. Shown(fetched, loads, T, from, last)
  BY <1>5, <1>8, <1>9, <1>10 DEF Shown
<1> QED
  BY <1>2, <1>11 DEF fetched, t, es, T

-----------------------------------------------------------------------------
(* The directions of groups *)

\* The first of some times, and the last.
LEMMA FirstAndLast ==
  ASSUME NEW S \in SUBSET (0..MaxNow), S # {}
  PROVE  /\ Min(S) \in S /\ \A t \in S : Min(S) <= t
         /\ Max(S) \in S /\ \A t \in S : t <= Max(S)
<1> DEFINE Left == {MaxNow - t : t \in S}
<1>1. S \in SUBSET Nat /\ MaxNow \in Nat
  BY Times
<1>2. Left \in SUBSET Nat /\ Left # {}
  <2>1. \A t \in S : MaxNow - t \in Nat
    BY <1>1
  <2> QED
    BY <2>1
<1> HIDE DEF Left
<1>3. PICK n \in Left : \A m \in Left : n <= m
  BY <1>2, LeastNatural
<1>4. PICK t \in S : n = MaxNow - t
  BY <1>3 DEF Left
<1>5. ASSUME NEW u \in S PROVE t >= u
  <2>1. MaxNow - u \in Left
    BY DEF Left
  <2> QED
    BY <1>1, <1>3, <1>4, <2>1
<1>6. Max(S) = CHOOSE x \in S : \A y \in S : x >= y
  BY DEF Max
<1>7. Max(S) \in S /\ \A y \in S : Max(S) >= y
  BY <1>5, <1>6
<1> QED
  BY <1>1, <1>7, NextRow

\* What the groups of a portal are given, in the state of the loads and rows.
LEMMA DirectionsGiven ==
  ASSUME PipelineInv, NEW p, ResolveDirections(p), NEW r \in resolved'
  PROVE  \/ r \in resolved
         \/ /\ r.group \in finished /\ r.group.key[2] \in Gated
            /\ r.direction \in {"IN", "OUT", "UNKNOWN"}
            /\ pc = "commit" => Right(r)
<1> SUFFICES ASSUME r \notin resolved
             PROVE  /\ r.group \in finished /\ r.group.key[2] \in Gated
                    /\ r.direction \in {"IN", "OUT", "UNKNOWN"}
                    /\ pc = "commit" => Right(r)
  OBVIOUS
<1> DEFINE gate == GateIdForPortal(p)
           es == gateEvents[gate]
           firsts == {g.first : g \in At(p)}
           lasts == {g.last : g \in At(p)}
           from == Min(firsts)
           to == Max(lasts)
<1>1. p \in Gated /\ gate \in Gates
  BY DEF ResolveDirections, Gates
<1>2. PICK g \in At(p) :
        r = [group |-> g, direction |-> ResolveDirection(es, g.first, g.last, from, to)]
  BY DEF ResolveDirections
<1>3. /\ g \in finished /\ g.key[2] = p /\ At(p) \subseteq finished /\ finished \subseteq Group
      /\ g \in Group
  BY DEF At, PipelineInv, DebouncerInv, TypeOK
<1>4. firsts \in SUBSET (0..MaxNow) /\ lasts \in SUBSET (0..MaxNow)
      /\ g.first \in firsts /\ g.last \in lasts
  BY <1>3 DEF Group
<1> HIDE DEF firsts, lasts
<1>5. from \in firsts /\ to \in lasts /\ from <= g.first /\ g.last <= to
  BY <1>4, FirstAndLast
<1>6. from \in Int /\ to \in Int /\ g.first \in Int /\ g.last \in Int
  <2> HIDE DEF from, to, gate, es
  <2>1. \A n \in 0..MaxNow : n \in Int
    OBVIOUS
  <2>2. from \in 0..MaxNow /\ to \in 0..MaxNow
    BY <1>4, <1>5
  <2>3. g.first \in 0..MaxNow /\ g.last \in 0..MaxNow
    BY <1>4
  <2> QED
    BY <2>1, <2>2, <2>3
<1> HIDE DEF from, to
<1>7. es \in Seq(BeamEvents)
  BY <1>1 DEF PipelineInv, GatesInv, RowsOf
<1>8. r.direction \in {"IN", "OUT", "UNKNOWN"}
  <2>1. ResolveDirection(es, g.first, g.last, from, to) \in {"IN", "OUT", "UNKNOWN"}
    <3> HIDE DEF es
    <3> QED
      BY <1>6, <1>7, AreBeamEvents, DirectionIsOne
  <2> QED
    BY <1>2, <2>1
<1>9. ASSUME pc = "commit" PROVE Right(r)
  <2> DEFINE T == Through(gate)
             f == from - LookupMargin
             over == {i \in T : Starts(loads[i]) <= g.last /\ g.first <= Ends(loads[i])}
  <2>1. g.last + Quiet < now
    BY <1>3, <1>9 DEF PipelineInv, QuietInv
  <2>2. f \in Int
    BY <1>6, Times
  <2> HIDE DEF gate
  <2>3. /\ InTurn(loads, T)
        /\ Shown(FetchGateEvents(es, f, to + LookupMargin), loads, T, f, g.last)
    <3> HIDE DEF f
    <3> QED
      BY <1>1, <1>5, <1>6, <2>1, <2>2, RowsShown
  <2> HIDE DEF es, T
  <2>4. IF over = {} THEN r.direction = "UNKNOWN"
        ELSE r.direction \in {DirectionOf(loads[i]) : i \in over}
    <3> DEFINE d == ResolveDirection(es, g.first, g.last, from, to)
    <3>1. IF over = {} THEN d = "UNKNOWN" ELSE d \in {DirectionOf(loads[i]) : i \in over}
      BY <1>5, <1>6, <2>3, ResolvesToALoad
    <3>2. r.direction = d
      BY <1>2
    <3> HIDE DEF d, over
    <3> QED
      BY <3>1, <3>2
  <2>5. InTheBeams(r) = {loads[i] : i \in over}
    <3> DEFINE is == {i \in 1..Len(loads) : Crosses(loads[i]) /\ loads[i].portal = r.group.key[2]
                       /\ Starts(loads[i]) <= r.group.last /\ r.group.first <= Ends(loads[i])}
    <3>1. r.group = g /\ r.group.key[2] = p
      BY <1>2, <1>3
    <3>2. \A i \in 1..Len(loads) : Crosses(loads[i]) =>
            (loads[i].portal = p <=> GateIdForPortal(loads[i].portal) = gate)
      <4>1. \A i \in 1..Len(loads) : Crosses(loads[i]) => loads[i].portal \in Gated
        BY EventsOfALoad
      <4> QED
        BY <1>1, <4>1, GateAssumption DEF gate
    <3>3. is = over
      BY <3>1, <3>2 DEF T, Through
    <3>4. InTheBeams(r) = {loads[i] : i \in is}
      BY DEF InTheBeams
    <3> QED
      BY <3>3, <3>4
  <2> HIDE DEF over
  <2>6. {DirectionOf(l) : l \in InTheBeams(r)} = {DirectionOf(loads[i]) : i \in over}
    BY <2>5
  <2>7. InTheBeams(r) = {} <=> over = {}
    BY <2>5
  <2> QED
    BY <2>4, <2>6, <2>7 DEF Right
<1> QED
  BY <1>1, <1>2, <1>3, <1>8, <1>9

\* A load that comes after a tag was heard was not in the beams then.
LEMMA RightStays ==
  ASSUME PipelineInv, NEW w, w.group \in Group, w.group.last < now, Right(w),
         \/ loads' = loads
         \/ \E load : /\ loads' = Append(loads, load)
                      /\ Crosses(load) => Starts(load) \in Nat /\ now <= Starts(load)
  PROVE  Right(w)'
<1> DEFINE Over(ls, i) == /\ Crosses(ls[i]) /\ ls[i].portal = w.group.key[2]
                          /\ Starts(ls[i]) <= w.group.last /\ w.group.first <= Ends(ls[i])
<1>1. CASE loads' = loads
  BY <1>1 DEF Right, InTheBeams
<1>2. CASE loads' # loads
  <2>1. PICK load : /\ loads' = Append(loads, load)
                    /\ Crosses(load) => Starts(load) \in Nat /\ now <= Starts(load)
    BY <1>2
  <2>2. PICK n \in Nat : n = Len(loads)
    BY DEF PipelineInv, SimulatorInv
  <2>3. /\ Len(loads) = n /\ Len(loads') = n + 1 /\ loads'[n + 1] = load
        /\ \A i \in 1..n : loads'[i] = loads[i]
    BY <2>1, <2>2 DEF PipelineInv, SimulatorInv
  <2>4. now \in Nat /\ w.group.last \in Nat
    BY Typed DEF PipelineInv, DebouncerInv
  <2>5. ~ Over(loads', n + 1)
    BY <2>1, <2>3, <2>4
  <2>6. {loads'[i] : i \in {i \in 1..(n + 1) : Over(loads', i)}}
          = {loads[i] : i \in {i \in 1..n : Over(loads, i)}}
    <3>1. \A i \in 1..n : Over(loads', i) <=> Over(loads, i)
      BY <2>3
    <3>2. \A i \in 1..(n + 1) : i \in 1..n \/ i = n + 1
      BY <2>2
    <3>3. \A i \in 1..n : i \in 1..(n + 1)
      BY <2>2
    <3> HIDE DEF Over
    <3>4. {i \in 1..(n + 1) : Over(loads', i)} = {i \in 1..n : Over(loads, i)}
      BY <2>5, <3>1, <3>2, <3>3
    <3> QED
      BY <2>3, <3>4
  <2>7. InTheBeams(w)' = InTheBeams(w)
    BY <2>3, <2>6 DEF InTheBeams
  <2> QED
    BY <2>7 DEF Right
<1> QED
  BY <1>1, <1>2

\* Groups are closed a quiet period after their last reads.
LEMMA QuietKept ==
  ASSUME PipelineInv, [PipelineNext]_pipelineVars
  PROVE  QuietInv'
<1>1. [Next]_vars
  BY StepsOfTheDebouncer
<1>2. /\ DebouncerInv /\ QuietInv /\ RoundInv /\ now \in Nat /\ finished \subseteq Group
      /\ \A g \in Group : g.last \in Nat /\ g.touched \in Nat
      /\ Quiet \in Nat
  BY Typed, Times DEF PipelineInv, DebouncerInv, TypeOK
<1>3. ASSUME finished' = finished, pc' = pc, now' = now \/ now' = now + 1
      PROVE  QuietInv'
  BY <1>2, <1>3 DEF QuietInv
<1>4. ASSUME pc' \in {"load", "fetch", "final", "down"} PROVE QuietInv'
  BY <1>4 DEF QuietInv
<1>5. CASE Tick \/ RequestStop \/ CommitFails \/ UNCHANGED vars
            \/ \E k \in Keys, delay \in 0..MaxDelay, rssi \in Rssis : ReadArrives(k, delay, rssi)
  BY <1>3, <1>5 DEF Tick, RequestStop, CommitFails, ReadArrives, vars
<1>6. CASE LoadCursor \/ Flush \/ Commit \/ Crash \/ Restart
  BY <1>4, <1>6 DEF LoadCursor, Flush, Commit, Crash, Restart
<1>7. CASE FetchReads \/ FetchReturns \/ FetchFails
  <2>1. finished' = {}
    BY <1>2, <1>7 DEF FetchReads, FetchReturns, FetchFails, RoundInv
  <2> QED
    BY <2>1 DEF QuietInv
<1>8. CASE Absorb
  <2>1. NextId \in Ids /\ now' = now /\ pc = "absorb"
    BY <1>2, <1>8, AbsorbsNext
  <2>2. reads[NextId].at <= now /\ reads[NextId].at \in Nat
    BY <1>2, <2>1, Typed DEF DebouncerInv, TimeInv
  <2>3. \A g \in finished' :
          g \in finished \/ (g \in Group /\ reads[NextId].at > g.last + Quiet)
    <3> SUFFICES ASSUME NEW g \in finished', g \notin finished
                 PROVE  g \in Group /\ reads[NextId].at > g.last + Quiet
      OBVIOUS
    <3>1. /\ finished' = finished \cup {openGroups[reads[NextId].key]}
          /\ openGroups[reads[NextId].key] # Nothing
          /\ StartsNewSession(openGroups[reads[NextId].key], NextId)
      BY <1>8 DEF Absorb, NextId
    <3>2. g = openGroups[reads[NextId].key] /\ reads[NextId].key \in Keys
      <4>1. reads[NextId] \in Read
        BY <1>2, <2>1, Typed DEF DebouncerInv
      <4> QED
        BY <3>1, <4>1 DEF Read
    <3>3. g \in Group
      BY <1>2, <3>1, <3>2, OpenOf
    <3> QED
      BY <3>1, <3>2, <3>3 DEF StartsNewSession
  <2>4. \A g \in finished : g.last + Quiet < now
    BY <1>2, <2>1 DEF QuietInv
  <2> QED
    BY <1>2, <2>1, <2>2, <2>3, <2>4 DEF QuietInv
<1>9. CASE CloseQuietGroups
  <2>1. pc = "close" /\ now' = now
    BY <1>9 DEF CloseQuietGroups
  <2>2. \A g \in finished' :
          g \in finished \/ \E k \in OpenKeys : g = openGroups[k] /\ HasGoneQuiet(g)
    BY <1>9 DEF CloseQuietGroups, Close
  <2>3. \A g \in Open : g.last <= g.touched /\ g \in Group
    BY <1>2, OpenApart DEF DebouncerInv, OpenInv
  <2>4. \A g \in finished' : g \in finished \/ (g \in Open /\ HasGoneQuiet(g))
    BY <2>2 DEF Open
  <2>5. \A g \in finished : g.last + Quiet < now
    BY <1>2, <2>1 DEF QuietInv
  <2> QED
    BY <1>2, <2>1, <2>3, <2>4, <2>5 DEF QuietInv, HasGoneQuiet
<1> QED
  BY <1>1, <1>5, <1>6, <1>7, <1>8, <1>9 DEF Next

\* The groups that are written are those of the round, each with its direction.
LEMMA WithTheirDirections ==
  ASSUME PipelineInv, \A p \in Gated : Resolved(p)
  PROVE  /\ {w.group : w \in WithDirection} = finished
         /\ \A w \in WithDirection :
              w.group.key[2] \in Gated =>
                \E r \in resolved : r.group = w.group /\ r.direction = w.direction
<1> DEFINE Others == {g \in finished : g.key[2] \notin Gated}
<1>1. \A r \in resolved : r.group \in finished
  BY DEF PipelineInv, DirectionsInv
<1>2. \A w \in WithDirection :
        w \in resolved \/ \E g \in Others : w = [group |-> g, direction |-> None]
  BY DEF WithDirection
<1>3. \A w \in WithDirection : w.group \in finished
  BY <1>1, <1>2
<1>4. ASSUME NEW g \in finished PROVE \E w \in WithDirection : w.group = g
  <2>1. CASE g.key[2] \in Gated
    <3>1. PICK r \in resolved : r.group = g
      BY <2>1 DEF Resolved, At
    <3> QED
      BY <3>1 DEF WithDirection
  <2>2. CASE g.key[2] \notin Gated
    <3>1. [group |-> g, direction |-> None] \in WithDirection
      BY <2>2 DEF WithDirection
    <3> QED
      BY <3>1
  <2> QED
    BY <2>1, <2>2
<1>5. {w.group : w \in WithDirection} = finished
  BY <1>3, <1>4
<1> QED
  BY <1>2, <1>5

\* Time goes on, and a load that comes is not in the beams before.
LEMMA LoadsAndTime ==
  ASSUME PipelineInv, [PipelineNext]_pipelineVars
  PROVE  /\ now \in Nat /\ (now' = now \/ now' = now + 1)
         /\ \/ loads' = loads
            \/ \E load : /\ loads' = Append(loads, load)
                         /\ Crosses(load) => Starts(load) \in Nat /\ now <= Starts(load)
<1>1. now \in Nat
  BY Typed DEF PipelineInv, DebouncerInv
<1>2. CASE \E c \in Commands, tag, other \in Tags : tag # other /\ Run(c[1], tag, other, c[2])
  <2>1. PICK c \in Commands, tag \in Tags, other \in Tags : Run(c[1], tag, other, c[2])
    BY <1>2
  <2>2. /\ now' = now
        /\ \E load \in LoadsOf(c[1], tag, other, c[2], now) : loads' = Append(loads, load)
    BY <2>1 DEF Run, vars
  <2>3. PICK load \in LoadsOf(c[1], tag, other, c[2], now) : loads' = Append(loads, load)
    BY <2>2
  <2>4. c[1] \in {"box", "reverse", "pallet", "stray"} /\ c[2] \in Portals
    BY PipelineAssumption
  <2>5. Made(load, c[2], now)
    BY <1>1, <2>3, <2>4, LoadsAreMade
  <2> QED
    BY <1>1, <2>2, <2>3, <2>5 DEF Made
<1>3. CASE \E i \in 1..Len(timelines) : \E m \in timelines[i] : Deliver(i, m)
  BY <1>1, <1>3 DEF Deliver, ReadArrives, vars
<1>4. CASE Clock
  BY <1>1, <1>4 DEF Clock, Tick, simVars
<1>5. CASE \/ Debounce \/ WriteObservations \/ Stops \/ Crashes
           \/ \E p \in Portals : ResolveDirections(p)
  BY <1>1, <1>5, StepsApart
<1>6. CASE UNCHANGED pipelineVars
  BY <1>1, <1>6 DEF pipelineVars, vars, simVars
<1> QED
  BY <1>2, <1>3, <1>4, <1>5, <1>6 DEF PipelineNext

\* A group that is written stays right as time goes on and other loads come.
LEMMA WrittenStayRight ==
  ASSUME PipelineInv, [PipelineNext]_pipelineVars, NEW w \in written, ~ w.flushed
  PROVE  /\ w.group.last + Quiet < now'
         /\ w.group.key[2] \in Gated => Right(w)'
<1>1. w.group \in Group /\ w.group.last \in Nat /\ Quiet \in Nat
  <2>1. w.group \in Observed
    BY DEF PipelineInv, DirectionsInv
  <2>2. w.group \in Group
    BY <2>1 DEF PipelineInv, DebouncerInv, TypeOK, Observed
  <2> QED
    BY <2>2, Typed, Times DEF PipelineInv, DebouncerInv
<1>2. w.group.last + Quiet < now /\ (w.group.key[2] \in Gated => Right(w))
  BY DEF PipelineInv, DirectionsInv
<1>3. w.group.last < now /\ w.group.last + Quiet < now'
  BY <1>1, <1>2, LoadsAndTime
<1> QED
  BY <1>1, <1>2, <1>3, LoadsAndTime, RightStays

\* What is given a direction and not yet written stays so while the commit is tried.
LEMMA ResolvedStayRight ==
  ASSUME PipelineInv, [PipelineNext]_pipelineVars, NEW r \in resolved, pc = "commit"
  PROVE  Right(r)'
<1>1. r.group \in finished /\ Right(r)
  BY DEF PipelineInv, DirectionsInv
<1>2. r.group \in Group /\ r.group.last \in Nat /\ Quiet \in Nat /\ now \in Nat
  BY <1>1, Typed, Times DEF PipelineInv, DebouncerInv, TypeOK
<1>3. r.group.last + Quiet < now
  BY <1>1 DEF PipelineInv, QuietInv
<1>4. r.group.last < now
  BY <1>2, <1>3
<1> QED
  BY <1>1, <1>2, <1>4, LoadsAndTime, RightStays

\* What the steps that give and write no directions leave.
LEMMA DirectionsLeft ==
  ASSUME PipelineInv,
         \/ \E c \in Commands, tag, other \in Tags : tag # other /\ Run(c[1], tag, other, c[2])
         \/ \E i \in 1..Len(timelines) : \E m \in timelines[i] : Deliver(i, m)
         \/ Clock \/ Debounce \/ Stops \/ Crashes \/ UNCHANGED pipelineVars
  PROVE  /\ written' = written /\ observations' = observations
         /\ \/ resolved' = {}
            \/ resolved' = resolved /\ pc' = pc /\ finished' = finished
<1>1. resolved # {} => pc \in {"commit", "final"}
  BY DEF PipelineInv, DirectionsInv
<1>2. CASE \E c \in Commands, tag, other \in Tags : tag # other /\ Run(c[1], tag, other, c[2])
  BY <1>2 DEF Run, vars, dbVars
<1>3. CASE \E i \in 1..Len(timelines) : \E m \in timelines[i] : Deliver(i, m)
  BY <1>3 DEF Deliver, ReadArrives, vars, dbVars
<1>4. CASE Clock
  BY <1>4 DEF Clock, Tick, dbVars
<1>5. CASE Debounce
  BY <1>1, <1>5 DEF Debounce, LoadCursor, FetchReads, FetchReturns, FetchFails, Absorb,
                    CloseQuietGroups, Flush, Restart, dbVars
<1>6. CASE Stops \/ Crashes
  BY <1>6 DEF Stops, Crashes, RequestStop, Crash, dbVars
<1>7. CASE UNCHANGED pipelineVars
  BY <1>7 DEF pipelineVars, vars, dbVars
<1> QED
  BY <1>2, <1>3, <1>4, <1>5, <1>6, <1>7

\* The groups of a round are written, each with its direction.
LEMMA WriteKeepsDirections ==
  ASSUME PipelineInv, WriteObservations
  PROVE  DirectionsInv'
<1> DEFINE new == {[group |-> w.group, direction |-> w.direction, flushed |-> pc = "final"] :
                     w \in WithDirection}
<1>0. [PipelineNext]_pipelineVars
  BY DEF PipelineNext
<1>1. /\ pc \in {"commit", "final"}
      /\ \/ resolved' = {}
         \/ resolved' = resolved /\ pc' = pc /\ finished' = finished
      /\ Written \/ observations' = observations
      /\ now' = now /\ loads' = loads
      /\ written' = IF observations' = observations THEN written ELSE written \cup new
  BY StepsApart DEF WriteObservations, Commit, CommitFails
<1>2. /\ {w.group : w \in WithDirection} = finished
      /\ \A w \in WithDirection :
           w.group.key[2] \in Gated =>
             \E r \in resolved : r.group = w.group /\ r.direction = w.direction
  BY WithTheirDirections DEF WriteObservations
<1>3. {w.group : w \in written} = Observed
  BY DEF PipelineInv, DirectionsInv
<1>4. {w.group : w \in new} = finished
  <2>1. ASSUME NEW w \in WithDirection PROVE \E v \in new : v.group = w.group
    <3>1. [group |-> w.group, direction |-> w.direction, flushed |-> pc = "final"] \in new
      OBVIOUS
    <3> QED
      BY <3>1
  <2>2. \A v \in new : \E w \in WithDirection : v.group = w.group
    OBVIOUS
  <2> HIDE DEF new
  <2> QED
    BY <1>2, <2>1, <2>2
<1>5. ASSUME NEW v \in new, ~ v.flushed
      PROVE  /\ v.group.last + Quiet < now'
             /\ v.group.key[2] \in Gated => Right(v)'
  <2>1. PICK w \in WithDirection :
          v = [group |-> w.group, direction |-> w.direction, flushed |-> pc = "final"]
    OBVIOUS
  <2>2. v.group = w.group /\ v.direction = w.direction /\ pc = "commit" /\ v.group \in finished
    BY <1>1, <1>2, <1>5, <2>1
  <2> HIDE DEF new
  <2>3. v.group.last + Quiet < now'
    BY <1>1, <2>2 DEF PipelineInv, QuietInv
  <2>4. ASSUME v.group.key[2] \in Gated PROVE Right(v)'
    <3>1. PICK r \in resolved : r.group = v.group /\ r.direction = v.direction
      BY <1>2, <2>2, <2>4
    <3>2. Right(r)'
      BY <1>0, <2>2, ResolvedStayRight
    <3> QED
      BY <3>1, <3>2 DEF Right, InTheBeams
  <2> QED
    BY <2>3, <2>4
<1> HIDE DEF new
<1>6. {w.group : w \in written'} = Observed'
  <2>1. CASE observations' = observations
    BY <1>1, <1>3, <2>1 DEF Observed
  <2>2. CASE observations' # observations
    <3>1. Observed' = Observed \cup finished /\ written' = written \cup new
      BY <1>1, <2>2, WrittenBag DEF PipelineInv
    <3> QED
      BY <1>3, <1>4, <3>1
  <2> QED
    BY <2>1, <2>2
<1>7. ASSUME NEW v \in written', ~ v.flushed
      PROVE  /\ v.group.last + Quiet < now'
             /\ v.group.key[2] \in Gated => Right(v)'
  <2>1. CASE v \in written
    BY <1>0, <1>7, <2>1, WrittenStayRight
  <2>2. CASE v \notin written
    BY <1>1, <1>5, <1>7, <2>2
  <2> QED
    BY <2>1, <2>2
<1>8. ASSUME NEW r \in resolved'
      PROVE  /\ r.group \in finished' /\ r.group.key[2] \in Gated
             /\ r.direction \in {"IN", "OUT", "UNKNOWN"}
             /\ pc' = "commit" => Right(r)'
  <2>1. r \in resolved /\ pc' = pc /\ finished' = finished
    BY <1>1
  <2> QED
    BY <1>0, <2>1, ResolvedStayRight DEF PipelineInv, DirectionsInv
<1>9. resolved' # {} => pc' \in {"commit", "final"}
  BY <1>1
<1> QED
  BY <1>6, <1>7, <1>8, <1>9 DEF DirectionsInv

\* Directions are those of loads in the beams.
LEMMA DirectionsKept ==
  ASSUME PipelineInv, [PipelineNext]_pipelineVars
  PROVE  DirectionsInv'
<1> DEFINE Others ==
             \/ \E c \in Commands, tag, other \in Tags : tag # other /\ Run(c[1], tag, other, c[2])
             \/ \E i \in 1..Len(timelines) : \E m \in timelines[i] : Deliver(i, m)
             \/ Clock \/ Debounce \/ Stops \/ Crashes \/ UNCHANGED pipelineVars
<1>1. Others \/ WriteObservations \/ \E p \in Portals : ResolveDirections(p)
  BY DEF PipelineNext
<1>2. ASSUME written' = written, observations' = observations
      PROVE  /\ {w.group : w \in written'} = Observed'
             /\ \A w \in written' :
                  ~ w.flushed => /\ w.group.last + Quiet < now'
                                 /\ w.group.key[2] \in Gated => Right(w)'
  BY <1>2, WrittenStayRight DEF PipelineInv, DirectionsInv, Observed
<1>3. CASE Others
  <2>1. /\ written' = written /\ observations' = observations
        /\ resolved' = {} \/ (resolved' = resolved /\ pc' = pc /\ finished' = finished)
    BY <1>3, DirectionsLeft
  <2>2. resolved' # {} => pc' \in {"commit", "final"}
    BY <2>1 DEF PipelineInv, DirectionsInv
  <2>3. ASSUME NEW r \in resolved'
        PROVE  /\ r.group \in finished' /\ r.group.key[2] \in Gated
               /\ r.direction \in {"IN", "OUT", "UNKNOWN"}
               /\ pc' = "commit" => Right(r)'
    <3>1. r \in resolved /\ pc' = pc /\ finished' = finished
      BY <2>1
    <3> QED
      BY <3>1, ResolvedStayRight DEF PipelineInv, DirectionsInv
  <2> QED
    BY <1>2, <2>1, <2>2, <2>3 DEF DirectionsInv
<1>4. CASE WriteObservations
  BY <1>4, WriteKeepsDirections
<1>5. CASE \E p \in Portals : ResolveDirections(p)
  <2>1. PICK p : ResolveDirections(p)
    BY <1>5
  <2>2. /\ UNCHANGED <<now, loads, pc, finished, written, observations>>
        /\ pc \in {"commit", "final"}
    BY <2>1 DEF ResolveDirections, vars, simVars, dbVars
  <2>3. ASSUME NEW r \in resolved'
        PROVE  /\ r.group \in finished' /\ r.group.key[2] \in Gated
               /\ r.direction \in {"IN", "OUT", "UNKNOWN"}
               /\ pc' = "commit" => Right(r)'
    <3>1. Right(r)' <=> Right(r)
      BY <2>2 DEF Right, InTheBeams
    <3>2. CASE r \in resolved
      BY <2>2, <3>1, <3>2 DEF PipelineInv, DirectionsInv
    <3>3. CASE r \notin resolved
      BY <2>1, <2>2, <3>1, <3>3, DirectionsGiven
    <3> QED
      BY <3>2, <3>3
  <2> QED
    BY <1>2, <2>2, <2>3 DEF DirectionsInv
<1> HIDE DEF Others
<1> QED
  BY <1>1, <1>3, <1>4, <1>5

-----------------------------------------------------------------------------
(* The theorems *)

\* Before the first load.
LEMMA InitPipeline == PipelineInit => PipelineInv
<1> SUFFICES ASSUME PipelineInit PROVE PipelineInv
  OBVIOUS
<1> USE DEF PipelineInit
<1>1. DebouncerInv
  BY InitDebouncer
<1>2. loads = <<>> /\ timelines = <<>> /\ Len(loads) = 0 /\ Len(timelines) = 0 /\ faults = 0
  BY DEF Init
<1>3. SimulatorInv
  BY <1>2, PipelineAssumption DEF SimulatorInv
<1>4. GatesInv
  <2>1. \A g \in Gates : gateEvents[g] = <<>> /\ Through(g) = {}
    BY <1>2 DEF Through
  <2>2. ASSUME NEW g \in Gates PROVE RowsOf(g)
    <3>1. gateEvents[g] = <<>> /\ Len(gateEvents[g]) = 0
      BY <2>1
    <3> QED
      BY <2>1, <3>1 DEF RowsOf
  <2> QED
    BY <2>2 DEF GatesInv
<1>5. QuietInv
  BY DEF Init, QuietInv
<1>6. DirectionsInv
  BY DEF Init, DirectionsInv, Observed, EmptyBag, SetToBag, BagToSet
<1> QED
  BY <1>1, <1>3, <1>4, <1>5, <1>6 DEF PipelineInv

\* Every step keeps the invariant.
LEMMA NextPipeline == PipelineInv /\ [PipelineNext]_pipelineVars => PipelineInv'
BY DebouncerKept, SimulatorKept, GatesKept, QuietKept, DirectionsKept DEF PipelineInv

\* The inductive invariant of the pipeline.
THEOREM PipelineInvariant == PipelineSpec => []PipelineInv
<1> QED
  BY InitPipeline, NextPipeline, PTL DEF PipelineSpec

\* What the simulator, ingest and the queries of the directions do around it leaves the
\* debouncer what module Debouncer says it is, so that its theorems hold of the pipeline.
THEOREM PipelineDebounces == PipelineSpec => Spec
<1>1. PipelineInit => Init
  BY DEF PipelineInit
<1>2. PipelineInv /\ [PipelineNext]_pipelineVars => [Next]_vars
  BY StepsOfTheDebouncer
<1> QED
  BY <1>1, <1>2, PipelineInvariant, PTL DEF PipelineSpec, Spec

\* A group that has been given a direction is one that is being written, and the groups
\* written with directions are the rows of item_observations: ResolveDirections, Commit.
THEOREM PipelineTypes == PipelineSpec => []PipelineTypeOK
<1>1. PipelineInv => PipelineTypeOK
  BY DEF PipelineInv, DebouncerInv, SimulatorInv, DirectionsInv, Observed, PipelineTypeOK
<1> QED
  BY <1>1, PipelineInvariant, PTL

\* An observation at a gated portal has the direction of a load that was in the beams while
\* its tag was heard, and UNKNOWN only when none was.
THEOREM DirectionsOfLoads == PipelineSpec => []DirectionOfALoad
<1>1. PipelineInv => DirectionOfALoad
  BY DEF PipelineInv, DirectionsInv, Right, DirectionOfALoad
<1> QED
  BY <1>1, PipelineInvariant, PTL

=============================================================================
