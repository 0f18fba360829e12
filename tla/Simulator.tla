------------------------------ MODULE Simulator ------------------------------
(***************************************************************************)
(* The simulator (services/simulator): what each of its commands publishes *)
(* for a load that goes through a portal, or a box that is parked at one.  *)
(* A tick is long against the beams' distance and short against a pass; a  *)
(* tag is heard at most once in a tick.  What the random numbers decide is *)
(* a choice: each operator gives the set of its possible results.  Noise   *)
(* and rounding of the strengths are left out, and so is `sim burst`,      *)
(* which like a parked box moves nothing.                                  *)
(***************************************************************************)
EXTENDS Config, Integers, Sequences

CONSTANTS
    PassDuration,   \* PASS_DURATION_S, in ticks
    Stagger,        \* PALLET_STAGGER_S
    Separation,     \* BEAM_SEPARATION_S and its jitter, at the most
    BoxBlocked,     \* BOX_BEAM_BLOCKED_S
    PalletBlocked,  \* PALLET_BEAM_BLOCKED_S
    Parked,         \* --duration of `sim stray`
    Attenuations,   \* of a box on a pallet, in dB
    Floor           \* rssi_floor_dbm

ASSUME SimulatorAssumption ==
  /\ PassDuration \in Nat \ {0} /\ Parked \in Nat
  /\ Stagger \in Nat /\ Separation \in Nat
  /\ BoxBlocked \in Nat /\ PalletBlocked \in Nat
  /\ Separation <= BoxBlocked /\ BoxBlocked <= PalletBlocked
  /\ Attenuations \subseteq 0..12 /\ Floor \in Int

-----------------------------------------------------------------------------
(* Signals, in dBm *)

Peak == -45
Falloff == 25
Sensitivity == -75
PalletAttenuation == 3
StrayRssi == -58
StrayDrift == 4

\* Twice the distance from the middle of the pass, of a tick of it.
FromCentre(offset) == 2 * offset - (PassDuration - 1)

RssiAt(offset, attenuation) ==
  Peak - attenuation
    - (Falloff * FromCentre(offset) * FromCentre(offset)) \div (PassDuration * PassDuration)

\* Nothing weaker answers.
Answers(rssi) == rssi > Sensitivity

-----------------------------------------------------------------------------
(* Reads *)

\* The sets of reads that a tag may give: heard at some of the offsets at which
\* its strength is one that answers, by one antenna or another.
ReadsAt(tag, antennas, start, strengths) ==
  LET heard == UNION {{[tag |-> tag, antenna |-> a, at |-> start + o, weak |-> s < Floor] :
                         a \in antennas, s \in {s \in strengths[o] : Answers(s)}} :
                      o \in DOMAIN strengths}
  IN  {R \in SUBSET heard : \A r, s \in R : r.at = s.at => r = s}

\* `reverse` changes which antenna peaks first, and no more.
PassReads(tag, antennas, start, attenuation) ==
  ReadsAt(tag, antennas, start, [o \in 0..PassDuration - 1 |-> {RssiAt(o, attenuation)}])

StrayReads(tag, antennas, start) ==
  ReadsAt(tag, antennas, start,
          [o \in 0..Parked - 1 |-> {StrayRssi - StrayDrift, StrayRssi + StrayDrift}])

-----------------------------------------------------------------------------
(* Beams *)

\* In the middle of the pass.
GateCrossing(gate, start, blocked, separation, reverse) ==
  LET at == start + PassDuration \div 2
      first == IF reverse THEN "OUTER" ELSE "INNER"
      second == IF reverse THEN "INNER" ELSE "OUTER"
      Event(beam, state, t) == [gate |-> gate, beam |-> beam, state |-> state, at |-> t]
  IN  <<Event(first, "BROKEN", at), Event(second, "BROKEN", at + separation),
        Event(first, "CLEAR", at + blocked), Event(second, "CLEAR", at + separation + blocked)>>

CrossingFor(portal, start, blocked, separation, reverse) ==
  IF portal \in Gated
  THEN GateCrossing(GateIdForPortal(portal), start, blocked, separation, reverse)
  ELSE <<>>

-----------------------------------------------------------------------------
(* The commands: what they publish for a load, from a time on *)

Load(command, portal, reads, gates) ==
  [command |-> command, portal |-> portal, reads |-> reads, gates |-> gates]

\* `sim box`, and `sim reverse`.
Carried(command, tag, portal, start) ==
  {Load(command, portal, reads,
        CrossingFor(portal, start, BoxBlocked, separation, command = "reverse")) :
     reads \in PassReads(tag, AntennasForPortal(portal), start, 0),
     separation \in 0..Separation}

\* What a box on a pallet may give: it is somewhere on the load, and behind others.
Boxed(box, portal, start) ==
  UNION {PassReads(box, AntennasForPortal(portal), start + stagger, attenuation) :
           stagger \in -Stagger..Stagger, attenuation \in Attenuations}

\* `sim pallet`: one crossing, and a box on it that need not be heard.
Pallet(tag, box, portal, start) ==
  {Load("pallet", portal, own \cup boxed,
        CrossingFor(portal, start, PalletBlocked, separation, FALSE)) :
     own \in PassReads(tag, AntennasForPortal(portal), start, PalletAttenuation),
     boxed \in Boxed(box, portal, start), separation \in 0..Separation}

\* `sim stray`: it never crosses the beams.
Stray(tag, portal, start) ==
  {Load("stray", portal, reads, <<>>) :
     reads \in StrayReads(tag, AntennasForPortal(portal), start)}

\* Reads and beam events on one timeline, by their stamps; the sort is stable, and the
\* beam events are in order behind the reads.
Messages(load) ==
  {[topic |-> "reads", n |-> 0, body |-> r] : r \in load.reads} \cup
  {[topic |-> "gates", n |-> k, body |-> load.gates[k]] : k \in 1..Len(load.gates)}

Before(m, other) ==
  m.body.at < other.body.at \/ (m.body.at = other.body.at /\ m.n < other.n)

=============================================================================
