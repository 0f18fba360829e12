------------------------------ MODULE Pipeline ------------------------------
(***************************************************************************)
(* From the portals to the observations: loads and parked boxes as the     *)
(* simulator publishes them, their reads and beam events written with some *)
(* delay (ingest keeps their order: module Ingest), the debouncer that     *)
(* groups the reads, and the direction it gives a group before the         *)
(* transaction that writes it.                                             *)
(***************************************************************************)
EXTENDS Debouncer, Directions, Simulator

CONSTANTS
    Tags,
    Commands,    \* those of the simulator that are run, each with its portal
    MaxEvents    \* bound: loads, and failures of the debouncer

ASSUME PipelineAssumption ==
  /\ Keys = Tags \X (Portals \cup {Absent})
  /\ Unmapped = Tags \X {Absent}
  /\ Commands \subseteq {"box", "reverse", "pallet", "stray"} \X Portals
  /\ MaxEvents \in Nat
  /\ {"strong", "weak"} \subseteq Rssis
  /\ Stagger <= MaxDelay

\* One door, one gate; the beams are close together, and a load is out of them in time.
ASSUME GateAssumption ==
  /\ \A p, other \in Gated : GateIdForPortal(p) = GateIdForPortal(other) => p = other
  /\ \A p \in Gated : IrGateTimeout(p) = Timeout
  /\ Separation <= Timeout
  /\ PalletBlocked + Separation <= LookupMargin
  /\ PalletBlocked + Separation + MaxDelay <= Quiet

VARIABLES
    loads,       \* history: what the simulator has made, and when
    timelines,   \* of each load, the messages that are not yet written
    gateEvents,  \* gate_events: the rows of each gate, by id
    resolved,    \* `directions`: of the groups that are about to be written
    written      \* history: the groups written, with their directions

simVars == <<loads, timelines>>
pipelineVars == <<vars, simVars, gateEvents, resolved, written>>

Gates == {GateIdForPortal(p) : p \in Gated}

PipelineInit ==
  /\ Init
  /\ loads = <<>> /\ timelines = <<>> /\ gateEvents = [g \in Gates |-> <<>>]
  /\ resolved = {} /\ written = {}

-----------------------------------------------------------------------------
(* The simulator, and ingest *)

LoadsOf(command, tag, other, portal, start) ==
  CASE command \in {"box", "reverse"} -> Carried(command, tag, portal, start)
    [] command = "pallet"             -> Pallet(tag, other, portal, start)
    [] command = "stray"              -> Stray(tag, portal, start)

\* What the debouncer does with what it has fetched sees nothing of what is
\* written meanwhile: that may as well come before or after.
Waiting == pc \notin {"load", "absorb", "close"}

Eventful == Len(loads) + faults < MaxEvents

Crosses(load) == load.gates # <<>>

\* Of a load that crosses, when it is in the beams.
Starts(load) == Head(load.gates).at
Ends(load) == Last(load.gates).at

\* A gate that two loads are in at one time cannot tell them apart.
OneInTheGate(load) ==
  \A i \in 1..Len(loads) :
    Crosses(load) /\ Crosses(loads[i]) => Ends(loads[i]) < Starts(load)

Run(command, tag, other, portal) ==
  /\ Eventful /\ Waiting
  /\ loads = <<>> => now = Stagger
  /\ now + PassDuration + MaxDelay + Quiet <= MaxNow  \* or it would not be closed
  /\ \E load \in LoadsOf(command, tag, other, portal, now) :
       /\ OneInTheGate(load)
       /\ load.reads # {}
       /\ Cardinality(UNION {loads[i].reads : i \in 1..Len(loads)} \cup load.reads) <= MaxReads
       /\ loads' = Append(loads, load)
       /\ timelines' = Append(timelines, Messages(load))
  /\ UNCHANGED <<vars, gateEvents, resolved, written>>

\* The next message of a load is published no earlier than its stamp, and its row
\* is written not much later.
Deliver(i, m) ==
  /\ \A other \in timelines[i] : ~Before(other, m)
  /\ m.body.at <= now /\ Waiting
  /\ timelines' = [timelines EXCEPT ![i] = @ \ {m}]
  /\ \/ /\ m.topic = "reads"
        /\ ReadArrives(<<m.body.tag, PortalByAntenna(m.body.antenna)>>,
                       now - m.body.at, IF m.body.weak THEN "weak" ELSE "strong")
        /\ UNCHANGED gateEvents
     \/ /\ m.topic = "gates"
        /\ gateEvents' = [gateEvents EXCEPT ![m.body.gate] = Append(@, m.body)]
        /\ UNCHANGED vars
  /\ UNCHANGED <<loads, resolved, written>>

InTime == \A i \in 1..Len(timelines) : \A m \in timelines[i] : now < m.body.at + MaxDelay

-----------------------------------------------------------------------------
(* The debouncer *)

At(p) == {g \in finished : g.key[2] = p}

Resolved(p) == \A g \in At(p) : \E r \in resolved : r.group = g

\* One query for all of a portal's groups, before the transaction and outside of
\* what is retried.
ResolveDirections(p) ==
  /\ pc \in {"commit", "final"} /\ p \in Gated /\ ~Resolved(p)
  /\ LET from == Min({g.first : g \in At(p)})
         to == Max({g.last : g \in At(p)})
         events == gateEvents[GateIdForPortal(p)]
     IN  resolved' = resolved \cup
           {[group |-> g, direction |-> ResolveDirection(events, g.first, g.last, from, to)] :
              g \in At(p)}
  /\ UNCHANGED <<vars, simVars, gateEvents, written>>

WithDirection ==
  resolved \cup {[group |-> g, direction |-> None] : g \in {g \in finished : g.key[2] \notin Gated}}

WriteObservations ==
  /\ \A p \in Gated : Resolved(p)
  /\ \/ Commit /\ resolved' = {}
     \/ CommitFails /\ Eventful /\ UNCHANGED resolved
  /\ written' = IF observations' = observations THEN written
                ELSE written \cup {[group |-> w.group, direction |-> w.direction,
                                    flushed |-> pc = "final"] : w \in WithDirection}
  /\ UNCHANGED <<simVars, gateEvents>>

Stops ==
  /\ RequestStop /\ Eventful
  /\ UNCHANGED <<simVars, gateEvents, resolved, written>>

Crashes ==
  /\ Crash /\ Eventful /\ resolved' = {}
  /\ UNCHANGED <<simVars, gateEvents, written>>

Debounce ==
  /\ \/ LoadCursor \/ FetchReads \/ FetchReturns \/ Absorb \/ CloseQuietGroups \/ Flush
     \/ Restart
     \/ FetchFails /\ Eventful
  /\ UNCHANGED <<simVars, gateEvents, resolved, written>>

Clock ==
  /\ Tick /\ InTime
  /\ UNCHANGED <<simVars, gateEvents, resolved, written>>

PipelineNext ==
  \/ \E c \in Commands, tag, other \in Tags : tag # other /\ Run(c[1], tag, other, c[2])
  \/ \E i \in 1..Len(timelines) : \E m \in timelines[i] : Deliver(i, m)
  \/ Clock
  \/ Debounce \/ WriteObservations \/ Stops \/ Crashes
  \/ \E p \in Portals : ResolveDirections(p)

PipelineSpec == PipelineInit /\ [][PipelineNext]_pipelineVars

-----------------------------------------------------------------------------
(* Properties *)

PipelineTypeOK ==
  /\ TypeOK
  /\ Len(loads) + faults <= MaxEvents /\ Len(timelines) = Len(loads)
  /\ \A r \in resolved : r.group \in finished /\ r.direction \in {"IN", "OUT", "UNKNOWN"}
  /\ {w.group : w \in written} = BagToSet(observations)

DirectionOf(load) == IF load.command = "reverse" THEN "IN" ELSE "OUT"

InTheBeams(w) ==
  {loads[i] : i \in {i \in 1..Len(loads) : Crosses(loads[i]) /\ loads[i].portal = w.group.key[2]
       /\ Starts(loads[i]) <= w.group.last /\ w.group.first <= Ends(loads[i])}}

\* An observation at a gated portal has the direction of a load that was in the
\* beams while its tag was heard, and UNKNOWN only when none was: every beam event
\* of such a load is written, and read, by the time the group is closed, however
\* long a commit is retried and whatever a crash takes.  (A stop closes groups
\* whose load is still in the beams.)
DirectionOfALoad ==
  \A w \in written : w.group.key[2] \in Gated /\ ~w.flushed =>
    IF InTheBeams(w) = {} THEN w.direction = "UNKNOWN"
    ELSE w.direction \in {DirectionOf(l) : l \in InTheBeams(w)}

=============================================================================
