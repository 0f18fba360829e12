------------------------------- MODULE Config -------------------------------
(***************************************************************************)
(* config.py: what config/tasker.yaml says of the portals, with the        *)
(* defaults that an absent, null or empty entry falls back to.  The        *)
(* simulator and the debouncer both read it.                               *)
(***************************************************************************)
EXTENDS Naturals

CONSTANTS
    Config,     \* portal -> [antennas, gate, timeout]
    Absent,     \* the gate of an entry that names none
    DefaultTimeout  \* DEFAULT_IR_GATE_TIMEOUT_MS, in ticks

Portals == {"ENTRANCE", "EXIT"}

Default ==
  [ENTRANCE |-> [antennas |-> {1, 2}, gate |-> Absent,      timeout |-> DefaultTimeout],
   EXIT     |-> [antennas |-> {3, 4}, gate |-> "GATE-EXIT", timeout |-> DefaultTimeout]]

\* Every entry has a place; {}, Absent and 0 stand for one that is not there.
ASSUME ConfigAssumption ==
  DefaultTimeout \in Nat /\
  \A p \in Portals : Config[p].antennas \subseteq Nat /\ Config[p].timeout \in Nat

AntennasForPortal(p) ==
  IF Config[p].antennas # {} THEN Config[p].antennas ELSE Default[p].antennas

\* The portals are gone through in order, and the later one overwrites.
PortalByAntenna(a) ==
  CASE a \in AntennasForPortal("EXIT") -> "EXIT"
    [] a \in AntennasForPortal("ENTRANCE") \ AntennasForPortal("EXIT") -> "ENTRANCE"
    [] OTHER -> Absent

GateIdForPortal(p) ==
  IF Config[p].gate # Absent THEN Config[p].gate ELSE Default[p].gate

Gated == {p \in Portals : GateIdForPortal(p) # Absent}

IrGateTimeout(p) ==
  IF Config[p].timeout # 0 THEN Config[p].timeout ELSE Default[p].timeout

=============================================================================
