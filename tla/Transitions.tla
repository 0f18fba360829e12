---------------------------- MODULE Transitions ----------------------------
(***************************************************************************)
(* The pure transition table of the state engine                           *)
(* (services/state_engine/transitions.py) and the one rule a manual        *)
(* correction obeys (services/state_engine/corrections.py).  No state and  *)
(* no clock: a decision is a function of where a container was seen, which *)
(* way it was going, what state it is in and whether it is reusable.       *)
(***************************************************************************)

Status    == {"REGISTERED", "IN_STOCK", "DISPATCHED"}
Portal    == {"ENTRANCE", "EXIT"}
None      == "NONE"                      \* a NULL column, a Python None
Direction == {"IN", "OUT", "UNKNOWN", None}

AnomalyKind == {"UNKNOWN_TID", "ILLEGAL_TRANSITION", "NO_DIRECTION",
                "NO_SESSION", "SHORT_PALLET"}

\* What to do about one observation of one container.
Decision == [to      : Status \cup {None},
             anomaly : AnomalyKind \cup {None},
             detach  : BOOLEAN]

MoveTo(s)   == [to |-> s, anomaly |-> None, detach |-> FALSE]
Flag(kind)  == [to |-> None, anomaly |-> kind, detach |-> FALSE]
ReturnEmpty == [to |-> "REGISTERED", anomaly |-> None, detach |-> TRUE]
NoOp        == [to |-> None, anomaly |-> None, detach |-> FALSE]

Inbound(s, isReusable) ==
  IF s = "REGISTERED" THEN MoveTo("IN_STOCK")
  ELSE IF s = "IN_STOCK" THEN NoOp
  ELSE IF s = "DISPATCHED" /\ isReusable THEN ReturnEmpty
  ELSE Flag("ILLEGAL_TRANSITION")

Outbound(s) ==
  IF s = "IN_STOCK" THEN MoveTo("DISPATCHED") ELSE Flag("ILLEGAL_TRANSITION")

\* The entrance carries no direction; at the exit nothing moves without one.
Decide(portal, direction, s, isReusable) ==
  IF portal # "EXIT" \/ direction = "IN" THEN Inbound(s, isReusable)
  ELSE IF direction = "OUT" THEN Outbound(s)
  ELSE Flag("NO_DIRECTION")

\* check_target_status: any of the three states is reachable by hand, except
\* the one the container is already in.
TargetAccepted(current, to) == to \in Status /\ to # current

=============================================================================
