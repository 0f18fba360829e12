------------------------------ MODULE Delivery ------------------------------
(***************************************************************************)
(* What lies between a reader and the tables reads_raw and gate_events, as *)
(* the debouncer may rely on it (services/ingest/service.py): messages     *)
(* become rows in the order they were sent in, and none is passed over.    *)
(* Ingest is shown to implement it.                                        *)
(***************************************************************************)
EXTENDS Naturals, Sequences

CONSTANT Kinds

VARIABLES
    sent,          \* the kinds of the messages sent, in order
    stored         \* the messages whose rows are in the tables, by their place

\* The messages that become rows.
Rows == {i \in DOMAIN sent : sent[i] # "invalid"}

Init == sent = <<>> /\ stored = {}

Send ==
  /\ \E kind \in Kinds : sent' = Append(sent, kind)
  /\ UNCHANGED stored

Store ==
  /\ stored' \in SUBSET Rows
  /\ stored \subseteq stored'
  /\ \A i \in stored', j \in Rows : j < i => j \in stored'
  /\ UNCHANGED sent

Spec == Init /\ [][Send \/ Store]_<<sent, stored>>

=============================================================================
