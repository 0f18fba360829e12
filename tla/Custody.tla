------------------------------- MODULE Custody -------------------------------
(***************************************************************************)
(* What the warehouse promises of its containers, whatever processes and   *)
(* requests keep it: each is REGISTERED, IN_STOCK or DISPATCHED, and goes  *)
(* from one to another because a portal read it, because it is on one that *)
(* a portal read, or because a person said so.  Every change is a row of   *)
(* its ledger.  Module Warehouse implements this specification.            *)
(***************************************************************************)
EXTENDS Transitions, Naturals, Sequences

CONSTANTS
    Tids,
    Reusable

VARIABLES
    status,
    ledger         \* the rows of each container, oldest first

custodyVars == <<status, ledger>>

Init ==
  /\ status = [t \in Tids |-> "REGISTERED"]
  /\ ledger = [t \in Tids |-> <<>>]

NewRow(c) == ledger'[c][Len(ledger[c]) + 1]

\* c is put at `to`, and a row says so.  The row's other columns are left open.
MovesTo(c, to, source) ==
  /\ status'[c] = to
  /\ ledger'[c] = Append(ledger[c], NewRow(c))
  /\ NewRow(c).to = to /\ NewRow(c).source = source

Stays(c) == status'[c] = status[c] /\ ledger'[c] = ledger[c]

\* The way of a container: in, out, and, if it is reusable, back to the pool.
OnItsWay(t, to) ==
  \/ status[t] = "REGISTERED" /\ to = "IN_STOCK"
  \/ status[t] = "IN_STOCK" /\ to = "DISPATCHED"
  \/ status[t] = "DISPATCHED" /\ to = "REGISTERED" /\ t \in Reusable

\* A portal reads t, and t goes on its way from where it is.  What is on it goes
\* to the same place; but a container that comes back empty goes alone.  What
\* goes out is dispatched in a session.
ByRead(t, load, to) ==
  /\ OnItsWay(t, to)
  /\ load # {} => to # "REGISTERED"
  /\ \A c \in Tids :
       IF c \in load \cup {t}
       THEN /\ MovesTo(c, to, "PORTAL")
            /\ NewRow(c).from # to
            /\ NewRow(c).session # 0 <=> to = "DISPATCHED"
       ELSE Stays(c)
  /\ NewRow(t).from = status[t]

\* A person puts t where it is not, and nothing else with it.
ByHand(t, to) ==
  /\ to # status[t]
  /\ MovesTo(t, to, "MANUAL") /\ NewRow(t).from = status[t]
  /\ \A c \in Tids \ {t} : Stays(c)

Next ==
  \E t \in Tids :
    \/ ByHand(t, status'[t])
    \/ \E load \in SUBSET (Tids \ {t}) : ByRead(t, load, status'[t])

Spec == Init /\ [][Next]_custodyVars

=============================================================================
