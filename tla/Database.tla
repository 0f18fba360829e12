------------------------------ MODULE Database ------------------------------
(***************************************************************************)
(* The warehouse database as the state engine and the API share it: the    *)
(* tables containers, observations, dispatch_sessions, movements and       *)
(* anomalies, and the one row lock the engine holds across statements.     *)
(*                                                                         *)
(* PostgreSQL runs these services at READ COMMITTED.  A transaction that   *)
(* other transactions can see between two of its statements is several     *)
(* steps in the modules that extend this one; a transaction whose reads    *)
(* are all protected by the locks it holds is one step.                    *)
(***************************************************************************)
EXTENDS Naturals, Sequences, FiniteSets, Transitions

CONSTANTS
    Tids,          \* the chips that can be read at a portal
    Reusable,      \* those glued to a pallet or a tote (containers.reusable)
    NoTid,         \* a NULL tid, parent_id or lock
    Operators      \* the people who dispose of anomalies

ASSUME TidsAssumption ==
  Reusable \subseteq Tids /\ NoTid \notin Tids /\ None \notin Operators

VARIABLES
    registered,    \* the tids that have a row in containers
    status,        \* containers.status, by tid
    parent,        \* containers.parent_id, by tid, as the parent's tid
    observations,  \* the observations table, in id order
    sessions,      \* dispatch_sessions, in opened_at order
    movements,     \* the movements table: the rows of each tid, in id order
    anomalies,     \* the anomalies table, in id order
    locked         \* the containers row the engine holds FOR UPDATE, or NoTid

dbVars == <<registered, status, parent, observations, sessions, movements,
            anomalies, locked>>

\* "pending": inserted by a transaction that has not committed, so nobody
\* else sees the row.  opened_at is now(), the start of that transaction.
SessionState == {"pending", "open", "closed"}

\* `dock` is history, not a column: dispatch_sessions as it was when the tag
\* was read.  It is what the properties about attribution compare with.
Observation == [tid : Tids, portal : Portal, direction : Direction,
                processed : BOOLEAN, dock : Seq(SessionState)]

\* session 0 is NULL.  `obs` is history: the observation the engine was
\* handling when it inserted the row, 0 for a row a person caused.
Movement == [from : Status, to : Status, source : {"PORTAL", "MANUAL"},
             session : Nat, obs : Nat]

\* resolvedBy is None as long as the anomaly is not resolved.
Anomaly == [tid : Tids, kind : AnomalyKind, obs : Nat,
            resolvedBy : Operators \cup {None}]

DbTypeOK ==
  /\ registered \subseteq Tids
  /\ status \in [Tids -> Status]
  /\ parent \in [Tids -> Tids \cup {NoTid}]
  /\ observations \in Seq(Observation)
  /\ sessions \in Seq(SessionState)
  /\ movements \in [Tids -> Seq(Movement)]
  /\ anomalies \in Seq(Anomaly)
  /\ locked \in Tids \cup {NoTid}

\* A fresh schema in which the containers of `known` have been registered.
DbInit(known) ==
  /\ registered = known
  /\ status = [t \in Tids |-> "REGISTERED"]    \* the column's default
  /\ parent = [t \in Tids |-> NoTid]
  /\ observations = <<>>
  /\ sessions = <<>>
  /\ movements = [t \in Tids |-> <<>>]
  /\ anomalies = <<>>
  /\ locked = NoTid

Children(p) == {c \in registered : parent[c] = p}

\* The rows of the recursive tree query: the least set that holds the root
\* and the children of its members.
Tree(root) ==
  {t \in registered :
     \A S \in SUBSET registered :
        root \in S /\ (\A c \in registered : parent[c] \in S => c \in S)
           => t \in S}

\* The query is UNION ALL: below a container that is among its own
\* descendants it never stops producing rows.
TreeQueryEnds(root) == \A c \in Children(root) : root \notin Tree(c)

\* Mutant: the query forgets WHERE closed_at IS NULL.
OpenSessionsEverOpened == {s \in DOMAIN sessions : sessions[s] # "pending"}

OpenSessions == {s \in DOMAIN sessions : sessions[s] = "open"}

\* ORDER BY opened_at DESC LIMIT 1 over the sessions not closed.
IsLatestOpen(s) == s \in OpenSessions /\ \A r \in OpenSessions : r <= s

LastMovement(t) == movements[t][Len(movements[t])]

=============================================================================
