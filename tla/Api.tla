-------------------------------- MODULE Api --------------------------------
(***************************************************************************)
(* The operations of the web API that change what the state engine works   *)
(* on (services/api/routers/): registering and stacking containers, manual *)
(* corrections, dispatch sessions, and the disposition of anomalies.       *)
(*                                                                         *)
(* Requests run in a pool of threads, each in its own transaction.  A      *)
(* request that checks one statement's result and writes with a later one  *)
(* is two steps, with whatever the other requests and the engine do in     *)
(* between; the requests between their steps are in the variables below.   *)
(* A request that loses its connection before its write leaves no trace.   *)
(***************************************************************************)
EXTENDS Database

CONSTANTS
    Loads,           \* the pallet builds operators may ask for
    MaxSessions,     \* bound: dispatch sessions
    MaxCorrections,  \* bound: manual corrections
    MaxResolutions   \* bound: anomaly dispositions asked for at one time

ASSUME ApiAssumption ==
  /\ Loads \subseteq [pallet : Tids, boxes : SUBSET Tids]
  /\ MaxSessions \in Nat /\ MaxCorrections \in Nat /\ MaxResolutions \in Nat

VARIABLES
    attaching,     \* attach_children past its checks, before its UPDATE
    resolving      \* resolve past its check, before its writes

apiVars == <<attaching, resolving>>

\* A disposition asked for by an operator, with a correction or without.
Resolution == [anomaly : DOMAIN anomalies, to : Status \cup {None},
               operator : Operators]

ApiTypeOK ==
  /\ attaching \subseteq Loads
  /\ resolving \subseteq Resolution

ApiInit == attaching = {} /\ resolving = {}

-----------------------------------------------------------------------------
(* routers/containers.py *)

\* The INSERT takes a share lock on the parent's row, for the foreign key.
Register(t, p) ==
  /\ t \notin registered
  /\ p \in registered \cup {NoTid}
  /\ p # NoTid => locked # p
  /\ registered' = registered \cup {t}
  /\ parent' = [parent EXCEPT ![t] = p]
  /\ UNCHANGED <<status, observations, sessions, movements, anomalies, locked,
                 apiVars>>

AttachCheck(load) ==
  /\ load.pallet \in registered /\ load.boxes \subseteq registered
  /\ load.pallet \notin load.boxes
  /\ \A c \in load.boxes : parent[c] \in {NoTid, load.pallet}
  /\ attaching' = attaching \cup {load}
  /\ UNCHANGED <<dbVars, resolving>>

\* Mutant: parent_id without its foreign key, so no lock on the parent's row.
AttachWriteNoKey(load) ==
  /\ load \in attaching
  /\ locked \notin load.boxes
  /\ parent' = [t \in Tids |-> IF t \in load.boxes THEN load.pallet
                                                   ELSE parent[t]]
  /\ attaching' = attaching \ {load}
  /\ UNCHANGED <<registered, status, observations, sessions, movements,
                 anomalies, locked, resolving>>

\* One UPDATE of all the boxes.  It waits for a box the engine has locked,
\* and, where it changes a parent, for the parent's row as well.
AttachWrite(load) ==
  /\ load \in attaching
  /\ locked \notin load.boxes
  /\ locked = load.pallet => \A c \in load.boxes : parent[c] = load.pallet
  /\ parent' = [t \in Tids |-> IF t \in load.boxes THEN load.pallet
                                                   ELSE parent[t]]
  /\ attaching' = attaching \ {load}
  /\ UNCHANGED <<registered, status, observations, sessions, movements,
                 anomalies, locked, resolving>>

-----------------------------------------------------------------------------
(* state_engine/corrections.py, called from two routers *)

IsManual(m) == m.source = "MANUAL"

ManualRows(t) == {i \in DOMAIN movements[t] : IsManual(movements[t][i])}

Corrections == UNION {{t} \X ManualRows(t) : t \in Tids}

\* Mutant: the correction does not wait for the engine's lock.
ApplyManualCorrectionUnlocked(t, to) ==
  /\ t \in registered
  /\ TargetAccepted(status[t], to)
  /\ status' = [status EXCEPT ![t] = to]
  /\ movements' = [movements EXCEPT ![t] =
                     Append(@, [from |-> status[t], to |-> to,
                                source |-> "MANUAL", session |-> 0,
                                obs |-> 0])]

\* The row is read FOR UPDATE, so it waits for the engine to let go of it.
\* Children are left alone.
ApplyManualCorrection(t, to) ==
  /\ t \in registered /\ locked # t
  /\ TargetAccepted(status[t], to)
  /\ status' = [status EXCEPT ![t] = to]
  /\ movements' = [movements EXCEPT ![t] =
                     Append(@, [from |-> status[t], to |-> to,
                                source |-> "MANUAL", session |-> 0,
                                obs |-> 0])]

CorrectContainer(t, to) ==
  /\ Cardinality(Corrections) < MaxCorrections
  /\ ApplyManualCorrection(t, to)
  /\ UNCHANGED <<registered, parent, observations, sessions, anomalies, locked,
                 apiVars>>

-----------------------------------------------------------------------------
(* routers/dispatch_sessions.py *)

\* The check and the INSERT of open_session; no index backs the check.
OpenSession ==
  /\ Len(sessions) < MaxSessions
  /\ OpenSessions = {}
  /\ sessions' = Append(sessions, "pending")
  /\ UNCHANGED <<registered, status, parent, observations, movements,
                 anomalies, locked, apiVars>>

CommitOpenSession(s) ==
  /\ sessions[s] = "pending"
  /\ sessions' = [sessions EXCEPT ![s] = "open"]
  /\ UNCHANGED <<registered, status, parent, observations, movements,
                 anomalies, locked, apiVars>>

\* A second close that read the row before the first one committed only
\* moves closed_at.
CloseSession(s) ==
  /\ sessions[s] = "open"
  /\ sessions' = [sessions EXCEPT ![s] = "closed"]
  /\ UNCHANGED <<registered, status, parent, observations, movements,
                 anomalies, locked, apiVars>>

-----------------------------------------------------------------------------
(* routers/anomalies.py *)

\* Reads the row without locking it.  A correction can be asked for only of
\* an anomaly that names a container.
ResolveCheck(a, to, operator) ==
  /\ Cardinality(resolving) < MaxResolutions
  /\ anomalies[a].resolvedBy = None
  /\ anomalies[a].kind = "UNKNOWN_TID" => to = None
  /\ resolving' = resolving \cup {[anomaly |-> a, to |-> to, operator |-> operator]}
  /\ UNCHANGED <<dbVars, attaching>>

MarkResolved(r) ==
  /\ anomalies' = [anomalies EXCEPT ![r.anomaly].resolvedBy = r.operator]
  /\ resolving' = resolving \ {r}
  /\ UNCHANGED <<registered, parent, observations, sessions, locked,
                 attaching>>

Resolve(r) ==
  /\ r.to = None
  /\ MarkResolved(r)
  /\ UNCHANGED <<status, movements>>

\* The correction and the mark are one transaction.
ResolveCorrecting(r) ==
  /\ r.to # None
  /\ Cardinality(Corrections) < MaxCorrections
  /\ ApplyManualCorrection(anomalies[r.anomaly].tid, r.to)
  /\ MarkResolved(r)

\* Mutant: the anomaly is resolved although the correction was refused.
ResolveRefusedMarks(r) ==
  /\ r.to # None
  /\ locked # anomalies[r.anomaly].tid
  /\ ~TargetAccepted(status[anomalies[r.anomaly].tid], r.to)
  /\ MarkResolved(r)
  /\ UNCHANGED <<status, movements>>

\* CorrectionRefused: rolled back, and the anomaly stays open.
ResolveRefused(r) ==
  /\ r.to # None
  /\ locked # anomalies[r.anomaly].tid
  /\ ~TargetAccepted(status[anomalies[r.anomaly].tid], r.to)
  /\ resolving' = resolving \ {r}
  /\ UNCHANGED <<dbVars, attaching>>

-----------------------------------------------------------------------------

ApiNext ==
  \/ \E t \in Tids, p \in Tids \cup {NoTid} : Register(t, p)
  \/ \E load \in Loads : AttachCheck(load)
  \/ \E load \in attaching : AttachWrite(load)
  \/ \E t \in Tids, to \in Status : CorrectContainer(t, to)
  \/ OpenSession
  \/ \E s \in DOMAIN sessions : CommitOpenSession(s) \/ CloseSession(s)
  \/ \E a \in DOMAIN anomalies, to \in Status \cup {None}, by \in Operators :
        ResolveCheck(a, to, by)
  \/ \E r \in resolving : Resolve(r) \/ ResolveCorrecting(r) \/ ResolveRefused(r)

=============================================================================
