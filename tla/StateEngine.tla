---------------------------- MODULE StateEngine ----------------------------
(***************************************************************************)
(* The state engine (services/state_engine/service.py): one process that   *)
(* polls the unprocessed observations in id order and applies each in a    *)
(* transaction of its own.  A pallet with boxes on it waits until its load *)
(* has had time to arrive.                                                 *)
(*                                                                         *)
(* The transaction of handle() is the steps Lock, ReadSession, ReadTree    *)
(* and one of the Finish actions.  What it writes becomes visible at its   *)
(* commit, in the Finish action; a row it has updated earlier is locked    *)
(* until then, so others cannot tell the difference.  The steps before are *)
(* its reads: the root row is locked by its read, the others are not.      *)
(***************************************************************************)
EXTENDS Database

CONSTANTS
    FetchBatch,    \* FETCH_BATCH, the LIMIT of one poll
    MaxLostAcks,   \* bound: commits whose acknowledgement is lost
    MaxCrashes     \* bound: crashes or restarts of the engine

ASSUME EngineAssumption ==
  FetchBatch \in Nat \ {0} /\ MaxLostAcks \in Nat /\ MaxCrashes \in Nat

VARIABLES
    pc,         \* where the engine is: between observations or inside handle()
    queue,      \* the fetched observations the pass has not come to
    current,    \* the observation handle() is applying, 0 for none
    decision,   \* the local variable of handle()
    session,    \* the session_id handle() has read, 0 for None
    tree,       \* the status handle() has read of each row, None if not read
    held,       \* first_seen: the observations whose settle clock runs
    settled,    \* those of them whose clock has passed PALLET_SETTLE_S
    lostAcks, crashes

engineVars == <<pc, queue, current, decision, session, tree, held, settled,
                lostAcks, crashes>>

\* The container handle() is about: the root of the tree that moves.
Root == observations[current].tid

NoTree == [t \in Tids |-> None]

EngineTypeOK ==
  /\ pc \in {"idle", "handle", "session", "tree", "finish"}
  /\ queue \subseteq DOMAIN observations
  /\ current \in {0} \cup DOMAIN observations
  /\ current = 0 <=> pc = "idle"
  /\ decision \in Decision
  /\ session \in Nat
  /\ tree \in [Tids -> Status \cup {None}]
  /\ decision.detach => decision.to # None
  /\ decision.to # None =>          \* handle() has found the container's row
       current # 0 /\ Root \in registered /\ tree[Root] # None
  /\ held \subseteq DOMAIN observations
  /\ settled \subseteq held
  /\ lostAcks \in 0..MaxLostAcks
  /\ crashes \in 0..MaxCrashes

EngineInit ==
  /\ pc = "idle" /\ queue = {} /\ current = 0
  /\ decision = NoOp /\ session = 0 /\ tree = NoTree
  /\ held = {} /\ settled = {}
  /\ lostAcks = 0 /\ crashes = 0

Unprocessed == {o \in DOMAIN observations : ~observations[o].processed}

IsFirst(o, S) == o \in S /\ \A q \in S : o <= q

-----------------------------------------------------------------------------
(* The polling loop *)

\* Mutant: first_seen is rebuilt on every pass, so the clocks start again.
FetchForgetsClocks ==
  /\ pc = "idle" /\ queue = {}
  /\ queue' = {o \in Unprocessed :
                 Cardinality({q \in Unprocessed : q < o}) < FetchBatch}
  /\ held' = {} /\ settled' = {}
  /\ UNCHANGED <<dbVars, pc, current, decision, session, tree, lostAcks, crashes>>

FetchObservations ==
  /\ pc = "idle" /\ queue = {}
  /\ queue' = {o \in Unprocessed :
                 Cardinality({q \in Unprocessed : q < o}) < FetchBatch}
  /\ UNCHANGED <<dbVars, pc, current, decision, session, tree, held, settled,
                 lostAcks, crashes>>

\* A registered container with something on it waits until it has settled.
ShouldWait(o) ==
  /\ observations[o].tid \in registered
  /\ Children(observations[o].tid) # {}
  /\ o \notin settled

\* The observation is left for a later pass; its clock starts if it has not.
Hold(o) ==
  /\ pc = "idle" /\ IsFirst(o, queue) /\ ShouldWait(o)
  /\ queue' = queue \ {o}
  /\ held' = held \cup {o}
  /\ UNCHANGED <<dbVars, pc, current, decision, session, tree, settled,
                 lostAcks, crashes>>

Take(o) ==
  /\ pc = "idle" /\ IsFirst(o, queue) /\ ~ShouldWait(o)
  /\ queue' = queue \ {o}
  /\ pc' = "handle" /\ current' = o
  /\ UNCHANGED <<dbVars, decision, session, tree, held, settled, lostAcks,
                 crashes>>

\* PALLET_SETTLE_S passes on the clock of o.  Clocks are started in id order,
\* so they run out in id order.
Settle(o) ==
  /\ IsFirst(o, held \ settled)
  /\ settled' = settled \cup {o}
  /\ UNCHANGED <<dbVars, pc, queue, current, decision, session, tree, held,
                 lostAcks, crashes>>

-----------------------------------------------------------------------------
(* The reads of handle() *)

DecideCurrent ==
  LET obs == observations[current]
  IN  IF obs.tid \in registered
      THEN Decide(obs.portal, obs.direction, status[obs.tid],
                  obs.tid \in Reusable)
      ELSE Flag("UNKNOWN_TID")

PhaseAfter(d) ==
  IF d.to = "DISPATCHED" THEN "session"
  ELSE IF d.to # None /\ ~d.detach THEN "tree"
  ELSE "finish"

\* Mutant: SELECT without FOR UPDATE.
LockNothing ==
  /\ pc = "handle"
  /\ tree' = [t \in Tids |->
                IF t = Root /\ t \in registered THEN status[t] ELSE None]
  /\ decision' = DecideCurrent
  /\ pc' = PhaseAfter(DecideCurrent)
  /\ UNCHANGED <<dbVars, queue, current, session, held, settled, lostAcks,
                 crashes>>

\* SELECT ... FOR UPDATE of the container, and the decision from its row.
Lock ==
  /\ pc = "handle"
  /\ locked' = IF Root \in registered THEN Root ELSE NoTid
  /\ tree' = [t \in Tids |->
                IF t = Root /\ t \in registered THEN status[t] ELSE None]
  /\ decision' = DecideCurrent
  /\ pc' = PhaseAfter(DecideCurrent)
  /\ UNCHANGED <<registered, status, parent, observations, sessions,
                 movements, anomalies, queue, current, session, held, settled,
                 lostAcks, crashes>>

ReadSession ==
  /\ pc = "session"
  /\ \/ /\ OpenSessions = {}
        /\ decision' = Flag("NO_SESSION") /\ pc' = "finish"
        /\ UNCHANGED session
     \/ /\ \E s \in OpenSessions : IsLatestOpen(s) /\ session' = s
        /\ pc' = "tree"
        /\ UNCHANGED decision
  /\ UNCHANGED <<dbVars, queue, current, tree, held, settled, lostAcks,
                 crashes>>

\* Reads the rows of the tree without locking them.
ReadTree ==
  /\ pc = "tree" /\ TreeQueryEnds(Root)
  /\ tree' = [t \in Tids |-> IF t \in Tree(Root) THEN status[t] ELSE None]
  /\ pc' = "finish"
  /\ UNCHANGED <<dbVars, queue, current, decision, session, held, settled,
                 lostAcks, crashes>>

-----------------------------------------------------------------------------
(* The writes of handle(), and its commit *)

\* Mutant: handle() returns and leaves `current` set.
CommitKeepsCurrent ==
  /\ pc = "finish"
  /\ observations' = [observations EXCEPT ![current].processed = TRUE]
  /\ locked' = NoTid
  /\ decision' = NoOp /\ session' = 0 /\ tree' = NoTree
  /\ pc' = "idle"
  /\ held' = held \ {current} /\ settled' = settled \ {current}
  /\ UNCHANGED <<registered, sessions, queue, current, lostAcks, crashes>>

\* Mutant: the observation is marked in a transaction of its own, and the
\* process may end before it.
CommitBeforeMark ==
  /\ pc = "finish"
  /\ \/ observations' = [observations EXCEPT ![current].processed = TRUE]
     \/ UNCHANGED observations
  /\ locked' = NoTid
  /\ decision' = NoOp /\ session' = 0 /\ tree' = NoTree
  /\ pc' = "idle" /\ current' = 0
  /\ held' = held \ {current} /\ settled' = settled \ {current}
  /\ UNCHANGED <<registered, sessions, queue, lostAcks, crashes>>

\* The observation is marked in the same transaction.  The commit returns, or
\* it takes effect and only its acknowledgement is lost: with_retry() then
\* runs the whole of handle() again on the same observation.
Commit ==
  /\ pc = "finish"
  /\ observations' = [observations EXCEPT ![current].processed = TRUE]
  /\ locked' = NoTid
  /\ decision' = NoOp /\ session' = 0 /\ tree' = NoTree
  /\ \/ /\ pc' = "idle" /\ current' = 0
        /\ held' = held \ {current} /\ settled' = settled \ {current}
        /\ UNCHANGED lostAcks
     \/ /\ lostAcks < MaxLostAcks
        /\ pc' = "handle" /\ lostAcks' = lostAcks + 1
        /\ UNCHANGED <<current, held, settled>>
  /\ UNCHANGED <<registered, sessions, queue, crashes>>

Raise(kind) ==
  Append(anomalies, [tid |-> Root, kind |-> kind, obs |-> current,
                     resolvedBy |-> None])

\* from_status is what handle() has read, not what the row now holds.
LogPortal(t, to) ==
  Append(movements[t], [from |-> tree[t], to |-> to, source |-> "PORTAL",
                        session |-> session, obs |-> current])

FinishAnomaly ==
  /\ decision.anomaly # None
  /\ anomalies' = Raise(decision.anomaly)
  /\ Commit
  /\ UNCHANGED <<status, parent, movements>>

FinishNoOp ==
  /\ decision = NoOp
  /\ Commit
  /\ UNCHANGED <<status, parent, movements, anomalies>>

\* return_reusable_container: the container moves, what was on it is detached
\* and left as it was.
FinishReturn ==
  /\ decision.detach
  /\ status' = [status EXCEPT ![Root] = decision.to]
  /\ movements' = [movements EXCEPT ![Root] = LogPortal(Root, decision.to)]
  /\ parent' = [t \in Tids |-> IF parent[t] = Root THEN NoTid ELSE parent[t]]
  /\ Commit
  /\ UNCHANGED anomalies

\* Mutant: the boxes at the target status are not skipped.
ToMoveAll == {t \in Tids : tree[t] # None}

\* move_container_tree skips the rows it read at the target status.
ToMove == {t \in Tids : tree[t] \notin {None, decision.to}}

\* check_short_pallet counts the distinct children among the observations at
\* this portal whose last_read is within 15 s of the pallet's.  Read times
\* are not modelled: any of the children observed there may be in the window.
ChildrenObserved ==
  {c \in Children(Root) :
     \E o \in DOMAIN observations :
        /\ observations[o].tid = c
        /\ observations[o].portal = observations[current].portal}

\* Mutant: the tree moves, and only the pallet gets a movements row.
FinishMoveLogsRoot ==
  /\ decision.to # None /\ ~decision.detach
  /\ status' = [t \in Tids |-> IF t \in ToMove THEN decision.to ELSE status[t]]
  /\ movements' = [movements EXCEPT ![Root] = LogPortal(Root, decision.to)]
  /\ UNCHANGED <<parent, anomalies>>
  /\ Commit

FinishMove ==
  /\ decision.to # None /\ ~decision.detach
  /\ status' = [t \in Tids |-> IF t \in ToMove THEN decision.to ELSE status[t]]
  /\ movements' = [t \in Tids |-> IF t \in ToMove
                                  THEN LogPortal(t, decision.to)
                                  ELSE movements[t]]
  /\ \E seen \in SUBSET ChildrenObserved :
        anomalies' = IF seen = Children(Root) THEN anomalies
                                              ELSE Raise("SHORT_PALLET")
  /\ Commit
  /\ UNCHANGED parent

-----------------------------------------------------------------------------
(* Failures *)

Rollback ==
  /\ locked' = NoTid
  /\ decision' = NoOp /\ session' = 0 /\ tree' = NoTree
  /\ UNCHANGED <<registered, status, parent, observations, sessions,
                 movements, anomalies>>

\* Mutant: after a failed statement the loop goes on with the next observation.
DbErrorGivesUp ==
  /\ pc \in {"session", "tree", "finish"}
  /\ pc' = "idle" /\ current' = 0
  /\ Rollback
  /\ UNCHANGED <<queue, held, settled, lostAcks, crashes>>

\* A statement fails: with_retry() rolls back and runs handle() again.
DbError ==
  /\ pc \in {"session", "tree", "finish"}
  /\ pc' = "handle"
  /\ Rollback
  /\ UNCHANGED <<queue, current, held, settled, lostAcks, crashes>>

\* The process stops, or is killed, anywhere; first_seen is lost with it.
Restart ==
  /\ crashes < MaxCrashes
  /\ crashes' = crashes + 1
  /\ pc' = "idle" /\ current' = 0
  /\ queue' = {} /\ held' = {} /\ settled' = {}
  /\ Rollback
  /\ UNCHANGED lostAcks

-----------------------------------------------------------------------------

Finish == FinishAnomaly \/ FinishNoOp \/ FinishReturn \/ FinishMove

EngineNext ==
  \/ FetchObservations
  \/ \E o \in queue : Hold(o) \/ Take(o)
  \/ \E o \in held : Settle(o)
  \/ Lock \/ ReadSession \/ ReadTree \/ Finish
  \/ DbError \/ Restart

\* The loop never gives up on an observation, with_retry() never gives up on
\* the database, and a settle clock runs whatever else happens.  Strong,
\* because a failing statement sends handle() back to its start: it promises
\* only that the database is up, again and again, for one more statement.
EngineFairness ==
  /\ WF_engineVars(FetchObservations)
  /\ WF_engineVars(\E o \in queue : Hold(o) \/ Take(o))
  /\ WF_engineVars(\E o \in held : Settle(o))
  /\ WF_engineVars(Lock)
  /\ SF_engineVars(ReadSession)
  /\ SF_engineVars(ReadTree)
  /\ SF_engineVars(Finish)

=============================================================================
