-------------------------- MODULE WarehouseProofs --------------------------
(***************************************************************************)
(* What holds of Warehouse for every set of tags, loads and operators and  *)
(* every bound.  In order: its type invariant and the properties of the    *)
(* ledger; that it implements Custody; and what the engine makes of one    *)
(* observation, that is in which order observations are taken up, that     *)
(* each has its effects once and all of them together, which session a     *)
(* dispatch is attributed to, what moves with a pallet, and what the       *)
(* reports count.                                                          *)
(***************************************************************************)
EXTENDS Reports, SequenceTheorems, FiniteSetTheorems, TLAPS

-----------------------------------------------------------------------------
(* The transition table *)

\* Every row of the transition table is a decision, one that moves a container
\* moves it to another status, and only a move detaches.
LEMMA DecideMoves ==
  ASSUME NEW s \in Status, NEW r \in BOOLEAN,
         NEW portal \in Portal, NEW direction \in Direction
  PROVE  LET d == Decide(portal, direction, s, r)
         IN  d \in Decision /\ d.to # s /\ (d.detach => d.to # None)
<1> DEFINE Fine(d) == d \in Decision /\ d.to # s /\ (d.detach => d.to # None)
<1>1. Fine(Inbound(s, r))
  BY DEF Inbound, MoveTo, Flag, ReturnEmpty, NoOp, Decision, Status, None,
         AnomalyKind
<1>2. Fine(Outbound(s))
  BY DEF Outbound, MoveTo, Flag, Decision, Status, None, AnomalyKind
<1>3. Fine(Flag("NO_DIRECTION"))
  BY DEF Flag, Decision, Status, None, AnomalyKind
<1> QED
  BY <1>1, <1>2, <1>3 DEF Decide, Portal

\* Doing nothing is a decision that neither moves nor detaches.
LEMMA NoOpIsDecision == NoOp \in Decision /\ NoOp.to = None /\ ~NoOp.detach
  BY DEF NoOp, Decision

-----------------------------------------------------------------------------
(* Type correctness *)

\* The state a fresh schema and a starting engine are in has the right types.
LEMMA InitTypeOK == Init => TypeOK
<1> SUFFICES ASSUME Init PROVE TypeOK
  OBVIOUS
<1> USE DEF Init, DbInit, EngineInit, ApiInit
<1>1. DbTypeOK
  BY WarehouseAssumption DEF DbTypeOK, Status
<1>2. EngineTypeOK
  BY NoOpIsDecision, EngineAssumption DEF EngineTypeOK, NoTree
<1>3. ApiTypeOK
  BY DEF ApiTypeOK
<1> QED
  BY <1>1, <1>2, <1>3 DEF TypeOK

\* Facts about sequences, stated in the form the steps below use them.
LEMMA ElementOf ==
  ASSUME NEW S, NEW seq \in Seq(S), NEW i \in DOMAIN seq
  PROVE  seq[i] \in S /\ i \in Nat /\ i # 0
  OBVIOUS

\* An INSERT keeps the type of a table and its earlier rows.
LEMMA AppendType ==
  ASSUME NEW S, NEW seq \in Seq(S), NEW e \in S
  PROVE  /\ Append(seq, e) \in Seq(S)
         /\ Len(Append(seq, e)) = Len(seq) + 1
         /\ DOMAIN seq \subseteq DOMAIN Append(seq, e)
         /\ \A i \in DOMAIN Append(seq, e) :
              Append(seq, e)[i] = IF i \in DOMAIN seq THEN seq[i] ELSE e
  OBVIOUS

\* An UPDATE of one row keeps the type of a table.
LEMMA ReplaceType ==
  ASSUME NEW S, NEW seq \in Seq(S), NEW i \in DOMAIN seq, NEW e \in S
  PROVE  LET new == [seq EXCEPT ![i] = e]
         IN  new \in Seq(S) /\ DOMAIN new = DOMAIN seq
<1>1. i \in 1..Len(seq)
  OBVIOUS
<1> QED
  BY <1>1, ExceptSeq

\* Inside handle() `current` is a row of observations, and Root its tid.
LEMMA CurrentRow ==
  ASSUME TypeOK, pc # "idle"
  PROVE  /\ current \in DOMAIN observations
         /\ observations[current] \in Observation
         /\ Root \in Tids
         /\ current \in Nat
<1>1. current \in DOMAIN observations
  BY DEF TypeOK, EngineTypeOK
<1>2. observations \in Seq(Observation)
  BY DEF TypeOK, DbTypeOK
<1>3. observations[current] \in Observation /\ current \in Nat
  BY <1>1, <1>2, ElementOf
<1> QED
  BY <1>1, <1>3 DEF Observation, Root

\* An observation marked processed is an observation.
LEMMA MarkedRow ==
  ASSUME NEW o \in Observation
  PROVE  [o EXCEPT !.processed = TRUE] \in Observation
  BY DEF Observation

\* Marking the current observation keeps the type of the table and its rows'
\* tags.
LEMMA MarkProcessedType ==
  ASSUME TypeOK, pc # "idle"
  PROVE  LET obs == [observations EXCEPT ![current].processed = TRUE]
         IN  obs \in Seq(Observation) /\ DOMAIN obs = DOMAIN observations
<1>1. observations \in Seq(Observation)
  BY DEF TypeOK, DbTypeOK
<1>2. PICK row \in Observation :
        row = [observations[current] EXCEPT !.processed = TRUE]
  BY CurrentRow, MarkedRow
<1>3. [observations EXCEPT ![current].processed = TRUE]
        = [observations EXCEPT ![current] = row]
  BY <1>2
<1> QED
  BY <1>1, <1>3, CurrentRow, ReplaceType

\* The commit keeps the types of all it writes; what is left to show of a
\* Finish action is the type of its own rows.
LEMMA CommitTypeOK ==
  ASSUME TypeOK, Commit, UNCHANGED apiVars,
         status' \in [Tids -> Status],
         parent' \in [Tids -> Tids \cup {NoTid}],
         movements' \in [Tids -> Seq(Movement)],
         anomalies' \in Seq(Anomaly),
         DOMAIN anomalies \subseteq DOMAIN anomalies'
  PROVE  TypeOK'
<1> USE DEF TypeOK, Commit
<1>1. DbTypeOK'
  BY MarkProcessedType DEF DbTypeOK
<1>2. EngineTypeOK'
  <2>1. DOMAIN observations' = DOMAIN observations
    BY MarkProcessedType
  <2>2. /\ decision' \in Decision /\ ~decision'.detach /\ decision'.to = None
        /\ session' \in Nat /\ tree' \in [Tids -> Status \cup {None}]
    BY NoOpIsDecision DEF NoTree
  <2>3. lostAcks' \in 0..MaxLostAcks /\ crashes' \in 0..MaxCrashes
    BY EngineAssumption DEF EngineTypeOK
  <2>4. 0 \notin DOMAIN observations
    BY DEF DbTypeOK
  <2> QED
    BY <2>1, <2>2, <2>3, <2>4 DEF EngineTypeOK
<1>3. ApiTypeOK'
  BY DEF ApiTypeOK, Resolution, apiVars
<1> QED
  BY <1>1, <1>2, <1>3

\* record_anomaly keeps the type of anomalies.
LEMMA RaiseType ==
  ASSUME TypeOK, pc # "idle", NEW kind \in AnomalyKind
  PROVE  Raise(kind) \in Seq(Anomaly) /\ DOMAIN anomalies \subseteq DOMAIN Raise(kind)
<1>1. anomalies \in Seq(Anomaly)
  BY DEF TypeOK, DbTypeOK
<1>2. [tid |-> Root, kind |-> kind, obs |-> current, resolvedBy |-> None] \in Anomaly
  BY CurrentRow DEF Anomaly
<1> QED
  BY <1>1, <1>2 DEF Raise

\* A movements row for a status handle() has read has the right type.
LEMMA LogPortalType ==
  ASSUME TypeOK, pc # "idle", NEW t \in Tids, tree[t] # None, NEW to \in Status
  PROVE  LogPortal(t, to) \in Seq(Movement)
<1>1. movements[t] \in Seq(Movement) /\ tree[t] \in Status /\ session \in Nat
  BY DEF TypeOK, DbTypeOK, EngineTypeOK
<1>2. [from |-> tree[t], to |-> to, source |-> "PORTAL", session |-> session,
       obs |-> current] \in Movement
  BY <1>1, CurrentRow DEF Movement
<1> QED
  BY <1>1, <1>2 DEF LogPortal

\* A manual correction writes rows of the right types.
CorrectionType ==
  /\ status' \in [Tids -> Status]
  /\ movements' \in [Tids -> Seq(Movement)]

\* apply_manual_correction keeps the types of status and movements.
LEMMA CorrectionTypeOK ==
  ASSUME TypeOK, NEW t \in Tids, NEW to \in Status, ApplyManualCorrection(t, to)
  PROVE  CorrectionType
<1> DEFINE row == [from |-> status[t], to |-> to, source |-> "MANUAL",
                   session |-> 0, obs |-> 0]
<1>1. status \in [Tids -> Status] /\ movements \in [Tids -> Seq(Movement)]
  BY DEF TypeOK, DbTypeOK
<1>2. row \in Movement
  BY <1>1 DEF Movement
<1>3. Append(movements[t], row) \in Seq(Movement)
  BY <1>1, <1>2, AppendType
<1> QED
  BY <1>1, <1>3 DEF ApplyManualCorrection, CorrectionType

\* An anomaly with a name on it is an anomaly.
LEMMA ResolvedRow ==
  ASSUME NEW a \in Anomaly, NEW by \in Operators
  PROVE  [a EXCEPT !.resolvedBy = by] \in Anomaly
  BY DEF Anomaly

\* Each of the four ways handle() ends keeps every type.
LEMMA FinishTypeOK ==
  ASSUME TypeOK, Finish, UNCHANGED apiVars
  PROVE  TypeOK'
<1>0. pc = "finish" /\ pc # "idle"
  BY DEF Finish, FinishAnomaly, FinishNoOp, FinishReturn, FinishMove, Commit
<1>1. /\ status \in [Tids -> Status]
      /\ parent \in [Tids -> Tids \cup {NoTid}]
      /\ movements \in [Tids -> Seq(Movement)]
      /\ anomalies \in Seq(Anomaly)
      /\ tree \in [Tids -> Status \cup {None}]
      /\ decision \in Decision
  BY DEF TypeOK, DbTypeOK, EngineTypeOK
<1>2. CASE FinishAnomaly
  <2>1. decision.anomaly \in AnomalyKind
    BY <1>1, <1>2 DEF FinishAnomaly, Decision
  <2>2. anomalies' \in Seq(Anomaly) /\ DOMAIN anomalies \subseteq DOMAIN anomalies'
    BY <1>0, <1>2, <2>1, RaiseType DEF FinishAnomaly
  <2> QED
    BY <1>1, <1>2, <2>2, CommitTypeOK DEF FinishAnomaly
<1>3. CASE FinishNoOp
  BY <1>1, <1>3, CommitTypeOK DEF FinishNoOp
<1>4. CASE FinishReturn
  <2>1. Root \in Tids
    BY <1>0, CurrentRow
  <2>2. decision.to \in Status /\ tree[Root] # None
    BY <1>1, <1>4 DEF FinishReturn, TypeOK, EngineTypeOK, Decision
  <2>3. LogPortal(Root, decision.to) \in Seq(Movement)
    BY <1>0, <2>1, <2>2, LogPortalType
  <2> QED
    BY <1>1, <1>4, <2>1, <2>2, <2>3, CommitTypeOK DEF FinishReturn
<1>5. CASE FinishMove
  <2>1. decision.to \in Status
    BY <1>1, <1>5 DEF FinishMove, Decision
  <2>2. status' \in [Tids -> Status]
    BY <1>1, <1>5, <2>1 DEF FinishMove
  <2>3. movements' \in [Tids -> Seq(Movement)]
    <3>1. \A t \in ToMove : LogPortal(t, decision.to) \in Seq(Movement)
      BY <1>0, <2>1, LogPortalType DEF ToMove
    <3> QED
      BY <1>1, <1>5, <3>1 DEF FinishMove
  <2>4. anomalies' \in Seq(Anomaly) /\ DOMAIN anomalies \subseteq DOMAIN anomalies'
    <3>1. anomalies' \in {anomalies, Raise("SHORT_PALLET")}
      BY <1>5 DEF FinishMove
    <3> QED
      BY <1>0, <1>1, <3>1, RaiseType DEF AnomalyKind
  <2> QED
    BY <1>1, <1>5, <2>2, <2>3, <2>4, CommitTypeOK DEF FinishMove
<1> QED
  BY <1>2, <1>3, <1>4, <1>5 DEF Finish

\* The engine's steps that write no table.
LEMMA EngineReadTypeOK ==
  ASSUME TypeOK, EngineNext, ~Finish, UNCHANGED apiVars
  PROVE  TypeOK'
<1> USE DEF TypeOK
<1> DEFINE Tables == /\ UNCHANGED <<registered, status, parent, observations,
                                    sessions, movements, anomalies>>
                     /\ locked' \in Tids \cup {NoTid}
<1>0. ASSUME Tables PROVE DbTypeOK' /\ ApiTypeOK'
  BY <1>0 DEF DbTypeOK, ApiTypeOK, Resolution, apiVars
<1>1. CASE FetchObservations
  <2>1. EngineTypeOK'
    BY <1>1 DEF FetchObservations, EngineTypeOK, dbVars, Unprocessed, Root
  <2> QED
    BY <1>0, <1>1, <2>1 DEF FetchObservations, dbVars, DbTypeOK
<1>2. ASSUME NEW o \in queue, Hold(o) \/ Take(o) PROVE TypeOK'
  <2>1. o \in DOMAIN observations /\ o # 0
    BY DEF DbTypeOK, EngineTypeOK
  <2>2. EngineTypeOK'
    BY <1>2, <2>1 DEF Hold, Take, EngineTypeOK, dbVars, Root
  <2> QED
    BY <1>0, <1>2, <2>2 DEF Hold, Take, dbVars, DbTypeOK
<1>3. ASSUME NEW o \in held, Settle(o) PROVE TypeOK'
  <2>1. EngineTypeOK'
    BY <1>3 DEF Settle, EngineTypeOK, dbVars, Root
  <2> QED
    BY <1>0, <1>3, <2>1 DEF Settle, dbVars, DbTypeOK
<1>4. CASE Lock
  <2>1. pc # "idle"
    BY <1>4 DEF Lock
  <2>2. /\ Root \in Tids /\ current # 0 /\ Root' = Root
        /\ observations[current].portal \in Portal
        /\ observations[current].direction \in Direction
    BY <1>4, <2>1, CurrentRow DEF Lock, Root, Observation, EngineTypeOK
  <2>3. status \in [Tids -> Status]
    BY DEF DbTypeOK
  <2>4. /\ DecideCurrent \in Decision
        /\ DecideCurrent.detach => DecideCurrent.to # None
        /\ DecideCurrent.to # None => Root \in registered
    <3>1. CASE Root \in registered
      <4> DEFINE obs == observations[current]
                 isReusable == Root \in Reusable
      <4>1. DecideCurrent = Decide(obs.portal, obs.direction, status[Root],
                                   isReusable)
        BY <3>1 DEF DecideCurrent, Root
      <4>2. isReusable \in BOOLEAN /\ status[Root] \in Status
        BY <2>2, <2>3
      <4> HIDE DEF isReusable
      <4> QED
        BY <2>2, <3>1, <4>1, <4>2, DecideMoves
    <3>2. CASE Root \notin registered
      BY <3>2 DEF DecideCurrent, Root, Flag, Decision, AnomalyKind
    <3> QED
      BY <3>1, <3>2
  <2>5. tree' \in [Tids -> Status \cup {None}]
        /\ (Root \in registered => tree'[Root] # None)
    BY <1>4, <2>2, <2>3 DEF Lock, Status, None
  <2>6. pc' \in {"session", "tree", "finish"}
    BY <1>4 DEF Lock, PhaseAfter
  <2>7. EngineTypeOK'
    BY <1>4, <2>2, <2>4, <2>5, <2>6 DEF Lock, EngineTypeOK
  <2> QED
    BY <1>0, <1>4, <2>2, <2>7 DEF Lock
<1>5. CASE ReadSession
  <2>1. Flag("NO_SESSION") \in Decision /\ Flag("NO_SESSION").to = None
        /\ ~Flag("NO_SESSION").detach
    BY DEF Flag, Decision, AnomalyKind
  <2>2. \A s \in OpenSessions : s \in Nat
    BY DEF DbTypeOK, OpenSessions
  <2>3. EngineTypeOK'
    BY <1>5, <2>1, <2>2 DEF ReadSession, EngineTypeOK, dbVars, Root
  <2> QED
    BY <1>0, <1>5, <2>3 DEF ReadSession, dbVars, DbTypeOK
<1>6. CASE ReadTree
  <2>1. Root' = Root /\ (Root \in registered => Root \in Tree(Root))
    BY <1>6 DEF ReadTree, Root, dbVars, Tree
  <2>2. tree' \in [Tids -> Status \cup {None}]
        /\ (Root \in registered => tree'[Root] # None)
    BY <1>6, <2>1 DEF ReadTree, DbTypeOK, Status, None
  <2>3. EngineTypeOK'
    BY <1>6, <2>1, <2>2 DEF ReadTree, EngineTypeOK, dbVars
  <2> QED
    BY <1>0, <1>6, <2>3 DEF ReadTree, dbVars, DbTypeOK
<1>7. CASE DbError \/ Restart
  <2>1. /\ decision' \in Decision /\ ~decision'.detach /\ decision'.to = None
        /\ session' \in Nat /\ tree' \in [Tids -> Status \cup {None}]
    BY <1>7, NoOpIsDecision DEF DbError, Restart, Rollback, NoTree
  <2>2. EngineTypeOK'
    BY <1>7, <2>1, EngineAssumption DEF DbError, Restart, Rollback, EngineTypeOK
  <2> QED
    BY <1>0, <1>7, <2>2 DEF DbError, Restart, Rollback
<1> QED
  BY <1>1, <1>2, <1>3, <1>4, <1>5, <1>6, <1>7 DEF EngineNext

\* Each request of the API keeps every type.
LEMMA ApiTypeOK_Step ==
  ASSUME TypeOK, ApiNext, UNCHANGED engineVars
  PROVE  TypeOK'
<1> USE DEF TypeOK
<1>0. ASSUME UNCHANGED observations, registered \subseteq registered'
      PROVE  EngineTypeOK'
  BY <1>0 DEF EngineTypeOK, engineVars, Root
<1>1. ASSUME NEW t \in Tids, NEW p \in Tids \cup {NoTid}, Register(t, p)
      PROVE  TypeOK'
  BY <1>0, <1>1 DEF Register, DbTypeOK, ApiTypeOK, Resolution, apiVars
<1>2. ASSUME NEW load \in Loads, AttachCheck(load) PROVE TypeOK'
  BY <1>0, <1>2 DEF AttachCheck, DbTypeOK, ApiTypeOK, Resolution, dbVars
<1>3. ASSUME NEW load \in attaching, AttachWrite(load) PROVE TypeOK'
  <2>1. load.pallet \in Tids
    BY ApiAssumption DEF ApiTypeOK
  <2> QED
    BY <1>0, <1>3, <2>1 DEF AttachWrite, DbTypeOK, ApiTypeOK, Resolution
<1>4. ASSUME NEW t \in Tids, NEW to \in Status, CorrectContainer(t, to)
      PROVE  TypeOK'
  <2>1. CorrectionType
    BY <1>4, CorrectionTypeOK DEF CorrectContainer
  <2> QED
    BY <1>0, <1>4, <2>1 DEF CorrectContainer, CorrectionType, DbTypeOK,
       ApiTypeOK, Resolution, apiVars
<1>5. ASSUME OpenSession \/ \E s \in DOMAIN sessions :
               CommitOpenSession(s) \/ CloseSession(s)
      PROVE  TypeOK'
  <2>1. sessions' \in Seq(SessionState)
    <3>1. /\ sessions \in Seq(SessionState)
          /\ "pending" \in SessionState
          /\ "open" \in SessionState
          /\ "closed" \in SessionState
      BY DEF DbTypeOK, SessionState
    <3>2. CASE OpenSession
      BY <3>1, <3>2, AppendType DEF OpenSession
    <3>3. ASSUME NEW s \in DOMAIN sessions, CommitOpenSession(s) \/ CloseSession(s)
          PROVE  sessions' \in Seq(SessionState)
      BY <3>1, <3>3, ReplaceType DEF CommitOpenSession, CloseSession
    <3> QED
      BY <1>5, <3>2, <3>3
  <2> QED
    BY <1>0, <1>5, <2>1 DEF OpenSession, CommitOpenSession, CloseSession,
       DbTypeOK, ApiTypeOK, Resolution, apiVars
<1>6. ASSUME NEW a \in DOMAIN anomalies, NEW to \in Status \cup {None},
             NEW by \in Operators, ResolveCheck(a, to, by)
      PROVE  TypeOK'
  BY <1>0, <1>6 DEF ResolveCheck, DbTypeOK, ApiTypeOK, Resolution, dbVars
<1>7. ASSUME NEW r \in resolving,
             Resolve(r) \/ ResolveCorrecting(r) \/ ResolveRefused(r)
      PROVE  TypeOK'
  <2>1. /\ r.anomaly \in DOMAIN anomalies
        /\ r.to \in Status \cup {None}
        /\ r.operator \in Operators
        /\ anomalies[r.anomaly] \in Anomaly
    BY ElementOf DEF ApiTypeOK, Resolution, DbTypeOK
  <2>2. CASE ResolveRefused(r)
    BY <1>0, <2>2 DEF ResolveRefused, DbTypeOK, ApiTypeOK, Resolution, dbVars
  <2>3. ASSUME MarkResolved(r)
        PROVE  anomalies' \in Seq(Anomaly) /\ DOMAIN anomalies' = DOMAIN anomalies
    <3>1. PICK row \in Anomaly :
            row = [anomalies[r.anomaly] EXCEPT !.resolvedBy = r.operator]
      BY <2>1, ResolvedRow
    <3>2. anomalies' = [anomalies EXCEPT ![r.anomaly] = row]
      BY <2>3, <3>1 DEF MarkResolved
    <3> QED
      BY <2>1, <3>2, ReplaceType DEF DbTypeOK
  <2>4. CASE Resolve(r)
    BY <1>0, <2>3, <2>4 DEF Resolve, MarkResolved, DbTypeOK, ApiTypeOK, Resolution
  <2>5. CASE ResolveCorrecting(r)
    <3>1. anomalies[r.anomaly].tid \in Tids /\ r.to \in Status
      BY <2>1, <2>5 DEF ResolveCorrecting, Anomaly
    <3>2. CorrectionType
      BY <2>5, <3>1, CorrectionTypeOK DEF ResolveCorrecting
    <3> QED
      BY <1>0, <2>3, <2>5, <3>2 DEF ResolveCorrecting, CorrectionType,
         MarkResolved, DbTypeOK, ApiTypeOK, Resolution
  <2> QED
    BY <1>7, <2>2, <2>4, <2>5
<1> QED
  BY <1>1, <1>2, <1>3, <1>4, <1>5, <1>6, <1>7 DEF ApiNext

\* An observation inserted by the debouncer.
LEMMA InsertTypeOK ==
  ASSUME TypeOK, NEW t \in Tids, NEW passage \in Passages,
         InsertObservation(t, passage)
  PROVE  TypeOK'
<1> DEFINE row == [tid |-> t, portal |-> passage[1], direction |-> passage[2],
                   processed |-> FALSE, dock |-> sessions]
<1>1. row \in Observation
  BY WarehouseAssumption DEF Observation, TypeOK, DbTypeOK
<1>2. /\ observations' \in Seq(Observation)
      /\ DOMAIN observations \subseteq DOMAIN observations'
      /\ \A o \in DOMAIN observations : observations'[o] = observations[o]
  <2> HIDE DEF row
  <2>1. observations' = Append(observations, row)
    BY DEF InsertObservation, row
  <2> QED
    BY <1>1, <2>1, AppendType DEF TypeOK, DbTypeOK
<1>3. EngineTypeOK'
  <2>1. current # 0 => Root' = Root
    BY <1>2 DEF InsertObservation, engineVars, Root, TypeOK, EngineTypeOK
  <2>2. 0 \notin DOMAIN observations'
    BY <1>2
  <2> QED
    BY <1>2, <2>1, <2>2 DEF InsertObservation, engineVars, TypeOK, EngineTypeOK
<1> QED
  BY <1>2, <1>3 DEF InsertObservation, TypeOK, DbTypeOK, ApiTypeOK, Resolution,
     apiVars

\* Every variable keeps its type, for every set of tags and every bound.
THEOREM TypeCorrect == Spec => []TypeOK
<1>1. TypeOK /\ [Next]_vars => TypeOK'
  <2> SUFFICES ASSUME TypeOK, [Next]_vars PROVE TypeOK'
    OBVIOUS
  <2>1. CASE EngineNext /\ UNCHANGED apiVars
    BY <2>1, EngineReadTypeOK, FinishTypeOK
  <2>2. CASE ApiNext /\ UNCHANGED engineVars
    BY <2>2, ApiTypeOK_Step
  <2>3. CASE \E t \in Tids, passage \in Passages : InsertObservation(t, passage)
    BY <2>3, InsertTypeOK
  <2>4. CASE UNCHANGED vars
    BY <2>4 DEF vars, dbVars, engineVars, apiVars, TypeOK, DbTypeOK,
       EngineTypeOK, ApiTypeOK, Resolution, Root
  <2> QED
    BY <2>1, <2>2, <2>3, <2>4 DEF Next
<1> QED
  BY <1>1, InitTypeOK, PTL DEF Spec

-----------------------------------------------------------------------------
(* The ledger *)

\* What a step may do to the ledger of t: nothing, or add one row that ends at
\* the new status.  A row that ends where the container already was is a
\* portal's and repeats a person's; a row a person or a read of t itself
\* caused starts from where the container was.
LedgerStep(t) ==
  \/ movements'[t] = movements[t] /\ status'[t] = status[t]
  \/ \E m \in Movement :
       /\ movements'[t] = Append(movements[t], m)
       /\ status'[t] = m.to
       /\ m.to = status[t] =>
            ~IsManual(m) /\ movements[t] # <<>> /\ IsManual(LastMovement(t))
       /\ ~IsManual(m) => m.obs \in DOMAIN observations'
       /\ IsManual(m) \/ observations'[m.obs].tid = t => m.from = status[t]

\* The observations table only grows, and a row keeps its tid.
ObservationsKept ==
  \A o \in DOMAIN observations :
    o \in DOMAIN observations' /\ observations'[o].tid = observations[o].tid

\* If every container's ledger takes such a step, the properties that speak
\* of the ledger alone are preserved.
LEMMA LedgerExtends ==
  ASSUME TypeOK, LedgerInv, ObservationsKept, \A t \in Tids : LedgerStep(t)
  PROVE  (LedgerEndsAtStatus /\ StartsWhereLastEnded /\ RepeatsOnlyAPerson
            /\ PortalRowsHaveCause)'
<1> DEFINE Fine(t, i) ==
      LET m == movements'[t][i]
      IN  /\ IsManual(m) \/ observations'[m.obs].tid = t
               => m.from = IF i = 1 THEN "REGISTERED" ELSE movements'[t][i - 1].to
          /\ i > 1 /\ m.to = movements'[t][i - 1].to
               => ~IsManual(m) /\ IsManual(movements'[t][i - 1])
          /\ ~IsManual(m) => m.obs \in DOMAIN observations'
<1>1. ASSUME NEW t \in Tids
      PROVE  /\ IF movements'[t] = <<>> THEN status'[t] = "REGISTERED"
                 ELSE movements'[t][Len(movements'[t])].to = status'[t]
             /\ \A i \in DOMAIN movements'[t] : Fine(t, i)
  <2>1. movements[t] \in Seq(Movement)
    BY DEF TypeOK, DbTypeOK
  <2>2. IF movements[t] = <<>> THEN status[t] = "REGISTERED"
        ELSE movements[t][Len(movements[t])].to = status[t]
    BY DEF LedgerInv, LedgerEndsAtStatus, LastMovement
  <2>3. ASSUME NEW i \in DOMAIN movements[t]
        PROVE  LET m == movements[t][i]
               IN  /\ IsManual(m) \/ observations'[m.obs].tid = t
                        => m.from = IF i = 1 THEN "REGISTERED"
                                             ELSE movements[t][i - 1].to
                   /\ i > 1 /\ m.to = movements[t][i - 1].to
                        => ~IsManual(m) /\ IsManual(movements[t][i - 1])
                   /\ ~IsManual(m) => m.obs \in DOMAIN observations'
    BY DEF LedgerInv, StartsWhereLastEnded, RepeatsOnlyAPerson,
       PortalRowsHaveCause, ObservationsKept, IsManual
  <2>4. CASE movements'[t] = movements[t] /\ status'[t] = status[t]
    BY <2>2, <2>3, <2>4
  <2>5. ASSUME NEW m \in Movement,
               movements'[t] = Append(movements[t], m),
               status'[t] = m.to,
               m.to = status[t] =>
                 ~IsManual(m) /\ movements[t] # <<>> /\ IsManual(LastMovement(t)),
               ~IsManual(m) => m.obs \in DOMAIN observations',
               IsManual(m) \/ observations'[m.obs].tid = t => m.from = status[t]
        PROVE  /\ IF movements'[t] = <<>> THEN status'[t] = "REGISTERED"
                   ELSE movements'[t][Len(movements'[t])].to = status'[t]
               /\ \A i \in DOMAIN movements'[t] : Fine(t, i)
    <3> DEFINE n == Len(movements[t])
    <3>1. /\ n \in Nat
          /\ DOMAIN movements[t] = 1..n
          /\ Len(movements'[t]) = n + 1
          /\ DOMAIN movements'[t] = 1..(n + 1)
          /\ movements'[t][n + 1] = m
          /\ \A i \in 1..n : movements'[t][i] = movements[t][i]
          /\ movements[t] = <<>> <=> n = 0
      BY <2>1, <2>5
    <3>2. Fine(t, n + 1)
      <4>1. CASE n = 0
        BY <2>2, <2>5, <3>1, <4>1
      <4>2. CASE n # 0
        <5>1. movements'[t][n + 1 - 1] = LastMovement(t) /\ LastMovement(t).to = status[t]
          BY <2>2, <3>1, <4>2 DEF LastMovement
        <5> QED
          BY <2>5, <3>1, <4>2, <5>1
      <4> QED
        BY <4>1, <4>2
    <3>3. ASSUME NEW i \in 1..n PROVE Fine(t, i)
      <4>1. i \in DOMAIN movements[t] /\ movements'[t][i] = movements[t][i]
        BY <3>1
      <4>2. CASE i = 1
        BY <2>3, <4>1, <4>2
      <4>3. CASE i > 1
        <5>1. movements'[t][i - 1] = movements[t][i - 1]
          BY <3>1, <4>3
        <5> QED
          BY <2>3, <4>1, <4>3, <5>1
      <4> QED
        BY <3>1, <4>2, <4>3
    <3>4. \A i \in 1..(n + 1) : i = n + 1 \/ i \in 1..n
      BY <3>1
    <3> HIDE DEF Fine, n
    <3> QED
      BY <2>5, <3>1, <3>2, <3>3, <3>4, SMTT(30)
  <2> QED
    BY <2>4, <2>5 DEF LedgerStep
<1> QED
  BY <1>1 DEF LedgerEndsAtStatus, StartsWhereLastEnded, RepeatsOnlyAPerson,
     PortalRowsHaveCause, LastMovement, IsManual

\* A step that leaves the ledger alone preserves it if it keeps what handle()
\* relies on.
LEMMA LedgerFrame ==
  ASSUME TypeOK, LedgerInv, ObservationsKept, UNCHANGED <<status, movements>>,
         RootHeld', OverruledByHand'
  PROVE  LedgerInv'
  BY LedgerExtends DEF LedgerStep, LedgerInv

\* A step that does not touch what handle() has read keeps it.
LEMMA ReadsKept ==
  ASSUME LedgerInv, UNCHANGED <<status, movements, locked, decision, tree>>,
         decision.to # None => Root' = Root
  PROVE  RootHeld' /\ OverruledByHand'
  BY DEF LedgerInv, RootHeld, OverruledByHand, LastMovement

\* Between two observations, and after a rollback, handle() relies on nothing.
LEMMA NothingRead ==
  ASSUME decision' = NoOp, tree' = NoTree
  PROVE  RootHeld' /\ OverruledByHand'
  BY NoOpIsDecision DEF RootHeld, OverruledByHand, NoTree

\* The steps of the engine that write no table.
LEMMA EngineReadLedger ==
  ASSUME TypeOK, LedgerInv, EngineNext, ~Finish
  PROVE  LedgerInv'
<1> SUFFICES /\ ObservationsKept /\ UNCHANGED <<status, movements>>
             /\ RootHeld' /\ OverruledByHand'
  BY LedgerFrame
<1>1. ASSUME FetchObservations \/ (\E o \in queue : Hold(o) \/ Take(o))
               \/ (\E o \in held : Settle(o))
      PROVE  /\ ObservationsKept /\ UNCHANGED <<status, movements>>
             /\ RootHeld' /\ OverruledByHand'
  <2>1. /\ UNCHANGED <<status, movements, locked, decision, tree, observations>>
        /\ current' = current \/ current = 0
    BY <1>1 DEF FetchObservations, Hold, Take, Settle, dbVars, TypeOK,
       EngineTypeOK
  <2>2. decision.to # None => Root' = Root
    BY <2>1 DEF Root, TypeOK, EngineTypeOK
  <2> QED
    BY <2>1, <2>2, ReadsKept DEF ObservationsKept
<1>2. CASE Lock
  <2>1. /\ Root \in Tids /\ Root' = Root
        /\ observations[current].portal \in Portal
        /\ observations[current].direction \in Direction
    BY <1>2, CurrentRow DEF Lock, Root, Observation
  <2>2. decision'.to # None => Root \in registered /\ decision'.to # status[Root]
    <3>1. CASE Root \in registered
      <4> DEFINE isReusable == Root \in Reusable
      <4>1. DecideCurrent = Decide(observations[current].portal,
                                   observations[current].direction,
                                   status[Root], isReusable)
        BY <3>1 DEF DecideCurrent, Root
      <4>2. isReusable \in BOOLEAN /\ status[Root] \in Status
        BY <2>1 DEF TypeOK, DbTypeOK
      <4> HIDE DEF isReusable
      <4> QED
        BY <1>2, <2>1, <3>1, <4>1, <4>2, DecideMoves DEF Lock
    <3>2. CASE Root \notin registered
      BY <1>2, <3>2 DEF Lock, DecideCurrent, Root, Flag
    <3> QED
      BY <3>1, <3>2
  <2>3. RootHeld'
    BY <1>2, <2>1, <2>2 DEF Lock, RootHeld
  <2>4. OverruledByHand'
    BY <1>2 DEF Lock, OverruledByHand
  <2> QED
    BY <1>2, <2>3, <2>4 DEF Lock, ObservationsKept
<1>3. CASE ReadSession
  <2>1. UNCHANGED <<status, movements, locked, tree, observations, current>>
    BY <1>3 DEF ReadSession, dbVars
  <2>2. decision' = decision \/ decision'.to = None
    BY <1>3 DEF ReadSession, Flag
  <2>3. RootHeld'
    BY <2>1, <2>2 DEF LedgerInv, RootHeld, Root
  <2>4. OverruledByHand'
    BY <2>1 DEF LedgerInv, OverruledByHand, LastMovement
  <2> QED
    BY <2>1, <2>3, <2>4 DEF ObservationsKept
<1>4. CASE ReadTree
  <2>1. /\ UNCHANGED <<status, movements, locked, observations, current, decision>>
        /\ tree' = [t \in Tids |-> IF t \in Tree(Root) THEN status[t] ELSE None]
    BY <1>4 DEF ReadTree, dbVars
  <2>2. decision.to # None => Root \in Tids /\ Root \in Tree(Root)
    BY DEF TypeOK, EngineTypeOK, DbTypeOK, Tree
  <2>3. RootHeld'
    BY <2>1, <2>2 DEF LedgerInv, RootHeld, Root
  <2>4. OverruledByHand'
    BY <2>1 DEF OverruledByHand
  <2> QED
    BY <2>1, <2>3, <2>4 DEF ObservationsKept
<1>5. CASE DbError \/ Restart
  BY <1>5, NothingRead DEF DbError, Restart, Rollback, ObservationsKept
<1> QED
  BY <1>1, <1>2, <1>3, <1>4, <1>5 DEF EngineNext

\* The row handle() writes for a container whose status it has read.
LEMMA PortalRow ==
  ASSUME TypeOK, LedgerInv, pc = "finish", decision.to # None,
         NEW t \in ToMove, observations' = observations \/ ObservationsKept,
         movements'[t] = LogPortal(t, decision.to), status'[t] = decision.to
  PROVE  LedgerStep(t)
<1> DEFINE m == [from |-> tree[t], to |-> decision.to, source |-> "PORTAL",
                 session |-> session, obs |-> current]
<1>1. /\ t \in Tids /\ tree[t] \in Status /\ tree[t] # decision.to
      /\ decision.to \in Status /\ session \in Nat
      /\ current \in DOMAIN observations /\ current \in Nat
    BY CurrentRow DEF ToMove, TypeOK, EngineTypeOK, Decision
<1>2. /\ current \in DOMAIN observations'
      /\ observations'[current].tid = Root
  BY <1>1 DEF ObservationsKept, Root
<1>3. m \in Movement /\ ~IsManual(m)
  BY <1>1 DEF Movement, IsManual
<1>4. movements'[t] = Append(movements[t], m) /\ status'[t] = m.to
  BY DEF LogPortal
<1>5. m.to = status[t] => movements[t] # <<>> /\ IsManual(LastMovement(t))
  BY <1>1 DEF LedgerInv, OverruledByHand, None, Status
<1>6. observations'[m.obs].tid = t => m.from = status[t]
  BY <1>2 DEF LedgerInv, RootHeld
<1>7. m.obs \in DOMAIN observations'
  BY <1>2
<1> HIDE DEF m
<1> QED
  BY <1>3, <1>4, <1>5, <1>6, <1>7 DEF LedgerStep

\* The writes of handle() and its commit.
LEMMA FinishLedger ==
  ASSUME TypeOK, LedgerInv, Finish
  PROVE  LedgerInv'
<1>1. Commit /\ pc = "finish"
  BY DEF Finish, FinishAnomaly, FinishNoOp, FinishReturn, FinishMove, Commit
<1>2. ObservationsKept
  <2>1. /\ current \in DOMAIN observations
        /\ observations \in Seq(Observation)
        /\ DOMAIN observations' = DOMAIN observations
        /\ observations' = [observations EXCEPT ![current].processed = TRUE]
    BY <1>1, CurrentRow, MarkProcessedType DEF Commit, TypeOK, DbTypeOK
  <2> QED
    BY <2>1 DEF ObservationsKept
<1>3. RootHeld' /\ OverruledByHand'
  BY <1>1, NothingRead DEF Commit
<1> SUFFICES ASSUME NEW t \in Tids PROVE LedgerStep(t)
  BY <1>2, <1>3, LedgerExtends DEF LedgerInv
<1>4. movements \in [Tids -> Seq(Movement)] /\ status \in [Tids -> Status]
  BY DEF TypeOK, DbTypeOK
<1>5. CASE FinishAnomaly \/ FinishNoOp
  BY <1>5 DEF FinishAnomaly, FinishNoOp, LedgerStep
<1>6. CASE FinishReturn
  <2>1. decision.to # None /\ Root \in Tids /\ tree[Root] # None
        /\ tree[Root] # decision.to
    BY <1>1, <1>6, CurrentRow DEF FinishReturn, TypeOK, EngineTypeOK, LedgerInv,
       RootHeld
  <2>2. CASE t = Root
    <3>1. t \in ToMove
      BY <2>1, <2>2 DEF ToMove
    <3>2. movements'[t] = LogPortal(t, decision.to) /\ status'[t] = decision.to
      BY <1>4, <1>6, <2>2 DEF FinishReturn
    <3> QED
      BY <1>1, <1>2, <2>1, <3>1, <3>2, PortalRow
  <2>3. CASE t # Root
    BY <1>4, <1>6, <2>3 DEF FinishReturn, LedgerStep
  <2> QED
    BY <2>2, <2>3
<1>7. CASE FinishMove
  <2>1. CASE t \in ToMove
    <3>1. /\ decision.to # None
          /\ movements'[t] = LogPortal(t, decision.to) /\ status'[t] = decision.to
      BY <1>7, <2>1 DEF FinishMove
    <3> QED
      BY <1>1, <1>2, <2>1, <3>1, PortalRow
  <2>2. CASE t \notin ToMove
    BY <1>7, <2>2 DEF FinishMove, LedgerStep
  <2> QED
    BY <2>1, <2>2
<1> QED
  BY <1>5, <1>6, <1>7 DEF Finish

\* A correction waits for the row the engine holds, and moves the container to
\* a status it is not in.
LEMMA CorrectionLedger ==
  ASSUME TypeOK, LedgerInv, NEW t \in Tids, NEW to \in Status,
         ApplyManualCorrection(t, to),
         UNCHANGED <<observations, locked, engineVars>>
  PROVE  LedgerInv'
<1> DEFINE m == [from |-> status[t], to |-> to, source |-> "MANUAL",
                 session |-> 0, obs |-> 0]
<1>1. movements \in [Tids -> Seq(Movement)] /\ status \in [Tids -> Status]
  BY DEF TypeOK, DbTypeOK
<1>2. /\ status'[t] = to /\ to # status[t]
      /\ movements'[t] = Append(movements[t], m)
      /\ \A x \in Tids \ {t} : status'[x] = status[x] /\ movements'[x] = movements[x]
  BY <1>1 DEF ApplyManualCorrection, TargetAccepted
<1>3. m \in Movement /\ IsManual(m)
  BY <1>1 DEF Movement, IsManual
<1>4. ASSUME NEW x \in Tids PROVE LedgerStep(x)
  <2>1. CASE x = t
    <3>1. m.to = to /\ m.from = status[t]
      OBVIOUS
    <3> HIDE DEF m
    <3> QED
      BY <1>2, <1>3, <2>1, <3>1 DEF LedgerStep
  <2>2. CASE x # t
    BY <1>2, <2>2 DEF LedgerStep
  <2> QED
    BY <2>1, <2>2
<1>5. RootHeld'
  <2>1. locked # t /\ Root' = Root
    BY DEF ApplyManualCorrection, Root, engineVars
  <2>2. decision.to # None => Root \in Tids
    BY DEF TypeOK, EngineTypeOK, DbTypeOK
  <2> QED
    BY <1>2, <2>1, <2>2 DEF LedgerInv, RootHeld, engineVars
<1>6. OverruledByHand'
  <2>1. Len(movements'[t]) = Len(movements[t]) + 1
        /\ movements'[t][Len(movements'[t])] = m /\ movements'[t] # <<>>
    <3> HIDE DEF m
    <3> QED
      BY <1>1, <1>2, <1>3
  <2>2. ASSUME NEW x \in Tids, tree'[x] \notin {None, status'[x]}
        PROVE  movements'[x] # <<>> /\ IsManual(movements'[x][Len(movements'[x])])
    <3>1. CASE x = t
      BY <1>3, <2>1, <3>1
    <3>2. CASE x # t
      BY <1>2, <2>2, <3>2 DEF LedgerInv, OverruledByHand, engineVars, LastMovement
    <3> QED
      BY <3>1, <3>2
  <2> QED
    BY <2>2 DEF OverruledByHand, LastMovement, IsManual
<1> QED
  BY <1>4, <1>5, <1>6, LedgerExtends DEF LedgerInv, ObservationsKept

\* The API's requests and the debouncer.
LEMMA ApiLedger ==
  ASSUME TypeOK, LedgerInv, ApiNext, UNCHANGED engineVars
  PROVE  LedgerInv'
<1>1. ASSUME UNCHANGED <<status, movements, observations, locked>>
      PROVE  LedgerInv'
  <2>1. RootHeld' /\ OverruledByHand'
    BY <1>1, ReadsKept DEF engineVars, Root
  <2> QED
    BY <1>1, <2>1, LedgerFrame DEF ObservationsKept
<1>2. ASSUME NEW t \in Tids, NEW p \in Tids \cup {NoTid}, Register(t, p)
      PROVE  LedgerInv'
  BY <1>1, <1>2 DEF Register
<1>3. ASSUME NEW load \in Loads, AttachCheck(load) PROVE LedgerInv'
  BY <1>1, <1>3 DEF AttachCheck, dbVars
<1>4. ASSUME NEW load \in attaching, AttachWrite(load) PROVE LedgerInv'
  BY <1>1, <1>4 DEF AttachWrite
<1>5. ASSUME NEW t \in Tids, NEW to \in Status, CorrectContainer(t, to)
      PROVE  LedgerInv'
  BY <1>5, CorrectionLedger DEF CorrectContainer
<1>6. ASSUME OpenSession \/ \E s \in DOMAIN sessions :
               CommitOpenSession(s) \/ CloseSession(s)
      PROVE  LedgerInv'
  BY <1>1, <1>6 DEF OpenSession, CommitOpenSession, CloseSession
<1>7. ASSUME NEW a \in DOMAIN anomalies, NEW to \in Status \cup {None},
             NEW by \in Operators, ResolveCheck(a, to, by)
      PROVE  LedgerInv'
  BY <1>1, <1>7 DEF ResolveCheck, dbVars
<1>8. ASSUME NEW r \in resolving,
             Resolve(r) \/ ResolveCorrecting(r) \/ ResolveRefused(r)
      PROVE  LedgerInv'
  <2>1. CASE Resolve(r) \/ ResolveRefused(r)
    BY <1>1, <2>1 DEF Resolve, MarkResolved, ResolveRefused, dbVars
  <2>2. CASE ResolveCorrecting(r)
    <3>1. /\ r.anomaly \in DOMAIN anomalies
          /\ r.to \in Status \cup {None}
          /\ anomalies[r.anomaly] \in Anomaly
      BY ElementOf DEF TypeOK, ApiTypeOK, Resolution, DbTypeOK
    <3>2. anomalies[r.anomaly].tid \in Tids /\ r.to \in Status
      BY <2>2, <3>1 DEF ResolveCorrecting, Anomaly
    <3> QED
      BY <2>2, <3>2, CorrectionLedger DEF ResolveCorrecting, MarkResolved
  <2> QED
    BY <1>8, <2>1, <2>2
<1> QED
  BY <1>2, <1>3, <1>4, <1>5, <1>6, <1>7, <1>8 DEF ApiNext

\* The debouncer adds an observation below the others.
LEMMA InsertLedger ==
  ASSUME TypeOK, LedgerInv, NEW t \in Tids, NEW passage \in Passages,
         InsertObservation(t, passage)
  PROVE  LedgerInv'
<1> DEFINE row == [tid |-> t, portal |-> passage[1], direction |-> passage[2],
                   processed |-> FALSE, dock |-> sessions]
<1>1. ObservationsKept
  <2>1. row \in Observation
    BY WarehouseAssumption DEF Observation, TypeOK, DbTypeOK
  <2>2. observations' = Append(observations, row)
    BY DEF InsertObservation
  <2> HIDE DEF row
  <2> QED
    BY <2>1, <2>2, AppendType DEF ObservationsKept, TypeOK, DbTypeOK
<1>2. decision.to # None => Root' = Root
  BY <1>1 DEF ObservationsKept, Root, TypeOK, EngineTypeOK, InsertObservation,
     engineVars
<1>3. UNCHANGED <<status, movements, locked, decision, tree>>
  BY DEF InsertObservation, engineVars
<1> QED
  BY <1>1, <1>2, <1>3, ReadsKept, LedgerFrame

\* An empty ledger is in order.
LEMMA InitLedger == Init => LedgerInv
  BY NoOpIsDecision
  DEF Init, DbInit, EngineInit, LedgerInv, LedgerEndsAtStatus,
      StartsWhereLastEnded, RootHeld, OverruledByHand, RepeatsOnlyAPerson,
      PortalRowsHaveCause, NoTree

\* The ledger's inductive invariant holds in every state the system reaches,
\* for every set of tags, any number of observations, corrections, lost
\* acknowledgements and crashes.
THEOREM LedgerInvariant == Spec => []LedgerInv
<1>1. TypeOK /\ LedgerInv /\ [Next]_vars => LedgerInv'
  <2> SUFFICES ASSUME TypeOK, LedgerInv, [Next]_vars PROVE LedgerInv'
    OBVIOUS
  <2>1. CASE EngineNext /\ UNCHANGED apiVars
    BY <2>1, EngineReadLedger, FinishLedger
  <2>2. CASE ApiNext /\ UNCHANGED engineVars
    BY <2>2, ApiLedger
  <2>3. CASE \E t \in Tids, passage \in Passages : InsertObservation(t, passage)
    BY <2>3, InsertLedger
  <2>4. CASE UNCHANGED vars
    <3>1. UNCHANGED <<status, movements, observations, locked, decision, tree, current>>
      BY <2>4 DEF vars, dbVars, engineVars
    <3>2. RootHeld' /\ OverruledByHand'
      BY <3>1, ReadsKept DEF Root
    <3> QED
      BY <3>1, <3>2, LedgerFrame DEF ObservationsKept
  <2> QED
    BY <2>1, <2>2, <2>3, <2>4 DEF Next
<1> QED
  BY <1>1, InitLedger, TypeCorrect, PTL DEF Spec

\* containers.status is always where the movements table says it is.
THEOREM LedgerExplainsStatus == Spec => []LedgerEndsAtStatus
<1>1. LedgerInv => LedgerEndsAtStatus
  BY DEF LedgerInv
<1> QED
  BY <1>1, LedgerInvariant, PTL

\* The row lock keeps corrections and portal reads of one container in a line.
THEOREM ReadsAndCorrectionsChain == Spec => []StartsWhereLastEnded
<1>1. LedgerInv => StartsWhereLastEnded
  BY DEF LedgerInv
<1> QED
  BY <1>1, LedgerInvariant, PTL

\* No container is counted out twice without having come back in between,
\* whatever is repeated, retried or restarted: a portal row that ends where
\* the row before it ended would have to follow a person's.
THEOREM NoDoubleDispatch == Spec => []NeverDispatchedTwice
<1>1. TypeOK /\ LedgerInv => NeverDispatchedTwice
  <2> SUFFICES ASSUME TypeOK, LedgerInv, NEW t \in Tids,
                      NEW i \in DOMAIN movements[t], NEW j \in DOMAIN movements[t],
                      i < j,
                      movements[t][i].source = "PORTAL",
                      movements[t][i].to = "DISPATCHED",
                      movements[t][j].source = "PORTAL",
                      movements[t][j].to = "DISPATCHED"
               PROVE  \E k \in (i + 1)..(j - 1) : movements[t][k].to # "DISPATCHED"
    BY DEF NeverDispatchedTwice
  <2>1. movements[t] \in Seq(Movement) /\ i \in Nat /\ j \in Nat
    BY DEF TypeOK, DbTypeOK
  <2> SUFFICES ASSUME \A k \in (i + 1)..(j - 1) : movements[t][k].to = "DISPATCHED"
               PROVE  FALSE
    OBVIOUS
  <2>2. /\ i + 1 \in DOMAIN movements[t] /\ i + 1 > 1
        /\ (i + 1) - 1 = i
        /\ i + 1 = j \/ i + 1 \in (i + 1)..(j - 1)
    BY <2>1
  <2>3. movements[t][i + 1].to = movements[t][i].to
    BY <2>2
  <2>4. IsManual(movements[t][i])
    BY <2>2, <2>3 DEF LedgerInv, RepeatsOnlyAPerson
  <2> QED
    BY <2>4 DEF IsManual
<1> QED
  BY <1>1, TypeCorrect, LedgerInvariant, PTL

-----------------------------------------------------------------------------
(* Warehouse implements Custody *)

\* Every step of the engine, of the API and of the debouncer is a step of Custody or
\* leaves status and movements alone; the initial states need no mapping.  A step that
\* moves a container needs the ledger's invariant (the row that handle() locked still
\* has the status it was read with), and that what handle() is about to write still
\* follows from that status and from the session it read.

\* As in Custody, of any status.
OnItsWay(t, from, to) ==
  \/ from = "REGISTERED" /\ to = "IN_STOCK"
  \/ from = "IN_STOCK" /\ to = "DISPATCHED"
  \/ from = "DISPATCHED" /\ to = "REGISTERED" /\ t \in Reusable

DecisionInv ==
  /\ pc \in {"idle", "handle"} => decision.to = None
  /\ pc = "session" => decision.to = "DISPATCHED" /\ session = 0
  /\ session # 0 => decision.to = "DISPATCHED"
  /\ decision.to = "DISPATCHED" /\ session = 0 => pc = "session"
  /\ decision.to # None =>
       /\ OnItsWay(Root, tree[Root], decision.to)
       /\ decision.detach <=> decision.to = "REGISTERED"

\* Every row of the transition table sends a container on its way, and detaches
\* what comes back to the pool and nothing else.
LEMMA DecideOnItsWay ==
  ASSUME NEW s \in Status, NEW t, NEW r \in BOOLEAN, r = (t \in Reusable),
         NEW portal \in Portal, NEW direction \in Direction,
         Decide(portal, direction, s, r).to # None
  PROVE  LET d == Decide(portal, direction, s, r)
         IN  OnItsWay(t, s, d.to) /\ (d.detach <=> d.to = "REGISTERED")
<1> DEFINE Fine(d) == d.to # None =>
                        OnItsWay(t, s, d.to) /\ (d.detach <=> d.to = "REGISTERED")
<1>1. Fine(Inbound(s, r))
  BY DEF Inbound, MoveTo, Flag, ReturnEmpty, NoOp, Status, None, OnItsWay
<1>2. Fine(Outbound(s))
  BY DEF Outbound, MoveTo, Flag, Status, None, OnItsWay
<1>3. Fine(Flag("NO_DIRECTION"))
  BY DEF Flag
<1> QED
  BY <1>1, <1>2, <1>3 DEF Decide, Portal

\* Whatever follows from the current observation, it keeps doing so as long as
\* its row is there.
LEMMA DecisionKept ==
  ASSUME DecisionInv, UNCHANGED <<pc, decision, session, tree>>,
         decision.to # None => Root' = Root
  PROVE  DecisionInv'
  BY DEF DecisionInv, OnItsWay

\* Between two observations, and after a rollback, there is nothing to write.
LEMMA NothingToWrite ==
  ASSUME decision' = NoOp, session' = 0, pc' \in {"idle", "handle"}
  PROVE  DecisionInv'
  BY NoOpIsDecision DEF DecisionInv, None

\* The engine decides, reads the session it decided to need, and writes.
LEMMA EngineDecision ==
  ASSUME TypeOK, LedgerInv, DecisionInv, EngineNext
  PROVE  DecisionInv'
<1>1. ASSUME FetchObservations \/ (\E o \in held : Settle(o))
      PROVE  DecisionInv'
  <2>1. UNCHANGED <<pc, decision, session, tree, observations, current>>
    BY <1>1 DEF FetchObservations, Settle, dbVars
  <2> QED
    BY <2>1, DecisionKept DEF Root
<1>2. ASSUME \E o \in queue : Hold(o) \/ Take(o)
      PROVE  DecisionInv'
  <2>1. /\ UNCHANGED <<decision, session, tree>>
        /\ pc = "idle" /\ pc' \in {"idle", "handle"}
    BY <1>2 DEF Hold, Take, dbVars
  <2> QED
    BY <2>1 DEF DecisionInv, None
<1>3. CASE Lock
  <2>1. /\ Root \in Tids /\ Root' = Root
        /\ observations[current].portal \in Portal
        /\ observations[current].direction \in Direction
    BY <1>3, CurrentRow DEF Lock, Root, Observation
  <2>2. decision'.to # None =>
          /\ OnItsWay(Root, tree'[Root], decision'.to)
          /\ decision'.detach <=> decision'.to = "REGISTERED"
    <3>1. CASE Root \in registered
      <4> DEFINE isReusable == Root \in Reusable
      <4>1. DecideCurrent = Decide(observations[current].portal,
                                   observations[current].direction,
                                   status[Root], isReusable)
        BY <3>1 DEF DecideCurrent, Root
      <4>2. isReusable \in BOOLEAN /\ status[Root] \in Status
        BY <2>1 DEF TypeOK, DbTypeOK
      <4>3. decision' = DecideCurrent /\ tree'[Root] = status[Root]
        BY <1>3, <2>1, <3>1 DEF Lock
      <4>4. isReusable = (Root \in Reusable)
        OBVIOUS
      <4> HIDE DEF isReusable
      <4> QED
        BY <2>1, <4>1, <4>2, <4>3, <4>4, DecideOnItsWay
    <3>2. CASE Root \notin registered
      BY <1>3, <3>2 DEF Lock, DecideCurrent, Root, Flag
    <3> QED
      BY <3>1, <3>2
  <2>3. session' = 0
    BY <1>3 DEF Lock, DecisionInv, None
  <2>4. /\ pc' \in {"session", "tree", "finish"}
        /\ pc' = "session" <=> decision'.to = "DISPATCHED"
    BY <1>3 DEF Lock, PhaseAfter
  <2> QED
    BY <2>1, <2>2, <2>3, <2>4 DEF DecisionInv
<1>4. CASE ReadSession
  <2>1. /\ UNCHANGED <<tree, observations, current>>
        /\ decision.to = "DISPATCHED" /\ session = 0
    BY <1>4 DEF ReadSession, dbVars, DecisionInv
  <2>2. CASE decision' = Flag("NO_SESSION") /\ pc' = "finish" /\ session' = session
    BY <2>1, <2>2 DEF DecisionInv, Flag, None
  <2>3. CASE /\ session' \in OpenSessions
             /\ pc' = "tree" /\ decision' = decision
    <3>1. session' # 0
      BY <2>3 DEF OpenSessions, TypeOK, DbTypeOK
    <3> QED
      BY <2>1, <2>3, <3>1 DEF DecisionInv, OnItsWay, Root, None
  <2> QED
    BY <1>4, <2>2, <2>3 DEF ReadSession
<1>5. CASE ReadTree
  <2>1. /\ UNCHANGED <<status, decision, session, observations, current>>
        /\ tree' = [t \in Tids |-> IF t \in Tree(Root) THEN status[t] ELSE None]
        /\ pc = "tree" /\ pc' = "finish"
    BY <1>5 DEF ReadTree, dbVars
  <2>2. decision.to # None => Root \in Tids /\ Root \in Tree(Root)
    BY DEF TypeOK, EngineTypeOK, DbTypeOK, Tree
  <2>3. decision.to # None => tree'[Root] = tree[Root] /\ Root' = Root
    BY <2>1, <2>2 DEF LedgerInv, RootHeld, Root
  <2> QED
    BY <2>1, <2>3 DEF DecisionInv, OnItsWay
<1>6. CASE Finish
  <2>1. Commit
    BY <1>6 DEF Finish, FinishAnomaly, FinishNoOp, FinishReturn, FinishMove
  <2> QED
    BY <2>1, NothingToWrite DEF Commit
<1>7. CASE DbError \/ Restart
  BY <1>7, NothingToWrite DEF DbError, Restart, Rollback
<1> QED
  BY <1>1, <1>2, <1>3, <1>4, <1>5, <1>6, <1>7 DEF EngineNext

\* No other step touches it.
LEMMA OthersDecision ==
  ASSUME TypeOK, DecisionInv, UNCHANGED engineVars,
         \/ ApiNext \/ UNCHANGED vars
         \/ \E t \in Tids, passage \in Passages : InsertObservation(t, passage)
  PROVE  DecisionInv'
<1>1. UNCHANGED <<pc, decision, session, tree, current>>
  BY DEF engineVars
<1>2. decision.to # None => Root' = Root
  <2>1. CASE ApiNext \/ UNCHANGED vars
    <3>1. UNCHANGED observations
      BY <2>1 DEF ApiNext, Register, AttachCheck, AttachWrite, CorrectContainer,
         OpenSession, CommitOpenSession, CloseSession, ResolveCheck, Resolve,
         ResolveCorrecting, ResolveRefused, MarkResolved, dbVars, vars
    <3> QED
      BY <1>1, <3>1 DEF Root
  <2>2. ASSUME NEW t \in Tids, NEW passage \in Passages, InsertObservation(t, passage)
        PROVE  decision.to # None => Root' = Root
    <3> DEFINE row == [tid |-> t, portal |-> passage[1], direction |-> passage[2],
                       processed |-> FALSE, dock |-> sessions]
    <3>1. observations' = Append(observations, row)
      BY <2>2 DEF InsertObservation
    <3>2. decision.to # None => current \in DOMAIN observations
      BY CurrentRow DEF TypeOK, EngineTypeOK
    <3> HIDE DEF row
    <3> QED
      BY <1>1, <3>1, <3>2 DEF Root, TypeOK, DbTypeOK
  <2> QED
    BY <2>1, <2>2
<1> QED
  BY <1>1, <1>2, DecisionKept

\* What handle() is about to write follows from what it has read, in every state.
LEMMA DecisionInvariant == Spec => []DecisionInv
<1>1. Init => DecisionInv
  BY NoOpIsDecision DEF Init, EngineInit, DecisionInv, None
<1>2. TypeOK /\ LedgerInv /\ DecisionInv /\ [Next]_vars => DecisionInv'
  <2> SUFFICES ASSUME TypeOK, LedgerInv, DecisionInv, [Next]_vars PROVE DecisionInv'
    OBVIOUS
  <2>1. CASE EngineNext
    BY <2>1, EngineDecision
  <2>2. CASE UNCHANGED vars
    BY <2>2, OthersDecision DEF vars
  <2>3. CASE ApiNext /\ UNCHANGED engineVars
    BY <2>3, OthersDecision
  <2>4. CASE \E t \in Tids, passage \in Passages : InsertObservation(t, passage)
    BY <2>4, OthersDecision DEF InsertObservation
  <2> QED
    BY <2>1, <2>2, <2>3, <2>4 DEF Next
<1> QED
  BY <1>1, <1>2, TypeCorrect, LedgerInvariant, PTL DEF Spec

-----------------------------------------------------------------------------
(* The refinement *)

\* A row that is inserted is the new one.
LEMMA Inserted ==
  ASSUME NEW c \in Tids, NEW m, movements[c] \in Seq(Movement), m \in Movement,
         movements'[c] = Append(movements[c], m)
  PROVE  Promise!NewRow(c) = m
  BY DEF Promise!NewRow

\* A container that handle() moves goes to the decided status by a row of its own,
\* from the status that was read.
LEMMA Logged ==
  ASSUME TypeOK, DecisionInv, pc = "finish", decision.to # None, NEW c \in ToMove,
         movements'[c] = LogPortal(c, decision.to), status'[c] = decision.to
  PROVE  /\ Promise!MovesTo(c, decision.to, "PORTAL")
         /\ Promise!NewRow(c).from = tree[c] /\ tree[c] # decision.to
         /\ Promise!NewRow(c).session # 0 <=> decision.to = "DISPATCHED"
<1> DEFINE m == [from |-> tree[c], to |-> decision.to, source |-> "PORTAL",
                 session |-> session, obs |-> current]
<1>1. /\ c \in Tids /\ tree[c] \in Status /\ tree[c] # decision.to
      /\ decision.to \in Status /\ session \in Nat /\ current \in Nat
    BY CurrentRow DEF ToMove, TypeOK, EngineTypeOK, Decision
<1>2. m \in Movement
  BY <1>1 DEF Movement
<1>3. movements[c] \in Seq(Movement) /\ movements'[c] = Append(movements[c], m)
  BY <1>1 DEF LogPortal, TypeOK, DbTypeOK
<1>4. Promise!NewRow(c) = m
  <2> HIDE DEF m
  <2> QED
    BY <1>1, <1>2, <1>3, Inserted
<1>5. session # 0 <=> decision.to = "DISPATCHED"
  BY DEF DecisionInv
<1> QED
  BY <1>1, <1>3, <1>4, <1>5 DEF Promise!MovesTo

\* The container that was read goes on its way from the status it has.
LEMMA RootOnItsWay ==
  ASSUME TypeOK, LedgerInv, DecisionInv, pc = "finish", decision.to # None
  PROVE  /\ Root \in ToMove /\ Root \in Tids /\ tree[Root] = status[Root]
         /\ Promise!OnItsWay(Root, decision.to)
<1>1. tree[Root] = status[Root] /\ tree[Root] # decision.to
  BY DEF LedgerInv, RootHeld
<1>2. Root \in Tids /\ tree[Root] # None
  BY DEF TypeOK, EngineTypeOK, DbTypeOK
<1> QED
  BY <1>1, <1>2 DEF DecisionInv, OnItsWay, Promise!OnItsWay, ToMove

\* What handle() writes at the end is one step of Custody, or none.
LEMMA FinishCustody ==
  ASSUME TypeOK, LedgerInv, DecisionInv, Finish
  PROVE  Promise!Next \/ UNCHANGED <<status, movements>>
<1>1. pc = "finish"
  BY DEF Finish, FinishAnomaly, FinishNoOp, FinishReturn, FinishMove, Commit
<1>2. movements \in [Tids -> Seq(Movement)] /\ status \in [Tids -> Status]
  BY DEF TypeOK, DbTypeOK
<1>3. CASE FinishAnomaly \/ FinishNoOp
  BY <1>3 DEF FinishAnomaly, FinishNoOp
<1>4. CASE FinishReturn
  <2>1. decision.to # None /\ decision.to = "REGISTERED"
    BY <1>4 DEF FinishReturn, TypeOK, EngineTypeOK, DecisionInv
  <2>2. Root \in ToMove /\ Root \in Tids /\ tree[Root] = status[Root]
        /\ Promise!OnItsWay(Root, decision.to)
    BY <1>1, <2>1, RootOnItsWay
  <2>3. /\ status'[Root] = decision.to
        /\ movements'[Root] = LogPortal(Root, decision.to)
        /\ \A c \in Tids \ {Root} : Promise!Stays(c)
    BY <1>2, <1>4, <2>2 DEF FinishReturn, Promise!Stays
  <2>4. /\ Promise!MovesTo(Root, decision.to, "PORTAL")
        /\ Promise!NewRow(Root).from = tree[Root] /\ tree[Root] # decision.to
        /\ Promise!NewRow(Root).session # 0 <=> decision.to = "DISPATCHED"
    BY <1>1, <2>1, <2>2, <2>3, Logged
  <2>5. Promise!ByRead(Root, {}, status'[Root])
    BY <2>2, <2>3, <2>4 DEF Promise!ByRead
  <2> QED
    BY <2>2, <2>5 DEF Promise!Next
<1>5. CASE FinishMove
  <2>1. decision.to # None /\ decision.to # "REGISTERED"
    BY <1>5 DEF FinishMove, DecisionInv
  <2>2. Root \in ToMove /\ Root \in Tids /\ tree[Root] = status[Root]
        /\ Promise!OnItsWay(Root, decision.to)
    BY <1>1, <2>1, RootOnItsWay
  <2>3. ToMove \subseteq Tids
    BY DEF ToMove
  <2>4. ASSUME NEW c \in ToMove
        PROVE  /\ Promise!MovesTo(c, decision.to, "PORTAL")
               /\ Promise!NewRow(c).from = tree[c] /\ tree[c] # decision.to
               /\ Promise!NewRow(c).session # 0 <=> decision.to = "DISPATCHED"
    <3>1. movements'[c] = LogPortal(c, decision.to) /\ status'[c] = decision.to
      BY <1>5, <2>3 DEF FinishMove
    <3> QED
      BY <1>1, <2>1, <3>1, Logged
  <2>5. \A c \in Tids \ ToMove : Promise!Stays(c)
    BY <1>5 DEF FinishMove, Promise!Stays
  <2>6. status'[Root] = decision.to
    BY <1>5, <2>2 DEF FinishMove
  <2>7. Promise!ByRead(Root, ToMove \ {Root}, status'[Root])
    BY <2>1, <2>2, <2>4, <2>5, <2>6 DEF Promise!ByRead
  <2> QED
    BY <2>2, <2>3, <2>7 DEF Promise!Next
<1> QED
  BY <1>3, <1>4, <1>5 DEF Finish

\* A correction is a step of Custody by hand.
LEMMA CorrectionCustody ==
  ASSUME TypeOK, NEW t \in Tids, NEW to \in Status, ApplyManualCorrection(t, to)
  PROVE  Promise!Next
<1> DEFINE m == [from |-> status[t], to |-> to, source |-> "MANUAL",
                 session |-> 0, obs |-> 0]
<1>1. movements \in [Tids -> Seq(Movement)] /\ status \in [Tids -> Status]
  BY DEF TypeOK, DbTypeOK
<1>2. /\ status'[t] = to /\ to # status[t]
      /\ movements'[t] = Append(movements[t], m)
      /\ \A c \in Tids \ {t} : Promise!Stays(c)
  BY <1>1 DEF ApplyManualCorrection, TargetAccepted, Promise!Stays
<1>3. m \in Movement
  BY <1>1 DEF Movement
<1>4. Promise!NewRow(t) = m
  <2> HIDE DEF m
  <2> QED
    BY <1>1, <1>2, <1>3, Inserted
<1>5. Promise!ByHand(t, status'[t])
  BY <1>2, <1>4 DEF Promise!ByHand, Promise!MovesTo
<1> QED
  BY <1>5 DEF Promise!Next

\* So is a request that corrects, and no other request touches custody.
LEMMA ApiCustody ==
  ASSUME TypeOK, ApiNext
  PROVE  Promise!Next \/ UNCHANGED <<status, movements>>
<1>1. ASSUME NEW t \in Tids, NEW p \in Tids \cup {NoTid}, Register(t, p)
      PROVE  UNCHANGED <<status, movements>>
  BY <1>1 DEF Register
<1>2. ASSUME \/ \E load \in Loads : AttachCheck(load)
             \/ \E load \in attaching : AttachWrite(load)
      PROVE  UNCHANGED <<status, movements>>
  BY <1>2 DEF AttachCheck, AttachWrite, dbVars
<1>3. ASSUME NEW t \in Tids, NEW to \in Status, CorrectContainer(t, to)
      PROVE  Promise!Next
  BY <1>3, CorrectionCustody DEF CorrectContainer
<1>4. ASSUME \/ OpenSession
             \/ \E s \in DOMAIN sessions : CommitOpenSession(s) \/ CloseSession(s)
             \/ \E a \in DOMAIN anomalies, to \in Status \cup {None}, by \in Operators :
                  ResolveCheck(a, to, by)
      PROVE  UNCHANGED <<status, movements>>
  BY <1>4 DEF OpenSession, CommitOpenSession, CloseSession, ResolveCheck, dbVars
<1>5. ASSUME NEW r \in resolving,
             Resolve(r) \/ ResolveCorrecting(r) \/ ResolveRefused(r)
      PROVE  Promise!Next \/ UNCHANGED <<status, movements>>
  <2>1. CASE Resolve(r) \/ ResolveRefused(r)
    BY <2>1 DEF Resolve, ResolveRefused, dbVars
  <2>2. CASE ResolveCorrecting(r)
    <3>1. /\ r.anomaly \in DOMAIN anomalies
          /\ r.to \in Status \cup {None}
          /\ anomalies[r.anomaly] \in Anomaly
      BY ElementOf DEF TypeOK, ApiTypeOK, Resolution, DbTypeOK
    <3>2. anomalies[r.anomaly].tid \in Tids /\ r.to \in Status
      BY <2>2, <3>1 DEF ResolveCorrecting, Anomaly
    <3> QED
      BY <2>2, <3>2, CorrectionCustody DEF ResolveCorrecting
  <2> QED
    BY <1>5, <2>1, <2>2
<1> QED
  BY <1>1, <1>2, <1>3, <1>4, <1>5 DEF ApiNext

\* The engine's steps before its writes, the debouncer and a stutter leave
\* custody as it is.
LEMMA OthersCustody ==
  ASSUME \/ EngineNext /\ ~Finish
         \/ \E t \in Tids, passage \in Passages : InsertObservation(t, passage)
         \/ UNCHANGED vars
  PROVE  UNCHANGED <<status, movements>>
  BY DEF EngineNext, FetchObservations, Hold, Take, Settle, Lock, ReadSession,
     ReadTree, DbError, Restart, Rollback, InsertObservation, vars, dbVars

\* The warehouse keeps custody of every container, for every set of tags and
\* loads, any number of observations and corrections, and whatever statements
\* fail, commits are retried and restarts come between.
THEOREM CustodyKept == Spec => KeepsCustody
<1>1. Init => Promise!Init
  BY DEF Init, DbInit, Promise!Init
<1>2. TypeOK /\ LedgerInv /\ DecisionInv /\ [Next]_vars
        => [Promise!Next]_(Promise!custodyVars)
  <2> SUFFICES ASSUME TypeOK, LedgerInv, DecisionInv, [Next]_vars
               PROVE  Promise!Next \/ UNCHANGED <<status, movements>>
    BY DEF Promise!custodyVars
  <2>1. CASE Finish
    BY <2>1, FinishCustody
  <2>2. CASE ApiNext
    BY <2>2, ApiCustody
  <2> QED
    BY <2>1, <2>2, OthersCustody DEF Next
<1> QED
  BY <1>1, <1>2, TypeCorrect, LedgerInvariant, DecisionInvariant, PTL
  DEF Spec, KeepsCustody, Promise!Spec

-----------------------------------------------------------------------------
(* What the steps have in common *)

\* No request touches an observation.
LEMMA ApiObservations ==
  ASSUME ApiNext
  PROVE  UNCHANGED observations
  BY DEF ApiNext, Register, AttachCheck, AttachWrite, CorrectContainer,
     OpenSession, CommitOpenSession, CloseSession, ResolveCheck, Resolve,
     ResolveCorrecting, ResolveRefused, MarkResolved, dbVars

\* The engine's steps before its writes change no table.
LEMMA ReadsWriteNothing ==
  ASSUME EngineNext, ~Finish
  PROVE  UNCHANGED <<registered, status, parent, observations, sessions,
                     movements, anomalies>>
  BY DEF EngineNext, FetchObservations, Hold, Take, Settle, Lock, ReadSession,
     ReadTree, DbError, Restart, Rollback, dbVars

\* The writes of handle() come with its commit.
LEMMA FinishCommits ==
  ASSUME Finish
  PROVE  Commit /\ pc = "finish"
  BY DEF Finish, FinishAnomaly, FinishNoOp, FinishReturn, FinishMove, Commit

\* A commit marks the current observation processed and changes no other.
LEMMA CommitMarks ==
  ASSUME TypeOK, Commit
  PROVE  /\ current \in DOMAIN observations
         /\ DOMAIN observations' = DOMAIN observations
         /\ observations'[current].processed
         /\ \A o \in DOMAIN observations :
              /\ observations'[o].tid = observations[o].tid
              /\ observations'[o].dock = observations[o].dock
              /\ o # current => observations'[o] = observations[o]
<1>1. current \in DOMAIN observations /\ observations[current] \in Observation
  BY CurrentRow DEF Commit
<1>2. /\ observations \in Seq(Observation)
      /\ DOMAIN observations' = DOMAIN observations
      /\ observations' = [observations EXCEPT ![current].processed = TRUE]
  BY MarkProcessedType DEF Commit, TypeOK, DbTypeOK
<1> QED
  BY <1>1, <1>2 DEF Observation

\* An observation that is inserted comes after the others, unprocessed, and
\* remembers the sessions of its moment.
LEMMA InsertAppends ==
  ASSUME TypeOK, NEW t \in Tids, NEW passage \in Passages,
         InsertObservation(t, passage)
  PROVE  /\ DOMAIN observations' = DOMAIN observations \cup {Len(observations) + 1}
         /\ \A o \in DOMAIN observations : observations'[o] = observations[o]
         /\ observations'[Len(observations) + 1].dock = sessions
         /\ ~observations'[Len(observations) + 1].processed
         /\ Len(observations) \in Nat
         /\ DOMAIN observations = 1..Len(observations)
<1> DEFINE row == [tid |-> t, portal |-> passage[1], direction |-> passage[2],
                   processed |-> FALSE, dock |-> sessions]
<1>1. observations \in Seq(Observation)
  BY DEF TypeOK, DbTypeOK
<1>2. row \in Observation
  BY WarehouseAssumption DEF Observation, TypeOK, DbTypeOK
<1>3. observations' = Append(observations, row)
  BY DEF InsertObservation
<1>4. row.dock = sessions /\ ~row.processed
  OBVIOUS
<1> HIDE DEF row
<1> QED
  BY <1>1, <1>2, <1>3, <1>4

\* A row is added to the ledger of t, below the others.
AddsRow(t, m) == movements'[t] = Append(movements[t], m)

\* A row that is added leaves the others where they are.
LEMMA RowsOf ==
  ASSUME TypeOK, NEW t \in Tids, NEW m \in Movement, AddsRow(t, m)
  PROVE  /\ DOMAIN movements'[t] = DOMAIN movements[t] \cup {Len(movements[t]) + 1}
         /\ Len(movements'[t]) = Len(movements[t]) + 1
         /\ Len(movements[t]) \in Nat
         /\ \A i \in DOMAIN movements[t] : movements'[t][i] = movements[t][i]
         /\ movements'[t][Len(movements[t]) + 1] = m
         /\ DOMAIN movements[t] = 1..Len(movements[t])
  BY DEF AddsRow, TypeOK, DbTypeOK

\* The row that handle() writes of a container.
Written(t) == [from |-> tree[t], to |-> decision.to, source |-> "PORTAL",
               session |-> session, obs |-> current]

\* The writes of handle() add its row to the containers it moves, and nothing
\* to any other.
LEMMA FinishRows ==
  ASSUME TypeOK, LedgerInv, Finish, NEW t \in Tids
  PROVE  \/ movements'[t] = movements[t]
         \/ /\ AddsRow(t, Written(t)) /\ Written(t) \in Movement
            /\ decision.to \in Status
<1>0. /\ pc = "finish"
      /\ movements \in [Tids -> Seq(Movement)]
      /\ decision \in Decision
  BY FinishCommits DEF TypeOK, DbTypeOK, EngineTypeOK
<1>1. ASSUME decision.to # None, tree[t] # None
      PROVE  Written(t) \in Movement /\ decision.to \in Status
  <2>1. /\ tree[t] \in Status /\ decision.to \in Status /\ session \in Nat
        /\ current \in Nat
    BY <1>0, <1>1, CurrentRow DEF TypeOK, EngineTypeOK, Decision
  <2> QED
    BY <2>1 DEF Written, Movement
<1>2. CASE FinishAnomaly \/ FinishNoOp
  BY <1>2 DEF FinishAnomaly, FinishNoOp
<1>3. CASE FinishReturn
  <2>1. decision.to # None /\ Root \in Tids /\ tree[Root] # None
    BY <1>0, <1>3, CurrentRow DEF FinishReturn, TypeOK, EngineTypeOK
  <2>2. CASE t = Root
    BY <1>0, <1>1, <1>3, <2>1, <2>2 DEF FinishReturn, LogPortal, Written, AddsRow
  <2>3. CASE t # Root
    BY <1>0, <1>3, <2>3 DEF FinishReturn
  <2> QED
    BY <2>2, <2>3
<1>4. CASE FinishMove
  <2>1. CASE t \in ToMove
    <3>1. tree[t] # None /\ decision.to # None
      BY <1>4, <2>1 DEF ToMove, FinishMove
    <3>2. AddsRow(t, Written(t))
      BY <1>4, <2>1 DEF FinishMove, LogPortal, Written, AddsRow
    <3> QED
      BY <1>1, <3>1, <3>2
  <2>2. CASE t \notin ToMove
    BY <1>4, <2>2 DEF FinishMove
  <2> QED
    BY <2>1, <2>2
<1> QED
  BY <1>2, <1>3, <1>4 DEF Finish

\* What the API adds to a ledger is a row by hand, caused by no observation.
LEMMA ApiRows ==
  ASSUME TypeOK, ApiNext, NEW t \in Tids
  PROVE  \/ movements'[t] = movements[t]
         \/ \E m \in Movement : AddsRow(t, m) /\ m.source = "MANUAL" /\ m.obs = 0
<1>1. ASSUME NEW x \in Tids, NEW to \in Status, ApplyManualCorrection(x, to)
      PROVE  \/ movements'[t] = movements[t]
             \/ \E m \in Movement : AddsRow(t, m) /\ m.source = "MANUAL" /\ m.obs = 0
  <2> DEFINE m == [from |-> status[x], to |-> to, source |-> "MANUAL",
                   session |-> 0, obs |-> 0]
  <2>1. movements \in [Tids -> Seq(Movement)] /\ status \in [Tids -> Status]
    BY DEF TypeOK, DbTypeOK
  <2>2. m \in Movement /\ m.source = "MANUAL" /\ m.obs = 0
    BY <2>1 DEF Movement
  <2>3. movements' = [movements EXCEPT ![x] = Append(@, m)]
    BY <1>1 DEF ApplyManualCorrection
  <2> HIDE DEF m
  <2>4. CASE t = x
    BY <2>1, <2>2, <2>3, <2>4 DEF AddsRow
  <2>5. CASE t # x
    BY <2>1, <2>3, <2>5
  <2> QED
    BY <2>4, <2>5
<1>2. ASSUME NEW x \in Tids, NEW to \in Status, CorrectContainer(x, to)
      PROVE  \/ movements'[t] = movements[t]
             \/ \E m \in Movement : AddsRow(t, m) /\ m.source = "MANUAL" /\ m.obs = 0
  BY <1>1, <1>2 DEF CorrectContainer
<1>3. ASSUME NEW r \in resolving, ResolveCorrecting(r)
      PROVE  \/ movements'[t] = movements[t]
             \/ \E m \in Movement : AddsRow(t, m) /\ m.source = "MANUAL" /\ m.obs = 0
  <2>1. /\ r.anomaly \in DOMAIN anomalies
        /\ r.to \in Status \cup {None}
        /\ anomalies[r.anomaly] \in Anomaly
    BY ElementOf DEF TypeOK, ApiTypeOK, Resolution, DbTypeOK
  <2>2. anomalies[r.anomaly].tid \in Tids /\ r.to \in Status
    BY <1>3, <2>1 DEF ResolveCorrecting, Anomaly
  <2> QED
    BY <1>1, <1>3, <2>2 DEF ResolveCorrecting
<1>4. CASE UNCHANGED movements
  BY <1>4
<1> QED
  BY <1>2, <1>3, <1>4 DEF ApiNext, Register, AttachCheck, AttachWrite,
     OpenSession, CommitOpenSession, CloseSession, ResolveCheck, Resolve,
     ResolveRefused, dbVars

-----------------------------------------------------------------------------
(* Which session a dispatch is attributed to *)

\* A session that could not have been closed when the dock was as d remembers.
NotClosedAt(s, d) ==
  s \in DOMAIN sessions /\ (s \in DOMAIN d => d[s] # "closed")

\* What a dispatch is attributed to follows from what the dock has been since
\* the tag was read: a session that was closed then is closed for good.
AttributionInv ==
  /\ \A o \in DOMAIN observations : \A s \in DOMAIN observations[o].dock :
       /\ s \in DOMAIN sessions
       /\ observations[o].dock[s] = "closed" => sessions[s] = "closed"
  /\ session # 0 => NotClosedAt(session, observations[current].dock)
  /\ DispatchAttributed

\* Sessions are opened and closed, never dropped or reopened.
SessionsGoOn ==
  \A s \in DOMAIN sessions :
    s \in DOMAIN sessions' /\ (sessions[s] = "closed" => sessions'[s] = "closed")

\* The rows of observations keep what they remember, and a new one remembers
\* the sessions there are.
DocksKept ==
  /\ DOMAIN observations \subseteq DOMAIN observations'
  /\ \A o \in DOMAIN observations : observations'[o].dock = observations[o].dock
  /\ \A o \in DOMAIN observations' \ DOMAIN observations :
       observations'[o].dock = sessions

\* A row added to a ledger that attributes what it dispatches.
AttributedRow(m) ==
  m.source = "PORTAL" /\ m.to = "DISPATCHED"
    => /\ m.obs \in DOMAIN observations
       /\ NotClosedAt(m.session, observations[m.obs].dock)

\* What is left to show of a step: that it keeps the sessions and the docks,
\* and what it attributes.
LEMMA AttributionExtends ==
  ASSUME TypeOK, LedgerInv, AttributionInv, SessionsGoOn, DocksKept,
         session' # 0 => /\ current' \in DOMAIN observations
                         /\ NotClosedAt(session', observations[current'].dock),
         \A t \in Tids :
           \/ movements'[t] = movements[t]
           \/ \E m \in Movement : AddsRow(t, m) /\ AttributedRow(m)
  PROVE  AttributionInv'
<1>1. ASSUME NEW o \in DOMAIN observations, NEW s, NotClosedAt(s, observations[o].dock)
      PROVE  /\ s \in DOMAIN sessions'
             /\ s \in DOMAIN observations'[o].dock
                  => observations'[o].dock[s] # "closed"
             /\ o \in DOMAIN observations'
  BY <1>1 DEF NotClosedAt, SessionsGoOn, DocksKept
<1>2. ASSUME NEW o \in DOMAIN observations', NEW s \in DOMAIN observations'[o].dock
      PROVE  /\ s \in DOMAIN sessions'
             /\ observations'[o].dock[s] = "closed" => sessions'[s] = "closed"
  <2>1. CASE o \in DOMAIN observations
    BY <1>2, <2>1 DEF AttributionInv, SessionsGoOn, DocksKept
  <2>2. CASE o \notin DOMAIN observations
    BY <1>2, <2>2 DEF SessionsGoOn, DocksKept
  <2> QED
    BY <2>1, <2>2
<1>3. session' # 0 => /\ session' \in DOMAIN sessions'
                      /\ session' \in DOMAIN observations'[current'].dock
                           => observations'[current'].dock[session'] # "closed"
  BY <1>1
<1>4. ASSUME NEW t \in Tids, NEW i \in DOMAIN movements'[t],
             movements'[t][i].source = "PORTAL", movements'[t][i].to = "DISPATCHED"
      PROVE  LET m    == movements'[t][i]
                 dock == observations'[m.obs].dock
             IN  /\ m.session \in DOMAIN sessions'
                 /\ m.session \in DOMAIN dock => dock[m.session] # "closed"
  <2> DEFINE m == movements'[t][i]
  <2> SUFFICES m.obs \in DOMAIN observations
                 /\ NotClosedAt(m.session, observations[m.obs].dock)
    BY <1>1
  <2>1. CASE i \in DOMAIN movements[t] /\ m = movements[t][i]
    <3>1. m.obs \in DOMAIN observations
      BY <1>4, <2>1 DEF LedgerInv, PortalRowsHaveCause, IsManual
    <3> QED
      BY <1>4, <2>1, <3>1 DEF AttributionInv, DispatchAttributed, NotClosedAt
  <2>2. CASE \E n \in Movement : AddsRow(t, n) /\ AttributedRow(n)
    <3>1. PICK n \in Movement : AddsRow(t, n) /\ AttributedRow(n)
      BY <2>2
    <3>2. \/ i \in DOMAIN movements[t] /\ m = movements[t][i]
          \/ m = n
      BY <3>1, RowsOf
    <3> QED
      BY <1>4, <2>1, <3>1, <3>2 DEF AttributedRow
  <2> QED
    BY <2>1, <2>2
<1> QED
  BY <1>2, <1>3, <1>4 DEF AttributionInv, NotClosedAt, DispatchAttributed

\* A step that adds no row and reads no session.
LEMMA AttributionFrame ==
  ASSUME TypeOK, LedgerInv, DecisionInv, AttributionInv, SessionsGoOn, DocksKept,
         session' = 0 \/ (session' = session /\ (session # 0 => current' = current)),
         \A t \in Tids :
           \/ movements'[t] = movements[t]
           \/ \E m \in Movement : AddsRow(t, m) /\ m.source = "MANUAL" /\ m.obs = 0
  PROVE  AttributionInv'
<1>1. session # 0 => current \in DOMAIN observations
  <2>1. session # 0 => pc # "idle"
    BY DEF DecisionInv, None
  <2> QED
    BY <2>1, CurrentRow
<1>2. \A m \in Movement : m.source = "MANUAL" => AttributedRow(m)
  BY DEF AttributedRow
<1> QED
  BY <1>1, <1>2, AttributionExtends DEF AttributionInv

\* The engine reads a session that is open, so it was not closed when the tag
\* was read either, and attributes its rows to it.
LEMMA EngineAttribution ==
  ASSUME TypeOK, LedgerInv, DecisionInv, AttributionInv, EngineNext
  PROVE  AttributionInv'
<1>1. CASE ReadSession
  <2>1. UNCHANGED <<observations, sessions, movements, current>> /\ pc # "idle"
    BY <1>1 DEF ReadSession, dbVars
  <2>2. SessionsGoOn /\ DocksKept
    BY <2>1 DEF SessionsGoOn, DocksKept
  <2>3. CASE session' = session
    BY <2>1, <2>2, <2>3, AttributionFrame
  <2>4. CASE session' \in OpenSessions
    <3>1. current \in DOMAIN observations
      BY <2>1, CurrentRow
    <3>2. NotClosedAt(session', observations[current].dock)
      BY <2>4, <3>1 DEF OpenSessions, NotClosedAt, AttributionInv
    <3> QED
      BY <2>1, <2>2, <3>1, <3>2, AttributionExtends
  <2> QED
    BY <1>1, <2>3, <2>4 DEF ReadSession
<1>2. CASE EngineNext /\ ~Finish /\ ~ReadSession
  <2>1. UNCHANGED <<observations, sessions, movements>>
    BY <1>2, ReadsWriteNothing
  <2>2. SessionsGoOn /\ DocksKept
    BY <2>1 DEF SessionsGoOn, DocksKept
  <2>3. session' = 0 \/ (session' = session /\ (session # 0 => current' = current))
    <3>1. session # 0 => pc \notin {"idle", "handle"}
      BY DEF DecisionInv, None
    <3> QED
      BY <1>2, <3>1 DEF EngineNext, FetchObservations, Hold, Take, Settle, Lock,
         ReadTree, DbError, Restart, Rollback
  <2> QED
    BY <2>1, <2>2, <2>3, AttributionFrame
<1>3. CASE Finish
  <2>1. Commit /\ session' = 0 /\ UNCHANGED sessions /\ pc # "idle"
    BY <1>3, FinishCommits DEF Commit
  <2>2. SessionsGoOn /\ DocksKept
    BY <2>1, CommitMarks DEF SessionsGoOn, DocksKept
  <2>3. ASSUME NEW t \in Tids
        PROVE  \/ movements'[t] = movements[t]
               \/ \E m \in Movement : AddsRow(t, m) /\ AttributedRow(m)
    <3>1. CASE AddsRow(t, Written(t)) /\ Written(t) \in Movement
      <4>1. Written(t).to = "DISPATCHED" => session # 0
        BY <1>3, FinishCommits DEF Written, DecisionInv
      <4>2. current \in DOMAIN observations
        BY <2>1, CurrentRow
      <4>3. AttributedRow(Written(t))
        BY <4>1, <4>2 DEF AttributedRow, Written, AttributionInv
      <4> QED
        BY <3>1, <4>3
    <3> QED
      BY <1>3, <3>1, FinishRows
  <2> QED
    BY <2>1, <2>2, <2>3, AttributionExtends
<1> QED
  BY <1>1, <1>2, <1>3

\* A session moves from pending to open to closed.
LEMMA ApiSessions ==
  ASSUME TypeOK, ApiNext
  PROVE  SessionsGoOn
<1>1. sessions \in Seq(SessionState)
  BY DEF TypeOK, DbTypeOK
<1>2. CASE OpenSession
  BY <1>1, <1>2 DEF OpenSession, SessionsGoOn, SessionState
<1>3. ASSUME NEW s \in DOMAIN sessions, CommitOpenSession(s) \/ CloseSession(s)
      PROVE  SessionsGoOn
  BY <1>1, <1>3 DEF CommitOpenSession, CloseSession, SessionsGoOn
<1>4. CASE UNCHANGED sessions
  BY <1>4 DEF SessionsGoOn
<1> QED
  BY <1>2, <1>3, <1>4 DEF ApiNext, Register, AttachCheck, AttachWrite,
     CorrectContainer, ResolveCheck, Resolve, ResolveCorrecting, ResolveRefused,
     MarkResolved, dbVars

\* No dispatch is ever attributed to a session that had been closed before the
\* tag that caused it was read, whatever sessions are opened and closed, and by
\* whom, between a read, its being handled and its being handled again.
THEOREM NeverToAClosedSession == Spec => []DispatchAttributed
<1>1. Init => AttributionInv
  BY DEF Init, DbInit, EngineInit, AttributionInv, DispatchAttributed
<1>2. TypeOK /\ LedgerInv /\ DecisionInv /\ AttributionInv /\ [Next]_vars
        => AttributionInv'
  <2> SUFFICES ASSUME TypeOK, LedgerInv, DecisionInv, AttributionInv, [Next]_vars
               PROVE  AttributionInv'
    OBVIOUS
  <2>1. CASE EngineNext
    BY <2>1, EngineAttribution
  <2>2. CASE ApiNext /\ UNCHANGED engineVars
    <3>1. UNCHANGED <<observations, session, current>> /\ SessionsGoOn
      BY <2>2, ApiObservations, ApiSessions DEF engineVars
    <3>2. DocksKept
      BY <3>1 DEF DocksKept
    <3> QED
      BY <2>2, <3>1, <3>2, ApiRows, AttributionFrame
  <2>3. ASSUME NEW t \in Tids, NEW passage \in Passages, InsertObservation(t, passage)
        PROVE  AttributionInv'
    <3>1. UNCHANGED <<sessions, movements, session, current>>
      BY <2>3 DEF InsertObservation, engineVars
    <3>2. SessionsGoOn /\ DocksKept
      BY <2>3, <3>1, InsertAppends DEF SessionsGoOn, DocksKept
    <3> QED
      BY <3>1, <3>2, AttributionFrame
  <2>4. CASE UNCHANGED vars
    <3>1. UNCHANGED <<sessions, movements, session, current, observations>>
      BY <2>4 DEF vars, dbVars, engineVars
    <3>2. SessionsGoOn /\ DocksKept
      BY <3>1 DEF SessionsGoOn, DocksKept
    <3> QED
      BY <3>1, <3>2, AttributionFrame
  <2> QED
    BY <2>1, <2>2, <2>3, <2>4 DEF Next
<1>3. AttributionInv => DispatchAttributed
  BY DEF AttributionInv
<1> QED
  BY <1>1, <1>2, <1>3, TypeCorrect, LedgerInvariant, DecisionInvariant, PTL
  DEF Spec

-----------------------------------------------------------------------------
(* In which order observations are taken up *)

\* Of the observations written before one that is in the queue, each has been
\* applied, is being handled, is in the queue too, or is held for its load.
QueueInOrder ==
  \A q \in queue : \A o \in Unprocessed :
    o < q => o \in queue \cup held \cup {current}

\* A poll takes the first of the unprocessed observations: whatever is before
\* one of them is among them.
LEMMA FetchInOrder ==
  ASSUME TypeOK, FetchObservations
  PROVE  QueueInOrder'
<1> DEFINE Before(o) == {u \in Unprocessed : u < o}
<1>1. UNCHANGED <<observations, held>>
      /\ queue' = {o \in Unprocessed : Cardinality(Before(o)) < FetchBatch}
  BY DEF FetchObservations, dbVars
<1>2. /\ Unprocessed \subseteq 1..Len(observations)
      /\ Len(observations) \in Nat
  BY DEF TypeOK, DbTypeOK, Unprocessed
<1>3. ASSUME NEW S, S \subseteq Unprocessed PROVE IsFiniteSet(S)
  <2>1. IsFiniteSet(1..Len(observations)) /\ S \subseteq 1..Len(observations)
    BY <1>2, <1>3, FS_Interval
  <2> QED
    BY <2>1, FS_Subset
<1> SUFFICES ASSUME NEW q \in queue', NEW o \in Unprocessed', o < q
             PROVE  o \in queue'
  BY DEF QueueInOrder
<1>4. q \in Unprocessed /\ o \in Unprocessed /\ Unprocessed' = Unprocessed
  BY <1>1 DEF Unprocessed
<1>5. Before(o) \subseteq Before(q) /\ IsFiniteSet(Before(q))
  <2>1. Before(q) \subseteq Unprocessed /\ Unprocessed \subseteq Nat
    BY <1>2
  <2>2. IsFiniteSet(Before(q))
    BY <1>3, <2>1
  <2>3. \A u \in Unprocessed : u < o => u < q
    <3>1. o \in Nat /\ q \in Nat /\ \A u \in Unprocessed : u \in Nat
      BY <1>4, <2>1
    <3> QED
      BY <3>1
  <2>4. Before(o) \subseteq Before(q)
    BY <2>3
  <2> QED
    BY <2>2, <2>4
<1> HIDE DEF Before
<1>6. /\ Cardinality(Before(o)) <= Cardinality(Before(q))
      /\ Cardinality(Before(o)) \in Nat /\ Cardinality(Before(q)) \in Nat
  BY <1>5, FS_Subset, FS_CardinalityType
<1>7. Cardinality(Before(q)) < FetchBatch
  BY <1>1
<1>8. Cardinality(Before(o)) < FetchBatch
  BY <1>6, <1>7, EngineAssumption
<1> QED
  BY <1>1, <1>4, <1>8

\* Every step keeps the queue in order.
LEMMA QueueStep ==
  ASSUME TypeOK, QueueInOrder, [Next]_vars
  PROVE  QueueInOrder'
<1>1. ASSUME UNCHANGED observations, queue' \subseteq queue,
             queue \cup held \cup {current} \subseteq
               queue' \cup held' \cup {current'}
      PROVE  QueueInOrder'
  BY <1>1 DEF QueueInOrder, Unprocessed
<1>2. CASE FetchObservations
  BY <1>2, FetchInOrder
<1>3. ASSUME NEW o \in queue, Hold(o) \/ Take(o)
      PROVE  QueueInOrder'
  <2>1. /\ UNCHANGED observations /\ queue' = queue \ {o}
        /\ o \in held' \cup {current'} /\ held \subseteq held' /\ current = 0
    BY <1>3 DEF Hold, Take, dbVars, TypeOK, EngineTypeOK
  <2>2. \A u \in Unprocessed : u # 0
    BY DEF Unprocessed, TypeOK, DbTypeOK
  <2> QED
    BY <2>1, <2>2 DEF QueueInOrder, Unprocessed
<1>4. ASSUME NEW o \in held, Settle(o)
      PROVE  QueueInOrder'
  BY <1>1, <1>4 DEF Settle, dbVars
<1>5. CASE Lock \/ ReadSession \/ ReadTree \/ DbError
  BY <1>1, <1>5 DEF Lock, ReadSession, ReadTree, DbError, Rollback, dbVars
<1>6. CASE Restart
  BY <1>6 DEF Restart, QueueInOrder
<1>7. CASE Finish
  <2>1. Commit
    BY <1>7, FinishCommits
  <2>2. Unprocessed' = Unprocessed \ {current}
    BY <2>1, CommitMarks DEF Unprocessed
  <2> QED
    BY <2>1, <2>2 DEF QueueInOrder, Commit
<1>8. CASE ApiNext /\ UNCHANGED engineVars
  BY <1>1, <1>8, ApiObservations DEF engineVars
<1>9. ASSUME NEW t \in Tids, NEW passage \in Passages, InsertObservation(t, passage)
      PROVE  QueueInOrder'
  <2>1. UNCHANGED <<queue, held, current>>
    BY <1>9 DEF InsertObservation, engineVars
  <2>2. /\ Unprocessed' = Unprocessed \cup {Len(observations) + 1}
        /\ queue \subseteq 1..Len(observations)
        /\ Len(observations) \in Nat
    BY <1>9, InsertAppends DEF Unprocessed, TypeOK, EngineTypeOK
  <2> QED
    BY <2>1, <2>2 DEF QueueInOrder
<1>10. CASE UNCHANGED vars
  BY <1>1, <1>10 DEF vars, dbVars, engineVars
<1> QED
  BY <1>2, <1>3, <1>4, <1>5, <1>6, <1>7, <1>8, <1>9, <1>10 DEF Next, EngineNext

\* No observation of a container overtakes another one through retries,
\* restarts and lost acknowledgements, except a pallet's that waits for its
\* load.
THEOREM AppliedInOrder == Spec => OvertakesOnlyHeld
<1>1. Init => QueueInOrder
  BY DEF Init, EngineInit, QueueInOrder
<1>2. TypeOK /\ QueueInOrder /\ [Next]_vars => QueueInOrder'
  BY QueueStep
<1> DEFINE InOrder == current' \notin {0, current} =>
                        \A o \in Unprocessed :
                          o < current' /\ observations[o].tid = observations[current'].tid
                            => o \in held
<1>3. TypeOK /\ QueueInOrder /\ [Next]_vars => [InOrder]_vars
  <2> SUFFICES ASSUME TypeOK, QueueInOrder, [Next]_vars, current' \notin {0, current},
                      NEW o \in Unprocessed, o < current'
               PROVE  o \in held
    OBVIOUS
  <2>1. PICK q \in queue : Take(q)
    <3>1. ~(ApiNext /\ UNCHANGED engineVars) /\ ~UNCHANGED vars
      BY DEF vars, engineVars
    <3>2. ~ \E t \in Tids, passage \in Passages : InsertObservation(t, passage)
      BY DEF InsertObservation, engineVars
    <3>3. ~Finish
      BY FinishCommits DEF Commit
    <3> QED
      BY <3>1, <3>2, <3>3 DEF Next, EngineNext, FetchObservations, Hold, Settle,
         Lock, ReadSession, ReadTree, DbError, Restart
  <2>2. /\ current' = q /\ current = 0 /\ queue \subseteq Nat
        /\ \A u \in queue : q <= u
        /\ o \in Nat /\ o # 0
    BY <2>1 DEF Take, IsFirst, TypeOK, EngineTypeOK, DbTypeOK, Unprocessed
  <2>3. o \notin queue
    BY <2>2
  <2> QED
    BY <2>2, <2>3 DEF QueueInOrder
<1> QED
  BY <1>1, <1>2, <1>3, TypeCorrect, PTL DEF Spec, OvertakesOnlyHeld

-----------------------------------------------------------------------------
(* Once, and all of it *)

\* No observation has caused anything in the tables as long as it is not
\* marked; without a lost acknowledgement what is fetched is not marked, and
\* what is being handled is not fetched, so that nothing is handled twice.
OnceInv ==
  /\ AppliedOnce
  /\ \A a \in DOMAIN anomalies : anomalies[a].obs \in DOMAIN observations
  /\ \A t \in Tids : \A i \in DOMAIN movements[t] :
       movements[t][i].source = "MANUAL" => movements[t][i].obs = 0
  /\ lostAcks = 0 =>
       /\ queue \subseteq Unprocessed
       /\ current # 0 => current \in Unprocessed /\ current \notin queue

\* What the tables say of an observation.
CausedNothing(o) ==
  /\ \A a \in DOMAIN anomalies : anomalies[a].obs # o
  /\ \A t \in Tids : \A i \in DOMAIN movements[t] : movements[t][i].obs # o

AnomalyOnce ==
  \A a1, a2 \in DOMAIN anomalies :
    a1 # a2 => anomalies[a1].obs # anomalies[a2].obs

\* Where a row says it comes from: an observation there is, or a person.
LEMMA RowCause ==
  ASSUME TypeOK, LedgerInv, OnceInv, NEW t \in Tids, NEW i \in DOMAIN movements[t]
  PROVE  \/ movements[t][i].source = "MANUAL" /\ movements[t][i].obs = 0
         \/ /\ movements[t][i].source = "PORTAL"
            /\ movements[t][i].obs \in DOMAIN observations
<1>1. movements[t][i] \in Movement
  BY ElementOf DEF TypeOK, DbTypeOK
<1> QED
  BY <1>1 DEF Movement, LedgerInv, PortalRowsHaveCause, IsManual, OnceInv

\* Rows by hand are added below the others, and an anomaly changes hands.
LEMMA OnceByHand ==
  ASSUME TypeOK, LedgerInv, OnceInv,
         UNCHANGED <<observations, lostAcks, queue, current>>,
         DOMAIN anomalies' = DOMAIN anomalies,
         \A a \in DOMAIN anomalies : anomalies'[a].obs = anomalies[a].obs,
         \A t \in Tids :
           \/ movements'[t] = movements[t]
           \/ \E m \in Movement : AddsRow(t, m) /\ m.source = "MANUAL" /\ m.obs = 0
  PROVE  OnceInv'
<1>1. ASSUME NEW t \in Tids, NEW i \in DOMAIN movements'[t]
      PROVE  \/ i \in DOMAIN movements[t] /\ movements'[t][i] = movements[t][i]
             \/ movements'[t][i].source = "MANUAL" /\ movements'[t][i].obs = 0
  BY RowsOf
<1>2. 0 \notin DOMAIN observations
  BY DEF TypeOK, DbTypeOK
<1>3. ASSUME NEW o \in DOMAIN observations, CausedNothing(o)
      PROVE  CausedNothing(o)'
  BY <1>1, <1>2, <1>3 DEF CausedNothing
<1>4. ASSUME MovedOnce PROVE MovedOnce'
  <2> SUFFICES ASSUME NEW t \in Tids, NEW i \in DOMAIN movements'[t],
                      NEW j \in DOMAIN movements'[t], i # j,
                      movements'[t][i].source = "PORTAL"
               PROVE  movements'[t][i].obs # movements'[t][j].obs
    BY DEF MovedOnce
  <2>1. i \in DOMAIN movements[t] /\ movements'[t][i] = movements[t][i]
    BY <1>1
  <2>2. movements'[t][i].obs \in DOMAIN observations
    BY <2>1, RowCause
  <2> QED
    BY <1>1, <1>2, <1>4, <2>1, <2>2 DEF MovedOnce
<1>5. AppliedOnce'
  <2>1. ASSUME NEW o \in DOMAIN observations, ~observations[o].processed
        PROVE  CausedNothing(o)'
    BY <1>3, <2>1 DEF OnceInv, AppliedOnce, CausedNothing
  <2> QED
    BY <1>4, <2>1 DEF OnceInv, AppliedOnce, CausedNothing
<1>6. \A t \in Tids : \A i \in DOMAIN movements'[t] :
        movements'[t][i].source = "MANUAL" => movements'[t][i].obs = 0
  BY <1>1 DEF OnceInv
<1> QED
  BY <1>5, <1>6 DEF OnceInv, Unprocessed

\* A step that changes no table keeps it, if it takes up nothing that is marked.
LEMMA OnceFrame ==
  ASSUME OnceInv, UNCHANGED <<observations, movements, anomalies, lostAcks>>,
         lostAcks = 0 =>
           /\ queue' \subseteq Unprocessed
           /\ current' # 0 => current' \in Unprocessed /\ current' \notin queue'
  PROVE  OnceInv'
  BY DEF OnceInv, AppliedOnce, MovedOnce, Unprocessed

\* The engine's reads take up what is unprocessed.
LEMMA OnceReads ==
  ASSUME TypeOK, OnceInv, EngineNext, ~Finish
  PROVE  OnceInv'
<1>1. UNCHANGED <<observations, movements, anomalies>>
  BY ReadsWriteNothing
<1>2. UNCHANGED lostAcks
  BY DEF EngineNext, FetchObservations, Hold, Take, Settle, Lock, ReadSession,
     ReadTree, DbError, Restart
<1> SUFFICES ASSUME lostAcks = 0
             PROVE  /\ queue' \subseteq Unprocessed
                    /\ current' # 0 =>
                         current' \in Unprocessed /\ current' \notin queue'
  BY <1>1, <1>2, OnceFrame
<1>3. /\ queue \subseteq Unprocessed
      /\ current # 0 => current \in Unprocessed /\ current \notin queue
  BY DEF OnceInv
<1>4. CASE FetchObservations
  BY <1>4 DEF FetchObservations, TypeOK, EngineTypeOK
<1>5. ASSUME NEW o \in queue, Hold(o) \/ Take(o)
      PROVE  /\ queue' \subseteq Unprocessed
             /\ current' # 0 => current' \in Unprocessed /\ current' \notin queue'
  BY <1>3, <1>5 DEF Hold, Take
<1>6. ASSUME NEW o \in held, Settle(o)
      PROVE  UNCHANGED <<queue, current>>
  BY <1>6 DEF Settle
<1>7. CASE Lock \/ ReadSession \/ ReadTree \/ DbError
  BY <1>3, <1>7 DEF Lock, ReadSession, ReadTree, DbError
<1>8. CASE Restart
  BY <1>8 DEF Restart
<1> QED
  BY <1>3, <1>4, <1>5, <1>6, <1>7, <1>8 DEF EngineNext

\* handle() raises one anomaly, or none.
LEMMA FinishAnomalies ==
  ASSUME TypeOK, Finish
  PROVE  \/ anomalies' = anomalies
         \/ /\ DOMAIN anomalies' = DOMAIN anomalies \cup {Len(anomalies) + 1}
            /\ \A a \in DOMAIN anomalies : anomalies'[a] = anomalies[a]
            /\ anomalies'[Len(anomalies) + 1].obs = current
<1>1. anomalies \in Seq(Anomaly)
  BY DEF TypeOK, DbTypeOK
<1>2. ASSUME NEW kind, anomalies' = Raise(kind)
      PROVE  /\ DOMAIN anomalies' = DOMAIN anomalies \cup {Len(anomalies) + 1}
             /\ \A a \in DOMAIN anomalies : anomalies'[a] = anomalies[a]
             /\ anomalies'[Len(anomalies) + 1].obs = current
  <2> DEFINE row == [tid |-> Root, kind |-> kind, obs |-> current,
                     resolvedBy |-> None]
  <2>1. anomalies' = Append(anomalies, row) /\ row.obs = current
    BY <1>2 DEF Raise
  <2> HIDE DEF row
  <2> QED
    BY <1>1, <2>1
<1> QED
  BY <1>2 DEF Finish, FinishAnomaly, FinishNoOp, FinishReturn, FinishMove

\* The writes of handle() are the first effects of the current observation, and
\* become visible with its mark; unless it had been marked already, by a commit
\* whose acknowledgement was lost.
LEMMA OnceFinish ==
  ASSUME TypeOK, LedgerInv, OnceInv, Finish
  PROVE  OnceInv'
<1>1. /\ Commit /\ pc # "idle"
      /\ current \in DOMAIN observations
      /\ DOMAIN observations' = DOMAIN observations
      /\ Unprocessed' = Unprocessed \ {current}
  BY FinishCommits, CommitMarks DEF Unprocessed
<1>2. ASSUME NEW t \in Tids, NEW i \in DOMAIN movements'[t]
      PROVE  \/ i \in DOMAIN movements[t] /\ movements'[t][i] = movements[t][i]
             \/ /\ i = Len(movements[t]) + 1 /\ i \notin DOMAIN movements[t]
                /\ movements'[t][i].source = "PORTAL"
                /\ movements'[t][i].obs = current
  <2>1. CASE movements'[t] = movements[t]
    BY <2>1
  <2>2. CASE AddsRow(t, Written(t)) /\ Written(t) \in Movement
    <3>1. Written(t).source = "PORTAL" /\ Written(t).obs = current
      BY DEF Written
    <3> QED
      BY <2>2, <3>1, RowsOf
  <2> QED
    BY <2>1, <2>2, FinishRows
<1>3. ASSUME NEW a \in DOMAIN anomalies'
      PROVE  \/ a \in DOMAIN anomalies /\ anomalies'[a] = anomalies[a]
             \/ /\ a = Len(anomalies) + 1 /\ a \notin DOMAIN anomalies
                /\ anomalies'[a].obs = current
  <2>1. Len(anomalies) + 1 \notin DOMAIN anomalies
    BY DEF TypeOK, DbTypeOK
  <2> QED
    BY <2>1, FinishAnomalies
<1>4. ASSUME NEW o \in Unprocessed'
      PROVE  CausedNothing(o)'
  <2>1. CausedNothing(o) /\ o # current
    BY <1>1 DEF OnceInv, AppliedOnce, CausedNothing, Unprocessed
  <2> QED
    BY <1>2, <1>3, <2>1 DEF CausedNothing
<1>5. ASSUME lostAcks' = 0
      PROVE  /\ lostAcks = 0 /\ current' = 0 /\ queue' = queue
             /\ CausedNothing(current)
  <2>1. lostAcks = 0 /\ current' = 0 /\ queue' = queue
    BY <1>1, <1>5 DEF Commit, TypeOK, EngineTypeOK
  <2>2. current \in Unprocessed
    BY <1>1, <2>1 DEF OnceInv, TypeOK, EngineTypeOK
  <2> QED
    BY <2>1, <2>2 DEF OnceInv, AppliedOnce, CausedNothing, Unprocessed
<1>6. ASSUME lostAcks' = 0 PROVE MovedOnce' /\ AnomalyOnce'
  <2>1. MovedOnce /\ AnomalyOnce /\ CausedNothing(current)
    BY <1>5, <1>6 DEF OnceInv, AppliedOnce, AnomalyOnce
  <2>2. MovedOnce'
    <3> SUFFICES ASSUME NEW t \in Tids, NEW i \in DOMAIN movements'[t],
                        NEW j \in DOMAIN movements'[t], i # j,
                        movements'[t][i].source = "PORTAL"
                 PROVE  movements'[t][i].obs # movements'[t][j].obs
      BY DEF MovedOnce
    <3> QED
      BY <1>2, <2>1 DEF MovedOnce, CausedNothing
  <2>3. AnomalyOnce'
    BY <1>3, <2>1 DEF AnomalyOnce, CausedNothing
  <2> QED
    BY <2>2, <2>3
<1>7. AppliedOnce'
  BY <1>4, <1>6 DEF AppliedOnce, AnomalyOnce, CausedNothing, Unprocessed
<1>8. \A a \in DOMAIN anomalies' : anomalies'[a].obs \in DOMAIN observations'
  BY <1>1, <1>3 DEF OnceInv
<1>9. \A t \in Tids : \A i \in DOMAIN movements'[t] :
        movements'[t][i].source = "MANUAL" => movements'[t][i].obs = 0
  BY <1>2 DEF OnceInv
<1>10. lostAcks' = 0 =>
         /\ queue' \subseteq Unprocessed'
         /\ current' # 0 => current' \in Unprocessed' /\ current' \notin queue'
  BY <1>1, <1>5 DEF OnceInv, TypeOK, EngineTypeOK
<1> QED
  BY <1>7, <1>8, <1>9, <1>10 DEF OnceInv

\* A new observation has caused nothing.
LEMMA OnceInsert ==
  ASSUME TypeOK, LedgerInv, OnceInv, NEW t \in Tids, NEW passage \in Passages,
         InsertObservation(t, passage)
  PROVE  OnceInv'
<1> DEFINE new == Len(observations) + 1
<1>1. /\ UNCHANGED <<movements, anomalies, lostAcks, queue, current>>
      /\ DOMAIN observations' = DOMAIN observations \cup {new}
      /\ \A o \in DOMAIN observations : observations'[o] = observations[o]
      /\ new \notin DOMAIN observations /\ new # 0
  BY InsertAppends DEF InsertObservation, engineVars
<1> HIDE DEF new
<1>2. CausedNothing(new)
  BY <1>1, RowCause DEF CausedNothing, OnceInv
<1>3. Unprocessed \subseteq Unprocessed'
  BY <1>1 DEF Unprocessed
<1>4. \A o \in DOMAIN observations' : ~observations'[o].processed => CausedNothing(o)
  BY <1>1, <1>2 DEF OnceInv, AppliedOnce, CausedNothing
<1>5. AppliedOnce'
  BY <1>1, <1>4 DEF OnceInv, AppliedOnce, MovedOnce, CausedNothing
<1> QED
  BY <1>1, <1>3, <1>5 DEF OnceInv

\* The requests of the API keep what caused an anomaly.
LEMMA ApiAnomalies ==
  ASSUME TypeOK, ApiNext
  PROVE  /\ DOMAIN anomalies' = DOMAIN anomalies
         /\ \A a \in DOMAIN anomalies : anomalies'[a].obs = anomalies[a].obs
<1>1. anomalies \in Seq(Anomaly) /\ \A r \in resolving : r.anomaly \in DOMAIN anomalies
  BY DEF TypeOK, DbTypeOK, ApiTypeOK, Resolution
<1>2. ASSUME NEW r \in resolving, MarkResolved(r)
      PROVE  /\ DOMAIN anomalies' = DOMAIN anomalies
             /\ \A a \in DOMAIN anomalies : anomalies'[a].obs = anomalies[a].obs
  <2>1. \A a \in DOMAIN anomalies : anomalies[a] \in Anomaly
    BY <1>1, ElementOf
  <2> QED
    BY <1>1, <1>2, <2>1 DEF MarkResolved, Anomaly
<1>3. ASSUME NEW r \in resolving,
             Resolve(r) \/ ResolveCorrecting(r) \/ ResolveRefused(r)
      PROVE  /\ DOMAIN anomalies' = DOMAIN anomalies
             /\ \A a \in DOMAIN anomalies : anomalies'[a].obs = anomalies[a].obs
  BY <1>2, <1>3 DEF Resolve, ResolveCorrecting, ResolveRefused, dbVars
<1>4. CASE UNCHANGED anomalies
  BY <1>4
<1> QED
  BY <1>3, <1>4 DEF ApiNext, Register, AttachCheck, AttachWrite, CorrectContainer,
     OpenSession, CommitOpenSession, CloseSession, ResolveCheck, dbVars

\* An observation has all its effects at one moment, that of its mark, and has
\* them once unless an acknowledgement is lost: for every number of failing
\* statements and restarts, and whatever is asked of the API meanwhile.
THEOREM EffectsOnce == Spec => []AppliedOnce
<1>1. Init => OnceInv
  BY DEF Init, DbInit, EngineInit, OnceInv, AppliedOnce, MovedOnce
<1>2. TypeOK /\ LedgerInv /\ OnceInv /\ [Next]_vars => OnceInv'
  <2> SUFFICES ASSUME TypeOK, LedgerInv, OnceInv, [Next]_vars PROVE OnceInv'
    OBVIOUS
  <2>1. CASE EngineNext
    BY <2>1, OnceReads, OnceFinish
  <2>2. CASE ApiNext /\ UNCHANGED engineVars
    BY <2>2, ApiObservations, ApiAnomalies, ApiRows, OnceByHand DEF engineVars
  <2>3. CASE \E t \in Tids, passage \in Passages : InsertObservation(t, passage)
    BY <2>3, OnceInsert
  <2>4. CASE UNCHANGED vars
    BY <2>4, OnceByHand DEF vars, dbVars, engineVars
  <2> QED
    BY <2>1, <2>2, <2>3, <2>4 DEF Next
<1>3. OnceInv => AppliedOnce
  BY DEF OnceInv
<1> QED
  BY <1>1, <1>2, <1>3, TypeCorrect, LedgerInvariant, PTL DEF Spec

-----------------------------------------------------------------------------
(* What moves with a pallet *)

\* From the moment the tree has been read until handle() commits, everything
\* that is directly on the pallet has been read: the lock on the pallet's row
\* keeps new boxes off it.
ChildrenRead ==
  pc = "finish" /\ decision.to # None /\ ~decision.detach
    => \A c \in Children(Root) : tree[c] # None

\* Nothing is put on a container whose row is locked.
LEMMA NothingAdded ==
  ASSUME TypeOK, ApiNext, locked \in Tids
  PROVE  \A c \in registered' :
           parent'[c] = locked => c \in registered /\ parent[c] = locked
<1>1. parent \in [Tids -> Tids \cup {NoTid}] /\ registered \subseteq Tids
      /\ locked # NoTid
  BY TidsAssumption DEF TypeOK, DbTypeOK
<1>2. ASSUME NEW t \in Tids, NEW p \in Tids \cup {NoTid}, Register(t, p)
      PROVE  \A c \in registered' :
               parent'[c] = locked => c \in registered /\ parent[c] = locked
  BY <1>1, <1>2 DEF Register
<1>3. ASSUME NEW load \in attaching, AttachWrite(load)
      PROVE  \A c \in registered' :
               parent'[c] = locked => c \in registered /\ parent[c] = locked
  BY <1>1, <1>3 DEF AttachWrite
<1>4. CASE UNCHANGED <<registered, parent>>
  BY <1>4
<1> QED
  BY <1>2, <1>3, <1>4 DEF ApiNext, AttachCheck, CorrectContainer,
     OpenSession, CommitOpenSession, CloseSession, ResolveCheck, Resolve,
     ResolveCorrecting, ResolveRefused, MarkResolved, dbVars

\* Every step keeps what has been read of the pallet's boxes.
LEMMA ChildrenReadStep ==
  ASSUME TypeOK, LedgerInv, DecisionInv, ChildrenRead, [Next]_vars
  PROVE  ChildrenRead'
<1> USE DEF ChildrenRead
<1>1. ASSUME NEW o \in queue, Hold(o) \/ Take(o)
      PROVE  ChildrenRead'
  BY <1>1 DEF Hold, Take
<1>2. CASE FetchObservations \/ \E o \in held : Settle(o)
  BY <1>2 DEF FetchObservations, Settle, dbVars, Children, Root
<1>3. CASE Lock
  BY <1>3 DEF Lock, PhaseAfter
<1>4. CASE ReadSession
  BY <1>4 DEF ReadSession, Flag
<1>5. CASE ReadTree
  <2>1. UNCHANGED <<registered, parent, observations, status, current, decision>>
        /\ tree' = [t \in Tids |-> IF t \in Tree(Root) THEN status[t] ELSE None]
    BY <1>5 DEF ReadTree, dbVars
  <2>2. /\ registered \subseteq Tids /\ status \in [Tids -> Status]
        /\ decision.to # None => Root \in registered
    BY DEF TypeOK, DbTypeOK, EngineTypeOK
  <2>3. decision.to # None => Children(Root) \subseteq Tree(Root)
    BY <2>2 DEF Children, Tree
  <2>4. \A c \in Children(Root) : decision.to # None => tree'[c] # None
    BY <2>1, <2>2, <2>3 DEF Children, Status, None
  <2> QED
    BY <2>1, <2>4 DEF Children, Root
<1>6. CASE Finish
  BY <1>6, FinishCommits DEF Commit
<1>7. CASE DbError \/ Restart
  BY <1>7 DEF DbError, Restart
<1>8. CASE ApiNext /\ UNCHANGED engineVars
  <2>1. UNCHANGED <<observations, pc, decision, tree, current>> /\ Root' = Root
    BY <1>8, ApiObservations DEF engineVars, Root
  <2>2. decision.to # None => locked = Root /\ Root \in Tids
    BY DEF LedgerInv, RootHeld, TypeOK, EngineTypeOK, DbTypeOK
  <2>3. decision.to # None =>
          \A c \in registered' :
            parent'[c] = Root => c \in registered /\ parent[c] = Root
    BY <1>8, <2>2, NothingAdded
  <2> QED
    BY <2>1, <2>3 DEF Children
<1>9. ASSUME NEW t \in Tids, NEW passage \in Passages, InsertObservation(t, passage)
      PROVE  ChildrenRead'
  <2>1. UNCHANGED <<pc, decision, tree, current, registered, parent>>
    BY <1>9 DEF InsertObservation, engineVars
  <2>2. pc = "finish" => Root' = Root
    BY <1>9, <2>1, InsertAppends, CurrentRow DEF Root
  <2> QED
    BY <2>1, <2>2 DEF Children
<1>10. CASE UNCHANGED vars
  BY <1>10 DEF vars, dbVars, engineVars, Children, Root
<1> QED
  BY <1>1, <1>2, <1>3, <1>4, <1>5, <1>6, <1>7, <1>8, <1>9, <1>10
  DEF Next, EngineNext

\* What is on a pallet moves with it, unless a person has set its status since.
LEMMA PalletMoves ==
  ASSUME TypeOK, LedgerInv, ChildrenRead, FinishMove, NEW c \in Children(Root)
  PROVE  status'[c] = decision.to \/ Len(movements[c]) \in ManualRows(c)
<1>1. /\ pc = "finish" /\ decision.to # None /\ ~decision.detach
      /\ status' = [t \in Tids |-> IF t \in ToMove THEN decision.to ELSE status[t]]
  BY DEF FinishMove, Commit
<1>2. c \in Tids /\ tree[c] # None
  BY <1>1 DEF ChildrenRead, Children, TypeOK, DbTypeOK
<1>3. CASE c \in ToMove
  BY <1>1, <1>2, <1>3
<1>4. CASE c \notin ToMove /\ tree[c] = status[c]
  BY <1>1, <1>2, <1>4 DEF ToMove
<1>5. CASE tree[c] # status[c]
  <2>1. movements[c] # <<>> /\ IsManual(LastMovement(c))
    BY <1>2, <1>5 DEF LedgerInv, OverruledByHand
  <2>2. movements[c] \in Seq(Movement)
    BY <1>2 DEF TypeOK, DbTypeOK
  <2>3. Len(movements[c]) \in DOMAIN movements[c]
    BY <2>1, <2>2
  <2> QED
    BY <2>1, <2>3 DEF ManualRows, LastMovement
<1> QED
  BY <1>3, <1>4, <1>5

\* A pallet that moves takes everything that is on it along, for every number
\* of boxes and whatever is attached, detached and corrected in the meantime.
THEOREM NothingLeftBehind == Spec => PalletMovesWhole
<1> DEFINE Whole(p) ==
      LET m == movements'[p][Len(movements'[p])]
      IN  /\ Len(movements'[p]) > Len(movements[p])
          /\ m.source = "PORTAL" /\ observations[m.obs].tid = p
          /\ parent' = parent
          => \A c \in Children(p) :
               \/ status'[c] = m.to
               \/ Len(movements[c]) \in ManualRows(c)
<1>1. Init => ChildrenRead
  BY DEF Init, EngineInit, ChildrenRead
<1>2. TypeOK /\ LedgerInv /\ DecisionInv /\ ChildrenRead /\ [Next]_vars
        => ChildrenRead'
  BY ChildrenReadStep
<1>3. TypeOK /\ LedgerInv /\ ChildrenRead /\ [Next]_vars
        => [\A p \in Tids : Whole(p)]_vars
  <2> SUFFICES ASSUME TypeOK, LedgerInv, ChildrenRead, [Next]_vars, NEW p \in Tids
               PROVE  Whole(p)
    OBVIOUS
  <2>1. movements[p] \in Seq(Movement)
    BY DEF TypeOK, DbTypeOK
  <2>2. CASE movements'[p] = movements[p]
    BY <2>1, <2>2
  <2>3. CASE \E m \in Movement : AddsRow(p, m) /\ m.source = "MANUAL" /\ m.obs = 0
    <3>1. PICK m \in Movement : AddsRow(p, m) /\ m.source = "MANUAL"
      BY <2>3
    <3>2. movements'[p][Len(movements'[p])] = m
      BY <3>1, RowsOf
    <3> QED
      BY <3>1, <3>2
  <2>4. CASE Finish /\ AddsRow(p, Written(p)) /\ Written(p) \in Movement
    <3>1. movements'[p][Len(movements'[p])] = Written(p)
      BY <2>4, RowsOf
    <3>2. Written(p).obs = current /\ Written(p).to = decision.to
      BY DEF Written
    <3> SUFFICES ASSUME p = Root, parent' = parent, NEW c \in Children(p)
                 PROVE  \/ status'[c] = decision.to
                        \/ Len(movements[c]) \in ManualRows(c)
      BY <3>1, <3>2 DEF Root
    <3>3. CASE FinishMove
      BY <3>3, PalletMoves
    <3>4. CASE FinishReturn
      <4>1. c \in Tids /\ parent[c] = Root /\ Root # NoTid
        BY TidsAssumption DEF Children, TypeOK, DbTypeOK
      <4> QED
        BY <3>4, <4>1 DEF FinishReturn
    <3>5. CASE FinishAnomaly \/ FinishNoOp
      <4>1. movements' = movements
        BY <3>5 DEF FinishAnomaly, FinishNoOp
      <4> QED
        BY <2>1, <2>4, <4>1, RowsOf
    <3> QED
      BY <2>4, <3>3, <3>4, <3>5 DEF Finish
  <2>5. CASE Finish
    BY <2>2, <2>4, <2>5, FinishRows
  <2>6. CASE ApiNext
    BY <2>2, <2>3, <2>6, ApiRows
  <2>7. CASE ~Finish /\ ~ApiNext
    BY <2>2, <2>7, OthersCustody DEF Next
  <2> QED
    BY <2>5, <2>6, <2>7
<1> QED
  BY <1>1, <1>2, <1>3, TypeCorrect, LedgerInvariant, DecisionInvariant, PTL
  DEF Spec, PalletMovesWhole

-----------------------------------------------------------------------------
(* Resolving an anomaly with a correction *)

\* A correction is made together with the mark on the anomaly, or neither is.
THEOREM ResolvedWithItsCorrection == Spec => CorrectionNotApart
<1> DEFINE Together(r) ==
      r.to # None /\ r \notin resolving' =>
        LET t == anomalies[r.anomaly].tid
        IN  IF Len(movements'[t]) > Len(movements[t])
            THEN status'[t] = r.to
                 /\ anomalies'[r.anomaly].resolvedBy = r.operator
            ELSE anomalies' = anomalies
<1>1. TypeOK /\ [Next]_vars => [\A r \in resolving : Together(r)]_vars
  <2> SUFFICES ASSUME TypeOK, [Next]_vars, NEW r \in resolving, r.to # None,
                      r \notin resolving'
               PROVE  Together(r)
    OBVIOUS
  <2> DEFINE t == anomalies[r.anomaly].tid
  <2>1. /\ r.anomaly \in DOMAIN anomalies /\ r.to \in Status
        /\ anomalies[r.anomaly] \in Anomaly
    BY ElementOf DEF TypeOK, ApiTypeOK, Resolution, DbTypeOK
  <2>2. /\ t \in Tids /\ movements[t] \in Seq(Movement) /\ status \in [Tids -> Status]
        /\ movements \in [Tids -> Seq(Movement)]
        /\ anomalies \in Seq(Anomaly)
    BY <2>1 DEF Anomaly, TypeOK, DbTypeOK
  <2>3. PICK q \in resolving : Resolve(q) \/ ResolveCorrecting(q) \/ ResolveRefused(q)
    BY DEF Next, EngineNext, vars, apiVars, ApiNext, Register, AttachCheck,
       AttachWrite, CorrectContainer, OpenSession, CommitOpenSession,
       CloseSession, ResolveCheck, InsertObservation
  <2>4. q = r
    BY <2>3 DEF Resolve, ResolveCorrecting, ResolveRefused, MarkResolved
  <2>5. CASE ResolveCorrecting(r)
    <3> DEFINE m == [from |-> status[t], to |-> r.to, source |-> "MANUAL",
                     session |-> 0, obs |-> 0]
    <3>1. status' = [status EXCEPT ![t] = r.to]
          /\ movements' = [movements EXCEPT ![t] = Append(@, m)]
      BY <2>5 DEF ResolveCorrecting, ApplyManualCorrection
    <3>2. m \in Movement
      BY <2>1, <2>2 DEF Movement
    <3>3. Len(movements'[t]) > Len(movements[t])
      <4> HIDE DEF m, t
      <4>1. movements'[t] = Append(movements[t], m)
        BY <2>2, <3>1
      <4> QED
        BY <2>2, <3>2, <4>1
    <3>4. status'[t] = r.to
      BY <2>2, <3>1
    <3>5. anomalies'[r.anomaly].resolvedBy = r.operator
      BY <2>1, <2>2, <2>5 DEF ResolveCorrecting, MarkResolved, Anomaly
    <3> QED
      BY <3>3, <3>4, <3>5
  <2>6. CASE ResolveRefused(r)
    BY <2>2, <2>6 DEF ResolveRefused, dbVars
  <2> QED
    BY <2>3, <2>4, <2>5, <2>6 DEF Resolve
<1> QED
  BY <1>1, TypeCorrect, PTL DEF Spec, CorrectionNotApart

-----------------------------------------------------------------------------
(* What the reports account for *)

\* The rows by which t left, and those by which it came back.
Outs(t) == {i \in DOMAIN movements[t] : movements[t][i].to = "DISPATCHED"}

Backs(t) ==
  {i \in DOMAIN movements[t] :
     movements[t][i].from = "DISPATCHED" /\ movements[t][i].to # "DISPATCHED"}

\* By its rows, a container that no person has corrected is out or it is not.
Balanced(t) ==
  Cardinality(Outs(t)) = Cardinality(Backs(t))
                         + (IF status[t] = "DISPATCHED" THEN 1 ELSE 0)

BalanceInv == \A t \in Tids : ManualRows(t) = {} => Balanced(t)

\* A ledger has finitely many rows.
LEMMA RowsAreFinite ==
  ASSUME TypeOK, NEW t \in Tids
  PROVE  /\ IsFiniteSet(Outs(t)) /\ IsFiniteSet(Backs(t))
         /\ Cardinality(Outs(t)) \in Nat /\ Cardinality(Backs(t)) \in Nat
<1>1. movements[t] \in Seq(Movement)
  BY DEF TypeOK, DbTypeOK
<1>2. IsFiniteSet(DOMAIN movements[t])
  <2>1. DOMAIN movements[t] = 1..Len(movements[t]) /\ Len(movements[t]) \in Int
    BY <1>1
  <2> QED
    BY <2>1, FS_Interval
<1>3. Outs(t) \subseteq DOMAIN movements[t] /\ Backs(t) \subseteq DOMAIN movements[t]
  BY DEF Outs, Backs
<1>4. IsFiniteSet(Outs(t)) /\ IsFiniteSet(Backs(t))
  BY <1>2, <1>3, FS_Subset
<1> QED
  BY <1>4, FS_CardinalityType

\* The row that handle() writes of a container nobody has corrected starts where
\* the container is, and ends elsewhere.
LEMMA WrittenFromStatus ==
  ASSUME TypeOK, LedgerInv, Finish, NEW t \in Tids, ManualRows(t) = {},
         movements'[t] # movements[t]
  PROVE  tree[t] = status[t] /\ decision.to # status[t]
<1>1. movements[t] \in Seq(Movement) /\ movements \in [Tids -> Seq(Movement)]
  BY DEF TypeOK, DbTypeOK
<1>2. tree[t] \in {None, status[t]}
  <2> SUFFICES ASSUME movements[t] # <<>>, IsManual(LastMovement(t)) PROVE FALSE
    BY DEF LedgerInv, OverruledByHand
  <2>1. Len(movements[t]) \in DOMAIN movements[t]
    BY <1>1
  <2> QED
    BY <2>1 DEF ManualRows, LastMovement
<1>3. CASE FinishAnomaly \/ FinishNoOp
  BY <1>3 DEF FinishAnomaly, FinishNoOp
<1>4. CASE FinishReturn
  <2>1. t = Root
    BY <1>1, <1>4 DEF FinishReturn
  <2>2. pc = "finish" /\ decision.to # None
    BY <1>4, FinishCommits DEF FinishReturn, TypeOK, EngineTypeOK
  <2> QED
    BY <2>1, <2>2 DEF LedgerInv, RootHeld
<1>5. CASE FinishMove
  <2>1. t \in ToMove
    BY <1>5 DEF FinishMove
  <2> QED
    BY <1>2, <2>1 DEF ToMove
<1> QED
  BY <1>3, <1>4, <1>5 DEF Finish

\* A row that starts where the container is and ends elsewhere keeps the balance.
LEMMA RowBalances ==
  ASSUME TypeOK, NEW t \in Tids, NEW m \in Movement, AddsRow(t, m),
         m.from = status[t], m.to # status[t], status'[t] = m.to, Balanced(t)
  PROVE  Balanced(t)'
<1> DEFINE n == Len(movements[t]) + 1
<1>1. /\ DOMAIN movements'[t] = DOMAIN movements[t] \cup {n}
      /\ n \notin DOMAIN movements[t]
      /\ \A i \in DOMAIN movements[t] : movements'[t][i] = movements[t][i]
      /\ movements'[t][n] = m
  BY RowsOf
<1> HIDE DEF n
<1>2. n \notin Outs(t) /\ n \notin Backs(t)
  BY <1>1 DEF Outs, Backs
<1>3. Outs(t)' = IF m.to = "DISPATCHED" THEN Outs(t) \cup {n} ELSE Outs(t)
  BY <1>1 DEF Outs
<1>4. Backs(t)' = IF m.from = "DISPATCHED" THEN Backs(t) \cup {n} ELSE Backs(t)
  BY <1>1 DEF Backs
<1>5. Cardinality(Outs(t) \cup {n}) = Cardinality(Outs(t)) + 1
  BY <1>2, RowsAreFinite, FS_AddElement
<1>6. Cardinality(Backs(t) \cup {n}) = Cardinality(Backs(t)) + 1
  BY <1>2, RowsAreFinite, FS_AddElement
<1>7. Cardinality(Outs(t)) \in Nat /\ Cardinality(Backs(t)) \in Nat
  BY RowsAreFinite
<1> QED
  BY <1>3, <1>4, <1>5, <1>6, <1>7 DEF Balanced

\* Every step keeps the balance, or is a person's correction.
LEMMA BalanceStep ==
  ASSUME TypeOK, LedgerInv, LedgerInv', BalanceInv, [Next]_vars
  PROVE  BalanceInv'
<1> SUFFICES ASSUME NEW t \in Tids, ManualRows(t)' = {} PROVE Balanced(t)'
  BY DEF BalanceInv
<1>1. movements[t] \in Seq(Movement)
  BY DEF TypeOK, DbTypeOK
<1>2. CASE movements'[t] = movements[t]
  <2>1. status'[t] = status[t]
    BY <1>2 DEF LedgerInv, LedgerEndsAtStatus, LastMovement
  <2>2. ManualRows(t) = {}
    BY <1>2 DEF ManualRows
  <2> QED
    BY <1>2, <2>1, <2>2 DEF BalanceInv, Balanced, Outs, Backs
<1>3. ASSUME NEW m \in Movement, AddsRow(t, m)
      PROVE  /\ ManualRows(t) = {} /\ m.source # "MANUAL"
             /\ status'[t] = m.to
  <2>1. /\ \A i \in DOMAIN movements[t] :
             i \in DOMAIN movements'[t] /\ movements'[t][i] = movements[t][i]
        /\ Len(movements'[t]) \in DOMAIN movements'[t]
        /\ movements'[t][Len(movements'[t])] = m
    BY <1>3, RowsOf
  <2>2. movements'[t] # <<>>
    BY <2>1
  <2>3. status'[t] = m.to
    BY <2>1, <2>2 DEF LedgerInv, LedgerEndsAtStatus, LastMovement
  <2>4. m.source # "MANUAL"
    BY <2>1 DEF ManualRows, IsManual
  <2>5. ManualRows(t) = {}
    BY <2>1 DEF ManualRows, IsManual
  <2> QED
    BY <2>3, <2>4, <2>5
<1>4. CASE Finish /\ movements'[t] # movements[t]
  <2>1. AddsRow(t, Written(t)) /\ Written(t) \in Movement
    BY <1>4, FinishRows
  <2>2. ManualRows(t) = {} /\ status'[t] = Written(t).to
    BY <1>3, <2>1
  <2>3. tree[t] = status[t] /\ decision.to # status[t]
    BY <1>4, <2>2, WrittenFromStatus
  <2>4. Written(t).from = status[t] /\ Written(t).to # status[t]
    BY <2>3 DEF Written
  <2> QED
    BY <2>1, <2>2, <2>4, RowBalances DEF BalanceInv
<1>5. CASE ApiNext /\ movements'[t] # movements[t]
  BY <1>3, <1>5, ApiRows
<1>6. CASE ~Finish /\ ~ApiNext
  <2>1. movements' = movements
    BY <1>6, OthersCustody DEF Next
  <2> QED
    BY <1>2, <2>1
<1> QED
  BY <1>2, <1>4, <1>5, <1>6

\* Of a container nobody has corrected the consumption report counts the rows by
\* which it left: each of them has a session.
LEMMA TakenAreOuts ==
  ASSUME TypeOK, DispatchAttributed, NEW t \in registered, ManualRows(t) = {}
  PROVE  TimesTaken(t) = Cardinality(Outs(t))
<1> DEFINE Taken == {row \in Consumption : row[1] = t}
           pair  == [i \in Outs(t) |-> <<t, i>>]
<1>1. t \in Tids /\ movements[t] \in Seq(Movement)
  BY DEF TypeOK, DbTypeOK
<1>2. ASSUME NEW i \in Outs(t)
      PROVE  <<t, i>> \in Taken
  <2>1. i \in DOMAIN movements[t] /\ movements[t][i].to = "DISPATCHED"
    BY <1>2 DEF Outs
  <2>2. movements[t][i].source = "PORTAL"
    <3>1. movements[t][i] \in Movement
      BY <1>1, <2>1, ElementOf
    <3>2. movements[t][i].source # "MANUAL"
      BY <2>1 DEF ManualRows, IsManual
    <3> QED
      BY <3>1, <3>2 DEF Movement
  <2>3. movements[t][i].session \in DOMAIN sessions
    BY <1>1, <2>1, <2>2 DEF DispatchAttributed
  <2>4. <<t, i>> \in UNION {{u} \X DOMAIN movements[u] : u \in registered}
    BY <2>1
  <2>5. <<t, i>> \in Dispatched(movements[t][i].session)
    BY <2>1, <2>4 DEF Dispatched
  <2> QED
    BY <2>3, <2>5 DEF Consumption
<1>3. ASSUME NEW row \in Taken
      PROVE  \E i \in Outs(t) : row = <<t, i>>
  <2>1. PICK s \in DOMAIN sessions : row \in Dispatched(s)
    BY <1>3 DEF Consumption
  <2>2. PICK u \in registered : row \in {u} \X DOMAIN movements[u]
    BY <2>1 DEF Dispatched
  <2>3. PICK i \in DOMAIN movements[u] : row = <<u, i>>
    BY <2>2
  <2>4. u = t
    BY <1>3, <2>3
  <2>5. movements[t][i].to = "DISPATCHED"
    BY <2>1, <2>3, <2>4 DEF Dispatched
  <2> QED
    BY <2>3, <2>4, <2>5 DEF Outs
<1>4. pair \in Bijection(Outs(t), Taken)
  <2>1. pair \in [Outs(t) -> Taken]
    BY <1>2
  <2>2. \A i, j \in Outs(t) : pair[i] = pair[j] => i = j
    OBVIOUS
  <2>3. \A row \in Taken : \E i \in Outs(t) : pair[i] = row
    BY <1>3
  <2> HIDE DEF pair, Taken
  <2> QED
    BY <2>1, <2>2, <2>3 DEF Bijection, Injection, Surjection, IsInjective
<1>5. IsFiniteSet(Outs(t)) /\ ExistsBijection(Outs(t), Taken)
  BY <1>1, <1>4, RowsAreFinite DEF ExistsBijection
<1> HIDE DEF Taken
<1>6. Cardinality(Taken) = Cardinality(Outs(t))
  BY <1>5, FS_Bijection
<1> QED
  BY <1>6 DEF Taken, TimesTaken

\* The two reports account for every container that no person has corrected, once
\* and not twice, for every number of boxes, sessions and dispatches.
THEOREM AccountedFor == Spec => []AccountedForOnce
<1>1. Init => BalanceInv
  <2> SUFFICES ASSUME Init, NEW t \in Tids PROVE Balanced(t)
    BY DEF BalanceInv
  <2>1. movements[t] = <<>> /\ status[t] = "REGISTERED"
    BY DEF Init, DbInit
  <2>2. Outs(t) = {} /\ Backs(t) = {}
    BY <2>1 DEF Outs, Backs
  <2> QED
    BY <2>1, <2>2, FS_EmptySet DEF Balanced
<1>2. TypeOK /\ LedgerInv /\ LedgerInv' /\ BalanceInv /\ [Next]_vars => BalanceInv'
  BY BalanceStep
<1>3. TypeOK /\ LedgerInv /\ DispatchAttributed /\ BalanceInv => AccountedForOnce
  <2> SUFFICES ASSUME TypeOK, LedgerInv, DispatchAttributed, BalanceInv,
                      NEW t \in registered, ManualRows(t) = {}
               PROVE  /\ t \in StockOnHand
                           <=> movements[t] # <<>> /\ LastMovement(t).to = "IN_STOCK"
                      /\ TimesTaken(t) = TimesBack(t)
                           + (IF status[t] = "DISPATCHED" THEN 1 ELSE 0)
    BY DEF AccountedForOnce
  <2>1. t \in Tids
    BY DEF TypeOK, DbTypeOK
  <2>2. t \in StockOnHand
          <=> movements[t] # <<>> /\ LastMovement(t).to = "IN_STOCK"
    BY <2>1 DEF StockOnHand, LedgerInv, LedgerEndsAtStatus
  <2>3. TimesTaken(t) = Cardinality(Outs(t)) /\ TimesBack(t) = Cardinality(Backs(t))
    BY TakenAreOuts DEF TimesBack, Backs
  <2>4. Balanced(t)
    BY <2>1 DEF BalanceInv
  <2> QED
    BY <2>2, <2>3, <2>4 DEF Balanced
<1> QED
  BY <1>1, <1>2, <1>3, TypeCorrect, LedgerInvariant, NeverToAClosedSession, PTL
  DEF Spec

=============================================================================
