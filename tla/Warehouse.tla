----------------------------- MODULE Warehouse -----------------------------
(***************************************************************************)
(* The state engine and the API at work on one database, fed by the        *)
(* debouncer: what the warehouse system as a whole promises about status,  *)
(* movements and dispatches.                                               *)
(***************************************************************************)
EXTENDS StateEngine, Api

CONSTANTS
    Known,         \* the tids registered before the engine is started
    Passages,      \* <<portal, direction>> the debouncer reports in this run
    MaxObs         \* bound: observations

ASSUME WarehouseAssumption ==
  Known \subseteq Tids /\ Passages \subseteq Portal \X Direction /\ MaxObs \in Nat

vars == <<dbVars, engineVars, apiVars>>

TypeOK == DbTypeOK /\ EngineTypeOK /\ ApiTypeOK

Init == DbInit(Known) /\ EngineInit /\ ApiInit

\* The debouncer's commit of one observation: a tag was read while
\* dispatch_sessions held what `dock` remembers.
InsertObservation(t, passage) ==
  /\ Len(observations) < MaxObs
  /\ observations' = Append(observations,
       [tid |-> t, portal |-> passage[1], direction |-> passage[2],
        processed |-> FALSE, dock |-> sessions])
  /\ UNCHANGED <<registered, status, parent, sessions, movements, anomalies,
                 locked, engineVars, apiVars>>

Next ==
  \/ EngineNext /\ UNCHANGED apiVars
  \/ ApiNext /\ UNCHANGED engineVars
  \/ \E t \in Tids, passage \in Passages : InsertObservation(t, passage)

Spec == Init /\ [][Next]_vars

\* Only the engine is a loop that must go on; nobody has to make a request.
FairSpec == Spec /\ EngineFairness

-----------------------------------------------------------------------------
(* Safety *)

\* The movements table explains containers.status: a container that never
\* moved is REGISTERED, and the last movement of any other ended where the
\* container is.  Two writers, the engine and the corrections, keep the two
\* tables in step, each with an UPDATE and an INSERT.
LedgerEndsAtStatus ==
  \A t \in Tids :
    IF movements[t] = <<>> THEN status[t] = "REGISTERED"
                           ELSE LastMovement(t).to = status[t]

\* Between two dispatches of one container at a portal something took it out
\* of DISPATCHED: however reads are repeated, retried or applied after a
\* restart, and whether the container is read itself or moves with a pallet,
\* it is not counted out twice (transitions.py: "double-counting structurally
\* impossible").
NeverDispatchedTwice ==
  \A t \in Tids : \A i, j \in DOMAIN movements[t] :
    LET Out(k) == movements[t][k].source = "PORTAL"
                    /\ movements[t][k].to = "DISPATCHED"
    IN  i < j /\ Out(i) /\ Out(j)
          => \E k \in (i + 1)..(j - 1) : movements[t][k].to # "DISPATCHED"

\* A movement of a container that was itself read, or that a person asked
\* for, starts from where the movement before it ended: the row lock keeps
\* corrections and the engine from acting on each other's old status.  (It is
\* not so for a box that moves with its pallet.)
StartsWhereLastEnded ==
  \A t \in Tids : \A i \in DOMAIN movements[t] :
    LET m == movements[t][i]
    IN  m.source = "MANUAL" \/ observations[m.obs].tid = t
          => m.from = IF i = 1 THEN "REGISTERED" ELSE movements[t][i - 1].to

\* One observation moves a container at most once.
MovedOnce ==
  \A t \in Tids : \A i, j \in DOMAIN movements[t] :
    i # j /\ movements[t][i].source = "PORTAL"
      => movements[t][i].obs # movements[t][j].obs

\* An observation moves a container once and raises an anomaly once, whatever
\* statements fail and wherever the engine is stopped, unless the
\* acknowledgement of a commit is lost; and nothing it caused is visible until
\* it is marked processed (handle() is one transaction).
AppliedOnce ==
  /\ lostAcks = 0 =>
       /\ MovedOnce
       /\ \A a1, a2 \in DOMAIN anomalies :
            a1 # a2 => anomalies[a1].obs # anomalies[a2].obs
  /\ \A o \in DOMAIN observations :
       ~observations[o].processed =>
         /\ \A a \in DOMAIN anomalies : anomalies[a].obs # o
         /\ \A t \in Tids : \A i \in DOMAIN movements[t] :
              movements[t][i].obs # o

\* Whatever leaves at a portal is attributed to a session, and never to one
\* that had been closed before the tag that caused it was read.
DispatchAttributed ==
  \A t \in Tids : \A i \in DOMAIN movements[t] :
    LET m    == movements[t][i]
        dock == observations[m.obs].dock
    IN  m.source = "PORTAL" /\ m.to = "DISPATCHED"
          => /\ m.session \in DOMAIN sessions
             /\ m.session \in DOMAIN dock => dock[m.session] # "closed"

\* While handle() has a move to make, the row it locked still holds the status
\* it decided from, and that is not the status it moves to.
RootHeld ==
  decision.to # None =>
    locked = Root /\ tree[Root] = status[Root] /\ tree[Root] # decision.to

\* A status that handle() has read and that has changed since was changed by a
\* person: nobody but the engine writes for a portal.
OverruledByHand ==
  \A t \in Tids :
    tree[t] \notin {None, status[t]} =>
      movements[t] # <<>> /\ IsManual(LastMovement(t))

\* Two movements in a row end at the same status only where a portal read
\* repeats, from a status read too early, what a person has just done.
RepeatsOnlyAPerson ==
  \A t \in Tids : \A i \in DOMAIN movements[t] :
    i > 1 /\ movements[t][i].to = movements[t][i - 1].to
      => ~IsManual(movements[t][i]) /\ IsManual(movements[t][i - 1])

PortalRowsHaveCause ==
  \A t \in Tids : \A i \in DOMAIN movements[t] :
    ~IsManual(movements[t][i]) => movements[t][i].obs \in DOMAIN observations

\* What makes the ledger properties inductive: every step of the engine and
\* of the API preserves the conjunction.
LedgerInv ==
  /\ LedgerEndsAtStatus
  /\ StartsWhereLastEnded
  /\ RootHeld
  /\ OverruledByHand
  /\ RepeatsOnlyAPerson
  /\ PortalRowsHaveCause

-----------------------------------------------------------------------------
(* Action properties *)

\* A pallet takes everything that is on it along (SPEC.md section 4): of the
\* containers directly on it when it moves none is left behind, except one
\* whose status a person has just set.  The foreign key's lock on the
\* pallet's row keeps an attach from slipping in after the tree was read.
PalletMovesWhole ==
  [][\A p \in Tids :
       LET m == movements'[p][Len(movements'[p])]
       IN  /\ Len(movements'[p]) > Len(movements[p])
           /\ m.source = "PORTAL" /\ observations[m.obs].tid = p
           /\ parent' = parent
           => \A c \in Children(p) :
                \/ status'[c] = m.to
                \/ Len(movements[c]) \in ManualRows(c)]_vars

\* A decision about an anomaly and the correction it implies do not come
\* apart (routers/anomalies.py): a request to resolve an anomaly with a
\* correction leaves its name on the anomaly if it made the correction, and
\* the anomaly as it was if the correction was refused, although the engine or
\* another request may have changed the container since the request looked.
CorrectionNotApart ==
  [][\A r \in resolving :
       r.to # None /\ r \notin resolving' =>
         LET t == anomalies[r.anomaly].tid
         IN  IF Len(movements'[t]) > Len(movements[t])
             THEN status'[t] = r.to
                  /\ anomalies'[r.anomaly].resolvedBy = r.operator
             ELSE anomalies' = anomalies]_vars

\* One container's observations are applied in the order they were written,
\* through retries and restarts too: the engine takes one up while an
\* earlier one waits only if that one is a pallet held for its load.
OvertakesOnlyHeld ==
  [][current' \notin {0, current} =>
       \A o \in Unprocessed :
         o < current' /\ observations[o].tid = observations[current'].tid
           => o \in held]_vars

-----------------------------------------------------------------------------
(* Refinement *)

Promise == INSTANCE Custody WITH ledger <- movements

\* The engine, with its reads and its writes apart, its retries and its restarts,
\* and the corrections made between them keep custody of every container: each
\* change of a status is one step of Custody, from the status the container has
\* at that moment, together with its row in the ledger.
KeepsCustody == Promise!Spec

-----------------------------------------------------------------------------
(* Liveness *)

\* No observation is left unprocessed, however often statements fail, as long
\* as the engine is restarted and the database answers in the end.
EventuallyProcessed ==
  \A o \in 1..MaxObs :
    o \in DOMAIN observations ~>
      (o \in DOMAIN observations /\ observations[o].processed)

-----------------------------------------------------------------------------
(* What the documents say and the code does not keep: see README.md *)

\* "Only one session may be open at a time" (routers/dispatch_sessions.py).
\* Two requests can both find the dock closed.
OneOpenSession == Cardinality(OpenSessions) <= 1

\* "Everything read during that window is attributed to it" (SPEC.md 2.5): the
\* session of a dispatch is one that was open when the tag was read.  The
\* engine takes the session open when it handles the observation.
AttributedToSessionAtRead ==
  \A t \in Tids : \A i \in DOMAIN movements[t] :
    LET m    == movements[t][i]
        dock == observations[m.obs].dock
    IN  m.source = "PORTAL" /\ m.to = "DISPATCHED"
          => m.session \in DOMAIN dock /\ dock[m.session] = "open"

\* "A box that is already at the target status is skipped" (service.py,
\* move_container_tree): no movement ends where the one before it ended.  The
\* status that is compared was read without a lock.
MovesToAnotherStatus ==
  \A t \in Tids : \A i \in 2..Len(movements[t]) :
    movements[t][i].to # movements[t][i - 1].to

\* "A container cannot be placed on itself" (routers/containers.py).  Each
\* attach looks at one level, so a container can come to stand on one that
\* stands on it; the tree query then does not end.
NeverOnItself == \A t \in registered : TreeQueryEnds(t)

\* "A pallet and everything stacked on it, however deep the nesting goes"
\* (service.py) moves with it.  The engine locks the pallet's row and not the
\* rows of what is on it, so a box can be put on one of those after the tree
\* has been read, and stays behind.
TreeMovesWhole ==
  [][\A p \in Tids :
       LET m == movements'[p][Len(movements'[p])]
       IN  /\ Len(movements'[p]) > Len(movements[p])
           /\ m.source = "PORTAL" /\ observations[m.obs].tid = p
           /\ parent' = parent
           => \A c \in Tree(p) : status'[c] = m.to]_vars

\* A dispatched box is "never silently restocked at the door" (SPEC.md
\* section 4): no portal read takes a container that is not reusable out of
\* DISPATCHED.  A pallet that comes back in takes what is on it along.
NeverRestockedAtDoor ==
  \A t \in Tids \ Reusable : \A i \in DOMAIN movements[t] :
    movements[t][i].source = "PORTAL" => movements[t][i].from # "DISPATCHED"

\* "Resolving twice is refused rather than silently overwriting who did it"
\* (tests/integration/test_api.py): once resolved, an anomaly's row stays as
\* it is.  The check and the UPDATE do not share a lock.
ResolverKept ==
  [][\A a \in DOMAIN anomalies :
       anomalies[a].resolvedBy # None => anomalies'[a] = anomalies[a]]_vars

=============================================================================
