------------------------------ MODULE Reports ------------------------------
(***************************************************************************)
(* What the API reports of the warehouse (routers/stock.py, reports.py and *)
(* dispatch_sessions.py), as operators over its tables.  A report is the   *)
(* contents of some containers, summed by SKU; two reports agree if they   *)
(* are of the same containers, so the contents are left out.               *)
(***************************************************************************)
EXTENDS Warehouse

\* Mutant: "AND c.parent_id IS NULL", as an earlier version had it.
StockOnHandTopLevel == {t \in registered : status[t] = "IN_STOCK" /\ parent[t] = NoTid}

\* STOCK_ON_HAND_SQL, from the containers.
StockOnHand == {t \in registered : status[t] = "IN_STOCK"}

\* What a session's detail lists: rows of movements.
Dispatched(s) ==
  {row \in UNION {{t} \X DOMAIN movements[t] : t \in registered} :
     LET m == movements[row[1]][row[2]] IN m.session = s /\ m.to = "DISPATCHED"}

\* CONSUMPTION_SQL, from the movements, of all customers: a row counts for the
\* customer of its session, and only if it has one.
Consumption == UNION {Dispatched(s) : s \in DOMAIN sessions}

-----------------------------------------------------------------------------
(* Properties *)

TimesTaken(t) == Cardinality({row \in Consumption : row[1] = t})

TimesBack(t) ==
  Cardinality({i \in DOMAIN movements[t] :
                 movements[t][i].from = "DISPATCHED" /\ movements[t][i].to # "DISPATCHED"})

\* The two reports come from two tables, which the engine and the corrections keep
\* in step.  Of a container no person has corrected, they account for each way it
\* went: it is stock on hand, or some customer has taken it once more than it came
\* back, or neither as long as it is not in yet; never two of these, however a box
\* and its pallet are read and whatever the box stands on.
AccountedForOnce ==
  \A t \in registered :
    ManualRows(t) = {} =>
      /\ t \in StockOnHand <=> movements[t] # <<>> /\ LastMovement(t).to = "IN_STOCK"
      /\ TimesTaken(t) = TimesBack(t) + (IF status[t] = "DISPATCHED" THEN 1 ELSE 0)

-----------------------------------------------------------------------------
(* What the documents say and the code does not keep: see README.md *)

\* "Closes the session and returns what went out during it" (dispatch_sessions.py):
\* a session that is closed has its detail.  The engine may still hold a load for
\* which it read the session before.
DetailFinal ==
  [][\A s \in DOMAIN sessions :
       sessions[s] = "closed" => Dispatched(s)' = Dispatched(s)]_vars

\* "An unattributed load would be invisible to this report, so the system refuses
\* to record one" (reports.py).  A person's DISPATCHED has no session.
NoneUnattributed ==
  \A t \in registered : \A i \in DOMAIN movements[t] :
    movements[t][i].to = "DISPATCHED" => <<t, i>> \in Consumption

=============================================================================
