---------------------------- MODULE MCWarehouse ----------------------------
(***************************************************************************)
(* Small instances of Warehouse: a pallet p, a box b that goes on it and,  *)
(* in some runs, a second pallet q.                                        *)
(***************************************************************************)
EXTENDS Reports, TLC

CONSTANTS p, q, b, o1, o2

BoxOnPallet  == {[pallet |-> p, boxes |-> {b}]}
NestedLoads  == {[pallet |-> p, boxes |-> {b}], [pallet |-> q, boxes |-> {p}]}
Circular     == {[pallet |-> p, boxes |-> {q}], [pallet |-> q, boxes |-> {p}]}
NoLoads      == {}

EveryDirection == {<<"EXIT", "IN">>, <<"EXIT", "OUT">>, <<"EXIT", "UNKNOWN">>}
InAndOut       == {<<"ENTRANCE", None>>, <<"EXIT", "OUT">>}

\* Nothing tells one operator from another.
OperatorSymmetry == Permutations(Operators)

=============================================================================
