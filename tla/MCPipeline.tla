----------------------------- MODULE MCPipeline -----------------------------
(***************************************************************************)
(* Small instances of Pipeline: two tags, an entrance with no gate and an  *)
(* exit whose antennas and gate are those that config.py falls back to.    *)
(***************************************************************************)
EXTENDS Pipeline, TLC

SmallConfig ==
  [ENTRANCE |-> [antennas |-> {1}, gate |-> Absent, timeout |-> 0],
   EXIT     |-> [antennas |-> {3}, gate |-> Absent, timeout |-> 0]]

RssiFloor == -65

AllCommands == {<<"pallet", "EXIT">>, <<"reverse", "EXIT">>, <<"stray", "EXIT">>,
                <<"box", "ENTRANCE">>}
AllKeys == Tags \X (Portals \cup {Absent})
NoPortal == Tags \X {Absent}

Symmetry == Permutations(Tags)

=============================================================================
