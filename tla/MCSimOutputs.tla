---------------------------- MODULE MCSimOutputs ----------------------------
(* Every configuration, forces of either floor.                            *)
EXTENDS SimOutputs
AllConfigs == [kind: {"zarr", "nc"}, clear: BOOLEAN, reclaim: BOOLEAN]
=============================================================================
