------------------------------ MODULE MCRunLog ------------------------------
(* RunLog with model values for TLC: two instances, in one process or in   *)
(* two on different nodes.                                                 *)
EXTENDS RunLog, TLC
CONSTANTS i1, i2, p1, p2, n1, n2, f1
Spread == {(i1 :> p1) @@ (i2 :> p) : p \in Process}
Nodes == (p1 :> n1) @@ (p2 :> n2)
=============================================================================
