----------------------------- MODULE MCInflight -----------------------------
(* Inflight with model values for TLC.  SLURM never gives an id twice, so  *)
(* every behaviour has a twin in which the jobs are submitted in order.    *)
EXTENDS Inflight
CONSTANTS t1, j1, j2, j3
InOrder ==
  /\ pc[j2] # "unused" => pc[j1] # "unused"
  /\ pc[j3] # "unused" => pc[j2] # "unused"
=============================================================================
