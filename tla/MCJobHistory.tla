---------------------------- MODULE MCJobHistory ----------------------------
(* JobHistory with one job that SLURM requeues once.                       *)
EXTENDS JobHistory
CONSTANT j1
=============================================================================
