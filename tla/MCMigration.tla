---------------------------- MODULE MCMigration ----------------------------
(* Migration with model values for TLC.                                    *)
EXTENDS Migration, TLC
CONSTANTS p1, p2, s1, s2
Symmetry == Permutations(Process) \cup Permutations(Sims)

(* Once the tree is spoilt only the record is of interest, whose history   *)
(* does not depend on the tree: those without artifacts are followed on.   *)
Bound ==
  \/ spoilt = {}
  \/ ~Content(tree) /\ \A r, s \in spoilt : r = s
=============================================================================
