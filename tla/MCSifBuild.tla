----------------------------- MODULE MCSifBuild -----------------------------
(* Two commands, two identities, two outcomes of a build.                  *)
EXTENDS SifBuild, TLC
CONSTANTS d1, d2, k1, k2, b1, b2
Singles == {{k} : k \in Key}
Symmetry == Permutations(Driver) \cup Permutations(Key) \cup Permutations(Digest)

(* One command reconciles at a time; another may be anywhere else.         *)
OneReconciles ==
  \A d, e \in Driver :
    {drv[d].pc, drv[e].pc} \subseteq Reconciling \cup {"doomed"} => d = e
=============================================================================
