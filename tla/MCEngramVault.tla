--------------------------- MODULE MCEngramVault ---------------------------
(***************************************************************************)
(* Instances of EngramVault for TLC.  Ids, connections, hashes and kinds   *)
(* are interchangeable: the specification only compares them.              *)
(***************************************************************************)
EXTENDS EngramVault, TLC

Symmetry == Permutations(Ids) \cup Permutations(Conns)
              \cup Permutations(Hashes) \cup Permutations(Kinds)

=============================================================================
