------------------------- MODULE MCMemoryLifecycle -------------------------
(***************************************************************************)
(* Instances of MemoryLifecycle for TLC.  A row's life does not depend on  *)
(* another's, so that one id, and two callers that hold copies of it, show *)
(* every interleaving.                                                     *)
(***************************************************************************)
EXTENDS MemoryLifecycle, TLC

\* Memories captured here and edited; memories that came from elsewhere; the
\* ledger.
ThreeWorkloads == {{"capture", "get", "edit", "delete", "upkeep"},
                   {"import", "get", "delete", "upkeep"},
                   {"access"}}
Symmetry == Permutations(Callers)

=============================================================================
