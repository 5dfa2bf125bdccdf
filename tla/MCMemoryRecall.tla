--------------------------- MODULE MCMemoryRecall ---------------------------
(***************************************************************************)
(* Instances of MemoryRecall for TLC: all vectors are similar, so that who *)
(* is whose neighbour depends on what is embedded and live only, and ids   *)
(* are interchangeable.                                                    *)
(***************************************************************************)
EXTENDS MemoryRecall, TLC

\* Links and neighbours; listings; searches.
ThreeWorkloads ==
    {{"write", "infer", "embed", "link", "delete", "backfill", "related"},
     {"write", "delete", "list"},
     {"write", "embed", "delete", "search"}}

\* An edit may quarantine a memory others link to.
LinkWorkload == {{"write", "infer", "embed", "link", "related"}}

AllNear == Ids \X Ids
Symmetry == Permutations(Ids)

=============================================================================
