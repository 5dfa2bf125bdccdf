----------------------------- MODULE MCQemCache -----------------------------
(***************************************************************************)
(* The instance of QemCache for TLC: more codes than room, two ids that    *)
(* may share one, and no symmetry, as liveness is checked.                 *)
(***************************************************************************)
EXTENDS QemCache, TLC

=============================================================================
