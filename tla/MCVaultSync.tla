---------------------------- MODULE MCVaultSync ----------------------------
(***************************************************************************)
(* Instances of VaultSync for TLC.  The clock and the batch limit are what *)
(* bounds it: a batch of one makes the order of the queue matter.          *)
(***************************************************************************)
EXTENDS VaultSync, TLC

Symmetry == Permutations(Ids)

=============================================================================
