---------------------------- MODULE MCVaultOpen ----------------------------
(***************************************************************************)
(* Instances of VaultOpen for TLC: passphrases, salts and openers are only *)
(* compared.                                                               *)
(***************************************************************************)
EXTENDS VaultOpen, TLC

Symmetry == Permutations(Passphrases) \cup Permutations(Salts) \cup Permutations(Openers)

=============================================================================
