------------------------- MODULE MCSchemaMigration -------------------------
(***************************************************************************)
(* Instances of SchemaMigration for TLC: ids and openers are only compared.*)
(***************************************************************************)
EXTENDS SchemaMigration, TLC

Symmetry == Permutations(Ids) \cup Permutations(Openers)

\* Vaults of every version, and those whose upgrade recreates the table.
AnyVersion == 0..Current
BeforeV7 == 3..6

=============================================================================
