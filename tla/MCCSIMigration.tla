--------------------------- MODULE MCCSIMigration ---------------------------
(* Small instances of CSIMigration for TLC. *)
EXTENDS CSIMigration, TLC

CONSTANTS m1, m2, c1

MCMachines == {m1, m2}
MCClasses  == {c1}

Symmetry == Permutations(MCMachines)
=============================================================================
