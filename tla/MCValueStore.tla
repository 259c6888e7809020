---------------------------- MODULE MCValueStore ----------------------------
(* Small instances of ValueStore. *)
EXTENDS ValueStore, TLC

CONSTANTS c1, c2, v1

SizeOf(v) == 2

Symmetry == Permutations(Calls)
=============================================================================
