---------------------------- MODULE MCBomVersion ----------------------------
(* BomVersion for TLC: versions, parts and callers are interchangeable.    *)
EXTENDS BomVersion, TLC

Symmetry == Permutations(Versions) \cup Permutations(Parts) \cup Permutations(Callers)
=============================================================================
