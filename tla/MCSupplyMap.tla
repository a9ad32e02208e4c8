---------------------------- MODULE MCSupplyMap -----------------------------
(* SupplyMap for TLC: the maker has two factories, the mine one.           *)
EXTENDS SupplyMap, TLC

CONSTANTS f1, f2, f3

MCOwner == f1 :> Maker @@ f2 :> Maker @@ f3 :> Miner

Symmetry == Permutations({f1, f2})
=============================================================================
