-------------------------- MODULE MCOrderPlacement --------------------------
(* OrderPlacement on small instances. *)
EXTENDS OrderPlacement, TLC

Symmetry == Permutations(Threads) \cup Permutations(Corr)
                \cup Permutations(OmIds)
=============================================================================
