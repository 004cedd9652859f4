---------------------------- MODULE MCEventBus ----------------------------
(* EventBus on a small instance. *)
EXTENDS EventBus

Symmetry == Permutations(Threads) \cup Permutations(Events)
                \cup Permutations(Handlers)
=============================================================================
