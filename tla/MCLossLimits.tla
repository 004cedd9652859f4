---------------------------- MODULE MCLossLimits ----------------------------
(* LossLimits on a small instance. *)
EXTENDS LossLimits

MCMoves == {-2, 1}
MCCapitals == {0, 4}
=============================================================================
