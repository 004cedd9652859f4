-------------------------- MODULE MCFillRecording --------------------------
(***************************************************************************)
(* Instances of FillRecording for TLC.                                     *)
(***************************************************************************)
EXTENDS FillRecording, TLC

CONSTANTS buy, sell

\* One order of two lots.
OneQty  == buy :> 2
OneSign == buy :> 1
\* An order and its opposite.
PairQty  == buy :> 2 @@ sell :> 1
PairSign == buy :> 1 @@ sell :> -1
=============================================================================
