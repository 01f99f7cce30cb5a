---------------------------- MODULE MCPositionFills ----------------------------
(* Instances of PositionFills for TLC.                                       *)
EXTENDS PositionFills, TLC

IntentSymmetry == Permutations(Intents)
==============================================================================
