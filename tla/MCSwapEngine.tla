---------------------------- MODULE MCSwapEngine ----------------------------
(* SwapEngine for TLC: one swap (rows do not interact) and callers that are *)
(* interchangeable.                                                        *)
EXTENDS SwapEngine, TLC

CallerSymmetry == Permutations(Callers)
=============================================================================
