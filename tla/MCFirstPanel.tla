---------------------------- MODULE MCFirstPanel ----------------------------
(***************************************************************************)
(* An instance of FirstPanel for TLC.                                      *)
(***************************************************************************)
EXTENDS FirstPanel, LimiterRefinement, TLC

Symmetry == Permutations(Attempts) \cup Permutations(Keys)

============================================================================
