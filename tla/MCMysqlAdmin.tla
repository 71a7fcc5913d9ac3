--------------------------- MODULE MCMysqlAdmin ---------------------------
(***************************************************************************)
(* An instance of MysqlAdmin for TLC.                                      *)
(***************************************************************************)
EXTENDS MysqlAdmin, MysqlRefinement, TLC

Symmetry == Permutations(Requests) \cup Permutations(Passwords)

============================================================================
