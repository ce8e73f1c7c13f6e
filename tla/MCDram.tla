------------------------------- MODULE MCDram -------------------------------
(* The controller, its history and its power accounting on small instances; the *)
(* timings are in the configuration files.                                      *)
EXTENDS DramHistory, PowerStats, TLC

RowSymmetry == Permutations(Rows)
=============================================================================
