-------------------------------- MODULE MCConns --------------------------------
(* Conns for TLC.                                                          *)
EXTENDS Conns, TLC

Symmetry == Permutations(RT)

===============================================================================
