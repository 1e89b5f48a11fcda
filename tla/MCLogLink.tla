------------------------------- MODULE MCLogLink -------------------------------
(* LogLink for TLC.                                                        *)
EXTENDS LogLink, TLC

Symmetry == Permutations(Callers) \cup Permutations(Msgs)

===============================================================================
