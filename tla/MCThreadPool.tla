----------------------------- MODULE MCThreadPool -----------------------------
(* ThreadPool for TLC.                                                     *)
EXTENDS ThreadPool, TLC

Symmetry == Permutations(Producers) \cup Permutations(Workers)
            \cup Permutations(Destroyers) \cup Permutations(Jobs)

===============================================================================
