------------------------------ MODULE MCConnQueue ------------------------------
(* ConnQueue for TLC.                                                      *)
EXTENDS ConnQueue, TLC

\* A long, a short and an empty string: a short one in an item that carried a
\* long one is the case that needs the memset.
Strings == {<<1, 1>>, <<2>>, <<>>}

Sockets == {<<1>>}

Symmetry == Permutations(Dispatchers)

===============================================================================
