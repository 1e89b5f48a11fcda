----------------------------- MODULE MCThreadInit -----------------------------
(* ThreadInit for TLC: an RT pool of five threads, a work pool of four.    *)
EXTENDS ThreadInit, TLC

PoolSizes == <<5, 4>>

===============================================================================
