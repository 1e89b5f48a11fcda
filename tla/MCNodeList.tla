------------------------------ MODULE MCNodeList ------------------------------
(* NodeList for TLC.                                                       *)
EXTENDS NodeList, TLC

===============================================================================
