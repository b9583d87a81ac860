----------------------------- MODULE MCPfabRoot -----------------------------
(***************************************************************************)
(* A small instance of PfabRoot for TLC: three urgencies, a buffer of two  *)
(* packets and options that change the limit and the dequeue flag.         *)
(***************************************************************************)
EXTENDS PfabRoot

MCFrames == {[ip |-> TRUE, len |-> 2, tos |-> t] : t \in {0, 1, 3}}

MCOpts == [limit : {1, 2}, disable_dequeue : BOOLEAN]
=============================================================================
