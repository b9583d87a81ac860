----------------------------- MODULE MCPfabProc -----------------------------
(***************************************************************************)
(* Three qdiscs on two devices: two qdiscs may share a device and its      *)
(* files.  Three names, so that a device can be renamed.                   *)
(***************************************************************************)
EXTENDS PfabProc, TLC

CONSTANTS q1, q2, q3

MCQdiscs == {q1, q2, q3}

QdiscSymmetry == Permutations(MCQdiscs)
=============================================================================
