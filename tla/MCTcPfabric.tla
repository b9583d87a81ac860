---------------------------- MODULE MCTcPfabric ----------------------------
(***************************************************************************)
(* All command lines of up to five words, with two sizes.                  *)
(***************************************************************************)
EXTENDS TcPfabric

MCSizes == {0, 7}
=============================================================================
