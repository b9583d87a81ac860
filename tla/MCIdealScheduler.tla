-------------------------- MODULE MCIdealScheduler --------------------------
(***************************************************************************)
(* All choices of four sizes below, at and above one and two payloads.     *)
(***************************************************************************)
EXTENDS IdealScheduler

MCSizes == 0 .. 5
=============================================================================
