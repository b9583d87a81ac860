---------------------------- MODULE MCExperiment ----------------------------
(***************************************************************************)
(* Two loads, of which the second has more flows than there are buckets,   *)
(* two hosts and two runs per test (run.sh has one; pfabric.py takes any), *)
(* and at most one failing command in each set_up (MaxFailed).             *)
(***************************************************************************)
EXTENDS Experiment

MCLoads == <<1, 3>>

(***************************************************************************)
(* What the rest of a behaviour and the invariants depend on: main and     *)
(* set_up start the tests and their flows anew, whatever an exception or   *)
(* the load before has left, and no file is looked for after the exit.     *)
(***************************************************************************)
Outside == {"insmod", "main", "next", "rmmod", "evaluate", "exit"}

RelevantState ==
  <<pc, load, IF pc \in Outside THEN 0 ELSE test,
    IF pc \in Outside \cup {"set_up"} THEN <<>> ELSE <<r, launched, clients>>,
    running, IF pc = "exit" THEN {} ELSE files, dirs, made, network, loaded, result, cut>>
=============================================================================
