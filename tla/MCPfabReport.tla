---------------------------- MODULE MCPfabReport ----------------------------
(***************************************************************************)
(* Two qdiscs, two bands and three frames: enough for two increments of    *)
(* one counter to overlap, for a report to be overtaken by two frames, for *)
(* a clearing in the middle of an enqueue and for a counter to wrap.       *)
(***************************************************************************)
EXTENDS PfabReport, TLC

CONSTANTS q1, q2, b0, b1

MCQdiscs == {q1, q2}

MCBands == {b0, b1}

Symmetry == Permutations(MCQdiscs) \cup Permutations(MCBands)

(***************************************************************************)
(* What the rest of a behaviour and the invariants depend on.  A report    *)
(* that a clearing met, and the histories after a clearing that met an     *)
(* enqueue, are not looked at until they start anew: spoilt only ends with *)
(* a clearing, which sets the histories to zero and cleared to TRUE, and   *)
(* cleared only ends with a new report.                                    *)
(***************************************************************************)
RelevantState ==
  <<pfab_stats, pc, reg, wiping, frames, todo, IF cleared \/ spoilt THEN Zero ELSE report,
    IF spoilt THEN Zero ELSE counted, IF spoilt THEN Zero ELSE raced, spoilt, cleared>>
=============================================================================
