--------------------------- MODULE IdealScheduler ---------------------------
(***************************************************************************)
(* The ideal scheduler that the experiments compare the schemes with       *)
(* (src/python/ideal.py): one packet per time quantum, always of the flow  *)
(* with the least left to send.  Time is counted in quanta (DELTA_T) and   *)
(* all flows start at 0, as schedule_flows creates them.                   *)
(***************************************************************************)
EXTENDS Totals

CONSTANTS N,        \* number of flows
          Sizes,    \* the sizes a flow may have
          PAYLOAD   \* bytes of a flow in one frame (1500 - 34)

ASSUME IdealAssumption ==
  /\ N \in Nat
  /\ Sizes \subseteq Nat
  /\ PAYLOAD \in Nat \ {0}

Flows == 1 .. N

VARIABLES total_size, remaining_size, completion_time,  \* of each Flow
          flows_to_schedule,
          time              \* quanta since the start

flowVars == <<total_size, remaining_size, completion_time, flows_to_schedule, time>>

IdealInit ==
  /\ total_size \in [Flows -> Sizes]
  /\ remaining_size = total_size
  /\ completion_time = [f \in Flows |-> -1]
  /\ flows_to_schedule = Flows
  /\ time = 0

\* Fault: argmax in place of argmin.
IsMaxIndex(f) ==
  \A g \in flows_to_schedule :
    \/ remaining_size[f] > remaining_size[g]
    \/ remaining_size[f] = remaining_size[g] /\ f <= g

(***************************************************************************)
(* get_min_index: numpy's argmin is the first of the least values.         *)
(***************************************************************************)
IsMinIndex(f) ==
  \A g \in flows_to_schedule :
    \/ remaining_size[f] < remaining_size[g]
    \/ remaining_size[f] = remaining_size[g] /\ f <= g

\* Fault: a whole payload is subtracted from what is left.
AfterFullPacket(size) == size - PAYLOAD

\* Fault: the frame overhead is not subtracted from the frame length.
AfterLargePacket(size) == IF size <= PAYLOAD + 1 THEN 0 ELSE size - PAYLOAD - 1

AfterPacket(size) == IF size <= PAYLOAD THEN 0 ELSE size - PAYLOAD

is_done(f) == remaining_size[f] <= 0

packet_sent(f) ==
  /\ remaining_size' = [remaining_size EXCEPT ![f] = AfterPacket(@)]
  /\ completion_time' =
       IF is_done(f)' THEN [completion_time EXCEPT ![f] = time'] ELSE completion_time

DropDone == flows_to_schedule' = {f \in flows_to_schedule : ~ is_done(f)'}

Quantum(f) ==
  /\ IsMinIndex(f)
  /\ time' = time + 1
  /\ packet_sent(f)
  /\ DropDone
  /\ UNCHANGED total_size

\* Fault: the loop stops when one flow is left.
StopAtLast == \E f, g \in flows_to_schedule : f # g /\ Quantum(f)

schedule_flows == \E f \in flows_to_schedule : Quantum(f)

IdealSpec == IdealInit /\ [][schedule_flows]_flowVars /\ WF_flowVars(schedule_flows)
-----------------------------------------------------------------------------
(***************************************************************************)
(* Nothing is overdrawn: what is left of a flow never becomes negative.    *)
(***************************************************************************)
IdealTypeOK ==
  /\ total_size \in [Flows -> Sizes]
  /\ remaining_size \in [Flows -> Nat]
  /\ completion_time \in [Flows -> Nat \cup {-1}]
  /\ flows_to_schedule \in SUBSET Flows
  /\ time \in Nat

(***************************************************************************)
(* Choosing by what is left never interrupts a flow: once a flow has sent  *)
(* a packet it has strictly less left than every other one, so the flows   *)
(* are sent one after another.  An ideal without this would depend on the  *)
(* quantum.                                                                *)
(***************************************************************************)
NoPreemption ==
  \A f, g \in flows_to_schedule :
    f # g /\ remaining_size[f] < total_size[f] => remaining_size[f] < remaining_size[g]

(***************************************************************************)
(* "Schedules flows in a non-decreasing manner according to size"          *)
(* (ideal.py:4): of two flows with a completion time, the one that         *)
(* completes first is not the larger one.                                  *)
(***************************************************************************)
ShortestFirst ==
  \A f, g \in Flows :
    completion_time[f] # -1 /\ completion_time[f] < completion_time[g] =>
      total_size[f] <= total_size[g]

Quanta == [f \in Flows |-> (total_size[f] + PAYLOAD - 1) \div PAYLOAD]

NoLargerThan(f) ==
  {g \in Flows : total_size[g] < total_size[f] \/ (total_size[g] = total_size[f] /\ g <= f)}

EmptyFlows == {f \in Flows : total_size[f] = 0}

(***************************************************************************)
(* The completion times in closed form.  A flow completes when it and all  *)
(* flows that come before it in the order of size have had their quanta,   *)
(* plus one quantum if any flow is empty: the first quantum goes to an     *)
(* empty flow, and every other empty flow is taken off the list unserved   *)
(* and keeps the completion time -1.                                       *)
(***************************************************************************)
CompletionTimes ==
  flows_to_schedule = {} =>
    \A f \in Flows :
      completion_time[f] =
        IF f \in EmptyFlows /\ f # Min(EmptyFlows) THEN -1
        ELSE Total(Quanta, NoLargerThan(f)) + (IF EmptyFlows # {} THEN 1 ELSE 0)

(***************************************************************************)
(* The loop ends.                                                          *)
(***************************************************************************)
AllScheduled == <>(flows_to_schedule = {})
=============================================================================
