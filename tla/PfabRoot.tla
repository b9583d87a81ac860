------------------------------ MODULE PfabRoot ------------------------------
(***************************************************************************)
(* A pFabric qdisc as the root of a device (src/kernel/add_pfab.sh), run   *)
(* by the kernel's transmit path.  The transmit path is external code: it  *)
(* is modelled from what it does to a qdisc that a module registers.       *)
(*                                                                         *)
(* After every enqueue, dropped or not, __dev_xmit_skb runs the qdisc      *)
(* unless a CPU is already doing so.  A run dequeues a packet, releases    *)
(* the qdisc lock while the driver transmits it, and goes on only if       *)
(* qdisc_qlen(q) is not zero then.  It ends at the first NULL.  The        *)
(* devices of this project (loopback, veth) never push back, so the        *)
(* driver neither stops the queue nor returns a packet.                    *)
(*                                                                         *)
(* Nobody runs the qdisc when its options change: qdisc_change only calls  *)
(* pfab_change, which does not schedule the qdisc when it enables          *)
(* dequeuing again.  `kick' records that the qdisc waits for such a run.   *)
(***************************************************************************)
EXTENDS PfabQdisc

VARIABLES run,  \* "idle", "scheduled" (about to dequeue) or "xmit"
          kick  \* history: enabled again while idle, and not run since

rootVars == <<vars, run, kick>>

RootInit == Init /\ run = "idle" /\ kick = FALSE

qdisc_run ==
  /\ run' = IF run = "idle" THEN "scheduled" ELSE run
  /\ kick' = FALSE

RootEnqueue ==
  \/ /\ \/ \E f \in Frames : EnqueueIllegal(f) \/ EnqueueRefuse(f)
        \/ EnqueueFits
        \/ EnqueueOverflow
     /\ qdisc_run
  \/ /\ \E f \in Frames : EnqueueAdmit(f)
     /\ UNCHANGED <<run, kick>>

qdisc_restart ==
  /\ run = "scheduled"
  /\ \/ Dequeue /\ run' = "xmit"
     \/ DequeueNull /\ run' = "idle"
  /\ UNCHANGED kick

sch_direct_xmit ==
  /\ run = "xmit"
  /\ pending = NoSkb
  /\ run' = IF qlen # 0 THEN "scheduled" ELSE "idle"
  /\ UNCHANGED <<vars, kick>>

RootChange ==
  /\ \E opt \in Opts : Change(opt)
  /\ kick' = (kick \/ (run = "idle" /\ disable_dequeue /\ ~ disable_dequeue'))
  /\ UNCHANGED run

RootReset == Reset /\ UNCHANGED <<run, kick>>

RootNext ==
  \/ RootEnqueue
  \/ qdisc_restart
  \/ sch_direct_xmit
  \/ RootChange
  \/ RootReset

(***************************************************************************)
(* Fairness: a CPU inside pfab_enqueue leaves it, a scheduled run is       *)
(* carried out by the softirq, and a transmission ends.  Nothing forces    *)
(* frames to arrive, options to change or the device to be reset.          *)
(***************************************************************************)
RootSpec ==
  /\ RootInit
  /\ [][RootNext]_rootVars
  /\ WF_rootVars((EnqueueFits \/ EnqueueOverflow) /\ qdisc_run)
  /\ WF_rootVars(qdisc_restart)
  /\ WF_rootVars(sch_direct_xmit)
-----------------------------------------------------------------------------
(***************************************************************************)
(* The highest bit that is set belongs to an empty band.                   *)
(***************************************************************************)
StaleHead == bitmap_high_prio(bitmap) >= 0 /\ HighList = <<>>

(***************************************************************************)
(* No run is missed: when nobody runs the qdisc and no enqueue is in       *)
(* progress, pfab_dequeue would return a packet only if the length has     *)
(* been decremented for a drop that freed nothing, or if pfab_change has   *)
(* enabled dequeuing and no frame has arrived since.  The transmit loop    *)
(* decides by the length alone, so this needs qlen to be exact.            *)
(***************************************************************************)
IdleOnlyWhenDone ==
  run = "idle" /\ pending = NoSkb /\ CanDequeue => phantom > 0 \/ kick

(***************************************************************************)
(* Every queued packet leaves the buffer while dequeuing is enabled and    *)
(* the qdisc has been run since it was, unless a stale bit hides it from   *)
(* pfab_dequeue or a drop without a packet has corrupted the length: these *)
(* two consequences of pfab_drop and pfab_reset not clearing bits are the  *)
(* only other ways in which packets can be stranded.                       *)
(***************************************************************************)
DrainsUnlessCorrupted ==
  (Contents # {} /\ ~ disable_dequeue /\ ~ kick)
    ~> (Contents = {} \/ disable_dequeue \/ StaleHead \/ phantom > 0)

=============================================================================
