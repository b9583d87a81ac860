----------------------------- MODULE Experiment -----------------------------
(***************************************************************************)
(* The experiment of run.sh: for each number of flows per host it starts   *)
(* pfabric.py, which builds a star network, runs the four schemes one      *)
(* after the other on it and writes one file per flow; at the end          *)
(* eval_utils.py reads the files.                                          *)
(*                                                                         *)
(* External: Mininet builds and removes the interfaces; a flow is an iperf *)
(* process, whose file is complete when it ends.  The DCTCP and ECN        *)
(* switches belong to the machine and outlive the network.                 *)
(***************************************************************************)
EXTENDS Integers, Sequences, FiniteSets

CONSTANTS Loads,       \* n_flows of run.sh, in order
          n_hosts,     \* sending hosts
          n_runs,
          NUM_BUCKETS, \* number of flow sizes
          MaxFailed    \* bound on the commands that fail in one set_up

ASSUME ExperimentAssumption ==
  /\ Loads \in Seq(Nat \ {0}) /\ Loads # <<>>
  /\ \A i, j \in 1 .. Len(Loads) : Loads[i] = Loads[j] => i = j
  /\ n_hosts \in Nat \ {0} /\ n_runs \in Nat \ {0} /\ NUM_BUCKETS \in Nat \ {0}
  /\ MaxFailed \in Nat

Tests == <<"baseline", "tcp-droptail", "dctcp", "pfabric">>

SCHEMES == {"tcp-droptail", "pfabric"}

Hosts == 0 .. n_hosts - 1

\* The commands of set_up and, of them, those that tear_down reverts.
Switches == {"DCTCP_SET", "ECN_SET"}
Commands == {"DELETE_QDISC", "HTB_ADD", "HTB_CLASS_ADD", "LEAF_ADD"} \cup Switches

VARIABLES
  pc,        \* where run.sh and pfabric.py are
  load,      \* index into Loads
  test,      \* index into Tests
  r,         \* the run of the test
  launched,  \* flows started in this run
  clients,   \* the flows of each host that start_senders waits for
  running,   \* flows whose iperf client has not ended
  files,     \* complete result files
  dirs,      \* loads with a directory of baseline results
  made,      \* the directory of the baseline test exists
  enabled,   \* Switches that are on
  port,      \* what is installed at the switch port of the server
  loaded,    \* the kernel module is loaded
  result,    \* outcome of the evaluation
  failed,    \* history: commands that failed in the set_up of this test
  leftover,  \* history: Switches that the last DCTCP test did not turn off
  cut        \* history: loads at which pfabric.py met an exception

place   == <<load, test, r, launched, clients>>
disk    == <<files, dirs, made>>
network == <<enabled, port, failed, leftover>>
expVars == <<pc, place, running, disk, network, loaded, result, cut>>

Scheme == Tests[test]
nflows == Loads[load]

ExpInit ==
  /\ pc = "insmod"
  /\ load = 1 /\ test = 1 /\ r = 0 /\ launched = 0
  /\ clients = [h \in Hosts |-> {}]
  /\ running = {}
  /\ files = {} /\ dirs = {} /\ made = FALSE
  /\ enabled = {}
  /\ port = "none"
  /\ loaded \in BOOLEAN
  /\ result = "none"
  /\ failed = {} /\ leftover = {} /\ cut = {}

(***************************************************************************)
(* set -e ends run.sh when insmod fails.                                   *)
(***************************************************************************)
insmod ==
  /\ pc = "insmod"
  /\ \/ loaded' = TRUE /\ pc' = "main"
     \/ ~ loaded /\ pc' = "exit" /\ UNCHANGED loaded
  /\ UNCHANGED <<place, running, disk, network, result, cut>>

(***************************************************************************)
(* TCLink gives every port a root qdisc of its own; the constructor of     *)
(* BaselineTest makes its directory.                                       *)
(***************************************************************************)
main ==
  /\ pc = "main"
  /\ port' = "tclink"
  /\ made' = TRUE
  /\ test' = 1
  /\ pc' = "set_up"
  /\ UNCHANGED <<load, r, launched, clients, running, files, dirs, enabled, failed, leftover, loaded, result, cut>>

Queue(s) == IF s = "pfabric" THEN "pfabric" ELSE "pfifo"

(***************************************************************************)
(* What a command makes of the port.  External: the kernel refuses a root  *)
(* qdisc where there is one, a class without a new HTB and a leaf where    *)
(* the class is missing or has one; pfabric.py ignores every exit status.  *)
(***************************************************************************)
tc(c, p) ==
  CASE c = "DELETE_QDISC" -> "default"
    [] c = "HTB_ADD" /\ p = "default" -> "htb"
    [] c = "HTB_CLASS_ADD" /\ p = "htb" -> "class"
    [] c = "LEAF_ADD" /\ p = "class" /\ (Scheme = "pfabric" => loaded) -> Queue(Scheme)
    [] OTHER -> p

system(c, p, F) == IF c \in F THEN p ELSE tc(c, p)

\* Fault: the old qdisc is not deleted.
AddedOnTop(F) ==
  system("LEAF_ADD", system("HTB_CLASS_ADD", system("HTB_ADD", port, F), F), F)

\* The port after the commands of set_up, of which those in F fail.
Installed(F) ==
  system("LEAF_ADD", system("HTB_CLASS_ADD", system("HTB_ADD", system("DELETE_QDISC", port, F), F), F), F)

(***************************************************************************)
(* set_up and start_receiver.  Any command may fail, for a reason outside  *)
(* pfabric.py; the next ones are issued all the same.                      *)
(***************************************************************************)
set_up ==
  /\ pc = "set_up"
  /\ \E F \in SUBSET (IF Scheme = "dctcp" THEN Commands ELSE Commands \ Switches) :
       /\ Cardinality(F) <= MaxFailed
       /\ failed' = F
       /\ port' = Installed(F)
       /\ enabled' = IF Scheme = "dctcp" THEN enabled \cup (Switches \ F) ELSE enabled
  /\ r' = 0
  /\ launched' = 0
  /\ clients' = [h \in Hosts |-> {}]
  /\ pc' = "senders"
  /\ UNCHANGED <<load, test, running, disk, leftover, loaded, result, cut>>

(***************************************************************************)
(* start_senders.  The flows of a run are numbered in the order in which   *)
(* the two loops start them; BaselineTest starts one of each size.         *)
(***************************************************************************)
\* Fault: the loop over the hosts stops one short.
OneHostShort == (n_hosts - 1) * nflows

FlowsPerRun == n_hosts * nflows

FlowCount == IF Scheme = "baseline" THEN NUM_BUCKETS ELSE FlowsPerRun

Flow(k) ==
  [test |-> Scheme, load |-> nflows, run |-> r,
   host |-> IF Scheme = "baseline" THEN 0 ELSE k \div nflows,
   flow |-> IF Scheme = "baseline" THEN k ELSE k % nflows]

\* Fault: the list of pids is emptied for every flow.
LastPidOnly(f) == [clients EXCEPT ![f.host] = {f}]

\* clients with the pid of f: BaselineTest waits for its last pid only, the
\* other tests collect those of a host, starting anew at its first flow.
Recorded(f) ==
  [clients EXCEPT ![f.host] = {f} \cup (IF Scheme = "baseline" \/ f.flow = 0 THEN {} ELSE @)]

start_senders ==
  /\ pc = "senders"
  /\ launched < FlowCount
  /\ dirs' = IF Scheme = "baseline" THEN dirs \cup {nflows} ELSE dirs
  /\ running' = running \cup {Flow(launched)}
  /\ clients' = Recorded(Flow(launched))
  /\ launched' = launched + 1
  /\ pc' = IF Scheme = "baseline" \/ launched' = FlowCount THEN "wait" ELSE "senders"
  /\ UNCHANGED <<load, test, r, files, made, network, loaded, result, cut>>

FlowEnds ==
  /\ \E f \in running :
       /\ running' = running \ {f}
       /\ files' = files \cup {f}
  /\ UNCHANGED <<pc, place, dirs, made, network, loaded, result, cut>>

(***************************************************************************)
(* The waits end when every recorded client has ended, in whatever order.  *)
(* The baseline goes on with its next flow, the others with the next run;  *)
(* clients keeps the pids of the earlier runs until they are replaced.     *)
(***************************************************************************)
wait ==
  /\ pc = "wait"
  /\ \A h \in Hosts : clients[h] \cap running = {}
  /\ \/ launched < FlowCount /\ pc' = "senders" /\ UNCHANGED <<r, launched>>
     \/ launched = FlowCount /\ r + 1 < n_runs /\ r' = r + 1 /\ launched' = 0 /\ pc' = "senders"
     \/ launched = FlowCount /\ r + 1 = n_runs /\ pc' = "tear_down" /\ UNCHANGED <<r, launched>>
  /\ UNCHANGED <<load, test, clients, running, disk, network, loaded, result, cut>>

NextTest ==
  \/ test < Len(Tests) /\ test' = test + 1 /\ pc' = "set_up" /\ UNCHANGED port
  \/ test = Len(Tests) /\ pc' = "next" /\ port' = "none" /\ UNCHANGED test

\* Fault: DCTCPTest does not override tear_down.
TearDownBase ==
  /\ pc = "tear_down"
  /\ running' \in {{}, running}
  /\ NextTest
  /\ UNCHANGED <<load, r, launched, clients, disk, enabled, failed, leftover, loaded, result, cut>>

(***************************************************************************)
(* tear_down kills what is left of iperf; DCTCPTest also turns its         *)
(* switches off.  Each of these commands may fail as well.  After the last *)
(* test main stops the network.                                            *)
(***************************************************************************)
tear_down ==
  /\ pc = "tear_down"
  /\ running' \in {{}, running}
  /\ \/ /\ Scheme = "dctcp"
        /\ leftover' \in SUBSET Switches
        /\ enabled' = enabled \cap leftover'
     \/ Scheme # "dctcp" /\ UNCHANGED <<enabled, leftover>>
  /\ NextTest
  /\ UNCHANGED <<load, r, launched, clients, disk, failed, loaded, result, cut>>

(***************************************************************************)
(* An exception anywhere in main: the handler kills iperf and removes the  *)
(* network, but calls no tear_down, and pfabric.py ends with status 0.     *)
(***************************************************************************)
except ==
  /\ pc \in {"main", "set_up", "senders", "wait", "tear_down"}
  /\ cut' = cut \cup {nflows}
  /\ running' = {}
  /\ port' = "none"
  /\ leftover' = IF Scheme = "dctcp" /\ pc \in {"senders", "wait", "tear_down"} THEN Switches ELSE leftover
  /\ pc' = "next"
  /\ UNCHANGED <<place, disk, enabled, failed, loaded, result>>

NextLoad ==
  /\ pc = "next"
  /\ \/ load < Len(Loads) /\ load' = load + 1 /\ pc' = "main"
     \/ load = Len(Loads) /\ pc' = "rmmod" /\ UNCHANGED load
  /\ UNCHANGED <<test, r, launched, clients, running, disk, network, loaded, result, cut>>

(***************************************************************************)
(* rmmod fails while a qdisc uses the module, and set -e ends run.sh when  *)
(* it fails.                                                               *)
(***************************************************************************)
rmmod ==
  /\ pc = "rmmod"
  /\ loaded' \in {port = "pfabric", TRUE}
  /\ pc' = IF loaded' THEN "exit" ELSE "evaluate"
  /\ UNCHANGED <<place, running, disk, network, result, cut>>

(***************************************************************************)
(* The files evaluate_scheme asks for: the loads are those with a baseline *)
(* directory; every flow of every host, and the baseline of its bucket.    *)
(***************************************************************************)
Asked ==
  UNION {[test : SCHEMES, load : {n}, run : 0 .. n_runs - 1, host : 0 .. n_hosts - 1, flow : 0 .. n - 1]
         \cup [test : {"baseline"}, load : {n}, run : 0 .. n_runs - 1, host : {0},
               flow : {f % NUM_BUCKETS : f \in 0 .. n - 1}] : n \in dirs}

\* os.listdir fails when no BaselineTest was ever constructed.
evaluate_all ==
  /\ pc = "evaluate"
  /\ result' = IF made /\ Asked \subseteq files THEN "plot" ELSE "error"
  /\ pc' = "exit"
  /\ UNCHANGED <<place, running, disk, network, loaded, cut>>

(***************************************************************************)
(* Control-C: the network is removed, by the handler of pfabric.py or by   *)
(* mn -c; the module stays when a command of the trap before rmmod fails.  *)
(***************************************************************************)
ctrlc ==
  /\ pc # "exit"
  /\ running' = {}
  /\ port' = "none"
  /\ loaded' \in {FALSE, loaded}
  /\ pc' = "exit"
  /\ UNCHANGED <<place, disk, enabled, failed, leftover, result, cut>>

ExpNext ==
  \/ insmod \/ main \/ set_up \/ start_senders \/ FlowEnds \/ wait \/ tear_down
  \/ except \/ NextLoad \/ rmmod \/ evaluate_all \/ ctrlc

ExpSpec == ExpInit /\ [][ExpNext]_expVars
-----------------------------------------------------------------------------
(***************************************************************************)
(* What a flow is measured under, whatever failed before it.  When its own *)
(* set_up went through, its scheme is in force, on a port that an earlier  *)
(* test left complete, half made or untouched.  When only the deletion     *)
(* went through, the port has at least no queue of another scheme.  DCTCP  *)
(* is on outside its test only if turning it off failed, or an exception   *)
(* skipped it, in the last DCTCP test that had turned it on.               *)
(***************************************************************************)
SchemeInForce ==
  \A f \in running :
    /\ failed = {} => port = Queue(f.test) /\ (f.test = "dctcp" => enabled = Switches)
    /\ "DELETE_QDISC" \notin failed => port \in {"default", "htb", "class", Queue(f.test)}
    /\ f.test # "dctcp" => enabled \subseteq leftover

(***************************************************************************)
(* start_senders waits for every client it starts, though clients and pids *)
(* are filled and replaced while other clients run: a baseline flow has    *)
(* the network to itself, flows of two runs or two tests never overlap,    *)
(* even when killall fails, and tear_down finds no flow to kill.           *)
(***************************************************************************)
FlowsUndisturbed ==
  /\ \A f, g \in running : f.test = "baseline" => f = g
  /\ \A f, g \in running : f.test = g.test /\ f.run = g.run
  /\ pc = "tear_down" => running = {}

(***************************************************************************)
(* The names that eval_utils.py puts together are those pfabric.py wrote,  *)
(* for every host, bucket and run: a file is missing only at a load where  *)
(* pfabric.py met an exception, whatever happened at the other loads.  The *)
(* module can be removed in any case.                                      *)
(***************************************************************************)
EvaluationComplete ==
  /\ pc = "rmmod" => port # "pfabric"
  /\ pc = "evaluate" => \A a \in Asked \ files : a.load \in cut
  /\ result = "error" => cut # {}
=============================================================================
