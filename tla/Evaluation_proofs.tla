-------------------------- MODULE Evaluation_proofs --------------------------
(***************************************************************************)
(* The evaluation of the schemes: the experiment that measures them, for any *)
(* loads, hosts, runs, buckets and exceptions, and the ideal scheduler they *)
(* are compared with, for any flows, sizes and payload.                    *)
(***************************************************************************)
EXTENDS Experiment, IdealScheduler, Totals_proofs

\* A leaf is tried with SMT, then with Zenon, then with SMT and more time.
USE SMT, Zenon, SMTT(30)

USE ExperimentAssumption

LoadIndex == 1 .. Len(Loads)
TestIndex == 1 .. 4
RunIndex  == 0 .. n_runs - 1

Testing == {"senders", "wait", "tear_down"}

ExpTypeOK ==
  /\ pc \in {"insmod", "main", "set_up", "next", "rmmod", "evaluate", "exit"} \cup Testing
  /\ load \in LoadIndex /\ test \in TestIndex /\ r \in RunIndex /\ launched \in Nat
  /\ clients = [h \in Hosts |-> clients[h]]
  /\ enabled \subseteq Switches /\ leftover \subseteq Switches

(***************************************************************************)
(* The machine in every phase of a test: what set_up has installed stays   *)
(* until tear_down, and between the tests of two schemes only switches     *)
(* that are left over are on.                                              *)
(***************************************************************************)
NetworkInv ==
  /\ pc \in Testing =>
       /\ failed = {} => port = Queue(Scheme) /\ (Scheme = "dctcp" => enabled = Switches)
       /\ "DELETE_QDISC" \notin failed => port \in {"default", "htb", "class", Queue(Scheme)}
  /\ ~ (pc \in Testing /\ Scheme = "dctcp") /\ pc # "exit" => enabled \subseteq leftover
  /\ pc \in {"main", "set_up", "next"} \cup Testing => loaded
  /\ pc \in {"next", "rmmod", "evaluate"} => port = "none"

(***************************************************************************)
(* Every client that runs was started in this run and is on the list of    *)
(* its host, so that the waits do not end before it.                       *)
(***************************************************************************)
FlowInv ==
  /\ running # {} => pc \in {"senders", "wait"}
  /\ \A f \in running : \E k \in 0 .. launched - 1 : f = Flow(k)
  /\ \A f \in running : f.host \in Hosts /\ f \in clients[f.host]
  /\ Scheme = "baseline" => /\ pc = "senders" => running = {}
                            /\ \A f, g \in running : f = g

(***************************************************************************)
(* The files that run i of a test writes at load n.                        *)
(***************************************************************************)
RunFiles(s, n, i) ==
  IF s = "baseline"
  THEN [test : {s}, load : {n}, run : {i}, host : {0}, flow : 0 .. NUM_BUCKETS - 1]
  ELSE [test : {s}, load : {n}, run : {i}, host : 0 .. n_hosts - 1, flow : 0 .. n - 1]

(***************************************************************************)
(* Run i of test t at load l is over.                                      *)
(***************************************************************************)
Past(l, t, i) ==
  \/ l < load
  \/ /\ l = load
     /\ \/ pc \in {"set_up"} \cup Testing /\ t < test
        \/ pc \in {"senders", "wait"} /\ t = test /\ i < r
        \/ pc = "tear_down" /\ t = test
        \/ pc \in {"next", "rmmod", "evaluate"}

(***************************************************************************)
(* At a load without an exception, every run that is over has left all its *)
(* files, and of the current run every flow that was started is running or *)
(* has left its file.                                                      *)
(***************************************************************************)
RecordInv ==
  /\ dirs \subseteq {Loads[l] : l \in LoadIndex}
  /\ pc \in {"rmmod", "evaluate"} => load = Len(Loads)
  /\ pc # "exit" => \A l \in LoadIndex, t \in TestIndex, i \in RunIndex :
                      Past(l, t, i) /\ Loads[l] \notin cut => RunFiles(Tests[t], Loads[l], i) \subseteq files
  /\ pc \in {"senders", "wait"} => \A k \in 0 .. launched - 1 : Flow(k) \in files \cup running
  /\ pc \notin {"insmod", "main", "exit"} => made \/ cut # {}
  /\ result = "error" => cut # {}

ExpInv == ExpTypeOK /\ NetworkInv /\ FlowInv /\ RecordInv
-----------------------------------------------------------------------------
\* The four tests in the order in which pfabric.py runs them.
LEMMA TestNames ==
  /\ Len(Tests) = 4 /\ Tests[1] = "baseline" /\ Tests[2] = "tcp-droptail"
  /\ Tests[3] = "dctcp" /\ Tests[4] = "pfabric"
BY DEF Tests

\* Every load of run.sh is a positive number of flows.
LEMMA LoadNumbers ==
  Len(Loads) \in Nat \ {0} /\ \A l \in LoadIndex : Loads[l] \in Nat \ {0}
BY DEF LoadIndex

(***************************************************************************)
(* The places of the two nested loops, for every step.                     *)
(***************************************************************************)
LEMMA ExpTypeNext == ExpTypeOK /\ [ExpNext]_expVars => ExpTypeOK'
<1> SUFFICES ASSUME ExpTypeOK, [ExpNext]_expVars PROVE ExpTypeOK'
  OBVIOUS
<1> USE DEF ExpTypeOK, place, disk, network, LoadIndex, TestIndex, RunIndex, Testing
<1>1. CASE insmod
  BY <1>1 DEF insmod
<1>2. CASE main
  BY <1>2 DEF main
<1>3. CASE set_up
  BY <1>3 DEF set_up
<1>4. CASE start_senders
  <2>1. clients' = [h \in Hosts |-> clients'[h]]
    BY <1>4 DEF start_senders, Recorded
  <2> QED BY <1>4, <2>1 DEF start_senders
<1>5. CASE FlowEnds
  BY <1>5 DEF FlowEnds
<1>6. CASE wait
  BY <1>6 DEF wait
<1>7. CASE tear_down
  <2>1. test' \in TestIndex /\ pc' \in {"set_up", "next"}
    BY <1>7, TestNames DEF tear_down, NextTest
  <2>2. enabled' \subseteq Switches /\ leftover' \subseteq Switches
    BY <1>7 DEF tear_down
  <2> QED BY <1>7, <2>1, <2>2 DEF tear_down
<1>8. CASE except
  BY <1>8 DEF except
<1>9. CASE NextLoad
  BY <1>9, LoadNumbers DEF NextLoad
<1>10. CASE rmmod
  BY <1>10 DEF rmmod
<1>11. CASE evaluate_all
  BY <1>11 DEF evaluate_all
<1>12. CASE ctrlc
  BY <1>12 DEF ctrlc
<1>13. CASE UNCHANGED expVars
  BY <1>13 DEF expVars
<1> QED BY <1>1, <1>2, <1>3, <1>4, <1>5, <1>6, <1>7, <1>8, <1>9, <1>10, <1>11, <1>12, <1>13
        DEF ExpNext

(***************************************************************************)
(* The commands of set_up, from whatever an earlier test has left at the   *)
(* port: the queue of the scheme when none fails, and once the deletion    *)
(* went through nothing but a part of it.                                  *)
(***************************************************************************)
LEMMA WhatIsInstalled ==
  ASSUME NEW F, loaded
  PROVE  /\ F = {} => Installed(F) = Queue(Scheme)
         /\ "DELETE_QDISC" \notin F => Installed(F) \in {"default", "htb", "class", Queue(Scheme)}
<1>1. "DELETE_QDISC" \notin F => system("DELETE_QDISC", port, F) = "default"
  BY DEF system, tc
<1> DEFINE p2 == system("HTB_ADD", "default", F)
           p3 == system("HTB_CLASS_ADD", p2, F)
           p4 == system("LEAF_ADD", p3, F)
<1>2. p2 \in {"default", "htb"} /\ (F = {} => p2 = "htb")
  BY DEF system, tc
<1> HIDE DEF p2
<1>3. p3 \in {"default", "htb", "class"} /\ (F = {} => p3 = "class")
  BY <1>2 DEF system, tc
<1> HIDE DEF p3
<1>4. p4 \in {"default", "htb", "class", Queue(Scheme)} /\ (F = {} => p4 = Queue(Scheme))
  BY <1>3 DEF system, tc
<1>5. "DELETE_QDISC" \notin F => Installed(F) = p4
  BY <1>1 DEF Installed, p2, p3
<1> QED BY <1>4, <1>5

(***************************************************************************)
(* set_up puts the scheme in force; tear_down and the exception handler    *)
(* leave on what leftover says.                                            *)
(***************************************************************************)
LEMMA NetworkNext == ExpTypeOK /\ NetworkInv /\ [ExpNext]_expVars => NetworkInv'
<1> SUFFICES ASSUME ExpTypeOK, NetworkInv, [ExpNext]_expVars PROVE NetworkInv'
  OBVIOUS
<1> USE DEF NetworkInv, place, disk, network, Scheme, Testing
<1>1. CASE insmod
  BY <1>1 DEF insmod
<1>2. CASE main
  BY <1>2 DEF main
<1>3. CASE set_up
  <2>1. PICK F : failed' = F /\ port' = Installed(F)
                 /\ enabled' = IF Scheme = "dctcp" THEN enabled \cup (Switches \ F) ELSE enabled
    BY <1>3 DEF set_up
  <2>2. /\ pc = "set_up" /\ pc' = "senders" /\ UNCHANGED <<test, leftover, loaded>> /\ loaded
        /\ Queue(Scheme)' = Queue(Scheme)
    BY <1>3 DEF set_up, Queue
  <2>3. /\ failed' = {} => port' = Queue(Scheme)'
        /\ "DELETE_QDISC" \notin failed' => port' \in {"default", "htb", "class", Queue(Scheme)'}
    BY <2>1, <2>2, WhatIsInstalled
  <2>4. Scheme = "dctcp" /\ failed' = {} => enabled' = Switches
    BY <2>1 DEF ExpTypeOK
  <2>5. Scheme # "dctcp" => enabled' \subseteq leftover'
    BY <2>1, <2>2
  <2> HIDE DEF NetworkInv
  <2> QED BY <2>2, <2>3, <2>4, <2>5 DEF NetworkInv
<1>4. CASE start_senders
  BY <1>4 DEF start_senders, Queue
<1>5. CASE FlowEnds
  BY <1>5 DEF FlowEnds, Queue
<1>6. CASE wait
  BY <1>6 DEF wait, Queue
<1>7. CASE tear_down
  <2>1. pc = "tear_down" /\ pc' \in {"set_up", "next"} /\ (pc' = "next" => port' = "none") /\ UNCHANGED loaded
    BY <1>7 DEF tear_down, NextTest
  <2>2. enabled' \subseteq leftover'
    BY <1>7 DEF tear_down
  <2> QED BY <2>1, <2>2
<1>8. CASE except
  BY <1>8 DEF except, ExpTypeOK
<1>9. CASE NextLoad
  BY <1>9 DEF NextLoad
<1>10. CASE rmmod
  BY <1>10 DEF rmmod
<1>11. CASE evaluate_all
  BY <1>11 DEF evaluate_all
<1>12. CASE ctrlc
  BY <1>12 DEF ctrlc
<1>13. CASE UNCHANGED expVars
  BY <1>13 DEF expVars, Queue
<1> QED BY <1>1, <1>2, <1>3, <1>4, <1>5, <1>6, <1>7, <1>8, <1>9, <1>10, <1>11, <1>12, <1>13
        DEF ExpNext

(***************************************************************************)
(* The number of the host of a flow, and that the flows before the first   *)
(* one of a host belong to other hosts.                                    *)
(***************************************************************************)
LEMMA HostNumber ==
  ASSUME NEW n \in Nat \ {0}, NEW m \in Nat, NEW l \in 0 .. m * n - 1
  PROVE  /\ l \div n \in 0 .. m - 1
         /\ l % n = 0 => \A k \in 0 .. l - 1 : k \div n # l \div n
OBVIOUS

(***************************************************************************)
(* start_senders puts the client on the list of its host without losing    *)
(* one that runs, so the waits end only when none runs.                    *)
(***************************************************************************)
LEMMA FlowNext == ExpTypeOK /\ FlowInv /\ [ExpNext]_expVars => FlowInv'
<1> SUFFICES ASSUME ExpTypeOK, FlowInv, [ExpNext]_expVars PROVE FlowInv'
  OBVIOUS
<1>0. running' = {} => FlowInv'
  BY DEF FlowInv
<1>1. CASE insmod \/ main \/ set_up \/ except \/ NextLoad \/ rmmod \/ evaluate_all \/ ctrlc
  <2>1. running' = {}
    BY <1>1 DEF insmod, main, set_up, except, NextLoad, rmmod, evaluate_all, ctrlc, FlowInv
  <2> QED BY <1>0, <2>1
<1>2. CASE start_senders
  <2> DEFINE f == Flow(launched)
  <2>3. nflows \in Nat \ {0} /\ FlowCount \in Nat
    BY LoadNumbers DEF nflows, ExpTypeOK, FlowCount, FlowsPerRun
  <2>0. launched \in 0 .. FlowCount - 1
    BY <1>2, <2>3 DEF start_senders, ExpTypeOK
  <2>1. /\ pc = "senders" /\ UNCHANGED <<load, test, r>>
        /\ running' = running \cup {f} /\ launched' = launched + 1
        /\ pc' \in {"senders", "wait"} /\ (Scheme = "baseline" => pc' = "wait")
        /\ clients' = [clients EXCEPT ![f.host] = {f} \cup (IF Scheme = "baseline" \/ f.flow = 0 THEN {} ELSE @)]
    BY <1>2 DEF start_senders, Recorded
  <2>2. \A k : Flow(k)' = Flow(k)
    BY <2>1 DEF Flow, Scheme, nflows
  <2>4. f.host \in Hosts
    <3>1. CASE Scheme = "baseline"
      BY <3>1 DEF Flow, Hosts
    <3>2. CASE Scheme # "baseline"
      <4>1. launched \in 0 .. n_hosts * nflows - 1
        BY <2>0, <3>2 DEF FlowCount, FlowsPerRun
      <4>2. f.host = launched \div nflows
        BY <3>2 DEF Flow
      <4>3. launched \div nflows \in 0 .. n_hosts - 1
        BY <2>3, <4>1, HostNumber
      <4> HIDE DEF f
      <4> QED BY <4>2, <4>3 DEF Hosts
    <3> QED BY <3>1, <3>2
  <2>5. f.flow = 0 /\ Scheme # "baseline" => \A g \in running : g.host # f.host
    <3> SUFFICES ASSUME f.flow = 0, Scheme # "baseline", NEW g \in running PROVE g.host # f.host
      OBVIOUS
    <3>1. PICK k \in 0 .. launched - 1 : g = Flow(k)
      BY DEF FlowInv
    <3>2. g.host = k \div nflows /\ f.host = launched \div nflows /\ launched % nflows = 0
      BY <3>1 DEF Flow
    <3>3. launched \in 0 .. n_hosts * nflows - 1
      BY <2>0 DEF FlowCount, FlowsPerRun
    <3> QED BY <2>3, <3>2, <3>3, HostNumber
  <2>6. Scheme = "baseline" => running = {}
    BY <2>1 DEF FlowInv
  <2>7. f \in clients'[f.host] /\ \A g \in running : g \in clients'[g.host]
    BY <2>1, <2>4, <2>5, <2>6 DEF FlowInv, ExpTypeOK
  <2>8. \A g \in running' : \E k \in 0 .. launched' - 1 : g = Flow(k)'
    <3>1. 0 .. launched - 1 \subseteq 0 .. launched' - 1 /\ launched \in 0 .. launched' - 1
      BY <2>1 DEF ExpTypeOK
    <3>2. \E k \in 0 .. launched' - 1 : f = Flow(k)'
      <4>1. \E k \in 0 .. launched' - 1 : f = Flow(k)
        BY <3>1
      <4> QED BY <2>2, <4>1
    <3> HIDE DEF f
    <3>3. \A g \in running : \E k \in 0 .. launched' - 1 : g = Flow(k)'
      BY <2>2, <3>1 DEF FlowInv
    <3> QED BY <2>1, <3>1, <3>2, <3>3
  <2>9. Scheme' = Scheme
    BY <2>1 DEF Scheme
  <2> HIDE DEF f
  <2>10. \A g \in running' : g.host \in Hosts /\ g \in clients'[g.host]
    BY <2>1, <2>4, <2>7 DEF FlowInv
  <2>11. Scheme' = "baseline" => (pc' # "senders") /\ \A g, h \in running' : g = h
    BY <2>1, <2>6, <2>9
  <2> QED BY <2>1, <2>8, <2>10, <2>11 DEF FlowInv
<1>3. CASE FlowEnds
  <2>1. running' \subseteq running /\ UNCHANGED <<pc, load, test, r, launched, clients>>
    BY <1>3 DEF FlowEnds, place
  <2>2. Scheme' = Scheme /\ \A k : Flow(k)' = Flow(k)
    BY <2>1 DEF Flow, Scheme, nflows
  <2> QED BY <2>1, <2>2 DEF FlowInv
<1>4. CASE wait
  <2>1. running = {}
    BY <1>4 DEF wait, FlowInv
  <2> QED BY <1>0, <1>4, <2>1 DEF wait
<1>5. CASE tear_down
  <2>1. running = {}
    BY <1>5 DEF tear_down, FlowInv
  <2> QED BY <1>0, <1>5, <2>1 DEF tear_down
<1>6. CASE UNCHANGED expVars
  <2>1. UNCHANGED <<pc, load, test, r, launched, clients, running>>
    BY <1>6 DEF expVars, place
  <2>2. Scheme' = Scheme /\ \A k : Flow(k)' = Flow(k)
    BY <2>1 DEF Flow, Scheme, nflows
  <2> QED BY <2>1, <2>2 DEF FlowInv
<1> QED BY <1>1, <1>2, <1>3, <1>4, <1>5, <1>6 DEF ExpNext

\* run.sh starts with nothing written and nothing running.
LEMMA ExpInitInv == ExpInit => ExpInv
<1> SUFFICES ASSUME ExpInit PROVE ExpInv
  OBVIOUS
<1>1. ExpTypeOK
  <2>1. 1 \in LoadIndex /\ 1 \in TestIndex /\ 0 \in RunIndex
    BY LoadNumbers DEF LoadIndex, TestIndex, RunIndex
  <2> QED BY <2>1 DEF ExpInit, ExpTypeOK
<1>2. NetworkInv
  BY DEF ExpInit, NetworkInv, Testing
<1>3. FlowInv
  BY DEF ExpInit, FlowInv
<1>4. RecordInv
  BY DEF ExpInit, RecordInv, Past, LoadIndex, Testing
<1> QED BY <1>1, <1>2, <1>3, <1>4 DEF ExpInv

(***************************************************************************)
(* Every host and flow number is reached by the counter of start_senders.  *)
(***************************************************************************)
LEMMA FlowNumber ==
  ASSUME NEW n \in Nat \ {0}, NEW m \in Nat, NEW h \in 0 .. m - 1, NEW f \in 0 .. n - 1
  PROVE  /\ h * n + f \in 0 .. m * n - 1
         /\ (h * n + f) \div n = h
         /\ (h * n + f) % n = f
OBVIOUS

(***************************************************************************)
(* A run whose numbered flows have all left their files has left the file  *)
(* of every host and flow.                                                 *)
(***************************************************************************)
LEMMA RunWritten ==
  ASSUME ExpTypeOK, \A k \in 0 .. FlowCount - 1 : Flow(k) \in files
  PROVE  RunFiles(Scheme, nflows, r) \subseteq files
<1>0. nflows \in Nat \ {0}
  BY LoadNumbers DEF nflows, ExpTypeOK
<1>1. CASE Scheme = "baseline"
  <2> SUFFICES ASSUME NEW f \in 0 .. NUM_BUCKETS - 1
               PROVE  [test |-> Scheme, load |-> nflows, run |-> r, host |-> 0, flow |-> f] \in files
    BY <1>1 DEF RunFiles
  <2>1. f \in 0 .. FlowCount - 1
    BY <1>1 DEF FlowCount
  <2>2. Flow(f) = [test |-> Scheme, load |-> nflows, run |-> r, host |-> 0, flow |-> f]
    BY <1>1 DEF Flow
  <2> QED BY <2>1, <2>2
<1>2. CASE Scheme # "baseline"
  <2> SUFFICES ASSUME NEW h \in 0 .. n_hosts - 1, NEW f \in 0 .. nflows - 1
               PROVE  [test |-> Scheme, load |-> nflows, run |-> r, host |-> h, flow |-> f] \in files
    BY <1>2 DEF RunFiles
  <2> DEFINE k == h * nflows + f
  <2>1. k \in 0 .. n_hosts * nflows - 1 /\ k \div nflows = h /\ k % nflows = f
    BY <1>0, FlowNumber
  <2> HIDE DEF k
  <2>2. Flow(k) = [test |-> Scheme, load |-> nflows, run |-> r, host |-> h, flow |-> f]
    BY <1>2, <2>1 DEF Flow
  <2> QED BY <1>2, <2>1, <2>2 DEF FlowCount, FlowsPerRun
<1> QED BY <1>1, <1>2

(***************************************************************************)
(* When run.sh comes to the evaluation, everything it asks for at a load   *)
(* without an exception was written: every load of dirs is one of Loads,   *)
(* and all runs at all loads are over.                                     *)
(***************************************************************************)
LEMMA AskedWritten ==
  ASSUME ExpTypeOK, RecordInv, pc = "evaluate"
  PROVE  \A a \in Asked \ files : a.load \in cut
<1>1. \A l \in LoadIndex, t \in TestIndex, i \in RunIndex :
        Loads[l] \notin cut => RunFiles(Tests[t], Loads[l], i) \subseteq files
  <2>1. load = Len(Loads)
    BY DEF RecordInv
  <2>2. \A l \in LoadIndex : l < load \/ l = load
    BY <2>1, LoadNumbers DEF LoadIndex
  <2>3. \A l \in LoadIndex, t \in TestIndex, i \in RunIndex : Past(l, t, i)
    BY <2>2 DEF Past
  <2> QED BY <2>3 DEF RecordInv
<1> SUFFICES ASSUME NEW a \in Asked, a.load \notin cut PROVE a \in files
  OBVIOUS
<1>2. PICK n \in dirs :
        \/ a \in [test : SCHEMES, load : {n}, run : 0 .. n_runs - 1, host : 0 .. n_hosts - 1, flow : 0 .. n - 1]
        \/ a \in [test : {"baseline"}, load : {n}, run : 0 .. n_runs - 1, host : {0},
                  flow : {f % NUM_BUCKETS : f \in 0 .. n - 1}]
  BY DEF Asked
<1>3. PICK l \in LoadIndex : n = Loads[l]
  BY DEF RecordInv
<1>4. CASE a \in [test : SCHEMES, load : {n}, run : 0 .. n_runs - 1, host : 0 .. n_hosts - 1, flow : 0 .. n - 1]
  <2>0. a.load = n /\ Loads[l] \notin cut
    BY <1>3, <1>4
  <2>1. PICK t \in TestIndex : Tests[t] = a.test /\ a.test # "baseline"
    BY <1>4, TestNames DEF SCHEMES, TestIndex
  <2>2. RunFiles(a.test, n, a.run) \subseteq files
    BY <1>1, <1>3, <1>4, <2>0, <2>1 DEF RunIndex
  <2>3. a \in RunFiles(a.test, n, a.run)
    BY <1>4, <2>1 DEF RunFiles
  <2> QED BY <2>2, <2>3
<1>5. CASE a \in [test : {"baseline"}, load : {n}, run : 0 .. n_runs - 1, host : {0},
                  flow : {f % NUM_BUCKETS : f \in 0 .. n - 1}]
  <2>0. a.load = n /\ Loads[l] \notin cut
    BY <1>3, <1>5
  <2>1. RunFiles("baseline", n, a.run) \subseteq files
    BY <1>1, <1>3, <1>5, <2>0, TestNames DEF TestIndex, RunIndex
  <2>2. \A f \in 0 .. n - 1 : f % NUM_BUCKETS \in 0 .. NUM_BUCKETS - 1
    BY <1>3, LoadNumbers
  <2>3. a \in RunFiles("baseline", n, a.run)
    BY <1>5, <2>2 DEF RunFiles
  <2> QED BY <2>1, <2>3
<1> QED BY <1>2, <1>4, <1>5

(***************************************************************************)
(* No step but the wait makes a run past that was not, and none loses a    *)
(* file.                                                                   *)
(***************************************************************************)
LEMMA RecordNext == ExpTypeOK /\ FlowInv /\ RecordInv /\ [ExpNext]_expVars => RecordInv'
<1> SUFFICES ASSUME ExpTypeOK, FlowInv, RecordInv, [ExpNext]_expVars PROVE RecordInv'
  OBVIOUS
<1> DEFINE Kept == \A l \in LoadIndex, t \in TestIndex, i \in RunIndex : Past(l, t, i)' => Past(l, t, i)
<1>1. CASE insmod
  BY <1>1 DEF insmod, RecordInv, Past, place, disk, Testing
<1>2. CASE main
  <2>1. Kept
    BY <1>2 DEF main, Past, TestIndex, Testing
  <2> QED BY <1>2, <2>1 DEF main, RecordInv
<1>3. CASE set_up
  <2>1. Kept
    BY <1>3 DEF set_up, Past, RunIndex, Testing
  <2> QED BY <1>3, <2>1 DEF set_up, RecordInv, disk
<1>4. CASE start_senders
  <2>1. /\ pc = "senders" /\ pc' \in {"senders", "wait"} /\ UNCHANGED <<load, test, r, files, made, result, cut>>
        /\ running' = running \cup {Flow(launched)} /\ launched' = launched + 1
    BY <1>4 DEF start_senders
  <2>2. Kept
    BY <2>1 DEF Past, Testing
  <2>3. \A k : Flow(k)' = Flow(k)
    BY <2>1 DEF Flow, Scheme, nflows
  <2>4. \A k \in 0 .. launched' - 1 : k = launched \/ k \in 0 .. launched - 1
    BY <2>1 DEF ExpTypeOK
  <2>5. dirs' \subseteq {Loads[l] : l \in LoadIndex}
    BY <1>4 DEF start_senders, RecordInv, nflows, ExpTypeOK
  <2>6. \A k \in 0 .. launched' - 1 : Flow(k)' \in files' \cup running'
    BY <2>1, <2>3, <2>4 DEF RecordInv
  <2> QED BY <2>1, <2>2, <2>5, <2>6 DEF RecordInv
<1>5. CASE FlowEnds
  <2>1. /\ UNCHANGED <<pc, load, test, r, launched, dirs, made, result, cut>>
        /\ files \subseteq files' /\ files \cup running = files' \cup running'
    BY <1>5 DEF FlowEnds, place
  <2>2. Kept
    BY <2>1 DEF Past
  <2>3. \A k : Flow(k)' = Flow(k)
    BY <2>1 DEF Flow, Scheme, nflows
  <2>4. pc \in {"senders", "wait"} => \A k \in 0 .. launched' - 1 : Flow(k)' \in files' \cup running'
    BY <2>1, <2>3 DEF RecordInv
  <2> QED BY <2>1, <2>2, <2>4 DEF RecordInv
<1>6. CASE wait
  <2>1. /\ pc = "wait" /\ running = {}
        /\ UNCHANGED <<load, test, running, files, dirs, made, result, cut>>
    BY <1>6 DEF wait, disk, FlowInv
  <2>2. CASE pc' = "senders" /\ UNCHANGED <<r, launched>>
    <3>1. Kept
      BY <2>1, <2>2 DEF Past, Testing
    <3>2. \A k : Flow(k)' = Flow(k)
      BY <2>1, <2>2 DEF Flow, Scheme, nflows
    <3>3. \A k \in 0 .. launched' - 1 : Flow(k)' \in files' \cup running'
      BY <2>1, <2>2, <3>2 DEF RecordInv
    <3> QED BY <2>1, <2>2, <3>1, <3>3 DEF RecordInv
  <2>3. CASE /\ launched = FlowCount
             /\ \/ r' = r + 1 /\ launched' = 0 /\ pc' = "senders"
                \/ r + 1 = n_runs /\ pc' = "tear_down"
    <3>1. RunFiles(Scheme, nflows, r) \subseteq files
      BY <2>1, <2>3, RunWritten DEF RecordInv
    <3>2. \A l \in LoadIndex, t \in TestIndex, i \in RunIndex :
            Past(l, t, i)' => Past(l, t, i) \/ (l = load /\ t = test /\ i = r)
      BY <2>1, <2>3 DEF Past, RunIndex, ExpTypeOK, Testing
    <3>3. \A l \in LoadIndex, t \in TestIndex, i \in RunIndex :
            Past(l, t, i)' /\ Loads[l] \notin cut => RunFiles(Tests[t], Loads[l], i) \subseteq files
      BY <2>1, <3>1, <3>2 DEF RecordInv, Scheme, nflows
    <3>4. pc' = "senders" => 0 .. launched' - 1 = {}
      BY <2>3
    <3> QED BY <2>1, <2>3, <3>3, <3>4 DEF RecordInv
  <2> QED BY <1>6, <2>2, <2>3 DEF wait
<1>7. CASE tear_down
  <2>1. /\ pc = "tear_down" /\ UNCHANGED <<load, files, dirs, made, result, cut>>
        /\ \/ test' = test + 1 /\ pc' = "set_up"
           \/ test = 4 /\ pc' = "next"
    BY <1>7, TestNames DEF tear_down, NextTest, disk
  <2>2. Kept
    BY <2>1 DEF Past, TestIndex, ExpTypeOK, Testing
  <2> QED BY <2>1, <2>2 DEF RecordInv
<1>8. CASE except
  <2>1. /\ pc # "exit" /\ pc' = "next" /\ UNCHANGED <<load, files, dirs, made, result>>
        /\ cut' = cut \cup {Loads[load]}
    BY <1>8 DEF except, disk, place, nflows
  <2>2. \A l \in LoadIndex, t \in TestIndex, i \in RunIndex : Past(l, t, i)' => l = load \/ Past(l, t, i)
    BY <2>1 DEF Past
  <2> QED BY <2>1, <2>2 DEF RecordInv
<1>9. CASE NextLoad
  <2>1. /\ pc = "next" /\ UNCHANGED <<files, dirs, made, result, cut>>
        /\ \/ load' = load + 1 /\ pc' = "main"
           \/ load = Len(Loads) /\ load' = load /\ pc' = "rmmod"
    BY <1>9 DEF NextLoad, disk
  <2>2. Kept
    BY <2>1 DEF Past, LoadIndex, ExpTypeOK, Testing
  <2> QED BY <2>1, <2>2 DEF RecordInv
<1>10. CASE rmmod
  <2>1. /\ pc = "rmmod" /\ UNCHANGED <<load, test, r, files, dirs, made, result, cut>>
        /\ pc' \in {"exit", "evaluate"}
    BY <1>10 DEF rmmod, place, disk
  <2>2. pc' = "evaluate" => Kept
    BY <2>1 DEF Past
  <2> QED BY <2>1, <2>2 DEF RecordInv
<1>11. CASE evaluate_all
  <2>1. /\ pc = "evaluate" /\ pc' = "exit" /\ UNCHANGED <<dirs, cut>>
        /\ result' = IF made /\ Asked \subseteq files THEN "plot" ELSE "error"
    BY <1>11 DEF evaluate_all, disk
  <2>2. result' = "error" => cut # {}
    BY <2>1, AskedWritten DEF RecordInv
  <2> QED BY <2>1, <2>2 DEF RecordInv
<1>12. CASE ctrlc
  BY <1>12 DEF ctrlc, RecordInv, disk
<1>13. CASE UNCHANGED expVars
  <2>1. Kept
    BY <1>13 DEF expVars, place, Past
  <2>2. \A k : Flow(k)' = Flow(k)
    BY <1>13 DEF expVars, place, Flow, Scheme, nflows
  <2> QED BY <1>13, <2>1, <2>2 DEF expVars, place, disk, RecordInv
<1> QED BY <1>1, <1>2, <1>3, <1>4, <1>5, <1>6, <1>7, <1>8, <1>9, <1>10, <1>11, <1>12, <1>13
        DEF ExpNext

\* The parts of the invariant, in every state of an experiment.
LEMMA ExpInvariant == ExpSpec => []ExpInv
<1>1. ExpInv /\ [ExpNext]_expVars => ExpInv'
  BY ExpTypeNext, NetworkNext, FlowNext, RecordNext DEF ExpInv
<1> QED BY <1>1, ExpInitInv, PTL DEF ExpSpec

\* A flow that runs is one of the current test and run.
LEMMA FlowsOfNow ==
  ASSUME FlowInv, NEW f \in running
  PROVE  f.test = Scheme /\ f.run = r /\ pc \in {"senders", "wait"}
BY DEF FlowInv, Flow

(***************************************************************************)
(* A flow whose set_up went through is measured under its own scheme, from *)
(* whatever failed commands and exceptions have left behind, and DCTCP is  *)
(* on outside its test only where it was left over.                        *)
(***************************************************************************)
THEOREM Measured == ExpSpec => []SchemeInForce
<1>1. ExpInv => SchemeInForce
  BY FlowsOfNow DEF ExpInv, NetworkInv, SchemeInForce, Testing
<1> QED BY <1>1, ExpInvariant, PTL

(***************************************************************************)
(* The lists that start_senders keeps make it wait for every client it     *)
(* starts, whatever the numbers of hosts, flows and runs.                  *)
(***************************************************************************)
THEOREM Undisturbed == ExpSpec => []FlowsUndisturbed
<1>1. ExpInv => FlowsUndisturbed
  BY FlowsOfNow DEF ExpInv, FlowInv, FlowsUndisturbed
<1> QED BY <1>1, ExpInvariant, PTL

(***************************************************************************)
(* eval_utils.py asks only for files that pfabric.py has written, unless   *)
(* at loads with an exception, for all loads, hosts, buckets and runs, and *)
(* rmmod finds the module unused.                                          *)
(***************************************************************************)
THEOREM Evaluation == ExpSpec => []EvaluationComplete
<1>1. ExpInv => EvaluationComplete
  BY AskedWritten DEF ExpInv, NetworkInv, RecordInv, EvaluationComplete
<1> QED BY <1>1, ExpInvariant, PTL
-----------------------------------------------------------------------------
(***************************************************************************)
(* The ideal scheduler.                                                    *)
(***************************************************************************)
HIDE ExperimentAssumption
USE IdealAssumption

Started(f) == remaining_size[f] < total_size[f]

(***************************************************************************)
(* The inductive invariant.  A flow that has been started is smaller than  *)
(* what is on the list, and so is one that has left it; a completion time  *)
(* is in the past and belongs to a flow that has left the list.            *)
(***************************************************************************)
IdealInv ==
  /\ IdealTypeOK
  /\ NoPreemption
  /\ ShortestFirst
  /\ \A f \in Flows : remaining_size[f] <= total_size[f]
  /\ \A f \in Flows, g \in flows_to_schedule :
       f \notin flows_to_schedule \/ Started(f) => total_size[f] <= total_size[g]
  /\ \A f \in Flows : completion_time[f] <= time
  /\ \A f \in flows_to_schedule : completion_time[f] = -1

(***************************************************************************)
(* schedule_flows starts with all flows untouched.                         *)
(***************************************************************************)
LEMMA IdealInitInv == IdealInit => IdealInv
<1> SUFFICES ASSUME IdealInit PROVE IdealInv
  OBVIOUS
<1>1. \A f \in Flows : /\ total_size[f] \in Nat
                        /\ remaining_size[f] = total_size[f]
                        /\ completion_time[f] = -1
  BY Zenon DEF IdealInit
<1>2. IdealTypeOK
  BY Zenon DEF IdealInit, IdealTypeOK
<1>3. \A f \in Flows : ~ Started(f) /\ remaining_size[f] <= total_size[f]
  BY <1>1 DEF Started
<1>4. NoPreemption /\ ShortestFirst
  BY <1>1 DEF IdealInit, NoPreemption, ShortestFirst
<1> QED
  BY <1>1, <1>2, <1>3, <1>4 DEF IdealInit, IdealInv

(***************************************************************************)
(* A packet takes something from what is left, unless nothing is left.     *)
(***************************************************************************)
LEMMA PacketTakes ==
  ASSUME NEW s \in Nat
  PROVE  /\ AfterPacket(s) \in Nat
         /\ AfterPacket(s) <= s
         /\ s # 0 => AfterPacket(s) < s
BY DEF AfterPacket

(***************************************************************************)
(* The flow that get_min_index picks is no larger than any on the list: if *)
(* it was started before by the invariant, and if not because then none    *)
(* was and sizes are what is left.                                         *)
(***************************************************************************)
LEMMA PickedIsSmallest ==
  ASSUME IdealInv, NEW f \in flows_to_schedule, IsMinIndex(f)
  PROVE  \A g \in flows_to_schedule : total_size[f] <= total_size[g]
<1> SUFFICES ASSUME NEW g \in flows_to_schedule, f # g
             PROVE  total_size[f] <= total_size[g]
  <2>1. total_size[f] \in Nat
    BY Zenon DEF IdealInv, IdealTypeOK
  <2> QED
    BY <2>1
<1>0. /\ f \in Flows /\ g \in Flows
      /\ total_size[f] \in Nat /\ total_size[g] \in Nat
      /\ remaining_size[f] \in Nat /\ remaining_size[g] \in Nat
      /\ remaining_size[f] <= total_size[f] /\ remaining_size[g] <= total_size[g]
  BY Zenon DEF IdealInv, IdealTypeOK
<1>1. CASE Started(f)
  BY <1>0, <1>1 DEF IdealInv
<1>2. CASE ~ Started(f)
  BY <1>0, <1>2 DEF IsMinIndex, Started
<1> QED
  BY <1>1, <1>2

(***************************************************************************)
(* What one quantum changes.                                               *)
(***************************************************************************)
LEMMA QuantumShape ==
  ASSUME IdealInv, NEW f \in flows_to_schedule, Quantum(f)
  PROVE  /\ f \in Flows
         /\ flows_to_schedule \in SUBSET Flows
         /\ total_size \in [Flows -> Nat] /\ total_size \in [Flows -> Sizes]
         /\ remaining_size \in [Flows -> Nat]
         /\ completion_time \in [Flows -> Nat \cup {-1}]
         /\ time \in Nat /\ time' = time + 1
         /\ total_size' = total_size /\ IsMinIndex(f)
         /\ remaining_size' \in [Flows -> Nat]
         /\ remaining_size'[f] = AfterPacket(remaining_size[f])
         /\ remaining_size'[f] <= remaining_size[f]
         /\ remaining_size[f] # 0 => remaining_size'[f] < remaining_size[f]
         /\ \A g \in Flows \ {f} : remaining_size'[g] = remaining_size[g]
         /\ flows_to_schedule' \in SUBSET flows_to_schedule
         /\ \A g \in flows_to_schedule' : remaining_size'[g] > 0
         /\ \A g \in flows_to_schedule : g \notin flows_to_schedule' => remaining_size'[g] = 0
         /\ remaining_size'[f] = 0 => completion_time' = [completion_time EXCEPT ![f] = time + 1]
         /\ remaining_size'[f] # 0 => completion_time' = completion_time
<1>0. /\ f \in Flows
      /\ flows_to_schedule \in SUBSET Flows
      /\ total_size \in [Flows -> Nat] /\ total_size \in [Flows -> Sizes]
      /\ remaining_size \in [Flows -> Nat]
      /\ completion_time \in [Flows -> Nat \cup {-1}]
      /\ time \in Nat
  BY Zenon DEF IdealInv, IdealTypeOK
<1>1. /\ time' = time + 1
      /\ total_size' = total_size
      /\ remaining_size' = [remaining_size EXCEPT ![f] = AfterPacket(@)]
      /\ IsMinIndex(f)
  BY DEF Quantum, packet_sent
<1>2. /\ remaining_size' \in [Flows -> Nat]
      /\ remaining_size'[f] = AfterPacket(remaining_size[f])
      /\ remaining_size'[f] <= remaining_size[f]
      /\ remaining_size[f] # 0 => remaining_size'[f] < remaining_size[f]
      /\ \A g \in Flows \ {f} : remaining_size'[g] = remaining_size[g]
  BY <1>0, <1>1, PacketTakes
<1>3. /\ flows_to_schedule' \in SUBSET flows_to_schedule
      /\ \A g \in flows_to_schedule' : remaining_size'[g] > 0
      /\ \A g \in flows_to_schedule : g \notin flows_to_schedule' => remaining_size'[g] = 0
  <2>1. flows_to_schedule' = {g \in flows_to_schedule : ~ (remaining_size'[g] <= 0)}
    BY DEF Quantum, DropDone, is_done
  <2> QED
    BY <2>1, <1>0, <1>2
<1>4. /\ remaining_size'[f] = 0 => completion_time' = [completion_time EXCEPT ![f] = time + 1]
      /\ remaining_size'[f] # 0 => completion_time' = completion_time
  BY <1>0, <1>1, <1>2 DEF Quantum, packet_sent, is_done
<1> QED BY <1>0, <1>1, <1>2, <1>3, <1>4

(***************************************************************************)
(* One quantum preserves the invariant.                                    *)
(***************************************************************************)
LEMMA IdealNextInv == IdealInv /\ [schedule_flows]_flowVars => IdealInv'
<1> SUFFICES ASSUME IdealInv, [schedule_flows]_flowVars PROVE IdealInv'
  OBVIOUS
<1>1. ASSUME NEW f \in flows_to_schedule, Quantum(f) PROVE IdealInv'
  <2>0. /\ f \in Flows
        /\ flows_to_schedule \in SUBSET Flows
        /\ total_size \in [Flows -> Nat] /\ total_size \in [Flows -> Sizes]
        /\ remaining_size \in [Flows -> Nat]
        /\ completion_time \in [Flows -> Nat \cup {-1}]
        /\ time \in Nat
    BY <1>1, QuantumShape
  <2>1. /\ time' = time + 1
        /\ total_size' = total_size
        /\ IsMinIndex(f)
    BY <1>1, QuantumShape
  <2>2. /\ remaining_size' \in [Flows -> Nat]
        /\ remaining_size'[f] <= remaining_size[f]
        /\ remaining_size[f] # 0 => remaining_size'[f] < remaining_size[f]
        /\ \A g \in Flows \ {f} : remaining_size'[g] = remaining_size[g]
    BY <1>1, QuantumShape
  <2>3. /\ flows_to_schedule' \in SUBSET flows_to_schedule
        /\ \A g \in flows_to_schedule' : remaining_size'[g] > 0
        /\ \A g \in flows_to_schedule : g \notin flows_to_schedule' => remaining_size'[g] = 0
    BY <1>1, QuantumShape
  <2>4. /\ remaining_size'[f] = 0 => completion_time' = [completion_time EXCEPT ![f] = time + 1]
        /\ remaining_size'[f] # 0 => completion_time' = completion_time
    BY <1>1, QuantumShape
  <2>5. \A g \in flows_to_schedule : total_size[f] <= total_size[g]
    BY <2>1, PickedIsSmallest
  <2>6. \A g \in flows_to_schedule : remaining_size[f] <= remaining_size[g]
    BY <2>0, <2>1 DEF IsMinIndex
  <2>a. IdealTypeOK'
    BY <2>0, <2>1, <2>2, <2>3, <2>4 DEF IdealTypeOK
  <2>b. NoPreemption'
    <3> SUFFICES ASSUME NEW a \in flows_to_schedule', NEW b \in flows_to_schedule', a # b,
                        remaining_size'[a] < total_size[a]
                 PROVE  remaining_size'[a] < remaining_size'[b]
      BY <2>1 DEF NoPreemption
    <3>0. /\ a \in flows_to_schedule /\ b \in flows_to_schedule /\ a \in Flows /\ b \in Flows
          /\ remaining_size[a] \in Nat /\ remaining_size[b] \in Nat /\ remaining_size[f] \in Nat
          /\ remaining_size'[a] \in Nat /\ remaining_size'[b] \in Nat
          /\ total_size[a] \in Nat
      BY <2>0, <2>2, <2>3
    <3>1. CASE a = f
      <4>1. remaining_size'[a] > 0
        BY <2>3
      <4>2. remaining_size'[f] < remaining_size[f]
        BY <3>0, <3>1, <4>1, <2>2
      <4> QED
        BY <3>0, <3>1, <4>2, <2>2, <2>6
    <3>2. CASE a # f
      <4>1. remaining_size[a] < total_size[a] /\ remaining_size'[a] = remaining_size[a]
        BY <3>0, <3>2, <2>2
      <4>2. remaining_size[a] < remaining_size[f]
        BY <3>0, <3>2, <4>1 DEF IdealInv, NoPreemption
      <4> QED
        BY <4>2, <3>0, <2>6
    <3> QED
      BY <3>1, <3>2
  <2>c. (\A g \in Flows : remaining_size[g] <= total_size[g])'
    <3> SUFFICES ASSUME NEW g \in Flows PROVE remaining_size'[g] <= total_size[g]
      BY <2>1
    <3>1. /\ remaining_size[g] <= total_size[g] /\ remaining_size[g] \in Nat
          /\ total_size[g] \in Nat /\ remaining_size'[g] \in Nat
      BY <2>0, <2>2 DEF IdealInv
    <3> QED
      BY <3>1, <2>2
  <2>d. (\A a \in Flows, g \in flows_to_schedule :
           a \notin flows_to_schedule \/ Started(a) => total_size[a] <= total_size[g])'
    <3> SUFFICES ASSUME NEW a \in Flows, NEW g \in flows_to_schedule',
                        a \notin flows_to_schedule' \/ remaining_size'[a] < total_size[a]
                 PROVE  total_size[a] <= total_size[g]
      BY <2>1 DEF Started
    <3>0. g \in flows_to_schedule
      BY <2>3
    <3>1. CASE a = f
      BY <3>0, <3>1, <2>5
    <3>2. CASE a # f /\ a \notin flows_to_schedule
      BY <3>0, <3>2 DEF IdealInv
    <3>3. CASE a # f /\ a \in flows_to_schedule /\ a \notin flows_to_schedule'
      <4>1. remaining_size[a] = 0
        BY <3>3, <2>2, <2>3
      <4>2. CASE total_size[a] = 0
        BY <4>2, <3>0, <2>0
      <4>3. CASE total_size[a] # 0
        BY <4>1, <4>3, <3>0, <2>0 DEF IdealInv, Started
      <4> QED
        BY <4>2, <4>3
    <3>4. CASE a # f /\ remaining_size'[a] < total_size[a]
      BY <3>0, <3>4, <2>2 DEF IdealInv, Started
    <3> QED
      BY <3>1, <3>2, <3>3, <3>4
  <2>e. (\A g \in Flows : completion_time[g] <= time)'
    <3> SUFFICES ASSUME NEW g \in Flows PROVE completion_time'[g] <= time + 1
      BY <2>1
    <3>1. completion_time[g] <= time /\ completion_time[g] \in Int
      BY <2>0 DEF IdealInv
    <3> QED
      BY <3>1, <2>0, <2>4, <2>2
  <2>f. (\A g \in flows_to_schedule : completion_time[g] = -1)'
    <3> SUFFICES ASSUME NEW g \in flows_to_schedule' PROVE completion_time'[g] = -1
      OBVIOUS
    <3>1. g \in flows_to_schedule /\ g \in Flows /\ completion_time[g] = -1 /\ remaining_size'[g] # 0
      BY <2>0, <2>2, <2>3 DEF IdealInv
    <3> QED
      BY <3>1, <2>0, <2>4
  <2>g. ShortestFirst'
    <3> SUFFICES ASSUME NEW a \in Flows, NEW b \in Flows,
                        completion_time'[a] # -1, completion_time'[a] < completion_time'[b]
                 PROVE  total_size[a] <= total_size[b]
      BY <2>1 DEF ShortestFirst
    <3>1. CASE completion_time' = completion_time
      BY <3>1 DEF IdealInv, ShortestFirst
    <3>2. CASE completion_time' = [completion_time EXCEPT ![f] = time + 1]
      <4>1. CASE b # f /\ a # f
        BY <3>2, <4>1, <2>0 DEF IdealInv, ShortestFirst
      <4>2. CASE b = f
        <5>1. a # f /\ completion_time[a] # -1
          BY <3>2, <4>2, <2>0
        <5>2. a \notin flows_to_schedule
          BY <5>1 DEF IdealInv
        <5> QED
          BY <5>2, <4>2 DEF IdealInv
      <4>3. CASE a = f /\ b # f
        <5>1. completion_time[b] <= time /\ completion_time[b] \in Int
          BY <2>0 DEF IdealInv
        <5>2. completion_time'[a] = time + 1 /\ completion_time'[b] = completion_time[b]
          BY <3>2, <4>3, <2>0
        <5> QED
          BY <5>1, <5>2, <2>0
      <4> QED
        BY <4>1, <4>2, <4>3
    <3> QED
      BY <3>1, <3>2, <2>4
  <2> QED
    BY <2>a, <2>b, <2>c, <2>d, <2>e, <2>f, <2>g DEF IdealInv
<1>2. CASE UNCHANGED flowVars
  BY <1>2 DEF flowVars, IdealInv, IdealTypeOK, NoPreemption, ShortestFirst, Started
<1> QED
  BY <1>1, <1>2 DEF schedule_flows

(***************************************************************************)
(* The invariant holds after every quantum.                                *)
(***************************************************************************)
THEOREM IdealInvariant == IdealSpec => []IdealInv
BY IdealInitInv, IdealNextInv, PTL DEF IdealSpec

(***************************************************************************)
(* packet_sent never overdraws a flow.                                     *)
(***************************************************************************)
THEOREM IdealTypeCorrect == IdealSpec => []IdealTypeOK
<1>1. IdealInv => IdealTypeOK
  BY DEF IdealInv
<1> QED
  BY <1>1, IdealInvariant, PTL

(***************************************************************************)
(* schedule_flows sends each flow without interruption.                    *)
(***************************************************************************)
THEOREM IdealNoPreemption == IdealSpec => []NoPreemption
<1>1. IdealInv => NoPreemption
  BY DEF IdealInv
<1> QED
  BY <1>1, IdealInvariant, PTL

(***************************************************************************)
(* schedule_flows completes flows in the order of their sizes.             *)
(***************************************************************************)
THEOREM IdealShortestFirst == IdealSpec => []ShortestFirst
<1>1. IdealInv => ShortestFirst
  BY DEF IdealInv
<1> QED
  BY <1>1, IdealInvariant, PTL
-----------------------------------------------------------------------------
(***************************************************************************)
(* Completion times.  The clock counts the quanta that the flows have had, *)
(* and one more for the empty flow that was served first, if there is one. *)
(* Whatever has left the list or was started comes, in the order of size   *)
(* and number, before whatever is still on it.                             *)
(***************************************************************************)
Packets(size) == (size + PAYLOAD - 1) \div PAYLOAD

Had == [f \in Flows |-> Packets(total_size[f]) - Packets(remaining_size[f])]

Precedes(f, g) ==
  total_size[f] < total_size[g] \/ (total_size[f] = total_size[g] /\ f < g)

EmptyQuantum == IF EmptyFlows # {} THEN 1 ELSE 0

CompletesAt(f) ==
  IF f \in EmptyFlows /\ f # Min(EmptyFlows) THEN -1
  ELSE Total(Quanta, NoLargerThan(f)) + EmptyQuantum

ClockInv ==
  /\ time = 0 => flows_to_schedule = Flows /\ remaining_size = total_size
  /\ time > 0 => /\ \A f \in flows_to_schedule : remaining_size[f] > 0
                 /\ time = Total(Had, Flows) + EmptyQuantum
  /\ \A f \in Flows \ flows_to_schedule : remaining_size[f] = 0
  /\ \A f \in Flows, g \in flows_to_schedule :
       f # g /\ (f \notin flows_to_schedule \/ Started(f)) => Precedes(f, g)
  /\ \A f \in Flows \ flows_to_schedule : completion_time[f] = CompletesAt(f)

\* A quotient is determined by its remainder.
LEMMA DivUnique ==
  ASSUME NEW m \in Nat \ {0}, NEW q \in Int, NEW s \in 0 .. m - 1
  PROVE  (q * m + s) \div m = q
  OBVIOUS

\* Sending a packet leaves one packet fewer to send.
LEMMA PacketsLeft ==
  ASSUME NEW s \in Nat
  PROVE  /\ Packets(s) \in Int
         /\ Packets(0) = 0
         /\ s > 0 => Packets(AfterPacket(s)) = Packets(s) - 1
<1> DEFINE P == PAYLOAD
<1>1. P \in Nat \ {0}
  OBVIOUS
<1> HIDE DEF P
<1>2. \A n \in Int : Packets(n) = (n + P - 1) \div P
  BY DEF Packets, P
<1>3. ASSUME NEW n \in Int, NEW q \in Int, NEW k \in 0 .. P - 1, n + P - 1 = q * P + k
      PROVE  Packets(n) = q
  <2>1. (q * P + k) \div P = q
    BY <1>1, DivUnique
  <2> QED BY <1>2, <1>3, <2>1
<1>4. Packets(0) = 0
  <2>1. 0 + P - 1 = 0 * P + (P - 1) /\ P - 1 \in 0 .. P - 1
    BY <1>1
  <2> QED BY <1>3, <2>1
<1>5. Packets(s) \in Int
  <2>1. s + P - 1 \in Int
    BY <1>1
  <2> QED BY <1>1, <1>2, <2>1
<1>6. CASE s > 0 /\ s <= P
  <2>1. s + P - 1 = 1 * P + (s - 1) /\ s - 1 \in 0 .. P - 1
    BY <1>1, <1>6
  <2>2. Packets(s) = 1
    BY <1>3, <2>1
  <2>3. AfterPacket(s) = 0
    BY <1>6 DEF AfterPacket, P
  <2> QED BY <1>4, <1>5, <2>2, <2>3
<1>7. CASE s > P
  <2> DEFINE n == s + P - 1
             q == n \div P
             k == n % P
  <2>1. n \in Int
    BY <1>1
  <2> HIDE DEF n
  <2>2. k \in 0 .. P - 1 /\ q \in Int /\ n = q * P + k
    BY <1>1, <2>1
  <2> HIDE DEF q, k
  <2>3. Packets(s) = q
    BY <1>2 DEF n, q
  <2>4. AfterPacket(s) = s - P
    BY <1>1, <1>7 DEF AfterPacket, P
  <2>5. (s - P) + P - 1 = (q - 1) * P + k /\ s - P \in Int /\ q - 1 \in Int
    BY <1>1, <2>2 DEF n
  <2>6. Packets(s - P) = q - 1
    BY <1>3, <2>2, <2>5
  <2> QED BY <1>4, <1>5, <2>3, <2>4, <2>6
<1> QED BY <1>1, <1>4, <1>5, <1>6, <1>7

\* The flow that get_min_index picks is the first in the order of size and number.
LEMMA PickedIsFirst ==
  ASSUME IdealInv, ClockInv, NEW f \in flows_to_schedule, IsMinIndex(f)
  PROVE  \A g \in flows_to_schedule : f # g => Precedes(f, g)
<1> SUFFICES ASSUME NEW g \in flows_to_schedule, f # g PROVE Precedes(f, g)
  OBVIOUS
<1>0. /\ f \in Flows /\ g \in Flows
      /\ total_size[f] \in Nat /\ total_size[g] \in Nat
      /\ remaining_size[f] \in Nat /\ remaining_size[g] \in Nat
      /\ remaining_size[f] <= total_size[f] /\ remaining_size[g] <= total_size[g]
  BY Zenon DEF IdealInv, IdealTypeOK
<1>3. f \in Int /\ g \in Int
  BY <1>0 DEF Flows
<1>1. CASE Started(f)
  BY <1>0, <1>1 DEF ClockInv
<1>2. CASE ~ Started(f)
  <2>1. \/ remaining_size[f] < remaining_size[g]
        \/ remaining_size[f] = remaining_size[g] /\ f <= g
    BY DEF IsMinIndex
  <2>2. ~ Started(g)
    BY <1>0, <2>1 DEF IdealInv, NoPreemption, Started
  <2>3. remaining_size[f] = total_size[f] /\ remaining_size[g] = total_size[g]
    BY <1>0, <1>2, <2>2 DEF Started
  <2> QED BY <1>0, <1>3, <2>1, <2>3 DEF Precedes
<1> QED BY <1>1, <1>2

\* A flow on the list with nothing left is empty, and no quantum has passed.
LEMMA EmptyAtStart ==
  ASSUME IdealInv, ClockInv, NEW f \in flows_to_schedule, remaining_size[f] = 0
  PROVE  /\ time = 0 /\ f \in EmptyFlows /\ flows_to_schedule = Flows
         /\ remaining_size = total_size
<1>1. f \in Flows /\ time \in Nat
  BY DEF IdealInv, IdealTypeOK
<1>2. time = 0
  BY <1>1 DEF ClockInv
<1> QED BY <1>1, <1>2 DEF ClockInv, EmptyFlows

\* The least of the empty flows.
LEMMA FirstEmpty ==
  ASSUME NEW f \in EmptyFlows
  PROVE  /\ Min(EmptyFlows) \in EmptyFlows
         /\ \A g \in EmptyFlows : Min(EmptyFlows) <= g
<1>1. EmptyFlows \subseteq Nat /\ EmptyFlows # {}
  BY DEF EmptyFlows, Flows
<1>2. \E n \in EmptyFlows : \A m \in EmptyFlows : n <= m
  BY <1>1, LeastNat, Zenon
<1> QED BY <1>2 DEF Min

\* One quantum keeps the clock and the completion times right.
LEMMA ClockNext ==
  ASSUME IdealInv, ClockInv, NEW f \in flows_to_schedule, Quantum(f)
  PROVE  ClockInv'
<1>0. /\ f \in Flows
      /\ flows_to_schedule \in SUBSET Flows
      /\ total_size \in [Flows -> Nat]
      /\ remaining_size \in [Flows -> Nat]
      /\ completion_time \in [Flows -> Nat \cup {-1}]
      /\ time \in Nat
      /\ time' = time + 1 /\ total_size' = total_size /\ IsMinIndex(f)
  BY QuantumShape
<1>1. /\ remaining_size' \in [Flows -> Nat]
      /\ remaining_size'[f] = AfterPacket(remaining_size[f])
      /\ remaining_size'[f] <= remaining_size[f]
      /\ \A g \in Flows \ {f} : remaining_size'[g] = remaining_size[g]
  BY QuantumShape
<1>2. /\ flows_to_schedule' \in SUBSET flows_to_schedule
      /\ \A g \in flows_to_schedule' : remaining_size'[g] > 0
      /\ \A g \in flows_to_schedule : g \notin flows_to_schedule' => remaining_size'[g] = 0
  BY QuantumShape
<1>3. /\ remaining_size'[f] = 0 => completion_time' = [completion_time EXCEPT ![f] = time + 1]
      /\ remaining_size'[f] # 0 => completion_time' = completion_time
  BY QuantumShape
<1>4. \A g \in flows_to_schedule : f # g => Precedes(f, g)
  BY <1>0, PickedIsFirst
<1>5. /\ EmptyFlows' = EmptyFlows /\ EmptyQuantum' = EmptyQuantum /\ Quanta' = Quanta
      /\ \A g \in Flows : CompletesAt(g)' = CompletesAt(g)
  BY <1>0 DEF EmptyFlows, EmptyQuantum, Quanta, CompletesAt, NoLargerThan
<1>6. IsFiniteSet(Flows)
  BY FS_Interval DEF Flows
<1>7. \A g \in Flows : /\ total_size[g] \in Nat /\ remaining_size[g] \in Nat
                        /\ remaining_size'[g] \in Nat
                        /\ remaining_size[g] <= total_size[g]
                        /\ g \in Nat
  BY <1>0, <1>1 DEF IdealInv, Flows
<1>8. \A g \in Flows : Had[g] \in Int /\ Had'[g] \in Int
  <2>1. \A g \in Flows : /\ Packets(total_size[g]) \in Int /\ Packets(remaining_size[g]) \in Int
                         /\ Packets(remaining_size'[g]) \in Int
    BY <1>7, PacketsLeft
  <2> QED BY <1>0, <2>1 DEF Had
<1>9. \A g \in Flows \ {f} : Had'[g] = Had[g]
  BY <1>0, <1>1 DEF Had
<1>10. Total(Had, Flows) \in Int /\ (time = 0 => Total(Had, Flows) = 0)
  <2>1. Total(Had, Flows) \in Int
    BY <1>6, <1>8, TotalAgree
  <2>2. ASSUME time = 0 PROVE \A g \in Flows : Had[g] = 0
    <3>1. \A g \in Flows : Packets(total_size[g]) \in Int
      BY <1>7, PacketsLeft
    <3> QED BY <2>2, <3>1 DEF ClockInv, Had
  <2>3. ASSUME time = 0 PROVE Total(Had, Flows) = 0
    BY <1>6, <2>2, <2>3, TotalZero
  <2> QED BY <2>1, <2>3
<1>11. time' = Total(Had', Flows) + EmptyQuantum
  <2>1. CASE remaining_size[f] = 0
    <3>1. time = 0 /\ f \in EmptyFlows
      BY <2>1, EmptyAtStart
    <3>2. remaining_size' = remaining_size
      BY <1>0, <1>1, <1>7, <2>1
    <3>3. Had' = Had
      BY <1>0, <3>2 DEF Had
    <3> QED BY <1>0, <1>10, <3>1, <3>3 DEF EmptyQuantum
  <2>2. CASE remaining_size[f] > 0
    <3>1. Packets(remaining_size'[f]) = Packets(remaining_size[f]) - 1
      BY <1>0, <1>1, <1>7, <2>2, PacketsLeft
    <3>2. /\ Packets(remaining_size[f]) \in Int /\ Packets(total_size[f]) \in Int
      BY <1>0, <1>7, PacketsLeft
    <3>3. Had'[f] = Had[f] + 1
      BY <1>0, <3>1, <3>2 DEF Had
    <3>4. Total(Had', Flows) = Total(Had, Flows) + (Had'[f] - Had[f])
      BY <1>0, <1>6, <1>8, <1>9, TotalUpdate
    <3>5. Total(Had', Flows) = Total(Had, Flows) + 1
      BY <1>0, <1>8, <1>10, <3>3, <3>4
    <3>6. CASE time = 0
      <4>1. EmptyFlows = {}
        <5>1. \A g \in Flows : remaining_size[f] <= remaining_size[g] /\ remaining_size[g] = total_size[g]
          BY <1>0, <1>7, <3>6 DEF ClockInv, IsMinIndex
        <5> QED BY <1>0, <1>7, <2>2, <5>1 DEF EmptyFlows
      <4> QED BY <1>0, <1>10, <3>5, <3>6, <4>1 DEF EmptyQuantum
    <3>7. CASE time > 0
      <4>1. time = Total(Had, Flows) + EmptyQuantum /\ EmptyQuantum \in Int
        BY <3>7 DEF ClockInv, EmptyQuantum
      <4> QED BY <1>0, <1>10, <3>5, <4>1
    <3> QED BY <1>0, <3>6, <3>7
  <2> QED BY <1>0, <1>7, <2>1, <2>2
<1>12. ASSUME NEW g \in Flows \ flows_to_schedule' PROVE remaining_size'[g] = 0
  <2>1. CASE g \in flows_to_schedule
    BY <1>2, <2>1
  <2>2. CASE g \notin flows_to_schedule
    BY <1>1, <2>2 DEF ClockInv
  <2> QED BY <2>1, <2>2
<1>13. ASSUME NEW a \in Flows, NEW g \in flows_to_schedule', a # g,
              a \notin flows_to_schedule' \/ remaining_size'[a] < total_size[a]
       PROVE  Precedes(a, g)
  <2>0. g \in flows_to_schedule /\ g \in Flows
    BY <1>0, <1>2
  <2>1. CASE a = f
    BY <1>4, <1>13, <2>0, <2>1
  <2>2. CASE a # f /\ (a \notin flows_to_schedule \/ Started(a))
    BY <1>13, <2>0, <2>2 DEF ClockInv
  <2>3. CASE a # f /\ a \in flows_to_schedule /\ ~ Started(a)
    <3>1. remaining_size'[a] = remaining_size[a] /\ remaining_size[a] = total_size[a]
      BY <1>1, <1>7, <2>3 DEF Started
    <3>2. remaining_size'[a] = 0
      BY <1>7, <1>12, <1>13, <3>1
    <3>3. total_size[a] = 0
      BY <3>1, <3>2
    <3>4. total_size[g] > 0
      <4>1. remaining_size'[g] > 0
        BY <1>2
      <4>2. remaining_size'[g] <= remaining_size[g] /\ remaining_size[g] <= total_size[g]
        BY <1>1, <1>7, <2>0
      <4> QED BY <1>7, <2>0, <4>1, <4>2
    <3> QED BY <3>3, <3>4 DEF Precedes
  <2> QED BY <2>1, <2>2, <2>3
<1>14. ASSUME remaining_size'[f] = 0 PROVE Total(Had', Flows) = Total(Quanta, NoLargerThan(f))
  <2> DEFINE L == NoLargerThan(f)
             had == Had'
  <2>1. \A h \in L : h \in Flows /\ (h = f \/ Precedes(h, f))
    BY <1>0, <1>7 DEF NoLargerThan, Precedes
  <2>2. \A h \in Flows \ L : h # f /\ Precedes(f, h) /\ ~ Precedes(h, f)
    BY <1>0, <1>7 DEF NoLargerThan, Precedes
  <2>3. L \subseteq Flows
    BY DEF NoLargerThan
  <2> HIDE DEF L
  <2>4. ASSUME NEW h \in Flows \ L PROVE had[h] = 0
    <3>1. h \in flows_to_schedule /\ ~ Started(h)
      BY <2>2 DEF ClockInv
    <3>2. remaining_size'[h] = total_size[h]
      BY <1>1, <1>7, <2>2, <3>1 DEF Started
    <3>3. Packets(total_size[h]) \in Int
      BY <1>7, PacketsLeft
    <3> QED BY <1>0, <3>2, <3>3 DEF Had
  <2>5. ASSUME NEW h \in L PROVE had[h] = Quanta[h]
    <3>1. remaining_size'[h] = 0
      <4>1. CASE h = f
        BY <1>14, <4>1
      <4>2. CASE h # f
        <5>1. ~ Precedes(f, h)
          BY <1>0, <1>7, <2>1, <4>2 DEF Precedes
        <5>2. h \notin flows_to_schedule
          BY <1>4, <4>2, <5>1
        <5> QED BY <1>1, <2>1, <4>2, <5>2 DEF ClockInv
      <4> QED BY <4>1, <4>2
    <3>2. Packets(total_size[h]) \in Int /\ Packets(0) = 0
      BY <1>7, <2>1, PacketsLeft
    <3>3. had[h] = Packets(total_size[h])
      BY <1>0, <2>1, <3>1, <3>2 DEF Had
    <3>4. Quanta[h] = Packets(total_size[h])
      BY <2>1 DEF Quanta, Packets
    <3> QED BY <3>3, <3>4
  <2>6. \A h \in Flows : had[h] \in Int
    BY <1>8
  <2> HIDE DEF had
  <2>7. Total(had, Flows) = Total(had, L)
    BY <1>6, <2>3, <2>4, <2>6, TotalWithin
  <2>8. IsFiniteSet(L)
    BY <1>6, <2>3, FS_Subset
  <2>9. Total(had, L) = Total(Quanta, L)
    <3>1. \A h \in L : had[h] = Quanta[h] /\ had[h] \in Int
      BY <2>3, <2>5, <2>6
    <3> QED BY <2>8, <3>1, TotalAgree
  <2> QED BY <2>7, <2>9 DEF L, had
<1>15. ASSUME NEW g \in Flows \ flows_to_schedule' PROVE completion_time'[g] = CompletesAt(g)
  <2>1. CASE g \notin flows_to_schedule
    <3>1. completion_time'[g] = completion_time[g]
      BY <1>0, <1>3, <2>1
    <3> QED BY <2>1, <3>1 DEF ClockInv
  <2>2. CASE g \in flows_to_schedule /\ g # f
    <3>1. remaining_size[g] = 0
      BY <1>1, <1>12, <2>2
    <3>2. g \in EmptyFlows /\ remaining_size = total_size
      BY <2>2, <3>1, EmptyAtStart
    <3>3. remaining_size[f] = 0
      BY <1>0, <1>7, <2>2, <3>1 DEF IsMinIndex
    <3>4. f \in EmptyFlows /\ total_size[f] = 0 /\ total_size[g] = 0
      BY <1>0, <3>1, <3>2, <3>3 DEF EmptyFlows
    <3>5. f < g
      BY <1>4, <2>2, <3>4 DEF Precedes
    <3>6. Min(EmptyFlows) <= f /\ Min(EmptyFlows) \in EmptyFlows
      BY <3>4, FirstEmpty
    <3>7. g # Min(EmptyFlows)
      <4>1. f \in Nat /\ g \in Nat /\ Min(EmptyFlows) \in Nat
        BY <1>0, <1>7, <3>6 DEF EmptyFlows
      <4> QED BY <3>5, <3>6, <4>1
    <3>8. completion_time'[g] = -1
      BY <1>0, <1>3, <2>2 DEF IdealInv
    <3> QED BY <3>2, <3>7, <3>8 DEF CompletesAt
  <2>3. CASE g = f
    <3>1. remaining_size'[f] = 0
      BY <1>12, <2>3
    <3>2. completion_time'[f] = time + 1
      BY <1>0, <1>3, <3>1
    <3>3. completion_time'[f] = Total(Quanta, NoLargerThan(f)) + EmptyQuantum
      BY <1>0, <1>11, <1>14, <3>1, <3>2
    <3>4. ASSUME f \in EmptyFlows PROVE f = Min(EmptyFlows)
      <4>1. total_size[f] = 0 /\ remaining_size[f] = 0
        BY <1>0, <1>7, <3>4 DEF EmptyFlows
      <4>2. flows_to_schedule = Flows
        BY <4>1, EmptyAtStart
      <4>3. Min(EmptyFlows) <= f /\ Min(EmptyFlows) \in EmptyFlows
        BY <3>4, FirstEmpty
      <4>4. /\ Min(EmptyFlows) \in Flows /\ total_size[Min(EmptyFlows)] = 0
            /\ Min(EmptyFlows) \in Nat /\ f \in Nat
        BY <1>0, <1>7, <4>3 DEF EmptyFlows
      <4>5. f # Min(EmptyFlows) => f < Min(EmptyFlows)
        BY <1>4, <4>1, <4>2, <4>4 DEF Precedes
      <4> QED BY <4>3, <4>4, <4>5
    <3> QED BY <2>3, <3>3, <3>4 DEF CompletesAt
  <2> QED BY <2>1, <2>2, <2>3
<1>16. /\ time' # 0 /\ time' > 0
       /\ \A a \in Flows, g \in flows_to_schedule' : Precedes(a, g)' <=> Precedes(a, g)
       /\ \A a \in Flows : Started(a)' <=> remaining_size'[a] < total_size[a]
  BY <1>0 DEF Precedes, Started
<1> QED BY <1>2, <1>5, <1>11, <1>12, <1>13, <1>15, <1>16, Zenon DEF ClockInv

\* The invariant holds at the start and after every quantum.
LEMMA ClockInvariant == IdealSpec => []ClockInv
<1>1. IdealInit => ClockInv
  <2> SUFFICES ASSUME IdealInit PROVE ClockInv
    OBVIOUS
  <2>0. \A f \in Flows : total_size[f] \in Nat /\ remaining_size[f] = total_size[f]
    BY Zenon DEF IdealInit
  <2>1. \A f \in Flows : ~ Started(f)
    BY <2>0 DEF Started
  <2>2. time = 0 /\ flows_to_schedule = Flows /\ remaining_size = total_size
    BY DEF IdealInit
  <2>3. ~ (time > 0)
    BY <2>2
  <2>4. \A f \in Flows : f \in flows_to_schedule
    BY <2>2
  <2> QED BY <2>1, <2>2, <2>3, <2>4 DEF ClockInv
<1>2. IdealInv /\ ClockInv /\ [schedule_flows]_flowVars => ClockInv'
  <2> SUFFICES ASSUME IdealInv, ClockInv, [schedule_flows]_flowVars PROVE ClockInv'
    OBVIOUS
  <2>1. CASE schedule_flows
    BY <2>1, ClockNext DEF schedule_flows
  <2>2. CASE UNCHANGED flowVars
    <3>1. /\ UNCHANGED <<total_size, remaining_size, completion_time, flows_to_schedule, time>>
          /\ Had' = Had /\ EmptyQuantum' = EmptyQuantum
      BY <2>2 DEF flowVars, Had, EmptyQuantum, EmptyFlows
    <3>2. \A f \in Flows : CompletesAt(f)' = CompletesAt(f)
      BY <2>2 DEF flowVars, EmptyQuantum, EmptyFlows, CompletesAt, Quanta, NoLargerThan
    <3>3. \A f, g \in Flows : (Started(f)' <=> Started(f)) /\ (Precedes(f, g)' <=> Precedes(f, g))
      BY <3>1 DEF Started, Precedes
    <3>4. flows_to_schedule \subseteq Flows
      BY DEF IdealInv, IdealTypeOK
    <3> QED BY <3>1, <3>2, <3>3, <3>4 DEF ClockInv
  <2> QED BY <2>1, <2>2
<1> QED BY <1>1, <1>2, IdealInvariant, PTL DEF IdealSpec

(***************************************************************************)
(* When schedule_flows is done every flow has the completion time of the   *)
(* closed form.                                                            *)
(***************************************************************************)
THEOREM IdealCompletion == IdealSpec => []CompletionTimes
<1>1. ClockInv => CompletionTimes
  BY DEF ClockInv, CompletionTimes, CompletesAt, EmptyQuantum
<1> QED BY <1>1, ClockInvariant, PTL
=============================================================================
