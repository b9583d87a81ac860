------------------------------ MODULE PfabProc ------------------------------
(***************************************************************************)
(* The life cycle of the pFabric module, its qdiscs and their /proc files: *)
(* pfab_module_init and _exit, pfab_init, pfab_destroy, pfab_stats_init    *)
(* and pfab_stats_exit.  All of them run under RTNL or under the module    *)
(* mutex, so each is one step.                                             *)
(*                                                                         *)
(* External code, as the callbacks meet it: create_proc_entry accepts a    *)
(* name that is taken (several qdiscs of a device share theirs) and may    *)
(* return NULL; remove_proc_entry removes one entry of the name, if any; a *)
(* qdisc whose init does not return 0 is freed without destroy; the module *)
(* stays loaded while it has qdiscs.                                       *)
(***************************************************************************)
EXTENDS Integers, FiniteSets

CONSTANTS Handles,       \* handles of qdiscs
          Devices,
          Names,         \* device names
          NoDevice,      \* a handle that is not in use
          CsvMayFail,    \* may the creation of the CSV file fail?
          MaxFailures,   \* bound on failed creations of the CSV file
          MaxRenames     \* bound on renamings of devices in use

Files == {"stats", "csv"}

ASSUME ProcAssumption ==
  /\ NoDevice \notin Devices
  /\ CsvMayFail \in BOOLEAN
  /\ MaxFailures \in Nat
  /\ MaxRenames \in Nat
  /\ IsFiniteSet(Handles)

VARIABLES loaded,   \* the module is loaded and pfab_qdisc_ops registered
          device,   \* the device of each qdisc
          name,     \* netdev->name
          entries,  \* number of /proc entries of each kind and device name
          born,     \* history: the name each qdisc's files were created with
          renames,  \* history: renamings of a device in use
          leaks,    \* history: failed creations of the CSV file, per name
          orphans,  \* history: destroys that left the files of a name behind
          robbed    \* history: destroys that took the files of another name

events   == <<leaks, orphans, robbed>>
procVars == <<loaded, device, name, entries, born, renames, events>>

NoEntries == [f \in Files |-> [n \in Names |-> 0]]

ProcInit ==
  /\ loaded = FALSE
  /\ device = [q \in Handles |-> NoDevice]
  /\ name \in {n \in [Devices -> Names] : \A d, e \in Devices : n[d] = n[e] => d = e}
  /\ entries = NoEntries
  /\ born = [q \in Handles |-> NoDevice]
  /\ renames = 0
  /\ leaks = [n \in Names |-> 0]
  /\ orphans = [n \in Names |-> 0]
  /\ robbed = [n \in Names |-> 0]

InUse == {q \in Handles : device[q] # NoDevice}

create_proc_entry(e, f, n) == [e EXCEPT ![f][n] = @ + 1]

remove_proc_entry(e, f, n) == [e EXCEPT ![f][n] = IF @ = 0 THEN 0 ELSE @ - 1]

pfab_module_init ==
  /\ ~ loaded
  /\ loaded' = TRUE
  /\ UNCHANGED <<device, name, entries, born, renames, events>>

\* Fault: the operations have no owner, so their users do not pin the module.
ExitInUse ==
  /\ loaded
  /\ loaded' = FALSE
  /\ UNCHANGED <<device, name, entries, born, renames, events>>

pfab_module_exit ==
  /\ loaded
  /\ InUse = {}
  /\ loaded' = FALSE
  /\ UNCHANGED <<device, name, entries, born, renames, events>>

(***************************************************************************)
(* pfab_init of a new qdisc q on device d.  It succeeds if pfab_change     *)
(* takes the options, if any, and both files can be created.  If the       *)
(* options are refused, or the first file cannot be created, no entry is   *)
(* left behind (what happens to pfab_stats is part of PfabQdisc).          *)
(***************************************************************************)
NewQdisc(q) == loaded /\ q \in Handles \ InUse

InitSucceeds(q, d) ==
  /\ NewQdisc(q)
  /\ device' = [device EXCEPT ![q] = d]
  /\ born' = [born EXCEPT ![q] = name[d]]
  /\ entries' = create_proc_entry(create_proc_entry(entries, "stats", name[d]), "csv", name[d])
  /\ UNCHANGED <<loaded, name, renames, events>>

InitRefused(q) ==
  /\ NewQdisc(q)
  /\ UNCHANGED procVars

(***************************************************************************)
(* The CSV file cannot be created: pfab_stats_init removes the name it     *)
(* failed to create (proc_name was overwritten at line 155) and keeps the  *)
(* statistics file.                                                        *)
(***************************************************************************)
InitWithoutCsv(q, d) ==
  /\ NewQdisc(q)
  /\ CsvMayFail
  /\ leaks[name[d]] < MaxFailures
  /\ entries' = remove_proc_entry(create_proc_entry(entries, "stats", name[d]), "csv", name[d])
  /\ leaks' = [leaks EXCEPT ![name[d]] = @ + 1]
  /\ UNCHANGED <<loaded, device, name, born, renames, orphans, robbed>>

\* Fault: the CSV file is forgotten.
ExitKeepsCsv(n) == entries' = remove_proc_entry(entries, "stats", n)

pfab_stats_exit(n) ==
  entries' = remove_proc_entry(remove_proc_entry(entries, "stats", n), "csv", n)

(***************************************************************************)
(* pfab_destroy asks the device for its name again, which need not be the  *)
(* one its files were created with.  The lists it purges are empty: the    *)
(* kernel resets a qdisc before it destroys it.                            *)
(***************************************************************************)
pfab_destroy(q) ==
  LET now == name[device[q]]
  IN  /\ q \in InUse
      /\ device' = [device EXCEPT ![q] = NoDevice]
      /\ born' = [born EXCEPT ![q] = NoDevice]
      /\ pfab_stats_exit(now)
      /\ \/ /\ now = born[q]
            /\ UNCHANGED <<orphans, robbed>>
         \/ /\ now # born[q]
            /\ orphans' = [orphans EXCEPT ![born[q]] = @ + 1]
            /\ robbed' = [robbed EXCEPT ![now] = @ + 1]
      /\ UNCHANGED <<loaded, name, renames, leaks>>

(***************************************************************************)
(* The kernel renames a device that is down, whatever qdisc it has.        *)
(***************************************************************************)
dev_change_name(d, n) ==
  /\ \A e \in Devices : name[e] # n
  /\ name' = [name EXCEPT ![d] = n]
  /\ \/ /\ \A q \in InUse : device[q] # d
        /\ UNCHANGED renames
     \/ /\ \E q \in InUse : device[q] = d
        /\ renames < MaxRenames
        /\ renames' = renames + 1
  /\ UNCHANGED <<loaded, device, entries, born, events>>

ProcNext ==
  \/ pfab_module_init
  \/ pfab_module_exit
  \/ \E q \in Handles, d \in Devices :
       InitSucceeds(q, d) \/ InitWithoutCsv(q, d)
  \/ \E q \in Handles : InitRefused(q) \/ pfab_destroy(q)
  \/ \E d \in Devices, n \in Names : dev_change_name(d, n)

ProcSpec == ProcInit /\ [][ProcNext]_procVars
-----------------------------------------------------------------------------
(***************************************************************************)
(* The state is well formed, and no qdisc outlives the module whose code   *)
(* it runs.                                                                *)
(***************************************************************************)
ProcTypeOK ==
  /\ loaded \in BOOLEAN
  /\ device \in [Handles -> Devices \cup {NoDevice}]
  /\ name \in [Devices -> Names]
  /\ entries \in [Files -> [Names -> Nat]]
  /\ born \in [Handles -> Names \cup {NoDevice}]
  /\ \A q \in InUse : born[q] \in Names
  /\ renames \in Nat
  /\ leaks \in [Names -> Nat] /\ orphans \in [Names -> Nat] /\ robbed \in [Names -> Nat]
  /\ InUse # {} => loaded

Attached(n) == {q \in InUse : born[q] = n}

(***************************************************************************)
(* The /proc files of a name are those of the qdiscs created under it, one *)
(* of each kind per qdisc, except for two things.  A failed creation of    *)
(* the CSV file leaves one statistics file too many and at most one CSV    *)
(* file too few.  A pfab_destroy after a renaming leaves the files of the  *)
(* old name behind, and may take files of the new name.  So without such   *)
(* an event each qdisc has its files, and none survives it or the module.  *)
(***************************************************************************)
EntriesAccounted ==
  \A n \in Names :
    LET due == Cardinality(Attached(n)) + orphans[n]
    IN  /\ entries["stats"][n] \in due + leaks[n] - robbed[n] .. due + leaks[n]
        /\ entries["csv"][n] \in due - leaks[n] - robbed[n] .. due

(***************************************************************************)
(* "While pFabric is activated (the kernel module is loaded and the qdisc  *)
(* is added) it is possible to retrieve some statistic by reading from the *)
(* files" (README:44-46).                                                  *)
(***************************************************************************)
StatsReadable ==
  \A q \in InUse, f \in Files : entries[f][name[device[q]]] > 0
=============================================================================
