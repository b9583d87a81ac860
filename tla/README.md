# A TLA+ model of the pFabric switch and its tools

This directory specifies the programs of this repository: the pFabric queueing
discipline (`src/kernel`, a Linux kernel module), the experiments that run it
(`run.sh`, `src/python`), and the tools of iproute2 that configure it
(`iproute2`, a copy with a `pfabric` qdisc added). TLC checks the specifications
on small instances, and TLAPS proves the safety properties of the qdisc, its
statistics and `/proc` files, its option parser, the experiment, the ideal
scheduler and the flush commands for all values of the constants. `PROJECT.json`
lists, in a form that tools can read, the components, the runs, the definitions with
the source lines they model, faulty variants that each property must detect, the
hazards of the code, what was found, and the theorems.

## The system

| Part | State | Operations | Module |
|---|---|---|---|
| occupancy bitmap (`sch_pfab.c`) | array of words | add, remove, scan for the highest and the lowest priority | `PfabBitmap` |
| qdisc (`sch_pfab.c`) | one list per band, bitmap, limit, dequeue flag, `q.qlen`, `qstats` | enqueue (with drop), dequeue, peek, change, init, reset | `PfabQdisc` |
| statistics (`stats.c`) | global `pfab_stats`, `/proc` files | updates inside the qdisc operations; creation, removal and reading of files | `PfabQdisc`, `PfabReport`, `PfabProc` |
| life cycle (`sch_pfab.c`, `stats.c`) | module loaded, qdiscs per device | module init and exit, `pfab_init`, `pfab_destroy` | `PfabProc` |
| transmit loop (kernel) | is somebody running the qdisc | run after enqueue, restart, transmit | `PfabRoot` |
| option parser (`q_pfabric.c`) | `argc`, `argv`, `opt` | one turn of the loop | `TcPfabric` |
| experiment (`run.sh`, `pfabric.py`, `eval_utils.py`) | flows, result files, pid lists, DCTCP switches, queue at the port | set up, start, wait, tear down, failing commands, exceptions, Control-C, evaluation | `Experiment` |
| ideal scheduler (`ideal.py`) | size left and completion time per flow, list, time | one quantum | `IdealScheduler` |
| command lines of `tc`, `ip`, `bridge`, `genl`, `rtmon` | words left, fields of the request | one turn of an option loop, call of a sub-parser, checks | `OptionTable`, `ArgParser` and the tables |
| netlink socket, `ip ... flush` (`libnetlink.c`, `ipaddress.c`, `ipneigh.c`, `iproute.c`) | socket queue, sequence numbers, request buffer, rounds | dump, filter, send, talk | `Netlink`, `Flush` |

How they interact. `run.sh` loads the module and starts `pfabric.py`, which sets up
a network, installs the queue of each scheme with `tc`, runs flows and writes
their times. `tc` parses the options and sends them to the kernel over netlink,
where `pfab_init` or `pfab_change` stores them in the qdisc and in `pfab_stats`.
The network stack hands frames to `pfab_enqueue`, which takes the priority from the
TOS byte; the transmit loop takes them out with `pfab_dequeue` as long as
`q.qlen` is not zero and a packet comes. `/proc` shows `pfab_stats`. The evaluation
compares the completion times of flows with those of a baseline and of the ideal
scheduler.

What makes it hard:

* `enqueue`, `dequeue` and `reset` exclude one another (qdisc lock), but
  `pfab_change` holds only RTNL, so the limit may change inside `pfab_enqueue`
  between its two reads;
* four pieces of state say how full the buffer is (lists, bitmap, `qlen`,
  `backlog`) and separate statements on every path update them. The
  bitmap is not updated by `pfab_drop` and `pfab_reset`, so its bits may be
  stale, and `qlen` is decremented by a drop that finds no packet;
* the transmit loop believes `qlen` and the first NULL, and nobody runs the qdisc
  when `pfab_change` enables dequeuing again;
* limits of zero, u32 arithmetic, frames that are not IPv4;
* all qdiscs of the machine share one `pfab_stats`, without a common lock, and its
  reader takes no lock at all, and a qdisc that is created clears it under others
  that count;
* several qdiscs of one device share the names of their `/proc` files, the creation
  of a file may fail half way, and a device may be renamed in between;
* DCTCP and ECN are switches of the machine: a scheme that is not torn down changes
  the next one; and `pfabric.py` looks at no exit status, so that a command that
  failed changes what the next ones do;
* in iproute2, the order of `matches` calls decides what an abbreviation means, and
  loops read one another's words;
* a flush deletes from the table it is dumping, while others change it, and answers
  can be lost.

## Modules

**`PfabBitmap`** models the words as the sets of their 1 bits. The two scans are
written as the code does them: first the word, then the bit. `NUM_BANDS` and
the word size are constants (32 and 32 in the build).

**`PfabQdisc`** has one variable per field, with the names of the source, and four
history variables (`arrived`, `sent`, `freed`, `phantom`). `pfab_enqueue` is two
steps, because of `pfab_change`: `EnqueueIllegal`, `EnqueueRefuse` and
`EnqueueAdmit` are its three outcomes up to the first read of the limit
(lines 134-180), and `EnqueueFits` and `EnqueueOverflow` the two from line 182
on, the second with `pfab_drop`. `pending` holds the packet in between.
`Dequeue`/`DequeueNull`, `Change` and `Reset` are one step each. `phantom`
counts the drops that found an empty list since the last reset: it measures how
far the defect of `pfab_drop` has gone, and several properties are exact *up to*
it. A frame is a record of its length, the byte in the place of the TOS and
whether it is IPv4; the only data of a packet that the code looks at.

**`PrioBuffer`** is the abstract specification: a buffer of priority classes, with no
bitmap, counters, limit or locks. What leaves is the oldest packet of the most
urgent class; what is lost is the oldest of the least urgent class, or a
newcomer that is no more urgent than anything buffered. It promises neither a
bound nor progress, because the code keeps neither (see Findings).

**`PfabRoot`** adds the kernel's transmit loop, as external code, to `PfabQdisc`.
`kick` records that `pfab_change` enabled dequeuing while nobody ran the qdisc.

**`PfabReport`** is `pfab_stats` alone: several qdiscs increment its counters, each
increment a load and a store of a counter that wraps; any of them may clear it, one
counter after the other, in the middle of an enqueue of another qdisc or not; and a
reader prints it field by field. Four history variables say what happened:
`counted` (increments since the last clearing), `raced` (those that another qdisc's
overlapped), `spoilt` (the last clearing met an enqueue) and `cleared` (a clearing met
the report).

**`PfabProc`** is the life cycle of the module and its qdiscs and the number of
`/proc` files of each name. The kernel functions it calls are external; their
behaviour is stated at the head of the module. A renaming changes the name under
which `pfab_stats_exit` looks for the files. `leaks` is a history variable.

**`Experiment`** is one program counter for `run.sh` and `pfabric.py`, with the flows
that run beside it. Every command of `set_up` and `tear_down` may fail without notice;
what a `tc` command makes of the port that earlier ones left is the operator `tc`.
`clients` are the lists of pids of `start_senders`, and its waits end when no flow on
them runs, whatever runs otherwise. Mininet, iperf and the kernel's part of `tc` are
external.

**`TcPfabric`** parses one command line of `tc qdisc ... pfabric`, a word being known
by the keyword it matches and the number `get_size` makes of it. What a line means
to the parser is defined separately, in closed form (`WellFormed`, `Means`), and so are
the lines that the usage text shows and what they say (`Documented`, `Says`).

**`IdealScheduler`** is `schedule_flows`, one quantum per step. Time is counted in
quanta. `Totals` has the sum of a function over a finite set, which the properties
about bytes, counters and quanta are stated with.

**Command lines.** The option loops of iproute2 differ in their data and hardly in
their control. `OptionTable` is the vocabulary: a parser is the record of a loop,
its branches in the order of the code, with how the keyword is compared (`strcmp`,
`matches`), the arguments with their conversions and the fields they assign,
conditions on what was given before, the parser that is called or whether the loop
ends, and the checks behind the loop. `ArgParser` runs such tables, one turn per
step, and a line beside the same line with two options swapped, so that the outcomes
can be compared.
`TcQdiscOptions`, `TcFilterOptions`, `TcActionOptions`, `IpLinkOptions`,
`IpRouteOptions` and `XfrmOptions` hold the tables, `ToolCommands` the dispatch of
the programs from `main` down, and `TcCommandLines` and `IpCommandLines` the
collections and, for each command, the words of an acceptable line. A table entry
is named after the C function whose loop it is.

**`Netlink`** has the socket functions `rtnl_wilddump_request`, `rtnl_dump_filter_l`,
`rtnl_send_check` and `rtnl_talk`, and, as external code, a kernel table with
primary and secondary addresses, in the order in which the kernel keeps those of one
device. **`Flush`** has the rounds of the three flush
commands on top of it, other processes that add and delete entries, and a command
that follows in the batch.

`MC*.tla` hold the instances, and `*_proofs.tla` the proofs. A definition marked
`Fault` is a faulty variant of the one after it; nothing uses it. Putting it in
the place of the correct one must make the property that `PROJECT.json` names
fail, which shows that the property says something about the code.

## Runs

| Run | Checks | States |
|---|---|---|
| `qdisc_safety` | types, ownership, accounting, order, loss rule, statistics; `PfabQdisc` implements `PrioBuffer` | 537,351 |
| `root_progress` | no missed run, packets drain | 382,803 |
| `stats_report` | shared counters and reports | 342,414 (symmetry of qdiscs and bands; a view) |
| `proc_files` | `/proc` files match the qdiscs | 54,024 (symmetry of qdiscs) |
| `experiment` | schemes in force, flows undisturbed, evaluation complete | 1,222,727 (a view) |
| `tc_options` | the parser of `pfabric` computes what the line means, and ends | 23,660 |
| `tool_words` | keywords and order of options of all tables | 218,765 |
| `flush` | complete, spares promoted addresses, fails for a reason, ends; the next command | 66,820 |
| `ideal_schedule` | order, closed form of completion times, end | 9,743 |
| `dequeue_stalls`, `stats_file_lost`, `tc_usage` | refute a statement of a comment or document | |

The properties, each stated in full at its definition:

* `BitmapCoversQueues`: stale bits are possible, missing bits are not.
* `OwnedOnce`: each packet is in exactly one place; none is leaked, freed twice
  or sent after it was freed.
* `QlenAccounting`, `LimitUpToPhantom`: `qlen` and the limit are right up to the
  number of drops that freed nothing. `BacklogExact`: the byte count is right.
* `FifoPerBand`, `MostUrgentFirst`, `LeastUrgentLost`: pFabric's scheduling and
  dropping rules hold whatever the bitmap has become. `ImplementsPrioBuffer` is
  the same as a refinement.
* `StatsReflectQdisc`, `CountersBalance`: what `/proc` shows agrees with the
  qdisc and with the counters of `tc -s`.
* `IdleOnlyWhenDone`, `DrainsUnlessCorrupted`: packets are stranded only by a stale
  bit, by an undercounted `qlen`, or while a qdisc that was enabled again waits
  for the next frame.
* `CountersBounded`: nothing is counted twice, and an increment is lost only to one of
  another qdisc that overlaps it. `ReportAddsUp`: a report that no clearing met never
  shows more packets or drops than arrivals in the bands, up to such losses. It rests on
  the order in which the reader prints the fields. Neither says anything of the counters
  after a clearing that met an enqueue (`spoilt`), until the next that does not, or
  after 2^32 increments.
* `EntriesAccounted`: no file is lost or left behind except by a failure to
  create the CSV file or by the renaming of a device in use, and then exactly
  how many.
* `SchemeInForce`: if the commands of its own `set_up` went through, a flow runs under
  its scheme whatever failed before, and if deleting the old queue did, under no other
  scheme's queue; DCTCP is on in another test only if turning it off failed or was
  skipped by an exception. `FlowsUndisturbed`: the waits for the pids on the lists keep the
  flows of two runs and of two tests apart and a baseline flow alone, and `tear_down`
  finds none to kill. `EvaluationComplete`: a file that the evaluation asks for is
  missing only at a load where `pfabric.py` met an exception, and then it does happen:
  the evaluation stops with an error, since nothing tells it what is missing.
* `ParseCorrect`, `ParseEnds` for the `pfabric` parser: it sends what the line means to
  it, and reads a line of the usage text without a flag as that says (`UsageHolds`, for
  all lines of the usage text, is refuted). `OwnKeyword`: no earlier branch takes a
  keyword for an abbreviation of its own. `OrderIrrelevant`: two options may be swapped.
* `FlushComplete`, `PromotedKept`, `FlushFails`, `TalkTruthful`, `FlushEnds`: what the
  flush commands achieve against a changing table.
* `NoPreemption`, `ShortestFirst`, `CompletionTimes`, `AllScheduled`.

The exceptions of the properties over tables are rows of the tables: a branch with
a condition, a loop that is a fixed sequence (`seq`). They are not free parameters: each is what the code
does at the lines that `PROJECT.json` gives for the table.

**Bounds.** Four bands in two words of two bits exercise both loops of the scans
and the copying of single words. Header lengths are 1, so frames of length 1, 2
and 3 are shorter than, exactly as long as and longer than an IPv4 packet must be.
In `qdisc_safety` limits are 0, 1 and 2 with up to four arrivals (`MaxArrivals`):
enough to fill the buffer, empty a band by a drop, drop from the empty band and
overfill the buffer, with resets and changes in between. `U32 = 8` exceeds the
number of arrivals, as 2^32 exceeds any buffer, and makes the wrap of `qlen` below
zero visible. `root_progress` has four arrivals of three urgencies, limits of 1 and
2, and dequeuing enabled and disabled at any time. `stats_report` has two qdiscs,
two bands and three frames: an increment needs one other to overwrite it, and with
`U32 = 3` three increments make a counter wrap. Its view leaves out histories and
reports that the invariants no longer look at; without it there are 7,977,886 states.
`proc_files` has three qdiscs on two devices, so that two share a name, three names
(one to rename to), one failure per name and one renaming. `experiment` has two
loads, one below and one above the number of buckets, two hosts, two runs, two
buckets, any number of exceptions, and one failing command in each `set_up`
(`MaxFailed`; any number in `tear_down`); its view leaves out the place in a test that is
over. `tc_options` has lines of up to five words: two
complete pairs and one word more. `tool_words` takes every table with every two of
its options; values are one of a few words per kind (numbers 0, 1, 2; addresses of
the two families). `flush` puts two entries into a datagram and into the request
buffer; its tables have two subnets with secondaries, an entry of another device,
and eight entries, so that the buffer is sent during the dump; another process may
delete one entry, and add another one again and again; sequence numbers count modulo
12 (`SeqLimit`), so that none is used again while an answer to it may still wait.
`ideal_schedule` has four flows of sizes 0 to 5 with a payload of 2: below, at and
above one and two packets.

**Deadlock** is checked, except for the programs that end: the parsers, the flush
commands, the experiment and the ideal scheduler.

**Fairness.** `RootSpec` assumes weak fairness of the end of `pfab_enqueue`, of a
scheduled run (softirq) and of the end of a transmission. Each of these is the
continuation of code that a CPU is executing or that the kernel has scheduled.
Nothing forces frames to arrive, options to change or the device to reset. The
parsers, the flush commands and the ideal scheduler are sequential programs and run
on; for `ip route flush`, which gives up after 30 seconds, time passes as well.
Other processes may change the table for ever.

## Proofs

The eight proof modules have 11,103 obligations, all checked by `tlapm` 1.4.5 with Z3,
Zenon and LS4. No step is left without a proof.

| Module | Main results |
|---|---|
| `Totals_proofs` | totals over finite sets: what adding, removing and changing a summand does |
| `PfabQdisc_proofs` | the scans return the least and the greatest band (`HighPrioCorrect`, `LowPrioCorrect`), the updates change one band; `TypeCorrect`; `DropFindsBand` (the -1 of `pfab_drop` cannot happen in `pfab_enqueue`); `Balanced`, `BitmapCovers`, `Ownership`, `StatsReflect` |
| `PfabBuffer_proofs` | `Backlog`, `Fifo`, `UrgentFirst`, `LeastUrgent`, `Qlen`, `Limit`; `Refinement`: `Spec => PB!PBSpec`; `NoRunMissed`: `RootSpec => []IdleOnlyWhenDone` |
| `PfabInterface_proofs` | `CountersOff`, `ReportsAddUp`, for any number of qdiscs, bands and frames and any `U32`; `ProcTypeCorrect`, `Entries`, for any number of qdiscs, devices, failures and renamings; `TcParses`, for lines of any length |
| `Evaluation_proofs` | `Measured`, `Undisturbed`, `Evaluation`, for any loads, hosts, runs, buckets, failing commands and exceptions; `IdealNoPreemption`, `IdealShortestFirst`, `IdealCompletion`, for any flows, sizes and payload |
| `Flush_proofs` | what a deletion, a buffer of deletions and a datagram of a dump are, for any table; the types; `Truthful` |
| `FlushCover_proofs` | `Promoted`, `Flushed` |
| `FlushFails_proofs` | `Failures`; these four for any tables, datagram and buffer sizes, rounds and interference |

*Assumptions.* `BandsAssumption`: the number of bands is a multiple of the word
size. `QdiscAssumption`: a u32 is not exhausted by the packets that arrive
(`MaxArrivals < U32`); an IPv4 frame has room for its header; and `Opts` is closed
under taking the limit of one member and the flag of another, which is what makes
the two assignments of `pfab_change` one step. `ExperimentAssumption`: `run.sh` has at
least one load and none twice; it lists them literally. `ReportAssumption`, `ProcAssumption`,
`IdealAssumption`, `NetlinkAssumption` and that of `TcPfabric` only give the constants
their types and say that there are finitely many qdiscs and bands. `FlushAssumption`:
the kernel's list has no address twice and the primary ones first, as `inet_insert_ifa`
keeps it; and sequence numbers, of which there are 2^32, are more than the requests
in one buffer (3584 bytes) and two datagrams of a dump (16 KB each) can be.

*Totals.* The induction theorems of the library take an operator as a parameter, which
the provers cannot instantiate. `Totals_proofs` has induction over a set in place of
an operator (`NatInduct`, `SubsetInduct`), derived from the well-foundedness of the
natural numbers, and so has `Flush_proofs`. From it follows that the fold behind
`Total` exists, is unique, and does not depend on the order in which the members are
taken.

*Argument for the qdisc.* `TypeInv` is the type invariant with the fact that the
packet inside `pfab_enqueue` is the newest and has a legal priority. Every step is of
one of seven kinds (`StepKinds`: lose the new packet, admit it, queue it, queue it
and evict, take one, purge, retune), and the other proofs look at these kinds
only. `SafeInv` adds `BitmapCoversQueues` and `OwnedOnce`, which are inductive
together with the types: ownership is what says that a queued packet is not also
in `freed`, and the cover is what lets a scan result bound the bands that hold
packets, although stale bits remain. `FifoPerBand` follows with it, because
the packet being queued is newer than all others. `CountInv` adds to
`QlenAccounting` and `LimitUpToPhantom` that the queued packets are no more than those
that arrived, so that `qlen` wraps only through drops that freed nothing, and that the
limit in force is one somebody set.

`BytesInv` adds to `BacklogExact` that finitely many packets are queued. A step adds or
removes one packet, and it is ownership that makes this one summand: two slots never
hold the same packet. `Balanced` needs the types only. Each counter wraps on its own, so
the difference is preserved up to a multiple of `U32`.

*Argument for the transmit loop.* Its steps are steps of the qdisc (`RootSteps`), so
`SafeInv` and `CountInv` hold there too. With them `IdleOnlyWhenDone` is inductive. The
loop stops at a NULL, or at a length of zero, which without phantom drops means
empty lists (`ZeroLengthEmpty`). A stopped qdisc becomes able to give a packet only by
an enqueue, which runs it, or by `pfab_change`, which `kick` records.

*Argument for the statistics.* `CountersBounded` is inductive together with the same
bounds for a value that was loaded and not yet stored (`LoadedBounded`): a store that
overwrites increments was overlapped by them, so `raced` has grown with each. A clearing
that meets no enqueue leaves nothing counted (`QuietClearing`). What a qdisc has still to
count in a total for its frame it has counted in a band already, so a total plus what is
owed to it is at most the sum of the bands (`BandsLead`). A report in progress keeps this
inequality between what it has printed and the counters still to be printed
(`ReportLead`), because the bands come last. `EntriesAccounted` is inductive together with
the types: the history `leaks` moves with the files at each failure and renaming.

*Argument for the evaluation.* `ExpInv` has three parts. `NetworkInv` says what the
commands of `set_up` have left at the port for whatever was there before
(`WhatIsInstalled`), and that outside the DCTCP test only switches that are left over are
on. `FlowInv` says that every client that runs was started in this run and is on the
list of its host; without it the end of the waits says nothing about other clients.
`RecordInv` says that at a load without an exception every run that is over has left all
its files, and that each flow started in the current run is running or has left its
file. `IdealInv` says that a flow which was
started, or has left the list, is no larger than any flow on it; without it the order of
completion is not inductive. `ClockInv` says that the clock is the total of the quanta the
flows have had, and that whatever was started or has left comes, by size and number,
before whatever is on the list. So when a flow completes, the flows before it have had
all their quanta and those after it none.

*Argument for the parser.* `TcInv` says that the words before `argv` are whole, well-formed
pairs and that `opt` is what they mean. A line of the usage text without a flag is empty or
a single `limit` with its number (`LimitOnly`), which this makes the same as what it says.

*Argument for the flush commands.* `Kept` and `Sent` are recursive functions over
a sequence. Their lemmas say what the result contains and in which order (`RemainingShape`,
`TableNext`: a table stays a table), and the rest of the proofs uses these lemmas only.
`AnswerInv` bounds, in each phase of a flush, how long ago the errors that wait in the
socket were caused, counted in sequence numbers: errors of the buffer gather behind the
one datagram of the dump that waits, and are read before the one after it. So no
error that waits has the number `rtnl_talk` gives its own request, and what it reports is
the answer to that (`Truthful`). Without the bound, a number that comes around would be
taken for the answer.

`PromotedInv` says that, while nothing but the flush of primary addresses has touched the
table and its buffer is not sent, the table is the one of the beginning and all that was
read or asked for is of it. The single round then ends before anything promoted can be
read. `CoverInv` says that every entry of the table is dealt with, has been read, or is
still ahead of the dump, as long as nothing was deleted behind the dump's position;
entries added in front of it only move others back. For it `RoundInv` ties what was asked
for to the buffer, so that what was asked for is gone when the buffer has been sent, and
`SecondInv` says that a deletion only promotes, so that an entry which a flush of primary
addresses finds secondary was secondary at the beginning.

`FailInv` says that, while nobody interferes, every entry read or asked for is still in the
table, or one of the first `n` that were asked for, whose deletion was sent, took it away.
A deletion that is refused then names the earlier one. Within a datagram no entry takes
away a later one, because the filters of `ip addr flush` put secondary addresses first
(`FilteredHarmless`); so the earlier one came in an earlier datagram (`Ordered`), which is
what `FlushFails` says.

*Only model-checked.* Liveness (`DrainsUnlessCorrupted`, `FlushEnds`, `ParseEnds`,
`AllScheduled`), which the prover does not reach. The properties of `ArgParser` compare
the outcomes of two lines over the tables, which are data and not parameters: TLC runs
through all of them, and a proof would do the same case by case, through operators that
are recursive over the words of a line.

## Findings

1. **`pfab_dequeue` returns NULL while packets are queued** (`dequeue_stalls`). A stale
   bit, left by `pfab_drop` or `pfab_reset`, hides all less urgent bands, and for
   good: that path does not clear it.
2. **A failed creation removes the wrong file** (`stats_file_lost`). The CSV name is
   removed in place of the statistics name.
3. **The flags of `pfabric` take a word** (`tc_usage`). `disable_dequeue` and
   `enable_dequeue` step on with `NEXT_ARG` (`q_pfabric.c:59`) and skip the word after
   them, or end with an incomplete command, against the usage text
   (`q_pfabric.c:30-32`).

Noted on the way, in the kernel module and the experiments:

* The buffer outgrows its limit: `pfab_drop` (`sch_pfab.c:194`) leaves the bit of a band
  it has emptied; the next overflow drops from that band again, frees nothing and
  decrements `qlen` all the same. `LimitUpToPhantom` says by how much.
* An ARP or IPv6 frame of at least 34 bytes is taken for IPv4 and may be discarded for
  the byte in the place of the TOS, although `sch_pfab.c:151` says "let all other types
  through".
* The message at `sch_pfab.c:373` cannot be printed, because `pfab_stats_init` fails
  with 1 and the test is for less than 0.
* An exception in the DCTCP test, or a failing command of its `tear_down`, leaves DCTCP
  and ECN enabled for the tests that follow (`leftover` in `SchemeInForce`); a failing
  command of `set_up` lets a test run under another queue (`failed`).
* An empty flow that is not the first of its kind gets the completion time -1 from the
  ideal scheduler although it prints "All flows completed" (`CompletionTimes`
  states it).

In iproute2, as rows and exceptions of the tables and of `Flush`:

* `ip addr flush` of many addresses may fail, or flush promoted ones, because
  secondary addresses come first only within a datagram and the buffer may be sent
  during the dump (comment at `ipaddress.c:1001-1005`).
* `doc/ip-cref.tex:2395-2396` gives `chg` for `ip tunnel`, which `iptunnel.c:647` does not
  know; lines 188-191 say that a failing `ip` changes nothing, but
  `ip l2tp add tunnel ... session ...` may fail between its two requests.
* Words that are ignored: what follows `alias X` in `ip link set`, unknown words of
  `bridge mdb add`, `ip addrlabel`, `ip netconf`, `bridge fdb show` and `bridge mdb show`,
  and the rest of the line of `tc actions list` and `flush`.
* Words that are kept too long in a batch: the family that `ip link show`, `ip tunnel`,
  `ip mrule` and `ip xfrm` set, and the static filters of the list commands; several
  list commands end the whole batch with `exit(0)`.
* Fields that cannot be taken back: `remote any` and `local any` of `ip link ... gre`,
  vxlan `ageing none`, the egress flag of the action `nat`; `debug` of htb adds up.
* `ip mrule add from ADDR` is always refused. `rr` accepts a band equal to the number
  of bands. A cbq class does not send `allot` alone. The matches `nofrag` and the like
  of `u32` need a further word. `tmpl` of `ip xfrm` overwrites the family, and an empty
  `sel` is accepted.

## Not modelled

* `pfab_dump`: behind the misspelt `CONFIG_RTLENTLINK`, never compiled.
* The run time behaviour of the HTB parent under which `pfabric.py` installs the qdisc: kernel code that is not in
  the repository, and nothing in it says how that code uses the return codes of
  `pfab_enqueue`.
* `pfabric_tests.c`: fixed sequences of calls, each a prefix of a behaviour of
  `PfabQdisc`.
* Averages and plots of the evaluation: floating point arithmetic and pure output.
* Devices that push back (`requeue`): loopback and veth do not.
* Of the command lines: defaults that are computed after a loop (scope, table, prefix
  length), the peer of a veth device, the expressions of extended matches and the
  matches `meta`, `text`, `canid` and `ipset`, and the numeric formats themselves.
* What one line of a batch file leaves to the next in static variables (only the
  socket's answers are modelled, in `Flush`).
* Of netlink: a flush over several devices, whose lists the kernel dumps one after the
  other, each with its primary addresses first; `rtnl_listen` and `rtnl_from_file`, which
  hand messages to printing functions.
* The printing of the kernel's answers in iproute2, its tables of names, and the
  monitors: pure output.
* The other tools of iproute2 (`ss`, `nstat`, `ifstat`, `rtacct`, `lnstat`, `arpd`, the
  generators of netem's tables): unchanged, and the experiments do not run them.
