---------------------------- MODULE Experiments ----------------------------
(***************************************************************************)
(* The experiment scripts (scripts/run_figure_*.sh, run_guest.sh and       *)
(* common.sh) as one sequential process beside the benchmarks and perf     *)
(* that it starts.  The figures are run one after the other, in any order, *)
(* without a reboot of the host; the figures about virtual machines boot   *)
(* the guest for every configuration and run their benchmarks there.       *)
(*                                                                         *)
(* A benchmark process is what the scripts see of it: common/main-st.c and *)
(* main-mt.c around the real_main of a workload, which tell the script     *)
(* through the files /tmp/alloctest-bench.ready and .done how far they     *)
(* are.  A program is the sequence of its stages; the workload itself may  *)
(* signal that it is done, and main does so once more after real_main      *)
(* unless the workload has called exit.                                    *)
(***************************************************************************)
EXTENDS SystemConfigs

CONSTANTS
  Programs   \* the stages of each benchmark

VARIABLES
  proc,      \* the processes started so far: program, machine, stages left, fault
  flag       \* per machine, the process that last wrote .ready and .done, 0: no file

Stages == {"init",      \* reading the input, building the data structures
           "ready",     \* .ready is created
           "run",       \* the measured part
           "done",      \* .done is created by the workload
           "rest",      \* what the workload does after that
           "main_done"} \* real_main is over: main creates .done
ASSUME ProgramsAssumption == \A b \in DOMAIN Programs : Programs[b] \in Seq(Stages)

Pids == 1 .. Len(proc)
Alive(p) == proc[p].left # <<>>
Stage(p) == Head(proc[p].left)

StartProcess(program, machine) ==
  proc' = Append(proc, [program |-> program, machine |-> machine,
                        left |-> Programs[program], fault |-> "none"])

Signal(p, file) == flag' = [flag EXCEPT ![proc[p].machine][file] = p]

\* The workload signals .ready again when it is done.
SignalReadyTwice(p) ==
  /\ Alive(p) /\ Stage(p) \in {"ready", "done", "main_done"}
  /\ Signal(p, "ready")
  /\ proc' = [proc EXCEPT ![p].left = Tail(@)]

\* fopen of a flag file.
CreateFlag(p) ==
  /\ Alive(p) /\ Stage(p) \in {"ready", "done", "main_done"}
  /\ Signal(p, IF Stage(p) = "ready" THEN "ready" ELSE "done")
  /\ proc' = [proc EXCEPT ![p].left = Tail(@)]

Work(p) ==
  /\ Alive(p) /\ Stage(p) \in {"init", "run", "rest"}
  /\ proc' = [proc EXCEPT ![p].left = Tail(@)]
  /\ UNCHANGED flag

\* The process ends early: a failed allocation, assertion or fopen, exit(1)
\* after an error, a signal from outside.
Die(p) ==
  /\ Alive(p)
  /\ proc' = [proc EXCEPT ![p].left = <<>>, ![p].fault = "died"]
  /\ UNCHANGED flag

\* real_main returns with an error before it is ready.  main does not look at
\* the result and goes on to .done.
ReturnError(p) ==
  /\ Alive(p) /\ Stage(p) = "init"
  /\ proc' = [proc EXCEPT ![p].left = <<"main_done">>, ![p].fault = "returned"]
  /\ UNCHANGED flag

\* signalhandler, on SIGUSR1: .done is created and the process ends.
Usr1(p) ==
  /\ Alive(p)
  /\ Signal(p, "done")
  /\ proc' = [proc EXCEPT ![p].left = <<>>, ![p].fault = "signalled"]

BenchStep(p) == CreateFlag(p) \/ Work(p)
BenchFault(p) == Die(p) \/ ReturnError(p) \/ Usr1(p)

-----------------------------------------------------------------------------
\* The scripts.
CONSTANTS
  Figures,     \* per figure: vm, and the sequence of its [config, bench]
  MaxFigures,  \* how many figures are run
  MissingFiles \* what the scripts may not find: sets of binaries, "fragmentation", "guest"

\* A configuration has a name, and a benchmark is one of the programs.
ARun == [config : Seq(STRING) \ {<<>>}, bench : DOMAIN Programs]

ASSUME FiguresAssumption ==
  \A f \in DOMAIN Figures : Figures[f].vm \in BOOLEAN /\ Figures[f].runs \in Seq(ARun)

VARIABLES
  pc,          \* the next command of the script
  figure,      \* the figure being run
  runs,        \* its runs not yet finished
  count,       \* figures started
  missing,     \* the files that are missing
  pages,       \* the script's HUGETLB_2MB_PAGES and HUGETLB_1GB_PAGES
  knob,        \* the knobs of each machine
  vmConfig,    \* the configuration the guest was booted for
  perf,        \* the benchmark that perf is attached to, 0: not running
  outfile      \* the benchmarks whose OUTFILE says success

script == <<pc, figure, runs, count>>
vars == <<script, missing, pages, knob, vmConfig, perf, outfile, proc, flag>>

Machines == {"host", "guest"}
NoFlags == [ready |-> 0, done |-> 0]

config    == Head(runs).config
benchmark == Head(runs).bench
machine   == IF Figures[figure].vm THEN "guest" ELSE "host"
bench     == Len(proc)   \* BENCHMARK_PID

Init ==
  /\ pc = "idle"
  /\ figure \in DOMAIN Figures /\ runs = <<>> /\ count = 0
  /\ missing \in MissingFiles
  /\ pages = HugetlbPages
  /\ knob = [m \in Machines |-> BootKnobs]
  /\ vmConfig = <<>>
  /\ perf = 0 /\ outfile = {}
  /\ proc = <<>>
  /\ flag = [m \in Machines |-> NoFlags]

Goto(to) == pc' = to /\ UNCHANGED <<figure, runs, count>>
SetKnobs(m, k) == knob' = [knob EXCEPT ![m] = k]

-----------------------------------------------------------------------------
\* A figure's script starts; it reads configs.sh.
RunFigure ==
  /\ pc = "idle" /\ count < MaxFigures
  /\ figure' \in DOMAIN Figures
  /\ runs' = Figures[figure'].runs
  /\ count' = count + 1
  /\ pages' = HugetlbPages
  /\ vmConfig' = <<>>
  /\ pc' = "next"
  /\ UNCHANGED <<missing, knob, perf, outfile, proc, flag>>

EndFigure ==
  /\ pc = "next" /\ runs = <<>>
  /\ pc' = IF count = MaxFigures THEN "finished" ELSE "idle"
  /\ UNCHANGED <<missing, figure, runs, count, pages, knob, vmConfig, perf, outfile, proc, flag>>

\* What the script of a figure about virtual machines makes of the host's
\* knobs.  The last function called, reserve_kvm_hugetlb_pages, begins with
\* cleanup_system_configs and so takes back the max_cpu of setup_tridentpv_configs.
HostKnobs(k) ==
  reserve_kvm_hugetlb_pages(config,
    prepare_system_configs(config, pages, setup_4kb_configs(cleanup_system_configs(k))))

\* A figure about virtual machines, at each new configuration: the host's
\* knobs (no benchmark is set here), and the guest booted afresh.
PrepareVM ==
  /\ pc = "next" /\ runs # <<>>
  /\ machine = "guest" /\ vmConfig # config /\ "guest" \notin missing
  /\ vmConfig' = config
  /\ knob' = [host |-> HostKnobs(knob["host"]), guest |-> BootKnobs]
  /\ flag' = [flag EXCEPT !["guest"] = NoFlags]
  /\ UNCHANGED <<script, missing, pages, perf, outfile, proc>>

\* virsh start fails: the script exits, with the host's knobs set.
BootFails ==
  /\ pc = "next" /\ runs # <<>>
  /\ machine = "guest" /\ vmConfig # config /\ "guest" \in missing
  /\ SetKnobs("host", HostKnobs(knob["host"]))
  /\ runs' = <<>>
  /\ UNCHANGED <<pc, figure, count, missing, pages, vmConfig, perf, outfile, proc, flag>>

\* cleanup_system_configs; setup_4kb_configs.
ResetKnobs ==
  /\ pc = "next" /\ runs # <<>>
  /\ machine = "guest" => vmConfig = config
  /\ SetKnobs(machine, setup_4kb_configs(cleanup_system_configs(knob[machine])))
  /\ Goto("fragment")
  /\ UNCHANGED <<missing, pages, vmConfig, perf, outfile, proc, flag>>

\* The script calls exit: on the host it is the figure's script that ends, in
\* the guest only run_guest.sh, and the host goes on with the next benchmark.
Exit ==
  /\ pc' = "next"
  /\ runs' = IF machine = "guest" THEN Tail(runs) ELSE <<>>
  /\ UNCHANGED <<missing, figure, count, pages, knob, vmConfig, perf, outfile, proc, flag>>

\* fragment_memory, or drop_caches; prepare_args.
FragmentMemory ==
  /\ pc = "fragment"
  /\ IF Has(config, <<"F">>) /\ "fragmentation" \in missing
     THEN Exit
     ELSE Goto("configure") /\ UNCHANGED <<missing, pages, knob, vmConfig, perf, outfile, proc, flag>>

\* prepare_system_configs.  run_guest.sh is a process of its own, which has
\* read configs.sh; on the host the pages of the benchmark before are still set.
Configure ==
  /\ pc = "configure"
  /\ LET own == adjust_hugetlb_pages(IF machine = "guest" THEN HugetlbPages ELSE pages, benchmark) IN
     /\ SetKnobs(machine, prepare_system_configs(config, own, knob[machine]))
     /\ pages' = IF machine = "guest" THEN pages ELSE own
  /\ Goto("paths")
  /\ UNCHANGED <<missing, vmConfig, perf, outfile, proc, flag>>

prepare_paths ==
  /\ pc = "paths"
  /\ IF benchmark \in missing
     THEN Exit
     ELSE Goto("launch") /\ UNCHANGED <<missing, pages, knob, vmConfig, perf, outfile, proc, flag>>

-----------------------------------------------------------------------------
(* launch_workload *)

\* Only .ready is removed.
RemoveReady ==
  /\ pc = "launch"
  /\ flag' = [flag EXCEPT ![machine].ready = 0]
  /\ Goto("start")
  /\ UNCHANGED <<missing, pages, knob, vmConfig, perf, outfile, proc>>

RemoveFlags ==
  /\ pc = "launch"
  /\ flag' = [flag EXCEPT ![machine] = NoFlags]
  /\ Goto("start")
  /\ UNCHANGED <<missing, pages, knob, vmConfig, perf, outfile, proc>>

StartBenchmark ==
  /\ pc = "start"
  /\ StartProcess(benchmark, machine)
  /\ Goto("wait_ready")
  /\ UNCHANGED <<missing, pages, knob, vmConfig, perf, outfile, flag>>

\* while [ ! -f /tmp/alloctest-bench.ready ]
WaitReady ==
  /\ pc = "wait_ready" /\ flag[machine].ready # 0
  /\ Goto("profile")
  /\ UNCHANGED <<missing, pages, knob, vmConfig, perf, outfile, proc, flag>>

\* perf stat -p: it ends at once when the benchmark is no longer there.
StartPerf ==
  /\ pc = "profile"
  /\ perf' = IF Alive(bench) THEN bench ELSE 0
  /\ Goto("wait_done")
  /\ UNCHANGED <<missing, pages, knob, vmConfig, outfile, proc, flag>>

\* perf ends with the process it watches.
PerfEnds ==
  /\ perf # 0 /\ ~Alive(perf)
  /\ perf' = 0
  /\ UNCHANGED <<missing, script, pages, knob, vmConfig, outfile, proc, flag>>

\* while [ ! -f /tmp/alloctest-bench.done ], and then ****success****
WaitDone ==
  /\ pc = "wait_done" /\ flag[machine].done # 0
  /\ outfile' = outfile \cup {bench}
  /\ Goto("stop_perf")
  /\ UNCHANGED <<missing, pages, knob, vmConfig, perf, proc, flag>>

\* kill -INT $PERF_PID; wait $PERF_PID
StopPerf ==
  /\ pc = "stop_perf"
  /\ perf' = 0
  /\ Goto("wait_bench")
  /\ UNCHANGED <<missing, pages, knob, vmConfig, outfile, proc, flag>>

NextRun ==
  /\ runs' = Tail(runs)
  /\ pc' = "next"
  /\ IF machine = "guest"
     THEN SetKnobs("guest", cleanup_system_configs(knob["guest"]))
     ELSE UNCHANGED knob
  /\ UNCHANGED <<missing, figure, count, pages, vmConfig, perf, outfile, proc, flag>>

\* The script goes on without waiting for the benchmark.
DoNotWait == pc = "wait_bench" /\ NextRun

\* wait $BENCHMARK_PID, and the end of run_guest.sh.
WaitBenchmark == pc = "wait_bench" /\ ~Alive(bench) /\ NextRun

-----------------------------------------------------------------------------
Script ==
  \/ RunFigure \/ EndFigure \/ PrepareVM \/ BootFails \/ ResetKnobs \/ FragmentMemory
  \/ Configure \/ prepare_paths
  \/ RemoveFlags \/ StartBenchmark \/ WaitReady \/ StartPerf \/ WaitDone \/ StopPerf
  \/ WaitBenchmark

Bench == \E p \in Pids : BenchStep(p) /\ UNCHANGED <<missing, script, pages, knob, vmConfig, perf, outfile>>
Fault == \E p \in Pids : BenchFault(p) /\ UNCHANGED <<missing, script, pages, knob, vmConfig, perf, outfile>>

Next == Script \/ Bench \/ Fault \/ PerfEnds

\* The processes run; a fault may or may not happen.
Fairness == WF_vars(Script) /\ WF_vars(Bench) /\ WF_vars(PerfEnds)

Spec == Init /\ [][Next]_vars /\ Fairness

-----------------------------------------------------------------------------
Launched == pc \in {"wait_ready", "profile", "wait_done", "stop_perf", "wait_bench"}

\* What the script reads in the flag files is the word of the benchmark it has
\* started, never that of an earlier one on the same machine, although main
\* creates .done a second time after the workload (common.sh:226-227, 251-268,
\* main-st.c:301, btree1.c:1613).
OwnSignals ==
  /\ pc \in {"profile", "wait_done"} => flag[machine].ready = bench
  /\ pc \in {"stop_perf", "wait_bench"} => flag[machine].done = bench

\* No benchmark and no perf of an earlier run is left when a run begins, so
\* that what is measured is one benchmark alone (common.sh:274-279).
OneAtATime ==
  /\ \A p \in Pids : Alive(p) => p = bench /\ Launched
  /\ perf # 0 => perf = bench /\ Launched

\* The knobs that count for a configuration: how often smart compaction
\* retries counts when it is on, the hypercall when 1GB pages are collapsed.
Relevant(k) ==
  (Knobs \ {"retries", "via_hypercall", "pool_2mb", "pool_1gb"})
    \cup {x \in {"retries"} : k["compaction_smart"] = "1"}
    \cup {x \in {"via_hypercall"} : k["collapse_pud"] = "1"}

\* A benchmark runs under the knobs that its configuration gives a machine
\* just booted, whatever was run before it without a reboot, on the host and
\* in the guest (common.sh:101-221).
HistoryIndependent ==
  Launched =>
    \A m \in {machine, "host"} :
      LET reset == setup_4kb_configs(cleanup_system_configs(BootKnobs))
          fresh == IF m = machine THEN Setup(Mode(config), reset) ELSE HostKnobs(BootKnobs)
      IN  \A x \in Relevant(fresh) : knob[m][x] = fresh[x]

\* The experiments come to their end, unless a benchmark fails: then the
\* script may wait for its file for ever.
CampaignEnds == <>(pc = "finished" \/ \E p \in Pids : proc[p].fault # "none")

\* A benchmark on the host has the hugetlb pool that configs.sh and
\* adjust_hugetlb_pages name for it ("number of hugetlb pages", configs.sh:16).
PoolAsConfigured ==
  Launched /\ machine = "host" =>
    LET own == Reserve(config, adjust_hugetlb_pages(HugetlbPages, benchmark),
                       cleanup_system_configs(BootKnobs))
    IN  knob["host"]["pool_2mb"] = own["pool_2mb"] /\ knob["host"]["pool_1gb"] = own["pool_1gb"]

\* A run that compile_results.py reports as "Trident" (compile_results.py:22)
\* had the knobs of setup_trident_configs.
ReportedAsRun ==
  Launched /\ pretty(config) = <<"Trident">> =>
    knob[machine]["enabled_pud"] = "1" /\ knob[machine]["compaction_smart"] = "1"
=============================================================================
