------------------------- MODULE ExperimentsProofs -------------------------
(***************************************************************************)
(* Proofs about Experiments for any figures, programs and missing files,   *)
(* and any number of figures run one after the other: what the script      *)
(* reads in the flag files is its own benchmark's word, one benchmark runs *)
(* at a time, and the knobs it runs under do not depend on what was run    *)
(* before.                                                                 *)
(***************************************************************************)
EXTENDS Experiments, TLAPS

Locations == {"idle", "next", "fragment", "configure", "paths", "launch", "start", "wait_ready",
              "profile", "wait_done", "stop_perf", "wait_bench", "finished"}
Faults  == {"none", "died", "returned", "signalled"}
Process == [program : DOMAIN Programs, machine : Machines, left : Seq(Stages), fault : Faults]

TypeOK ==
  /\ pc \in Locations
  /\ figure \in DOMAIN Figures
  /\ runs \in Seq(ARun)
  /\ DOMAIN knob = Machines
  /\ perf \in Nat
  /\ proc \in Seq(Process)
  /\ flag \in [Machines -> [ready : Nat, done : Nat]]

\* In the middle of a run.
Running == pc \in Locations \ {"idle", "next", "finished"}

\* The run is the first of those left, and a guest was booted for it.
RunKnown == Running => runs # <<>> /\ (machine = "guest" => vmConfig = config)

\* The benchmark alone runs, on the machine of the figure; perf only until it
\* is stopped.
Alone ==
  /\ \A p \in Pids : Alive(p) => p = bench /\ Launched
  /\ Launched => bench # 0 /\ proc[bench].machine = machine
  /\ perf # 0 => perf = bench /\ pc \in {"wait_done", "stop_perf"}

\* The flag files are removed before the benchmark starts, and then only it
\* writes them.
Flags ==
  /\ pc = "start" => flag[machine] = NoFlags
  /\ Launched => flag[machine].ready \in {0, bench} /\ flag[machine].done \in {0, bench}
  /\ pc \in {"profile", "wait_done"} => flag[machine].ready # 0
  /\ pc \in {"stop_perf", "wait_bench"} => flag[machine].done # 0

\* The knobs that cleanup_system_configs and setup_4kb_configs do not write, or
\* that are about the pool.
Loose == {"retries", "via_hypercall", "pool_2mb", "pool_1gb"}
Reset(k) == setup_4kb_configs(cleanup_system_configs(k))

\* Two machines' knobs agree but for the loose ones.
SameButLoose(k, l) == \A x \in Knobs \ Loose : k[x] = l[x]

\* The knobs that count are those of a machine just booted.
AsFresh(k, fresh) == \A x \in Relevant(fresh) : k[x] = fresh[x]

\* HostKnobs for a configuration and page counts of one's choice.
HostFor(c, p, k) == reserve_kvm_hugetlb_pages(c, prepare_system_configs(c, p, Reset(k)))

KnobsKnown ==
  /\ pc \in {"fragment", "configure"} => SameButLoose(knob[machine], Reset(BootKnobs))
  /\ Running /\ pc \notin {"fragment", "configure"}
       => AsFresh(knob[machine], Setup(Mode(config), Reset(BootKnobs)))
  /\ machine = "guest" /\ runs # <<>> /\ vmConfig # <<>>
       => AsFresh(knob["host"], HostFor(vmConfig, pages, BootKnobs))

IInv == TypeOK /\ RunKnown /\ Alone /\ Flags /\ KnobsKnown

-----------------------------------------------------------------------------
(* The functions on the knobs. *)

Modes == {"2mbthp", "trident", "trident_nosmart", "trident_1gbonly", "tridentpv", "4kb"}

LEMMA ModesKnown == ASSUME NEW c PROVE Mode(c) \in Modes
BY DEF Mode, Modes

\* The reset of the script writes every knob that is not loose.
LEMMA ResetForgets == ASSUME NEW k, NEW l PROVE SameButLoose(Reset(k), Reset(l))
BY DEF SameButLoose, Knobs, Loose, Reset, Write, setup_4kb_configs, cleanup_system_configs

\* Only the pool is written by a reservation.
LEMMA ReserveWritesPool ==
  ASSUME NEW c, NEW p, NEW k, NEW x \in Knobs \ {"pool_2mb", "pool_1gb"}
  PROVE  Reserve(c, p, k)[x] = k[x]
BY DEF Reserve, Write

LEMMA CleanupWrites ==
  ASSUME NEW k, NEW x \in Knobs
  PROVE  cleanup_system_configs(k)[x] = IF x \in {"pool_2mb", "pool_1gb", "max_cpu"} THEN "0" ELSE k[x]
BY DEF cleanup_system_configs, Write

\* From knobs that agree but for the loose ones a setup makes knobs that agree
\* wherever it counts: a loose knob is written by each setup under which it
\* counts (common.sh:101-180).
LEMMA SetupForgets ==
  ASSUME NEW mode \in Modes, NEW k, NEW l, SameButLoose(k, l)
  PROVE  /\ AsFresh(Setup(mode, k), Setup(mode, l))
         /\ Relevant(Setup(mode, k)) = Relevant(Setup(mode, l))
<1>. USE DEF SameButLoose, Knobs, Loose, AsFresh, Relevant, Write
<1>1. CASE mode = "2mbthp"
  BY <1>1 DEF Setup, setup_2mbthp_configs
<1>2. CASE mode = "trident"
  BY <1>2 DEF Setup, setup_trident_configs
<1>3. CASE mode = "trident_nosmart"
  BY <1>3 DEF Setup, setup_trident_configs, setup_trident_nosmart_configs
<1>4. CASE mode = "trident_1gbonly"
  BY <1>4 DEF Setup, setup_trident_configs, setup_trident_1gbonly_configs
<1>5. CASE mode = "tridentpv"
  BY <1>5 DEF Setup, setup_trident_configs, setup_tridentpv_configs
<1>6. CASE mode = "4kb"
  BY <1>6 DEF Setup, setup_4kb_configs
<1>. QED
  BY <1>1, <1>2, <1>3, <1>4, <1>5, <1>6 DEF Modes

\* What prepare_system_configs leaves after a reset, whatever the knobs and the
\* page counts before it.
LEMMA PrepareForgets ==
  ASSUME NEW c, NEW p, NEW k, NEW l, SameButLoose(k, l)
  PROVE  AsFresh(prepare_system_configs(c, p, k), Setup(Mode(c), l))
<1>1. SameButLoose(Reserve(c, p, k), l)
  BY ReserveWritesPool DEF SameButLoose, Loose
<1>. QED
  BY <1>1, ModesKnown, SetupForgets DEF prepare_system_configs

\* The same for the host of a guest: the pool apart, its knobs are a function of
\* the configuration.
LEMMA HostForgets ==
  ASSUME NEW c, NEW p, NEW q, NEW k, NEW l
  PROVE  AsFresh(HostFor(c, p, k), HostFor(c, q, l))
<1>. DEFINE a == Reserve(c, p, Reset(k))
            b == Reserve(c, q, Reset(l))
            A == Setup(Mode(c), a)
            B == Setup(Mode(c), b)
<1>1. SameButLoose(a, b)
  BY ResetForgets, ReserveWritesPool DEF SameButLoose, Loose
<1>2. AsFresh(A, B)
  BY <1>1, ModesKnown, SetupForgets
<1>3. \A x \in Knobs \ {"pool_2mb", "pool_1gb"} :
        HostFor(c, p, k)[x] = (IF x = "max_cpu" THEN "0" ELSE A[x])
  BY ReserveWritesPool, CleanupWrites DEF HostFor, reserve_kvm_hugetlb_pages, prepare_system_configs
<1>4. \A x \in Knobs \ {"pool_2mb", "pool_1gb"} :
        HostFor(c, q, l)[x] = (IF x = "max_cpu" THEN "0" ELSE B[x])
  BY ReserveWritesPool, CleanupWrites DEF HostFor, reserve_kvm_hugetlb_pages, prepare_system_configs
<1>5. Relevant(HostFor(c, q, l)) = Relevant(B) /\ Relevant(B) \subseteq Knobs \ {"pool_2mb", "pool_1gb"}
  BY <1>4 DEF Relevant, Knobs
<1>. QED
  BY <1>2, <1>3, <1>4, <1>5 DEF AsFresh

-----------------------------------------------------------------------------
(* The processes. *)

\* A benchmark that runs writes its own machine's files, and stays itself.
LEMMA StepOfBenchmark ==
  ASSUME TypeOK, NEW p \in Pids, BenchStep(p) \/ BenchFault(p)
  PROVE  /\ Alive(p)
         /\ proc' \in Seq(Process) /\ Len(proc') = Len(proc)
         /\ \A q \in Pids : q # p => proc'[q] = proc[q]
         /\ proc'[p].machine = proc[p].machine
         /\ \/ flag' = flag
            \/ \E file \in {"ready", "done"} : flag' = [flag EXCEPT ![proc[p].machine][file] = p]
<1>1. proc \in Seq(Process) /\ p \in 1 .. Len(proc) /\ proc[p] \in Process
  BY DEF TypeOK, Pids
<1>2. /\ Alive(p)
      /\ \/ flag' = flag
         \/ \E file \in {"ready", "done"} : flag' = [flag EXCEPT ![proc[p].machine][file] = p]
  BY DEF BenchStep, BenchFault, CreateFlag, Work, Die, ReturnError, Usr1, Signal
<1>3. proc[p].left \in Seq(Stages) /\ proc[p].left # <<>>
  BY <1>1, <1>2 DEF Process, Alive
<1>4. Tail(proc[p].left) \in Seq(Stages) /\ <<"main_done">> \in Seq(Stages) /\ <<>> \in Seq(Stages)
  BY <1>3 DEF Stages
<1>5. \E new \in Process : new.machine = proc[p].machine /\ proc' = [proc EXCEPT ![p] = new]
  <2>1. CASE CreateFlag(p) \/ Work(p)
    <3>. DEFINE new == [proc[p] EXCEPT !.left = Tail(@)]
    <3>1. new \in Process /\ new.machine = proc[p].machine
      BY <1>1, <1>4 DEF Process
    <3>2. proc' = [proc EXCEPT ![p] = new]
      BY <1>1, <2>1 DEF CreateFlag, Work
    <3>. QED
      BY <3>1, <3>2
  <2>2. CASE BenchFault(p)
    <3>1. PICK left \in Seq(Stages), fault \in Faults :
            proc' = [proc EXCEPT ![p].left = left, ![p].fault = fault]
      BY <2>2, <1>4 DEF BenchFault, Die, ReturnError, Usr1, Faults
    <3>. DEFINE new == [proc[p] EXCEPT !.left = left, !.fault = fault]
    <3>2. new \in Process /\ new.machine = proc[p].machine
      BY <1>1 DEF Process
    <3>3. proc' = [proc EXCEPT ![p] = new]
      BY <1>1, <3>1
    <3>. QED
      BY <3>2, <3>3
  <2>. QED
    BY <2>1, <2>2 DEF BenchStep
<1>. QED
  BY <1>1, <1>2, <1>5 DEF Pids

-----------------------------------------------------------------------------
LEMMA InitIInv == Init => IInv
<1>. SUFFICES ASSUME Init PROVE IInv
  OBVIOUS
<1>1. TypeOK
  BY DEF Init, TypeOK, Locations, Machines, NoFlags
<1>2. ~Running /\ ~Launched /\ runs = <<>> /\ pc = "idle" /\ Pids = {} /\ perf = 0
  BY DEF Init, Running, Launched, Pids
<1>. QED
  BY <1>1, <1>2 DEF IInv, RunKnown, Alone, Flags, KnobsKnown

\* The figure's machine is one of the two.
LEMMA MachineKnown == ASSUME TypeOK PROVE machine \in Machines
BY FiguresAssumption DEF TypeOK, machine, Machines

\* The run at hand, and what is left of the runs when it is over.
LEMMA RunTyped ==
  ASSUME TypeOK, runs # <<>>
  PROVE  config # <<>> /\ benchmark \in DOMAIN Programs
<1>1. Head(runs) \in ARun
  BY DEF TypeOK
<1>2. \A r \in ARun : r.config # <<>> /\ r.bench \in DOMAIN Programs
  BY DEF ARun
<1>. QED
  BY <1>1, <1>2 DEF config, benchmark

LEMMA TailTyped == ASSUME TypeOK, runs # <<>> PROVE Tail(runs) \in Seq(ARun)
BY DEF TypeOK

-----------------------------------------------------------------------------
(* Between two runs. *)

LEMMA RunFigureIInv == ASSUME IInv, RunFigure PROVE IInv'
<1>. USE DEF IInv
<1>1. TypeOK'
  BY FiguresAssumption DEF RunFigure, TypeOK, Locations
<1>2. Pids' = Pids /\ \A p \in Pids : ~Alive(p) /\ ~Alive(p)'
  BY DEF RunFigure, Alone, Pids, Alive, Launched
<1>3. pc' = "next" /\ perf' = 0 /\ vmConfig' = <<>>
  BY DEF RunFigure, Alone
<1>. QED
  BY <1>1, <1>2, <1>3 DEF RunKnown, Alone, Flags, KnobsKnown, Running, Launched

LEMMA EndFigureIInv == ASSUME IInv, EndFigure PROVE IInv'
<1>. USE DEF IInv
<1>1. TypeOK'
  BY DEF EndFigure, TypeOK, Locations
<1>2. Pids' = Pids /\ \A p \in Pids : ~Alive(p) /\ ~Alive(p)'
  BY DEF EndFigure, Alone, Pids, Alive, Launched
<1>3. pc' \in {"idle", "finished"} /\ perf' = 0 /\ runs' = <<>>
  BY DEF EndFigure, Alone
<1>. QED
  BY <1>1, <1>2, <1>3 DEF RunKnown, Alone, Flags, KnobsKnown, Running, Launched

LEMMA PrepareVMIInv == ASSUME IInv, PrepareVM PROVE IInv'
<1>. USE DEF IInv
<1>1. TypeOK'
  BY DEF PrepareVM, script, TypeOK, Machines, NoFlags
<1>2. Pids' = Pids /\ \A p \in Pids : ~Alive(p) /\ ~Alive(p)'
  BY DEF PrepareVM, Alone, Pids, Alive, Launched
<1>3. pc' = "next" /\ perf' = 0 /\ runs' = runs /\ pages' = pages /\ vmConfig' = config
  BY DEF PrepareVM, script, Alone
<1>4. knob'["host"] = HostFor(config, pages, knob["host"])
  BY DEF PrepareVM, HostKnobs, HostFor, Reset
<1>5. AsFresh(knob'["host"], HostFor(vmConfig', pages', BootKnobs))
  BY <1>3, <1>4, HostForgets
<1>. QED
  BY <1>1, <1>2, <1>3, <1>5 DEF RunKnown, Alone, Flags, KnobsKnown, Running, Launched

LEMMA BootFailsIInv == ASSUME IInv, BootFails PROVE IInv'
<1>. USE DEF IInv
<1>1. TypeOK'
  BY DEF BootFails, SetKnobs, TypeOK
<1>2. Pids' = Pids /\ \A p \in Pids : ~Alive(p) /\ ~Alive(p)'
  BY DEF BootFails, Alone, Pids, Alive, Launched
<1>3. pc' = "next" /\ perf' = 0 /\ runs' = <<>>
  BY DEF BootFails, Alone
<1>. QED
  BY <1>1, <1>2, <1>3 DEF RunKnown, Alone, Flags, KnobsKnown, Running, Launched

-----------------------------------------------------------------------------
(* A run, up to the launch. *)

LEMMA ResetKnobsIInv == ASSUME IInv, ResetKnobs PROVE IInv'
<1>. USE DEF IInv
<1>1. TypeOK'
  BY DEF ResetKnobs, Goto, SetKnobs, TypeOK, Locations
<1>2. Pids' = Pids /\ \A p \in Pids : ~Alive(p) /\ ~Alive(p)'
  BY DEF ResetKnobs, Alone, Pids, Alive, Launched
<1>3. /\ pc' = "fragment" /\ perf' = 0 /\ runs' = runs /\ runs # <<>>
      /\ machine' = machine /\ config' = config /\ vmConfig' = vmConfig /\ pages' = pages
      /\ machine = "guest" => vmConfig = config
  BY DEF ResetKnobs, Goto, Alone, machine, config
<1>4. machine \in Machines /\ DOMAIN knob = Machines
  BY MachineKnown DEF TypeOK
<1>5. knob'[machine] = Reset(knob[machine]) /\ (machine = "guest" => knob'["host"] = knob["host"])
  BY <1>4 DEF ResetKnobs, SetKnobs, Reset, Machines
<1>6. SameButLoose(knob'[machine], Reset(BootKnobs))
  BY <1>5, ResetForgets
<1>. QED
  BY <1>1, <1>2, <1>3, <1>5, <1>6 DEF RunKnown, Alone, Flags, KnobsKnown, Running, Launched

\* The script gives up before it has started the benchmark.
LEMMA ExitIInv ==
  ASSUME IInv, pc \in {"fragment", "configure", "paths", "launch", "start"}, Exit
  PROVE  IInv'
<1>. USE DEF IInv
<1>0. runs # <<>>
  BY DEF RunKnown, Running, Locations
<1>1. TypeOK'
  BY <1>0, TailTyped DEF Exit, TypeOK, Locations
<1>2. Pids' = Pids /\ \A p \in Pids : ~Alive(p) /\ ~Alive(p)'
  BY DEF Exit, Alone, Pids, Alive, Launched
<1>3. /\ pc' = "next" /\ perf' = 0 /\ knob' = knob /\ machine' = machine
      /\ vmConfig' = vmConfig /\ pages' = pages
  BY DEF Exit, Alone, machine
<1>. QED
  BY <1>0, <1>1, <1>2, <1>3 DEF RunKnown, Alone, Flags, KnobsKnown, Running, Launched

LEMMA FragmentMemoryIInv == ASSUME IInv, FragmentMemory PROVE IInv'
<1>1. CASE Exit
  BY <1>1, ExitIInv DEF FragmentMemory
<1>2. CASE Goto("configure") /\ UNCHANGED <<missing, pages, knob, vmConfig, perf, outfile, proc, flag>>
  <2>. USE <1>2 DEF IInv
  <2>1. TypeOK'
    BY DEF Goto, TypeOK, Locations
  <2>2. /\ pc = "fragment" /\ pc' = "configure" /\ runs' = runs /\ machine' = machine
        /\ config' = config /\ Pids' = Pids /\ \A p \in Pids : Alive(p)' <=> Alive(p)
    BY DEF FragmentMemory, Goto, machine, config, Pids, Alive
  <2>. QED
    BY <2>1, <2>2 DEF RunKnown, Alone, Flags, KnobsKnown, Running, Launched, Locations
<1>. QED
  BY <1>1, <1>2 DEF FragmentMemory

LEMMA ConfigureIInv == ASSUME IInv, Configure PROVE IInv'
<1>. USE DEF IInv
<1>1. TypeOK'
  BY DEF Configure, Goto, SetKnobs, TypeOK, Locations
<1>2. /\ pc = "configure" /\ pc' = "paths" /\ runs' = runs /\ machine' = machine /\ config' = config
      /\ vmConfig' = vmConfig /\ perf' = perf /\ (machine = "guest" => pages' = pages)
      /\ Pids' = Pids /\ \A p \in Pids : Alive(p)' <=> Alive(p)
  BY DEF Configure, Goto, machine, config, Pids, Alive
<1>3. machine \in Machines /\ DOMAIN knob = Machines
  BY MachineKnown DEF TypeOK
<1>4. /\ \E own : knob'[machine] = prepare_system_configs(config, own, knob[machine])
      /\ machine = "guest" => knob'["host"] = knob["host"]
  BY <1>3 DEF Configure, SetKnobs, Machines
<1>5. SameButLoose(knob[machine], Reset(BootKnobs))
  BY <1>2 DEF KnobsKnown
<1>6. AsFresh(knob'[machine], Setup(Mode(config), Reset(BootKnobs)))
  BY <1>4, <1>5, PrepareForgets
<1>. QED
  BY <1>1, <1>2, <1>4, <1>6 DEF RunKnown, Alone, Flags, KnobsKnown, Running, Launched, Locations

LEMMA preparePathsIInv == ASSUME IInv, prepare_paths PROVE IInv'
<1>1. CASE Exit
  BY <1>1, ExitIInv DEF prepare_paths
<1>2. CASE Goto("launch") /\ UNCHANGED <<missing, pages, knob, vmConfig, perf, outfile, proc, flag>>
  <2>. USE <1>2 DEF IInv
  <2>1. TypeOK'
    BY DEF Goto, TypeOK, Locations
  <2>2. /\ pc = "paths" /\ pc' = "launch" /\ runs' = runs /\ machine' = machine
        /\ config' = config /\ Pids' = Pids /\ \A p \in Pids : Alive(p)' <=> Alive(p)
    BY DEF prepare_paths, Goto, machine, config, Pids, Alive
  <2>. QED
    BY <2>1, <2>2 DEF RunKnown, Alone, Flags, KnobsKnown, Running, Launched, Locations
<1>. QED
  BY <1>1, <1>2 DEF prepare_paths

-----------------------------------------------------------------------------
(* launch_workload *)

LEMMA RemoveFlagsIInv == ASSUME IInv, RemoveFlags PROVE IInv'
<1>. USE DEF IInv
<1>0. machine \in Machines
  BY MachineKnown
<1>1. TypeOK'
  BY <1>0 DEF RemoveFlags, Goto, TypeOK, Locations, NoFlags
<1>2. /\ pc = "launch" /\ pc' = "start" /\ runs' = runs /\ machine' = machine /\ config' = config
      /\ vmConfig' = vmConfig /\ perf' = perf /\ knob' = knob /\ pages' = pages
      /\ Pids' = Pids /\ \A p \in Pids : Alive(p)' <=> Alive(p)
  BY DEF RemoveFlags, Goto, machine, config, Pids, Alive
<1>3. flag'[machine] = NoFlags
  BY <1>0 DEF RemoveFlags, TypeOK
<1>. QED
  BY <1>1, <1>2, <1>3 DEF RunKnown, Alone, Flags, KnobsKnown, Running, Launched, Locations

LEMMA StartBenchmarkIInv == ASSUME IInv, StartBenchmark PROVE IInv'
<1>. USE DEF IInv
<1>0. machine \in Machines /\ runs # <<>> /\ pc = "start"
  BY MachineKnown DEF StartBenchmark, RunKnown, Running, Locations
<1>1. benchmark \in DOMAIN Programs
  BY <1>0, RunTyped
<1>. DEFINE new == [program |-> benchmark, machine |-> machine, left |-> Programs[benchmark], fault |-> "none"]
<1>2. new \in Process /\ proc' = Append(proc, new)
  BY <1>0, <1>1, ProgramsAssumption DEF Process, Faults, StartBenchmark, StartProcess
<1>3. /\ proc' \in Seq(Process) /\ bench' = bench + 1 /\ bench \in Nat
      /\ Pids = 1 .. bench /\ Pids' = 1 .. bench + 1
      /\ proc'[bench'] = new /\ \A p \in Pids : proc'[p] = proc[p]
  BY <1>2 DEF TypeOK, bench, Pids
<1>4. TypeOK'
  BY <1>3 DEF StartBenchmark, Goto, TypeOK, Locations
<1>5. /\ pc' = "wait_ready" /\ runs' = runs /\ machine' = machine /\ config' = config
      /\ vmConfig' = vmConfig /\ perf' = perf /\ knob' = knob /\ pages' = pages /\ flag' = flag
  BY DEF StartBenchmark, Goto, machine, config
<1>6. (\A p \in Pids : ~Alive(p) /\ ~Alive(p)') /\ perf = 0
  BY <1>0, <1>3 DEF Alone, Launched, Alive
<1>7. RunKnown' /\ KnobsKnown'
  BY <1>0, <1>5 DEF RunKnown, KnobsKnown, Running, Locations
<1>8. \A p \in Pids' : p \in Pids \/ p = bench'
  BY <1>3
<1>9. Alone'
  BY <1>3, <1>5, <1>6, <1>8 DEF Alone, Launched
<1>10. Flags'
  BY <1>0, <1>5 DEF Flags, Launched, NoFlags
<1>. QED
  BY <1>4, <1>7, <1>9, <1>10

\* The script goes from one of its waits to the next while it looks at the
\* benchmark; perf may start or stop.
LEMMA WaitingIInv ==
  ASSUME IInv, Launched, Launched',
         UNCHANGED <<figure, runs, pages, knob, vmConfig, proc, flag>>,
         perf' \in {0, perf} \/ (perf' = bench /\ pc' = "wait_done"),
         perf' # 0 => pc' \in {"wait_done", "stop_perf"},
         pc' \in {"profile", "wait_done"} => flag[machine].ready # 0,
         pc' \in {"stop_perf", "wait_bench"} => flag[machine].done # 0
  PROVE  IInv'
<1>. USE DEF IInv
<1>1. bench \in Nat /\ bench' = bench
  BY DEF bench, TypeOK
<1>2. TypeOK'
  BY <1>1 DEF TypeOK, Launched, Locations
<1>3. /\ machine' = machine /\ config' = config
      /\ Pids' = Pids /\ \A p \in Pids : Alive(p)' <=> Alive(p)
  BY DEF machine, config, Pids, Alive
<1>4. Running /\ Running' /\ pc \notin {"start", "fragment", "configure"} /\ pc' \notin {"start", "fragment", "configure"}
  BY DEF Launched, Running, Locations
<1>5. RunKnown' /\ KnobsKnown'
  BY <1>3, <1>4 DEF RunKnown, KnobsKnown
<1>6. Alone'
  BY <1>1, <1>3 DEF Alone
<1>7. Flags'
  BY <1>1, <1>3, <1>4 DEF Flags
<1>. QED
  BY <1>2, <1>5, <1>6, <1>7

LEMMA WaitReadyIInv == ASSUME IInv, WaitReady PROVE IInv'
<1>1. perf = 0
  BY DEF IInv, Alone, WaitReady
<1>. QED
  BY <1>1, WaitingIInv DEF WaitReady, Goto, Launched

LEMMA StartPerfIInv == ASSUME IInv, StartPerf PROVE IInv'
<1>1. flag[machine].ready # 0
  BY DEF IInv, Flags, StartPerf
<1>. QED
  BY <1>1, WaitingIInv DEF StartPerf, Goto, Launched

LEMMA WaitDoneIInv == ASSUME IInv, WaitDone PROVE IInv'
BY WaitingIInv DEF WaitDone, Goto, Launched

LEMMA StopPerfIInv == ASSUME IInv, StopPerf PROVE IInv'
<1>1. flag[machine].done # 0
  BY DEF IInv, Flags, StopPerf
<1>. QED
  BY <1>1, WaitingIInv DEF StopPerf, Goto, Launched

LEMMA PerfEndsIInv == ASSUME IInv, PerfEnds PROVE IInv'
<1>1. pc \in {"wait_done", "stop_perf"}
  BY DEF IInv, Alone, PerfEnds
<1>2. /\ pc = "wait_done" => flag[machine].ready # 0
      /\ pc = "stop_perf" => flag[machine].done # 0
  BY <1>1 DEF IInv, Flags
<1>. QED
  BY <1>1, <1>2, WaitingIInv DEF PerfEnds, script, Launched

LEMMA WaitBenchmarkIInv == ASSUME IInv, WaitBenchmark PROVE IInv'
<1>. USE DEF IInv
<1>0. pc = "wait_bench" /\ runs # <<>>
  BY DEF WaitBenchmark, RunKnown, Running, Locations
<1>1. TypeOK'
  BY <1>0, TailTyped DEF WaitBenchmark, NextRun, SetKnobs, TypeOK, Locations
<1>2. Pids' = Pids /\ \A p \in Pids : ~Alive(p) /\ ~Alive(p)'
  BY DEF WaitBenchmark, NextRun, Alone, Pids, Alive
<1>3. /\ pc' = "next" /\ perf' = 0 /\ machine' = machine
      /\ vmConfig' = vmConfig /\ pages' = pages
  BY <1>0 DEF WaitBenchmark, NextRun, Alone, machine
<1>4. machine = "guest" => knob'["host"] = knob["host"]
  BY DEF WaitBenchmark, NextRun, SetKnobs, TypeOK, Machines
<1>. QED
  BY <1>0, <1>1, <1>2, <1>3, <1>4 DEF RunKnown, Alone, Flags, KnobsKnown, Running, Launched

-----------------------------------------------------------------------------
LEMMA BenchmarkIInv ==
  ASSUME IInv, NEW p \in Pids, BenchStep(p) \/ BenchFault(p),
         UNCHANGED <<missing, script, pages, knob, vmConfig, perf, outfile>>
  PROVE  IInv'
<1>. USE DEF IInv
<1>1. /\ p = bench /\ Launched /\ proc[p].machine = machine /\ bench' = bench
      /\ proc' \in Seq(Process) /\ Pids' = Pids
      /\ \A q \in Pids : q # p => proc'[q] = proc[q]
      /\ proc'[p].machine = machine
  BY StepOfBenchmark DEF Alone, bench, Pids
<1>2. flag' = flag \/ \E file \in {"ready", "done"} : flag' = [flag EXCEPT ![machine][file] = bench]
  BY <1>1, StepOfBenchmark
<1>3. bench \in Nat \ {0} /\ machine \in Machines
  BY <1>1, MachineKnown DEF bench, TypeOK, Alone
<1>4. /\ flag' \in [Machines -> [ready : Nat, done : Nat]]
      /\ flag'[machine].ready \in {flag[machine].ready, bench}
      /\ flag'[machine].done \in {flag[machine].done, bench}
  BY <1>2, <1>3 DEF TypeOK
<1>5. /\ pc' = pc /\ runs' = runs /\ machine' = machine /\ config' = config /\ Launched'
  BY <1>1 DEF script, machine, config, Launched
<1>6. TypeOK'
  BY <1>1, <1>4 DEF TypeOK, script
<1>7. RunKnown' /\ KnobsKnown'
  BY <1>5 DEF RunKnown, KnobsKnown, Running
<1>8. Alone'
  <2>1. \A q \in Pids : q # p => (Alive(q)' <=> Alive(q))
    BY <1>1 DEF Alive
  <2>. QED
    BY <1>1, <1>3, <1>5, <2>1 DEF Alone
<1>9. Flags'
  BY <1>1, <1>3, <1>4, <1>5 DEF Flags, Launched
<1>. QED
  BY <1>6, <1>7, <1>8, <1>9

LEMMA NextIInv == IInv /\ [Next]_vars => IInv'
<1>. SUFFICES ASSUME IInv, [Next]_vars PROVE IInv'
  OBVIOUS
<1>1. CASE Script
  BY <1>1, RunFigureIInv, EndFigureIInv, PrepareVMIInv, BootFailsIInv, ResetKnobsIInv,
     FragmentMemoryIInv, ConfigureIInv, preparePathsIInv, RemoveFlagsIInv, StartBenchmarkIInv,
     WaitReadyIInv, StartPerfIInv, WaitDoneIInv, StopPerfIInv, WaitBenchmarkIInv
  DEF Script
<1>2. CASE Bench \/ Fault
  BY <1>2, BenchmarkIInv DEF Bench, Fault
<1>3. CASE PerfEnds
  BY <1>3, PerfEndsIInv
<1>4. CASE UNCHANGED vars
  BY <1>4 DEF vars, script, IInv, TypeOK, RunKnown, Alone, Flags, KnobsKnown, Running, Launched,
              machine, config, bench, Pids, Alive
<1>. QED
  BY <1>1, <1>2, <1>3, <1>4 DEF Next

\* The invariant holds in every state of a campaign, whatever programs, figures
\* and configurations it has.
THEOREM IInvInvariant == Spec => []IInv
BY InitIInv, NextIInv, PTL DEF Spec

\* What the script reads in the flag files is the word of the benchmark it has
\* started (common.sh:226-268).
THEOREM OwnSignalsCorrect == Spec => []OwnSignals
<1>1. IInv => OwnSignals
  BY DEF IInv, Flags, OwnSignals, Launched
<1>. QED
  BY <1>1, IInvInvariant, PTL

\* No benchmark and no perf of an earlier run is left when a run begins.
THEOREM OneAtATimeCorrect == Spec => []OneAtATime
<1>1. IInv => OneAtATime
  BY DEF IInv, Alone, OneAtATime, Launched
<1>. QED
  BY <1>1, IInvInvariant, PTL

\* A benchmark runs under the knobs that its configuration gives a machine just
\* booted, whatever figures were run before it.
THEOREM HistoryIndependentCorrect == Spec => []HistoryIndependent
<1>1. IInv => HistoryIndependent
  <2>. SUFFICES ASSUME IInv, Launched, NEW m \in {machine, "host"}
       PROVE  LET reset == setup_4kb_configs(cleanup_system_configs(BootKnobs))
                  fresh == IF m = machine THEN Setup(Mode(config), reset) ELSE HostKnobs(BootKnobs)
              IN  \A x \in Relevant(fresh) : knob[m][x] = fresh[x]
    BY DEF HistoryIndependent
  <2>1. Running /\ pc \notin {"fragment", "configure"} /\ runs # <<>>
    BY DEF Launched, Running, Locations, IInv, RunKnown
  <2>2. CASE m = machine
    BY <2>1, <2>2 DEF IInv, KnobsKnown, AsFresh, Reset
  <2>3. CASE m # machine
    <3>1. m = "host" /\ machine = "guest" /\ vmConfig = config
      BY <2>1, <2>3, MachineKnown DEF Machines, IInv, RunKnown
    <3>2. vmConfig # <<>>
      BY <2>1, <3>1, RunTyped DEF IInv
    <3>3. AsFresh(knob["host"], HostFor(config, pages, BootKnobs))
      BY <2>1, <3>1, <3>2 DEF IInv, KnobsKnown
    <3>4. HostKnobs(BootKnobs) = HostFor(config, pages, BootKnobs)
      BY DEF HostKnobs, HostFor, Reset
    <3>. QED
      BY <2>3, <3>1, <3>3, <3>4 DEF AsFresh
  <2>. QED
    BY <2>2, <2>3
<1>. QED
  BY <1>1, IInvInvariant, PTL
=============================================================================
