------------------------------- MODULE Report -------------------------------
(***************************************************************************)
(* scripts/compile_results.py: the directories that the experiments left   *)
(* are walked, the runs recorded and averaged, and the figures written.    *)
(* A directory is one run: its perflog, the benchmark's runlog and vmstat. *)
(* The order of directories and files is os.walk's and so any order.       *)
(* Numbers are integers; a value of a figure is a ratio <<a, b>>, which    *)
(* the program divides and rounds.                                         *)
(***************************************************************************)
EXTENDS SystemConfigs

CONSTANTS
  Evaluations   \* sets of runs: bench, config, time (-1: no success line),
                \* pwc (NoEvents, NotCounted), before, after (-1: not written)

VARIABLES
  evaluation, stage,   \* what is walked; "walk", "average", "figures", "done", "crashed"
  dirs, dir, files,    \* directories to come, the one that is read, its files to come
  time, pwc, copy,     \* the locals of traverse_benchmark
  summary, avg_summary, csv

locals == <<time, pwc, copy>>
reportVars == <<evaluation, stage, dirs, dir, files, locals, summary, avg_summary, csv>>

NoEvents   == -1     \* perf wrote no line of events: (-1 + -1) * 100 / -1
NotCounted == -2     \* "<not counted>", which float() refuses

workloads == <<"xsbench", "gups", "svm", "redis", "btree", "graph500", "memcached", "canneal",
               "pr", "cc", "bc", "cg">>
main_workloads == SubSeq(workloads, 1, 8)

Figure(benchs, confs, baseline, metric) ==
  [benchs |-> benchs, confs |-> confs, baseline |-> baseline, metric |-> metric]

\* The lists fig1_configs to fig12_configs.  Two names of guests are not in
\* configs, where they run together.
Native == << <<"2MB", "THP">>, <<"HAWKEYE">>, <<"TRIDENT">> >>
Fig1   == << <<"4KB">>, <<"2MB", "THP">>, <<"2MB", "HUGE">>, <<"1GB", "HUGE">> >>
Fig2   == << <<"4KB", "4KB">>, <<"2MB", "THP", "2MB", "THP">>, <<"1GB", "HUGE", "1GB", "HUGE">> >>
Fig7   == << <<"TRIDENT", "F">>, <<"TRIDENT", "NC", "F">> >>
Fig11a == << <<"2MB", "THP">>, <<"TRIDENT", "1G">>, <<"TRIDENT", "NC">>, <<"TRIDENT">> >>
Fig11b == << <<"2MB", "THP", "F">>, <<"TRIDENT", "1G", "F">>, <<"TRIDENT", "NC", "F">>, <<"TRIDENT", "F">> >>
Fig12  == << <<"2MB", "THP", "2MB", "THP">>, <<"HAWKEYE", "HAWKEYE">>, <<"TRIDENT", "TRIDENT">> >>

\* gen_report, in its order.
gen_report ==
  << Figure(workloads, Fig1, <<"4KB">>, "pwc"),
     Figure(workloads, Fig1, <<"4KB">>, "time"),
     Figure(workloads, Fig2, <<"4KB", "4KB">>, "pwc"),
     Figure(workloads, Fig2, <<"4KB", "4KB">>, "time"),
     Figure(main_workloads, Native, <<"2MB", "THP">>, "time"),
     Figure(main_workloads, Native, <<"2MB", "THP">>, "pwc"),
     Figure(main_workloads, Native, <<"2MB", "THP", "F">>, "time"),
     Figure(main_workloads, Native, <<"2MB", "THP", "F">>, "pwc"),
     Figure(main_workloads, Fig11a, <<"2MB", "THP">>, "time"),
     Figure(main_workloads, Fig11b, <<"2MB", "THP", "F">>, "time"),
     Figure(main_workloads, Fig12, <<"2MB", "THP", "2MB", "THP">>, "time"),
     Figure(main_workloads, Fig7, <<"TRIDENT", "NC">>, "copy") >>

\* Results are records with a column for each metric.
Result(bench, config, t, p, c) == [bench |-> bench, config |-> config, time |-> t, pwc |-> p, copy |-> c]

RInit ==
  /\ evaluation \in Evaluations /\ stage = "walk"
  /\ dirs = evaluation /\ dir = <<>> /\ files = {}
  /\ time = -1 /\ pwc = -1 /\ copy = -1
  /\ summary = <<>> /\ avg_summary = <<>> /\ csv = <<>>

-----------------------------------------------------------------------------
(* traverse_benchmark *)

Place(d) == CHOOSE i \in DOMAIN workloads : workloads[i] = d.bench

\* The next directory, of the first workload that has some left.  What is
\* known of the last one is kept.
EnterKeeping ==
  /\ stage = "walk" /\ files = {}
  /\ \E d \in dirs :
       /\ \A e \in dirs : Place(d) <= Place(e)
       /\ dir' = d /\ dirs' = dirs \ {d}
  /\ files' = {"perflog", "runlog", "vmstat"}
  /\ UNCHANGED <<evaluation, stage, locals, summary, avg_summary, csv>>

EnterDirectory ==
  /\ stage = "walk" /\ files = {}
  /\ \E d \in dirs :
       /\ \A e \in dirs : Place(d) <= Place(e)
       /\ dir' = d /\ dirs' = dirs \ {d}
  /\ files' = {"perflog", "runlog", "vmstat"}
  /\ time' = -1 /\ pwc' = -1 /\ copy' = -1
  /\ UNCHANGED <<evaluation, stage, summary, avg_summary, csv>>

\* update_workload_config: a configuration that is not in the list is ''.  The
\* workload is the first whose name occurs in the path; no other name occurs in
\* the path of a repository and a host named otherwise.
curr_config == IF Contains(configs, dir.config) THEN dir.config ELSE <<>>

\* process_perf_log; a runlog has no line that it looks for.
TimeIn(f) == IF f = "perflog" /\ curr_config # <<>> THEN dir.time ELSE -1
PwcIn(f)  == IF TimeIn(f) = -1 THEN -1 ELSE IF dir.pwc = NoEvents THEN 200 ELSE dir.pwc
CopyIn    == dir.after - dir.before

\* One file, and record_output.
ReadFile(f) ==
  /\ stage = "walk" /\ f \in files
  /\ files' = files \ {f}
  /\ IF f = "perflog" /\ dir.pwc = NotCounted
     THEN stage' = "crashed" /\ UNCHANGED <<locals, summary>>
     ELSE /\ IF f = "vmstat" THEN copy' = CopyIn /\ UNCHANGED <<time, pwc>>
             ELSE time' = TimeIn(f) /\ pwc' = PwcIn(f) /\ UNCHANGED copy
          /\ summary' = IF time' = -1 THEN summary
                        ELSE Append(summary, Result(dir.bench, curr_config, time', pwc', copy'))
          /\ UNCHANGED stage
  /\ UNCHANGED <<evaluation, dirs, dir, avg_summary, csv>>

WalkEnds ==
  /\ stage = "walk" /\ files = {} /\ dirs = {}
  /\ stage' = "average"
  /\ UNCHANGED <<evaluation, dirs, dir, files, locals, summary, avg_summary, csv>>

-----------------------------------------------------------------------------
(* process_all_runs *)

Of(results, bench, config) == SelectSeq(results, LAMBDA r : r.bench = bench /\ r.config = config)
Total(results, column) == FoldLeft(LAMBDA sum, r : sum + r[column], 0, results)
int(a, n) == IF a < 0 THEN -((-a) \div n) ELSE a \div n

dump_workload_config_average(bench, config) ==
  LET own == Of(summary, bench, config)
      n   == Len(own)
  IN  IF n = 0 THEN <<>>
      ELSE <<Result(bench, config, int(Total(own, "time"), n), Total(own, "pwc") \div n,
                    int(Total(own, "copy"), n))>>

process_all_runs ==
  /\ stage = "average" /\ stage' = "figures"
  /\ avg_summary' =
       FlattenSeq([i \in DOMAIN workloads |->
         FlattenSeq([c \in DOMAIN configs |-> dump_workload_config_average(workloads[i], configs[c])])])
  /\ UNCHANGED <<evaluation, dirs, dir, files, locals, summary, csv>>

\* The rows of a workload; `denominator` is its baseline's, or what it was for
\* the workload before.
Denominator(fig, bench, denominator) ==
  LET base == Of(avg_summary, bench, fig.baseline)
  IN  IF base = <<>> THEN denominator ELSE Last(base)[fig.metric]

Row(fig, exp, denominator) ==
  [bench |-> exp.bench, label |-> pretty(exp.config),
   val |-> IF denominator = 0 THEN <<>>     \* 'XXX'
           ELSE IF fig.metric = "time" THEN <<denominator, exp.time>>
           ELSE <<exp[fig.metric], denominator>>]

Rows(fig, bench, denominator) ==
  LET exps == FlattenSeq([c \in DOMAIN fig.confs |-> Of(avg_summary, bench, fig.confs[c])])
  IN  [i \in DOMAIN exps |-> Row(fig, exps[i], denominator)]

gen_csv_common(fig) ==
  FoldLeft(LAMBDA acc, bench :
             LET den == Denominator(fig, bench, acc.denominator)
             IN  [denominator |-> den, rows |-> acc.rows \o Rows(fig, bench, den)],
           [denominator |-> 1000000, rows |-> <<>>], fig.benchs).rows

\* One csv file; an average time of 0 is divided by.
WriteFigure ==
  /\ stage = "figures" /\ Len(csv) < Len(gen_report)
  /\ LET rows == gen_csv_common(gen_report[Len(csv) + 1]) IN
     IF \E i \in DOMAIN rows : rows[i].val # <<>> /\ rows[i].val[2] = 0
     THEN stage' = "crashed" /\ UNCHANGED csv
     ELSE /\ csv' = Append(csv, rows)
          /\ stage' = IF Len(csv') = Len(gen_report) THEN "done" ELSE "figures"
  /\ UNCHANGED <<evaluation, dirs, dir, files, locals, summary, avg_summary>>

RNext == EnterDirectory \/ (\E f \in files : ReadFile(f)) \/ WalkEnds \/ process_all_runs \/ WriteFigure

-----------------------------------------------------------------------------
Known(d)    == Contains(configs, d.config)
Finished(d) == d.time # -1 /\ Known(d)
Walked      == evaluation \ (dirs \cup (IF files = {} THEN {} ELSE {dir}))
SameRun(d, r) == d.bench = r.bench /\ d.config = r.config
Times(r)    == {d.time : d \in {x \in evaluation : Finished(x) /\ SameRun(x, r)}}

\* A record has the numbers of one run, under that run's names; its copies may
\* be missing, or be nonsense if the script was stopped before the second
\* look at vmstat.  In whatever order the files come, every run that succeeded
\* under a known name is recorded, once or twice, and no other
\* (compile_results.py:129-140).
RecordsOwn ==
  /\ \A i \in DOMAIN summary :
       \E d \in evaluation :
         /\ Finished(d) /\ SameRun(d, summary[i]) /\ d.time = summary[i].time
         /\ summary[i].pwc = IF d.pwc = NoEvents THEN 200 ELSE d.pwc
         /\ d.after # -1 => summary[i].copy \in {-1, d.after - d.before}
  /\ stage # "crashed" =>
       \A d \in Walked : Finished(d) =>
         LET own == SelectSeq(summary, LAMBDA r : SameRun(d, r) /\ r.time = d.time)
         IN  Len(own) \in 1 .. 2

\* An average lies within the runs it is of, although some count twice, and a
\* figure compares a workload with its own baseline if that was measured
\* (compile_results.py:148-210).
FiguresOwn ==
  /\ \A i \in DOMAIN avg_summary :
       \E s, t \in Times(avg_summary[i]) : s <= avg_summary[i].time /\ avg_summary[i].time <= t
  /\ \A f \in DOMAIN csv : \A i \in DOMAIN csv[f] :
       LET row  == csv[f][i]
           base == Of(avg_summary, row.bench, gen_report[f].baseline)
           m    == gen_report[f].metric
       IN  base # <<>> => row.val = <<>> \/ row.val[IF m = "time" THEN 1 ELSE 2] = base[1][m]

\* The report fails only for what perf did not count or a run of no time.
CompletesUnless ==
  stage = "crashed" => \E d \in evaluation : d.pwc = NotCounted \/ d.time = 0
=============================================================================
