--------------------------- MODULE MCExperiments ---------------------------
(***************************************************************************)
(* The experiments, and the report on an evaluation they could have left:  *)
(* a behaviour is one or the other.                                        *)
(***************************************************************************)
EXTENDS Experiments

CONSTANT Evaluations

VARIABLES evaluation, stage, dirs, dir, files, time, pwc, copy, summary, avg_summary, csv

RP == INSTANCE Report

\* canneal: .done from the workload and from main.  graph500: the workload
\* exits after its own .done.  gups: only main creates .done.
MCPrograms ==
  [canneal  |-> <<"init", "ready", "run", "done", "rest", "main_done">>,
   graph500 |-> <<"init", "ready", "run", "done">>,
   gups     |-> <<"init", "ready", "run", "main_done">>]

Run(c, b) == [config |-> c, bench |-> b]

\* Parts of figures 1, 9 and 13, and of figure 10 in MCFragmented.
MCFigures ==
  [f1  |-> [vm |-> FALSE, runs |-> << Run(<<"2MB", "HUGE">>, "graph500"), Run(<<"2MB", "HUGE">>, "canneal") >>],
   f9  |-> [vm |-> FALSE, runs |-> << Run(<<"TRIDENT">>, "gups") >>],
   f11 |-> [vm |-> FALSE, runs |-> << Run(<<"TRIDENT", "NC">>, "gups"), Run(<<"TRIDENT", "1G", "F">>, "canneal") >>],
   f13 |-> [vm |-> TRUE,  runs |-> << Run(<<"2MB", "THP", "2MB", "THP", "F">>, "gups"),
                                      Run(<<"TRIDENT", "PV", "TRIDENT", "PV", "F">>, "canneal"),
                                      Run(<<"TRIDENT", "PV", "TRIDENT", "PV", "F">>, "gups") >>]]

MCFragmented ==
  [f10 |-> [vm |-> FALSE, runs |-> << Run(<<"2MB", "THP", "F">>, "gups"), Run(<<"TRIDENT", "F">>, "gups") >>]]

Left(b, c, t, p, before, after) ==
  [bench |-> b, config |-> c, time |-> t, pwc |-> p, before |-> before, after |-> after]

\* Two runs of one configuration and one that failed between them; a workload
\* without the baseline, and one stopped before the second look at vmstat.
\* Guests, one of a name that is not in the list and one without events.  A
\* benchmark that perf counted nothing of; a run of no time.
MCEvaluations ==
  { { Left("gups", <<"2MB", "THP">>, 10, 30, 2, 8), Left("gups", <<"2MB", "THP">>, 13, 36, 5, 7),
      Left("gups", <<"TRIDENT">>, -1, 12, 3, -1), Left("canneal", <<"TRIDENT">>, 8, 6, 1, 4) },
    { Left("btree", <<"2MB", "THP">>, 9, 12, 1, 1), Left("btree", <<"TRIDENT">>, 6, 0, 4, -1),
      Left("canneal", <<"2MB", "THP">>, -1, 20, 2, -1), Left("canneal", <<"TRIDENT">>, 7, 18, 1, 4) },
    { Left("gups", <<"2MB", "THP", "2MB", "THP">>, 10, 30, 2, 8),
      Left("gups", <<"TRIDENT", "TRIDENT">>, 7, 12, 2, 9),
      Left("gups", <<"HAWKEYE", "HAWKEYE">>, 9, -1, 2, 9) },
    { Left("btree", <<"4KB">>, 12, -2, 1, 2), Left("btree", <<"2MB", "THP">>, 9, 12, 1, 1) },
    { Left("svm", <<"4KB">>, 5, 0, 1, 2), Left("svm", <<"2MB", "THP">>, 0, 12, 1, 1) } }

reportVars == <<evaluation, stage, dirs, dir, files, time, pwc, copy, summary, avg_summary, csv>>

NoReport == /\ evaluation = {} /\ stage = "none" /\ dirs = {} /\ dir = <<>> /\ files = {}
            /\ time = 0 /\ pwc = 0 /\ copy = 0
            /\ summary = <<>> /\ avg_summary = <<>> /\ csv = <<>>
NoCampaign == /\ pc = "finished" /\ runs = <<>> /\ count = MaxFigures
              /\ figure = CHOOSE f \in DOMAIN Figures : TRUE
              /\ missing = {} /\ pages = HugetlbPages /\ knob = [m \in Machines |-> BootKnobs]
              /\ vmConfig = <<>> /\ perf = 0 /\ outfile = {} /\ proc = <<>>
              /\ flag = [m \in Machines |-> NoFlags]

InCampaign == UNCHANGED reportVars
Reporting  == stage # "none" /\ RP!RNext /\ UNCHANGED vars

InitAll == (Init /\ NoReport) \/ (NoCampaign /\ RP!RInit)
NextAll == (Next /\ InCampaign) \/ Reporting
SpecAll ==
  /\ InitAll /\ [][NextAll]_<<vars, reportVars>>
  /\ Fairness

\* The report gives every run that succeeded its own numbers and compares what
\* belongs together, in whatever order directories and files are found.
ReportFaithful == stage # "none" => RP!RecordsOwn /\ RP!FiguresOwn /\ RP!CompletesUnless
=============================================================================
