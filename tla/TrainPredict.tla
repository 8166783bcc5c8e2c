---------------------------- MODULE TrainPredict ----------------------------
(***************************************************************************)
(* A run of the program train on a file and a command line, and then, if   *)
(* it left a model, of the program predict on a test file.                 *)
(*                                                                         *)
(* liblinear from a training file to predictions: the programs train and   *)
(* predict and the library functions between them.  A line of a file is a  *)
(* label and a sequence of <<index, value>>; numbers are integers; a model *)
(* file is a sequence of tokens.                                           *)
(*                                                                         *)
(* The solvers are abstracted to TrainOne, a weight vector that depends on *)
(* what they depend on: rows, signs and costs, whatever their order.       *)
(***************************************************************************)
EXTENDS Integers, Sequences, FiniteSets, FiniteSetsExt, SequencesExt

\* The values of solver_type that the control tells apart.
L2R_LR         == 0
L2R_L2LOSS_SVC == 2
MCSVM_CS       == 4
Regressions    == {11, 12, 13}
Logistic       == {0, 6, 7}
Solvers        == 0 .. 7 \cup Regressions

Positions(s) == [k \in 1 .. Len(s) |-> k]

-----------------------------------------------------------------------------
(* read_problem of train.c.  x_space is one array of cells; a row ends with *)
(* index -1, and the index of a bias cell is filled in at the end.          *)

Ascending(row) == \A k \in 1 .. Len(row) : row[k][1] > (IF k = 1 THEN 0 ELSE row[k - 1][1])
MaxIndex(rows) == Max({0} \cup UNION {{rows[i][k][1] : k \in DOMAIN rows[i]} : i \in DOMAIN rows})

\* The cells of the rows, and where each row starts.
Layout(rows, bias) ==
  FoldLeft(LAMBDA a, row : [cells |-> a.cells \o row \o (IF bias >= 0 THEN <<<<0, bias>>>> ELSE <<>>) \o <<<<-1, 0>>>>,
                            x |-> Append(a.x, Len(a.cells) + 1)],
           [cells |-> <<>>, x |-> <<>>], rows)

\* (prob.x[i] - 2)->index = prob.n for every row but the first, and
\* x_space[j - 2].index = prob.n for the last.
FillBias(lay, n) ==
  LET at == {lay.x[i] - 2 : i \in 2 .. Len(lay.x)} \cup {Len(lay.cells) - 1}
  IN  [k \in 1 .. Len(lay.cells) |-> IF k \in at THEN <<n, lay.cells[k][2]>> ELSE lay.cells[k]]

RowAt(cells, from) ==
  SubSeq(cells, from, Min({k \in from .. Len(cells) : cells[k][1] = -1}) - 1)

\* A row with an index out of order ends the program.
read_problem(lines, bias) ==
  LET rows  == [i \in 1 .. Len(lines) |-> lines[i][2]]
      n     == MaxIndex(rows) + (IF bias >= 0 THEN 1 ELSE 0)
      lay   == Layout(rows, bias)
      cells == IF bias >= 0 THEN FillBias(lay, n) ELSE lay.cells
  IN  IF \A i \in 1 .. Len(lines) : Ascending(rows[i])
      THEN [ok |-> TRUE, l |-> Len(lines), n |-> n, bias |-> bias,
            y |-> [i \in 1 .. Len(lines) |-> lines[i][1]],
            x |-> [i \in 1 .. Len(lines) |-> RowAt(cells, lay.x[i])]]
      ELSE [ok |-> FALSE]

-----------------------------------------------------------------------------
(* Training. *)

\* label, count and data_label, in the order of first occurrence; then, for
\* the labels -1, +1 in that order, swapped; then a counting sort.
group_classes(y) ==
  LET see(a, i) == LET j == SelectInSeq(a.label, LAMBDA b : b = y[i]) IN
                   IF j > 0 THEN [a EXCEPT !.count[j] = @ + 1, !.data_label = Append(@, j)]
                   ELSE [label |-> Append(a.label, y[i]), count |-> Append(a.count, 1),
                         data_label |-> Append(a.data_label, Len(a.label) + 1)]
      s0 == FoldLeft(see, [label |-> <<>>, count |-> <<>>, data_label |-> <<>>], Positions(y))
      s1 == IF s0.label = <<-1, 1>>
            THEN [label |-> <<1, -1>>, count |-> <<s0.count[2], s0.count[1]>>,
                  data_label |-> [i \in 1 .. Len(y) |-> 3 - s0.data_label[i]]]
            ELSE s0
      start == [j \in 1 .. Len(s1.label) |-> 1 + FoldLeft(LAMBDA a, c : a + c, 0, SubSeq(s1.count, 1, j - 1))]
      place(a, i) == [perm |-> [a.perm EXCEPT ![a.at[s1.data_label[i]]] = i],
                      at   |-> [a.at EXCEPT ![s1.data_label[i]] = @ + 1]]
  IN  [label |-> s1.label, count |-> s1.count, start |-> start,
       perm |-> FoldLeft(place, [perm |-> [i \in 1 .. Len(y) |-> 0], at |-> start], Positions(y)).perm]

\* transpose: columns of <<instance, value>> in one array, filled through
\* col_ptr, which has room for the end mark of each column.
transpose(prob) ==
  LET perCol == [j \in 1 .. prob.n |->
                   Cardinality({i \in 1 .. prob.l : \E k \in DOMAIN prob.x[i] : prob.x[i][k][1] = j})]
      col_ptr == [j \in 1 .. prob.n |-> 1 + MapThenSumSet(LAMBDA k : perCol[k] + 1, 1 .. j - 1)]
      put(a, i) == FoldLeft(LAMBDA b, e : [space |-> [b.space EXCEPT ![b.ptr[e[1]]] = <<i, e[2]>>],
                                           ptr   |-> [b.ptr EXCEPT ![e[1]] = @ + 1]],
                            a, prob.x[i])
      size == MapThenSumSet(LAMBDA k : perCol[k] + 1, 1 .. prob.n)
      done == FoldLeft(put, [space |-> [k \in 1 .. size |-> <<0, 0>>], ptr |-> col_ptr], Positions(prob.x))
      space == [k \in 1 .. size |-> IF \E j \in 1 .. prob.n : done.ptr[j] = k THEN <<-1, 0>> ELSE done.space[k]]
  IN  [j \in 1 .. prob.n |-> RowAt(space, col_ptr[j])]

\* What the solvers are given, whichever it is; the L1-regularized ones get the
\* columns.  The weights are the sum of the rows, signed and weighted.
TrainOne(prob, solver, sy, Cp, Cn) ==
  LET cost(i) == IF solver \in Regressions THEN sy[i] ELSE IF sy[i] > 0 THEN Cp ELSE -Cn
      cols    == transpose(prob)
  IN  [j \in 1 .. prob.n |->
         IF solver \in {5, 6} THEN FoldLeft(LAMBDA a, e : a + cost(e[1]) * e[2], 0, cols[j])
         ELSE FoldLeft(LAMBDA a, i : FoldLeft(LAMBDA b, e : IF e[1] = j THEN b + cost(i) * e[2] ELSE b, a, prob.x[i]),
                       0, Positions(prob.x))]

\* Solver_MCSVM_CS: one vector per class, which add up to zero.
TrainMulti(prob, gc, cost) ==
  LET nr == Len(gc.label)
      cl(k) == CHOOSE i \in 1 .. nr : k \in gc.start[i] .. gc.start[i] + gc.count[i] - 1
      share(k, i) == cost[cl(k)] * (IF cl(k) = i THEN nr - 1 ELSE -1)
  IN  [i \in 1 .. nr |-> [j \in 1 .. prob.n |->
         FoldLeft(LAMBDA a, k : FoldLeft(LAMBDA b, e : IF e[1] = j THEN b + share(k, i) * e[2] ELSE b, a, prob.x[k]),
                  0, Positions(prob.x))]]

\* param.C times the weights given for the label.
WeightedC(param, label) ==
  FoldLeft(LAMBDA a, wl : IF wl[1] = label THEN a * wl[2] ELSE a, param.C, param.weights)

\* train: w is stored by feature, then by class.  Two classes need one vector
\* unless the solver is MCSVM_CS.
train(prob, param, gc) ==
  LET base == [solver |-> param.solver, bias |-> prob.bias,
               nr_feature |-> IF prob.bias >= 0 THEN prob.n - 1 ELSE prob.n]
      nr   == Len(gc.label)
      sub  == [prob EXCEPT !.x = [k \in 1 .. prob.l |-> prob.x[gc.perm[k]]]]
      In(i)   == gc.start[i] .. gc.start[i] + gc.count[i] - 1
      sign(i) == [k \in 1 .. prob.l |-> IF k \in In(i) THEN 1 ELSE -1]
      cost(i) == WeightedC(param, gc.label[i])
      columns == CASE param.solver \in Regressions -> <<TrainOne(prob, param.solver, prob.y, 0, 0)>>
                   [] param.solver \notin Regressions /\ nr = 2 /\ param.solver # MCSVM_CS ->
                        <<TrainOne(sub, param.solver, sign(1), cost(1), cost(2))>>
                   [] param.solver = MCSVM_CS -> TrainMulti(sub, gc, [i \in 1 .. nr |-> cost(i)])
                   [] OTHER -> [i \in 1 .. nr |-> TrainOne(sub, param.solver, sign(i), cost(i), param.C)]
  IN  [base |-> base, nr_class |-> IF param.solver \in Regressions THEN 2 ELSE nr,
       label |-> IF param.solver \in Regressions THEN <<>> ELSE gc.label,
       w |-> [q \in 1 .. prob.n * Len(columns) |-> columns[((q - 1) % Len(columns)) + 1][((q - 1) \div Len(columns)) + 1]]]

-----------------------------------------------------------------------------
(* Models in files. *)

nr_w(model) == IF model.nr_class = 2 /\ model.base.solver # MCSVM_CS THEN 1 ELSE model.nr_class
w_size(model) == model.base.nr_feature + (IF model.base.bias >= 0 THEN 1 ELSE 0)

save_model(model) ==
  <<"solver_type", model.base.solver, "nr_class", model.nr_class>>
  \o (IF model.label # <<>> THEN <<"label">> \o model.label ELSE <<>>)
  \o <<"nr_feature", model.base.nr_feature, "bias", model.base.bias, "w">>
  \o SubSeq(model.w, 1, w_size(model) * nr_w(model))

\* One round of the loop over the keywords: st has the position k in the file and
\* what the model m has by now.  The loop is left, with k = 0, at "w".
ReadKeyword(file, st) ==
  LET k == st.k
      m == st.m
  IN
  IF k = 0 THEN st ELSE
  CASE file[k] = "w"           -> [k |-> 0, m |-> [m EXCEPT !.w = SubSeq(file, k + 1, k + w_size(m) * nr_w(m))]]
    [] file[k] = "solver_type" -> [k |-> k + 2, m |-> [m EXCEPT !.base.solver = file[k + 1]]]
    [] file[k] = "nr_class"    -> [k |-> k + 2, m |-> [m EXCEPT !.nr_class = file[k + 1]]]
    [] file[k] = "nr_feature"  -> [k |-> k + 2, m |-> [m EXCEPT !.base.nr_feature = file[k + 1]]]
    [] file[k] = "bias"        -> [k |-> k + 2, m |-> [m EXCEPT !.base.bias = file[k + 1]]]
    [] file[k] = "label"       -> [k |-> k + 1 + m.nr_class,
                                   m |-> [m EXCEPT !.label = SubSeq(file, k + 1, k + m.nr_class)]]
load_model(file) ==
  LET read[n \in 0 .. Len(file)] ==
        IF n = 0 THEN [k |-> 1, m |-> [base |-> [solver |-> 0, bias |-> 0, nr_feature |-> 0],
                                       nr_class |-> 0, label |-> <<>>, w |-> <<>>]]
        ELSE ReadKeyword(file, read[n - 1])
  IN  read[Len(file)].m

-----------------------------------------------------------------------------
(* Prediction. *)

\* One value per weight vector; features beyond the model's are not used.
dec_values(model, x) ==
  FoldLeft(LAMBDA d, e : IF e[1] > w_size(model) THEN d
                         ELSE [i \in 1 .. nr_w(model) |-> d[i] + model.w[(e[1] - 1) * nr_w(model) + i] * e[2]],
           [i \in 1 .. nr_w(model) |-> 0], x)

predict_values(model, x) ==
  LET d == dec_values(model, x) IN
  IF model.nr_class = 2
  THEN IF model.base.solver \in Regressions THEN d[1]
       ELSE IF d[1] > 0 THEN model.label[1] ELSE model.label[2]
  ELSE model.label[CHOOSE i \in DOMAIN d : (\A j \in DOMAIN d : d[j] <= d[i]) /\ \A j \in 1 .. i - 1 : d[j] < d[i]]

\* The probabilities, as shares: each is the logistic function of the decision
\* value, here 1 + (value > 0), scaled to a sum of 1 by dividing by the sum.
predict_probability(model, x) ==
  IF model.base.solver \notin Logistic THEN <<>>
  ELSE LET d == dec_values(model, x)
           s == [i \in DOMAIN d |-> IF d[i] > 0 THEN 2 ELSE 1]
       IN  IF model.nr_class = 2 THEN <<s[1], 3 - s[1]>> ELSE s

\* do_predict of predict.c: the features of a line that the model knows, and
\* the bias as the last one.
TestRowUnfiltered(model, row) ==
  SelectSeq(row, LAMBDA e : e[1] <= w_size(model))
  \o (IF model.base.bias >= 0 THEN <<<<w_size(model), model.base.bias>>>> ELSE <<>>)

TestRow(model, row) ==
  SelectSeq(row, LAMBDA e : e[1] <= model.base.nr_feature)
  \o (IF model.base.bias >= 0 THEN <<<<w_size(model), model.base.bias>>>> ELSE <<>>)

do_predict(model, line) ==
  [label |-> predict_values(model, TestRow(model, line[2])),
   shares |-> predict_probability(model, TestRow(model, line[2]))]

\* get_w_value, get_decfun_coef and get_decfun_bias: label is counted from 1.
get_w_value(model, idx, i) ==
  CASE model.base.solver \in Regressions -> model.w[idx]
    [] model.base.solver \notin Regressions /\ i \notin 1 .. model.nr_class -> 0
    [] model.base.solver \notin Regressions /\ i \in 1 .. model.nr_class ->
         IF nr_w(model) = 1 /\ model.nr_class = 2 THEN (IF i = 1 THEN model.w[idx] ELSE -model.w[idx])
         ELSE model.w[(idx - 1) * model.nr_class + i]
get_decfun_coef(model, feat, i) == IF feat > model.base.nr_feature THEN 0 ELSE get_w_value(model, feat, i)
get_decfun_bias(model, i) ==
  IF model.base.bias <= 0 THEN 0 ELSE model.base.bias * get_w_value(model, model.base.nr_feature + 1, i)

-----------------------------------------------------------------------------
(* Cross validation. *)

\* fold_start[i] = i * l / nr_fold; each fold is predicted by a model trained
\* on the others.
FoldStart(l, nr_fold, i) == (i * l) \div nr_fold
Without(prob, perm, out) ==
  LET keep == SelectSeq(perm, LAMBDA i : i \notin out)
  IN  [prob EXCEPT !.l = Len(keep), !.x = [k \in 1 .. Len(keep) |-> prob.x[keep[k]]],
                   !.y = [k \in 1 .. Len(keep) |-> prob.y[keep[k]]]]

Folds(l, nr_fold, perm) ==
  LET nf == IF nr_fold > l THEN l ELSE nr_fold
  IN  [i \in 1 .. nf |-> {perm[j] : j \in FoldStart(l, nf, i - 1) + 1 .. FoldStart(l, nf, i)}]

-----------------------------------------------------------------------------
(* The command line of train. *)

\* An option is <<letter, value>>; the last one of a letter counts.
Given(options, o) == \E k \in DOMAIN options : options[k][1] = o
Value(options, o, default) ==
  IF Given(options, o) THEN options[Max({k \in DOMAIN options : options[k][1] = o})][2] ELSE default

\* Without -s the solver is 6; with it, only those that have a parallel version
\* are accepted, and for the search for C only those that start from given weights.
ChosenSolver(options) ==
  LET solver == Value(options, "s", 6) IN
  IF /\ Given(options, "s")
     /\ \/ solver \notin {0, 1, 2, 3, 5, 6, 11}
        \/ Given(options, "C") /\ solver \notin {L2R_LR, L2R_L2LOSS_SVC}
  THEN -1 ELSE solver

\* param.eps when it was not given: infinite for a solver that has no default.
DefaultEps(solver) == IF solver \in Solvers THEN 1 ELSE 1000

\* What the rest of the program runs with, or the help text.
parse_command_line(options) ==
  LET solver == ChosenSolver(options) IN
  IF \/ \E k \in DOMAIN options : options[k][1] \notin {"s", "c", "p", "e", "B", "n", "w", "v", "q", "C"}
     \/ Value(options, "v", 2) < 2
     \/ solver = -1
  THEN [ok |-> FALSE]
  ELSE [ok |-> TRUE, solver |-> solver, C |-> Value(options, "c", 1), p |-> Value(options, "p", 1),
        eps |-> Value(options, "e", DefaultEps(solver)), init_sol |-> FALSE, bias |-> Value(options, "B", -1),
        weights |-> LET ws == SelectSeq(options, LAMBDA o : o[1] = "w") IN [k \in 1 .. Len(ws) |-> ws[k][2]],
        nr_fold |-> Value(options, "v", IF Given(options, "C") THEN 5 ELSE 0),
        does |-> IF Given(options, "C") THEN "find_C" ELSE IF Given(options, "v") THEN "cv" ELSE "train"]

check_parameter(param) ==
  CASE param.eps <= 0 -> "eps"
    [] param.eps > 0 /\ param.C <= 0 -> "C"
    [] param.eps > 0 /\ param.C > 0 /\ param.p < 0 -> "p"
    [] param.eps > 0 /\ param.C > 0 /\ param.p >= 0 /\ param.solver \notin Solvers -> "solver"
    [] param.eps > 0 /\ param.C > 0 /\ param.p >= 0 /\ param.solver \in Solvers
         /\ param.init_sol /\ param.solver \notin {L2R_LR, L2R_L2LOSS_SVC} -> "init_sol"
    [] OTHER -> "none"

-----------------------------------------------------------------------------
CONSTANTS
  Jobs        \* records: options, lines (training), tests, perm (the shuffle)

VARIABLES
  job, stage,      \* what comes next, or how it ended: Ends
  param, prob,     \* of train: the options and the file
  sub, gc, model,  \* the problem that is trained on, its classes, the model in memory
  cv_fold,         \* folds begun
  model_file, targets, answers

programVars == <<job, stage, param, prob, sub, gc, model, cv_fold, model_file, targets, answers>>

Ends == {"help", "error", "search", "validated", "predicted"}

KInit == /\ job \in Jobs /\ stage = "args" /\ param = <<>> /\ prob = <<>> /\ sub = <<>> /\ gc = <<>> /\ model = <<>>
         /\ cv_fold = 0 /\ model_file = <<>> /\ targets = <<>> /\ answers = <<>>

(* train.c *)
ParseArgs ==
  /\ stage = "args"
  /\ param' = parse_command_line(job.options)
  /\ stage' = IF param'.ok THEN "read" ELSE "help"
  /\ UNCHANGED <<job, prob, sub, gc, model, cv_fold, model_file, targets, answers>>

\* read_problem and check_parameter, and the three things real_main may do then.
ReadInput ==
  /\ stage = "read"
  /\ prob' = read_problem(job.lines, param.bias)
  /\ stage' = IF ~prob'.ok \/ check_parameter(param) # "none" THEN "error"
              ELSE CASE param.does = "find_C" -> "search" [] param.does = "cv" -> "fold" [] param.does = "train" -> "group"
  /\ sub' = IF stage' = "group" THEN prob' ELSE sub
  /\ targets' = IF stage' = "fold" THEN [i \in 1 .. prob'.l |-> 0] ELSE targets
  /\ UNCHANGED <<job, param, gc, model, cv_fold, model_file, answers>>

\* The loop over the folds in cross_validation.
NextFold ==
  /\ stage = "fold"
  /\ LET folds == Folds(prob.l, param.nr_fold, job.perm) IN
     IF cv_fold = Len(folds) THEN stage' = "validated" /\ UNCHANGED <<sub, cv_fold>>
     ELSE /\ stage' = "group"
          /\ sub' = Without(prob, job.perm, folds[cv_fold + 1])
          /\ cv_fold' = cv_fold + 1
  /\ UNCHANGED <<job, param, prob, gc, model, model_file, targets, answers>>

GroupClasses ==
  /\ stage = "group" /\ stage' = "solve"
  /\ gc' = group_classes(sub.y)
  /\ UNCHANGED <<job, param, prob, sub, model, cv_fold, model_file, targets, answers>>

Solve ==
  /\ stage = "solve"
  /\ model' = train(sub, param, gc)
  /\ stage' = IF param.does = "cv" THEN "predict_fold" ELSE "save"
  /\ UNCHANGED <<job, param, prob, sub, gc, cv_fold, model_file, targets, answers>>

PredictFold ==
  /\ stage = "predict_fold" /\ stage' = "fold"
  /\ targets' = [i \in DOMAIN targets |->
                   IF i \in Folds(prob.l, param.nr_fold, job.perm)[cv_fold]
                   THEN predict_values(model, prob.x[i]) ELSE targets[i]]
  /\ UNCHANGED <<job, param, prob, sub, gc, model, cv_fold, model_file, answers>>

Save ==
  /\ stage = "save" /\ stage' = "load"
  /\ model_file' = save_model(model)
  /\ UNCHANGED <<job, param, prob, sub, gc, model, cv_fold, targets, answers>>

(* predict.c *)
Load ==
  /\ stage = "load" /\ stage' = "predict"
  /\ model' = load_model(model_file)
  /\ UNCHANGED <<job, param, prob, sub, gc, cv_fold, model_file, targets, answers>>

\* A line in error ends the program, with the lines before it answered.
PredictMain ==
  LET upTo == Max({k \in 0 .. Len(job.tests) : \A i \in 1 .. k : Ascending(job.tests[i][2])}) IN
  /\ stage = "predict"
  /\ answers' = [k \in 1 .. upTo |-> do_predict(model, job.tests[k])]
  /\ stage' = IF upTo = Len(job.tests) THEN "predicted" ELSE "error"
  /\ UNCHANGED <<job, param, prob, sub, gc, model, cv_fold, model_file, targets>>

KNext == \/ ParseArgs \/ ReadInput \/ NextFold \/ GroupClasses \/ Solve \/ PredictFold \/ Save
         \/ Load \/ PredictMain

-----------------------------------------------------------------------------
(* The predictions, from the files. *)

At(row, j)  == MapThenSumSet(LAMBDA k : IF row[k][1] = j THEN row[k][2] ELSE 0, DOMAIN row)
Known       == Max({0} \cup UNION {{job.lines[i][2][k][1] : k \in DOMAIN job.lines[i][2]} : i \in DOMAIN job.lines})
\* The inner product of training line i and a row, in the features the training file has.
Like(i, row) == MapThenSumSet(LAMBDA j : At(job.lines[i][2], j) * At(row, j), 1 .. Known)
                + (IF param.bias >= 0 THEN param.bias * param.bias ELSE 0)
Mass(S, c, row) == MapThenSumSet(LAMBDA i : IF job.lines[i][1] = c THEN Like(i, row) ELSE 0, S)

\* y is a right answer for the row, trained on the lines S, of which `first` comes first.
Right(S, first, row, y) ==
  LET K == {job.lines[i][1] : i \in S}
      a == IF K = {-1, 1} THEN 1 ELSE job.lines[first][1]
      w(c) == WeightedC(param, c)
      score(c) == IF param.solver = MCSVM_CS
                  THEN Cardinality(K) * w(c) * Mass(S, c, row) - MapThenSumSet(LAMBDA k : w(k) * Mass(S, k, row), K)
                  ELSE w(c) * Mass(S, c, row) - param.C * MapThenSumSet(LAMBDA k : Mass(S, k, row), K \ {c})
  IN  CASE param.solver \in Regressions -> y = MapThenSumSet(LAMBDA i : job.lines[i][1] * Like(i, row), S)
        [] param.solver \notin Regressions /\ Cardinality(K) = 2 /\ param.solver # MCSVM_CS ->
             LET b == CHOOSE c \in K : c # a
             IN  y = IF w(a) * Mass(S, a, row) > w(b) * Mass(S, b, row) THEN a ELSE b
        [] OTHER -> y \in K /\ \A c \in K : score(c) <= score(y)

\* What predict writes is what the training file says, through reading, grouping,
\* training, the model file and the test file; in a cross validation no line is
\* predicted by a model that has seen it, and each by all lines of other folds.
\* The label answered is one of the most probable.
PredictsFromFiles ==
  /\ stage = "predicted" =>
       \A k \in DOMAIN answers :
         /\ Right(DOMAIN job.lines, 1, job.tests[k][2], answers[k].label)
         /\ answers[k].shares # <<>> =>
              \E i \in DOMAIN model.label : /\ model.label[i] = answers[k].label
                                            /\ \A j \in DOMAIN answers[k].shares : answers[k].shares[j] <= answers[k].shares[i]
  /\ stage = "validated" =>
       LET folds == Folds(Len(job.lines), param.nr_fold, job.perm) IN
       /\ UNION {folds[f] : f \in DOMAIN folds} = DOMAIN job.lines
       /\ \A f \in DOMAIN folds : folds[f] # {} /\ \A e \in DOMAIN folds \ {f} : folds[e] \cap folds[f] = {}
       /\ \A f \in DOMAIN folds : \A k \in folds[f] :
            Right(DOMAIN job.lines \ folds[f], SelectSeq(job.perm, LAMBDA i : i \notin folds[f])[1], job.lines[k][2], targets[k])

\* A line out of order is refused, and nothing is trained with a solver that
\* check_parameter would not have accepted or without a tolerance.
RefusesBadInput ==
  /\ (\E i \in DOMAIN job.lines : ~Ascending(job.lines[i][2])) => stage \in {"args", "read", "help", "error"}
  /\ stage \notin {"args", "read", "help", "error"} => param.solver \in Solvers /\ param.eps < 1000

\* The coefficients a caller reads back give the decision values.
CoefficientsAgree ==
  stage \in {"predict", "predicted"} =>
    \A k \in DOMAIN job.tests : Ascending(job.tests[k][2]) =>
      LET row == job.tests[k][2]
          dv  == dec_values(model, TestRow(model, row))
          dec(i) == get_decfun_bias(model, i)
                    + MapThenSumSet(LAMBDA q : row[q][2] * get_decfun_coef(model, row[q][1], i), DOMAIN row)
      IN  /\ \A i \in DOMAIN dv : dec(i) = dv[i]
          /\ (model.nr_class = 2 /\ Len(dv) = 1 /\ model.label # <<>>) => dec(2) = -dv[1]

-----------------------------------------------------------------------------
(* find_parameter_C, what real_main calls in stage "search": cross          *)
(* validation for C = start_C, twice that, and so on, each fold starting    *)
(* from the weights it had for the last C, until max_C or until the weights *)
(* no longer change.                                                        *)

CONSTANTS
  NrFold,
  MaxTry,            \* the number of values of C up to max_C
  Rates              \* the rates a value of C may have

VARIABLES
  try,               \* which value of C, from 1
  fold,              \* the fold that is trained next
  prev_w,            \* fold -> the version of its weights, 0 for none
  num_unchanged_w,
  best,              \* <<try, rate>>, or <<0, 0>> as long as best_C is not assigned
  searching,
  now, same, tried   \* history: the weights of each fold now, the tries without change, the rates

searchCVars == <<try, fold, prev_w, num_unchanged_w, best, searching, now, same, tried>>

CInit ==
  /\ try = 1 /\ fold = 1 /\ prev_w = [i \in 1 .. NrFold |-> 0] /\ num_unchanged_w = 0
  /\ best = <<0, 0>> /\ searching = TRUE
  /\ now = [i \in 1 .. NrFold |-> 0] /\ same = 1 .. MaxTry /\ tried = <<>>

\* Training from prev_w gives the same weights or others.
TrainFold(changes) ==
  /\ searching /\ fold <= NrFold
  /\ prev_w[fold] = 0 => changes
  /\ now' = [now EXCEPT ![fold] = IF changes THEN try ELSE prev_w[fold]]
  /\ same' = IF changes THEN same \ {try} ELSE same
  /\ prev_w' = [prev_w EXCEPT ![fold] = now'[fold]]
  /\ num_unchanged_w' = IF prev_w[fold] # 0 /\ num_unchanged_w >= 0 /\ changes THEN -1 ELSE num_unchanged_w
  /\ fold' = fold + 1 /\ UNCHANGED <<try, best, searching, tried>>

\* All folds are predicted: the rate counts, and C is doubled unless the
\* weights did not change for long enough.
Rate(r) ==
  /\ searching /\ fold > NrFold
  /\ tried' = Append(tried, r)
  /\ best' = IF r > best[2] THEN <<try, r>> ELSE best
  /\ num_unchanged_w' = num_unchanged_w + 1
  /\ IF num_unchanged_w' = 3 THEN searching' = FALSE /\ UNCHANGED <<try, fold>>
     ELSE try' = try + 1 /\ fold' = 1 /\ searching' = (try < MaxTry)
  /\ UNCHANGED <<prev_w, now, same>>

CNext == (\E c \in BOOLEAN : TrainFold(c)) \/ (\E r \in Rates : Rate(r))

-----------------------------------------------------------------------------
\* The search stops early only if no fold changed its weights in the last two
\* tries; each fold starts from its own latest weights; and the C reported is
\* the first with the best rate, or none if every rate was 0.
SearchSound ==
  /\ \A i \in 1 .. NrFold : prev_w[i] = now[i]
  /\ (~searching /\ try < MaxTry) => {try, try - 1} \subseteq same /\ try > 2
  /\ ~searching =>
       LET top == Max({tried[k] : k \in DOMAIN tried})
       IN  best = IF top = 0 THEN <<0, 0>>
                  ELSE <<Min({k \in DOMAIN tried : tried[k] = top}), top>>
=============================================================================
