---------------------------- MODULE CommandLine ----------------------------
(***************************************************************************)
(* gapbs command line (command_line.h): CLBase and the classes that add    *)
(* options to it.  An argument is [opt, arg]; the result is the record of  *)
(* the settings.                                                           *)
(***************************************************************************)
EXTENDS Integers, Sequences, SequencesExt

\* The data members with their defaults.
Defaults ==
  [scale |-> 27, degree |-> 16, filename |-> "", symmetrize |-> FALSE, uniform |-> FALSE,
   do_analysis |-> FALSE, num_trials |-> 1, start_vertex |-> -1, do_verify |-> FALSE,
   num_iters |-> 1, max_iters |-> 1, tolerance |-> "1e-4", delta |-> 1,
   out_filename |-> "", out_weighted |-> FALSE, out_el |-> FALSE, out_sg |-> FALSE,
   exited |-> FALSE]

\* get_args_: what getopt accepts for the class; it returns '?' for others,
\* which no HandleArg knows.
BaseOpts == {"f", "g", "h", "k", "s", "u"}
AppOpts  == BaseOpts \cup {"a", "n", "r", "v"}
Opts(class) ==
  CASE class = "CLApp"      -> AppOpts
    [] class = "CLIterApp"  -> AppOpts \cup {"i"}
    [] class = "CLPageRank" -> AppOpts \cup {"i", "t"}
    [] class = "CLDelta"    -> AppOpts \cup {"d"}
    [] class = "CLConvert"  -> BaseOpts \cup {"e", "b", "w"}

\* HandleArg of each class: the members that an option sets.  An option of
\* another class goes to the class above.
CLBaseArg(a) ==
  CASE a.opt = "f" -> << <<"filename", a.arg>> >>
    [] a.opt = "g" -> << <<"scale", a.arg>> >>
    [] a.opt = "h" -> << <<"exited", TRUE>> >>
    [] a.opt = "k" -> << <<"degree", a.arg>> >>
    [] a.opt = "s" -> << <<"symmetrize", TRUE>> >>
    [] a.opt = "u" -> << <<"uniform", TRUE>>, <<"scale", a.arg>> >>

CLAppArg(a) ==
  CASE a.opt = "a" -> << <<"do_analysis", TRUE>> >>
    [] a.opt = "n" -> << <<"num_trials", a.arg>> >>
    [] a.opt = "r" -> << <<"start_vertex", a.arg>> >>
    [] a.opt = "v" -> << <<"do_verify", TRUE>> >>
    [] OTHER -> CLBaseArg(a)

CLIterAppArg(a) == IF a.opt = "i" THEN << <<"num_iters", a.arg>> >> ELSE CLAppArg(a)

CLPageRankArg(a) ==
  CASE a.opt = "i" -> << <<"max_iters", a.arg>> >>
    [] a.opt = "t" -> << <<"tolerance", a.arg>> >>
    [] OTHER -> CLAppArg(a)

CLDeltaArg(a) == IF a.opt = "d" THEN << <<"delta", a.arg>> >> ELSE CLAppArg(a)

CLConvertArg(a) ==
  CASE a.opt = "b" -> << <<"out_sg", TRUE>>, <<"out_filename", a.arg>> >>
    [] a.opt = "e" -> << <<"out_el", TRUE>>, <<"out_filename", a.arg>> >>
    [] a.opt = "w" -> << <<"out_weighted", TRUE>> >>
    [] OTHER -> CLBaseArg(a)

Sets(class, a) ==
  CASE class = "CLApp"      -> CLAppArg(a)
    [] class = "CLIterApp"  -> CLIterAppArg(a)
    [] class = "CLPageRank" -> CLPageRankArg(a)
    [] class = "CLDelta"    -> CLDeltaArg(a)
    [] class = "CLConvert"  -> CLConvertArg(a)

\* PrintUsage exits at once, so the options after -h are not looked at.
HandleArg(class, cli, a) ==
  IF cli.exited \/ a.opt \notin Opts(class) THEN cli
  ELSE FoldLeft(LAMBDA c, s : [c EXCEPT ![s[1]] = s[2]], cli, Sets(class, a))

\* ParseArgs: ok is its result.  A scale, the default one too, symmetrizes.
ParseArgs(class, args) ==
  LET cli == FoldLeft(LAMBDA c, a : HandleArg(class, c, a), Defaults, args)
      ok  == ~cli.exited /\ (cli.filename # "" \/ cli.scale # -1)
  IN [ok |-> ok,
      cli |-> IF ok /\ cli.scale # -1 THEN [cli EXCEPT !.symmetrize = TRUE] ELSE cli]
=============================================================================
