---------------------------- MODULE MCBenchmark ----------------------------
(***************************************************************************)
(* Small instances of Benchmark: a second is two units of the clock, and   *)
(* a command line has at most three arguments.                             *)
(***************************************************************************)
EXTENDS Benchmark, SequencesExt

MCDefaults == "duration" :> 1 @@ "rate" :> 2 @@ "interval" :> 2
MCParsed == "zero" :> 0 @@ "one" :> 1

Tokens ==
  {"--duration", "-t", "--rps", "--pps", "-r", "--sample-interval", "--domain-id",
   "--timeout", "-sf", "-n", "--help", "-h", "zero", "one"}

\* The two binaries of a pair have the same parser: one of them is given every
\* line, the other one three lines: it runs, it is over at once, it panics.
AllLines == SeqOf(Tokens, 3)
FewLines == {<<>>, <<"--duration", "zero">>, <<"--sample-interval", "zero">>}

MCArgLists ==
  "caller" :> AllLines @@ "publisher" :> AllLines
    @@ "server" :> FewLines @@ "subscriber" :> {<<"--duration", "zero">>}

NoArguments == [r \in {"caller", "server", "subscriber", "publisher"} |-> {<<>>}]

=============================================================================
