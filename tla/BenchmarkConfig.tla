-------------------------- MODULE BenchmarkConfig --------------------------
(***************************************************************************)
(* How a benchmark binary reads its command line: parse_config_from_args   *)
(* of the two request/response binaries and its twin of the two continuous *)
(* ones.  Only the three numbers the run depends on are kept; the other    *)
(* options that take a value set the field "other", which is not one.      *)
(***************************************************************************)
EXTENDS Integers, Sequences, FiniteSetsExt

CONSTANTS
  Defaults,     \* the config before any argument
  Parsed        \* the texts that str::parse accepts, and their value

Callers == {"caller", "server"}           \* request_response/*.rs
Streamers == {"subscriber", "publisher"}  \* continuous/*.rs
Fields == {"duration", "rate", "interval"}

ASSUME ConfigAssumption ==
  Defaults \in [Fields -> Nat] /\ Parsed \in [DOMAIN Parsed -> Nat]

VARIABLES
  role,         \* which of the four binaries this process is
  args,         \* the arguments after the program's name
  pos,          \* the loop's i, or 0 once the config has been returned
  config

\* The options that take a value, and the field each of them sets.
SharedOptions ==
  {"--domain-id", "-d", "--duration", "-t", "-r", "--payload-size", "-p",
   "--sample-interval", "--output", "-o", "--name", "-n"}

Options(r) ==
  LET own == IF r \in Callers THEN {"--rps", "--timeout"}
             ELSE {"--pps", "--signal_file", "-sf"}
  IN  [option \in SharedOptions \cup own |->
         CASE option \in {"--duration", "-t"}     -> "duration"
           [] option = "--sample-interval"        -> "interval"
           [] option \in {"--rps", "--pps", "-r"} -> "rate"
           [] OTHER                               -> "other"]

HelpFlags == {"--help", "-h"}

IsOption(i) == args[i] \in DOMAIN Options(role)

\* An option at the end of the line has no value and is passed over.
TakesValue(i) == IsOption(i) /\ i < Len(args)

\* .parse().unwrap_or(config.field)
Assigned(field, text) ==
  [f \in Fields |->
     IF f = field /\ text \in DOMAIN Parsed THEN Parsed[text] ELSE config[f]]

AfterValueOne == pos + 1          \* mutant: the i += 1 of the option is missing
AfterValue == pos + 2

ReadOption ==
  /\ pos \in 1 .. Len(args) /\ TakesValue(pos)
  /\ config' = Assigned(Options(role)[args[pos]], args[pos + 1])
  /\ pos' = AfterValue
  /\ UNCHANGED <<role, args>>

PassOver ==
  /\ pos \in 1 .. Len(args) /\ ~TakesValue(pos) /\ args[pos] \notin HelpFlags
  /\ pos' = pos + 1
  /\ UNCHANGED <<role, args, config>>

\* print_help(); exit(0)
Help == pos \in 1 .. Len(args) /\ args[pos] \in HelpFlags

\* The config is returned; the arguments are not looked at again.
Return ==
  /\ pos > Len(args)
  /\ pos' = 0 /\ args' = <<>>
  /\ UNCHANGED <<role, config>>

-----------------------------------------------------------------------------
(* What a command line means, said without a loop. *)

\* There are n options right before the i-th argument, and no more.
OptionsBefore(i, n) ==
  /\ n < i /\ \A j \in i - n .. i - 1 : IsOption(j)
  /\ n < i - 1 => ~IsOption(i - n - 1)

\* An argument is the value of the option before it, unless that one is
\* itself a value: the options before it are an odd number.
IsValue(i) == \E n \in 1 .. i - 1 : n % 2 = 1 /\ OptionsBefore(i, n)

Declared(f) ==
  LET given == {i \in 2 .. Len(args) :
                  /\ IsValue(i)
                  /\ Options(role)[args[i - 1]] = f
                  /\ args[i] \in DOMAIN Parsed}
  IN  IF given = {} THEN Defaults[f] ELSE Parsed[args[Max(given)]]

\* The parser returns what the line declares: of each option the last value
\* that is a number, else the default; the value of an option is never read
\* as an option (an option name after --output, say), and a --help or -h
\* that is not a value is never passed over.
ParsedAsDeclared ==
  pos > Len(args) =>
    /\ \A f \in Fields : config[f] = Declared(f)
    /\ \A i \in 1 .. Len(args) : args[i] \in HelpFlags => IsValue(i)

=============================================================================
