----------------------------- MODULE CommandLine -----------------------------
(***************************************************************************)
(* The command line of dbHelper: parseCommandLineOptions of                *)
(* cmd_parameter.go, and run of main.go, which applies the database        *)
(* overrides to the configuration of the chosen task and starts it.        *)
(*                                                                         *)
(* An argument is a record: its text; the name of the flag when it starts  *)
(* with a dash and "" otherwise; and, for the form --name=value, the       *)
(* inline value.  Normal[text] is the text trimmed, in lower case and with *)
(* dashes for underscores.  (The argument "-" alone is left out.)          *)
(***************************************************************************)
EXTENDS Integers, Sequences, FiniteSets

CONSTANTS Tokens,      \* arguments a user may write
          MaxArgs,     \* bound: length of the command line
          Normal       \* text -> normalized text

Fields == {"address", "port", "user", "dbName"}
FlagNames == Fields \union {"task"}
Tasks == {"insert", "compare-results", "run-sqls"}

ASSUME ArgsAssumption == MaxArgs \in Nat

VARIABLES args,        \* os.Args[1:]
          rest,        \* arguments that flags.Parse has not consumed
          flags,       \* flag -> texts it was set to, in order
          stage,       \* "parse", "choose", and "run" or "error" at the end
          chosen,      \* the task started, or "" before that and after an error
          config       \* task -> field -> text, "default" for the source's value
commandVars == <<args, rest, flags, stage, chosen, config>>

\* A leading argument without a dash is moved behind the others.
MoveTaskBack(a) ==
  IF a # <<>> /\ a[1].name = "" THEN Append(Tail(a), a[1]) ELSE a

CommandInit ==
  /\ args \in UNION {[1..n -> Tokens] : n \in 0..MaxArgs}
  /\ rest = MoveTaskBack(args)
  /\ flags = [f \in FlagNames |-> <<>>]
  /\ stage = "parse" /\ chosen = ""
  /\ config = [t \in Tasks |-> [f \in Fields |-> "default"]]

Fail == stage' = "error" /\ UNCHANGED <<args, rest, flags, chosen, config>>

\* flag.FlagSet.parseOne: a known flag with its inline value or with the next
\* argument, whatever that is.
ParseFlag ==
  /\ stage = "parse" /\ rest # <<>> /\ rest[1].name \in FlagNames
  /\ LET flag == rest[1]
         Set(text, left) == /\ flags' = [flags EXCEPT ![flag.name] = Append(@, text)]
                            /\ rest' = left
     IN IF flag.inline THEN Set(flag.value, Tail(rest))
        ELSE Len(rest) > 1 /\ Set(rest[2].text, Tail(Tail(rest)))
  /\ UNCHANGED <<args, stage, chosen, config>>

\* An unknown flag, or a flag at the end of the line without a value.
ParseError ==
  /\ stage = "parse" /\ rest # <<>>
  /\ \/ rest[1].name \notin FlagNames \union {"", "--"}
     \/ rest[1].name \in FlagNames /\ ~rest[1].inline /\ Len(rest) = 1
  /\ Fail

\* Parsing ends with the arguments, at the first one without a dash, or
\* behind the terminator --.
ParseEnd ==
  /\ stage = "parse"
  /\ \/ rest = <<>> /\ UNCHANGED rest
     \/ rest # <<>> /\ rest[1].name = "" /\ UNCHANGED rest
     \/ rest # <<>> /\ rest[1].name = "--" /\ rest' = Tail(rest)
  /\ stage' = "choose"
  /\ UNCHANGED <<args, flags, chosen, config>>

Alias(name) ==
  CASE name = "insert" -> "insert"
    [] name \in {"compare", "compare-result", "compare-results"} -> "compare-results"
    [] name \in {"run-sql", "run-sqls"} -> "run-sqls"
    [] OTHER -> ""

Last(s) == s[Len(s)]
TaskFlag == IF flags["task"] = <<>> THEN "" ELSE Normal[Last(flags["task"])]

\* The name from --task, or else from the only positional argument.
ChosenNames ==
  IF TaskFlag # "" THEN IF rest = <<>> THEN {TaskFlag} ELSE {}
  ELSE IF Len(rest) = 1 THEN {Normal[rest[1].text]} ELSE {}

\* Wrong variant: the overrides are written to a copy of the configuration.
OverrideCopy(t) == config

\* applyDBCLIOverrides on the configuration of task t.
Override(t) ==
  [config EXCEPT ![t] = [f \in Fields |-> IF flags[f] = <<>> THEN @[f]
                                          ELSE Last(flags[f])]]

\* Wrong variant: a flag and a positional argument are both accepted, the
\* flag wins.
ChooseFlagFirst ==
  /\ stage = "choose"
  /\ LET name == IF TaskFlag # "" THEN TaskFlag
                 ELSE IF rest # <<>> THEN Normal[rest[1].text] ELSE ""
     IN /\ Alias(name) # ""
        /\ chosen' = Alias(name) /\ config' = Override(Alias(name))
  /\ stage' = "run" /\ UNCHANGED <<args, rest, flags>>

Choose ==
  /\ stage = "choose"
  /\ \E name \in ChosenNames :
       /\ Alias(name) # ""
       /\ chosen' = Alias(name) /\ config' = Override(Alias(name))
  /\ stage' = "run" /\ UNCHANGED <<args, rest, flags>>

\* Both forms, no task, several tasks or an unsupported one.
ChooseError ==
  /\ stage = "choose"
  /\ \A name \in ChosenNames : Alias(name) = ""
  /\ Fail

CommandDone == stage \in {"run", "error"} /\ UNCHANGED commandVars

CommandNext ==
  ParseFlag \/ ParseError \/ ParseEnd \/ Choose \/ ChooseError \/ CommandDone

CommandSpec == CommandInit /\ [][CommandNext]_commandVars

-----------------------------------------------------------------------------
Leading == args # <<>> /\ args[1].name = ""

\* How a line q is to be read: the arguments i..n are flags, starting at these
\* places, each with its value, inline or in the argument behind it.
FlagsWithValues(q, i, n, starts) ==
  /\ \A k \in i..n : IF k \in starts THEN q[k].name \in FlagNames
                     ELSE k - 1 \in starts /\ ~q[k - 1].inline
  /\ \A k \in starts : q[k].inline \/ k + 1 \in (i..n) \ starts

Value(q, k) == IF q[k].inline THEN q[k].value ELSE q[k + 1].text

Complete(i) == \E starts \in SUBSET (i..Len(args)) :
                 FlagsWithValues(args, i, Len(args), starts)

\* A task name in front of flags that all have their values is the task that
\* runs, whatever the flags are: nothing else can be started by such a line, and
\* it is refused only for an unsupported name or a --task besides it.
LeadingTaskRunsIfComplete ==
  Leading /\ Complete(2) =>
    /\ stage = "run" => chosen = Alias(Normal[args[1].text])
    /\ stage = "error" => TaskFlag # "" \/ Alias(Normal[args[1].text]) = ""

\* The value that the user gave the flag last, of the flags at these places.
LastGiven(q, starts, flag, text) ==
  \E k \in starts : /\ q[k].name = flag /\ text = Value(q, k)
                    /\ \A j \in starts : q[j].name = flag => j <= k

\* The configuration of the task that runs has, in every field, the value the
\* user gave last, and the source's where none was given; the flags are read up to
\* the first argument that is none.  No other task's configuration is touched,
\* and a refused line changes none.
OverridesReachTheTask ==
  /\ \A t \in Tasks, f \in Fields :
       stage # "run" \/ t # chosen => config[t][f] = "default"
  /\ stage = "run" =>
       LET line == MoveTaskBack(args)
       IN \E n \in 0..Len(line) : \E starts \in SUBSET (1..n) :
            /\ FlagsWithValues(line, 1, n, starts)
            /\ n = Len(line) \/ line[n + 1].name \in {"", "--"}
            /\ \A f \in Fields :
                 \/ LastGiven(line, starts, f, config[chosen][f])
                 \/ /\ \A k \in starts : line[k].name # f
                    /\ config[chosen][f] = "default"

=============================================================================
