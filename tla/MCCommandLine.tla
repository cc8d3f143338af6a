---------------------------- MODULE MCCommandLine ----------------------------
EXTENDS CommandLine, TLC

Word(t) == [text |-> t, name |-> "", inline |-> FALSE, value |-> ""]
Flag(n, t) == [text |-> t, name |-> n, inline |-> FALSE, value |-> ""]
Inline(n, t, v) == [text |-> t, name |-> n, inline |-> TRUE, value |-> v]

MCTokens ==
  {Word("insert"), Word("Compare_Results"), Word("host"), Word(" "),
   Flag("task", "--task"), Flag("address", "--address"), Flag("user", "-user"),
   Flag("--", "--"), Flag("unknown", "-x"),
   Inline("task", "--task=run-sql", "run-sql"), Inline("task", "--task=", ""),
   Inline("dbName", "--dbName=test", "test"),
   Inline("address", "--address=db", "db")}

MCNormal ==
  [t \in {"insert", "host", "run-sql", "", "test", "--task", "--address", "-user",
          "--", "-x", "--task=run-sql", "--task="} |-> t]
  @@ ("Compare_Results" :> "compare-results") @@ (" " :> "")
  @@ ("--dbName=test" :> "--dbname=test") @@ ("--address=db" :> "--address=db")
=============================================================================
