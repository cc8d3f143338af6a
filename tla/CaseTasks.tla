------------------------------ MODULE CaseTasks ------------------------------
(***************************************************************************)
(* The tasks compare-results (compareResultsTask, compare_results.go) and  *)
(* run-sqls (runConfiguredSQLsTask, run_sqls.go) around their concurrent   *)
(* parts: which mode runs, on which cases, and what is refused before any  *)
(* SQL.  The workers of ComparePairs and RunSQLs are a single step here.   *)
(***************************************************************************)
EXTENDS CaseLoading

CONSTANT MaxCalls      \* bound: calls of the task in one process

ASSUME CallsAssumption == MaxCalls \in Nat \ {0}

VARIABLES fromFiles, concurrently,   \* compareResultReadFromFiles, ...RunConcurrently
          pc, calls, next,           \* control; calls made; index of the next pair
          log,                       \* pairs compared by this call: <<case, outcome>>
          given,                     \* the cases this call handed to the workload
          result                     \* what the last call returned
vars == <<loadVars, fromFiles, concurrently, pc, calls, next, log, given, result>>
mode == <<fromFiles, concurrently>>

Init == /\ LoadInit
        /\ fromFiles \in {FALSE, task = "compare"}
        /\ concurrently \in {TRUE, task = "run"}
        /\ pc = "idle" /\ calls = 0 /\ next = 1
        /\ log = <<>> /\ given = <<>> /\ result = "none"

Return(value) == pc' = "idle" /\ result' = value

\* runCompareResults and runConfiguredSQLs.
Call ==
  /\ pc = "idle" /\ calls < MaxCalls
  /\ calls' = calls + 1 /\ next' = 1
  /\ log' = <<>> /\ given' = <<>> /\ result' = "none"
  /\ pc' = IF fromFiles THEN "files" ELSE "load"
  /\ UNCHANGED <<loadVars, mode>>

Edit == /\ pc = "idle" /\ EditFile
        /\ UNCHANGED <<mode, pc, calls, next, log, given, result>>

\* compareConfiguredFiles: a name is missing, a file cannot be read, or the
\* rows are compared.
CompareFiles ==
  /\ pc = "files"
  /\ \E value \in {"nil", "file name", "read", "mismatch"} : Return(value)
  /\ UNCHANGED <<loadVars, mode, calls, next, log, given>>

Load ==
  /\ pc = "load" /\ Initialize
  /\ IF yamlErr' # "nil" THEN Return("yaml")
     ELSE pc' = "configured" /\ UNCHANGED result
  /\ UNCHANGED <<mode, calls, next, log, given>>

\* Wrong variant: only the presence of cases is checked.
AnyCases == cases # <<>>

\* The part of validateRunSQLConfig about the cases.
ValidCases == cases # <<>> /\ \A i \in 1..Len(cases) : cases[i].complete

\* runConfiguredSQLsTask: the cases or the limits are invalid, the database
\* cannot be reached, or the workload starts with a copy of the cases.
Validate ==
  /\ pc = "configured" /\ task = "run"
  /\ \/ ~ValidCases /\ Return("cases") /\ UNCHANGED given
     \/ /\ ValidCases /\ UNCHANGED given
        /\ \E value \in {"limits", "connection"} : Return(value)
     \/ /\ ValidCases /\ given' = cases
        /\ pc' = "workload" /\ UNCHANGED result
  /\ UNCHANGED <<loadVars, mode, calls, next, log>>

Workload ==
  /\ pc = "workload"
  /\ \E value \in {"nil", "run"} : Return(value)
  /\ UNCHANGED <<loadVars, mode, calls, next, log, given>>

\* compareConfiguredSQLPairs: no pair, invalid limits of the concurrent mode
\* (ComparePairs!ValidConfig), no database; or on to the comparison.
Configured ==
  /\ pc = "configured" /\ task = "compare"
  /\ \/ cases = <<>> /\ Return("no pairs")
     \/ cases # <<>> /\ concurrently /\ Return("limits")
     \/ cases # <<>> /\ Return("connection")
     \/ /\ cases # <<>> /\ UNCHANGED result
        /\ pc' = IF concurrently THEN "concurrent" ELSE "serial"
  /\ UNCHANGED <<loadVars, mode, calls, next, log, given>>

CompareConcurrently ==
  /\ pc = "concurrent"
  /\ \E value \in {"nil", "pair"} : Return(value)
  /\ UNCHANGED <<loadVars, mode, calls, next, log, given>>

\* One pair: executeCompareSQL refuses a blank query.
Outcomes(c) == IF c.complete THEN {"match", "mismatch", "sql"} ELSE {"sql"}

\* Wrong variant: a failing pair does not end the loop.
ComparePairAndContinue ==
  /\ pc = "serial" /\ next <= Len(cases)
  /\ \E outcome \in Outcomes(cases[next]) :
       log' = Append(log, <<cases[next], outcome>>)
  /\ next' = next + 1 /\ UNCHANGED <<pc, result>>
  /\ UNCHANGED <<loadVars, mode, calls, given>>

\* The loop of compareSQLPairsSerially.
ComparePair ==
  /\ pc = "serial" /\ next <= Len(cases)
  /\ \E outcome \in Outcomes(cases[next]) :
       /\ log' = Append(log, <<cases[next], outcome>>)
       /\ IF outcome = "match" THEN next' = next + 1 /\ UNCHANGED <<pc, result>>
          ELSE Return("pair") /\ UNCHANGED next
  /\ UNCHANGED <<loadVars, mode, calls, given>>

AllCompared ==
  /\ pc = "serial" /\ next > Len(cases)
  /\ Return("nil")
  /\ UNCHANGED <<loadVars, mode, calls, next, log, given>>

Finished == pc = "idle" /\ calls = MaxCalls /\ UNCHANGED vars

Next == \/ Call \/ Edit \/ CompareFiles \/ Load \/ Validate \/ Workload
        \/ Configured \/ CompareConcurrently \/ ComparePair \/ AllCompared
        \/ Finished

Spec == Init /\ [][Next]_vars

-----------------------------------------------------------------------------
\* The serial mode compares the configured pairs in their order, each at most
\* once per call; it succeeds only when all of them match, and a failure is that
\* of the last pair compared, the first that did not match.
SerialExact ==
  /\ Len(log) <= Len(cases)
  /\ \A i \in 1..Len(log) :
       log[i][1] = cases[i] /\ (i < Len(log) => log[i][2] = "match")
  /\ (result = "nil" /\ ~fromFiles /\ ~concurrently) =>
       Len(log) = Len(cases) /\ \A i \in 1..Len(log) : log[i][2] = "match"
  /\ (result = "pair" /\ ~concurrently) => log[Len(log)][2] # "match"

\* SQL runs for the whole configuration or not at all: nothing is executed, not even
\* the cases of the source, while the YAML file could not be loaded (file mode does
\* not read it); a workload gets all the cases, of the source and of the file, and
\* every one of them has a query.
WholeConfigurationOrNothing ==
  /\ yamlErr # "nil" =>
       log = <<>> /\ given = <<>> /\ result \notin {"nil", "pair", "run", "connection"}
  /\ fromFiles => ~once
  /\ given # <<>> => given = cases /\ \A i \in 1..Len(given) : given[i].complete
  /\ (task = "run" /\ result \in {"nil", "run"}) => given # <<>>
=============================================================================
