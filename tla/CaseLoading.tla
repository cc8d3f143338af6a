----------------------------- MODULE CaseLoading -----------------------------
(***************************************************************************)
(* How compare-results and run-sqls get their cases: the cases written in  *)
(* the source, followed by those of a YAML file that a sync.Once reads     *)
(* (initializeCompareResultSQLPairsFromYAML, initializeRunSQLCasesFrom-    *)
(* YAML).  The tests call a task several times in one process, and the     *)
(* file may change in between.                                             *)
(***************************************************************************)
EXTENDS Integers, Sequences

CONSTANTS Sources,    \* sequences of cases the source may contain
          Files       \* contents the YAML file may have

\* A case: its identity, whether it has a name, whether its queries are
\* non-blank.  A file: what is wrong with it, "" if nothing, and its cases.
Cases(S) == [id : S, named : BOOLEAN, complete : BOOLEAN]

ASSUME CasesAssumption ==
  /\ Sources \subseteq Seq(Cases(Nat))
  /\ \A f \in Files : f.defect \in {"", "open", "decode", "documents", "empty"}
                      /\ f.cases \in Seq(Cases(Nat))

VARIABLES task,      \* the task of this process: "compare" or "run"
          hardCoded, \* the cases in the source
          file,      \* the contents of the YAML file now
          once,      \* the sync.Once has run
          yamlErr,   \* compareCasesYAMLErr, runSQLCasesYAMLErr
          cases      \* compareResultSQLPairs, runSQLCases
loadVars == <<task, hardCoded, file, once, yamlErr, cases>>

\* What the two loaders demand of a case of the file.
CompareCaseOK(c) == c.complete /\ c.named
RunCaseOK(c) == c.complete
YAMLCaseOK(c) == IF task = "compare" THEN CompareCaseOK(c) ELSE RunCaseOK(c)

\* Opening and decoding the file.  An empty file has no cases.
FileError(f) == IF f.defect = "empty" THEN "" ELSE f.defect

\* loadCompareSQLPairsFromYAML and loadRunSQLCasesFromYAML: an error, or all
\* the cases.
LoadError(f) ==
  IF FileError(f) # "" THEN FileError(f)
  ELSE IF \E i \in 1..Len(f.cases) : ~YAMLCaseOK(f.cases[i]) THEN "case"
  ELSE "nil"

LoadInit == /\ task \in {"compare", "run"}
            /\ hardCoded \in Sources /\ cases = hardCoded
            /\ file \in Files /\ once = FALSE /\ yamlErr = "nil"

\* Wrong variant: the good cases of a bad file are kept.
InitializePartly ==
  /\ once' = TRUE
  /\ IF once THEN UNCHANGED <<yamlErr, cases>>
     ELSE /\ yamlErr' = LoadError(file)
          /\ cases' = cases \o SelectSeq(file.cases, YAMLCaseOK)
  /\ UNCHANGED <<task, hardCoded, file>>

\* The call of once.Do.
Initialize ==
  /\ once' = TRUE
  /\ IF once THEN UNCHANGED <<yamlErr, cases>>
     ELSE /\ yamlErr' = LoadError(file)
          /\ cases' = IF LoadError(file) = "nil" THEN cases \o file.cases ELSE cases
  /\ UNCHANGED <<task, hardCoded, file>>

EditFile == /\ file' \in Files \ {file}
            /\ UNCHANGED <<task, hardCoded, once, yamlErr, cases>>

\* The cases are those of the source, alone or followed by all the cases of one
\* file without defects: a file is taken as a whole or not at all, and only once,
\* however often the task is called.
AllOrNothing ==
  \/ cases = hardCoded
  \/ /\ yamlErr = "nil" /\ once
     /\ \E f \in Files : LoadError(f) = "nil" /\ cases = hardCoded \o f.cases
=============================================================================
