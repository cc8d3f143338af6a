---------------------------- MODULE InsertValues ----------------------------
(***************************************************************************)
(* The insert-values task of dbHelper/insert_values.go.  runInsertValues   *)
(* validates its settings, splits the rows over tasks, hands the tasks to  *)
(* the runner and returns the first error.  A task inserts its share in    *)
(* batches; the first task that fails stores its error under runErrMu and  *)
(* cancels the context that all batches execute under.                     *)
(*                                                                         *)
(* A batch is a number of rows, and the set of the forms these rows have.  *)
(* The server rejects a statement with a value that is quoted twice.  Any  *)
(* other batch whose execution returns an error may have been applied all  *)
(* the same (the connection was lost, or the context was canceled, before  *)
(* the answer arrived).                                                    *)
(***************************************************************************)
EXTENDS Runner, ColumnValues, FiniteSets, FiniteSetsExt

CONSTANT Settings      \* insertTotalRowCnt, insertBatchSize and insertColInfos
                       \* that are explored

ASSUME InsertAssumption ==
  \A s \in Settings :
    /\ s.total \in Int /\ s.batchSize \in Int /\ s.columns \in Seq(ColInfo)
    \* a generator makes at least one value
    /\ \A i \in DOMAIN s.columns : s.columns[i].generator => s.columns[i].generated > 0

VARIABLES
  settings,      \* the configuration of this process
  pc,            \* pc[t]: where task t is inside its function
  batch,         \* batch[t]: the rows of the statement task t executes
  inserted,      \* inserted[t]: the local count of task t
  stored,        \* stored[t]: rows of task t that the table holds
  taskErr,       \* taskErr[t]: the error of startToInsertForOneTask
  runErr,        \* the first error, guarded by runErrMu
  canceled,      \* cancel() has been called
  result         \* what runInsertValues returned

local == <<pc, batch, inserted, stored, taskErr>>
vars == <<runnerVars, settings, local, runErr, canceled, result>>

\* validateInsertSettings, for the settings that are explored.
totalRowCnt == settings.total
batchSize   == settings.batchSize
ValidSettings ==
  /\ totalRowCnt > 0 /\ batchSize > 0 /\ settings.columns # <<>>
  /\ \A i \in DOMAIN settings.columns : ValidCol(settings.columns[i])

\* initializeInsertColInfos
colInfos == [i \in DOMAIN settings.columns |-> InitializeInsertColInfo(settings.columns[i])]

\* buildInsertTasks: task t has Go's taskID t - 1.
InsertCnt(t) == LET rowsPerTask == totalRowCnt \div TaskCount
                    extraRows   == totalRowCnt % TaskCount
                IN IF t - 1 < extraRows THEN rowsPerTask + 1 ELSE rowsPerTask

\* Wrong variant: the last batch is not cut short.
RowCountUncut(t) == batchSize

\* rowCount := min(batchSize, task.insertCnt-inserted)
RowCount(t) == Min({batchSize, InsertCnt(t) - inserted[t]})

Init ==
  /\ NewRunner
  /\ settings \in Settings
  /\ pc = [t \in Tasks |-> "outside"]
  /\ batch = [t \in Tasks |-> {}]
  /\ inserted = [t \in Tasks |-> 0]
  /\ stored = [t \in Tasks |-> 0]
  /\ taskErr = [t \in Tasks |-> "nil"]
  /\ runErr = "nil"
  /\ canceled = FALSE
  /\ result = "none"

Goto(t, from, to) == pc[t] = from /\ pc' = [pc EXCEPT ![t] = to]

-----------------------------------------------------------------------------
(* runInsertValues.                                                        *)

\* initializeInsertConfig returns an error: the settings or the connection.
InitializeFails ==
  /\ result = "none" /\ spawned = 0
  /\ \E reason \in {"settings", "connection"} :
       /\ reason = "settings" <=> ~ValidSettings
       /\ result' = reason
  /\ UNCHANGED <<runnerVars, settings, local, runErr, canceled>>

Spawn ==
  /\ result = "none" /\ ValidSettings
  /\ SpawnTask
  /\ UNCHANGED <<settings, local, runErr, canceled, result>>

RunReturns ==
  /\ Join
  /\ UNCHANGED <<settings, local, runErr, canceled, result>>

\* config.db.Close() and the returns after it, in their order.
Return ==
  /\ result = "none" /\ runReturned
  /\ \E closeFails \in BOOLEAN :
       result' = IF runErr # "nil" THEN runErr
                 ELSE IF closeFails THEN "close" ELSE "success"
  /\ UNCHANGED <<runnerVars, settings, local, runErr, canceled>>

-----------------------------------------------------------------------------
(* One task: the function built for the runner around                      *)
(* startToInsertForOneTask.                                                *)

Begin(t) ==
  /\ BeginTask(t)
  /\ pc' = [pc EXCEPT ![t] = "check"]
  /\ UNCHANGED <<settings, batch, inserted, stored, taskErr, runErr, canceled, result>>

\* The first look at runErr: a task that starts after a failure does nothing.
CheckRunErr(t) ==
  /\ Goto(t, "check", IF runErr # "nil" THEN "leave" ELSE "loop")
  /\ UNCHANGED <<runnerVars, settings, batch, inserted, stored, taskErr, runErr,
                 canceled, result>>

AllInserted(t) ==
  /\ inserted[t] >= InsertCnt(t)
  /\ Goto(t, "loop", "leave")
  /\ UNCHANGED <<runnerVars, settings, batch, inserted, stored, taskErr, runErr,
                 canceled, result>>

\* rowCount calls of generateOneRow.
GenerateRows(t) ==
  \E n \in 1..RowCount(t) : \E rows \in kSubset(n, OneRow(colInfos)) :
    batch' = [batch EXCEPT ![t] = rows]

\* Wrong variants: a canceled task stays in its loop; a batch is started
\* without looking at the context.
LoopCanceledIgnored(t) == t \notin Tasks /\ UNCHANGED vars

StartBatchAnyway(t) ==
  /\ inserted[t] < InsertCnt(t)
  /\ Goto(t, "loop", "batch")
  /\ GenerateRows(t)
  /\ UNCHANGED <<runnerVars, settings, inserted, stored, taskErr, runErr,
                 canceled, result>>

\* ctx.Err() != nil at the head of the loop.
LoopCanceled(t) ==
  /\ inserted[t] < InsertCnt(t) /\ canceled
  /\ Goto(t, "loop", "report")
  /\ taskErr' = [taskErr EXCEPT ![t] = "canceled"]
  /\ UNCHANGED <<runnerVars, settings, batch, inserted, stored, runErr, canceled, result>>

StartBatch(t) ==
  /\ inserted[t] < InsertCnt(t) /\ ~canceled
  /\ Goto(t, "loop", "batch")
  /\ GenerateRows(t)
  /\ UNCHANGED <<runnerVars, settings, inserted, stored, taskErr, runErr,
                 canceled, result>>

Accepted(t) == \A row \in batch[t] : WellFormed(row)

BatchSucceeds(t) ==
  /\ Goto(t, "batch", "loop") /\ Accepted(t)
  /\ batch' = [batch EXCEPT ![t] = {}]
  /\ stored' = [stored EXCEPT ![t] = @ + RowCount(t)]
  /\ inserted' = [inserted EXCEPT ![t] = @ + RowCount(t)]
  /\ UNCHANGED <<runnerVars, settings, taskErr, runErr, canceled, result>>

\* Wrong variant: the rows are counted before the error is looked at.
BatchFailsCounted(t) ==
  /\ Goto(t, "batch", "failed")
  /\ batch' = [batch EXCEPT ![t] = {}]
  /\ inserted' = [inserted EXCEPT ![t] = @ + RowCount(t)]
  /\ UNCHANGED <<runnerVars, settings, stored, taskErr, runErr, canceled, result>>

BatchFails(t) ==
  /\ Goto(t, "batch", "failed")
  /\ batch' = [batch EXCEPT ![t] = {}]
  /\ \E applied \in {0} \union (IF Accepted(t) THEN {RowCount(t)} ELSE {}) :
       stored' = [stored EXCEPT ![t] = @ + applied]
  /\ UNCHANGED <<runnerVars, settings, inserted, taskErr, runErr, canceled, result>>

\* The error is ctx's if ctx is done by now, and the insert's otherwise.
ClassifyError(t) ==
  /\ Goto(t, "failed", "report")
  /\ taskErr' = [taskErr EXCEPT ![t] = IF canceled THEN "canceled" ELSE "insert"]
  /\ UNCHANGED <<runnerVars, settings, batch, inserted, stored, runErr, canceled, result>>

\* Wrong variant: the last error is kept.
ReportLastError(t) ==
  /\ Goto(t, "report", "leave")
  /\ runErr' = taskErr[t]
  /\ canceled' = TRUE
  /\ UNCHANGED <<runnerVars, settings, batch, inserted, stored, taskErr, result>>

\* The critical section of runErrMu: keep the first error and cancel.
ReportError(t) ==
  /\ Goto(t, "report", "leave")
  /\ runErr' = IF runErr = "nil" THEN taskErr[t] ELSE runErr
  /\ canceled' = (runErr = "nil" \/ canceled)
  /\ UNCHANGED <<runnerVars, settings, batch, inserted, stored, taskErr, result>>

Leave(t) ==
  /\ Goto(t, "leave", "outside")
  /\ EndTask(t)
  /\ UNCHANGED <<settings, batch, inserted, stored, taskErr, runErr, canceled, result>>

Returned == result # "none" /\ UNCHANGED vars

Task(t) ==
  \/ Begin(t) \/ CheckRunErr(t) \/ AllInserted(t) \/ LoopCanceled(t)
  \/ StartBatch(t) \/ BatchSucceeds(t) \/ BatchFails(t) \/ ClassifyError(t)
  \/ ReportError(t) \/ Leave(t)

Main == InitializeFails \/ Spawn \/ RunReturns \/ Return

Next == Main \/ (\E t \in Tasks : Task(t)) \/ Returned

Spec == Init /\ [][Next]_vars

\* Goroutines are scheduled and every insert statement ends.
FairSpec == Spec /\ WF_vars(Main) /\ \A t \in Tasks : WF_vars(Task(t))

-----------------------------------------------------------------------------
TypeOK ==
  /\ RunnerTypeOK
  /\ settings \in Settings
  /\ pc \in [Tasks -> {"outside", "check", "loop", "batch", "failed", "report",
                       "leave"}]
  /\ batch \in [Tasks -> SUBSET OneRow(colInfos)]
  /\ inserted \in [Tasks -> Nat] /\ stored \in [Tasks -> Nat]
  /\ taskErr \in [Tasks -> {"nil", "canceled", "insert"}]
  /\ runErr \in {"nil", "canceled", "insert"}
  /\ canceled \in BOOLEAN
  /\ result \in {"none", "settings", "connection", "insert", "canceled",
                 "close", "success"}

\* The rows of the table: task and number within the task.
StoredRows == UNION {{t} \X (1..stored[t]) : t \in Tasks}

\* Success means that the table received exactly insertTotalRowCnt rows, each
\* task its share; whatever happens, never more than that.
RowsExact ==
  /\ ValidSettings => Cardinality(StoredRows) <= totalRowCnt
  /\ result \in {"success", "close"} => Cardinality(StoredRows) = totalRowCnt

\* What a task has counted is what the table holds, up to one batch whose
\* outcome is unknown because its execution failed.
CountMatchesTable ==
  \A t \in Tasks :
    /\ stored[t] \in {inserted[t], inserted[t] + RowCount(t)}
    /\ stored[t] # inserted[t] =>
         pc[t] = "failed" \/ taskErr[t] # "nil"

\* "-1 means that null is forbidden for this col, 60 means that we have 60% to
\* generate null" (insert_values.go:121-122): in every statement executed for
\* settings that pass the validation, a column is null only if its probability is
\* positive and always if it is 100, a generated string is as long as minStrLen and
\* maxStrLen say, and every value is one literal.  The last is not so for temporal
\* columns without prepared values, whose statements no run survives.
StatementsAsConfigured ==
  \A t \in Tasks : \A row \in batch[t] : \A i \in DOMAIN row :
    LET col == colInfos[i]
        v   == row[i]
    IN /\ v.null => col.nullProbability > 0
       /\ col.nullProbability = 100 => v.null
       /\ (col.tp = "string" /\ col.values = 0 /\ ~v.null) =>
            v.len \in col.minStrLen..col.maxStrLen
       /\ v.null \/ v.quotes = 1 \/ (col.tp \in Temporal /\ col.values = 0)

\* The error returned is the one that started the trouble: never the
\* cancellation that it caused in the other tasks.
RootCauseReturned == runErr # "canceled" /\ (canceled => runErr = "insert")

\* After the first error a task executes at most the batch it has in hand.
NoBatchAfterError ==
  \A t \in Tasks : []((canceled /\ pc[t] # "batch") => [](pc[t] # "batch"))

\* runInsertValues always returns.
Termination == <>(result # "none")
=============================================================================
