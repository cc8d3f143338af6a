---------------------------- MODULE ComparePairs ----------------------------
(***************************************************************************)
(* The concurrent random comparison of compare-results                     *)
(* (runSQLPairsRandomly and compareOneSQLPairWithLabel in                  *)
(* dbHelper/compare_results.go).  Workers take pairs from a random         *)
(* scheduler; one comparison executes the expected and the actual SQL,     *)
(* compares the rows and, when they differ, writes the failure files.      *)
(*                                                                         *)
(* Unlike run-sqls, the first failure cancels workerCtx, under which every *)
(* comparison executes: other executions are interrupted and fail with a   *)
(* context error.  The timeout belongs to schedulingCtx alone.             *)
(***************************************************************************)
EXTENDS RandomScheduler, FailureFiles, FiniteSets

CONSTANTS PairName,      \* PairName[i]: the trimmed name of pair i, or ""
          InitialFiles   \* the possible contents of the directory at start

ASSUME ComparePairsAssumption == /\ Clients # {}
                                 /\ IsFiniteSet(Clients)
                                 /\ NoWriter \notin Clients
                                 /\ DOMAIN PairName = Items

\* What earlier processes leave in the directory: files with a name, a side and a
\* suffix of their own, no gap below a suffix, the sides in step.  Their comparisons
\* are none of this process's, whose items are 1..ItemCount.
ASSUME InitialFilesAssumption ==
  \A F \in InitialFiles :
    /\ DistinctNames(F) /\ NoGap(F) /\ InStep(F)
    /\ \A f \in F : f.suffix \in Nat /\ f.by.item \notin Items

VARIABLES
  timed,           \* compareResultConcurrentRunDuration > 0
  ctxDone,         \* the caller's ctx has been canceled
  expired,         \* the timeout of schedulingCtx has fired
  stopped,         \* stopWorkers() has been called
  pc,              \* where each worker goroutine is
  err,             \* err[w]: the error of w's current comparison
  suffix,          \* suffix[w]: the suffix w tries for its failure file
  completedRuns,
  firstFailure,    \* the error kept by failureOnce, with its label
  result           \* what runSQLPairsRandomly returned

contexts == <<ctxDone, expired, stopped>>
disk     == <<files, fileMu, suffix>>
vars == <<schedulerVars, disk, timed, contexts, pc, err, completedRuns,
          firstFailure, result>>

Workers == Clients

WorkerDone     == ctxDone \/ stopped
SchedulingDone == WorkerDone \/ expired

\* The part of validateConcurrentCompareConfig that the settings can violate.
ValidConfig == timed \/ limit > 0

NoFailure == [label |-> NoGrant, kind |-> "none"]

\* randomPairScheduler repeats the scheduler of run-sqls statement by statement.
NewRandomPairScheduler(runsPerPair) == NewScheduler(runsPerPair)
TakePair(w, k) == Take(w, k)
NoPairLeft(w)  == Exhausted(w)

Init ==
  /\ \E runsPerPair \in Limits : NewRandomPairScheduler(runsPerPair)
  /\ timed \in BOOLEAN
  /\ files \in InitialFiles
  /\ fileMu = NoWriter
  /\ ctxDone = FALSE /\ expired = FALSE /\ stopped = FALSE
  /\ pc = [w \in Workers |-> "unstarted"]
  /\ err = [w \in Workers |-> "none"]
  /\ suffix = [w \in Workers |-> 0]
  /\ completedRuns = [p \in Items |-> 0]
  /\ firstFailure = NoFailure
  /\ result = "none"

Goto(w, from, to) == pc[w] = from /\ pc' = [pc EXCEPT ![w] = to]

-----------------------------------------------------------------------------
(* The task goroutine.                                                     *)

RejectConfig ==
  /\ result = "none"
  /\ \A w \in Workers : pc[w] = "unstarted"
  /\ ~ValidConfig
  /\ result' = "invalid"
  /\ UNCHANGED <<schedulerVars, disk, timed, contexts, pc, err, completedRuns,
                 firstFailure>>

StartWorkers ==
  /\ result = "none"
  /\ \A w \in Workers : pc[w] = "unstarted"
  /\ ValidConfig
  /\ pc' = [w \in Workers |-> "select"]
  /\ UNCHANGED <<schedulerVars, disk, timed, contexts, err, completedRuns,
                 firstFailure, result>>

\* A failure is returned in preference to the caller's cancellation.
Outcome == IF firstFailure # NoFailure THEN "failed"
           ELSE IF ctxDone THEN "canceled" ELSE "success"

Return ==
  /\ result = "none"
  /\ \A w \in Workers : pc[w] \in {"done", "interrupted"}
  /\ result' = Outcome
  /\ UNCHANGED <<schedulerVars, disk, timed, contexts, pc, err, completedRuns,
                 firstFailure>>

-----------------------------------------------------------------------------
(* One worker: the scheduling loop.                                        *)

\* Wrong variant: the select waits for workerCtx.
LeaveLoopOnStop(w) ==
  /\ WorkerDone
  /\ Goto(w, "select", "done")
  /\ UNCHANGED <<schedulerVars, disk, timed, contexts, err, completedRuns,
                 firstFailure, result>>

LeaveLoop(w) ==
  /\ SchedulingDone
  /\ Goto(w, "select", "done")
  /\ UNCHANGED <<schedulerVars, disk, timed, contexts, err, completedRuns,
                 firstFailure, result>>

\* MaxRuns bounds the exploration of a comparison limited by duration only.
EnterLoop(w) ==
  /\ ~SchedulingDone
  /\ limit > 0 \/ \A p \in Items : runCounts[p] < MaxRuns
  /\ Goto(w, "select", "next")
  /\ UNCHANGED <<schedulerVars, disk, timed, contexts, err, completedRuns,
                 firstFailure, result>>

NoMoreRuns(w) ==
  /\ Goto(w, "next", "done")
  /\ NoPairLeft(w)
  /\ UNCHANGED <<disk, timed, contexts, err, completedRuns, firstFailure, result>>

StartRun(w) ==
  /\ Goto(w, "next", "expected")
  /\ \E k \in 1..Len(available) : TakePair(w, k)
  /\ UNCHANGED <<disk, timed, contexts, err, completedRuns, firstFailure, result>>

-----------------------------------------------------------------------------
(* One worker: one comparison, executed under workerCtx.                   *)

ExecuteExpected(w) ==
  /\ Goto(w, "expected", "actual")
  /\ UNCHANGED <<schedulerVars, disk, timed, contexts, err, completedRuns,
                 firstFailure, result>>

ExecuteActual(w) ==
  /\ Goto(w, "actual", "compare")
  /\ UNCHANGED <<schedulerVars, disk, timed, contexts, err, completedRuns,
                 firstFailure, result>>

\* The SQL's own error at any time; the context's once workerCtx is done.
ExecuteFails(w) ==
  /\ pc[w] \in {"expected", "actual"}
  /\ pc' = [pc EXCEPT ![w] = "error"]
  /\ \E kind \in {"sql"} \union (IF WorkerDone THEN {"context"} ELSE {}) :
       err' = [err EXCEPT ![w] = kind]
  /\ UNCHANGED <<schedulerVars, disk, timed, contexts, completedRuns,
                 firstFailure, result>>

\* Wrong variant: a run that ends after the deadline is not counted.
MatchInTime(w) ==
  /\ Goto(w, "compare", "select")
  /\ completedRuns' = [completedRuns EXCEPT ![grant[w].item] =
                         IF SchedulingDone THEN @ ELSE @ + 1]
  /\ UNCHANGED <<schedulerVars, disk, timed, contexts, err, firstFailure, result>>

\* The rows are equal: comparePair returns nil and the run is counted.
Match(w) ==
  /\ Goto(w, "compare", "select")
  /\ completedRuns' = [completedRuns EXCEPT ![grant[w].item] = @ + 1]
  /\ UNCHANGED <<schedulerVars, disk, timed, contexts, err, firstFailure, result>>

\* The rows differ: writeCompareFailureFiles rejects an empty pair name, and
\* waits for its mutex otherwise.
Mismatch(w) ==
  /\ Goto(w, "compare", IF PairName[grant[w].item] = "" THEN "error" ELSE "lock")
  /\ err' = [err EXCEPT ![w] = "mismatch"]
  /\ UNCHANGED <<schedulerVars, disk, timed, contexts, completedRuns,
                 firstFailure, result>>

AcquireFileMu(w) ==
  /\ Goto(w, "lock", "create-expected")
  /\ LockFiles(w)
  /\ UNCHANGED <<schedulerVars, files, suffix, timed, contexts, err, completedRuns,
                 firstFailure, result>>

Creating == {"create-expected", "create-actual"}
Filling == {"fill-expected", "fill-actual"}

Comparison(w) == [item |-> grant[w].item, run |-> grant[w].run]
Side(w) == IF pc[w] \in {"create-expected", "fill-expected"} THEN "expected"
           ELSE "actual"
Path(w) == [name |-> PairName[grant[w].item], side |-> Side(w), suffix |-> suffix[w]]

\* errors.Is(err, os.ErrExist): the next suffix is tried.
SuffixTaken(w) ==
  /\ pc[w] \in Creating /\ Exists(Path(w))
  /\ suffix' = [suffix EXCEPT ![w] = @ + 1]
  /\ UNCHANGED <<schedulerVars, files, fileMu, timed, contexts, pc, err,
                 completedRuns, firstFailure, result>>

CreateFile(w) ==
  /\ pc[w] \in Creating
  /\ pc' = [pc EXCEPT ![w] = IF Side(w) = "expected" THEN "fill-expected"
                             ELSE "fill-actual"]
  /\ CreateExclusive(Path(w))
  /\ UNCHANGED <<schedulerVars, fileMu, suffix, timed, contexts, err, completedRuns,
                 firstFailure, result>>

FillExpected(w) ==
  /\ Goto(w, "fill-expected", "create-actual")
  /\ WriteContent(Path(w), Comparison(w))
  /\ suffix' = [suffix EXCEPT ![w] = 0]
  /\ UNCHANGED <<schedulerVars, fileMu, timed, contexts, err, completedRuns,
                 firstFailure, result>>

FillActual(w) ==
  /\ Goto(w, "fill-actual", "error")
  /\ WriteContent(Path(w), Comparison(w))
  /\ suffix' = [suffix EXCEPT ![w] = 0]
  /\ UnlockFiles
  /\ UNCHANGED <<schedulerVars, timed, contexts, err, completedRuns,
                 firstFailure, result>>

\* A file cannot be created; or it cannot be written or closed, and is removed,
\* unless that fails too.  The error joins the mismatch and skips what is left.
WriteError(w) ==
  /\ \/ pc[w] \in Creating \union Filling /\ UNCHANGED files
     \/ pc[w] \in Filling /\ RemoveFile(Path(w))
  /\ pc' = [pc EXCEPT ![w] = "error"]
  /\ suffix' = [suffix EXCEPT ![w] = 0]
  /\ UnlockFiles
  /\ UNCHANGED <<schedulerVars, timed, contexts, err, completedRuns,
                 firstFailure, result>>

\* Wrong variants: schedulingCtx.Err() is tested; nothing is tested.
InterruptedOnDeadline(w) ==
  /\ SchedulingDone
  /\ Goto(w, "error", "interrupted")
  /\ UNCHANGED <<schedulerVars, disk, timed, contexts, err, completedRuns,
                 firstFailure, result>>

ReportAnyFailure(w) ==
  /\ Goto(w, "error", "failing")
  /\ UNCHANGED <<schedulerVars, disk, timed, contexts, err, completedRuns,
                 firstFailure, result>>

\* workerCtx.Err() != nil: the error is only logged.
Interrupted(w) ==
  /\ WorkerDone
  /\ Goto(w, "error", "interrupted")
  /\ UNCHANGED <<schedulerVars, disk, timed, contexts, err, completedRuns,
                 firstFailure, result>>

ReportFailure(w) ==
  /\ ~WorkerDone
  /\ Goto(w, "error", "failing")
  /\ UNCHANGED <<schedulerVars, disk, timed, contexts, err, completedRuns,
                 firstFailure, result>>

\* failureOnce.Do(...) and the return after it.
FailOnce(w) ==
  /\ Goto(w, "failing", "done")
  /\ firstFailure' = IF stopped THEN firstFailure
                     ELSE [label |-> grant[w], kind |-> err[w]]
  /\ stopped' = TRUE
  /\ UNCHANGED <<schedulerVars, disk, timed, ctxDone, expired, err,
                 completedRuns, result>>

-----------------------------------------------------------------------------
(* The caller and the runtime's timer.                                     *)

CancelCaller ==
  /\ result = "none" /\ ~ctxDone
  /\ ctxDone' = TRUE
  /\ UNCHANGED <<schedulerVars, disk, timed, expired, stopped, pc, err,
                 completedRuns, firstFailure, result>>

Expire ==
  /\ result = "none" /\ timed /\ ~expired
  /\ \E w \in Workers : pc[w] # "unstarted"
  /\ expired' = TRUE
  /\ UNCHANGED <<schedulerVars, disk, timed, ctxDone, stopped, pc, err,
                 completedRuns, firstFailure, result>>

Returned == result # "none" /\ UNCHANGED vars

Worker(w) ==
  \/ LeaveLoop(w) \/ EnterLoop(w) \/ NoMoreRuns(w) \/ StartRun(w)
  \/ ExecuteExpected(w) \/ ExecuteActual(w) \/ ExecuteFails(w)
  \/ Match(w) \/ Mismatch(w)
  \/ AcquireFileMu(w) \/ SuffixTaken(w) \/ CreateFile(w)
  \/ FillExpected(w) \/ FillActual(w) \/ WriteError(w)
  \/ Interrupted(w) \/ ReportFailure(w) \/ FailOnce(w)

Next ==
  \/ RejectConfig \/ StartWorkers \/ Return
  \/ \E w \in Workers : Worker(w)
  \/ CancelCaller \/ Expire \/ Returned

Spec == Init /\ [][Next]_vars

\* As for run-sqls: goroutines are scheduled, the timer of a timed comparison
\* fires, every SQL ends.  The caller need not cancel.
FairSpec ==
  /\ Spec
  /\ WF_vars(RejectConfig \/ StartWorkers \/ Return)
  /\ WF_vars(Expire)
  /\ \A w \in Workers : WF_vars(Worker(w))

-----------------------------------------------------------------------------
TypeOK ==
  /\ SchedulerTypeOK
  /\ timed \in BOOLEAN /\ ctxDone \in BOOLEAN /\ expired \in BOOLEAN
  /\ stopped \in BOOLEAN
  /\ fileMu \in Workers \union {NoWriter}
  /\ pc \in [Workers -> {"unstarted", "select", "next", "expected", "actual",
                         "compare", "lock", "create-expected", "fill-expected",
                         "create-actual", "fill-actual", "error", "failing",
                         "interrupted", "done"}]
  /\ err \in [Workers -> {"none", "sql", "context", "mismatch"}]
  /\ suffix \in [Workers -> Nat]
  /\ completedRuns \in [Items -> Nat]
  /\ firstFailure \in [label : Grants, kind : {"none", "sql", "mismatch", "context"}]
  /\ result \in {"none", "invalid", "canceled", "failed", "success"}

\* compare_results.go:542-544: the failure that is returned is the real one,
\* never the context error of an execution that was interrupted because of it.
FirstFailureIsGenuine == firstFailure.kind # "context"

\* A difference between expected and actual rows, or an SQL error, is never
\* swallowed: whatever stops the workers meanwhile, the task does not succeed.
NoFailureSwallowed ==
  result = "success" => \A w \in Workers : err[w] = "none"

\* Comparisons in progress finish when the duration elapses or the runs are
\* used up (compare_results.go:43-47): a successful task has completed every
\* run it scheduled, and every run the limit asks for if there was no deadline.
SuccessIsComplete ==
  result = "success" =>
    \A p \in Items : /\ completedRuns[p] = runCounts[p]
                     /\ ~expired => runCounts[p] = limit

\* A failure file keeps its rows: no step replaces or removes one, complete or
\* left behind by a failed write, of this process or an earlier one.  Only the
\* file that a worker has just created itself may still be filled or removed,
\* which rests on the suffix search and O_EXCL (compare_results.go:700-709).
FilesKept ==
  [][\A f \in files :
       f \in files' \/ \E w \in Workers : /\ pc[w] \in Filling
                                         /\ f = File(Path(w), Incomplete)]_files

\* Every accepted comparison ends.
Termination == <>(result # "none")
=============================================================================
