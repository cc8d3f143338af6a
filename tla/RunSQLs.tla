------------------------------- MODULE RunSQLs -------------------------------
(***************************************************************************)
(* The concurrent random workload of run-sqls (runSQLWorkload in           *)
(* dbHelper/run_sqls.go): one task goroutine validates the configuration,  *)
(* starts the workers and waits for them; the workers share the random     *)
(* scheduler, the counters and a first failure kept under a sync.Once.     *)
(*                                                                         *)
(* schedulingCtx is derived from schedulingBaseCtx, which is derived from  *)
(* the caller's ctx: it is done when any of the three ends (cancellation   *)
(* reaches derived contexts before cancel() returns, so one step each).    *)
(* What one SQL does on its session is the module SessionPool; here an     *)
(* execution takes any time, returns any row count and may fail.           *)
(***************************************************************************)
EXTENDS RandomScheduler, FiniteSets

CONSTANT MaxRows       \* bound: rows one execution may return

ASSUME RunSQLsAssumption == /\ IsFiniteSet(Clients)
                            /\ Clients # {}
                            /\ MaxRows \in Nat

VARIABLES
  timed,          \* runSQLRunDuration > 0
  ignoreErrors,   \* runSQLIgnoreErrors
  ctxDone,        \* the caller's ctx has been canceled
  expired,        \* the timeout of schedulingCtx has fired
  stopped,        \* stopScheduling() has been called
  pc,             \* where each worker goroutine is
  succeededRuns, failedRuns, returnedRows,  \* one counter per statement
  totalFailures,
  firstFailure,   \* the label of the failure kept by failureOnce, or NoGrant
  result          \* what runSQLWorkload returned

config   == <<timed, ignoreErrors>>
contexts == <<ctxDone, expired, stopped>>
counters == <<succeededRuns, failedRuns, returnedRows, totalFailures>>
vars == <<schedulerVars, config, contexts, pc, counters, firstFailure, result>>

Workers == Clients

SchedulingDone == ctxDone \/ expired \/ stopped

\* The part of validateRunSQLConfig that depends on the explored settings; the
\* other rejected settings (no case, no worker) are excluded by assumption.
ValidConfig == timed \/ limit > 0

Init ==
  /\ SchedulerInit
  /\ timed \in BOOLEAN
  /\ ignoreErrors \in BOOLEAN
  /\ ctxDone = FALSE /\ expired = FALSE /\ stopped = FALSE
  /\ pc = [w \in Workers |-> "unstarted"]
  /\ succeededRuns = [s \in Items |-> 0]
  /\ failedRuns = [s \in Items |-> 0]
  /\ returnedRows = [s \in Items |-> 0]
  /\ totalFailures = 0
  /\ firstFailure = NoGrant
  /\ result = "none"

Goto(w, from, to) == pc[w] = from /\ pc' = [pc EXCEPT ![w] = to]

-----------------------------------------------------------------------------
(* The task goroutine.                                                     *)

RejectConfig ==
  /\ result = "none"
  /\ \A w \in Workers : pc[w] = "unstarted"
  /\ ~ValidConfig
  /\ result' = "invalid"
  /\ UNCHANGED <<schedulerVars, config, contexts, pc, counters, firstFailure>>

StartWorkers ==
  /\ result = "none"
  /\ \A w \in Workers : pc[w] = "unstarted"
  /\ ValidConfig
  /\ pc' = [w \in Workers |-> "select"]
  /\ UNCHANGED <<schedulerVars, config, contexts, counters, firstFailure, result>>

\* Wrong variant: firstFailure is not looked at.
OutcomeWithoutFailure == IF ctxDone THEN "canceled"
                         ELSE IF totalFailures > 0 THEN "ignored-errors"
                         ELSE "success"

\* wg.Wait() and the returns below it, in their order.
Outcome == IF ctxDone THEN "canceled"
           ELSE IF firstFailure # NoGrant THEN "failed"
           ELSE IF totalFailures > 0 THEN "ignored-errors" ELSE "success"

Return ==
  /\ result = "none"
  /\ \A w \in Workers : pc[w] \in {"done", "interrupted"}
  /\ result' = Outcome
  /\ UNCHANGED <<schedulerVars, config, contexts, pc, counters, firstFailure>>

-----------------------------------------------------------------------------
(* One worker goroutine.                                                   *)

\* Wrong variant: the select waits for the caller's context.
LeaveLoopOnCancel(w) ==
  /\ ctxDone
  /\ Goto(w, "select", "done")
  /\ UNCHANGED <<schedulerVars, config, contexts, counters, firstFailure, result>>

\* The select on schedulingCtx.Done().  MaxRuns bounds the exploration of a
\* workload that only the duration limits.
LeaveLoop(w) ==
  /\ SchedulingDone
  /\ Goto(w, "select", "done")
  /\ UNCHANGED <<schedulerVars, config, contexts, counters, firstFailure, result>>

EnterLoop(w) ==
  /\ ~SchedulingDone
  /\ limit > 0 \/ \A s \in Items : runCounts[s] < MaxRuns
  /\ Goto(w, "select", "next")
  /\ UNCHANGED <<schedulerVars, config, contexts, counters, firstFailure, result>>

NoMoreRuns(w) ==
  /\ Goto(w, "next", "done")
  /\ Exhausted(w)
  /\ UNCHANGED <<config, contexts, counters, firstFailure, result>>

StartRun(w) ==
  /\ Goto(w, "next", "executing")
  /\ \E k \in 1..Len(available) : Take(w, k)
  /\ UNCHANGED <<config, contexts, counters, firstFailure, result>>

\* Wrong variant: the context is looked at before the first run only.
SucceedWithoutSelect(w) ==
  /\ Goto(w, "executing", "next")
  /\ succeededRuns' = [succeededRuns EXCEPT ![grant[w].item] = @ + 1]
  /\ UNCHANGED <<schedulerVars, config, contexts, failedRuns, returnedRows,
                 totalFailures, firstFailure, result>>

Succeed(w) ==
  /\ Goto(w, "executing", "select")
  /\ succeededRuns' = [succeededRuns EXCEPT ![grant[w].item] = @ + 1]
  /\ \E n \in 0..MaxRows :
       returnedRows' = [returnedRows EXCEPT ![grant[w].item] = @ + n]
  /\ UNCHANGED <<schedulerVars, config, contexts, failedRuns, totalFailures,
                 firstFailure, result>>

\* execute() returned an error: its own, or ctx's when ctx is done.
ExecuteFails(w) ==
  /\ Goto(w, "executing", "error")
  /\ UNCHANGED <<schedulerVars, config, contexts, counters, firstFailure, result>>

\* Wrong variant: schedulingCtx.Err() is tested.
InterruptedOnStop(w) ==
  /\ SchedulingDone
  /\ Goto(w, "error", "interrupted")
  /\ UNCHANGED <<schedulerVars, config, contexts, counters, firstFailure, result>>

\* ctx.Err() != nil: the run is logged as stopped and counted nowhere.
Interrupted(w) ==
  /\ ctxDone
  /\ Goto(w, "error", "interrupted")
  /\ UNCHANGED <<schedulerVars, config, contexts, counters, firstFailure, result>>

\* Wrong variant: the loop continues whatever runSQLIgnoreErrors says.
CountFailureAndContinue(w) ==
  /\ ~ctxDone
  /\ Goto(w, "error", "select")
  /\ failedRuns' = [failedRuns EXCEPT ![grant[w].item] = @ + 1]
  /\ totalFailures' = totalFailures + 1
  /\ UNCHANGED <<schedulerVars, config, contexts, succeededRuns, returnedRows,
                 firstFailure, result>>

CountFailure(w) ==
  /\ ~ctxDone
  /\ Goto(w, "error", IF ignoreErrors THEN "select" ELSE "failing")
  /\ failedRuns' = [failedRuns EXCEPT ![grant[w].item] = @ + 1]
  /\ totalFailures' = totalFailures + 1
  /\ \E n \in 0..MaxRows :
       returnedRows' = [returnedRows EXCEPT ![grant[w].item] = @ + n]
  /\ UNCHANGED <<schedulerVars, config, contexts, succeededRuns, firstFailure,
                 result>>

\* failureOnce.Do(...) and the return after it.
FailOnce(w) ==
  /\ Goto(w, "failing", "done")
  /\ firstFailure' = IF stopped THEN firstFailure ELSE grant[w]
  /\ stopped' = TRUE
  /\ UNCHANGED <<schedulerVars, config, ctxDone, expired, counters, result>>

-----------------------------------------------------------------------------
(* The caller and the runtime's timer.                                     *)

CancelCaller ==
  /\ result = "none" /\ ~ctxDone
  /\ ctxDone' = TRUE
  /\ UNCHANGED <<schedulerVars, config, expired, stopped, pc, counters,
                 firstFailure, result>>

Expire ==
  /\ result = "none" /\ timed /\ ~expired
  /\ \E w \in Workers : pc[w] # "unstarted"
  /\ expired' = TRUE
  /\ UNCHANGED <<schedulerVars, config, ctxDone, stopped, pc, counters,
                 firstFailure, result>>

\* The task has returned; nothing else happens.
Returned == result # "none" /\ UNCHANGED vars

Worker(w) ==
  \/ LeaveLoop(w) \/ EnterLoop(w) \/ NoMoreRuns(w) \/ StartRun(w)
  \/ Succeed(w) \/ ExecuteFails(w)
  \/ Interrupted(w) \/ CountFailure(w) \/ FailOnce(w)

Next ==
  \/ RejectConfig \/ StartWorkers \/ Return
  \/ \E w \in Workers : Worker(w)
  \/ CancelCaller \/ Expire \/ Returned

Spec == Init /\ [][Next]_vars

\* Goroutines are scheduled, the timer of a timed workload fires, and every
\* execution ends: nothing in the code bounds it, but no SQL runs for ever.
\* The caller need not cancel.
FairSpec ==
  /\ Spec
  /\ WF_vars(RejectConfig \/ StartWorkers \/ Return)
  /\ WF_vars(Expire)
  /\ \A w \in Workers : WF_vars(Worker(w))

-----------------------------------------------------------------------------
TypeOK ==
  /\ SchedulerTypeOK
  /\ timed \in BOOLEAN /\ ignoreErrors \in BOOLEAN
  /\ ctxDone \in BOOLEAN /\ expired \in BOOLEAN /\ stopped \in BOOLEAN
  /\ pc \in [Workers -> {"unstarted", "select", "next", "executing", "error",
                         "failing", "interrupted", "done"}]
  /\ succeededRuns \in [Items -> Nat]
  /\ failedRuns \in [Items -> Nat]
  /\ returnedRows \in [Items -> Nat]
  /\ totalFailures \in Nat
  /\ firstFailure \in Grants
  /\ result \in {"none", "invalid", "canceled", "failed", "ignored-errors",
                 "success"}

\* The summary printed by runSQLWorkload adds up: every scheduled run of a
\* statement was counted as a success or as a failure, is still in flight, or
\* was interrupted by the caller's cancellation.  Only rows of counted runs
\* are added up.
Unaccounted(s) == {w \in Workers : /\ pc[w] \in {"executing", "error", "interrupted"}
                                   /\ grant[w].item = s}
RunsAccounted ==
  /\ \A s \in Items : runCounts[s] = succeededRuns[s] + failedRuns[s]
                                       + Cardinality(Unaccounted(s))
  /\ (\E w \in Workers : pc[w] = "interrupted") => ctxDone
  /\ \A s \in Items : returnedRows[s] <= MaxRows * (succeededRuns[s] + failedRuns[s])

\* Without runSQLIgnoreErrors a worker returns after its first failure, so the
\* workload counts at most one failure per worker, and the failure it returns
\* is one of those it counted.
FailFast ==
  ~ignoreErrors =>
    /\ totalFailures <= Cardinality(Workers)
    /\ firstFailure # NoGrant => /\ stopped
                                 /\ firstFailure.item \in Items
                                 /\ failedRuns[firstFailure.item] > 0

\* What the task returns is what happened: no failure is reported as success
\* unless errors are ignored, a returned failure is a real one, and a workload
\* that ends without a deadline has run every statement to its limit.
OutcomeTruthful ==
  /\ result = "success" => totalFailures = 0
  /\ result = "failed" => ~ignoreErrors /\ totalFailures > 0
  /\ result = "ignored-errors" => ignoreErrors /\ totalFailures > 0
  /\ (result \in {"success", "ignored-errors"} /\ ~expired) =>
        \A s \in Items : succeededRuns[s] + failedRuns[s] = limit

\* failureOnce keeps the first failure: a later one never replaces it.
FirstFailureKept == [][firstFailure # NoGrant => firstFailure' = firstFailure]_vars

\* Once scheduling has ended (deadline, failure or cancellation), a worker that
\* is past its select may still start one run, and never a second one.
AtMostOneLateRun ==
  \A w \in Workers :
    []((SchedulingDone /\ pc[w] # "next") => [](pc[w] # "next"))

\* Every accepted workload ends: the deadline, the limit, a failure or a
\* cancellation makes all workers return and the task with them.
Termination == <>(result # "none")
=============================================================================
