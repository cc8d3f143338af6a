--------------------------- MODULE RunSQLs_proofs ---------------------------
(***************************************************************************)
(* The run-sqls workload, for any number of workers and statements and any *)
(* limit: its types, its accounting and the truth of what it returns.      *)
(***************************************************************************)
EXTENDS RunSQLs, RandomScheduler_proofs, FiniteSetTheorems

\* A worker past scheduler.next() holds the statement it was given.
HoldsGrant ==
  \A w \in Workers : pc[w] \in {"executing", "error", "interrupted", "failing"}
                       => grant[w].item \in Items

\* Where a failure is recorded between the counters and firstFailure.
FailureRecorded ==
  /\ stopped <=> firstFailure # NoGrant
  /\ ignoreErrors => ~stopped /\ \A w \in Workers : pc[w] # "failing"
  /\ stopped => /\ firstFailure.item \in Items
                /\ failedRuns[firstFailure.item] > 0
                /\ totalFailures > 0
  /\ \A w \in Workers : pc[w] = "failing" =>
       failedRuns[grant[w].item] > 0 /\ totalFailures > 0
  /\ (~ignoreErrors /\ totalFailures > 0) =>
       stopped \/ \E w \in Workers : pc[w] = "failing"

\* A failure that is not ignored costs the workload a worker.
Retired == {w \in Workers : pc[w] \in {"failing", "done"}}
FailuresRetire == ~ignoreErrors => totalFailures <= Cardinality(Retired)

\* A worker returns because scheduling has ended or nothing is left to run.
DoneForReason ==
  \A w \in Workers : pc[w] = "done" => SchedulingDone \/ Len(available) = 0

\* The task returns after its workers.
ReturnsLast ==
  /\ result \notin {"none", "invalid"} =>
       \A w \in Workers : pc[w] \in {"done", "interrupted"}
  /\ result = "invalid" => \A w \in Workers : pc[w] = "unstarted"

IInv == /\ TypeOK
        /\ SchedulerInv
        /\ HoldsGrant
        /\ RunsAccounted
        /\ FailureRecorded
        /\ FailuresRetire
        /\ DoneForReason
        /\ ReturnsLast
        /\ OutcomeTruthful

-----------------------------------------------------------------------------
\* Every step of the workload is a call of next() or leaves the scheduler alone.
LEMMA SchedulerSteps ==
  ASSUME [Next]_vars
  PROVE  \/ UNCHANGED schedulerVars
         \/ \E w \in Clients : Exhausted(w)
         \/ \E w \in Clients : \E k \in 1..Len(available) : Take(w, k)
BY DEF Next, vars, RejectConfig, StartWorkers, Return, Worker, LeaveLoop,
       EnterLoop, NoMoreRuns, StartRun, Succeed, ExecuteFails, Interrupted,
       CountFailure, FailOnce, CancelCaller, Expire, Returned, Workers

\* The workload keeps the scheduler's invariant.
LEMMA SchedulerInvStep == ASSUME SchedulerInv, [Next]_vars PROVE SchedulerInv'
BY SchedulerSteps, StutterInv, ExhaustedInv, TakeInv

\* NoGrant stands for no item.
LEMMA NoGrantItem == NoGrant.item \notin Items /\ Nothing.item \notin Items
BY DEF NoGrant, Nothing, Items

\* Every step keeps the types.
LEMMA TypeStep == ASSUME TypeOK, SchedulerInv, HoldsGrant, [Next]_vars
                  PROVE  TypeOK'
<1>1. SchedulerTypeOK'
  BY SchedulerInvStep DEF SchedulerInv
<1> USE <1>1, RunSQLsAssumption DEF TypeOK, Workers
<1>2. CASE RejectConfig
  BY <1>2 DEF RejectConfig, config, contexts, counters
<1>3. CASE StartWorkers
  BY <1>3 DEF StartWorkers, config, contexts, counters
<1>4. CASE Return
  BY <1>4 DEF Return, Outcome, config, contexts, counters
<1>5. ASSUME NEW w \in Workers, Worker(w) PROVE TypeOK'
  <2> USE DEF Goto, config, contexts, counters
  <2>1. CASE LeaveLoop(w)
    BY <2>1 DEF LeaveLoop
  <2>2. CASE EnterLoop(w)
    BY <2>2 DEF EnterLoop
  <2>3. CASE NoMoreRuns(w)
    BY <2>3 DEF NoMoreRuns
  <2>4. CASE StartRun(w)
    BY <2>4 DEF StartRun
  <2>5. CASE Succeed(w)
    <3>1. grant[w].item \in Items
      BY <2>5 DEF Succeed, HoldsGrant
    <3> QED BY <2>5, <3>1 DEF Succeed
  <2>6. CASE ExecuteFails(w)
    BY <2>6 DEF ExecuteFails
  <2>7. CASE Interrupted(w)
    BY <2>7 DEF Interrupted
  <2>8. CASE CountFailure(w)
    <3>1. grant[w].item \in Items
      BY <2>8 DEF CountFailure, HoldsGrant
    <3> QED BY <2>8, <3>1 DEF CountFailure
  <2>9. CASE FailOnce(w)
    BY <2>9 DEF FailOnce, SchedulerTypeOK
  <2> QED BY <1>5, <2>1, <2>2, <2>3, <2>4, <2>5, <2>6, <2>7, <2>8, <2>9 DEF Worker
<1>6. CASE CancelCaller
  BY <1>6 DEF CancelCaller, config, counters
<1>7. CASE Expire
  BY <1>7 DEF Expire, config, counters
<1>8. CASE UNCHANGED vars
  BY <1>8 DEF vars, config, contexts, counters
<1> QED BY <1>2, <1>3, <1>4, <1>5, <1>6, <1>7, <1>8 DEF Next, Returned

\* A worker keeps the grant of its run until the run ends.
LEMMA HoldsGrantStep == ASSUME TypeOK, SchedulerInv, HoldsGrant, [Next]_vars
                        PROVE  HoldsGrant'
<1> USE DEF HoldsGrant, Workers
<1>1. ASSUME NEW w \in Workers, StartRun(w) PROVE HoldsGrant'
  <2>1. PICK k \in 1..Len(available) : Take(w, k)
    BY <1>1 DEF StartRun
  <2>2. /\ grant' = [grant EXCEPT ![w] = [item |-> available[k],
                       run |-> runCounts[available[k]] + 1, ok |-> TRUE]]
        /\ available[k] \in Items
    BY <2>1 DEF Take, TypeOK, SchedulerTypeOK
  <2>3. grant'[w].item \in Items /\ \A v \in Workers \ {w} : grant'[v] = grant[v]
    BY <2>2 DEF TypeOK, SchedulerTypeOK
  <2>4. \A v \in Workers \ {w} : pc'[v] = pc[v]
    BY <1>1 DEF StartRun, Goto, TypeOK
  <2> QED BY <2>3, <2>4
<1>2. ASSUME NEW w \in Workers, NoMoreRuns(w) PROVE HoldsGrant'
  <2>1. /\ pc'[w] = "done" /\ \A v \in Workers \ {w} : pc'[v] = pc[v]
        /\ \A v \in Workers \ {w} : grant'[v] = grant[v]
    BY <1>2 DEF NoMoreRuns, Exhausted, Goto, TypeOK, SchedulerTypeOK
  <2> QED BY <2>1
<1>3. CASE UNCHANGED grant
  <2> USE <1>3 DEF TypeOK
  <2>1. ASSUME NEW w \in Workers, Worker(w) PROVE HoldsGrant'
    BY <2>1, <1>1, <1>2 DEF Worker, LeaveLoop, EnterLoop, Succeed, ExecuteFails,
       Interrupted, CountFailure, FailOnce, Goto
  <2> QED BY <2>1 DEF Next, vars, RejectConfig, StartWorkers, Return, CancelCaller,
       Expire, Returned
<1> QED BY <1>1, <1>2, <1>3 DEF Next, vars, RejectConfig, StartWorkers, Return, Worker,
     LeaveLoop, EnterLoop, Succeed, ExecuteFails, Interrupted, CountFailure,
     FailOnce, CancelCaller, Expire, Returned, schedulerVars

-----------------------------------------------------------------------------
(* Accounting.                                                             *)

\* Any set of workers is finite, and so has a number of elements.
LEMMA WorkerSetCardinality ==
  ASSUME NEW T \in SUBSET Workers
  PROVE  IsFiniteSet(T) /\ Cardinality(T) \in Nat
BY RunSQLsAssumption, FS_Subset, FS_CardinalityType DEF Workers

\* Starting a run: the scheduler's count and the runs in flight grow together.
LEMMA StartRunAccounts ==
  ASSUME IInv, TypeOK', NEW w \in Workers, StartRun(w)
  PROVE  RunsAccounted'
<1> USE DEF Workers
<1>1. PICK k \in 1..Len(available) : Take(w, k)
  BY DEF StartRun
<1> DEFINE i == available[k]
<1>2. /\ i \in Items /\ runCounts[i] \in Nat
      /\ runCounts' = [runCounts EXCEPT ![i] = runCounts[i] + 1]
      /\ grant' = [grant EXCEPT ![w] = [item |-> i, run |-> runCounts[i] + 1, ok |-> TRUE]]
  BY <1>1 DEF Take, IInv, TypeOK, SchedulerTypeOK
<1>3. /\ grant'[w].item = i
      /\ \A v \in Workers \ {w} : grant'[v] = grant[v]
      /\ pc[w] = "next" /\ pc'[w] = "executing"
      /\ \A v \in Workers \ {w} : pc'[v] = pc[v]
  BY <1>2 DEF StartRun, Goto, IInv, TypeOK, SchedulerTypeOK
<1>4. UNCHANGED <<succeededRuns, failedRuns, returnedRows, totalFailures, ctxDone>>
  BY DEF StartRun, counters, contexts
<1>5. ASSUME NEW s \in Items
      PROVE  runCounts'[s] = succeededRuns'[s] + failedRuns'[s] + Cardinality(Unaccounted(s)')
  <2>1. /\ succeededRuns[s] \in Nat /\ failedRuns[s] \in Nat /\ runCounts[s] \in Nat
        /\ runCounts[s] = succeededRuns[s] + failedRuns[s] + Cardinality(Unaccounted(s))
        /\ IsFiniteSet(Unaccounted(s)) /\ Cardinality(Unaccounted(s)) \in Nat
    BY WorkerSetCardinality DEF IInv, TypeOK, SchedulerTypeOK, RunsAccounted, Unaccounted
  <2>2. w \notin Unaccounted(s)
    BY <1>3 DEF Unaccounted
  <2>3. CASE s = i
    <3>1. Unaccounted(s)' = Unaccounted(s) \union {w}
      BY <1>3, <2>3 DEF Unaccounted
    <3>2. Cardinality(Unaccounted(s)') = Cardinality(Unaccounted(s)) + 1
      BY <3>1, <2>1, <2>2, FS_AddElement
    <3>3. runCounts'[s] = runCounts[s] + 1
      BY <1>2, <2>3 DEF IInv, TypeOK, SchedulerTypeOK
    <3> QED BY <3>2, <3>3, <2>1, <1>4
  <2>4. CASE s # i
    <3>1. Unaccounted(s)' = Unaccounted(s)
      BY <1>3, <2>4 DEF Unaccounted
    <3>2. runCounts'[s] = runCounts[s]
      BY <1>2, <2>4 DEF IInv, TypeOK, SchedulerTypeOK
    <3> QED BY <3>1, <3>2, <2>1, <1>4
  <2> QED BY <2>3, <2>4
<1>6. (\E v \in Workers : pc'[v] = "interrupted") => ctxDone'
  BY <1>3, <1>4 DEF IInv, RunsAccounted
<1>7. \A s \in Items : returnedRows'[s] <= MaxRows * (succeededRuns'[s] + failedRuns'[s])
  BY <1>4 DEF IInv, RunsAccounted
<1> QED BY <1>5, <1>6, <1>7 DEF RunsAccounted

\* Ending a run: it moves from the runs in flight to one of the two counters.
LEMMA EndRunAccounts ==
  ASSUME IInv, NEW w \in Workers, pc[w] \in {"executing", "error"},
         NEW to, to \notin {"executing", "error", "interrupted"},
         pc' = [pc EXCEPT ![w] = to],
         UNCHANGED <<runCounts, grant, ctxDone>>,
         NEW n \in 0..MaxRows,
         returnedRows' = [returnedRows EXCEPT ![grant[w].item] = @ + n],
         \/ /\ succeededRuns' = [succeededRuns EXCEPT ![grant[w].item] = @ + 1]
            /\ UNCHANGED failedRuns
         \/ /\ failedRuns' = [failedRuns EXCEPT ![grant[w].item] = @ + 1]
            /\ UNCHANGED succeededRuns
  PROVE  RunsAccounted'
<1> DEFINE i == grant[w].item
<1> USE DEF Workers
<1>1. /\ i \in Items
      /\ pc'[w] = to /\ \A v \in Workers \ {w} : pc'[v] = pc[v]
  BY DEF IInv, HoldsGrant, TypeOK
<1>2. ASSUME NEW s \in Items
      PROVE  /\ runCounts'[s] = succeededRuns'[s] + failedRuns'[s] + Cardinality(Unaccounted(s)')
             /\ returnedRows'[s] <= MaxRows * (succeededRuns'[s] + failedRuns'[s])
  <2>1. /\ succeededRuns[s] \in Nat /\ failedRuns[s] \in Nat /\ runCounts[s] \in Nat
        /\ returnedRows[s] \in Nat /\ MaxRows \in Nat /\ n \in Nat /\ n <= MaxRows
        /\ runCounts[s] = succeededRuns[s] + failedRuns[s] + Cardinality(Unaccounted(s))
        /\ returnedRows[s] <= MaxRows * (succeededRuns[s] + failedRuns[s])
        /\ IsFiniteSet(Unaccounted(s)) /\ Cardinality(Unaccounted(s)) \in Nat
    <3>1. /\ runCounts[s] = succeededRuns[s] + failedRuns[s] + Cardinality(Unaccounted(s))
          /\ returnedRows[s] <= MaxRows * (succeededRuns[s] + failedRuns[s])
      BY DEF IInv, RunsAccounted
    <3>2. IsFiniteSet(Unaccounted(s)) /\ Cardinality(Unaccounted(s)) \in Nat
      BY WorkerSetCardinality DEF Unaccounted
    <3>3. /\ succeededRuns[s] \in Nat /\ failedRuns[s] \in Nat /\ runCounts[s] \in Nat
          /\ returnedRows[s] \in Nat /\ MaxRows \in Nat /\ n \in Nat /\ n <= MaxRows
      BY RunSQLsAssumption DEF IInv, TypeOK, SchedulerTypeOK
    <3> QED BY <3>1, <3>2, <3>3
  <2>2. CASE s = i
    <3>1. Unaccounted(s)' = Unaccounted(s) \ {w} /\ w \in Unaccounted(s)
      BY <1>1, <2>2 DEF Unaccounted
    <3>2. Cardinality(Unaccounted(s)') = Cardinality(Unaccounted(s)) - 1
      BY <3>1, <2>1, FS_RemoveElement
    <3>3. /\ succeededRuns'[s] \in Nat /\ failedRuns'[s] \in Nat
          /\ succeededRuns'[s] + failedRuns'[s] = succeededRuns[s] + failedRuns[s] + 1
      BY <1>1, <2>1, <2>2 DEF IInv, TypeOK
    <3>4. returnedRows'[s] = returnedRows[s] + n
      BY <1>1, <2>1, <2>2 DEF IInv, TypeOK
    <3>5. MaxRows * (succeededRuns[s] + failedRuns[s] + 1)
            = MaxRows * (succeededRuns[s] + failedRuns[s]) + MaxRows
      BY <2>1
    <3>6. returnedRows'[s] <= MaxRows * (succeededRuns'[s] + failedRuns'[s])
      <4> DEFINE d == succeededRuns[s] + failedRuns[s]
                 m == MaxRows * d
      <4>1. m \in Nat /\ returnedRows[s] <= m
        BY <2>1
      <4>2. MaxRows * (succeededRuns'[s] + failedRuns'[s]) = m + MaxRows
        BY <3>3, <3>5
      <4> HIDE DEF m
      <4> QED BY <4>1, <4>2, <3>4, <2>1
    <3>7. runCounts'[s] = succeededRuns'[s] + failedRuns'[s] + Cardinality(Unaccounted(s)')
      BY <3>2, <3>3, <2>1
    <3> QED BY <3>6, <3>7
  <2>3. CASE s # i
    <3>1. Unaccounted(s)' = Unaccounted(s)
      BY <1>1, <2>3 DEF Unaccounted
    <3>2. /\ succeededRuns'[s] = succeededRuns[s] /\ failedRuns'[s] = failedRuns[s]
          /\ returnedRows'[s] = returnedRows[s]
      BY <1>1, <2>3 DEF IInv, TypeOK
    <3> QED BY <3>1, <3>2, <2>1
  <2> QED BY <2>2, <2>3
<1>3. (\E v \in Workers : pc'[v] = "interrupted") => ctxDone'
  BY <1>1 DEF IInv, RunsAccounted
<1> QED BY <1>2, <1>3 DEF RunsAccounted

\* A step that keeps the grants, the counters and the runs in flight.
LEMMA QuietAccounts ==
  ASSUME IInv, \A v \in Workers : pc[v] \in {"executing", "error", "interrupted"}
                                   <=> pc'[v] \in {"executing", "error", "interrupted"},
         \A v \in Workers : pc'[v] = "interrupted" => pc[v] = "interrupted" \/ ctxDone,
         ctxDone => ctxDone',
         UNCHANGED <<runCounts, counters>>,
         \A v \in Workers : pc[v] \in {"executing", "error", "interrupted"}
                               => grant'[v] = grant[v]
  PROVE  RunsAccounted'
<1>1. \A s \in Items : Unaccounted(s)' = Unaccounted(s)
  BY DEF Unaccounted, Workers
<1> QED BY <1>1 DEF IInv, RunsAccounted, counters, Workers

\* Every step keeps the accounting.
LEMMA AccountingStep == ASSUME IInv, [Next]_vars PROVE RunsAccounted'
<1>1. TypeOK'
  BY TypeStep DEF IInv
<1>2. ASSUME NEW w \in Workers, Worker(w) PROVE RunsAccounted'
  <2> USE DEF Goto, contexts, Workers
  <2>0. pc = [v \in Workers |-> pc[v]]
    BY DEF IInv, TypeOK
  <2>1. CASE LeaveLoop(w)
    BY <2>0, <2>1, QuietAccounts DEF LeaveLoop, schedulerVars
  <2>2. CASE EnterLoop(w)
    BY <2>0, <2>2, QuietAccounts DEF EnterLoop, schedulerVars
  <2>3. CASE NoMoreRuns(w)
    <3>1. /\ pc[w] = "next" /\ pc'[w] = "done"
          /\ \A v \in Workers \ {w} : pc'[v] = pc[v] /\ grant'[v] = grant[v]
      BY <2>3 DEF NoMoreRuns, Exhausted, IInv, TypeOK, SchedulerTypeOK
    <3> QED BY <2>3, <3>1, QuietAccounts DEF NoMoreRuns, Exhausted
  <2>4. CASE StartRun(w)
    BY <2>4, <1>1, StartRunAccounts
  <2>5. CASE Succeed(w)
    <3>1. PICK n \in 0..MaxRows :
            returnedRows' = [returnedRows EXCEPT ![grant[w].item] = @ + n]
      BY <2>5 DEF Succeed
    <3> QED BY <2>5, <3>1, EndRunAccounts DEF Succeed, schedulerVars
  <2>6. CASE ExecuteFails(w)
    BY <2>0, <2>6, QuietAccounts DEF ExecuteFails, schedulerVars
  <2>7. CASE Interrupted(w)
    BY <2>0, <2>7, QuietAccounts DEF Interrupted, schedulerVars
  <2>8. CASE CountFailure(w)
    <3>1. PICK n \in 0..MaxRows :
            returnedRows' = [returnedRows EXCEPT ![grant[w].item] = @ + n]
      BY <2>8 DEF CountFailure
    <3>2. PICK to \in {"select", "failing"} : pc' = [pc EXCEPT ![w] = to]
      BY <2>8 DEF CountFailure
    <3> QED BY <2>8, <3>1, <3>2, EndRunAccounts DEF CountFailure, schedulerVars
  <2>9. CASE FailOnce(w)
    BY <2>0, <2>9, QuietAccounts DEF FailOnce, schedulerVars
  <2> QED BY <1>2, <2>1, <2>2, <2>3, <2>4, <2>5, <2>6, <2>7, <2>8, <2>9 DEF Worker
<1>3. CASE UNCHANGED vars
  BY <1>3, QuietAccounts DEF vars, schedulerVars, contexts
<1>4. CASE RejectConfig \/ Return \/ CancelCaller \/ Expire
  BY <1>4, QuietAccounts DEF RejectConfig, Return, CancelCaller, Expire, schedulerVars,
     contexts
<1>5. CASE StartWorkers
  BY <1>5, QuietAccounts DEF StartWorkers, schedulerVars, contexts, Workers
<1> QED BY <1>2, <1>3, <1>4, <1>5 DEF Next, Returned

-----------------------------------------------------------------------------
(* Failures and the returned outcome.                                      *)

\* Every step keeps the record of failures.
LEMMA FailureStep == ASSUME IInv, TypeOK', [Next]_vars PROVE FailureRecorded'
<1> USE DEF Workers, FailureRecorded
<1>1. ASSUME NEW w \in Workers, Worker(w) PROVE FailureRecorded'
  <2> USE DEF Goto, config, contexts, counters
  <2>0. pc = [v \in Workers |-> pc[v]] /\ totalFailures \in Nat
    BY DEF IInv, TypeOK
  <2>1. CASE \/ LeaveLoop(w) \/ EnterLoop(w) \/ ExecuteFails(w) \/ Interrupted(w)
    BY <2>0, <2>1 DEF IInv, LeaveLoop, EnterLoop, ExecuteFails, Interrupted, schedulerVars
  <2>2. CASE NoMoreRuns(w)
    <3>1. /\ pc[w] = "next" /\ pc'[w] = "done"
          /\ \A v \in Workers \ {w} : pc'[v] = pc[v] /\ grant'[v] = grant[v]
      BY <2>2 DEF NoMoreRuns, Exhausted, IInv, TypeOK, SchedulerTypeOK
    <3> QED BY <2>2, <3>1 DEF IInv, NoMoreRuns
  <2>3. CASE StartRun(w)
    <3>1. /\ pc[w] = "next" /\ pc'[w] = "executing"
          /\ \A v \in Workers \ {w} : pc'[v] = pc[v] /\ grant'[v] = grant[v]
      BY <2>3 DEF StartRun, Take, IInv, TypeOK, SchedulerTypeOK
    <3> QED BY <2>3, <3>1 DEF IInv, StartRun
  <2>4. CASE Succeed(w)
    BY <2>0, <2>4 DEF IInv, Succeed, schedulerVars
  <2>5. CASE CountFailure(w)
    <3> DEFINE i == grant[w].item
    <3>1. i \in Items /\ \A s \in Items : failedRuns[s] \in Nat
      BY <2>5 DEF IInv, CountFailure, HoldsGrant, TypeOK
    <3>2. /\ \A s \in Items : failedRuns[s] > 0 => failedRuns'[s] > 0
          /\ failedRuns'[i] > 0 /\ totalFailures' > 0
          /\ UNCHANGED <<grant, stopped, firstFailure, ignoreErrors>>
      BY <2>0, <2>5, <3>1 DEF CountFailure, IInv, TypeOK, schedulerVars
    <3>3. \A v \in Workers : pc[v] = "failing" => grant[v].item \in Items
      BY DEF IInv, HoldsGrant
    <3>4. /\ pc[w] = "error" /\ pc'[w] = IF ignoreErrors THEN "select" ELSE "failing"
          /\ \A v \in Workers \ {w} : pc'[v] = pc[v]
      BY <2>0, <2>5 DEF CountFailure
    <3> HIDE DEF i
    <3>5. \A v \in Workers : pc'[v] = "failing" => failedRuns'[grant'[v].item] > 0
      BY <3>2, <3>3, <3>4 DEF IInv, i
    <3>6. ~ignoreErrors => pc'[w] = "failing"
      BY <3>4
    <3> QED BY <3>2, <3>4, <3>5, <3>6 DEF IInv
  <2>6. CASE FailOnce(w)
    <3>1. /\ pc[w] = "failing" /\ stopped' = TRUE /\ pc'[w] = "done"
          /\ \A v \in Workers \ {w} : pc'[v] = pc[v]
          /\ firstFailure' = IF stopped THEN firstFailure ELSE grant[w]
          /\ UNCHANGED <<grant, failedRuns, totalFailures, ignoreErrors>>
      BY <2>0, <2>6 DEF FailOnce, schedulerVars
    <3>2. grant[w].item \in Items /\ failedRuns[grant[w].item] > 0 /\ totalFailures > 0
      BY <3>1 DEF IInv, HoldsGrant
    <3>3. ~ignoreErrors
      BY <3>1 DEF IInv
    <3>4. firstFailure'.item \in Items /\ failedRuns[firstFailure'.item] > 0
      BY <3>1, <3>2 DEF IInv
    <3>5. firstFailure' # NoGrant
      BY <3>4, NoGrantItem
    <3> QED BY <3>1, <3>2, <3>3, <3>4, <3>5 DEF IInv
  <2> QED BY <1>1, <2>1, <2>2, <2>3, <2>4, <2>5, <2>6 DEF Worker
<1>2. CASE StartWorkers
  BY <1>2 DEF IInv, StartWorkers, config, contexts, counters
<1>3. CASE RejectConfig \/ Return \/ CancelCaller \/ Expire
  BY <1>3 DEF IInv, RejectConfig, Return, CancelCaller, Expire, config, contexts,
     counters, schedulerVars
<1>4. CASE UNCHANGED vars
  BY <1>4 DEF IInv, vars, config, contexts, counters, schedulerVars
<1> QED BY <1>1, <1>2, <1>3, <1>4 DEF Next, Returned

\* A step that retires no worker anew and counts no failure.
LEMMA RetiredGrows ==
  ASSUME IInv, Retired \subseteq Retired', UNCHANGED <<totalFailures, ignoreErrors>>
  PROVE  FailuresRetire'
<1>1. Retired' \in SUBSET Workers
  BY DEF Retired, Workers
<1>2. IsFiniteSet(Retired') /\ Cardinality(Retired') \in Nat
  BY <1>1, WorkerSetCardinality
<1>3. Cardinality(Retired) <= Cardinality(Retired') /\ Cardinality(Retired) \in Nat
  BY <1>2, FS_Subset, FS_CardinalityType
<1>4. totalFailures \in Nat
  BY DEF IInv, TypeOK
<1> QED BY <1>2, <1>3, <1>4 DEF IInv, FailuresRetire

\* Every failure that is not ignored retires the worker that counts it.
LEMMA RetireStep == ASSUME IInv, [Next]_vars PROVE FailuresRetire'
<1>0. pc = [v \in Workers |-> pc[v]]
  BY DEF IInv, TypeOK
<1>1. ASSUME NEW w \in Workers, Worker(w) PROVE FailuresRetire'
  <2> USE <1>0 DEF Goto, config, contexts, counters, Workers
  <2>1. CASE CountFailure(w)
    <3>1. CASE ignoreErrors
      BY <2>1, <3>1 DEF CountFailure, FailuresRetire
    <3>2. CASE ~ignoreErrors
      <4>1. w \notin Retired /\ Retired' = Retired \union {w}
        BY <2>1, <3>2 DEF CountFailure, Retired
      <4>2. IsFiniteSet(Retired) /\ Cardinality(Retired) \in Nat
        BY WorkerSetCardinality DEF Retired
      <4>3. Cardinality(Retired') = Cardinality(Retired) + 1
        BY <4>1, <4>2, FS_AddElement
      <4>4. totalFailures' = totalFailures + 1 /\ totalFailures \in Nat
        BY <2>1 DEF CountFailure, IInv, TypeOK
      <4>5. totalFailures <= Cardinality(Retired)
        BY <3>2 DEF IInv, FailuresRetire
      <4> QED BY <4>2, <4>3, <4>4, <4>5 DEF FailuresRetire
    <3> QED BY <3>1, <3>2
  <2>2. CASE LeaveLoop(w) \/ EnterLoop(w) \/ NoMoreRuns(w) \/ StartRun(w)
             \/ Succeed(w) \/ ExecuteFails(w) \/ Interrupted(w) \/ FailOnce(w)
    <3>1. Retired \subseteq Retired'
      BY <2>2 DEF Retired, LeaveLoop, EnterLoop, NoMoreRuns, StartRun, Succeed,
         ExecuteFails, Interrupted, FailOnce
    <3>2. UNCHANGED <<totalFailures, ignoreErrors>>
      BY <2>2 DEF LeaveLoop, EnterLoop, NoMoreRuns, StartRun, Succeed, ExecuteFails,
         Interrupted, FailOnce
    <3> QED BY <3>1, <3>2, RetiredGrows
  <2> QED BY <1>1, <2>1, <2>2 DEF Worker
<1>2. CASE StartWorkers
  <2>1. Retired = {}
    BY <1>2 DEF StartWorkers, Retired
  <2> QED BY <1>2, <2>1, RetiredGrows DEF StartWorkers, config, counters
<1>3. CASE RejectConfig \/ Return \/ CancelCaller \/ Expire \/ UNCHANGED vars
  <2>1. Retired' = Retired
    BY <1>3 DEF RejectConfig, Return, CancelCaller, Expire, vars, Retired
  <2> QED BY <1>3, <2>1, RetiredGrows DEF RejectConfig, Return, CancelCaller, Expire, vars,
         config, counters
<1> QED BY <1>1, <1>2, <1>3 DEF Next, Returned

\* The reason for which a worker returned stays.
LEMMA DoneStep == ASSUME IInv, [Next]_vars PROVE DoneForReason'
<1> USE DEF DoneForReason, SchedulingDone, Workers
<1>0. /\ pc = [v \in Workers |-> pc[v]]
      /\ available \in Seq(Items)
  BY DEF IInv, TypeOK, SchedulerTypeOK
<1>1. ASSUME NEW w \in Workers, Worker(w) PROVE DoneForReason'
  <2> USE <1>0 DEF Goto, contexts, schedulerVars
  <2>1. CASE LeaveLoop(w)
    BY <2>1 DEF LeaveLoop, IInv
  <2>2. CASE NoMoreRuns(w)
    BY <2>2 DEF NoMoreRuns, Exhausted, IInv
  <2>3. CASE StartRun(w)
    <3>1. Len(available) # 0
      BY <2>3 DEF StartRun
    <3> QED BY <2>3, <3>1 DEF StartRun, IInv
  <2>4. CASE EnterLoop(w) \/ ExecuteFails(w) \/ Interrupted(w)
    BY <2>4 DEF EnterLoop, ExecuteFails, Interrupted, IInv
  <2>5. CASE Succeed(w) \/ CountFailure(w)
    BY <2>5 DEF Succeed, CountFailure, IInv
  <2>6. CASE FailOnce(w)
    BY <2>6 DEF FailOnce, IInv
  <2> QED BY <1>1, <2>1, <2>2, <2>3, <2>4, <2>5, <2>6 DEF Worker
<1>2. CASE StartWorkers
  BY <1>2 DEF StartWorkers
<1>3. CASE RejectConfig \/ Return \/ CancelCaller \/ Expire \/ UNCHANGED vars
  BY <1>3 DEF RejectConfig, Return, CancelCaller, Expire, vars, contexts, schedulerVars, IInv
<1> QED BY <1>1, <1>2, <1>3 DEF Next, Returned

\* Nothing moves once the task has returned.
LEMMA ReturnedIsFinal == ASSUME IInv, result # "none", [Next]_vars PROVE UNCHANGED vars
<1>1. \A w \in Workers : ~Worker(w)
  BY DEF IInv, ReturnsLast, Worker, LeaveLoop, EnterLoop, NoMoreRuns, StartRun, Succeed,
     ExecuteFails, Interrupted, CountFailure, FailOnce, Goto
<1> QED BY <1>1 DEF Next, RejectConfig, StartWorkers, Return, CancelCaller, Expire, Returned

\* The task returns last.
LEMMA ReturnsStep == ASSUME IInv, [Next]_vars PROVE ReturnsLast'
<1>1. CASE result # "none"
  BY <1>1, ReturnedIsFinal DEF IInv, ReturnsLast, vars
<1>2. CASE result = "none"
  <2>1. ASSUME NEW w \in Workers, Worker(w) PROVE result' = "none"
    BY <2>1, <1>2 DEF Worker, LeaveLoop, EnterLoop, NoMoreRuns, StartRun, Succeed,
     ExecuteFails, Interrupted, CountFailure, FailOnce
  <2>2. CASE StartWorkers \/ CancelCaller \/ Expire \/ UNCHANGED vars
    BY <2>2, <1>2 DEF StartWorkers, CancelCaller, Expire, vars, ReturnsLast
  <2>3. CASE RejectConfig
    BY <2>3 DEF RejectConfig, ReturnsLast
  <2>4. CASE Return
    BY <2>4 DEF Return, Outcome, ReturnsLast
  <2> QED BY <2>1, <2>2, <2>3, <2>4 DEF Next, Returned, ReturnsLast
<1> QED BY <1>1, <1>2

\* What the task returns is true, at the moment it returns.
LEMMA OutcomeStep == ASSUME IInv, [Next]_vars PROVE OutcomeTruthful'
<1>1. CASE result # "none"
  BY <1>1, ReturnedIsFinal DEF IInv, OutcomeTruthful, vars, schedulerVars, config, contexts,
     counters
<1>2. CASE Return
  <2>1. /\ \A w \in Workers : pc[w] \in {"done", "interrupted"}
        /\ result' = Outcome
        /\ UNCHANGED <<limit, ignoreErrors, expired, succeededRuns, failedRuns, totalFailures>>
        /\ totalFailures \in Nat
    BY <1>2 DEF Return, schedulerVars, config, contexts, counters, IInv, TypeOK
  <2>2. Outcome = "success" => totalFailures = 0
    BY <2>1 DEF Outcome
  <2>3. Outcome = "failed" => ~ignoreErrors /\ totalFailures > 0
    BY DEF Outcome, IInv, FailureRecorded
  <2>4. Outcome = "ignored-errors" => ignoreErrors /\ totalFailures > 0
    BY <2>1 DEF Outcome, IInv, FailureRecorded
  <2>5. ASSUME Outcome \in {"success", "ignored-errors"}, ~expired, NEW s \in Items
        PROVE  succeededRuns[s] + failedRuns[s] = limit
    <3>1. ~ctxDone /\ firstFailure = NoGrant
      BY <2>5 DEF Outcome
    <3>2. ~SchedulingDone
      BY <3>1, <2>5 DEF SchedulingDone, IInv, FailureRecorded
    <3>3. \A w \in Workers : pc[w] = "done"
      BY <2>1, <3>1 DEF IInv, RunsAccounted
    <3>4. Len(available) = 0
      BY <3>2, <3>3, RunSQLsAssumption DEF IInv, DoneForReason, Workers
    <3>5. limit \in Nat /\ limit # 0 /\ runCounts[s] \in Nat /\ ~(runCounts[s] < limit)
      BY <3>4, SchedulerAssumption DEF IInv, SchedulerInv, AvailableIsExact, SchedulerTypeOK
    <3>6. runCounts[s] <= limit
      BY <3>5 DEF IInv, SchedulerInv, LimitRespected
    <3>7. Unaccounted(s) = {}
      BY <3>3 DEF Unaccounted
    <3>8. runCounts[s] = succeededRuns[s] + failedRuns[s]
      <4>1. Cardinality(Unaccounted(s)) = 0
        BY <3>7, FS_EmptySet
      <4>2. runCounts[s] = succeededRuns[s] + failedRuns[s] + Cardinality(Unaccounted(s))
        BY DEF IInv, RunsAccounted
      <4>3. succeededRuns[s] \in Nat /\ failedRuns[s] \in Nat
        BY DEF IInv, TypeOK
      <4> QED BY <4>1, <4>2, <4>3
    <3> QED BY <3>5, <3>6, <3>8
  <2> QED BY <2>1, <2>2, <2>3, <2>4, <2>5 DEF OutcomeTruthful
<1>3. CASE result = "none" /\ ~Return
  <2>1. ASSUME NEW w \in Workers, Worker(w) PROVE result' = "none"
    BY <2>1, <1>3 DEF Worker, LeaveLoop, EnterLoop, NoMoreRuns, StartRun, Succeed,
     ExecuteFails, Interrupted, CountFailure, FailOnce
  <2>2. result' \in {"none", "invalid"}
    BY <2>1, <1>3 DEF Next, RejectConfig, StartWorkers, CancelCaller, Expire, Returned, vars
  <2> QED BY <2>2 DEF OutcomeTruthful
<1> QED BY <1>1, <1>2, <1>3

-----------------------------------------------------------------------------
\* The inductive invariant holds in every state of a workload.
THEOREM WorkloadInvariant == Spec => []IInv
<1>1. Init => IInv
  <2> SUFFICES ASSUME Init PROVE IInv
    OBVIOUS
  <2>1. SchedulerInv
    BY NewSchedulerInv DEF Init, SchedulerInit
  <2>2. TypeOK
    BY <2>1 DEF Init, TypeOK, SchedulerInv, Grants, Workers
  <2>3. HoldsGrant /\ DoneForReason /\ ReturnsLast /\ OutcomeTruthful
    BY DEF Init, HoldsGrant, DoneForReason, ReturnsLast, OutcomeTruthful, Workers
  <2>4. FailureRecorded
    BY DEF Init, FailureRecorded, Workers
  <2>5. FailuresRetire
    <3>1. Cardinality(Retired) \in Nat
      BY WorkerSetCardinality DEF Retired
    <3> QED BY <3>1 DEF Init, FailuresRetire
  <2>6. RunsAccounted
    <3>1. \A s \in Items : Unaccounted(s) = {}
      BY DEF Init, Unaccounted, Workers
    <3>2. \A s \in Items : runCounts[s] = 0 /\ succeededRuns[s] = 0 /\ failedRuns[s] = 0
                           /\ returnedRows[s] = 0
      BY DEF Init, SchedulerInit, NewScheduler
    <3>3. \A w \in Workers : pc[w] # "interrupted"
      BY DEF Init, Workers
    <3> QED BY <3>1, <3>2, <3>3, FS_EmptySet, RunSQLsAssumption DEF RunsAccounted
  <2> QED BY <2>1, <2>2, <2>3, <2>4, <2>5, <2>6 DEF IInv
<1>2. IInv /\ [Next]_vars => IInv'
  <2> SUFFICES ASSUME IInv, [Next]_vars PROVE IInv'
    OBVIOUS
  <2>1. TypeOK' /\ SchedulerInv' /\ HoldsGrant'
    BY TypeStep, SchedulerInvStep, HoldsGrantStep DEF IInv
  <2>2. RunsAccounted'
    BY AccountingStep
  <2>3. FailureRecorded' /\ FailuresRetire'
    BY <2>1, FailureStep, RetireStep
  <2>4. DoneForReason' /\ ReturnsLast' /\ OutcomeTruthful'
    BY DoneStep, ReturnsStep, OutcomeStep
  <2> QED BY <2>1, <2>2, <2>3, <2>4 DEF IInv
<1> QED BY <1>1, <1>2, PTL DEF Spec

\* The state of a workload keeps its type: no worker's step leaves a counter, a
\* grant or a result outside the values the code gives it.
THEOREM AlwaysTypeOK == Spec => []TypeOK
<1>1. IInv => TypeOK
  BY DEF IInv
<1> QED BY <1>1, WorkloadInvariant, PTL

\* No two workers of a workload ever hold the same run number of a statement,
\* and each number they hold has been drawn: next() numbers runs under its mutex.
THEOREM RunNumbersAlwaysUnique == Spec => []RunNumbersUnique
<1>1. IInv => RunNumbersUnique
  BY DEF IInv, SchedulerInv
<1> QED BY <1>1, WorkloadInvariant, PTL

\* The summary of runSQLWorkload adds up for every number of workers and
\* statements: no scheduled run is lost or counted twice.
THEOREM RunsAlwaysAccounted == Spec => []RunsAccounted
<1>1. IInv => RunsAccounted
  BY DEF IInv
<1> QED BY <1>1, WorkloadInvariant, PTL

\* Without runSQLIgnoreErrors no more failures are counted than there are
\* workers, and the failure kept is a counted one.
THEOREM AlwaysFailFast == Spec => []FailFast
<1>1. IInv => FailFast
  <2> SUFFICES ASSUME IInv, ~ignoreErrors PROVE
        /\ totalFailures <= Cardinality(Workers)
        /\ firstFailure # NoGrant => /\ stopped
                                     /\ firstFailure.item \in Items
                                     /\ failedRuns[firstFailure.item] > 0
    BY DEF FailFast
  <2>1. Cardinality(Retired) <= Cardinality(Workers) /\ Cardinality(Retired) \in Nat
        /\ Cardinality(Workers) \in Nat
    BY WorkerSetCardinality, RunSQLsAssumption, FS_Subset DEF Retired, Workers
  <2>2. totalFailures <= Cardinality(Retired) /\ totalFailures \in Nat
    BY DEF IInv, FailuresRetire, TypeOK
  <2> QED BY <2>1, <2>2 DEF IInv, FailureRecorded
<1> QED BY <1>1, WorkloadInvariant, PTL

\* What runSQLWorkload returns is what happened; a workload that ends by itself
\* has run every statement exactly runSQLRunsPerStatement times.
THEOREM OutcomeAlwaysTruthful == Spec => []OutcomeTruthful
<1>1. IInv => OutcomeTruthful
  BY DEF IInv
<1> QED BY <1>1, WorkloadInvariant, PTL

\* failureOnce keeps the first failure.
THEOREM FirstFailureIsKept == Spec => FirstFailureKept
<1>1. IInv /\ [Next]_vars => [firstFailure # NoGrant => firstFailure' = firstFailure]_vars
  <2> SUFFICES ASSUME IInv, [Next]_vars, firstFailure # NoGrant
               PROVE  firstFailure' = firstFailure
    OBVIOUS
  <2>1. stopped
    BY DEF IInv, FailureRecorded
  <2> QED BY <2>1 DEF Next, vars, RejectConfig, StartWorkers, Return, Worker, LeaveLoop,
       EnterLoop, NoMoreRuns, StartRun, Succeed, ExecuteFails, Interrupted,
       CountFailure, FailOnce, CancelCaller, Expire, Returned
<1> QED BY <1>1, WorkloadInvariant, PTL DEF Spec, FirstFailureKept

\* All workers together draw on one quota: a statement is never run beyond its
\* limit, and a worker stops for lack of work only when every limit is reached.
THEOREM WorkloadImplementsQuota == Spec => ImplementsQuota
<1>1. Init => Quota!QuotaInit
  BY SchedulerAssumption DEF Init, SchedulerInit, NewScheduler, Quota!QuotaInit,
     Quota!Items, Items, Quota!NoAnswer, NoGrant
<1>2. IInv /\ [Next]_vars => [Quota!QuotaNext]_(Quota!quotaVars)
  BY SchedulerSteps, TakeGrants, ExhaustedRefuses DEF IInv, schedulerVars, Quota!quotaVars
<1> QED BY <1>1, <1>2, WorkloadInvariant, PTL DEF Spec, ImplementsQuota, Quota!QuotaSpec

\* Once scheduling has ended, no step of the workload brings a worker back to next().
LEMMA NeverBackToNext ==
  ASSUME IInv, NEW w \in Workers, SchedulingDone, pc[w] # "next", [Next]_vars
  PROVE  SchedulingDone' /\ pc'[w] # "next"
<1>1. pc = [v \in Workers |-> pc[v]]
  BY DEF IInv, TypeOK
<1>2. ASSUME NEW v \in Workers, Worker(v) PROVE SchedulingDone' /\ pc'[w] # "next"
  <2> USE DEF SchedulingDone, contexts, Goto
  <2>1. CASE LeaveLoop(v) \/ NoMoreRuns(v) \/ StartRun(v) \/ Succeed(v) \/ ExecuteFails(v)
    BY <1>1, <2>1 DEF LeaveLoop, NoMoreRuns, StartRun, Succeed, ExecuteFails
  <2>2. CASE Interrupted(v) \/ CountFailure(v) \/ FailOnce(v)
    BY <1>1, <2>2 DEF Interrupted, CountFailure, FailOnce
  <2>3. ~EnterLoop(v)
    BY DEF EnterLoop
  <2> QED BY <1>2, <2>1, <2>2, <2>3 DEF Worker
<1>3. CASE StartWorkers
  BY <1>3 DEF StartWorkers, SchedulingDone, contexts
<1>4. CASE RejectConfig \/ Return \/ CancelCaller \/ Expire \/ UNCHANGED vars
  BY <1>4 DEF RejectConfig, Return, CancelCaller, Expire, vars, SchedulingDone, contexts
<1> QED BY <1>2, <1>3, <1>4 DEF Next, Returned

\* After the deadline, a failure or a cancellation a worker of runSQLWorkload starts the run
\* it had already chosen to start, if any, and none after it.
THEOREM LateRunsBounded == Spec => AtMostOneLateRun
<1>1. ASSUME NEW w \in Workers
      PROVE  Spec => []((SchedulingDone /\ pc[w] # "next") => [](pc[w] # "next"))
  <2>1. IInv /\ (SchedulingDone /\ pc[w] # "next") /\ [Next]_vars
          => (SchedulingDone /\ pc[w] # "next")'
    BY NeverBackToNext
  <2> QED BY <2>1, WorkloadInvariant, PTL DEF Spec
<1> QED BY <1>1 DEF AtMostOneLateRun
=============================================================================
