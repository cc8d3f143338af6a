------------------------- MODULE ComparePairs_proofs -------------------------
(***************************************************************************)
(* The concurrent comparison of compare-results, for any number of workers *)
(* and pairs, any limit and any directory that earlier processes left: the *)
(* failure it reports is genuine, none is swallowed, a success is          *)
(* complete, and the two sides of the failure files stay in step.          *)
(***************************************************************************)
EXTENDS ComparePairs, RandomScheduler_proofs, FiniteSetTheorems

\* A worker that has been given a run holds it until the run ends or the
\* comparison is given up.
Writing == {"create-expected", "fill-expected", "create-actual", "fill-actual"}
Holding == {"expected", "actual", "compare", "lock", "error", "failing", "interrupted"}
             \union Writing

HoldsGrant == \A w \in Workers : pc[w] \in Holding => grant[w].item \in Items

\* An error of a comparison is still on its way to failureOnce, or something has
\* stopped the workers; a context error comes only after that.
ErrorsOnTheirWay ==
  \A w \in Workers :
    /\ err[w] # "none" =>
         WorkerDone \/ pc[w] \in {"lock", "error", "failing"} \union Writing
    /\ err[w] = "context" => WorkerDone
    /\ pc[w] \in {"lock", "error"} \union Writing => err[w] # "none"
    /\ pc[w] = "failing" => err[w] \in {"sql", "mismatch"}
    /\ pc[w] = "interrupted" => WorkerDone

\* stopWorkers() is called once, with a genuine failure.
FailureKept == /\ stopped <=> firstFailure # NoFailure
               /\ stopped => firstFailure.kind \in {"sql", "mismatch"}

\* Runs of pair p that were scheduled and not completed.
Unfinished(p) == {w \in Workers : pc[w] \in Holding /\ grant[w].item = p}

\* Until a failure stops the workers every scheduled run is completed or in some
\* worker's hands.
RunsAccounted ==
  ~stopped => \A p \in Items : runCounts[p] = completedRuns[p] + Cardinality(Unfinished(p))

\* A worker returns because scheduling has ended or nothing is left to run.
DoneForReason ==
  \A w \in Workers : pc[w] = "done" => SchedulingDone \/ Len(available) = 0

\* The task returns after its workers.
ReturnsLast ==
  /\ result \notin {"none", "invalid"} =>
       \A w \in Workers : pc[w] \in {"done", "interrupted"}
  /\ result = "invalid" => \A w \in Workers : pc[w] = "unstarted"

\* A success was returned without a failure and without a cancellation, which then
\* cannot come any more.
SuccessUndisturbed == result = "success" => ~stopped /\ ~ctxDone

\* The failure files of a directory that only this tool writes to.
FilesTyped == \A f \in files : f.suffix \in Nat

\* Whoever writes holds the mutex.
MutexHeld == \A w \in Workers : pc[w] \in Writing <=> fileMu = w

\* A comparison's files bear the number of a run that was scheduled.
FilesOfScheduledRuns ==
  \A f \in files : f.by.item \in Items =>
                      f.by.run \in Nat /\ f.by.run <= runCounts[f.by.item]

\* Until its first write a comparison has no files.
BeforeTurn == {"expected", "actual", "compare", "lock", "create-expected", "fill-expected"}
NoFilesBefore(w) == pc[w] \in BeforeTurn => \A f \in files : f.by # Comparison(w)

\* Between its two files it has expected ones only, each the last of its name.
ExpectedIsLast(w) ==
  pc[w] \in {"create-actual", "fill-actual"} =>
    /\ \A f \in files : f.by = Comparison(w) => f.side = "expected"
    /\ \A e, f \in files :
         (/\ e.by = Comparison(w) /\ e.name = PairName[grant[w].item]
          /\ f.side = "expected" /\ f.name = PairName[grant[w].item])
           => f.suffix <= e.suffix

\* The files of its name and side that a worker competes with.
Rivals(w) == {f \in files : f.name = PairName[grant[w].item] /\ f.side = Side(w)}

\* All suffixes below the one that is tried are taken; the file that is created is
\* the worker's own, and the last one.
FileInHand(w) ==
  /\ pc[w] \notin Writing => suffix[w] = 0
  /\ pc[w] \in Creating =>
       \A k \in 0..(suffix[w] - 1) : \E g \in Rivals(w) : g.suffix = k
  /\ pc[w] \in Filling =>
       File(Path(w), Incomplete) \in files /\ \A f \in Rivals(w) : f.suffix <= suffix[w]

FilesOfOneTurn ==
  \A w \in Workers : NoFilesBefore(w) /\ ExpectedIsLast(w) /\ FileInHand(w)

ControlInv == /\ TypeOK
              /\ SchedulerInv
              /\ HoldsGrant
              /\ ErrorsOnTheirWay
              /\ FailureKept
              /\ RunsAccounted
              /\ DoneForReason
              /\ ReturnsLast
              /\ SuccessUndisturbed

FilesInv == /\ FilesTyped
            /\ MutexHeld
            /\ FilesOfScheduledRuns
            /\ FilesOfOneTurn
            /\ DistinctNames(files)
            /\ NoGap(files)
            /\ SidesInStep

IInv == ControlInv /\ FilesInv

-----------------------------------------------------------------------------
(* The scheduler, the types and the grants.                                *)

\* Every step of the comparison is a call of next() or leaves the scheduler alone.
LEMMA SchedulerSteps ==
  ASSUME [Next]_vars
  PROVE  \/ UNCHANGED schedulerVars
         \/ \E w \in Clients : Exhausted(w)
         \/ \E w \in Clients : \E k \in 1..Len(available) : Take(w, k)
BY DEF Next, vars, RejectConfig, StartWorkers, Return, Worker, LeaveLoop, EnterLoop,
       NoMoreRuns, StartRun, ExecuteExpected, ExecuteActual, ExecuteFails, Match, Mismatch,
       AcquireFileMu, SuffixTaken, CreateFile, FillExpected, FillActual, WriteError,
       Interrupted, ReportFailure, FailOnce, CancelCaller, Expire, Returned, Workers,
       TakePair, NoPairLeft

\* The comparison keeps the scheduler's invariant.
LEMMA SchedulerInvStep == ASSUME SchedulerInv, [Next]_vars PROVE SchedulerInv'
BY SchedulerSteps, StutterInv, ExhaustedInv, TakeInv

\* A worker's step leaves the other workers where they are, with what they hold.
LEMMA OthersKeep ==
  ASSUME TypeOK, NEW w \in Workers, Worker(w)
  PROVE  \A v \in Workers \ {w} :
           pc'[v] = pc[v] /\ grant'[v] = grant[v] /\ err'[v] = err[v] /\ suffix'[v] = suffix[v]
<1> USE DEF Goto, TypeOK, SchedulerTypeOK, Workers, schedulerVars, disk
<1>1. CASE LeaveLoop(w) \/ EnterLoop(w) \/ ExecuteExpected(w) \/ ExecuteActual(w)
           \/ Match(w) \/ Interrupted(w) \/ ReportFailure(w) \/ FailOnce(w)
  BY <1>1 DEF LeaveLoop, EnterLoop, ExecuteExpected, ExecuteActual, Match, Interrupted,
     ReportFailure, FailOnce
<1>2. CASE NoMoreRuns(w)
  BY <1>2 DEF NoMoreRuns, NoPairLeft, Exhausted
<1>3. CASE StartRun(w)
  BY <1>3 DEF StartRun, TakePair, Take
<1>4. CASE ExecuteFails(w) \/ Mismatch(w)
  BY <1>4 DEF ExecuteFails, Mismatch
<1>5. CASE AcquireFileMu(w) \/ SuffixTaken(w) \/ CreateFile(w) \/ FillExpected(w)
           \/ FillActual(w) \/ WriteError(w)
  BY <1>5 DEF AcquireFileMu, SuffixTaken, CreateFile, FillExpected, FillActual, WriteError
<1> QED BY <1>1, <1>2, <1>3, <1>4, <1>5 DEF Worker

\* Where a worker's step takes it.
LEMMA WorkerMoves ==
  ASSUME TypeOK, NEW w \in Workers, Worker(w)
  PROVE  <<pc[w], pc'[w]>> \in
           {<<"select", "done">>, <<"select", "next">>, <<"next", "done">>,
            <<"next", "expected">>, <<"expected", "actual">>, <<"expected", "error">>,
            <<"actual", "compare">>, <<"actual", "error">>, <<"compare", "select">>,
            <<"compare", "error">>, <<"compare", "lock">>, <<"lock", "create-expected">>,
            <<"create-expected", "create-expected">>, <<"create-expected", "fill-expected">>,
            <<"fill-expected", "create-actual">>, <<"create-actual", "create-actual">>,
            <<"create-actual", "fill-actual">>, <<"create-expected", "error">>,
            <<"fill-expected", "error">>, <<"create-actual", "error">>,
            <<"fill-actual", "error">>, <<"error", "interrupted">>,
            <<"error", "failing">>, <<"failing", "done">>}
<1> USE DEF Goto, TypeOK
<1>1. CASE LeaveLoop(w) \/ EnterLoop(w) \/ NoMoreRuns(w) \/ StartRun(w)
           \/ ExecuteExpected(w) \/ ExecuteActual(w) \/ ExecuteFails(w) \/ Match(w)
  BY <1>1 DEF LeaveLoop, EnterLoop, NoMoreRuns, StartRun, ExecuteExpected, ExecuteActual,
     ExecuteFails, Match
<1>2. CASE Mismatch(w) \/ AcquireFileMu(w) \/ SuffixTaken(w) \/ CreateFile(w)
           \/ FillExpected(w) \/ FillActual(w) \/ WriteError(w)
  BY <1>2 DEF Mismatch, AcquireFileMu, SuffixTaken, CreateFile, FillExpected, FillActual,
     WriteError, Creating, Filling, Side
<1>3. CASE Interrupted(w) \/ ReportFailure(w) \/ FailOnce(w)
  BY <1>3 DEF Interrupted, ReportFailure, FailOnce
<1> QED BY <1>1, <1>2, <1>3 DEF Worker

\* Every step keeps the types.
LEMMA TypeStep == ASSUME TypeOK, SchedulerInv, HoldsGrant, [Next]_vars
                  PROVE  TypeOK'
<1>1. SchedulerTypeOK'
  BY SchedulerInvStep DEF SchedulerInv
<1> USE <1>1, ComparePairsAssumption DEF TypeOK, Workers
<1>2. CASE RejectConfig \/ StartWorkers \/ Return
  BY <1>2 DEF RejectConfig, StartWorkers, Return, Outcome, contexts, disk
<1>3. ASSUME NEW w \in Workers, Worker(w) PROVE TypeOK'
  <2> USE DEF Goto, contexts, disk
  <2>1. CASE LeaveLoop(w) \/ EnterLoop(w)
    BY <2>1 DEF LeaveLoop, EnterLoop
  <2>12. CASE NoMoreRuns(w)
    BY <2>12 DEF NoMoreRuns
  <2>13. CASE StartRun(w)
    BY <2>13 DEF StartRun
  <2>2. CASE ExecuteExpected(w) \/ ExecuteActual(w)
    BY <2>2 DEF ExecuteExpected, ExecuteActual
  <2>3. CASE ExecuteFails(w)
    BY <2>3 DEF ExecuteFails
  <2>4. CASE Match(w)
    <3>1. grant[w].item \in Items
      BY <2>4 DEF Match, HoldsGrant, Holding, Writing
    <3> QED BY <2>4, <3>1 DEF Match
  <2>5. CASE Mismatch(w)
    BY <2>5 DEF Mismatch
  <2>6. CASE AcquireFileMu(w)
    BY <2>6 DEF AcquireFileMu, LockFiles
  <2>7. CASE SuffixTaken(w) \/ CreateFile(w)
    BY <2>7 DEF SuffixTaken, CreateFile
  <2>8. CASE FillExpected(w) \/ FillActual(w)
    BY <2>8 DEF FillExpected, FillActual, UnlockFiles
  <2>9. CASE WriteError(w)
    BY <2>9 DEF WriteError, UnlockFiles
  <2>10. CASE Interrupted(w) \/ ReportFailure(w)
    BY <2>10 DEF Interrupted, ReportFailure
  <2>11. CASE FailOnce(w)
    BY <2>11 DEF FailOnce, SchedulerTypeOK
  <2> QED BY <1>3, <2>1, <2>2, <2>3, <2>4, <2>5, <2>6, <2>7, <2>8, <2>9, <2>10, <2>11,
          <2>12, <2>13 DEF Worker
<1>4. CASE CancelCaller
  <2>1. /\ UNCHANGED <<timed, expired, stopped, fileMu, suffix, pc, err, completedRuns>>
        /\ UNCHANGED <<firstFailure, result>> /\ ctxDone' = TRUE
    BY <1>4 DEF CancelCaller, disk
  <2> QED BY <2>1
<1>5. CASE Expire
  <2>1. /\ UNCHANGED <<timed, ctxDone, stopped, fileMu, suffix, pc, err, completedRuns>>
        /\ UNCHANGED <<firstFailure, result>> /\ expired' = TRUE
    BY <1>5 DEF Expire, disk
  <2> QED BY <2>1
<1>6. CASE UNCHANGED vars
  BY <1>6 DEF vars, contexts, disk
<1> QED BY <1>2, <1>3, <1>4, <1>5, <1>6 DEF Next, Returned

\* Only StartRun and NoMoreRuns change what the calling worker holds.
LEMMA GrantChanges ==
  ASSUME NEW w \in Workers, Worker(w), ~StartRun(w), ~NoMoreRuns(w)
  PROVE  UNCHANGED schedulerVars
BY DEF Worker, LeaveLoop, EnterLoop, ExecuteExpected, ExecuteActual, ExecuteFails, Match,
       Mismatch, AcquireFileMu, SuffixTaken, CreateFile, FillExpected, FillActual,
       WriteError, Interrupted, ReportFailure, FailOnce, schedulerVars

\* What StartRun draws.
LEMMA StartRunGrants ==
  ASSUME TypeOK, NEW w \in Workers, StartRun(w)
  PROVE  \E i \in Items :
           /\ runCounts[i] \in Nat
           /\ runCounts' = [runCounts EXCEPT ![i] = runCounts[i] + 1]
           /\ grant'[w] = [item |-> i, run |-> runCounts[i] + 1, ok |-> TRUE]
           /\ pc[w] = "next" /\ pc'[w] = "expected"
           /\ UNCHANGED <<limit, completedRuns, stopped, err, files, fileMu>>
<1>1. PICK k \in 1..Len(available) : Take(w, k)
  BY DEF StartRun, TakePair
<1>2. available[k] \in Items /\ runCounts[available[k]] \in Nat
  BY DEF TypeOK, SchedulerTypeOK
<1>3. runCounts' = [runCounts EXCEPT ![available[k]] = runCounts[available[k]] + 1]
  BY <1>1 DEF Take
<1>4. grant'[w] = [item |-> available[k], run |-> runCounts[available[k]] + 1, ok |-> TRUE]
  BY <1>1 DEF Take, TypeOK, SchedulerTypeOK, Workers
<1>5. pc[w] = "next" /\ pc'[w] = "expected"
      /\ UNCHANGED <<limit, completedRuns, stopped, err, files, fileMu>>
  BY <1>1 DEF StartRun, Take, Goto, TypeOK, contexts, disk
<1> QED BY <1>2, <1>3, <1>4, <1>5

\* The steps that are no worker's move no worker out of a run.
LEMMA TaskSteps ==
  ASSUME TypeOK, [Next]_vars, \A w \in Workers : ~Worker(w)
  PROVE  /\ \/ UNCHANGED pc
            \/ StartWorkers /\ \A w \in Workers : pc[w] = "unstarted" /\ pc'[w] = "select"
         /\ UNCHANGED <<schedulerVars, err, completedRuns, stopped, firstFailure, disk>>
         /\ ctxDone => ctxDone'
         /\ expired => expired'
BY DEF Next, vars, RejectConfig, StartWorkers, Return, CancelCaller, Expire, Returned,
       contexts, disk

\* A worker keeps the grant of its run until the run ends.
LEMMA HoldsGrantStep == ASSUME TypeOK, HoldsGrant, [Next]_vars PROVE HoldsGrant'
<1> USE DEF HoldsGrant, Holding, Writing
<1>1. ASSUME NEW w \in Workers, Worker(w) PROVE HoldsGrant'
  <2>1. \A v \in Workers \ {w} : pc'[v] \in Holding => grant'[v].item \in Items
    BY <1>1, OthersKeep
  <2>2. pc'[w] \in Holding => grant'[w].item \in Items
    <3>1. CASE StartRun(w)
      <4>1. PICK i \in Items : grant'[w] = [item |-> i, run |-> runCounts[i] + 1, ok |-> TRUE]
        BY <3>1, StartRunGrants
      <4> QED BY <4>1
    <3>2. CASE NoMoreRuns(w)
      BY <3>2 DEF NoMoreRuns, Goto, TypeOK
    <3>3. CASE ~StartRun(w) /\ ~NoMoreRuns(w)
      <4>1. UNCHANGED grant
        BY <1>1, <3>3, GrantChanges DEF schedulerVars
      <4>2. pc'[w] \in Holding => pc[w] \in Holding
        <5>1. ~(pc[w] = "next" /\ pc'[w] = "expected")
          BY <1>1, <3>3 DEF Worker, Goto, TypeOK, LeaveLoop, EnterLoop, ExecuteExpected,
             ExecuteActual, ExecuteFails, Match, Mismatch, AcquireFileMu, SuffixTaken, CreateFile,
             FillExpected, FillActual, WriteError, Interrupted, ReportFailure, FailOnce
        <5> QED BY <5>1, <1>1, WorkerMoves
      <4> QED BY <4>1, <4>2
    <3> QED BY <3>1, <3>2, <3>3
  <2> QED BY <2>1, <2>2
<1>2. CASE \A w \in Workers : ~Worker(w)
  BY <1>2, TaskSteps DEF schedulerVars
<1> QED BY <1>1, <1>2

-----------------------------------------------------------------------------
(* Errors and the failure that is kept.                                    *)

\* A context that is done stays done.
LEMMA DoneStays == ASSUME [Next]_vars PROVE WorkerDone => WorkerDone'
BY DEF WorkerDone, Next, vars, RejectConfig, StartWorkers, Return, Worker, LeaveLoop,
       EnterLoop, NoMoreRuns, StartRun, ExecuteExpected, ExecuteActual, ExecuteFails, Match,
       Mismatch, AcquireFileMu, SuffixTaken, CreateFile, FillExpected, FillActual,
       WriteError, Interrupted, ReportFailure, FailOnce, CancelCaller, Expire, Returned,
       contexts

\* Every step keeps the errors on their way.
LEMMA ErrorsStep ==
  ASSUME TypeOK, ErrorsOnTheirWay, [Next]_vars
  PROVE  ErrorsOnTheirWay'
<1> USE DEF ErrorsOnTheirWay, Writing, Creating, Filling
<1>1. ASSUME NEW w \in Workers, Worker(w) PROVE ErrorsOnTheirWay'
  <2>1. ASSUME NEW v \in Workers \ {w}
        PROVE  pc'[v] = pc[v] /\ err'[v] = err[v]
    BY <1>1, OthersKeep
  <2>2. WorkerDone => WorkerDone'
    BY DoneStays
  <2> USE DEF Goto, TypeOK, disk, contexts, WorkerDone
  <2>3. CASE LeaveLoop(w) \/ EnterLoop(w) \/ NoMoreRuns(w) \/ StartRun(w)
             \/ ExecuteExpected(w) \/ ExecuteActual(w) \/ Match(w)
    BY <2>1, <2>2, <2>3 DEF LeaveLoop, EnterLoop, NoMoreRuns, StartRun, ExecuteExpected,
       ExecuteActual, Match
  <2>4. CASE ExecuteFails(w)
    BY <2>1, <2>2, <2>4 DEF ExecuteFails
  <2>5. CASE Mismatch(w)
    BY <2>1, <2>2, <2>5 DEF Mismatch
  <2>6. CASE AcquireFileMu(w) \/ SuffixTaken(w) \/ CreateFile(w) \/ FillExpected(w)
           \/ FillActual(w) \/ WriteError(w)
    BY <2>1, <2>2, <2>6 DEF AcquireFileMu, SuffixTaken, CreateFile, FillExpected,
       FillActual, WriteError
  <2>7. CASE Interrupted(w) \/ ReportFailure(w)
    BY <2>1, <2>2, <2>7 DEF Interrupted, ReportFailure
  <2>8. CASE FailOnce(w)
    BY <2>1, <2>2, <2>8 DEF FailOnce
  <2> QED BY <1>1, <2>3, <2>4, <2>5, <2>6, <2>7, <2>8 DEF Worker
<1>2. CASE \A w \in Workers : ~Worker(w)
  <2>1. WorkerDone => WorkerDone'
    BY DoneStays
  <2> QED BY <1>2, <2>1, TaskSteps
<1> QED BY <1>1, <1>2

\* Only FailOnce touches the failure, the counts of completed runs are Match's.
LEMMA FailureChanges ==
  ASSUME NEW w \in Workers, Worker(w)
  PROVE  /\ FailOnce(w) \/ UNCHANGED <<stopped, firstFailure>>
         /\ Match(w) \/ UNCHANGED completedRuns
         /\ UNCHANGED <<timed, ctxDone, expired, result>>
BY DEF Worker, LeaveLoop, EnterLoop, NoMoreRuns, StartRun, ExecuteExpected, ExecuteActual,
       ExecuteFails, Match, Mismatch, AcquireFileMu, SuffixTaken, CreateFile,
       FillExpected, FillActual, WriteError, Interrupted, ReportFailure, FailOnce,
       contexts

\* failureOnce keeps a genuine failure.
LEMMA FailureKeptStep ==
  ASSUME TypeOK, ErrorsOnTheirWay, FailureKept, [Next]_vars
  PROVE  FailureKept'
<1> USE DEF FailureKept
<1>1. ASSUME NEW w \in Workers, FailOnce(w) PROVE FailureKept'
  <2>1. err[w] \in {"sql", "mismatch"} /\ stopped'
    BY <1>1 DEF FailOnce, Goto, ErrorsOnTheirWay
  <2>2. CASE stopped
    BY <1>1, <2>1, <2>2 DEF FailOnce
  <2>3. CASE ~stopped
    <3>1. firstFailure' = [label |-> grant[w], kind |-> err[w]]
      BY <1>1, <2>3 DEF FailOnce
    <3>2. firstFailure'.kind = err[w] /\ NoFailure.kind = "none"
      BY <3>1 DEF NoFailure
    <3> QED BY <2>1, <3>2
  <2> QED BY <2>2, <2>3
<1>2. ASSUME NEW w \in Workers, Worker(w) PROVE FailureKept'
  BY <1>1, <1>2, FailureChanges
<1>3. CASE \A w \in Workers : ~Worker(w)
  BY <1>3, TaskSteps
<1> QED BY <1>2, <1>3

-----------------------------------------------------------------------------
(* Accounting.                                                             *)

\* Any set of workers is finite, and so has a number of elements.
LEMMA WorkerSetCardinality ==
  ASSUME NEW T \in SUBSET Workers
  PROVE  IsFiniteSet(T) /\ Cardinality(T) \in Nat
BY ComparePairsAssumption, FS_Subset, FS_CardinalityType DEF Workers

\* Starting a run: the scheduler's count and the runs in flight grow together.
LEMMA StartRunAccounts ==
  ASSUME TypeOK, RunsAccounted, NEW w \in Workers, StartRun(w)
  PROVE  RunsAccounted'
<1>1. PICK i \in Items :
        /\ runCounts[i] \in Nat
        /\ runCounts' = [runCounts EXCEPT ![i] = runCounts[i] + 1]
        /\ grant'[w] = [item |-> i, run |-> runCounts[i] + 1, ok |-> TRUE]
        /\ pc[w] = "next" /\ pc'[w] = "expected"
        /\ UNCHANGED <<completedRuns, stopped>>
  BY StartRunGrants
<1>2. \A v \in Workers \ {w} : pc'[v] = pc[v] /\ grant'[v] = grant[v]
  BY OthersKeep DEF Worker
<1>3. grant'[w].item = i
  BY <1>1
<1>4. ASSUME NEW p \in Items, ~stopped
      PROVE  runCounts'[p] = completedRuns[p] + Cardinality(Unfinished(p)')
  <2>1. /\ completedRuns[p] \in Nat /\ runCounts[p] \in Nat
        /\ runCounts[p] = completedRuns[p] + Cardinality(Unfinished(p))
        /\ IsFiniteSet(Unfinished(p)) /\ Cardinality(Unfinished(p)) \in Nat
    BY <1>4, WorkerSetCardinality DEF TypeOK, SchedulerTypeOK, RunsAccounted, Unfinished
  <2>2. w \notin Unfinished(p)
    BY <1>1 DEF Unfinished, Holding, Writing
  <2>3. CASE p = i
    <3>1. Unfinished(p)' = Unfinished(p) \union {w}
      BY <1>1, <1>2, <1>3, <2>3 DEF Unfinished, Holding, Writing
    <3>2. Cardinality(Unfinished(p)') = Cardinality(Unfinished(p)) + 1
      BY <3>1, <2>1, <2>2, FS_AddElement
    <3>3. runCounts'[p] = runCounts[p] + 1
      BY <1>1, <2>3 DEF TypeOK, SchedulerTypeOK
    <3> QED BY <3>2, <3>3, <2>1
  <2>4. CASE p # i
    <3>1. Unfinished(p)' = Unfinished(p)
      BY <1>1, <1>2, <1>3, <2>4 DEF Unfinished, Holding, Writing
    <3>2. runCounts'[p] = runCounts[p]
      BY <1>1, <2>4 DEF TypeOK, SchedulerTypeOK
    <3> QED BY <3>1, <3>2, <2>1
  <2> QED BY <2>3, <2>4
<1> QED BY <1>1, <1>4 DEF RunsAccounted

\* Completing a run: it moves from the runs in flight to completedRuns.
LEMMA MatchAccounts ==
  ASSUME TypeOK, HoldsGrant, RunsAccounted, NEW w \in Workers, Match(w)
  PROVE  RunsAccounted'
<1> DEFINE i == grant[w].item
<1>1. /\ pc[w] = "compare" /\ pc'[w] = "select"
      /\ completedRuns' = [completedRuns EXCEPT ![i] = @ + 1]
      /\ UNCHANGED <<runCounts, grant, stopped>>
  BY DEF Match, Goto, TypeOK, schedulerVars, contexts
<1>2. \A v \in Workers \ {w} : pc'[v] = pc[v]
  BY OthersKeep DEF Worker
<1>3. i \in Items
  BY <1>1 DEF HoldsGrant, Holding, Writing
<1>4. ASSUME NEW p \in Items, ~stopped
      PROVE  runCounts[p] = completedRuns'[p] + Cardinality(Unfinished(p)')
  <2>1. /\ completedRuns[p] \in Nat /\ runCounts[p] \in Nat
        /\ runCounts[p] = completedRuns[p] + Cardinality(Unfinished(p))
        /\ IsFiniteSet(Unfinished(p)) /\ Cardinality(Unfinished(p)) \in Nat
    BY <1>4, WorkerSetCardinality DEF TypeOK, SchedulerTypeOK, RunsAccounted, Unfinished
  <2>2. CASE p = i
    <3>1. Unfinished(p)' = Unfinished(p) \ {w} /\ w \in Unfinished(p)
      BY <1>1, <1>2, <2>2 DEF Unfinished, Holding, Writing
    <3>2. Cardinality(Unfinished(p)') = Cardinality(Unfinished(p)) - 1
      BY <3>1, <2>1, FS_RemoveElement
    <3>3. completedRuns'[p] = completedRuns[p] + 1
      BY <1>1, <2>2 DEF TypeOK
    <3> QED BY <3>2, <3>3, <2>1
  <2>3. CASE p # i
    <3>1. Unfinished(p)' = Unfinished(p)
      BY <1>1, <1>2, <2>3 DEF Unfinished, Holding, Writing
    <3>2. completedRuns'[p] = completedRuns[p]
      BY <1>1, <2>3 DEF TypeOK
    <3> QED BY <3>1, <3>2, <2>1
  <2> QED BY <2>2, <2>3
<1> QED BY <1>1, <1>4 DEF RunsAccounted

\* Every step keeps the accounting.
LEMMA AccountingStep ==
  ASSUME TypeOK, HoldsGrant, RunsAccounted, [Next]_vars
  PROVE  RunsAccounted'
<1>1. ASSUME NEW w \in Workers, Worker(w) PROVE RunsAccounted'
  <2>1. CASE StartRun(w)
    BY <2>1, StartRunAccounts
  <2>2. CASE Match(w)
    BY <2>2, MatchAccounts
  <2>3. CASE FailOnce(w)
    BY <2>3 DEF FailOnce, RunsAccounted
  <2>4. CASE NoMoreRuns(w) \/ LeaveLoop(w) \/ EnterLoop(w)
    <3>1. pc[w] \notin Holding /\ pc'[w] \notin Holding
      BY <2>4 DEF NoMoreRuns, LeaveLoop, EnterLoop, Goto, TypeOK, Holding, Writing
    <3>2. \A p \in Items : Unfinished(p)' = Unfinished(p)
      BY <1>1, <3>1, OthersKeep DEF Unfinished
    <3>3. UNCHANGED <<runCounts, completedRuns, stopped>>
      BY <2>4 DEF NoMoreRuns, NoPairLeft, Exhausted, LeaveLoop, EnterLoop, schedulerVars, contexts
    <3> QED BY <3>2, <3>3 DEF RunsAccounted
  <2>5. CASE ~(StartRun(w) \/ Match(w) \/ FailOnce(w) \/ NoMoreRuns(w) \/ LeaveLoop(w)
               \/ EnterLoop(w))
    <3>1. pc[w] \in Holding /\ pc'[w] \in Holding
      BY <1>1, <2>5 DEF Worker, ExecuteExpected, ExecuteActual, ExecuteFails, Mismatch,
         AcquireFileMu, SuffixTaken, CreateFile, FillExpected, FillActual, WriteError,
         Interrupted, ReportFailure, Goto, TypeOK, Holding, Writing, Creating, Filling
    <3>2. UNCHANGED <<runCounts, grant, completedRuns, stopped>>
      BY <1>1, <2>5, GrantChanges, FailureChanges DEF schedulerVars
    <3>3. \A p \in Items : Unfinished(p)' = Unfinished(p)
      BY <1>1, <3>1, <3>2, OthersKeep DEF Unfinished
    <3> QED BY <3>2, <3>3 DEF RunsAccounted
  <2> QED BY <2>1, <2>2, <2>3, <2>4, <2>5
<1>2. CASE \A w \in Workers : ~Worker(w)
  <2>1. \A p \in Items : Unfinished(p)' = Unfinished(p)
    BY <1>2, TaskSteps DEF Unfinished, Holding, Writing, schedulerVars
  <2> QED BY <1>2, <2>1, TaskSteps DEF RunsAccounted, schedulerVars
<1> QED BY <1>1, <1>2

-----------------------------------------------------------------------------
(* The end of the task.                                                    *)

\* The reason for which a worker returned stays.
LEMMA DoneStep ==
  ASSUME TypeOK, DoneForReason, [Next]_vars
  PROVE  DoneForReason'
<1> USE DEF DoneForReason
<1>1. SchedulingDone => SchedulingDone'
  <2>1. expired => expired'
    BY DEF Next, vars, RejectConfig, StartWorkers, Return, Worker, LeaveLoop, EnterLoop,
       NoMoreRuns, StartRun, ExecuteExpected, ExecuteActual, ExecuteFails, Match, Mismatch,
       AcquireFileMu, SuffixTaken, CreateFile, FillExpected, FillActual, WriteError,
       Interrupted, ReportFailure, FailOnce, CancelCaller, Expire, Returned, contexts
  <2> QED BY <2>1, DoneStays DEF SchedulingDone
<1>2. ASSUME NEW w \in Workers, Worker(w) PROVE DoneForReason'
  <2>1. \A v \in Workers \ {w} : pc'[v] = pc[v]
    BY <1>2, OthersKeep
  <2>2. CASE StartRun(w)
    <3>1. Len(available) # 0
      BY <2>2 DEF StartRun
    <3>2. pc'[w] = "expected"
      BY <2>2, StartRunGrants
    <3> QED BY <3>1, <3>2, <2>1, <1>1
  <2>3. CASE NoMoreRuns(w)
    BY <2>3, <2>1, <1>1 DEF NoMoreRuns, NoPairLeft, Exhausted
  <2>4. CASE LeaveLoop(w)
    <3>1. SchedulingDone
      BY <2>4 DEF LeaveLoop
    <3> QED BY <3>1, <1>1
  <2>5. CASE FailOnce(w)
    <3>1. SchedulingDone'
      BY <2>5 DEF FailOnce, SchedulingDone, WorkerDone
    <3> QED BY <3>1
  <2>6. CASE ~(StartRun(w) \/ NoMoreRuns(w) \/ LeaveLoop(w) \/ FailOnce(w))
    <3>1. pc'[w] # "done"
      BY <1>2, <2>6 DEF Worker, EnterLoop, ExecuteExpected, ExecuteActual, ExecuteFails, Match,
         Mismatch, AcquireFileMu, SuffixTaken, CreateFile, FillExpected, FillActual,
         WriteError, Interrupted, ReportFailure, Goto, TypeOK, Creating, Filling
    <3>2. UNCHANGED available
      BY <1>2, <2>6, GrantChanges DEF schedulerVars
    <3> QED BY <2>1, <3>1, <3>2, <1>1
  <2> QED BY <2>2, <2>3, <2>4, <2>5, <2>6
<1>3. CASE \A w \in Workers : ~Worker(w)
  BY <1>3, <1>1, TaskSteps DEF schedulerVars
<1> QED BY <1>2, <1>3

\* Nothing moves once the task has returned.
LEMMA ReturnedIsFinal ==
  ASSUME TypeOK, ReturnsLast, result # "none", [Next]_vars
  PROVE  UNCHANGED vars
<1>1. \A w \in Workers : pc[w] \in {"done", "interrupted", "unstarted"}
  BY DEF ReturnsLast, TypeOK
<1>2. \A w \in Workers : ~Worker(w)
  BY <1>1 DEF Worker, LeaveLoop, EnterLoop, NoMoreRuns, StartRun, ExecuteExpected,
     ExecuteActual, ExecuteFails, Match, Mismatch, AcquireFileMu, SuffixTaken, CreateFile,
     FillExpected, FillActual, WriteError, Interrupted, ReportFailure, FailOnce, Goto,
     Creating, Filling
<1> QED BY <1>2 DEF Next, RejectConfig, StartWorkers, Return, CancelCaller, Expire, Returned

\* The task returns last, and a success undisturbed.
LEMMA ReturnsStep ==
  ASSUME TypeOK, FailureKept, ReturnsLast, SuccessUndisturbed, [Next]_vars
  PROVE  ReturnsLast' /\ SuccessUndisturbed'
<1>1. CASE result # "none"
  BY <1>1, ReturnedIsFinal DEF ReturnsLast, SuccessUndisturbed, vars, contexts
<1>2. CASE result = "none"
  <2>1. ASSUME NEW w \in Workers, Worker(w) PROVE result' = "none"
    BY <2>1, <1>2, FailureChanges
  <2>2. CASE StartWorkers \/ CancelCaller \/ Expire \/ UNCHANGED vars
    BY <2>2, <1>2 DEF StartWorkers, CancelCaller, Expire, vars, ReturnsLast,
       SuccessUndisturbed
  <2>3. CASE RejectConfig
    BY <2>3 DEF RejectConfig, ReturnsLast, SuccessUndisturbed
  <2>4. CASE Return
    BY <2>4 DEF Return, Outcome, ReturnsLast, SuccessUndisturbed, FailureKept, contexts
  <2> QED BY <2>1, <2>2, <2>3, <2>4 DEF Next, Returned, ReturnsLast, SuccessUndisturbed
<1> QED BY <1>1, <1>2

\* The control part of the invariant is kept by every step.
LEMMA ControlStep == ASSUME ControlInv, [Next]_vars PROVE ControlInv'
BY TypeStep, SchedulerInvStep, HoldsGrantStep, ErrorsStep, FailureKeptStep, AccountingStep,
   DoneStep, ReturnsStep DEF ControlInv

\* At a success every worker has returned, without an error and with no run left.
LEMMA SuccessMeans ==
  ASSUME ControlInv, result = "success"
  PROVE  NoFailureSwallowed /\ SuccessIsComplete
<1>1. ~stopped /\ ~ctxDone /\ ~WorkerDone
  BY DEF ControlInv, SuccessUndisturbed, WorkerDone
<1>2. \A w \in Workers : pc[w] = "done"
  BY <1>1 DEF ControlInv, ReturnsLast, ErrorsOnTheirWay, Writing
<1>3. NoFailureSwallowed
  BY <1>1, <1>2 DEF NoFailureSwallowed, ControlInv, ErrorsOnTheirWay, Writing
<1>4. ASSUME NEW p \in Items PROVE completedRuns[p] = runCounts[p]
  <2>1. Unfinished(p) = {}
    BY <1>2 DEF Unfinished, Holding, Writing
  <2>2. Cardinality(Unfinished(p)) = 0
    BY <2>1, FS_EmptySet
  <2>3. completedRuns[p] \in Nat /\ runCounts[p] \in Nat
    BY DEF ControlInv, TypeOK, SchedulerTypeOK
  <2> QED BY <1>1, <2>2, <2>3 DEF ControlInv, RunsAccounted
<1>5. ASSUME NEW p \in Items, ~expired PROVE runCounts[p] = limit
  <2>1. Len(available) = 0
    BY <1>1, <1>2, <1>5, ComparePairsAssumption DEF ControlInv, DoneForReason,
       SchedulingDone, Workers
  <2>2. limit \in Nat /\ limit # 0 /\ runCounts[p] \in Nat /\ ~(runCounts[p] < limit)
    BY <2>1, SchedulerAssumption DEF ControlInv, SchedulerInv, AvailableIsExact, SchedulerTypeOK
  <2>3. runCounts[p] <= limit
    BY <2>2 DEF ControlInv, SchedulerInv, LimitRespected
  <2> QED BY <2>2, <2>3
<1> QED BY <1>3, <1>4, <1>5 DEF SuccessIsComplete

-----------------------------------------------------------------------------
(* The two sides of a set of files.                                        *)

\* Files in step stay in step when some are removed.
LEMMA FewerInStep == ASSUME NEW F, InStep(F), NEW G \in SUBSET F PROVE InStep(G)
BY DEF InStep

\* A file of no comparison changes nothing between the sides.
LEMMA IncompleteInStep ==
  ASSUME NEW F, InStep(F), NEW n, n.by = Incomplete
  PROVE  InStep(F \union {n})
<1>1. SUFFICES ASSUME NEW e1 \in F \union {n}, NEW e2 \in F \union {n},
                      NEW a1 \in F \union {n}, NEW a2 \in F \union {n},
                      e1.side = "expected" /\ e2.side = "expected",
                      a1.side = "actual" /\ a2.side = "actual",
                      {e1.by, e2.by} \intersect {Incomplete} = {},
                      e1.by = a1.by /\ e2.by = a2.by,
                      e1.name = e2.name /\ a1.name = e1.name /\ a2.name = e1.name
               PROVE  e1.suffix < e2.suffix <=> a1.suffix < a2.suffix
  BY DEF InStep
<1>2. e1 \in F /\ e2 \in F /\ a1 \in F /\ a2 \in F
  BY <1>1
<1> QED BY <1>1, <1>2 DEF InStep

\* The expected file of a comparison that has no files yet has no counterpart.
LEMMA ExpectedInStep ==
  ASSUME NEW F, InStep(F), NEW n, n.side = "expected", \A f \in F : f.by # n.by
  PROVE  InStep(F \union {n})
<1>1. SUFFICES ASSUME NEW e1 \in F \union {n}, NEW e2 \in F \union {n},
                      NEW a1 \in F \union {n}, NEW a2 \in F \union {n},
                      e1.side = "expected" /\ e2.side = "expected",
                      a1.side = "actual" /\ a2.side = "actual",
                      {e1.by, e2.by} \intersect {Incomplete} = {},
                      e1.by = a1.by /\ e2.by = a2.by,
                      e1.name = e2.name /\ a1.name = e1.name /\ a2.name = e1.name
               PROVE  e1.suffix < e2.suffix <=> a1.suffix < a2.suffix
  BY DEF InStep
<1>2. a1 \in F /\ a2 \in F
  BY <1>1
<1>3. e1 \in F /\ e2 \in F
  BY <1>1, <1>2
<1> QED BY <1>1, <1>2, <1>3 DEF InStep

\* The actual file of the comparison whose expected file is the last: both are last.
LEMMA ActualInStep ==
  ASSUME NEW F, InStep(F), DistinctNames(F),
         NEW n, n.side = "actual", \A f \in F \union {n} : f.suffix \in Nat,
         \A f \in F : f.name = n.name /\ f.side = "actual" => f.suffix < n.suffix,
         \A f \in F : f.by = n.by => f.side = "expected",
         \A e, f \in F : (/\ e.by = n.by /\ e.name = n.name
                          /\ f.side = "expected" /\ f.name = n.name)
                           => f.suffix <= e.suffix
  PROVE  InStep(F \union {n})
<1>1. SUFFICES ASSUME NEW e1 \in F \union {n}, NEW e2 \in F \union {n},
                      NEW a1 \in F \union {n}, NEW a2 \in F \union {n},
                      e1.side = "expected" /\ e2.side = "expected",
                      a1.side = "actual" /\ a2.side = "actual",
                      {e1.by, e2.by} \intersect {Incomplete} = {},
                      e1.by = a1.by /\ e2.by = a2.by,
                      e1.name = e2.name /\ a1.name = e1.name /\ a2.name = e1.name
               PROVE  e1.suffix < e2.suffix <=> a1.suffix < a2.suffix
  BY DEF InStep
<1>2. e1 \in F /\ e2 \in F
  BY <1>1
<1>3. CASE a1 = n
  <2>1. e2.suffix <= e1.suffix
    BY <1>1, <1>2, <1>3
  <2>2. a2 = n \/ a2.suffix < n.suffix
    BY <1>1, <1>3
  <2> QED BY <1>2, <1>3, <2>1, <2>2
<1>4. CASE a1 # n /\ a2 = n
  <2>1. a1 \in F /\ a1.suffix < n.suffix
    BY <1>1, <1>4
  <2>2. e1.suffix <= e2.suffix
    BY <1>1, <1>2, <1>4
  <2>3. e1.suffix # e2.suffix
    <3> SUFFICES ASSUME e1.suffix = e2.suffix PROVE FALSE
      OBVIOUS
    <3>1. e1 = e2
      BY <1>1, <1>2 DEF DistinctNames
    <3>2. a1.by = n.by
      BY <1>1, <1>4, <3>1
    <3> QED BY <2>1, <3>2, <1>1
  <2> QED BY <1>2, <1>4, <2>1, <2>2, <2>3
<1>5. CASE a1 # n /\ a2 # n
  BY <1>1, <1>2, <1>5 DEF InStep
<1> QED BY <1>3, <1>4, <1>5

-----------------------------------------------------------------------------
(* The directory: one file is created, filled or removed.                  *)

\* A path whose suffix is the first that is free: the new file takes no name in use
\* and leaves no gap, and is the last of its name and side.
LEMMA FileCreated ==
  ASSUME FilesTyped, DistinctNames(files), NoGap(files),
         NEW path, path.suffix \in Nat,
         \A k \in 0..(path.suffix - 1) :
           \E g \in files : g.name = path.name /\ g.side = path.side /\ g.suffix = k,
         CreateExclusive(path)
  PROVE  /\ files' = files \union {File(path, Incomplete)}
         /\ FilesTyped' /\ DistinctNames(files)' /\ NoGap(files)'
         /\ \A f \in files : f.name = path.name /\ f.side = path.side
                               => f.suffix < path.suffix
<1> DEFINE n == File(path, Incomplete)
<1>1. n.name = path.name /\ n.side = path.side /\ n.suffix = path.suffix
  BY DEF File
<1>2. /\ files' = files \union {n}
      /\ \A f \in files : ~(f.name = n.name /\ f.side = n.side /\ f.suffix = n.suffix)
  BY <1>1 DEF CreateExclusive, Put, Exists, At
<1> HIDE DEF n
<1>3. FilesTyped'
  BY <1>1, <1>2 DEF FilesTyped
<1>4. DistinctNames(files)'
  BY <1>2 DEF DistinctNames
<1>5. NoGap(files)'
  <2>1. \A f \in files : \A k \in 0..(f.suffix - 1) :
          \E g \in files' : g.name = f.name /\ g.side = f.side /\ g.suffix = k
    BY <1>2 DEF NoGap
  <2>2. \A k \in 0..(n.suffix - 1) :
          \E g \in files' : g.name = n.name /\ g.side = n.side /\ g.suffix = k
    BY <1>1, <1>2
  <2> QED BY <1>2, <2>1, <2>2 DEF NoGap
<1>6. ASSUME NEW f \in files, f.name = path.name, f.side = path.side
      PROVE  f.suffix < path.suffix
  <2>1. f.suffix \in Nat /\ f.suffix # path.suffix
    BY <1>1, <1>2, <1>6 DEF FilesTyped
  <2>2. CASE f.suffix > path.suffix
    <3>1. path.suffix \in 0..(f.suffix - 1)
      BY <2>1, <2>2
    <3>2. PICK g \in files : g.name = f.name /\ g.side = f.side /\ g.suffix = path.suffix
      BY <3>1 DEF NoGap
    <3> QED BY <1>1, <1>2, <1>6, <3>2
  <2> QED BY <2>1, <2>2
<1> QED BY <1>2, <1>3, <1>4, <1>5, <1>6 DEF n

\* The file at a path is the only one there.
LEMMA OneFileAtPath ==
  ASSUME DistinctNames(files), NEW path, File(path, Incomplete) \in files
  PROVE  At(path) = {File(path, Incomplete)}
<1>1. File(path, Incomplete).name = path.name /\ File(path, Incomplete).side = path.side
      /\ File(path, Incomplete).suffix = path.suffix
  BY DEF File
<1> QED BY <1>1 DEF At, DistinctNames

\* Filling the file at a path changes no other file.
LEMMA FileFilled ==
  ASSUME FilesTyped, DistinctNames(files), NoGap(files), NEW path, NEW by,
         File(path, Incomplete) \in files, WriteContent(path, by)
  PROVE  /\ files' = (files \ {File(path, Incomplete)}) \union {File(path, by)}
         /\ FilesTyped' /\ DistinctNames(files)' /\ NoGap(files)'
<1> DEFINE o == File(path, Incomplete)
           n == File(path, by)
<1>1. n.name = o.name /\ n.side = o.side /\ n.suffix = o.suffix
  BY DEF File
<1>2. files' = (files \ {o}) \union {n}
  BY OneFileAtPath DEF WriteContent, Put
<1>3. o \in files
  OBVIOUS
<1> HIDE DEF o, n
<1>4. FilesTyped'
  BY <1>1, <1>2, <1>3 DEF FilesTyped
<1>5. DistinctNames(files)'
  BY <1>1, <1>2, <1>3 DEF DistinctNames
<1>6. NoGap(files)'
  <2>1. \A g \in files : \E h \in files' : h.name = g.name /\ h.side = g.side /\ h.suffix = g.suffix
    BY <1>1, <1>2
  <2>2. \A f \in files' : \E g \in files : g.name = f.name /\ g.side = f.side /\ g.suffix = f.suffix
    BY <1>1, <1>2, <1>3
  <2>3. ASSUME NEW f \in files', NEW k \in 0..(f.suffix - 1)
        PROVE  \E h \in files' : h.name = f.name /\ h.side = f.side /\ h.suffix = k
    <3>1. PICK g \in files : g.name = f.name /\ g.side = f.side /\ g.suffix = f.suffix
      BY <2>2
    <3>2. PICK i \in files : i.name = g.name /\ i.side = g.side /\ i.suffix = k
      BY <3>1 DEF NoGap
    <3>3. PICK h \in files' : h.name = i.name /\ h.side = i.side /\ h.suffix = i.suffix
      BY <2>1
    <3> QED BY <3>1, <3>2, <3>3
  <2> QED BY <2>3 DEF NoGap
<1> QED BY <1>2, <1>4, <1>5, <1>6 DEF o, n

\* Removing the last file of its name and side leaves no gap.
LEMMA FileRemoved ==
  ASSUME FilesTyped, DistinctNames(files), NoGap(files), NEW path, path.suffix \in Nat,
         File(path, Incomplete) \in files, RemoveFile(path),
         \A f \in files : f.name = path.name /\ f.side = path.side => f.suffix <= path.suffix
  PROVE  /\ files' = files \ {File(path, Incomplete)}
         /\ FilesTyped' /\ DistinctNames(files)' /\ NoGap(files)'
<1> DEFINE o == File(path, Incomplete)
<1>1. o.name = path.name /\ o.side = path.side /\ o.suffix = path.suffix
  BY DEF File
<1>2. files' = files \ {o}
  BY OneFileAtPath DEF RemoveFile
<1> HIDE DEF o
<1>3. FilesTyped' /\ DistinctNames(files)'
  BY <1>2 DEF FilesTyped, DistinctNames
<1>4. ASSUME NEW f \in files', NEW k \in 0..(f.suffix - 1)
      PROVE  \E g \in files' : g.name = f.name /\ g.side = f.side /\ g.suffix = k
  <2>1. f \in files /\ f.suffix \in Nat
    BY <1>2 DEF FilesTyped
  <2>2. PICK g \in files : g.name = f.name /\ g.side = f.side /\ g.suffix = k
    BY <2>1 DEF NoGap
  <2>3. k < f.suffix
    BY <2>1
  <2>4. g # o
    <3> SUFFICES ASSUME g = o PROVE FALSE
      OBVIOUS
    <3>1. f.suffix <= path.suffix /\ k = path.suffix
      BY <1>1, <2>1, <2>2
    <3> QED BY <2>1, <2>3, <3>1
  <2> QED BY <1>2, <2>2, <2>4
<1>5. NoGap(files)'
  BY <1>4 DEF NoGap
<1> QED BY <1>2, <1>3, <1>5 DEF o

-----------------------------------------------------------------------------
(* Comparisons, and whose turn it is to write.                             *)

\* A comparison is known by its pair and its run.
LEMMA ComparisonsDistinct ==
  ASSUME TypeOK, SchedulerInv, NEW v \in Workers, NEW w \in Workers, v # w,
         grant[v].item \in Items
  PROVE  Comparison(v) # Comparison(w) /\ Comparison(v) # Incomplete
<1>1. grant[v] \in Grants /\ grant[w] \in Grants
  BY DEF TypeOK, SchedulerTypeOK, Workers
<1>2. \A g \in Grants : g.item \in Items => g = [item |-> g.item, run |-> g.run, ok |-> TRUE]
  <2> TAKE g \in Grants
  <2>1. CASE g \in {NoGrant, Nothing}
    BY <2>1 DEF NoGrant, Nothing, Items
  <2>2. CASE g \in [item : Items, run : Nat \ {0}, ok : {TRUE}]
    BY <2>2
  <2> QED BY <2>1, <2>2 DEF Grants
<1>3. grant[v] # grant[w]
  BY DEF SchedulerInv, RunNumbersUnique, Workers
<1>4. Comparison(v).item = grant[v].item /\ Comparison(v).run = grant[v].run
      /\ Comparison(w).item = grant[w].item /\ Comparison(w).run = grant[w].run
  BY DEF Comparison
<1>5. Comparison(v) # Comparison(w)
  <2> SUFFICES ASSUME Comparison(v) = Comparison(w) PROVE FALSE
    OBVIOUS
  <2>1. grant[w].item = grant[v].item /\ grant[w].run = grant[v].run
    BY <1>4
  <2>2. grant[v] = [item |-> grant[v].item, run |-> grant[v].run, ok |-> TRUE]
    BY <1>1, <1>2
  <2>3. grant[w] = [item |-> grant[w].item, run |-> grant[w].run, ok |-> TRUE]
    BY <1>1, <1>2, <2>1
  <2>4. grant[w] = grant[v]
    BY <2>1, <2>2, <2>3
  <2> QED BY <1>3, <2>4
<1>6. Incomplete.item \notin Items
  BY DEF Incomplete, Items
<1> QED BY <1>4, <1>5, <1>6

\* The mutex: taken by one worker, released when it has written or failed.
LEMMA MutexStep ==
  ASSUME TypeOK, MutexHeld, [Next]_vars
  PROVE  MutexHeld'
<1> USE DEF MutexHeld, Writing, Creating, Filling
<1>1. ASSUME NEW w \in Workers, Worker(w) PROVE MutexHeld'
  <2>1. \A v \in Workers \ {w} : pc'[v] = pc[v]
    BY <1>1, OthersKeep
  <2>2. \A v \in Workers : v # NoWriter
    BY ComparePairsAssumption DEF Workers
  <2> USE DEF Goto, TypeOK
  <2>3. CASE AcquireFileMu(w)
    BY <2>1, <2>2, <2>3 DEF AcquireFileMu, LockFiles
  <2>4. CASE SuffixTaken(w) \/ CreateFile(w) \/ FillExpected(w)
    <3>1. pc[w] \in Writing /\ pc'[w] \in Writing /\ UNCHANGED fileMu
      BY <2>4 DEF SuffixTaken, CreateFile, FillExpected
    <3> QED BY <2>1, <3>1
  <2>5. CASE FillActual(w) \/ WriteError(w)
    <3>1. pc[w] \in Writing /\ pc'[w] \notin Writing /\ fileMu' = NoWriter
      BY <2>5 DEF FillActual, WriteError, UnlockFiles
    <3> QED BY <2>1, <2>2, <3>1
  <2>6. CASE LeaveLoop(w) \/ EnterLoop(w) \/ NoMoreRuns(w) \/ StartRun(w)
             \/ ExecuteExpected(w) \/ ExecuteActual(w) \/ ExecuteFails(w) \/ Match(w)
             \/ Mismatch(w) \/ Interrupted(w) \/ ReportFailure(w) \/ FailOnce(w)
    <3>1. UNCHANGED fileMu
      BY <2>6 DEF LeaveLoop, EnterLoop, NoMoreRuns, StartRun, ExecuteExpected,
         ExecuteActual, ExecuteFails, Match, Mismatch, Interrupted, ReportFailure, FailOnce,
         disk
    <3>2. pc[w] \notin Writing /\ pc'[w] \notin Writing
      BY <2>6 DEF LeaveLoop, EnterLoop, NoMoreRuns, StartRun, ExecuteExpected,
         ExecuteActual, ExecuteFails, Match, Mismatch, Interrupted, ReportFailure, FailOnce
    <3> QED BY <2>1, <3>1, <3>2
  <2> QED BY <1>1, <2>3, <2>4, <2>5, <2>6 DEF Worker
<1>2. CASE \A w \in Workers : ~Worker(w)
  BY <1>2, TaskSteps DEF disk
<1> QED BY <1>1, <1>2

\* The worker that writes holds a run, and its comparison is not the mark of an
\* incomplete file.
LEMMA WriterHolds ==
  ASSUME ControlInv, NEW w \in Workers, pc[w] \in Holding
  PROVE  /\ Comparison(w).item \in Items /\ Comparison(w).run \in Nat
         /\ Comparison(w).run <= runCounts[Comparison(w).item]
         /\ Incomplete.item \notin Items /\ Comparison(w) # Incomplete
<1>1. grant[w].item \in Items
  BY DEF ControlInv, HoldsGrant
<1>2. grant[w] \in Grants /\ grant[w].run <= runCounts[grant[w].item]
  BY <1>1 DEF ControlInv, TypeOK, SchedulerTypeOK, SchedulerInv, RunNumbersUnique, Workers
<1>3. Comparison(w).item = grant[w].item /\ Comparison(w).run = grant[w].run
  BY DEF Comparison
<1>4. Incomplete.item \notin Items
  BY DEF Incomplete, Items
<1> QED BY <1>1, <1>2, <1>3, <1>4, GrantType

\* While one worker writes, no other one does.
LEMMA OthersWait ==
  ASSUME FilesInv, NEW w \in Workers, pc[w] \in Writing, NEW v \in Workers \ {w}
  PROVE  pc[v] \notin Writing
BY ComparePairsAssumption DEF FilesInv, MutexHeld, Workers

\* What the worker that holds the mutex does to its own file does not disturb the
\* turns of the others.
LEMMA OtherTurns ==
  ASSUME ControlInv, FilesInv, NEW w \in Workers, Worker(w), pc[w] \in Writing,
         UNCHANGED schedulerVars,
         NEW n, n.by \in {Comparison(w), Incomplete}, files' \subseteq files \union {n},
         NEW v \in Workers \ {w}
  PROVE  NoFilesBefore(v)' /\ ExpectedIsLast(v)' /\ FileInHand(v)'
<1>1. pc'[v] = pc[v] /\ grant' = grant /\ suffix'[v] = suffix[v]
  BY OthersKeep DEF ControlInv, schedulerVars
<1>2. pc[v] \notin Writing
  BY OthersWait
<1>3. ExpectedIsLast(v)'
  BY <1>1, <1>2 DEF ExpectedIsLast, Writing
<1>4. NoFilesBefore(v)'
  <2> SUFFICES ASSUME pc[v] \in BeforeTurn
               PROVE  \A f \in files' : f.by # Comparison(v)
    BY <1>1 DEF NoFilesBefore, Comparison
  <2>1. grant[v].item \in Items
    BY DEF ControlInv, HoldsGrant, Holding, BeforeTurn, Writing
  <2>2. n.by # Comparison(v)
    BY <2>1, ComparisonsDistinct DEF ControlInv
  <2> QED BY <2>2 DEF FilesInv, FilesOfOneTurn, NoFilesBefore
<1>5. FileInHand(v)'
  <2>1. suffix[v] = 0
    BY <1>2 DEF FilesInv, FilesOfOneTurn, FileInHand
  <2> QED BY <1>1, <1>2, <2>1 DEF FileInHand, Writing, Creating, Filling
<1> QED BY <1>3, <1>4, <1>5

\* The files of a step of the worker that holds the mutex belong to scheduled runs.
LEMMA WriterFiles ==
  ASSUME ControlInv, FilesInv, NEW w \in Workers, pc[w] \in Writing,
         UNCHANGED schedulerVars,
         NEW n, n.by \in {Comparison(w), Incomplete}, files' \subseteq files \union {n}
  PROVE  FilesOfScheduledRuns'
<1>1. n.by.item \in Items => n.by.run \in Nat /\ n.by.run <= runCounts[n.by.item]
  BY WriterHolds DEF Holding
<1>2. UNCHANGED runCounts
  BY DEF schedulerVars
<1> QED BY <1>1, <1>2 DEF FilesInv, FilesOfScheduledRuns

\* A step that leaves the files alone keeps them in the others' turns and in the
\* turn of its worker.
LEMMA QuietTurn ==
  ASSUME ControlInv, FilesInv, NEW w \in Workers, Worker(w), UNCHANGED files,
         ~CreateFile(w), ~FillExpected(w), ~FillActual(w)
  PROVE  FilesOfScheduledRuns' /\ NoFilesBefore(w)' /\ ExpectedIsLast(w)' /\ FileInHand(w)'
<1>0. TypeOK /\ NoFilesBefore(w) /\ ExpectedIsLast(w) /\ FileInHand(w) /\ suffix[w] \in Nat
  BY DEF ControlInv, FilesInv, FilesOfOneTurn, TypeOK
<1>1. CASE StartRun(w)
  <2>1. PICK i \in Items :
          /\ runCounts[i] \in Nat
          /\ runCounts' = [runCounts EXCEPT ![i] = runCounts[i] + 1]
          /\ grant'[w] = [item |-> i, run |-> runCounts[i] + 1, ok |-> TRUE]
          /\ pc[w] = "next" /\ pc'[w] = "expected"
    BY <1>0, <1>1, StartRunGrants
  <2>2. FilesOfScheduledRuns'
    <3>1. \A p \in Items : runCounts[p] \in Nat /\ runCounts'[p] \in Nat
                           /\ runCounts[p] <= runCounts'[p]
      BY <2>1 DEF ControlInv, TypeOK, SchedulerTypeOK
    <3>2. ASSUME NEW f \in files, f.by.item \in Items
          PROVE  f.by.run \in Nat /\ f.by.run <= runCounts'[f.by.item]
      BY <3>1, <3>2 DEF FilesInv, FilesOfScheduledRuns
    <3> QED BY <3>2 DEF FilesOfScheduledRuns
  <2>3. NoFilesBefore(w)'
    <3>1. Comparison(w)' = [item |-> i, run |-> runCounts[i] + 1]
      BY <2>1 DEF Comparison
    <3>2. ASSUME NEW f \in files, f.by = Comparison(w)' PROVE FALSE
      <4>1. f.by.item = i /\ f.by.run = runCounts[i] + 1
        BY <3>1, <3>2
      <4>2. f.by.run <= runCounts[i]
        BY <4>1 DEF FilesInv, FilesOfScheduledRuns
      <4> QED BY <2>1, <4>1, <4>2
    <3> QED BY <3>2 DEF NoFilesBefore
  <2>4. suffix'[w] = 0
    BY <1>0, <1>1, <2>1 DEF StartRun, disk, FileInHand, Writing
  <2> QED BY <2>1, <2>2, <2>3, <2>4 DEF ExpectedIsLast, FileInHand, Creating, Filling
<1>2. CASE NoMoreRuns(w)
  <2>1. pc'[w] = "done" /\ UNCHANGED runCounts /\ pc[w] = "next" /\ UNCHANGED suffix
    BY <1>0, <1>2 DEF NoMoreRuns, NoPairLeft, Exhausted, Goto, TypeOK, disk
  <2> QED BY <1>0, <2>1 DEF FilesInv, FilesOfScheduledRuns, NoFilesBefore, ExpectedIsLast,
        FileInHand, BeforeTurn, Writing, Creating, Filling
<1>3. CASE ~StartRun(w) /\ ~NoMoreRuns(w)
  <2>1. UNCHANGED <<runCounts, grant>>
    BY <1>3, GrantChanges DEF schedulerVars
  <2>2. Comparison(w)' = Comparison(w)
    BY <2>1 DEF Comparison
  <2>3. FilesOfScheduledRuns'
    BY <2>1 DEF FilesInv, FilesOfScheduledRuns
  <2>4. CASE SuffixTaken(w)
    <3>1. /\ pc[w] \in Creating /\ UNCHANGED pc /\ suffix'[w] = suffix[w] + 1
          /\ Exists(Path(w))
      BY <1>0, <2>4 DEF SuffixTaken, TypeOK
    <3>2. PICK g \in Rivals(w) : g.suffix = suffix[w]
      BY <3>1 DEF Exists, At, Path, Rivals
    <3>3. \A k \in 0..(suffix'[w] - 1) : \E h \in Rivals(w) : h.suffix = k
      <4>1. ASSUME NEW k \in 0..(suffix'[w] - 1), k # suffix[w]
            PROVE  k \in 0..(suffix[w] - 1)
        BY <1>0, <3>1, <4>1
      <4>2. \A k \in 0..(suffix[w] - 1) : \E h \in Rivals(w) : h.suffix = k
        BY <1>0, <3>1 DEF FileInHand
      <4> QED BY <3>2, <4>1, <4>2
    <3>4. Rivals(w)' = Rivals(w)
      BY <2>1, <3>1 DEF Rivals, Side
    <3>5. FileInHand(w)'
      BY <3>1, <3>3, <3>4 DEF FileInHand, Creating, Filling, Writing
    <3>6. NoFilesBefore(w)' /\ ExpectedIsLast(w)'
      BY <1>0, <2>1, <2>2, <3>1 DEF NoFilesBefore, ExpectedIsLast
    <3> QED BY <2>3, <3>5, <3>6
  <2>5. CASE AcquireFileMu(w)
    <3>1. pc[w] = "lock" /\ pc'[w] = "create-expected" /\ UNCHANGED suffix
      BY <1>0, <2>5 DEF AcquireFileMu, Goto, TypeOK
    <3>2. suffix'[w] = 0
      BY <1>0, <3>1 DEF FileInHand, Writing
    <3>3. NoFilesBefore(w)' /\ ExpectedIsLast(w)'
      BY <1>0, <2>2, <3>1 DEF NoFilesBefore, ExpectedIsLast, BeforeTurn
    <3>4. FileInHand(w)'
      BY <3>1, <3>2 DEF FileInHand, Writing, Creating, Filling
    <3> QED BY <2>3, <3>3, <3>4
  <2>6. CASE WriteError(w)
    <3>1. pc'[w] = "error" /\ suffix'[w] = 0
      BY <1>0, <2>6 DEF WriteError, TypeOK
    <3> QED BY <2>3, <3>1 DEF NoFilesBefore, ExpectedIsLast, FileInHand, BeforeTurn, Writing,
          Creating, Filling
  <2>7. CASE LeaveLoop(w) \/ EnterLoop(w) \/ ExecuteExpected(w) \/ ExecuteActual(w)
             \/ ExecuteFails(w) \/ Match(w) \/ Mismatch(w) \/ Interrupted(w)
             \/ ReportFailure(w) \/ FailOnce(w)
    <3>1. /\ pc[w] \notin Writing /\ pc'[w] \notin Writing /\ UNCHANGED suffix
          /\ pc'[w] \in BeforeTurn => pc[w] \in BeforeTurn
      BY <1>0, <2>7 DEF LeaveLoop, EnterLoop, ExecuteExpected, ExecuteActual, ExecuteFails,
         Match, Mismatch, Interrupted, ReportFailure, FailOnce, Goto, TypeOK, disk, Writing,
         BeforeTurn
    <3>2. suffix'[w] = 0
      BY <1>0, <3>1 DEF FileInHand
    <3>3. NoFilesBefore(w)'
      BY <1>0, <2>2, <3>1 DEF NoFilesBefore
    <3> QED BY <2>3, <3>1, <3>2, <3>3 DEF ExpectedIsLast, FileInHand, Writing, Creating, Filling
  <2> QED BY <1>3, <2>4, <2>5, <2>6, <2>7 DEF Worker
<1> QED BY <1>1, <1>2, <1>3

\* So a step that leaves the files alone keeps the invariant.
LEMMA QuietStep ==
  ASSUME ControlInv, FilesInv, NEW w \in Workers, Worker(w), UNCHANGED files,
         ~CreateFile(w), ~FillExpected(w), ~FillActual(w)
  PROVE  FilesInv'
<1>1. MutexHeld'
  BY MutexStep DEF ControlInv, FilesInv, Next
<1>2. FilesTyped' /\ DistinctNames(files)' /\ NoGap(files)' /\ SidesInStep'
  BY DEF FilesInv, FilesTyped, SidesInStep
<1>3. ASSUME NEW v \in Workers \ {w}
      PROVE  NoFilesBefore(v)' /\ ExpectedIsLast(v)' /\ FileInHand(v)'
  <2>1. pc'[v] = pc[v] /\ grant'[v] = grant[v] /\ suffix'[v] = suffix[v]
    BY OthersKeep DEF ControlInv
  <2>2. NoFilesBefore(v)' /\ ExpectedIsLast(v)'
    BY <2>1 DEF FilesInv, FilesOfOneTurn, NoFilesBefore, ExpectedIsLast, Comparison
  <2>3. Rivals(v)' = Rivals(v) /\ Path(v)' = Path(v)
    BY <2>1 DEF Rivals, Path, Side
  <2>4. FileInHand(v)'
    BY <2>1, <2>3 DEF FilesInv, FilesOfOneTurn, FileInHand
  <2> QED BY <2>2, <2>4
<1> QED BY <1>1, <1>2, <1>3, QuietTurn DEF FilesInv, FilesOfOneTurn

\* The file in a worker's hand: its path, the rivals below it.
LEMMA OwnFile ==
  ASSUME ControlInv, FilesInv, NEW w \in Workers, pc[w] \in Filling
  PROVE  /\ File(Path(w), Incomplete) \in files /\ suffix[w] \in Nat
         /\ Path(w).name = PairName[grant[w].item] /\ Path(w).side = Side(w)
         /\ Path(w).suffix = suffix[w]
         /\ \A f \in files : f.name = Path(w).name /\ f.side = Path(w).side
                               => f.suffix <= Path(w).suffix
         /\ \A f \in files \ {File(Path(w), Incomplete)} :
              f.name = Path(w).name /\ f.side = Path(w).side => f.suffix < Path(w).suffix
<1> DEFINE o == File(Path(w), Incomplete)
<1>1. /\ Path(w).name = PairName[grant[w].item] /\ Path(w).side = Side(w)
      /\ Path(w).suffix = suffix[w] /\ suffix[w] \in Nat
  BY DEF Path, ControlInv, TypeOK
<1>2. o \in files /\ \A f \in Rivals(w) : f.suffix <= suffix[w]
  BY DEF FilesInv, FilesOfOneTurn, FileInHand
<1>3. \A f \in files : f.name = Path(w).name /\ f.side = Path(w).side => f.suffix <= suffix[w]
  BY <1>1, <1>2 DEF Rivals
<1>4. o.name = Path(w).name /\ o.side = Path(w).side /\ o.suffix = suffix[w]
  BY <1>1 DEF File
<1> HIDE DEF o
<1>5. ASSUME NEW f \in files \ {o}, f.name = Path(w).name, f.side = Path(w).side
      PROVE  f.suffix < suffix[w]
  <2>1. f.suffix # suffix[w]
    BY <1>2, <1>4, <1>5 DEF FilesInv, DistinctNames
  <2>2. f.suffix <= suffix[w] /\ f.suffix \in Nat
    BY <1>3, <1>5 DEF FilesInv, FilesTyped
  <2> QED BY <1>1, <2>1, <2>2
<1> QED BY <1>1, <1>2, <1>3, <1>5 DEF o

\* O_CREATE|O_EXCL creates the last file of its name and side.
LEMMA CreateFileStep ==
  ASSUME ControlInv, FilesInv, NEW w \in Workers, CreateFile(w)
  PROVE  FilesInv'
<1> DEFINE n == File(Path(w), Incomplete)
<1>0. TypeOK /\ NoFilesBefore(w) /\ ExpectedIsLast(w) /\ FileInHand(w) /\ suffix[w] \in Nat
  BY DEF ControlInv, FilesInv, FilesOfOneTurn, TypeOK
<1>1. Worker(w) /\ pc[w] \in Creating /\ pc[w] \in Writing /\ CreateExclusive(Path(w))
      /\ UNCHANGED <<schedulerVars, suffix, grant, runCounts>>
      /\ <<pc[w], pc'[w]>> \in {<<"create-expected", "fill-expected">>,
                                <<"create-actual", "fill-actual">>}
  BY <1>0 DEF CreateFile, Worker, TypeOK, schedulerVars, Creating, Writing, Side
<1>2. MutexHeld'
  BY <1>0, <1>1, MutexStep DEF FilesInv, Next
<1>3. Path(w).name = PairName[grant[w].item] /\ Path(w).side = Side(w) /\ Path(w).suffix = suffix[w]
  BY DEF Path
<1>4. /\ files' = files \union {n}
      /\ FilesTyped' /\ DistinctNames(files)' /\ NoGap(files)'
      /\ \A f \in Rivals(w) : f.suffix < suffix[w]
  <2>1. \A k \in 0..(Path(w).suffix - 1) :
          \E g \in files : g.name = Path(w).name /\ g.side = Path(w).side /\ g.suffix = k
    BY <1>0, <1>1, <1>3 DEF FileInHand, Rivals
  <2>2. FilesTyped /\ DistinctNames(files) /\ NoGap(files)
    BY DEF FilesInv
  <2> HIDE DEF n
  <2>3. /\ files' = files \union {File(Path(w), Incomplete)}
        /\ FilesTyped' /\ DistinctNames(files)' /\ NoGap(files)'
        /\ \A f \in files : f.name = Path(w).name /\ f.side = Path(w).side
                              => f.suffix < Path(w).suffix
    BY <1>0, <1>1, <1>3, <2>1, <2>2, FileCreated
  <2> QED BY <1>3, <2>3 DEF Rivals, n
<1>5. /\ n.by = Incomplete /\ n.name = PairName[grant[w].item] /\ n.side = Side(w)
      /\ n.suffix = suffix[w]
  BY <1>3 DEF File
<1>6. Side(w)' = Side(w) /\ Path(w)' = Path(w) /\ Comparison(w)' = Comparison(w)
  BY <1>1 DEF Side, Path, Comparison
<1>7. Comparison(w) # Incomplete
  BY <1>1, WriterHolds DEF Holding
<1>8. n = File(Path(w), Incomplete)
  OBVIOUS
<1> HIDE DEF n
<1>9. SidesInStep'
  <2>1. InStep(files \union {n})
    BY <1>5, IncompleteInStep DEF FilesInv, SidesInStep
  <2> QED BY <1>4, <2>1 DEF SidesInStep, InStep
<1>10. FilesOfScheduledRuns'
  BY <1>1, <1>4, <1>5, WriterFiles
<1>11. \A v \in Workers \ {w} : NoFilesBefore(v)' /\ ExpectedIsLast(v)' /\ FileInHand(v)'
  BY <1>1, <1>4, <1>5, OtherTurns
<1>12. NoFilesBefore(w)'
  BY <1>0, <1>1, <1>4, <1>5, <1>6, <1>7 DEF NoFilesBefore, BeforeTurn
<1>13. ExpectedIsLast(w)'
  <2>1. CASE pc[w] = "create-expected"
    BY <1>1, <2>1 DEF ExpectedIsLast
  <2>2. CASE pc[w] = "create-actual"
    <3>1. n.side = "actual"
      BY <1>5, <2>2 DEF Side
    <3> QED BY <1>0, <1>1, <1>4, <1>5, <1>6, <1>7, <2>2, <3>1 DEF ExpectedIsLast
  <2> QED BY <1>1, <2>1, <2>2
<1>14. FileInHand(w)'
  <2>1. \A f \in Rivals(w)' : f.suffix <= suffix[w]
    <3>1. ASSUME NEW f \in Rivals(w)' PROVE f \in Rivals(w) \/ f = n
      BY <1>1, <1>4, <1>6, <3>1 DEF Rivals
    <3>2. \A f \in Rivals(w) : f.suffix \in Nat
      BY DEF Rivals, FilesInv, FilesTyped
    <3> QED BY <1>0, <1>4, <1>5, <3>1, <3>2
  <2>2. File(Path(w), Incomplete)' = n
    BY <1>6, <1>8 DEF File, Incomplete
  <2> QED BY <1>1, <1>4, <2>1, <2>2 DEF FileInHand, Creating, Filling, Writing
<1> QED BY <1>2, <1>4, <1>9, <1>10, <1>11, <1>12, <1>13, <1>14 DEF FilesInv, FilesOfOneTurn

\* The content of a file is written, and the expected file is the comparison's first.
LEMMA FillExpectedStep ==
  ASSUME ControlInv, FilesInv, NEW w \in Workers, FillExpected(w)
  PROVE  FilesInv'
<1> DEFINE o == File(Path(w), Incomplete)
           n == File(Path(w), Comparison(w))
<1>0. TypeOK /\ NoFilesBefore(w) /\ suffix[w] \in Nat
  BY DEF ControlInv, FilesInv, FilesOfOneTurn, TypeOK
<1>1. Worker(w) /\ pc[w] \in Filling /\ pc[w] \in Writing /\ pc[w] = "fill-expected"
      /\ WriteContent(Path(w), Comparison(w))
      /\ UNCHANGED <<schedulerVars, grant, runCounts>>
      /\ pc'[w] = "create-actual" /\ suffix'[w] = 0
  BY <1>0 DEF FillExpected, Worker, TypeOK, schedulerVars, Filling, Writing, Goto
<1>2. MutexHeld'
  BY <1>0, <1>1, MutexStep DEF FilesInv, Next
<1>3. /\ files' = (files \ {o}) \union {n}
      /\ FilesTyped' /\ DistinctNames(files)' /\ NoGap(files)'
  <2>1. FilesTyped /\ DistinctNames(files) /\ NoGap(files)
    BY DEF FilesInv
  <2> QED BY <1>1, <2>1, OwnFile, FileFilled
<1>4. /\ n.by = Comparison(w) /\ n.name = PairName[grant[w].item] /\ n.side = "expected"
      /\ n.suffix = suffix[w]
  BY <1>1 DEF File, Path, Side
<1>5. \A f \in files : f.name = n.name /\ f.side = "expected" => f.suffix <= n.suffix
  BY <1>1, <1>4, OwnFile DEF Side
<1>6. Comparison(w)' = Comparison(w)
  BY <1>1 DEF Comparison
<1>7. \A f \in files : f.by # Comparison(w)
  BY <1>0, <1>1 DEF NoFilesBefore, BeforeTurn
<1> HIDE DEF n, o
<1>8. SidesInStep'
  <2>1. InStep((files \ {o}) \union {n})
    <3>1. InStep(files \ {o})
      BY FewerInStep DEF FilesInv, SidesInStep
    <3> QED BY <3>1, <1>4, <1>7, ExpectedInStep
  <2> QED BY <1>3, <2>1 DEF SidesInStep, InStep
<1>9. files' \subseteq files \union {n}
  BY <1>3
<1>10. FilesOfScheduledRuns'
  BY <1>1, <1>9, <1>4, WriterFiles
<1>11. \A v \in Workers \ {w} : NoFilesBefore(v)' /\ ExpectedIsLast(v)' /\ FileInHand(v)'
  BY <1>1, <1>9, <1>4, OtherTurns
<1>12. NoFilesBefore(w)' /\ FileInHand(w)'
  BY <1>1 DEF NoFilesBefore, FileInHand, BeforeTurn, Creating, Filling, Writing
<1>13. ExpectedIsLast(w)'
  <2>1. \A e \in files' : e.by = Comparison(w) => e = n
    BY <1>7, <1>9
  <2>2. \A f \in files' : f.side = "expected" /\ f.name = n.name => f.suffix <= n.suffix
    BY <1>0, <1>4, <1>5, <1>9
  <2> QED BY <1>1, <1>4, <1>6, <2>1, <2>2 DEF ExpectedIsLast
<1> QED BY <1>2, <1>3, <1>8, <1>10, <1>11, <1>12, <1>13 DEF FilesInv, FilesOfOneTurn

\* The actual file of the comparison whose expected file is the last.
LEMMA FillActualStep ==
  ASSUME ControlInv, FilesInv, NEW w \in Workers, FillActual(w)
  PROVE  FilesInv'
<1> DEFINE o == File(Path(w), Incomplete)
           n == File(Path(w), Comparison(w))
<1>0. TypeOK /\ ExpectedIsLast(w) /\ suffix[w] \in Nat
  BY DEF ControlInv, FilesInv, FilesOfOneTurn, TypeOK
<1>1. Worker(w) /\ pc[w] \in Filling /\ pc[w] \in Writing /\ pc[w] = "fill-actual"
      /\ WriteContent(Path(w), Comparison(w))
      /\ UNCHANGED <<schedulerVars, grant, runCounts>>
      /\ pc'[w] = "error" /\ suffix'[w] = 0
  BY <1>0 DEF FillActual, Worker, TypeOK, schedulerVars, Filling, Writing, Goto
<1>2. MutexHeld'
  BY <1>0, <1>1, MutexStep DEF FilesInv, Next
<1>3. /\ files' = (files \ {o}) \union {n}
      /\ FilesTyped' /\ DistinctNames(files)' /\ NoGap(files)'
  <2>1. FilesTyped /\ DistinctNames(files) /\ NoGap(files)
    BY DEF FilesInv
  <2> QED BY <1>1, <2>1, OwnFile, FileFilled
<1>4. /\ n.by = Comparison(w) /\ n.name = PairName[grant[w].item] /\ n.side = "actual"
      /\ n.suffix = suffix[w]
  BY <1>1 DEF File, Path, Side
<1>5. \A f \in files \ {o} : f.name = n.name /\ f.side = "actual" => f.suffix < n.suffix
  BY <1>1, <1>4, OwnFile DEF Side
<1> HIDE DEF n, o
<1>8. SidesInStep'
  <2>1. InStep((files \ {o}) \union {n})
    <3> DEFINE F == files \ {o}
    <3>1. InStep(F)
      BY FewerInStep DEF FilesInv, SidesInStep
    <3>2. DistinctNames(F)
      BY DEF FilesInv, DistinctNames
    <3>3. \A f \in F \union {n} : f.suffix \in Nat
      BY <1>0, <1>4 DEF FilesInv, FilesTyped
    <3>4. /\ \A f \in F : f.by = n.by => f.side = "expected"
          /\ \A e, f \in F : (/\ e.by = n.by /\ e.name = n.name
                              /\ f.side = "expected" /\ f.name = n.name)
                               => f.suffix <= e.suffix
      BY <1>0, <1>1, <1>4 DEF ExpectedIsLast
    <3>5. \A f \in F : f.name = n.name /\ f.side = "actual" => f.suffix < n.suffix
      BY <1>5
    <3> HIDE DEF F
    <3>6. InStep(F \union {n})
      BY <1>4, <3>1, <3>2, <3>3, <3>4, <3>5, ActualInStep
    <3> QED BY <3>6 DEF F
  <2> QED BY <1>3, <2>1 DEF SidesInStep, InStep
<1>9. files' \subseteq files \union {n}
  BY <1>3
<1>10. FilesOfScheduledRuns'
  BY <1>1, <1>9, <1>4, WriterFiles
<1>11. \A v \in Workers \ {w} : NoFilesBefore(v)' /\ ExpectedIsLast(v)' /\ FileInHand(v)'
  BY <1>1, <1>9, <1>4, OtherTurns
<1>12. NoFilesBefore(w)' /\ FileInHand(w)' /\ ExpectedIsLast(w)'
  BY <1>1 DEF NoFilesBefore, FileInHand, ExpectedIsLast, BeforeTurn, Creating, Filling, Writing
<1> QED BY <1>2, <1>3, <1>8, <1>10, <1>11, <1>12 DEF FilesInv, FilesOfOneTurn

\* A file that could not be written is removed, or left incomplete.
LEMMA WriteErrorStep ==
  ASSUME ControlInv, FilesInv, NEW w \in Workers, WriteError(w)
  PROVE  FilesInv'
<1> DEFINE o == File(Path(w), Incomplete)
<1>1. CASE UNCHANGED files
  <2>1. ~CreateFile(w) /\ ~FillExpected(w) /\ ~FillActual(w)
    <3>1. TypeOK /\ pc'[w] = "error"
      BY DEF ControlInv, TypeOK, WriteError
    <3>2. ~CreateFile(w) /\ ~FillExpected(w)
      BY <3>1 DEF CreateFile, FillExpected, Goto, TypeOK
    <3>3. ASSUME FillActual(w) PROVE FALSE
      <4>1. pc[w] = "fill-actual" /\ WriteContent(Path(w), Comparison(w))
        BY <3>3 DEF FillActual, Goto
      <4>2. o \in files /\ At(Path(w)) = {o}
        BY <4>1, OwnFile, OneFileAtPath DEF Filling, FilesInv
      <4>3. o.by = Incomplete /\ File(Path(w), Comparison(w)).by = Comparison(w)
        BY DEF File
      <4>4. Comparison(w) # Incomplete
        BY <4>1, WriterHolds DEF Holding, Writing
      <4>5. files' = (files \ {o}) \union {File(Path(w), Comparison(w))}
        BY <4>1, <4>2 DEF WriteContent, Put
      <4> QED BY <1>1, <4>2, <4>3, <4>4, <4>5
    <3> QED BY <3>2, <3>3
  <2> QED BY <1>1, <2>1, QuietStep DEF Worker
<1>2. CASE pc[w] \in Filling /\ RemoveFile(Path(w))
  <2>1. /\ Worker(w) /\ pc[w] \in Writing /\ pc'[w] = "error" /\ suffix'[w] = 0
        /\ UNCHANGED schedulerVars
    BY <1>2 DEF WriteError, Worker, ControlInv, TypeOK, Filling, Writing
  <2>2. MutexHeld'
    BY <2>1, MutexStep DEF ControlInv, FilesInv, Next
  <2>3. /\ files' = files \ {o}
        /\ FilesTyped' /\ DistinctNames(files)' /\ NoGap(files)'
    <3>1. FilesTyped /\ DistinctNames(files) /\ NoGap(files)
      BY DEF FilesInv
    <3> QED BY <1>2, <3>1, OwnFile, FileRemoved
  <2>4. o.by = Incomplete
    BY DEF File
  <2> HIDE DEF o
  <2>5. SidesInStep'
    <3>1. InStep(files \ {o})
      BY FewerInStep DEF FilesInv, SidesInStep
    <3> QED BY <2>3, <3>1 DEF SidesInStep, InStep
  <2>6. FilesOfScheduledRuns'
    BY <2>1, <2>3, <2>4, WriterFiles
  <2>7. \A v \in Workers \ {w} : NoFilesBefore(v)' /\ ExpectedIsLast(v)' /\ FileInHand(v)'
    BY <2>1, <2>3, <2>4, OtherTurns
  <2>8. NoFilesBefore(w)' /\ FileInHand(w)' /\ ExpectedIsLast(w)'
    BY <2>1 DEF NoFilesBefore, FileInHand, ExpectedIsLast, BeforeTurn, Creating, Filling, Writing
  <2> QED BY <2>2, <2>3, <2>5, <2>6, <2>7, <2>8 DEF FilesInv, FilesOfOneTurn
<1> QED BY <1>1, <1>2 DEF WriteError

\* Only the steps that write touch the files.
LEMMA OnlyWritersWrite ==
  ASSUME NEW w \in Workers, Worker(w)
  PROVE  \/ CreateFile(w) \/ FillExpected(w) \/ FillActual(w) \/ WriteError(w)
         \/ UNCHANGED files
BY DEF Worker, LeaveLoop, EnterLoop, NoMoreRuns, StartRun, ExecuteExpected, ExecuteActual,
       ExecuteFails, Match, Mismatch, AcquireFileMu, SuffixTaken, Interrupted, ReportFailure,
       FailOnce, disk

\* The files part of the invariant is kept by every step.
LEMMA FilesStep == ASSUME ControlInv, FilesInv, [Next]_vars PROVE FilesInv'
<1>1. CASE \E w \in Workers : Worker(w)
  BY <1>1, OnlyWritersWrite, QuietStep, CreateFileStep, FillExpectedStep, FillActualStep,
     WriteErrorStep
<1>2. CASE \A w \in Workers : ~Worker(w)
  <2>1. /\ UNCHANGED <<files, fileMu, suffix, grant, runCounts>>
        /\ \A w \in Workers : \/ pc'[w] = pc[w]
                              \/ pc[w] = "unstarted" /\ pc'[w] = "select"
    BY <1>2, TaskSteps DEF ControlInv, schedulerVars, disk
  <2>2. FilesTyped' /\ MutexHeld' /\ FilesOfScheduledRuns' /\ DistinctNames(files)'
        /\ NoGap(files)' /\ SidesInStep'
    BY <2>1 DEF FilesInv, FilesTyped, MutexHeld, Writing, FilesOfScheduledRuns, SidesInStep
  <2>3. ASSUME NEW w \in Workers
        PROVE  NoFilesBefore(w)' /\ ExpectedIsLast(w)' /\ FileInHand(w)'
    <3>1. CASE pc'[w] = pc[w]
      <4>1. Rivals(w)' = Rivals(w) /\ Path(w)' = Path(w) /\ Comparison(w)' = Comparison(w)
        BY <2>1, <3>1 DEF Rivals, Path, Side, Comparison
      <4> QED BY <2>1, <3>1, <4>1 DEF FilesInv, FilesOfOneTurn, NoFilesBefore, ExpectedIsLast,
            FileInHand
    <3>2. CASE pc[w] = "unstarted" /\ pc'[w] = "select"
      BY <2>1, <3>2 DEF FilesInv, FilesOfOneTurn, NoFilesBefore, ExpectedIsLast, FileInHand,
         BeforeTurn, Writing, Creating, Filling
    <3> QED BY <2>1, <3>1, <3>2
  <2> QED BY <2>2, <2>3 DEF FilesInv, FilesOfOneTurn
<1> QED BY <1>1, <1>2

-----------------------------------------------------------------------------
\* The inductive invariant holds in every state of a comparison, whatever directory
\* of failure files it finds.
THEOREM ComparisonInvariant == Spec => []IInv
<1>1. Init => IInv
  <2> SUFFICES ASSUME Init PROVE IInv
    OBVIOUS
  <2>1. SchedulerInv
    BY NewSchedulerInv DEF Init, NewRandomPairScheduler
  <2>2. TypeOK
    BY <2>1, SchedulerAssumption DEF Init, TypeOK, SchedulerInv, Grants, Workers, NoFailure
  <2>3. HoldsGrant /\ ErrorsOnTheirWay /\ DoneForReason /\ ReturnsLast /\ SuccessUndisturbed
    BY DEF Init, HoldsGrant, Holding, Writing, ErrorsOnTheirWay, DoneForReason, ReturnsLast,
       SuccessUndisturbed
  <2>4. FailureKept
    BY DEF Init, FailureKept
  <2>5. RunsAccounted
    <3>1. \A p \in Items : Unfinished(p) = {}
      BY DEF Init, Unfinished, Holding, Writing
    <3>2. \A p \in Items : runCounts[p] = 0 /\ completedRuns[p] = 0
      BY DEF Init, NewRandomPairScheduler, NewScheduler
    <3> QED BY <3>1, <3>2, FS_EmptySet DEF RunsAccounted
  <2>6. FilesInv
    <3>1. \A w \in Workers : pc[w] = "unstarted" /\ w # NoWriter
      BY ComparePairsAssumption DEF Init, Workers
    <3>2. FilesTyped /\ DistinctNames(files) /\ NoGap(files) /\ SidesInStep
          /\ FilesOfScheduledRuns
      BY InitialFilesAssumption DEF Init, FilesTyped, SidesInStep, FilesOfScheduledRuns
    <3>3. MutexHeld /\ FilesOfOneTurn
      BY <3>1 DEF Init, MutexHeld, Writing, FilesOfOneTurn, NoFilesBefore, ExpectedIsLast,
         BeforeTurn, FileInHand, Creating, Filling
    <3> QED BY <3>2, <3>3 DEF FilesInv
  <2> QED BY <2>1, <2>2, <2>3, <2>4, <2>5, <2>6 DEF IInv, ControlInv
<1>2. IInv /\ [Next]_vars => IInv'
  BY ControlStep, FilesStep DEF IInv
<1> QED BY <1>1, <1>2, PTL DEF Spec

\* The failure returned is the one that stopped the comparison, never the context
\* error of an execution that it interrupted (compare_results.go:542-544).
THEOREM FirstFailureAlwaysGenuine == Spec => []FirstFailureIsGenuine
<1>1. IInv => FirstFailureIsGenuine
  BY DEF IInv, ControlInv, FailureKept, FirstFailureIsGenuine, NoFailure
<1> QED BY <1>1, ComparisonInvariant, PTL

\* A comparison whose rows differed, or whose SQL failed, never ends as a success.
THEOREM FailuresNeverSwallowed == Spec => []NoFailureSwallowed
<1>1. IInv => NoFailureSwallowed
  BY SuccessMeans DEF IInv, NoFailureSwallowed
<1> QED BY <1>1, ComparisonInvariant, PTL

\* A success has completed every run that was scheduled, and without a deadline
\* every run that compareResultRunsPerPair asks for.
THEOREM SuccessAlwaysComplete == Spec => []SuccessIsComplete
<1>1. IInv => SuccessIsComplete
  BY SuccessMeans DEF IInv, SuccessIsComplete
<1> QED BY <1>1, ComparisonInvariant, PTL

\* compareFailureFileMu and the exclusive creation keep the expected and the actual
\* files of a pair in the same order, for any number of workers, any failed writes
\* and whatever earlier processes left.
THEOREM SidesAlwaysInStep == Spec => []SidesInStep
<1>1. IInv => SidesInStep
  BY DEF IInv, FilesInv
<1> QED BY <1>1, ComparisonInvariant, PTL

\* A failure file keeps its rows, for any number of workers and whatever earlier
\* processes left: creating takes a path at which there is nothing, and what is filled
\* or removed is the incomplete file that the worker has created itself.
THEOREM FilesAlwaysKept == Spec => FilesKept
<1> DEFINE Kept == \A f \in files :
                     f \in files' \/ \E w \in Workers : /\ pc[w] \in Filling
                                                       /\ f = File(Path(w), Incomplete)
<1>1. IInv /\ [Next]_vars => [Kept]_files
  <2> SUFFICES ASSUME IInv, [Next]_vars, files' # files
               PROVE  Kept
    OBVIOUS
  <2>1. PICK w \in Workers : Worker(w)
    BY TaskSteps DEF IInv, ControlInv, disk
  <2>2. CASE CreateFile(w)
    <3>1. files \subseteq files'
      BY <2>2 DEF CreateFile, CreateExclusive, Put, Exists
    <3> QED BY <3>1
  <2>3. CASE FillExpected(w) \/ FillActual(w) \/ WriteError(w)
    <3>1. files \ At(Path(w)) \subseteq files' /\ (pc[w] \in Filling \/ files' = files)
      BY <2>3 DEF FillExpected, FillActual, WriteError, WriteContent, Put, RemoveFile, Goto,
         Filling
    <3>2. pc[w] \in Filling
      BY <3>1
    <3>3. At(Path(w)) = {File(Path(w), Incomplete)}
      BY <3>2, OwnFile, OneFileAtPath DEF IInv, FilesInv
    <3> QED BY <3>1, <3>2, <3>3
  <2> QED BY <2>1, <2>2, <2>3, OnlyWritersWrite
<1> QED BY <1>1, ComparisonInvariant, PTL DEF Spec, FilesKept

\* randomPairScheduler, shared by all workers, implements the quota: no pair runs
\* beyond its limit, no worker is refused while runs are left.
THEOREM ComparisonImplementsQuota == Spec => ImplementsQuota
<1>1. Init => Quota!QuotaInit
  BY SchedulerAssumption DEF Init, NewRandomPairScheduler, NewScheduler, Quota!QuotaInit,
     Quota!Items, Items, Quota!NoAnswer, NoGrant
<1>2. IInv /\ [Next]_vars => [Quota!QuotaNext]_(Quota!quotaVars)
  BY SchedulerSteps, TakeGrants, ExhaustedRefuses DEF IInv, ControlInv, schedulerVars,
     Quota!quotaVars
<1> QED BY <1>1, <1>2, ComparisonInvariant, PTL DEF Spec, ImplementsQuota, Quota!QuotaSpec
=============================================================================
