------------------------ MODULE InsertValues_proofs ------------------------
(***************************************************************************)
(* The insert-values task, for any number of tasks and any settings: the   *)
(* table receives what was asked for, what a task has counted is what the  *)
(* table holds, statements are as configured, and the first error is the   *)
(* one that is returned.                                                   *)
(***************************************************************************)
EXTENDS InsertValues, FiniteSetTheorems, TLAPS

\* Where a task is on both sides of the runner; tasks run for valid settings only.
TasksStarted ==
  /\ \A t \in Tasks : pc[t] # "outside" <=> status[t] = "running"
  /\ \A t \in Tasks : status[t] # "unstarted" => ValidSettings /\ t <= spawned
  /\ runReturned => \A t \in Tasks : status[t] = "ended"
  /\ result \in {"success", "close"} => runReturned /\ ValidSettings /\ runErr = "nil"

\* A task never counts more than its share; only the outcome of a failed batch is
\* not in its count, and no batch follows it.
BeforeError == {"check", "loop", "batch"}
SharesCounted ==
  \A t \in Tasks :
    /\ ValidSettings => inserted[t] <= InsertCnt(t)
    /\ stored[t] \in {inserted[t], inserted[t] + RowCount(t)}
    /\ stored[t] # inserted[t] => pc[t] = "failed" \/ taskErr[t] # "nil"
    /\ status[t] \in {"unstarted", "spawned"} \/ pc[t] \in BeforeError =>
         taskErr[t] = "nil" /\ stored[t] = inserted[t]

\* The first error is that of a batch: only then is the context canceled, and only
\* then do tasks end with the context's error.
ErrorsOrdered ==
  /\ runErr # "canceled" /\ (canceled <=> runErr # "nil")
  /\ \A t \in Tasks :
       /\ taskErr[t] = "canceled" => canceled
       /\ pc[t] = "failed" => taskErr[t] = "nil"
       /\ pc[t] = "report" => taskErr[t] # "nil"

\* Without an error a task ends with its share in the table.
SharesInserted ==
  \A t \in Tasks : pc[t] = "leave" \/ status[t] = "ended" =>
    runErr # "nil" \/ (stored[t] = inserted[t] /\ inserted[t] = InsertCnt(t))

\* Only a task in its insert statement has rows in hand.
BatchesInHand == \A t \in Tasks : batch[t] # {} => pc[t] = "batch"

IInv == TypeOK /\ TasksStarted /\ SharesCounted /\ ErrorsOrdered /\ SharesInserted
        /\ BatchesInHand

-----------------------------------------------------------------------------
(* Division: buildInsertTasks gives every row to one task.                 *)

\* A quotient and a remainder exist ...
LEMMA Division ==
  ASSUME NEW n \in Int, NEW d \in Nat \ {0}
  PROVE  /\ n \div d \in Int
         /\ n % d \in 0..(d - 1)
         /\ n = d * (n \div d) + (n % d)
<1>1. n \div d \in Int
  OBVIOUS
<1>2. n % d \in 0..(d - 1)
  OBVIOUS
<1>3. n = d * (n \div d) + (n % d)
  OBVIOUS
<1> QED BY <1>1, <1>2, <1>3

\* ... multiplication is monotonic ...
LEMMA Monotonic ==
  ASSUME NEW d \in Nat, NEW a \in Int, NEW b \in Int, a < b
  PROVE  d * a \in Int /\ d * b \in Int /\ d * a + d <= d * b
OBVIOUS

\* ... and they are unique.
LEMMA DivisionUnique ==
  ASSUME NEW d \in Nat \ {0}, NEW a \in Int, NEW b \in Int,
         NEW r \in 0..(d - 1), NEW s \in 0..(d - 1), d * a + r = d * b + s
  PROVE  a = b /\ r = s
<1> DEFINE x == d * a
           y == d * b
<1>1. x \in Int /\ y \in Int
  OBVIOUS
<1>2. a < b => x + d <= y
  BY Monotonic
<1>3. b < a => y + d <= x
  BY Monotonic
<1>4. a = b => x = y
  OBVIOUS
<1>5. x + r = y + s
  OBVIOUS
<1> HIDE DEF x, y
<1> QED BY <1>1, <1>2, <1>3, <1>4, <1>5

\* Row k of task t is the t-th of the k-th round in which every task takes one row;
\* the rounds end with row totalRowCnt.
LEMMA InShare ==
  ASSUME totalRowCnt \in Nat, NEW t \in Tasks, NEW k \in Int
  PROVE  /\ InsertCnt(t) \in Nat
         /\ k <= InsertCnt(t) <=> TaskCount * (k - 1) + t <= totalRowCnt
<1> DEFINE n == totalRowCnt
           d == TaskCount
           q == n \div d
           r == n % d
           x == d * (k - 1)
           y == d * q
<1>1. d \in Nat \ {0} /\ t \in 1..d
  BY RunnerAssumption DEF Tasks
<1>2. q \in Int /\ r \in 0..(d - 1) /\ n = y + r
  BY <1>1, Division
<1>3. x \in Int /\ y \in Int
  BY <1>1, <1>2
<1>4. /\ k - 1 < q => x + d <= y
      /\ q < k - 1 => y + d <= x
      /\ k - 1 = q => x = y
  BY <1>1, <1>2, Monotonic
<1>5. q >= 0
  <2>1. q < 0 => y + d <= d * 0
    BY <1>1, <1>2, Monotonic
  <2>2. d * 0 = 0
    BY <1>1
  <2> HIDE DEF y
  <2> QED BY <1>1, <1>2, <1>3, <2>1, <2>2
<1>6. InsertCnt(t) = IF t - 1 < r THEN q + 1 ELSE q
  BY DEF InsertCnt
<1> HIDE DEF n, d, q, r, x, y
<1>7. InsertCnt(t) \in Nat
  BY <1>2, <1>5, <1>6
<1>8. k <= InsertCnt(t) <=> x + t <= n
  BY <1>1, <1>2, <1>3, <1>4, <1>6
<1> QED BY <1>7, <1>8 DEF x, d, n

\* The rows of all shares together; the task that inserts the m-th of them, and its
\* number there.
AllShares == UNION {{t} \X (1..InsertCnt(t)) : t \in Tasks}
TaskOf(m)   == ((m - 1) % TaskCount) + 1
NumberOf(m) == ((m - 1) \div TaskCount) + 1

\* Every row has a place in a share ...
LEMMA RowPlace ==
  ASSUME totalRowCnt \in Nat, NEW m \in 1..totalRowCnt
  PROVE  /\ TaskOf(m) \in Tasks
         /\ NumberOf(m) \in 1..InsertCnt(TaskOf(m))
         /\ m = TaskCount * (NumberOf(m) - 1) + TaskOf(m)
<1> DEFINE n == totalRowCnt
           d == TaskCount
           q == (m - 1) \div d
           r == (m - 1) % d
           x == d * q
<1>0. d \in Nat \ {0} /\ Tasks = 1..d /\ n \in Nat /\ m \in 1..n
  BY RunnerAssumption DEF Tasks
<1>1. q \in Int /\ r \in 0..(d - 1) /\ m - 1 = x + r
  <2>1. m - 1 \in Int
    BY <1>0
  <2> QED BY <1>0, <2>1, Division
<1>2. x \in Int
  BY <1>0, <1>1
<1>3. q < 0 => x + d <= d * 0
  BY <1>0, <1>1, Monotonic
<1>4. d * 0 = 0
  BY <1>0
<1>5. TaskOf(m) = r + 1 /\ NumberOf(m) = q + 1
  BY DEF TaskOf, NumberOf
<1> HIDE DEF q, r, x, n
<1>6. r + 1 \in Tasks /\ q \in Nat /\ x + (r + 1) <= n
  BY <1>0, <1>1, <1>2, <1>3, <1>4
<1>7. (q + 1) - 1 = q
  BY <1>1
<1>8. InsertCnt(r + 1) \in Nat /\ q + 1 <= InsertCnt(r + 1)
  BY <1>0, <1>6, <1>7, InShare DEF x, n
<1>9. q + 1 \in 1..InsertCnt(r + 1)
  BY <1>6, <1>8
<1>10. m = x + (r + 1)
  BY <1>0, <1>1, <1>2
<1> QED BY <1>5, <1>6, <1>7, <1>9, <1>10 DEF x

\* ... and every place is that of a row.
LEMMA PlaceRow ==
  ASSUME totalRowCnt \in Nat, NEW t \in Tasks, NEW k \in 1..InsertCnt(t)
  PROVE  \E m \in 1..totalRowCnt : TaskOf(m) = t /\ NumberOf(m) = k
<1> DEFINE n == totalRowCnt
           d == TaskCount
           x == d * (k - 1)
           m == x + t
           q == (m - 1) \div d
           r == (m - 1) % d
<1>0. d \in Nat \ {0} /\ t \in 1..d /\ n \in Nat
  BY RunnerAssumption DEF Tasks
<1>1. k \in Int /\ k >= 1 /\ k <= InsertCnt(t)
  BY InShare
<1>2. x \in Nat
  BY <1>0, <1>1
<1>3. x + t <= n
  BY <1>1, InShare
<1>4. m \in 1..n /\ m - 1 = x + (t - 1)
  <2> HIDE DEF x, n, d
  <2> QED BY <1>0, <1>2, <1>3
<1>5. q \in Int /\ r \in 0..(d - 1) /\ d * q + r = x + (t - 1)
  <2>1. m - 1 \in Int
    BY <1>4
  <2>2. q \in Int /\ r \in 0..(d - 1) /\ m - 1 = d * q + r
    BY <1>0, <2>1, Division
  <2> QED BY <1>4, <2>2
<1>6. q = k - 1 /\ r = t - 1
  <2> HIDE DEF q, r
  <2> QED BY <1>0, <1>1, <1>5, DivisionUnique
<1>7. q + 1 = k /\ r + 1 = t
  <2> HIDE DEF q, r
  <2> QED BY <1>0, <1>1, <1>6
<1>8. TaskOf(m) = r + 1 /\ NumberOf(m) = q + 1
  BY DEF TaskOf, NumberOf
<1> HIDE DEF m, q, r
<1> QED BY <1>4, <1>7, <1>8 DEF n

\* The shares are as many rows as the settings ask for.
LEMMA SharesExact ==
  ASSUME totalRowCnt \in Nat
  PROVE  IsFiniteSet(AllShares) /\ Cardinality(AllShares) = totalRowCnt
<1> DEFINE n == totalRowCnt
           f == [m \in 1..n |-> <<TaskOf(m), NumberOf(m)>>]
<1>1. f \in [1..n -> AllShares]
  <2>1. ASSUME NEW m \in 1..n PROVE <<TaskOf(m), NumberOf(m)>> \in AllShares
    <3>1. <<TaskOf(m), NumberOf(m)>> \in {TaskOf(m)} \X (1..InsertCnt(TaskOf(m)))
      BY RowPlace
    <3> QED BY <3>1, RowPlace DEF AllShares
  <2> QED BY <2>1
<1>2. \A a, b \in 1..n : f[a] = f[b] => a = b
  <2> TAKE a, b \in 1..n
  <2> HAVE f[a] = f[b]
  <2>1. TaskOf(a) = TaskOf(b) /\ NumberOf(a) = NumberOf(b)
    OBVIOUS
  <2>2. /\ a = TaskCount * (NumberOf(a) - 1) + TaskOf(a)
        /\ b = TaskCount * (NumberOf(b) - 1) + TaskOf(b)
    BY RowPlace
  <2> QED BY <2>1, <2>2, Zenon
<1>3. \A p \in AllShares : \E m \in 1..n : f[m] = p
  <2> TAKE p \in AllShares
  <2>1. PICK t \in Tasks : p \in {t} \X (1..InsertCnt(t))
    BY DEF AllShares
  <2>2. PICK k \in 1..InsertCnt(t) : p = <<t, k>>
    BY <2>1
  <2>3. PICK m \in 1..n : TaskOf(m) = t /\ NumberOf(m) = k
    BY PlaceRow
  <2> QED BY <2>2, <2>3
<1> HIDE DEF f
<1>4. f \in Bijection(1..n, AllShares)
  BY <1>1, <1>2, <1>3 DEF Bijection, Injection, Surjection, IsInjective
<1>5. ExistsBijection(1..n, AllShares)
  BY <1>4 DEF ExistsBijection
<1>6. IsFiniteSet(1..n) /\ Cardinality(1..n) = n
  BY FS_Interval
<1> QED BY <1>5, <1>6, FS_Bijection

-----------------------------------------------------------------------------
(* Batches.                                                                *)

\* A batch is not larger than what is left of the share.
LEMMA RowCounts ==
  ASSUME TypeOK, ValidSettings, NEW t \in Tasks, inserted[t] <= InsertCnt(t)
  PROVE  /\ RowCount(t) \in Nat
         /\ inserted[t] + RowCount(t) <= InsertCnt(t)
         /\ totalRowCnt \in Nat /\ InsertCnt(t) \in Nat
<1>1. totalRowCnt \in Nat /\ batchSize \in Nat
  BY InsertAssumption DEF TypeOK, ValidSettings, totalRowCnt, batchSize
<1>2. InsertCnt(t) \in Nat /\ inserted[t] \in Nat
  BY <1>1, InShare DEF TypeOK
<1>3. ASSUME NEW a \in Nat, NEW b \in Nat
      PROVE  Min({a, b}) = IF a <= b THEN a ELSE b
  BY DEF Min
<1>4. InsertCnt(t) - inserted[t] \in Nat
  BY <1>2
<1>5. RowCount(t) = IF batchSize <= InsertCnt(t) - inserted[t] THEN batchSize
                    ELSE InsertCnt(t) - inserted[t]
  BY <1>1, <1>3, <1>4 DEF RowCount
<1> QED BY <1>1, <1>2, <1>4, <1>5

\* The rows of a batch are rows the columns allow.
LEMMA BatchTyped ==
  ASSUME TypeOK, NEW t \in Tasks, GenerateRows(t)
  PROVE  batch' \in [Tasks -> SUBSET OneRow(colInfos)]
<1> DEFINE Rows == OneRow(colInfos)
<1>0. PICK n \in 1..RowCount(t) :
        \E rows \in kSubset(n, Rows) : batch' = [batch EXCEPT ![t] = rows]
  BY DEF GenerateRows
<1>1. PICK rows \in kSubset(n, Rows) : batch' = [batch EXCEPT ![t] = rows]
  BY <1>0
<1>2. rows \in SUBSET Rows
  BY <1>1 DEF kSubset
<1>3. batch \in [Tasks -> SUBSET Rows]
  BY DEF TypeOK
<1> HIDE DEF Rows
<1>4. batch' \in [Tasks -> SUBSET Rows]
  BY <1>1, <1>2, <1>3
<1> QED BY <1>4 DEF Rows

-----------------------------------------------------------------------------
(* Each part of the invariant is kept.  The steps of a task first.         *)

\* Nothing of the settings changes.
LEMMA SettingsKept ==
  ASSUME [Next]_vars
  PROVE  /\ UNCHANGED settings
         /\ (ValidSettings' <=> ValidSettings) /\ colInfos' = colInfos
         /\ totalRowCnt' = totalRowCnt /\ batchSize' = batchSize
         /\ \A t \in Tasks : InsertCnt(t)' = InsertCnt(t)
<1>1. UNCHANGED settings
  BY DEF Next, Main, Task, Returned, vars, InitializeFails, Spawn, RunReturns, Return, Begin,
     CheckRunErr, AllInserted, LoopCanceled, StartBatch, BatchSucceeds, BatchFails,
     ClassifyError, ReportError, Leave
<1> QED BY <1>1 DEF ValidSettings, colInfos, totalRowCnt, batchSize, InsertCnt

\* What a step of a task changes of the others: nothing.
LEMMA TaskSteps ==
  ASSUME TypeOK, NEW t \in Tasks, Task(t)
  PROVE  /\ \A u \in Tasks \ {t} :
              /\ pc'[u] = pc[u] /\ status'[u] = status[u] /\ inserted'[u] = inserted[u]
              /\ stored'[u] = stored[u] /\ taskErr'[u] = taskErr[u]
         /\ UNCHANGED <<result, runReturned, spawned>>
<1> USE DEF TypeOK, RunnerTypeOK, Goto, runnerVars
<1>1. CASE Begin(t) \/ Leave(t)
  BY <1>1 DEF Begin, Leave, BeginTask, EndTask
<1>2. CASE CheckRunErr(t) \/ AllInserted(t) \/ LoopCanceled(t) \/ StartBatch(t)
  BY <1>2 DEF CheckRunErr, AllInserted, LoopCanceled, StartBatch
<1>3. CASE BatchSucceeds(t)
  BY <1>3 DEF BatchSucceeds
<1>4. CASE BatchFails(t)
  BY <1>4 DEF BatchFails
<1>5. CASE ClassifyError(t) \/ ReportError(t)
  BY <1>5 DEF ClassifyError, ReportError
<1> QED BY <1>1, <1>2, <1>3, <1>4, <1>5 DEF Task

\* What a step of runInsertValues changes of the tasks: one more is handed to the runner.
LEMMA MainSteps ==
  ASSUME TypeOK, Main \/ UNCHANGED vars
  PROVE  /\ UNCHANGED <<pc, batch, inserted, stored, taskErr, runErr, canceled>>
         /\ Spawn \/ UNCHANGED <<spawned, status>>
BY DEF Main, vars, local, runnerVars, InitializeFails, Spawn, RunReturns, Return, Join

\* Types, and that counts only grow within a share.
LEMMA TypeStep ==
  ASSUME IInv, [Next]_vars
  PROVE  TypeOK'
<1>0. TypeOK /\ UNCHANGED settings /\ colInfos' = colInfos
  BY SettingsKept DEF IInv
<1> DEFINE Batches == [Tasks -> SUBSET OneRow(colInfos)]
<1>1. Batches' = Batches /\ batch \in Batches /\ \A b \in Batches : \A t \in Tasks :
        [b EXCEPT ![t] = {}] \in Batches
  BY <1>0 DEF TypeOK
<1>2. ASSUME NEW t \in Tasks, StartBatch(t) PROVE TypeOK'
  <2>1. batch' \in Batches
    BY <1>0, <1>2, BatchTyped DEF StartBatch
  <2>2. /\ pc' = [pc EXCEPT ![t] = "batch"]
        /\ UNCHANGED <<runnerVars, settings, inserted, stored, taskErr, runErr, canceled, result>>
    BY <1>2 DEF StartBatch, Goto
  <2> HIDE DEF Batches
  <2>3. batch' \in Batches'
    BY <1>1, <2>1
  <2> QED BY <1>0, <2>2, <2>3 DEF TypeOK, RunnerTypeOK, runnerVars, Batches
<1>3. ASSUME NEW t \in Tasks, BatchSucceeds(t) \/ BatchFails(t) PROVE TypeOK'
  <2>1. RowCount(t) \in Nat
    <3>1. ValidSettings
      BY <1>3 DEF IInv, TasksStarted, BatchSucceeds, BatchFails, Goto, TypeOK, RunnerTypeOK
    <3> QED BY <3>1, RowCounts DEF IInv, SharesCounted
  <2>2. batch' \in Batches /\ UNCHANGED <<runnerVars, settings, taskErr, runErr, canceled, result>>
    BY <1>1, <1>3 DEF BatchSucceeds, BatchFails
  <2>3. pc' \in [Tasks -> {"outside", "check", "loop", "batch", "failed", "report", "leave"}]
    BY <1>0, <1>3 DEF BatchSucceeds, BatchFails, Goto, TypeOK
  <2>4. inserted' \in [Tasks -> Nat] /\ stored' \in [Tasks -> Nat]
    <3>1. CASE BatchSucceeds(t)
      BY <1>0, <2>1, <3>1 DEF BatchSucceeds, TypeOK
    <3>2. CASE BatchFails(t)
      <4>1. PICK applied \in {0, RowCount(t)} : stored' = [stored EXCEPT ![t] = @ + applied]
        BY <3>2 DEF BatchFails
      <4>2. UNCHANGED inserted
        BY <3>2 DEF BatchFails
      <4> QED BY <1>0, <2>1, <4>1, <4>2 DEF TypeOK
    <3> QED BY <1>3, <3>1, <3>2
  <2> HIDE DEF Batches
  <2>5. batch' \in Batches'
    BY <1>1, <2>2
  <2> QED BY <1>0, <2>2, <2>3, <2>4, <2>5 DEF TypeOK, RunnerTypeOK, runnerVars, Batches
<1>4. ASSUME UNCHANGED batch,
             \/ Main \/ UNCHANGED vars
             \/ \E t \in Tasks : \/ Begin(t) \/ CheckRunErr(t) \/ AllInserted(t) \/ LoopCanceled(t)
                                 \/ ClassifyError(t) \/ ReportError(t) \/ Leave(t)
      PROVE  TypeOK'
  <2>1. batch' \in Batches'
    BY <1>1, <1>4
  <2> DEFINE Rest == /\ RunnerTypeOK
                     /\ pc \in [Tasks -> {"outside", "check", "loop", "batch", "failed", "report",
                                          "leave"}]
                     /\ inserted \in [Tasks -> Nat] /\ stored \in [Tasks -> Nat]
                     /\ taskErr \in [Tasks -> {"nil", "canceled", "insert"}]
                     /\ runErr \in {"nil", "canceled", "insert"}
                     /\ canceled \in BOOLEAN
                     /\ result \in {"none", "settings", "connection", "insert", "canceled",
                                    "close", "success"}
  <2>2. Rest
    BY <1>0 DEF TypeOK
  <2>3. Rest'
    <3> USE <2>2 DEF RunnerTypeOK, runnerVars, local, Goto
    <3>0. CASE Spawn
      <4>1. /\ spawned' = spawned + 1 /\ spawned < TaskCount
            /\ status' = [status EXCEPT ![spawned + 1] = "spawned"]
            /\ UNCHANGED <<runReturned, local, runErr, canceled, result>>
        BY <3>0 DEF Spawn, SpawnTask
      <4>2. spawned' \in 0..TaskCount
        BY <4>1, RunnerAssumption
      <4> QED BY <4>1, <4>2
    <3>1. CASE Main \/ UNCHANGED vars
      BY <3>0, <3>1 DEF Main, vars, InitializeFails, RunReturns, Join, Return
    <3>2. ASSUME NEW t \in Tasks, Begin(t) \/ Leave(t) PROVE Rest'
      BY <3>2 DEF Begin, BeginTask, Leave, EndTask
    <3>3. ASSUME NEW t \in Tasks, CheckRunErr(t) \/ AllInserted(t) \/ LoopCanceled(t) PROVE Rest'
      BY <3>3 DEF CheckRunErr, AllInserted, LoopCanceled
    <3>4. ASSUME NEW t \in Tasks, ClassifyError(t) \/ ReportError(t) PROVE Rest'
      BY <3>4 DEF ClassifyError, ReportError
    <3> HIDE DEF Rest
    <3> QED BY <1>4, <3>1, <3>2, <3>3, <3>4
  <2> HIDE DEF Batches
  <2> QED BY <1>0, <2>1, <2>3 DEF TypeOK, Batches
<1>5. \A t \in Tasks : Task(t) =>
        \/ StartBatch(t) \/ BatchSucceeds(t) \/ BatchFails(t)
        \/ /\ UNCHANGED batch
           /\ \/ Begin(t) \/ CheckRunErr(t) \/ AllInserted(t) \/ LoopCanceled(t)
              \/ ClassifyError(t) \/ ReportError(t) \/ Leave(t)
  BY DEF Task, Begin, CheckRunErr, AllInserted, LoopCanceled, ClassifyError, ReportError, Leave
<1>6. Main \/ UNCHANGED vars => UNCHANGED batch
  BY <1>0, MainSteps
<1> QED BY <1>2, <1>3, <1>4, <1>5, <1>6 DEF Next, Returned

\* Tasks and the runner.
LEMMA StartedStep ==
  ASSUME IInv, TypeOK', [Next]_vars
  PROVE  TasksStarted'
<1> USE DEF TypeOK, RunnerTypeOK, TasksStarted
<1>0. /\ TypeOK /\ TasksStarted /\ (ValidSettings' <=> ValidSettings)
      /\ ErrorsOrdered
  BY SettingsKept DEF IInv
<1>1. ASSUME NEW t \in Tasks, Task(t) PROVE TasksStarted'
  <2>1. /\ \A u \in Tasks \ {t} : pc'[u] = pc[u] /\ status'[u] = status[u]
        /\ UNCHANGED <<result, runReturned, spawned>>
    BY <1>0, <1>1, TaskSteps
  <2>2. status[t] \in {"spawned", "running"} /\ (status[t] = "running" <=> pc[t] # "outside")
    BY <1>0, <1>1 DEF Task, Begin, BeginTask, CheckRunErr, AllInserted, LoopCanceled, StartBatch,
       BatchSucceeds, BatchFails, ClassifyError, ReportError, Leave, Goto
  <2>3. status'[t] \in {"running", "ended"} /\ (status'[t] = "running" <=> pc'[t] # "outside")
    <3>1. CASE Begin(t) \/ Leave(t)
      BY <1>0, <2>2, <3>1 DEF Begin, BeginTask, Leave, EndTask, Goto
    <3>2. CASE ~(Begin(t) \/ Leave(t))
      <4>1. UNCHANGED status /\ pc[t] # "outside" /\ pc'[t] # "outside"
        BY <1>0, <1>1, <3>2 DEF Task, CheckRunErr, AllInserted, LoopCanceled, StartBatch,
           BatchSucceeds, BatchFails, ClassifyError, ReportError, Goto, runnerVars
      <4> QED BY <1>0, <4>1
    <3> QED BY <3>1, <3>2
  <2>4. ~runReturned
    BY <1>0, <2>2
  <2> QED BY <1>0, <2>1, <2>2, <2>3, <2>4
<1>2. CASE Main \/ UNCHANGED vars
  <2>1. UNCHANGED <<pc, runErr>>
    BY <1>0, <1>2, MainSteps
  <2>2. CASE Spawn
    <3>1. /\ spawned < TaskCount /\ spawned' = spawned + 1 /\ ValidSettings
          /\ status' = [status EXCEPT ![spawned + 1] = "spawned"]
          /\ UNCHANGED <<runReturned, result>> /\ result = "none"
      BY <2>2 DEF Spawn, SpawnTask
    <3>2. spawned + 1 \in Tasks /\ spawned \in Nat
      BY <1>0, <3>1, RunnerAssumption DEF Tasks
    <3>3. status[spawned + 1] = "unstarted"
      BY <1>0, <3>2
    <3>4. ~runReturned
      BY <1>0, <3>2, <3>3
    <3>5. \A t \in Tasks : t <= spawned => t <= spawned + 1
      BY <3>2 DEF Tasks
    <3> QED BY <1>0, <2>1, <3>1, <3>2, <3>3, <3>4, <3>5
  <2>3. CASE RunReturns
    BY <1>0, <2>1, <2>3 DEF RunReturns, Join
  <2>4. CASE Return
    <3>1. /\ runReturned /\ UNCHANGED <<spawned, status, runReturned>>
          /\ result' \in {"success", "close"} => runErr = "nil"
      BY <1>0, <2>4 DEF Return, runnerVars
    <3>2. 1 \in Tasks
      BY RunnerAssumption DEF Tasks
    <3> QED BY <1>0, <2>1, <3>1, <3>2
  <2>5. CASE InitializeFails \/ UNCHANGED vars
    BY <1>0, <2>1, <2>5 DEF InitializeFails, vars, runnerVars
  <2> QED BY <1>2, <2>2, <2>3, <2>4, <2>5 DEF Main
<1> QED BY <1>1, <1>2 DEF Next, Returned

\* The first error.
LEMMA ErrorsStep ==
  ASSUME IInv, TypeOK', [Next]_vars
  PROVE  ErrorsOrdered'
<1> USE DEF TypeOK, ErrorsOrdered
<1>0. TypeOK /\ ErrorsOrdered
  BY DEF IInv
<1>1. ASSUME NEW t \in Tasks, Task(t) PROVE ErrorsOrdered'
  <2>1. \A u \in Tasks \ {t} : pc'[u] = pc[u] /\ taskErr'[u] = taskErr[u]
    BY <1>0, <1>1, TaskSteps
  <2>2. CASE ReportError(t)
    <3>1. /\ taskErr[t] # "nil" /\ pc'[t] = "leave" /\ UNCHANGED taskErr
          /\ runErr' = IF runErr = "nil" THEN taskErr[t] ELSE runErr
          /\ canceled' = (runErr = "nil" \/ canceled)
      BY <1>0, <2>2 DEF ReportError, Goto
    <3>2. taskErr[t] = "canceled" => runErr # "nil"
      BY <1>0
    <3> QED BY <1>0, <2>1, <3>1, <3>2
  <2>3. CASE LoopCanceled(t) \/ ClassifyError(t)
    BY <1>0, <2>1, <2>3 DEF LoopCanceled, ClassifyError, Goto
  <2>4. CASE ~(ReportError(t) \/ LoopCanceled(t) \/ ClassifyError(t))
    <3>1. UNCHANGED <<taskErr, runErr, canceled>>
      BY <1>1, <2>4 DEF Task, Begin, CheckRunErr, AllInserted, StartBatch, BatchSucceeds,
         BatchFails, Leave
    <3>2. pc'[t] # "report" /\ (pc'[t] = "failed" => pc[t] = "batch")
      BY <1>0, <1>1, <2>4 DEF Task, Begin, CheckRunErr, AllInserted, StartBatch, BatchSucceeds,
         BatchFails, Leave, Goto
    <3>3. pc[t] = "batch" => taskErr[t] = "nil"
      BY DEF IInv, SharesCounted, BeforeError
    <3> QED BY <1>0, <2>1, <3>1, <3>2, <3>3
  <2> QED BY <2>2, <2>3, <2>4
<1>2. CASE Main \/ UNCHANGED vars
  BY <1>0, <1>2, MainSteps
<1> QED BY <1>1, <1>2 DEF Next, Returned

\* What a task has counted and what the table holds.
LEMMA SharesStep ==
  ASSUME IInv, TypeOK', [Next]_vars
  PROVE  SharesCounted'
<1>0. /\ TypeOK /\ TasksStarted /\ SharesCounted /\ ErrorsOrdered
      /\ (ValidSettings' <=> ValidSettings) /\ batchSize' = batchSize
      /\ \A t \in Tasks : InsertCnt(t)' = InsertCnt(t)
  BY SettingsKept DEF IInv
<1>1. \A t \in Tasks : inserted'[t] = inserted[t] => RowCount(t)' = RowCount(t)
  BY <1>0 DEF RowCount
<1>2. ASSUME NEW t \in Tasks, Task(t) PROVE SharesCounted'
  <2>1. \A u \in Tasks \ {t} :
          /\ pc'[u] = pc[u] /\ status'[u] = status[u] /\ inserted'[u] = inserted[u]
          /\ stored'[u] = stored[u] /\ taskErr'[u] = taskErr[u]
    BY <1>0, <1>2, TaskSteps
  <2>2. ValidSettings
    BY <1>0, <1>2 DEF TasksStarted, Task, Begin, BeginTask, CheckRunErr, AllInserted,
       LoopCanceled, StartBatch, BatchSucceeds, BatchFails, ClassifyError, ReportError, Leave, Goto
  <2>3. /\ RowCount(t) \in Nat /\ inserted[t] + RowCount(t) <= InsertCnt(t)
        /\ inserted[t] \in Nat /\ stored[t] \in Nat
    BY <1>0, <2>2, RowCounts DEF SharesCounted, TypeOK
  <2> DEFINE Kept ==
        /\ inserted'[t] <= InsertCnt(t)
        /\ stored'[t] \in {inserted'[t], inserted'[t] + RowCount(t)'}
        /\ stored'[t] # inserted'[t] => pc'[t] = "failed" \/ taskErr'[t] # "nil"
        /\ status'[t] \in {"unstarted", "spawned"} \/ pc'[t] \in BeforeError =>
             taskErr'[t] = "nil" /\ stored'[t] = inserted'[t]
  <2>4. CASE BatchSucceeds(t)
    <3>1. /\ pc[t] = "batch" /\ pc'[t] = "loop" /\ UNCHANGED taskErr
          /\ stored'[t] = stored[t] + RowCount(t)
          /\ inserted'[t] = inserted[t] + RowCount(t)
      BY <1>0, <2>4 DEF BatchSucceeds, Goto, TypeOK
    <3>2. taskErr[t] = "nil" /\ stored[t] = inserted[t]
      BY <1>0, <3>1 DEF SharesCounted, BeforeError
    <3>3. Kept
      BY <2>3, <3>1, <3>2
    <3> QED BY <1>0, <1>1, <2>1, <3>3 DEF SharesCounted
  <2>5. CASE BatchFails(t)
    <3>1. /\ pc[t] = "batch" /\ pc'[t] = "failed" /\ UNCHANGED <<taskErr, inserted, status>>
      BY <1>0, <2>5 DEF BatchFails, Goto, TypeOK, runnerVars
    <3>2. PICK applied \in {0, RowCount(t)} : stored' = [stored EXCEPT ![t] = @ + applied]
      BY <2>5 DEF BatchFails
    <3>3. stored'[t] = stored[t] + applied
      BY <1>0, <3>2 DEF TypeOK
    <3>4. /\ taskErr[t] = "nil" /\ stored[t] = inserted[t]
          /\ status[t] = "running"
      BY <1>0, <3>1 DEF SharesCounted, BeforeError, TasksStarted
    <3>5. Kept
      BY <1>0, <1>1, <2>2, <2>3, <3>1, <3>3, <3>4 DEF BeforeError, SharesCounted
    <3> QED BY <1>0, <1>1, <2>1, <3>5 DEF SharesCounted
  <2>6. CASE ~(BatchSucceeds(t) \/ BatchFails(t))
    <3>1. UNCHANGED <<inserted, stored>>
      BY <1>2, <2>6 DEF Task, Begin, CheckRunErr, AllInserted, LoopCanceled, StartBatch,
         ClassifyError, ReportError, Leave
    <3>2. /\ status'[t] \notin {"unstarted", "spawned"}
          /\ taskErr'[t] = "nil" => taskErr[t] = "nil" /\ (pc[t] = "failed" => pc'[t] = "failed")
          /\ pc'[t] \in BeforeError =>
               UNCHANGED taskErr /\ (status[t] = "spawned" \/ pc[t] \in BeforeError)
      <4>1. CASE Begin(t) \/ Leave(t)
        BY <1>0, <4>1 DEF Begin, BeginTask, Leave, EndTask, Goto, TypeOK, RunnerTypeOK,
           BeforeError, TasksStarted
      <4>2. CASE CheckRunErr(t) \/ AllInserted(t) \/ StartBatch(t)
        BY <1>0, <4>2 DEF CheckRunErr, AllInserted, StartBatch, Goto, TypeOK, RunnerTypeOK,
           BeforeError, TasksStarted, runnerVars
      <4>3. CASE LoopCanceled(t) \/ ClassifyError(t)
        BY <1>0, <4>3 DEF LoopCanceled, ClassifyError, Goto, TypeOK, RunnerTypeOK,
           BeforeError, TasksStarted, runnerVars
      <4>4. CASE ReportError(t)
        BY <1>0, <4>4 DEF ReportError, Goto, TypeOK, RunnerTypeOK, BeforeError, TasksStarted,
           runnerVars
      <4> QED BY <1>2, <2>6, <4>1, <4>2, <4>3, <4>4 DEF Task
    <3>3. Kept
      BY <1>0, <1>1, <2>2, <3>1, <3>2 DEF SharesCounted
    <3> QED BY <1>0, <1>1, <2>1, <3>3 DEF SharesCounted
  <2> QED BY <2>4, <2>5, <2>6
<1>3. CASE Main \/ UNCHANGED vars
  <2>1. UNCHANGED <<pc, inserted, stored, taskErr>>
    BY <1>0, <1>3, MainSteps
  <2>2. \A t \in Tasks : status'[t] \in {"unstarted", "spawned"} =>
          status[t] \in {"unstarted", "spawned"}
    <3>1. CASE Spawn
      <4>1. status' = [status EXCEPT ![spawned + 1] = "spawned"] /\ spawned + 1 \in Tasks
        BY <1>0, <3>1, RunnerAssumption DEF Spawn, SpawnTask, Tasks, TypeOK, RunnerTypeOK
      <4>2. status[spawned + 1] = "unstarted"
        BY <1>0, <4>1 DEF TasksStarted, TypeOK, RunnerTypeOK, Tasks
      <4> QED BY <1>0, <4>1, <4>2 DEF TypeOK, RunnerTypeOK
    <3> QED BY <1>0, <1>3, <3>1, MainSteps
  <2> QED BY <1>0, <1>1, <2>1, <2>2 DEF SharesCounted
<1> QED BY <1>2, <1>3 DEF Next, Returned

\* What is in the table when tasks end without an error.
LEMMA InsertedStep ==
  ASSUME IInv, TypeOK', [Next]_vars
  PROVE  SharesInserted'
<1>0. /\ TypeOK /\ TasksStarted /\ SharesCounted /\ ErrorsOrdered /\ SharesInserted
      /\ \A t \in Tasks : InsertCnt(t)' = InsertCnt(t)
  BY SettingsKept DEF IInv
<1>1. runErr # "nil" => runErr' # "nil"
  BY <1>0, MainSteps DEF Next, Task, Returned, Begin, CheckRunErr, AllInserted, LoopCanceled,
     StartBatch, BatchSucceeds, BatchFails, ClassifyError, ReportError, Leave
<1>2. ASSUME NEW t \in Tasks, Task(t) PROVE SharesInserted'
  <2>1. \A u \in Tasks \ {t} :
          /\ pc'[u] = pc[u] /\ status'[u] = status[u] /\ inserted'[u] = inserted[u]
          /\ stored'[u] = stored[u]
    BY <1>0, <1>2, TaskSteps
  <2> DEFINE Kept == pc'[t] = "leave" \/ status'[t] = "ended" =>
        runErr' # "nil" \/ (stored'[t] = inserted'[t] /\ inserted'[t] = InsertCnt(t))
  <2>2. CASE AllInserted(t)
    <3>1. /\ inserted[t] >= InsertCnt(t) /\ pc[t] = "loop" /\ UNCHANGED <<inserted, stored>>
      BY <2>2 DEF AllInserted, Goto
    <3>2. ValidSettings
      BY <1>0, <3>1 DEF TasksStarted
    <3>3. inserted[t] <= InsertCnt(t) /\ stored[t] = inserted[t]
      BY <1>0, <3>1, <3>2 DEF SharesCounted, BeforeError
    <3>4. inserted[t] \in Nat /\ InsertCnt(t) \in Nat
      BY <1>0, <3>2, <3>3, RowCounts DEF TypeOK
    <3>5. Kept
      BY <3>1, <3>3, <3>4
    <3> QED BY <1>0, <1>1, <2>1, <3>5 DEF SharesInserted
  <2>3. CASE ReportError(t) \/ CheckRunErr(t)
    <3>1. UNCHANGED status /\ status[t] = "running" /\ (pc'[t] = "leave" => runErr' # "nil")
      BY <1>0, <2>3 DEF ReportError, CheckRunErr, Goto, TypeOK, TasksStarted, ErrorsOrdered,
         runnerVars
    <3>2. Kept
      BY <3>1
    <3> QED BY <1>0, <1>1, <2>1, <3>2 DEF SharesInserted
  <2>4. CASE Leave(t)
    <3>1. pc[t] = "leave" /\ UNCHANGED <<inserted, stored>>
      BY <2>4 DEF Leave, Goto
    <3>2. Kept
      BY <1>0, <1>1, <3>1 DEF SharesInserted
    <3> QED BY <1>0, <1>1, <2>1, <3>2 DEF SharesInserted
  <2>5. CASE ~(AllInserted(t) \/ ReportError(t) \/ CheckRunErr(t) \/ Leave(t))
    <3>1. pc'[t] # "leave" /\ status'[t] # "ended"
      <4>1. CASE Begin(t)
        BY <1>0, <4>1 DEF Begin, BeginTask, TypeOK, RunnerTypeOK
      <4>2. CASE LoopCanceled(t) \/ StartBatch(t) \/ ClassifyError(t)
        BY <1>0, <4>2 DEF LoopCanceled, StartBatch, ClassifyError, Goto, TypeOK, TasksStarted,
           runnerVars
      <4>3. CASE BatchSucceeds(t) \/ BatchFails(t)
        BY <1>0, <4>3 DEF BatchSucceeds, BatchFails, Goto, TypeOK, TasksStarted, runnerVars
      <4> QED BY <1>2, <2>5, <4>1, <4>2, <4>3 DEF Task
    <3> QED BY <1>0, <1>1, <2>1, <3>1 DEF SharesInserted
  <2> QED BY <2>2, <2>3, <2>4, <2>5
<1>3. CASE Main \/ UNCHANGED vars
  <2>1. UNCHANGED <<pc, inserted, stored, runErr>>
    BY <1>0, <1>3, MainSteps
  <2>2. \A t \in Tasks : status'[t] = "ended" => status[t] = "ended"
    <3>1. Spawn => status' = [status EXCEPT ![spawned + 1] = "spawned"]
      BY DEF Spawn, SpawnTask
    <3> QED BY <1>0, <1>3, <3>1, MainSteps DEF TypeOK, RunnerTypeOK
  <2> QED BY <1>0, <2>1, <2>2 DEF SharesInserted
<1> QED BY <1>2, <1>3 DEF Next, Returned

\* Rows are generated for the statement they are executed with.
LEMMA BatchesStep ==
  ASSUME IInv, TypeOK', [Next]_vars
  PROVE  BatchesInHand'
<1>0. TypeOK /\ BatchesInHand
  BY DEF IInv
<1>1. ASSUME NEW t \in Tasks, Task(t) PROVE BatchesInHand'
  <2>1. \A u \in Tasks \ {t} : pc'[u] = pc[u]
    BY <1>0, <1>1, TaskSteps
  <2>2. CASE StartBatch(t)
    <3>1. \E rows : batch' = [batch EXCEPT ![t] = rows]
      BY <2>2 DEF StartBatch, GenerateRows
    <3>2. \A u \in Tasks \ {t} : batch'[u] = batch[u]
      BY <1>0, <3>1 DEF TypeOK
    <3>3. pc'[t] = "batch"
      BY <1>0, <2>2 DEF StartBatch, Goto, TypeOK
    <3> QED BY <1>0, <2>1, <3>2, <3>3 DEF BatchesInHand
  <2>3. CASE BatchSucceeds(t) \/ BatchFails(t)
    <3>1. batch' = [batch EXCEPT ![t] = {}]
      BY <2>3 DEF BatchSucceeds, BatchFails
    <3>2. batch'[t] = {} /\ \A u \in Tasks \ {t} : batch'[u] = batch[u]
      BY <1>0, <3>1 DEF TypeOK
    <3> QED BY <1>0, <2>1, <3>2 DEF BatchesInHand
  <2>4. CASE ~(StartBatch(t) \/ BatchSucceeds(t) \/ BatchFails(t))
    <3>1. UNCHANGED batch /\ pc[t] # "batch"
      BY <1>1, <2>4, IInv DEF Task, Begin, BeginTask, CheckRunErr, AllInserted, LoopCanceled,
         ClassifyError, ReportError, Leave, Goto, IInv, TasksStarted
    <3> QED BY <1>0, <2>1, <3>1 DEF BatchesInHand
  <2> QED BY <2>2, <2>3, <2>4
<1>2. CASE Main \/ UNCHANGED vars
  BY <1>0, <1>2, MainSteps DEF BatchesInHand
<1> QED BY <1>1, <1>2 DEF Next, Returned

-----------------------------------------------------------------------------
\* The invariant holds when the task starts ...
LEMMA InitInvariant == Init => IInv
<1> SUFFICES ASSUME Init PROVE IInv
  OBVIOUS
<1>1. TypeOK
  <2>1. 0 \in 0..TaskCount
    BY RunnerAssumption
  <2>2. RunnerTypeOK
    BY <2>1 DEF Init, RunnerTypeOK, NewRunner
  <2> QED BY <2>2 DEF Init, TypeOK
<1>2. TasksStarted /\ SharesInserted /\ BatchesInHand /\ ErrorsOrdered
  BY DEF Init, NewRunner, TasksStarted, SharesInserted, BatchesInHand, ErrorsOrdered
<1>3. SharesCounted
  <2> SUFFICES ASSUME NEW t \in Tasks, ValidSettings PROVE inserted[t] <= InsertCnt(t)
    BY DEF Init, SharesCounted, BeforeError
  <2>1. totalRowCnt \in Nat
    BY <1>1, InsertAssumption DEF TypeOK, ValidSettings, totalRowCnt
  <2>2. InsertCnt(t) \in Nat /\ inserted[t] = 0
    BY <2>1, InShare DEF Init
  <2> QED BY <2>2
<1> QED BY <1>1, <1>2, <1>3 DEF IInv

\* ... and every step keeps it.
THEOREM InsertInvariant == Spec => []IInv
<1>1. ASSUME IInv, [Next]_vars PROVE IInv'
  <2>1. TypeOK'
    BY <1>1, TypeStep
  <2> QED BY <1>1, <2>1, StartedStep, SharesStep, ErrorsStep, InsertedStep, BatchesStep DEF IInv
<1> QED BY <1>1, InitInvariant, PTL DEF Spec

\* Success means that the table received exactly insertTotalRowCnt rows, and it never
\* holds more than that, whatever fails (insert_values.go, buildInsertTasks and
\* startToInsertForOneTask): for any number of tasks, any total and any batch size.
THEOREM RowsAlwaysExact == Spec => []RowsExact
<1>1. ASSUME IInv PROVE RowsExact
  <2>1. ASSUME ValidSettings PROVE totalRowCnt \in Nat
    BY <1>1, <2>1, InsertAssumption DEF IInv, TypeOK, ValidSettings, totalRowCnt
  <2>2. ASSUME ValidSettings PROVE Cardinality(StoredRows) <= totalRowCnt
    <3>1. ASSUME NEW t \in Tasks PROVE stored[t] \in Nat /\ InsertCnt(t) \in Nat /\ stored[t] <= InsertCnt(t)
      <4>1. inserted[t] <= InsertCnt(t) /\ stored[t] \in {inserted[t], inserted[t] + RowCount(t)}
        BY <1>1, <2>2 DEF IInv, SharesCounted
      <4>2. /\ RowCount(t) \in Nat /\ inserted[t] + RowCount(t) <= InsertCnt(t)
            /\ InsertCnt(t) \in Nat /\ inserted[t] \in Nat /\ stored[t] \in Nat
        BY <1>1, <2>2, <4>1, RowCounts DEF IInv, TypeOK
      <4> QED BY <4>1, <4>2
    <3>2. \A t \in Tasks : {t} \X (1..stored[t]) \subseteq {t} \X (1..InsertCnt(t))
      BY <3>1
    <3>3. StoredRows \subseteq AllShares
      BY <3>2 DEF StoredRows, AllShares
    <3> QED BY <2>1, <2>2, <3>3, SharesExact, FS_Subset
  <2>3. ASSUME result \in {"success", "close"} PROVE Cardinality(StoredRows) = totalRowCnt
    <3>1. ValidSettings /\ \A t \in Tasks : stored[t] = InsertCnt(t)
      BY <1>1, <2>3 DEF IInv, TasksStarted, SharesInserted
    <3>2. StoredRows = AllShares
      BY <3>1 DEF StoredRows, AllShares
    <3> QED BY <2>1, <3>1, <3>2, SharesExact
  <2> QED BY <2>2, <2>3 DEF RowsExact
<1> QED BY <1>1, InsertInvariant, PTL

\* The local count of a task is off only by the batch whose outcome is unknown.
THEOREM CountAlwaysMatches == Spec => []CountMatchesTable
<1>1. IInv => CountMatchesTable
  BY DEF IInv, SharesCounted, CountMatchesTable
<1> QED BY <1>1, InsertInvariant, PTL

\* runInsertValues returns the error that came first, never the cancellation that this
\* error caused in the other tasks (the critical sections of runErrMu).
THEOREM RootCauseAlwaysReturned == Spec => []RootCauseReturned
<1>1. IInv => RootCauseReturned
  BY DEF IInv, ErrorsOrdered, TypeOK, RootCauseReturned
<1> QED BY <1>1, InsertInvariant, PTL

-----------------------------------------------------------------------------
\* The deferred function adds one quote on each side.
LEMMA QuoteAdds ==
  ASSUME NEW n \in Nat, NEW l
  PROVE  LET v == Quote(Quoted(n, l))
         IN ~v.null /\ v.quotes = n + 1 /\ v.len = l
BY DEF Quote, Quoted

\* A value: null or not, its length, its quotes, for a column that the
\* validation accepts.
LEMMA ValueAsConfigured ==
  ASSUME NEW c \in ColInfo, ValidCol(c), c.generator => c.generated > 0,
         NEW v \in OneColValue(InitializeInsertColInfo(c))
  PROVE  LET col == InitializeInsertColInfo(c)
         IN /\ v.null => col.nullProbability > 0
            /\ col.nullProbability = 100 => v.null
            /\ (col.tp = "string" /\ col.values = 0 /\ ~v.null) =>
                 v.len \in col.minStrLen..col.maxStrLen
            /\ v.null \/ v.quotes = 1 \/ (col.tp \in Temporal /\ col.values = 0)
<1> DEFINE col == InitializeInsertColInfo(c)
<1>1. /\ col \in ColInfo /\ col.nullProbability = c.nullProbability /\ col.tp = c.tp
      /\ col.minStrLen = c.minStrLen /\ col.maxStrLen = c.maxStrLen
      /\ col.values = 0 => c.values = 0
  BY DEF InitializeInsertColInfo, ColInfo
<1> HIDE DEF col
<1>2. PICK draw \in 0..99 :
        v \in IF DrawsNull(col, draw) THEN {NullValue}
              ELSE {Quote(w) : w \in IF col.values > 0 THEN {Quoted(0, 0)} ELSE Generated(col)}
  BY DEF OneColValue, col
<1>3. CASE DrawsNull(col, draw)
  <2>1. v = NullValue /\ col.nullProbability > 0
    BY <1>2, <1>3 DEF DrawsNull
  <2> QED BY <2>1 DEF NullValue, col
<1>4. CASE ~DrawsNull(col, draw)
  <2>1. PICK w \in (IF col.values > 0 THEN {Quoted(0, 0)} ELSE Generated(col)) : v = Quote(w)
    BY <1>2, <1>4
  <2>2. col.nullProbability # 100
    BY <1>1, <1>4 DEF DrawsNull, ColInfo
  <2>3. CASE col.values > 0
    <3>1. w = Quoted(0, 0)
      BY <2>1, <2>3
    <3>2. ~v.null /\ v.quotes = 1
      BY <2>1, <3>1, QuoteAdds
    <3>3. col.values # 0
      BY <1>1, <2>3 DEF ColInfo
    <3> QED BY <2>2, <3>2, <3>3 DEF col
  <2>4. CASE ~(col.values > 0) /\ col.tp = "string"
    <3>1. PICK l \in StringLengths(col.minStrLen, col.maxStrLen) : w = Quoted(0, l)
      <4>1. Generated(col) = {Quoted(0, l) : l \in StringLengths(col.minStrLen, col.maxStrLen)}
        BY <2>4 DEF Generated, Temporal
      <4> QED BY <2>1, <2>4, <4>1
    <3>2. ~v.null /\ v.quotes = 1 /\ v.len = l
      BY <2>1, <3>1, QuoteAdds
    <3>3. col.values = 0
      BY <1>1, <2>4 DEF ColInfo
    <3>4. col.minStrLen >= 0 /\ col.maxStrLen >= col.minStrLen /\ col.minStrLen \in Int
          /\ col.maxStrLen \in Int
      BY <1>1, <2>4, <3>3 DEF ValidCol, ColInfo
    <3>5. StringLengths(col.minStrLen, col.maxStrLen) = col.minStrLen..col.maxStrLen
      BY <3>4 DEF StringLengths
    <3> QED BY <2>2, <3>1, <3>2, <3>5 DEF col
  <2>5. CASE ~(col.values > 0) /\ col.tp \in Temporal
    <3>1. w = Quoted(1, 0) /\ col.tp # "string"
      BY <2>1, <2>5 DEF Generated, Temporal
    <3>2. ~v.null
      BY <2>1, <3>1, QuoteAdds
    <3>3. col.values = 0
      BY <1>1, <2>5 DEF ColInfo
    <3> QED BY <2>2, <2>5, <3>1, <3>2, <3>3 DEF col
  <2>6. CASE ~(col.values > 0) /\ col.tp \notin Temporal \union {"string"}
    <3>1. w = Quoted(0, 0)
      BY <2>1, <2>6 DEF Generated
    <3>2. ~v.null /\ v.quotes = 1
      BY <2>1, <3>1, QuoteAdds
    <3> QED BY <2>2, <2>6, <3>2 DEF col
  <2> QED BY <2>3, <2>4, <2>5, <2>6
<1> QED BY <1>3, <1>4

\* Every statement executed is as the settings configure its columns: null where null is
\* allowed, strings within their limits, every value one literal (the last but for
\* temporal columns that have no prepared values).
THEOREM StatementsAlwaysAsConfigured == Spec => []StatementsAsConfigured
<1>1. ASSUME IInv PROVE StatementsAsConfigured
  <2> SUFFICES ASSUME NEW t \in Tasks, NEW row \in batch[t], NEW i \in DOMAIN row
               PROVE  LET col == colInfos[i]
                          v   == row[i]
                      IN /\ v.null => col.nullProbability > 0
                         /\ col.nullProbability = 100 => v.null
                         /\ (col.tp = "string" /\ col.values = 0 /\ ~v.null) =>
                              v.len \in col.minStrLen..col.maxStrLen
                         /\ v.null \/ v.quotes = 1 \/ (col.tp \in Temporal /\ col.values = 0)
    BY DEF StatementsAsConfigured
  <2>1. ValidSettings
    BY <1>1 DEF IInv, BatchesInHand, TasksStarted, TypeOK, RunnerTypeOK
  <2>2. row \in OneRow(colInfos)
    BY <1>1 DEF IInv, TypeOK
  <2>3. i \in DOMAIN colInfos /\ row[i] \in OneColValue(colInfos[i])
    BY <2>2 DEF OneRow
  <2>4. i \in DOMAIN settings.columns
        /\ colInfos[i] = InitializeInsertColInfo(settings.columns[i])
    BY <2>3 DEF colInfos
  <2>5. settings \in Settings /\ settings.columns \in Seq(ColInfo)
    BY <1>1, InsertAssumption DEF IInv, TypeOK
  <2>6. settings.columns[i] \in ColInfo
    BY <2>4, <2>5
  <2>7. /\ ValidCol(settings.columns[i])
        /\ settings.columns[i].generator => settings.columns[i].generated > 0
    BY <2>1, <2>4, <2>5, InsertAssumption DEF ValidSettings
  <2> QED BY <2>3, <2>4, <2>6, <2>7, ValueAsConfigured
<1> QED BY <1>1, InsertInvariant, PTL

\* Once the context is canceled, a task that is not in its insert statement executes no
\* further one (the look at ctx.Err() at the head of the loop).
THEOREM NoBatchStartsAfterError == Spec => NoBatchAfterError
<1>1. ASSUME NEW t \in Tasks
      PROVE  Spec => []((canceled /\ pc[t] # "batch") => [](pc[t] # "batch"))
  <2> DEFINE Stopped == canceled /\ pc[t] # "batch"
  <2>1. ASSUME IInv, Stopped, [Next]_vars PROVE Stopped'
    <3>0. TypeOK
      BY <2>1 DEF IInv
    <3>1. ASSUME NEW u \in Tasks, Task(u) PROVE Stopped'
      <4>1. canceled'
        BY <2>1, <3>1 DEF Task, Begin, CheckRunErr, AllInserted, LoopCanceled, StartBatch,
           BatchSucceeds, BatchFails, ClassifyError, ReportError, Leave
      <4>2. u # t => pc'[t] = pc[t]
        BY <3>0, <3>1, TaskSteps
      <4>3. pc'[u] # "batch"
        BY <2>1, <3>0, <3>1 DEF Task, Begin, CheckRunErr, AllInserted, LoopCanceled, StartBatch,
           BatchSucceeds, BatchFails, ClassifyError, ReportError, Leave, Goto, TypeOK
      <4> QED BY <2>1, <4>1, <4>2, <4>3
    <3>2. CASE Main \/ UNCHANGED vars
      BY <2>1, <3>0, <3>2, MainSteps
    <3> QED BY <2>1, <3>1, <3>2 DEF Next, Returned
  <2>2. Stopped => pc[t] # "batch"
    OBVIOUS
  <2>3. Spec => [](Stopped => [](pc[t] # "batch"))
    <3> HIDE DEF Stopped
    <3> QED BY <2>1, <2>2, InsertInvariant, PTL DEF Spec
  <2> QED BY <2>3
<1> QED BY <1>1 DEF NoBatchAfterError
=============================================================================
