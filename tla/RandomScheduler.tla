--------------------------- MODULE RandomScheduler ---------------------------
(***************************************************************************)
(* The random scheduler of dbHelper/run_sqls.go (runSQLRandomScheduler),   *)
(* of which dbHelper/compare_results.go keeps a second copy                *)
(* (randomPairScheduler).  next() runs under the scheduler's mutex, so one *)
(* call is one step.  Go's indexes 0..n-1 are the items 1..n here.         *)
(***************************************************************************)
EXTENDS Integers, Sequences

CONSTANTS ItemCount,   \* len(cases)
          Clients,     \* the worker goroutines that call next()
          Limits,      \* values of runsPerStatementLimit that are explored
          MaxRuns      \* bound: runs per item explored when the limit is 0

ASSUME SchedulerAssumption == /\ ItemCount \in Nat \ {0}
                              /\ Limits \subseteq Nat
                              /\ MaxRuns \in Nat

VARIABLES limit,       \* runsPerStatementLimit; 0 disables the limit
          runCounts,   \* runCounts
          available,   \* availableStatements, a slice: order is kept
          grant        \* grant[c]: the values next() last returned to c

schedulerVars == <<limit, runCounts, available, grant>>

Items == 1..ItemCount

NoGrant == [item |-> 0, run |-> 0, ok |-> TRUE]    \* c has not called yet
Nothing == [item |-> 0, run |-> 0, ok |-> FALSE]   \* return 0, 0, false

\* Wrong variant: Go's indexes are used as they are.
ZeroBasedScheduler(runsLimit) ==
  /\ limit = runsLimit
  /\ runCounts = [i \in Items |-> 0]
  /\ available = [i \in Items |-> i - 1]
  /\ grant = [c \in Clients |-> NoGrant]

NewScheduler(runsLimit) ==
  /\ limit = runsLimit
  /\ runCounts = [i \in Items |-> 0]
  /\ available = [i \in Items |-> i]
  /\ grant = [c \in Clients |-> NoGrant]

\* Wrong variant: the slice is cut without moving its last element.
CutLast(s, k) == [j \in 1..(Len(s) - 1) |-> s[j]]

\* s[k] = s[last]; s = s[:last]
SwapRemove(s, k) ==
  [j \in 1..(Len(s) - 1) |-> IF j = k THEN s[Len(s)] ELSE s[j]]

\* Wrong variant: the run number is read with the index into the slice instead
\* of the statement index.
TakeWrongIndex(c, k) ==
  LET i == available[k]
      n == runCounts[i] + 1
  IN /\ runCounts' = [runCounts EXCEPT ![i] = n]
     /\ grant' = [grant EXCEPT ![c] = [item |-> i, run |-> runCounts'[k], ok |-> TRUE]]
     /\ available' = IF limit > 0 /\ n >= limit
                     THEN SwapRemove(available, k)
                     ELSE available
     /\ UNCHANGED limit

\* The branch of next() that draws index k of the slice.
Take(c, k) ==
  LET i == available[k]
      n == runCounts[i] + 1
  IN /\ runCounts' = [runCounts EXCEPT ![i] = n]
     /\ grant' = [grant EXCEPT ![c] = [item |-> i, run |-> n, ok |-> TRUE]]
     /\ available' = IF limit > 0 /\ n >= limit
                     THEN SwapRemove(available, k)
                     ELSE available
     /\ UNCHANGED limit

\* The early return of next() on an empty slice.
Exhausted(c) ==
  /\ Len(available) = 0
  /\ grant' = [grant EXCEPT ![c] = Nothing]
  /\ UNCHANGED <<limit, runCounts, available>>

SchedulerInit == \E runsLimit \in Limits : NewScheduler(runsLimit)

SchedulerNext ==
  \E c \in Clients :
    \/ Exhausted(c)
    \/ \E k \in 1..Len(available) :
         /\ limit > 0 \/ runCounts[available[k]] < MaxRuns
         /\ Take(c, k)

SchedulerSpec == SchedulerInit /\ [][SchedulerNext]_schedulerVars

-----------------------------------------------------------------------------
Grants == {NoGrant, Nothing} \union
          [item : Items, run : Nat \ {0}, ok : {TRUE}]

SchedulerTypeOK == /\ limit \in Limits
                   /\ runCounts \in [Items -> Nat]
                   /\ available \in Seq(Items)
                   /\ grant \in [Clients -> Grants]

\* Swap-removal keeps the slice exact: no item is listed twice, and the items
\* listed are those that may still run (run_sqls.go:122-126).
AvailableIsExact ==
  /\ \A j, k \in 1..Len(available) : available[j] = available[k] => j = k
  /\ \A i \in Items :
       (\E k \in 1..Len(available) : available[k] = i)
         <=> (limit = 0 \/ runCounts[i] < limit)

\* No statement is handed out more often than runsPerStatementLimit allows.
LimitRespected == limit > 0 => \A i \in Items : runCounts[i] <= limit

\* The run number returned by next() labels one run only: two workers never
\* hold the same (statement, run) pair, and no number is ahead of the count.
RunNumbersUnique ==
  /\ \A c \in Clients : grant[c].item \in Items =>
                          grant[c].run <= runCounts[grant[c].item]
  /\ \A c, d \in Clients :
       (c # d /\ grant[c].item \in Items) => grant[c] # grant[d]

\* The scheduler implements the quota it stands for: it never grants beyond a
\* limit and never refuses while some item has runs left.
Quota == INSTANCE RunQuota WITH taken <- runCounts, answer <- grant
ImplementsQuota == Quota!QuotaSpec
=============================================================================
