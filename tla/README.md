# TLA+ models of `chores`

This directory specifies the programs of the repository whose correctness depends on
concurrency, failure handling or boundary cases, checks the specifications with TLC on
small instances and proves the central ones with TLAPS for every size.

The repository holds three programs worth specifying:

* **`dbHelper`** (Go): a tool that runs SQL against a TiDB/MySQL server. One process executes
  one task: `insert` fills a table, `compare-results` checks that pairs of queries return the
  same rows, `run-sqls` runs a random workload.
* **`cpp`** (C++): a line-based key-value server over RocksDB with an interactive client, and
  two thread harnesses (`concurrent.h`, `bench.cpp`).
* **`go/main`** (Go): four generators of large test tables. Which of them a process executes is
  decided by editing `main()`, which returns before any of them at this commit.

The rest (`scripts`, `python`, topology files) are operator scripts; see *Not modelled*.

## 1. Inventory

| Component | State | Operations | What is hard | What makes it correct |
|---|---|---|---|---|
| random scheduler (`run_sqls.go`, copied in `compare_results.go`) | run counts, slice of available items, mutex | `next()` | swap-removal, limit at its border | every item runs to its limit and never beyond; run numbers are unique |
| run-sqls workload (`runSQLWorkload`) | two contexts, counters, first failure, one goroutine per worker | draw, execute, count, fail once, return | deadline, failure and cancellation between `select`, `next()` and `execute()` | the summary adds up; the outcome is true; it ends |
| concurrent comparison (`runSQLPairsRandomly`) | worker context, scheduling context, first failure, completed runs | draw, execute both sides, compare, write files, report | the first failure interrupts the others, whose context errors race with it | the reported failure is genuine; none is swallowed; success is complete |
| failure files (`writeCompareFailureFiles`) | directory, mutex | find free suffix, write two files, remove incomplete | same name from two workers, a failed second write | the two sides stay in step; no file is overwritten or removed but one's own incomplete one |
| database sessions (`executeRunSQL`, `executeCompareSQL`, `getDB`) | Go's connection pool, session variables per connection | get, setup SQLs, query, release | pool at its limit, setup that fails half way, session reuse | one owner per connection; a query sees its setups and, in compare-results, no other |
| row comparison (`compareRows`, `compareRowKey`, `normalizeCompareText`) | none (pure) | fold case, key, sort, compare | keys that collide, folding | verdict = equality of multisets (or sequences) up to case |
| result files (`readResultFile`) | none (pure) | cut a file into rows | line ends, last line | the rows Python's `readlines` yields |
| task flow and YAML cases | `sync.Once`, kept error, global cases | load, validate, serial loop | partial load, repeated calls, a changing file | all cases or none; loaded once; first failing pair ends the loop |
| insert-values | tasks, counts, first error, context | split, generate, insert, cancel | ambiguous batch results, cancellation errors competing with the cause | success stores exactly the rows asked for; root cause returned |
| column values | configured columns | validate, prepare, generate | probability and length at their borders, quoting | nulls and lengths as configured; one literal per column |
| data generators (`go/main`) | the statement each worker builds, lists of values, one WaitGroup, the tables on the server | fill lists, append a row, flush a batch, panic, start again | batches that straddle null, empty and text rows; a panic in the middle of the others' statements; ignored errors of drop and create | a run that ends well has added the rows it reports; the window table holds every row once; only the database makes it panic |
| runner (`runner.go`) | task list, WaitGroup | add, run | tasks overlap | returns after all tasks |
| command line (`cmd_parameter.go`, `main.go`) | flags, three database configurations | parse, choose, override | positional form mixed with flags | the task written is the task run; its configuration gets exactly the values given last, and no other is touched |
| key-value server (`server.cpp`) | `g_stop`, descriptor set, workspaces by descriptor, RocksDB handle | accept, register, receive, execute, unregister, stop | descriptor reuse, signal during work, partial lines | database outlives workers; clients isolated; a signal ends it |
| client (`client.cpp`) | `sockFd_` shared by two threads | send lines, receive, close | unsynchronised close | each side sees the end of the other, unless `close()` catches a `recv()` in progress; no `recv()` on a descriptor that is gone |
| start gate, benchmark barrier | counter, condition variable | arrive, wait, finish | lost wakeup, shared counter | begin together, end together |

Interaction. `main.go` applies overrides and calls one task. `run-sqls` and the concurrent
comparison each own a scheduler (method calls under a mutex) and call the session code per
execution; workers share counters through a mutex, and the first failure through `sync.Once`.
`insert-values` runs its tasks through the runner and shares `runErr` and a cancellable
context. The generators' workers share nothing but the WaitGroup and, in the distinct
generator, the lists that the first phase leaves to the second; any of them ends the process
by a panic. The server's main thread and workers share `g_client_fds` and the `clients_` map,
each under a mutex of its own; the signal handler touches `g_stop` and the listening
descriptor; client and server interact through the socket.

The hazards, each at its source line with the properties aimed at it, are in `PROJECT.json`.

## 2. Modules and code

"Wrong variant" definitions in the modules are deliberately broken forms of the definition
that follows them; they are used to confirm that a property notices the bug and are no part of
a specification.

| Module | Models | State and actions |
|---|---|---|
| `RunQuota` | (abstract) | what a scheduler promises: grant a run of an item with quota, refuse only when there is none |
| `RandomScheduler` | `runSQLRandomScheduler` | `available` is the Go slice; `Take` draws index k, `SwapRemove` is the swap-removal, `Exhausted` the early return. `ImplementsQuota` is the refinement of `RunQuota` |
| `RunSQLs` | `runSQLWorkload` | extends the scheduler. A worker's `pc` follows its loop: `select` → `next` → `executing` → (`error` → `failing`) → `done`. The `select` and the call of `next()` are separate steps, so are `execute()` and the later look at `ctx.Err()` |
| `FailureFiles` | `writeCompareFailureFiles` and helpers | a file is a record of its path (name, side, suffix) and of the comparison whose rows it holds; `Put` replaces whatever was at the path. Searching and creating (`O_EXCL`), filling, and removing after a failed write are steps of `ComparePairs`; a removal may fail and leave an incomplete file |
| `ComparePairs` | `runSQLPairsRandomly`, `compareOneSQLPairWithLabel` | extends the scheduler and the files. A comparison is expected SQL, actual SQL, verdict, files |
| `PrivateSessions` | (abstract) | what an execution may rely on: a session to itself, its setups in order before the query (`AfterSetup`), and nothing left by others if executions are isolated |
| `SessionPool` | `executeRunSQL`, `executeCompareSQL`, `getDB` | the pool of `database/sql` (external) with open, idle, waiting and broken connections; `session[c]` is the set of setups a connection carries; `CloseIdle` is the timer of `SetConnMaxIdleTime`. `ImplementsPrivateSessions` is the refinement of `PrivateSessions` |
| `CompareRows` | row keys, folding, sorting, verdict, file mode | a state is one comparison of two result sets, given or read from two files |
| `ResultFile` | `readResultFile` | pure operators over sequences of characters, and a definition of `readlines` to compare them with |
| `CaseLoading` | the `sync.Once` loaders of both tasks | `once`, `yamlErr`, `cases`, and a file that may change |
| `CaseTasks` | `compareResultsTask`, `runConfiguredSQLsTask` | extends `CaseLoading`; one action per phase, for the task the process runs. The concurrent comparison and the workload are single steps here: `ComparePairs` and `RunSQLs` model them |
| `Runner`, `RunnerOrder` | `runner.go` | tasks are started by one loop and joined |
| `ColumnValues` | column validation, preparation and generation | pure operators: a literal is null, or a text with its pairs of quotes and length |
| `InsertValues` | `runInsertValues`, `startToInsertForOneTask` | extends the runner and the column values; a batch is a number of rows and the set of their forms. The server rejects one with a value quoted twice; any other that fails may have been applied |
| `GeneratorProcess` | what the generators share | main goroutine, WaitGroup, panic and restart; a worker's statement and a table are bags of rows; `AppendRow`, `FlushBatch`, `FlushRest`, `ExecSucceeds` and `ExecFails` are the loop around `db.Exec` |
| `DataGenerators` | `main.go`, `insert_distinct_agg.go`, `insert_window.go`, `parallel_sql.go` | extends the process; `program` says which generator runs. A row is null, empty, text or too long for its column; in the window table a partition and a number |
| `CommandLine` | `parseCommandLineOptions`, `run`, `applyDBCLIOverrides` | one action per argument of the `flag` package's loop (external), then the choice of the task and what `Override` does to its configuration |
| `KVServer` | `server.cpp` | main thread, one worker per connection, signal, kernel descriptors. Half a line is the unit of transfer. RocksDB is a function whose operations may be refused, replies are not kept. `SpawnFails` is a `std::thread` that cannot be started, which terminates the process; `Killed` names what a worker dies of |
| `TcpClient` | `client.cpp` | both threads; `close`, the assignment of -1 and each read of `sockFd_` are steps |
| `*_proofs` | | the theorems of section 5: `Tasks_proofs` about `CommandLine` and `CaseTasks`, `Rows_proofs` about `CompareRows`, `ResultFile` and `DataGenerators`, `KVServer_proofs` also about `TcpClient`, the others about the module of that name |
| `MC*` | | values for the constants |

Composition: `RunSQLs` and `ComparePairs` extend `RandomScheduler`; `ComparePairs` extends
`FailureFiles`; `InsertValues` extends `Runner` and `ColumnValues`; `DataGenerators` extends
`GeneratorProcess`; `CaseTasks` extends `CaseLoading`, and
`CompareRows` extends `ResultFile`.
`SessionPool` is what `execute()` of `RunSQLs` and the two executions of `ComparePairs`
abstract to "returns rows, or an error".

## 3. Runs

| Run | Instance | Shows |
|---|---|---|
| `run_sqls` | 2 workers, 2 statements, limits 0–2 | run numbers are unique and quotas exact (`ImplementsQuota`); the summary adds up (`RunsAccounted`); failures stop the workload (`FailFast`), also at the latest possible moment (`AtMostOneLateRun`); the outcome is true; the workload ends |
| `compare_pairs` | 2 workers, 2 pairs, one without a name, files left by an earlier process or not | failures are genuine and none is swallowed; success is complete; the two failure files stay in step and none is overwritten; it ends |
| `sessions` | 2 workers; 1 or 2 open, 0 or 1 idle connections | one owner per connection (`OneOwner`); every execution has a private session, a new one where the pool can give it (`ImplementsPrivateSessions`); nobody starves |
| `insert_values` | 3 tasks; totals 0, 2, 4, 5 in batches of 0, 1, 2; one row of every column type, with settings at and beyond their borders; the configured columns | exactly the rows asked for, as a set of rows of tasks (`RowsExact`), counts that match the table, root cause returned, no batch after an error, statements with nulls, lengths and quotes as configured, termination |
| `runner_order` | 3 tasks | **violated**: see findings |
| `compare_rows` | result sets of up to three rows over values that imitate the key's own separators, fold to each other or are not UTF-8; every file of up to five characters | the verdict is equality of multisets (or sequences) up to case of rows that preparation keeps, files are cut as `readlines` does |
| `case_tasks` | either task called twice, seven YAML files, three sets of cases in the source | a file is taken whole or not at all (`AllOrNothing`); the serial mode stops at the first failure; a task runs the whole configuration or nothing, on the first call and on later ones (`WholeConfigurationOrNothing`) |
| `command_line` | every line of up to four of thirteen arguments, two of them for the same flag | a leading task with complete flags runs, or is refused for its name or a `--task` (`LeadingTaskRunsIfComplete`); the configuration of the task that runs has exactly the values given last, the others none (`OverridesReachTheTask`) |
| `kv_server` | 2 connections on 2 descriptors; one client sends a complete request, the other one with too few or too many words (`Loads`) | the database outlives every worker; requests are executed once complete; unless the descriptor is reused too early, clients are isolated, only a send to a closed socket kills the server (`DiesOnlyOnSend`), and a signal ends it |
| `kv_server_stop` | 2 connections on 1 descriptor, one kind of client | **violated**: see findings |
| `generators` | all four generators: five, two or one workers, batches of 1 or 2 rows, up to two starts | a run that ends well has added the rows it says (`RowsAsAsked`); the window table holds each row once, after a crash and restart too (`WindowTableExact`); only the database makes the process panic; every run ends |
| `tcp_client` | 2 lines, 2 replies | the server's end reaches the receiving thread whatever main does, and the client's end reaches both, unless `close()` catches a `recv()` in progress (`EndsAreSeen`); no `recv()` begins after `close()` |

**Why the bounds are enough.** The workloads treat items and workers uniformly. Every race of
interest is between two workers, or a worker and the deadline, failure or caller; two items
are the least with which swap-removal moves an element and "some item is left" differs from
"this item is left", and limit 2 the least at which a statement runs both before and after a
failure. The theorems of section 5 remove these bounds
from the properties they state. What earlier processes left in the directory of the failure files
is any of `InitialFiles`; `InitialFilesAssumption` says what such a directory looks like: file
names are unique, nobody has removed a file below another one, and the two sides are in step.
`MaxRuns` cuts unlimited workloads;
the deadline is then their only end, as in the code. `InsertValues` has totals that divide and
do not divide by tasks and batches, and a total smaller than the number of tasks. With
two descriptors for two connections the workers of `kv_server` overlap, and the lowest free
number is reused when the first client leaves before the second comes, as the kernel does it;
`kv_server_stop` needs the reuse only and has one descriptor. Four arguments hold a task name, a complete flag and a flag without a
value. In `generators` batches of 1 and 2 rows against 3 and 5 rows make every flush happen,
also in the middle of a block; null and empty rows stay below a batch as they do in the code
(499 of 1000), so the flush inside their loops is unreachable here as it is there. There are as many
numbers to draw from (`Numbers`) as are asked for, so the last draw has one choice left and a
bound too small by one would draw for ever. A stride of
2 against up to 3 partitions makes the partition values overflow, as 10001 partitions would.
Only the window generator looks at what an earlier run left, so only it is started twice
(`MaxRuns`). Two calls of a task (`MaxCalls`) suffice to tell the first load from a later one.

**Deadlock** is checked in every run: a model that has ended stutters in an action of its own.

**Fairness.** Weak fairness of each goroutine or thread: Go's and the kernel's schedulers are
preemptive, and an enabled step stays enabled. `FairSpec` of `RunSQLs`, `ComparePairs` and
`InsertValues` also lets every SQL execution end. No timeout in the code forces that, so
termination is relative to a server that answers. The same holds for
the generators, where a drawn value that is not new is drawn again: `DrawAgain` is a step that
changes nothing, and fairness says that a new number is drawn at last if there is one left, which
random numbers do with probability one. Between two processes the
server is assumed to have finished the statements of the dead one. The timer of a timed
workload fires. The
caller is never obliged to cancel, a client of the server never obliged to send or leave, and
the peer of `TcpClient` never obliged to close before the connection is released. In
`SessionPool` a waiting worker is served when a connection is released, as `database/sql` does.

## 4. Findings

Each of these is a run that TLC refutes, quoting the line it contradicts (`PROJECT.json`,
"findings").

1. `kv_server_stop`: `handleClient` closes its descriptor before unregistering it. A client
   accepted in between loses its registration and keeps the server from stopping.
   `StopEndsUnlessRaced` shows that this window is the only reason not to stop, and
   `Isolation` that outside it descriptor reuse is harmless.
2. `runner_order`: the runner is concurrent, contrary to `compare_results.go:181` and to
   `TestRunnerExecutesTasksSeriallyInOrder`.

Other disagreements between code and comments were met while modelling. No run is spent on
them; where a property had to be restricted because of one, it says so.

* The first error does not cancel the other workers of run-sqls (`run_sqls.go:357`), although
  the comment at 47–49 says so; it only stops scheduling, which is what `FailFast` and
  `AtMostOneLateRun` state.
* With more workers than `SetMaxOpenConns` a released connection is handed to a waiting worker
  with its session state, contrary to the comment at `compare_results.go:377`. `ImplementsPrivateSessions`
  therefore asks for a new session only if there is a connection for every worker.
* Case-insensitive comparison maps all bytes that are not UTF-8 to U+FFFD
  (`compare_results.go:941`), so different binary values match; `VerdictIsAgreement` excludes
  that case.
* TIME, DATE and DATETIME values without prepared values are quoted twice
  (`insert_values.go:152`, `util.go:139`), so that every statement with one fails.
  `StatementsAsConfigured` names that case as its exception.
* A leading task name may become the value of a trailing flag (`cmd_parameter.go:61`), and
  `--task` then decides; `LeadingTaskRunsIfComplete` assumes that every flag has its value.
  `OverridesReachTheTask` does not: it takes the flags as they were read.
* The server does not handle SIGPIPE: sending to a client that has gone ends the process,
  which the model includes (`RaisesSIGPIPE`); `DiesOnlyOnSend` says that nothing else kills it
  from a worker. A `std::thread` that cannot be started is an exception nobody catches in `main`
  (`SpawnFails`).
* A client whose receiving thread is inside `recv()` when main closes the descriptor waits for the
  server, and the server for the end of a connection that this `recv()` keeps open
  (`client.cpp:59`). `EndsAreSeen` names it as its exception.
* The distinct generator inserts one row more per batch than it counts: `generateTableRows`
  starts with a row and adds `rowNum` others, and the log line of `insertTable` reports the smaller
  number. `RowsAsAsked` asks for at least the total there.
* `prepareData` ignores the errors of its drop and create statements (`insert_window.go:103`).
  After a failed drop the old rows stay, after a failed create the first insert panics;
  `WindowTableExact` excludes the first and `PanicsOnlyForDatabase` allows the second.
* A window worker owns 10000 partition values (`insert_window.go:52`); one with more partitions
  would write into its neighbour's. `WindowTableExact` excludes it.
* String lengths are validated before a value generator replaces the values, so a generator
  that returns nothing would leave them unvalidated; `InsertAssumption` excludes it.

## 5. Proofs

`RandomScheduler_proofs` (any number of items and clients, any set of limits):

* `SchedulerSafety`: `SchedulerInv`, the conjunction of the type invariant,
  `AvailableIsExact` (the slice holds exactly the items with quota, each once),
  `LimitRespected` and `RunNumbersUnique`. It is inductive as it stands; the work is in
  `SwapRemoveExact`, which says what swap-removal does to a slice without repetitions, for
  every index, the last included.
* `SchedulerImplementsQuota`: the refinement of `RunQuota`.

`RunSQLs_proofs` (any finite set of workers, any statements and limits; assumptions
`SchedulerAssumption`, `RunSQLsAssumption`):

* `WorkloadInvariant`: `IInv`, which strengthens the checked properties by what makes them
  inductive: a worker past `next()` holds a grant (`HoldsGrant`); a failure is in the counters
  before it is in `firstFailure`, with a worker in between (`FailureRecorded`); each
  failure that is not ignored costs a worker (`FailuresRetire`, from which "at most one failure
  per worker" follows); a worker is done for a reason (`DoneForReason`, from which
  completeness of a success follows); the task returns last (`ReturnsLast`).
* `AlwaysTypeOK`, `RunNumbersAlwaysUnique`, `RunsAlwaysAccounted`, `AlwaysFailFast`, `OutcomeAlwaysTruthful`, `FirstFailureIsKept`
  (an action property), `LateRunsBounded` (`AtMostOneLateRun`: a worker past its select stays away from
  `next()`, step by step) and `WorkloadImplementsQuota`.

The accounting proof is about cardinalities: a run that starts or ends moves one worker into
or out of `Unaccounted(s)` for one statement s, and `FiniteSetTheorems` gives the change.

`ComparePairs_proofs` (any finite set of workers, any pairs and limits, any directory that
`InitialFilesAssumption` allows; assumptions `SchedulerAssumption`, `ComparePairsAssumption`). `IInv`
has two parts.

* The control: an error is still in its worker's hands or something has stopped the workers, and
  a context error exists only after that (`ErrorsOnTheirWay`); `stopWorkers()` and the failure
  kept go together (`FailureKept`); until a failure stops the workers, a scheduled run is completed
  or in a worker's hands (`RunsAccounted`); workers end for a reason and before the task. From it
  follow `FirstFailureAlwaysGenuine`, `FailuresNeverSwallowed` and `SuccessAlwaysComplete`.
* The files: the mutex is held by whoever writes (`MutexHeld`); a comparison's files bear a run that
  was scheduled, and it has none before its turn (`NoFilesBefore`); between its two files its
  expected one is the last of its name (`ExpectedIsLast`), which with `NoGap` is why the actual one
  becomes the last as well. From it follow `SidesAlwaysInStep` and `FilesAlwaysKept` (an action
  property: a file is created only at a free path, although writing at a path would replace what
  is there, and a worker fills or removes only the incomplete file it has created itself, which no
  other one can have touched meanwhile). `ComparisonImplementsQuota` carries the scheduler's refinement over.

`SessionPool_proofs` (any finite sets of workers and connections, any pool limits; `PoolAssumption`):
`IInv` says who may hold a connection (`Holders`), that open connections are the idle ones and the
held ones and no connection is both (`OpenOwned`, `OwnersApart`), and that with a connection for
every worker and none kept idle nobody waits (`NobodyWaits`). `OneOwnerAlways` follows, and with
`Executing` the refinement `PoolImplementsPrivateSessions`: each action of the pool is shown to be one
step of `PrivateSessions` or a stutter; a session is new because `NobodyWaits` leaves only freshly
opened connections to take.

`InsertValues_proofs` (any number of tasks, any settings; `InsertAssumption`, `RunnerAssumption`):
`SharesCounted` bounds each task by its share and leaves at most one batch of unknown outcome,
`ErrorsOrdered` makes the first error a batch's, `SharesInserted` says that a task without an error
ends with its share stored. `RowsAlwaysExact` also needs that the shares add up to the total: `InShare`
identifies row k of task t with a number up to the total, by uniqueness of division, so that the
rows of all shares are in bijection with 1..total and no sum over tasks is needed.
`StatementsAlwaysAsConfigured` is about what validation and preparation make of any column.
`CountAlwaysMatches`, `RootCauseAlwaysReturned` and `NoBatchStartsAfterError` follow from the
invariant.

`KVServer_proofs` (any connections, descriptors and requests; `KVAssumption`): `IInv` says which
descriptors are in use and that, unless the race of section 4 has happened, no two workers use
one (`DescriptorsDistinct`); then the table of workspaces holds exactly those of the workers and
each pointer leads to its owner's (`WorkSpacesOwned`); requests are counted behind the lines
received, and those behind the lines sent (`LinesCounted`); the database is open from before the
first worker to after the last (`DatabaseOpen`). `DatabaseAlwaysOpen`, `DiesForOneReason` and
`WorkersAlwaysIsolated` are the checked invariants. For the client, `DescriptorGone` says what the
main thread has closed and cleared by when, and `NoRecvBeginsAfterClose` follows: a value of
`sockFd_` that the other thread had read before is no open descriptor any more.

`Tasks_proofs` has two parts. The tasks (any source, file contents and number of calls;
`CasesAssumption`, `CallsAssumption`): `IInv` ties the cases to what `once.Do` left behind (`OnceDone`), the pairs compared to
a front part of the cases (`Logged`), what the workload got to all of them (`Given`), and a result
to the log (`Returned`). `CasesAllOrNothing`, `SerialAlwaysExact`, `AlwaysWholeConfiguration`.

The command line (of any length over any arguments; `ArgsAssumption`): `CommandInv` says that what is left
to parse is a rear part of the reordered arguments (`RestIsSuffix`), that what has been parsed is a
row of flags with their values, of which each flag holds the last (`Parsed`), that a configuration
differs from the source's only by those of the chosen task (`Overridden`), and that with a leading
task name and complete flags the parser only ever stops at the start of a flag, until the name
alone is left (`AtFlag`; `NextStart` is the arithmetic of places). `LeadingTaskAlwaysRuns`, `OverridesAlwaysReachTheTask`.

`Rows_proofs`, part one: the rows that are compared (result sets of any size over any characters, any
options, any disjoint classes of characters that fold alike, any files; `RowsAssumption`). The
state hardly matters here; the work is in what the pure operators compute, for every input.

* Induction. The prover cannot use an induction rule with an operator parameter, so `LeastNatural`
  (a nonempty set of numbers has a least one) and `NaturalsAreAll` state induction for sets, and every
  recursive function is treated as the one solution of its equation: two tables that solve it
  agree, and one exists (`DigitsAgree`, `DigitsExist` for `strconv.Itoa`; `JoinsExist` for the concatenation
  of the keys; `Copies`, a set with as many pairs as a sum counts, for sums and cardinalities of
  bags).
* Keys. The decimal text of a number determines it (`ItoaInjective`). A key that starts like another
  as far as the shorter one reaches is the key of an equal cell (`CellKeyTells`): with the length
  in front no text can pass for the end of its cell. So the key of a row tells its cells one by
  one, and `RowKeyTells`: two rows have the same key exactly when `compareRowsEqual` holds.
  `CanonicalTells` says that texts are normalised alike when they fold alike.
* Sorting. `LessOrders`: comparing strings orders them totally. `SortIs`: sorting rearranges the rows in
  the order of their keys, and `SortedAlike`: two ways to sort one collection give the same sequence.
* The verdict. If every row is held equal to the row in its place, undoing the sorting of one
  side pairs the rows as received (`EqualAgree`); if the rows can be paired, the pairing carries the
  keys of one side into those of the other, so both sort alike (`AgreeEqual`). With `PreparedBag` and
  what a step leaves in the state (`VerdictInv`) this is `VerdictsAreRight`. Its condition is the one of
  the property: with case ignored, the texts are UTF-8.
* Files. `readResultFile` scans for ends of lines; `readlines` is defined on the text after CRLF and CR
  have become LF. `LinesAreReadlines` shows both to cut the same lines, by the places of the characters
  that are kept; `FilesAreCutAsReadlinesDoes` follows.

Part two: the generators (any programs that `ProgramsAssumption` allows: any batch size, any finite
crew; any numbers of rows, `GeneratorAssumption`). `GeneratorInv` says where the main goroutine can be
(`MainInv`), that the WaitGroup counts those who have not returned (`PendingInv`), what tables start from
(`EmptyInv`), and for each generator how many rows are in a worker's table and in its statement at each point
of its loop (`TablesState` and its like). For the window table counting is not enough:
`WindowRowsInv` says which rows are stored, which are in a statement, and that each is there once. The
assumptions name what the code's own numbers satisfy and the proofs need: the null and empty rows
are fewer than all rows, a prefix fits into its column, a list of distinct values is not empty.
`GeneratorInductive`, `GeneratorsDieOfTheDatabaseOnly`, `GeneratorsAddWhatTheySay` and
`WindowTableIsExact` are the results.

All inductive invariants were checked by TLC on small instances before they were proved. Every
invariant and action property of section 3 that TLC finds true is now a theorem, and so are the
refinements.

**Only model-checked**: the liveness properties, since the prover does not reason about fairness.
`StopEndsUnlessRaced` in particular rests on the two descriptors and two clients of its run alone.
What TLC refutes (section 4) is no theorem, and what holds outside those cases is proved with the
case as its stated exception.

## 6. Not modelled

* `cpp/concurrent.h` and `cpp/bench.cpp`: two condition-variable protocols that nothing calls.
  Whoever calls them should know that the last wait of `start_tasks` has no predicate and may
  miss its notification, and that both phases of `run_thread` share one counter, so that a
  fast thread may count down before a slow one has seen the full count.
* Of `go/main`: `generateTestQueries` and `query` (they print or time SQL), helpers of `util.go` that
  nothing calls, the text of the values, and the lists of t6 and t7, which are filled but belong to
  no table that is inserted.
* `scripts`, `python`, `*.py`: operator scripts that start external programs and print.
* `cpp/main.cpp`, `util.h`, the buffers of `bench.h`: experiments without callers.
* Wording of logs, previews and summaries; time measurement; the MySQL protocol; YAML syntax.
* Descriptors the server opens besides client connections, so the double `close()` of the
  listening descriptor (`server.cpp:314`) is only listed as a hazard.

## 7. Plan

1. *(done)* Scheduler, its abstract quota, the run-sqls workload; first proofs.
2. *(done)* Concurrent comparison with failure files, sessions, insert-values, runner.
3. *(done)* Server, client; pure algorithms; task flow; command line.
4. *(done)* The generators with crash and restart; private sessions and the refinement; the
   generated statements as part of the insert task.
5. Compose `SessionPool` with a workload, so that `execute()` is no longer a single step, and
   `TcpClient` with `KVServer`; state an abstract specification of the insert task (a set of
   rows that grows to the total, or an error) and of the server (an atomic map) and show the
   refinements.
6. *(done)* Prove the invariants and action properties of every component and the refinements.
7. Model the start gate and the benchmark barrier once something calls them.
