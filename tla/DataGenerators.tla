--------------------------- MODULE DataGenerators ---------------------------
(***************************************************************************)
(* The four generators of test tables in go/main: "tables" (the body of    *)
(* main(), main.go), "distinct" (runInsertDistinctAggTableWorkers),        *)
(* "window" (prepareData) and "parallel" (run, parallel_sql.go).  Which    *)
(* one a process executes is decided by editing main().                    *)
(*                                                                         *)
(* Of a row only this matters: null, empty or text, and whether the text   *)
(* fits its column; in the window table its partition and its number.      *)
(* Random numbers are arbitrary members of their range, and are drawn when *)
(* they are first used.                                                    *)
(***************************************************************************)
EXTENDS GeneratorProcess

CONSTANTS
  Specials,       \* possible numbers of null, and of empty, rows (0..499; 0..49)
  Expected,       \* possible values of expectedRowNum
  VarcharLen,     \* varcharLen (30)
  Prefix,         \* the length of the prefixes in prefixStr (3)
  MaxRepeat,      \* maxRepeatCount (5)
  DistinctRows,   \* totalDistinctAggRowNum
  RowsPerValue,   \* rows per distinct value (10)
  Numbers,        \* how many numbers can be drawn (100000000 ints)
  PairLists,      \* length of the two literal lists (10)
  WindowRows,     \* possible values of a window worker's totalRowNum
  MaxPartition,   \* rows of a partition (200000)
  Stride,         \* distance of two workers' partition values (10000)
  ParallelRows    \* totalRowCnt of one thread (1000000000)

ASSUME GeneratorAssumption ==
  /\ MaxRepeat \in Nat \ {0} /\ VarcharLen \in Nat /\ Prefix \in 1..(VarcharLen - 1)
  /\ Specials \subseteq Nat /\ Expected \subseteq Nat
  /\ \A n, m \in Specials, e \in Expected : n + m < e
  /\ Numbers \in Nat /\ DistinctRows \in Nat /\ RowsPerValue \in Nat \ {0} /\ PairLists \in Nat \ {0}
  /\ DistinctRows \div RowsPerValue \in 2..Numbers
  /\ WindowRows \subseteq Nat \ {0} /\ {MaxPartition, Stride, ParallelRows} \subseteq Nat \ {0}

\* Rows per statement: 1000, and 3000 in parallel_sql.go.
Batch == program.batch

-----------------------------------------------------------------------------
(* main.go                                                                 *)

\* The switch of runWorker.
StringKind(t) == CASE t = "t1" -> "binary"
                   [] t \in {"t2", "t4"} -> "case sensitive"
                   [] OTHER -> "case insensitive"
ThreeCols(t) == t \in {"t10", "t11", "t12"}

\* Wrong variant: no room is left for the prefix.
CILengthsUncut == 1..VarcharLen

\* getRandString(rand.Intn(varcharLen-3) + 1)
CILengths == 1..(VarcharLen - Prefix)

\* What generateBinString, generateCSString and generateCIString return: a string
\* is kept for a few calls, the prefix of the last is drawn anew for each.
Lengths(kind) == IF kind = "case insensitive" THEN CILengths ELSE 1..VarcharLen
GenerateString(kind, s) ==
  IF s.same = 0
  THEN {[s EXCEPT !.same = draw[1] - 1, !.cached = draw[2]] :
          draw \in (1..MaxRepeat) \X Lengths(kind)}
  ELSE {[s EXCEPT !.same = @ - 1]}
LengthOf(kind, s) == s.cached + (IF kind = "case insensitive" THEN Prefix ELSE 0)

\* candidateStr, for the second and third column of three.
CandidateLengths == 0..(VarcharLen - 1)

Text(lengths) == IF \A l \in lengths : l <= VarcharLen THEN "text" ELSE "too long"

Tables(w) == gen = "tables" /\ Running(w)
TableName(w) == program.tables[w + 1]

\* sql.Open and Ping; the caller panics if one fails.
OpenDB(next) ==
  /\ main = "start"
  /\ \/ /\ main' = next
        /\ UNCHANGED <<program, pending, work, tables, reason, runs>>
     \/ Panic("database")

GetDB == gen = "tables" /\ OpenDB("connected")

TablesStart == gen = "tables" /\ StartWorkers("connected", "insert", "next")
TablesWait == gen = "tables" /\ Wait("insert", "done")

\* generateNullAndEmptyStrTwoCols and -ThreeCols: n null rows, then n empty ones.
NullAndEmpty(w) ==
  /\ Tables(w) /\ work[w].at = "next" /\ work[w].k < 2
  /\ \E n \in Specials :
       Local(w, [work[w] EXCEPT !.at = "row", !.k = @ + 1, !.i = 0, !.n = n,
                                !.special = @ + n])

SpecialRow(w) ==
  /\ Tables(w) /\ work[w].k \in 1..2
  /\ AppendRow(w, work[w].i % Batch = 0, IF work[w].k = 1 THEN "null" ELSE "empty", work[w])

SpecialRest(w) ==
  /\ Tables(w) /\ work[w].k \in 1..2
  /\ FlushRest(w, work[w].n > 0)

\* Wrong variant: the null and empty rows are not counted.
OneTableFromZero(w) ==
  /\ Tables(w) /\ work[w].at = "next" /\ work[w].k = 2
  /\ \E n \in Expected : NextBlock(w, 0, n)

\* generateDataForOneTableTwoCols and -ThreeCols.
OneTable(w) ==
  /\ Tables(w) /\ work[w].at = "next" /\ work[w].k = 2
  /\ \E n \in Expected : NextBlock(w, work[w].special, n)

TextRowTwoCols(w) ==
  /\ Tables(w) /\ work[w].k = 3 /\ ~ThreeCols(TableName(w))
  /\ LET kind == StringKind(TableName(w))
     IN \E s \in GenerateString(kind, work[w]) :
          AppendRow(w, work[w].i % Batch = 0, Text({LengthOf(kind, s)}), s)

TextRowThreeCols(w) ==
  /\ Tables(w) /\ work[w].k = 3 /\ ThreeCols(TableName(w))
  /\ LET kind == StringKind(TableName(w))
     IN \E s \in GenerateString(kind, work[w]), c1, c2 \in CandidateLengths :
          AppendRow(w, work[w].i % Batch = 0, Text({LengthOf(kind, s), c1, c2}), s)

TablesFlush(w) == Tables(w) /\ FlushBatch(w, work[w].i % Batch = 0)

TextRest(w) == Tables(w) /\ work[w].k = 3 /\ FlushRest(w, TRUE)

\* tNRowCount = expectedRowNum; waiter.Done()
TableDone(w) ==
  /\ Tables(w) /\ work[w].at = "next" /\ work[w].k = 3
  /\ Done(w)

TablesWorker(w) ==
  \/ NullAndEmpty(w) \/ SpecialRow(w) \/ SpecialRest(w) \/ OneTable(w)
  \/ TextRowTwoCols(w) \/ TextRowThreeCols(w) \/ TablesFlush(w) \/ TextRest(w)
  \/ TableDone(w)

-----------------------------------------------------------------------------
(* insert_distinct_agg.go: five goroutines fill the lists of values, then  *)
(* five others insert rows made from them.  The count of a filler, kept    *)
(* after the first phase, is the length of its list.                       *)

NvdNum == DistinctRows \div RowsPerValue

DistinctFill == gen = "distinct" /\ StartWorkers("start", "fill", "fill")

\* wg.Wait() and wg.Add(len(tableNames)).
DistinctInsert ==
  /\ gen = "distinct" /\ main = "fill" /\ pending = 0
  /\ main' = "insert" /\ pending' = Cardinality(Crew)
  /\ work' = [w \in Crew |-> [work[w] EXCEPT !.at = "connect", !.i = 0]]
  /\ UNCHANGED <<program, tables, reason, runs>>

DistinctWait == gen = "distinct" /\ Wait("insert", "done")

\* generateDistAggRows.  A new string comes with a variant in other cases, which may
\* be in the map already.
Distinct(w) == gen = "distinct" /\ Running(w)
FillRounds(w) == CASE w \in {0, 1} -> NvdNum [] w = 2 -> NvdNum \div 2 [] OTHER -> 0

\* Wrong variant: one number of the range is never drawn.
DrawFromTooFew(w) ==
  /\ Distinct(w) /\ work[w].at = "fill" /\ w \in {0, 1}
  /\ work[w].i < FillRounds(w) /\ work[w].i < Numbers - 1
  /\ Local(w, [work[w] EXCEPT !.i = @ + 1])

\* One round of the loop over nvdNum: it draws until a number is new.
DrawNumber(w) ==
  /\ Distinct(w) /\ work[w].at = "fill" /\ w \in {0, 1}
  /\ work[w].i < FillRounds(w) /\ work[w].i < Numbers
  /\ Local(w, [work[w] EXCEPT !.i = @ + 1])

\* A number or string that was drawn before is drawn again.
DrawAgain(w) ==
  /\ Distinct(w) /\ work[w].at = "fill"
  /\ work[w].i \in 1..(FillRounds(w) - 1)
  /\ UNCHANGED vars

DrawString(w) ==
  /\ Distinct(w) /\ work[w].at = "fill" /\ w = 2 /\ work[w].i < FillRounds(w)
  /\ \E new \in 1..2 : Local(w, [work[w] EXCEPT !.i = @ + 1, !.n = @ + new])

Publish(w) ==
  /\ Distinct(w) /\ work[w].at = "fill" /\ work[w].i = FillRounds(w)
  /\ work' = [work EXCEPT ![w].at = "end",
              ![w].count = CASE w \in {0, 1} -> work[w].i [] w = 2 -> work[w].n
                             [] OTHER -> PairLists]
  /\ pending' = pending - 1
  /\ UNCHANGED <<program, main, tables, reason, runs>>

\* The tables t1, ..., t5 take their values from three lists.
ListOf(w) == CASE w = 0 -> 0 [] w \in {1, 2} -> 1 [] w \in {3, 4} -> 2

\* The loop over insertedRowNum, which grows by Batch after every Exec.
InsertedRowNum(w) == IF work[w].at = "row" THEN work[w].i + Batch ELSE work[w].i
DistinctLoop(w) == Distinct(w) /\ work[w].at \in {"next", "row"}

\* insertTable: generateTableRows starts with a row and adds rowNum others;
\* rand.Intn panics when its list is empty.
InsertTable(w) ==
  /\ DistinctLoop(w) /\ InsertedRowNum(w) < DistinctRows
  /\ IF work[ListOf(w)].count = 0 THEN Panic("empty list")
     ELSE Local(w, [work[w] EXCEPT !.at = "flush", !.i = InsertedRowNum(w),
                                   !.rows = [x \in {"row"} |-> 1 + Batch]])

DistinctDone(w) ==
  /\ DistinctLoop(w) /\ InsertedRowNum(w) >= DistinctRows
  /\ Done(w)

DistinctWorker(w) == \/ DrawNumber(w) \/ DrawAgain(w) \/ DrawString(w) \/ Publish(w)
                     \/ InsertTable(w) \/ DistinctDone(w)

-----------------------------------------------------------------------------
(* insert_window.go                                                        *)

GetWindowDB == gen = "window" /\ OpenDB("drop")

\* The errors of drop and create are not looked at.
DropTable ==
  /\ main = "drop" /\ main' = "create"
  /\ \/ exists' = FALSE /\ dropped' = TRUE /\ table' = [table EXCEPT ![0] = EmptyBag]
     \/ dropped' = ~exists /\ UNCHANGED <<exists, table>>
  /\ UNCHANGED <<program, pending, work, reason, runs>>

CreateTable ==
  /\ main = "create" /\ main' = "created"
  /\ exists' \in {TRUE, exists}
  /\ UNCHANGED <<program, pending, work, table, dropped, reason, runs>>

WindowStart == gen = "window" /\ StartWorkers("created", "insert", "plan")
WindowWait == gen = "window" /\ Wait("insert", "alter")

\* alter table test.agg_test set tiflash replica 1
AlterTable ==
  /\ main = "alter"
  /\ \/ /\ main' = "done"
        /\ UNCHANGED <<program, pending, work, tables, reason, runs>>
     \/ Panic("database")

Window(w) == gen = "window" /\ Running(w)

\* The partitions of n rows: the last is cut short where it would exceed n.
PartitionsOf(n) ==
  {s \in UNION {[1..k -> 1..MaxPartition] : k \in 1..n} :
     MapThenSumSet(LAMBDA k : s[k], DOMAIN s) = n}

GeneratePartition(w) ==
  /\ Window(w) /\ work[w].at = "plan"
  /\ \E n \in WindowRows : \E s \in PartitionsOf(n) :
       Local(w, [work[w] EXCEPT !.at = "next", !.parts = s])

\* Wrong variant: the workers' partition values overlap.
PartitionValueWithoutStride(w) == w + work[w].k

PartitionValue(w) == Stride * w + work[w].k

\* One round of the loop over the partitions.
Partition(w) ==
  /\ Window(w) /\ work[w].at = "next" /\ work[w].k < Len(work[w].parts)
  /\ NextBlock(w, 0, work[w].parts[work[w].k + 1])

WindowFull(w) == BagCardinality(work[w].rows) > Batch

WindowRow(w) ==
  /\ Window(w)
  /\ AppendRow(w, WindowFull(w), <<PartitionValue(w), work[w].i>>, work[w])
WindowFlush(w) == Window(w) /\ FlushBatch(w, WindowFull(w))
WindowRest(w) == Window(w) /\ FlushRest(w, TRUE)
WindowDone(w) ==
  /\ Window(w) /\ work[w].at = "next" /\ work[w].k = Len(work[w].parts)
  /\ Done(w)

WindowWorker(w) == \/ GeneratePartition(w) \/ Partition(w) \/ WindowRow(w)
                   \/ WindowFlush(w) \/ WindowRest(w) \/ WindowDone(w)

-----------------------------------------------------------------------------
(* parallel_sql.go                                                         *)

ParallelStart == gen = "parallel" /\ StartWorkers("start", "insert", "connect")
ParallelWait == gen = "parallel" /\ Wait("insert", "done")

Parallel(w) == gen = "parallel" /\ Running(w)

Task(w) ==
  /\ Parallel(w) /\ work[w].at = "next" /\ work[w].k = 0
  /\ NextBlock(w, 0, ParallelRows)

\* generateInsertSql, and the loop of the task that executes what it returns.
GenerateInsertSql(w) ==
  /\ Parallel(w)
  /\ \/ AppendRow(w, BagCardinality(work[w].rows) >= Batch, "pair", work[w])
     \/ FlushBatch(w, BagCardinality(work[w].rows) >= Batch)
     \/ FlushRest(w, TRUE)

TaskDone(w) ==
  /\ Parallel(w) /\ work[w].at = "next" /\ work[w].k = 1
  /\ Done(w)

ParallelWorker(w) == Task(w) \/ GenerateInsertSql(w) \/ TaskDone(w)

-----------------------------------------------------------------------------
Init == ProcessInit

Main == \/ GetDB \/ TablesStart \/ TablesWait
        \/ DistinctFill \/ DistinctInsert \/ DistinctWait
        \/ GetWindowDB \/ DropTable \/ CreateTable \/ WindowStart \/ WindowWait
        \/ AlterTable \/ ParallelStart \/ ParallelWait

Worker(w) == \/ (gen \in {"distinct", "parallel"} /\ Connect(w))
             \/ ExecSucceeds(w) \/ ExecFails(w)
             \/ TablesWorker(w) \/ DistinctWorker(w) \/ WindowWorker(w) \/ ParallelWorker(w)

Next == Main \/ (\E w \in Crew : Worker(w)) \/ Restart \/ Finished

Spec == Init /\ [][Next]_vars

\* Goroutines are scheduled, the server answers every statement, and who keeps
\* drawing draws a number not drawn before, if there is one.
FairSpec == /\ Spec /\ WF_vars(Main)
            /\ \A w \in UNION {p.crew : p \in Programs} : WF_vars(w \in Crew /\ Worker(w))

-----------------------------------------------------------------------------
Added(t) == BagCardinality(table[t])

\* A run that ends well has added the rows it says: expectedRowNum, the value
\* generateDataForOneTable... returns, however the null, empty and text rows fall
\* into batches; totalRowCnt per thread; totalDistinctAggRowNum or more (a batch
\* of generateTableRows has one row too many).
RowsAsAsked ==
  main = "done" =>
    CASE gen = "tables" -> \A w \in Crew : Added(w) = work[w].n
      [] gen = "distinct" -> \A w \in Crew : Added(w) >= DistinctRows
      [] gen = "parallel" -> Added(0) = Cardinality(Crew) * ParallelRows
      [] gen = "window" -> TRUE

\* After prepareData returns, agg_test holds every row of every partition exactly
\* once, whatever an earlier run that panicked had left in it, unless the drop
\* failed unnoticed or a worker ran out of partition values.
WindowTableExact ==
  (main = "done" /\ gen = "window" /\ dropped /\ \A w \in Crew : Len(work[w].parts) <= Stride)
    => table[0] = SetToBag(UNION {UNION {
         {<<Stride * w + k, i>> : i \in 0..(work[w].parts[k] - 1)} :
           k \in DOMAIN work[w].parts} : w \in Crew})

\* The process panics only for an error of the database, or because it overlooked
\* one: never for values that are not there yet or do not fit their column.
PanicsOnlyForDatabase ==
  reason \in {"none", "database", "no table"}

\* Every run ends: nobody waits for a worker that is gone.
Termination == []<>Ended
=============================================================================
