-------------------------- MODULE GeneratorProcess --------------------------
(***************************************************************************)
(* What the data generators of go/main have in common: a main goroutine    *)
(* that starts workers and waits for them with a WaitGroup, workers that   *)
(* build multi-row INSERT statements row by row and execute them, and the  *)
(* panic with which any database error ends the whole process, after which *)
(* the program may be started again on the tables it left.                 *)
(*                                                                         *)
(* Tables have no key: a table is a bag of rows, and so is the statement a *)
(* worker has built so far.  Of a process that dies the server may still   *)
(* apply the statements in flight; it has done with them before the next   *)
(* process comes (an assumption about the server).                         *)
(***************************************************************************)
EXTENDS Integers, Sequences, FiniteSets, FiniteSetsExt, Bags

CONSTANTS Programs,    \* the generator started, its crew and batch size, and the
                       \* tables of main()
          MaxRuns      \* bound: times the program is started

\* Workers are numbered from 0; the distinct generator has five tables.
ASSUME ProgramsAssumption ==
  \A p \in Programs :
    /\ p.gen \in {"tables", "distinct", "window", "parallel"}
    /\ p.batch \in Nat \ {0}
    /\ p.crew \subseteq Nat /\ IsFiniteSet(p.crew)
    /\ 0 \in p.crew /\ \A w \in p.crew : 0..w \subseteq p.crew
    /\ p.gen = "distinct" => p.crew = 0..4

VARIABLES
  program,       \* which generator this process is
  main,          \* where the main goroutine is
  pending,       \* the counter of the WaitGroup
  work,          \* work[w]: the local variables of worker w
  table,         \* table[t]: the rows of the t-th table
  exists,        \* the window table exists
  dropped,       \* the drop of the window table left no table behind
  reason,        \* why the process panicked
  runs

tables == <<table, exists, dropped>>
vars == <<program, main, pending, work, tables, reason, runs>>

gen  == program.gen
Crew == program.crew

\* at: "fill" (distinct), "plan" (window), "connect", then around the loop: "next"
\* block of rows, "row" to be appended without a look at the size, "loop", "flush"
\* and "last" in db.Exec, "end".  k: blocks begun; i, n: the loop variable and its
\* bound; rows: the statement.
Idle == [at |-> "off", k |-> 0, i |-> 0, n |-> 0, rows |-> EmptyBag,
         special |-> 0, same |-> 0, cached |-> 0, parts |-> <<>>, count |-> 0]

\* The window and the parallel workers share one table, the others have one each.
TableOf(w) == IF gen \in {"window", "parallel"} THEN 0 ELSE w

Become(w, r) == work' = [work EXCEPT ![w] = r]

\* The workers run while main waits for them.
Running(w) == main \in {"fill", "insert"} /\ w \in Crew

InExec == {w \in Crew : work[w].at \in {"flush", "last"}}

Applied(t, S) ==
  MapThenFoldSet(LAMBDA a, b : a (+) b, table[t], LAMBDA w : work[w].rows,
                 LAMBDA T : CHOOSE x \in T : TRUE, {w \in S : TableOf(w) = t})

\* What the server has against a statement.
Objection(w) ==
  IF gen = "window" /\ ~exists THEN "no table"
  ELSE IF "window" # gen /\ "too long" \in DOMAIN work[w].rows THEN "too long"
  ELSE "none"

\* A panic of any goroutine ends the process.
Panic(why) ==
  /\ main' = "crashed" /\ reason' = why
  /\ \E S \in SUBSET {w \in InExec : Objection(w) = "none"} :
       table' = [t \in DOMAIN table |-> Applied(t, S)]
  /\ UNCHANGED <<program, pending, work, exists, dropped, runs>>

-----------------------------------------------------------------------------
(* The main goroutine.                                                     *)

\* waiter.Add(n) and the loop of go statements.
StartWorkers(from, to, at) ==
  /\ main = from /\ main' = to
  /\ pending' = Cardinality(Crew)
  /\ work' = [w \in DOMAIN work |-> IF w \in Crew THEN [Idle EXCEPT !.at = at] ELSE Idle]
  /\ UNCHANGED <<program, tables, reason, runs>>

Wait(from, to) ==
  /\ main = from /\ pending = 0
  /\ main' = to
  /\ UNCHANGED <<program, pending, work, tables, reason, runs>>

\* waiter.Done() of a worker that returns.
Done(w) ==
  /\ Become(w, [work[w] EXCEPT !.at = "end"])
  /\ pending' = pending - 1
  /\ UNCHANGED <<program, main, tables, reason, runs>>

-----------------------------------------------------------------------------
(* A worker and its statement.                                             *)

Local(w, r) == /\ Become(w, r)
               /\ UNCHANGED <<program, main, pending, tables, reason, runs>>

\* getDB in a worker; a failure panics.
Connect(w) ==
  /\ Running(w) /\ work[w].at = "connect"
  /\ Local(w, [work[w] EXCEPT !.at = "next"]) \/ Panic("database")

NextBlock(w, from, to) ==
  Local(w, [work[w] EXCEPT !.at = "row", !.k = @ + 1, !.i = from, !.n = to])

\* One more row, where the loop appends without an Exec in between.
AppendRow(w, full, row, r) ==
  /\ \/ work[w].at = "row"
     \/ work[w].at = "loop" /\ work[w].i < work[w].n /\ ~full
  /\ Local(w, [r EXCEPT !.at = "loop", !.i = @ + 1, !.rows = @ (+) SetToBag({row})])

FlushBatch(w, full) ==
  /\ work[w].at = "loop" /\ work[w].i < work[w].n /\ full
  /\ Local(w, [work[w] EXCEPT !.at = "flush"])

\* Insert remaining data
FlushRest(w, needed) ==
  /\ work[w].at = "loop" /\ work[w].i >= work[w].n
  /\ Local(w, IF needed THEN [work[w] EXCEPT !.at = "last"]
              ELSE [work[w] EXCEPT !.at = "next", !.rows = EmptyBag])

ExecSucceeds(w) ==
  /\ Running(w) /\ w \in InExec /\ Objection(w) = "none"
  /\ table' = [table EXCEPT ![TableOf(w)] = @ (+) work[w].rows]
  /\ Become(w, [work[w] EXCEPT !.rows = EmptyBag,
                               !.at = IF @ = "flush" THEN "row" ELSE "next"])
  /\ UNCHANGED <<program, main, pending, exists, dropped, reason, runs>>

ExecFails(w) ==
  /\ Running(w) /\ w \in InExec
  /\ Panic(IF Objection(w) = "none" THEN "database" ELSE Objection(w))

-----------------------------------------------------------------------------
ProcessInit ==
  /\ program \in Programs
  /\ main = "start" /\ pending = 0 /\ reason = "none" /\ runs = 1
  /\ work = [w \in Crew |-> Idle]
  /\ table = [t \in Crew |-> EmptyBag]
  /\ exists = FALSE /\ dropped = TRUE

Ended == main \in {"done", "crashed"}

\* The operator starts the program again; the tables stay.  Only prepareData depends
\* on what it finds: the others' second run is like their first.
Restart ==
  /\ Ended /\ runs < MaxRuns /\ gen = "window"
  /\ main' = "start" /\ pending' = 0 /\ reason' = "none" /\ runs' = runs + 1
  /\ work' = [w \in Crew |-> Idle]
  /\ UNCHANGED <<program, tables>>

Finished == Ended /\ (runs = MaxRuns \/ gen # "window") /\ UNCHANGED vars
=============================================================================
