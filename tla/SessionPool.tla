----------------------------- MODULE SessionPool -----------------------------
(***************************************************************************)
(* How one SQL of dbHelper runs on a database session: executeRunSQL       *)
(* (run_sqls.go) and executeCompareSQL (compare_results.go) take a         *)
(* connection from the pool, execute their setup SQLs and the query on it  *)
(* and release it on every path.  The pool is Go's database/sql, modelled  *)
(* from how dbHelper configures and uses it (getDB, SetMaxIdleConns(0)):   *)
(* an idle connection is reused, a new one is opened below MaxOpen,        *)
(* otherwise the caller waits; a released connection goes to a waiter, or  *)
(* back to the idle list, or is closed.  The MySQL driver does not reset   *)
(* the session of a connection that is reused.                             *)
(***************************************************************************)
EXTENDS Integers, Sequences, FiniteSets

CONSTANTS Workers,     \* goroutines, each executing one SQL at a time
          Conns,       \* connections to the server
          NoConn,      \* no connection is held
          SQLs,        \* the configured SQLs (cases, or sides of a pair)
          Setups,      \* Setups[s]: setup SQLs of s, in order; "" is blank
          Pools,       \* limits that are explored: SetMaxOpenConns and
                       \* SetMaxIdleConns, as [open |-> _, idle |-> _]
          MaxExecs     \* bound: SQLs one worker executes

ASSUME PoolAssumption ==
  /\ IsFiniteSet(Workers) /\ IsFiniteSet(Conns) /\ NoConn \notin Conns
  /\ Pools \subseteq [open : Nat \ {0}, idle : Nat] /\ MaxExecs \in Nat
  /\ \A p \in Pools : Cardinality(Conns) >= p.open
  /\ DOMAIN Setups = SQLs /\ \A s \in SQLs : Setups[s] \in Seq(STRING)

VARIABLES
  pool,          \* the limits of this process
  open,          \* the open connections (numOpen is their number)
  idle,          \* freeConn: idle connections, the last is reused first
  session,       \* session[c]: the setup SQLs whose effect c carries
  broken,        \* connections the driver has found unusable
  waiting,       \* workers with a pending connection request
  conn,          \* conn[w]: the connection w holds
  pc, stmt,      \* where worker w is, and with which SQL
  setup,         \* setup[w]: the next index into Setups[stmt[w]]
  execs,         \* execs[w]: SQLs w has executed
  ctxDone,       \* the context of the executions is canceled
  closed         \* db.Close() has returned

poolVars == <<pool, open, idle, session, broken, waiting>>
vars == <<poolVars, conn, pc, stmt, setup, execs, ctxDone, closed>>

NoSQL == "none"
MaxOpen == pool.open
MaxIdle == pool.idle

FirstSetup == 1

\* After getDB one connection, used by Ping, is idle; SetMaxIdleConns(0) in
\* compareConfiguredSQLPairs closes it.
Init ==
  /\ pool \in Pools
  /\ \E c \in Conns : /\ open = IF MaxIdle > 0 THEN {c} ELSE {}
                      /\ idle = IF MaxIdle > 0 THEN <<c>> ELSE <<>>
  /\ session = [c \in Conns |-> {}]
  /\ broken = {}
  /\ waiting = {}
  /\ conn = [w \in Workers |-> NoConn]
  /\ pc = [w \in Workers |-> "ready"]
  /\ stmt = [w \in Workers |-> NoSQL]
  /\ setup = [w \in Workers |-> FirstSetup]
  /\ execs = [w \in Workers |-> 0]
  /\ ctxDone = FALSE
  /\ closed = FALSE

-----------------------------------------------------------------------------
(* database/sql.                                                           *)

\* A connection that is opened starts with a fresh session.
OpenConn(w, c) ==
  /\ c \in Conns \ open
  /\ open' = open \union {c}
  /\ session' = [session EXCEPT ![c] = {}]
  /\ conn' = [conn EXCEPT ![w] = c]

\* maxIdleConns > len(freeConn)
IdleRoom == Len(idle) < MaxIdle

\* putConn for worker w's connection.
PutConn(w) ==
  LET c == conn[w]
  IN \/ \* the driver rejects it, or there is no room for it
        /\ c \in broken \/ (waiting = {} /\ ~IdleRoom)
        /\ open' = open \ {c}
        /\ broken' = broken \ {c}
        /\ conn' = [conn EXCEPT ![w] = NoConn]
        /\ UNCHANGED <<idle, waiting>>
     \/ \* a pending request takes it as it is
        /\ c \notin broken
        /\ \E v \in waiting :
             /\ waiting' = waiting \ {v}
             /\ conn' = [conn EXCEPT ![w] = NoConn, ![v] = c]
        /\ UNCHANGED <<open, idle, broken>>
     \/ /\ c \notin broken /\ waiting = {} /\ IdleRoom
        /\ idle' = Append(idle, c)
        /\ conn' = [conn EXCEPT ![w] = NoConn]
        /\ UNCHANGED <<open, broken, waiting>>

-----------------------------------------------------------------------------
(* One worker executing one SQL.                                           *)

Goto(w, from, to) == pc[w] = from /\ pc' = [pc EXCEPT ![w] = to]

\* db.Conn(ctx).  The two ends of the wait are Granted and WaitFails.
Acquire(w) ==
  /\ pc[w] = "ready" /\ execs[w] < MaxExecs /\ ~ctxDone
  /\ execs' = [execs EXCEPT ![w] = @ + 1]
  /\ \E s \in SQLs : stmt' = [stmt EXCEPT ![w] = s]
  /\ setup' = [setup EXCEPT ![w] = FirstSetup]
  /\ \/ /\ idle # <<>>
        /\ conn' = [conn EXCEPT ![w] = idle[Len(idle)]]
        /\ idle' = SubSeq(idle, 1, Len(idle) - 1)
        /\ pc' = [pc EXCEPT ![w] = "setup"]
        /\ UNCHANGED <<open, session, waiting>>
     \/ /\ idle = <<>> /\ Cardinality(open) < MaxOpen
        /\ \E c \in Conns : OpenConn(w, c)
        /\ pc' = [pc EXCEPT ![w] = "setup"]
        /\ UNCHANGED <<idle, waiting>>
     \/ /\ idle = <<>> /\ Cardinality(open) >= MaxOpen
        /\ waiting' = waiting \union {w}
        /\ pc' = [pc EXCEPT ![w] = "waiting"]
        /\ UNCHANGED <<open, idle, session, conn>>
  /\ UNCHANGED <<pool, broken, ctxDone, closed>>

\* db.Conn(ctx) returns an error: ctx is done, or the server cannot be reached.
AcquireFails(w) ==
  /\ pc[w] = "ready" /\ execs[w] < MaxExecs
  /\ ctxDone \/ (idle = <<>> /\ Cardinality(open) < MaxOpen)
  /\ execs' = [execs EXCEPT ![w] = @ + 1]
  /\ UNCHANGED <<poolVars, conn, pc, stmt, setup, ctxDone, closed>>

\* A connection was handed over by PutConn.
Granted(w) ==
  /\ Goto(w, "waiting", "setup")
  /\ conn[w] # NoConn
  /\ UNCHANGED <<poolVars, conn, stmt, setup, execs, ctxDone, closed>>

\* A connection closed elsewhere made room: the opener serves the request.
OpenForWaiter(w) ==
  /\ w \in waiting /\ Cardinality(open) < MaxOpen
  /\ \E c \in Conns : OpenConn(w, c)
  /\ waiting' = waiting \ {w}
  /\ UNCHANGED <<pool, idle, broken, pc, stmt, setup, execs, ctxDone, closed>>

\* The request is withdrawn (ctx is done) or answered with the error of the
\* opener; ctx may also win against a connection already handed over, which is
\* then put back.
WaitFails(w) ==
  /\ Goto(w, "waiting", "ready")
  /\ \/ /\ w \in waiting
        /\ ctxDone \/ Cardinality(open) < MaxOpen
        /\ waiting' = waiting \ {w}
        /\ UNCHANGED <<open, idle, broken, conn>>
     \/ /\ w \notin waiting /\ ctxDone
        /\ PutConn(w)
  /\ stmt' = [stmt EXCEPT ![w] = NoSQL]
  /\ UNCHANGED <<pool, session, setup, execs, ctxDone, closed>>

\* Wrong variant: setup SQLs go through db, to whatever connection it picks.
SetupElsewhere(w) ==
  /\ pc[w] = "setup" /\ setup[w] <= Len(Setups[stmt[w]])
  /\ setup' = [setup EXCEPT ![w] = @ + 1]
  /\ \E c \in open :
       session' = [session EXCEPT ![c] = @ \union {<<stmt[w], setup[w]>>}]
  /\ UNCHANGED <<pool, open, idle, broken, waiting, conn, pc, stmt, execs, ctxDone,
                 closed>>

\* The loop over setupSQLs; a blank setup SQL is skipped.
Setup(w) ==
  /\ pc[w] = "setup" /\ setup[w] <= Len(Setups[stmt[w]])
  /\ setup' = [setup EXCEPT ![w] = @ + 1]
  /\ session' = IF Setups[stmt[w]][setup[w]] = "" THEN session
                ELSE [session EXCEPT ![conn[w]] =
                        @ \union {<<stmt[w], setup[w]>>}]
  /\ UNCHANGED <<pool, open, idle, broken, waiting, conn, pc, stmt, execs, ctxDone,
                 closed>>

SetupsDone(w) ==
  /\ Goto(w, "setup", "query")
  /\ setup[w] = Len(Setups[stmt[w]]) + 1
  /\ UNCHANGED <<poolVars, conn, stmt, setup, execs, ctxDone, closed>>

\* The query and the reading of its rows.
Query(w) ==
  /\ Goto(w, "query", "release")
  /\ UNCHANGED <<poolVars, conn, stmt, setup, execs, ctxDone, closed>>

\* A setup SQL, the query or the reading of its rows fails.  An error of the
\* SQL leaves the connection usable; a lost or interrupted one does not.
StatementFails(w) ==
  /\ \/ pc[w] = "query"
     \/ /\ pc[w] = "setup" /\ setup[w] <= Len(Setups[stmt[w]])
        /\ Setups[stmt[w]][setup[w]] # ""
  /\ pc' = [pc EXCEPT ![w] = "release"]
  /\ \E lost \in {{}, {conn[w]}} : broken' = broken \union lost
  /\ UNCHANGED <<pool, open, idle, session, waiting, conn, stmt, setup, execs, ctxDone,
                 closed>>

\* Wrong variant: conn.Close() is forgotten.
ReleaseForgotten(w) ==
  /\ Goto(w, "release", "ready")
  /\ conn' = [conn EXCEPT ![w] = NoConn]
  /\ stmt' = [stmt EXCEPT ![w] = NoSQL]
  /\ UNCHANGED <<poolVars, setup, execs, ctxDone, closed>>

\* The deferred conn.Close() of both functions.
Release(w) ==
  /\ Goto(w, "release", "ready")
  /\ PutConn(w)
  /\ stmt' = [stmt EXCEPT ![w] = NoSQL]
  /\ UNCHANGED <<pool, session, setup, execs, ctxDone, closed>>

-----------------------------------------------------------------------------
Cancel == /\ ~ctxDone /\ ~closed /\ ctxDone' = TRUE
          /\ UNCHANGED <<poolVars, conn, pc, stmt, setup, execs, closed>>

\* SetConnMaxIdleTime: the connection that has been idle longest is closed.
CloseIdle ==
  /\ ~closed /\ idle # <<>>
  /\ open' = open \ {Head(idle)}
  /\ idle' = Tail(idle)
  /\ UNCHANGED <<pool, session, broken, waiting, conn, pc, stmt, setup, execs, ctxDone,
                 closed>>

\* The deferred db.Close() of the task, after its workers have returned.
CloseDB ==
  /\ ~closed
  /\ \A w \in Workers : pc[w] = "ready" /\ execs[w] = MaxExecs
  /\ closed' = TRUE
  /\ open' = open \ {idle[k] : k \in 1..Len(idle)}
  /\ idle' = <<>>
  /\ UNCHANGED <<pool, session, broken, waiting, conn, pc, stmt, setup, execs, ctxDone>>

Finished == closed /\ UNCHANGED vars

Worker(w) ==
  \/ Acquire(w) \/ AcquireFails(w) \/ Granted(w) \/ OpenForWaiter(w)
  \/ WaitFails(w) \/ Setup(w) \/ SetupsDone(w) \/ Query(w) \/ StatementFails(w)
  \/ Release(w)

Next == \/ \E w \in Workers : Worker(w)
        \/ Cancel \/ CloseIdle \/ CloseDB \/ Finished

Spec == Init /\ [][Next]_vars

\* Executions end, and the pool serves a request as soon as it can.
FairSpec == /\ Spec
            /\ \A w \in Workers : WF_vars(Worker(w))
            /\ WF_vars(CloseDB)

-----------------------------------------------------------------------------
TypeOK ==
  /\ open \subseteq Conns /\ idle \in Seq(Conns)
  /\ session \in [Conns -> SUBSET (SQLs \X Nat)]
  /\ broken \subseteq Conns /\ waiting \subseteq Workers
  /\ conn \in [Workers -> Conns \union {NoConn}]
  /\ pc \in [Workers -> {"ready", "waiting", "setup", "query", "release"}]
  /\ stmt \in [Workers -> SQLs \union {NoSQL}]
  /\ setup \in [Workers -> Nat \ {0}] /\ execs \in [Workers -> Nat]
  /\ ctxDone \in BOOLEAN /\ closed \in BOOLEAN

\* Every open connection has exactly one owner, the idle list or one worker: no
\* error path of executeRunSQL or executeCompareSQL keeps or doubly releases one.
OneOwner ==
  /\ open = {idle[k] : k \in 1..Len(idle)}
              \union ({conn[w] : w \in Workers} \ {NoConn})
  /\ \A j, k \in 1..Len(idle) : idle[j] = idle[k] => j = k
  /\ \A w \in Workers : conn[w] # NoConn =>
       /\ \A k \in 1..Len(idle) : idle[k] # conn[w]
       /\ \A v \in Workers : conn[v] = conn[w] => v = w
  /\ closed => open = {}

\* Every execution has a private session in the sense of PrivateSessions, whatever
\* the pool does; a new one if no idle connections are kept and there is a
\* connection for every worker, as compare-results is run by default.
Private == INSTANCE PrivateSessions WITH
  Clients <- Workers,
  isolated <- MaxIdle = 0 /\ Cardinality(Workers) <= MaxOpen,
  running <- [w \in Workers |->
                IF pc[w] \in {"setup", "query"}
                THEN [stmt |-> stmt[w], next |-> setup[w], session |-> session[conn[w]],
                      querying |-> pc[w] = "query"]
                ELSE [stmt |-> "none"]]
ImplementsPrivateSessions == Private!PrivateSpec

\* Nobody waits for a connection for ever, and the task ends.
Termination == <>closed
=============================================================================
