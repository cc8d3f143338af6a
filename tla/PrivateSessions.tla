--------------------------- MODULE PrivateSessions ---------------------------
(***************************************************************************)
(* What an execution of a configured SQL may rely on, with no connection   *)
(* pool: "they always execute on the same database session"                *)
(* (run_sqls.go:31-32).  Every execution has a session to itself, on which *)
(* its setup SQLs take effect in their order, before the query and with    *)
(* nothing from others in between.  If executions are isolated the session *)
(* is new: "Session variables set by setupSQLs must not leak into another  *)
(* SQL in a later case" (compare_results.go:376-378).  Otherwise it may    *)
(* carry what earlier executions left.                                     *)
(***************************************************************************)
EXTENDS Integers, Sequences

CONSTANTS Clients, SQLs, Setups

VARIABLES isolated,    \* executions are isolated from earlier ones
          running      \* running[c]: the execution of c, or NotRunning

privateVars == <<isolated, running>>

NotRunning == [stmt |-> "none"]

\* An execution: its SQL, the next setup SQL, the session, whether the query runs.
Execution(s, k, session, q) ==
  [stmt |-> s, next |-> k, session |-> session, querying |-> q]

AllSetups == UNION {{<<s, k>> : k \in 1..Len(Setups[s])} : s \in SQLs}

PrivateInit == isolated \in BOOLEAN /\ running = [c \in Clients |-> NotRunning]

Become(c, r) == running' = [running EXCEPT ![c] = r] /\ UNCHANGED isolated

BeginExecution(c) ==
  /\ running[c] = NotRunning
  /\ \E s \in SQLs, left \in SUBSET AllSetups :
       /\ isolated => left = {}
       /\ Become(c, Execution(s, 1, left, FALSE))

\* A blank setup SQL is skipped.
AfterSetup(e) ==
  Execution(e.stmt, e.next + 1,
            IF Setups[e.stmt][e.next] = "" THEN e.session
            ELSE e.session \union {<<e.stmt, e.next>>},
            FALSE)

ApplySetup(c) ==
  /\ running[c] # NotRunning
  /\ ~running[c].querying /\ running[c].next <= Len(Setups[running[c].stmt])
  /\ Become(c, AfterSetup(running[c]))

BeginQuery(c) ==
  /\ running[c] # NotRunning
  /\ running[c].next > Len(Setups[running[c].stmt])
  /\ Become(c, Execution(running[c].stmt, running[c].next, running[c].session, TRUE))

\* The query is done, or a statement has failed.
EndExecution(c) == running[c] # NotRunning /\ Become(c, NotRunning)

PrivateNext ==
  \E c \in Clients :
    BeginExecution(c) \/ ApplySetup(c) \/ BeginQuery(c) \/ EndExecution(c)

PrivateSpec == PrivateInit /\ [][PrivateNext]_privateVars
=============================================================================
