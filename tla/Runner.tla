------------------------------- MODULE Runner -------------------------------
(***************************************************************************)
(* The task runner of dbHelper/runner.go: run() starts one goroutine per   *)
(* task, in the order of the slice, and returns when all have returned.    *)
(***************************************************************************)
EXTENDS Integers

CONSTANT TaskCount     \* len(r.tasks)

ASSUME RunnerAssumption == TaskCount \in Nat \ {0}

VARIABLES spawned,     \* the number of tasks handed to wg.Go
          status,      \* status[t] of task t
          runReturned  \* run() has returned

runnerVars == <<spawned, status, runReturned>>

Tasks == 1..TaskCount

NewRunner == /\ spawned = 0
             /\ status = [t \in Tasks |-> "unstarted"]
             /\ runReturned = FALSE

\* One iteration of the loop over r.tasks.
SpawnTask == /\ spawned < TaskCount
             /\ spawned' = spawned + 1
             /\ status' = [status EXCEPT ![spawned + 1] = "spawned"]
             /\ UNCHANGED runReturned

\* The goroutine enters and leaves task().
BeginTask(t) == /\ status[t] = "spawned"
                /\ status' = [status EXCEPT ![t] = "running"]
                /\ UNCHANGED <<spawned, runReturned>>

EndTask(t) == /\ status[t] = "running"
              /\ status' = [status EXCEPT ![t] = "ended"]
              /\ UNCHANGED <<spawned, runReturned>>

\* wg.Wait() returns.
Join == /\ ~runReturned /\ spawned = TaskCount
        /\ \A t \in Tasks : status[t] = "ended"
        /\ runReturned' = TRUE
        /\ UNCHANGED <<spawned, status>>

RunnerTypeOK == /\ spawned \in 0..TaskCount
                /\ status \in [Tasks -> {"unstarted", "spawned", "running", "ended"}]
                /\ runReturned \in BOOLEAN
=============================================================================
