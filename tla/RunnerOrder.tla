----------------------------- MODULE RunnerOrder -----------------------------
(***************************************************************************)
(* The runner executing tasks that record the order in which they run, as  *)
(* TestRunnerExecutesTasksSeriallyInOrder does.                            *)
(***************************************************************************)
EXTENDS Runner, Sequences

VARIABLE order         \* order = append(order, t)

vars == <<runnerVars, order>>

Init == NewRunner /\ order = <<>>

Next == \/ SpawnTask /\ UNCHANGED order
        \/ \E t \in Tasks : BeginTask(t) /\ UNCHANGED order
        \/ \E t \in Tasks : EndTask(t) /\ order' = Append(order, t)
        \/ Join /\ UNCHANGED order
        \/ runReturned /\ UNCHANGED vars

Spec == Init /\ [][Next]_vars

\* compare_results_test.go:658-670 and "runner itself is deliberately
\* single-threaded" (compare_results.go:180-182): the tasks run in their order.
SeriallyInOrder == \A k \in 1..Len(order) : order[k] = k
=============================================================================
