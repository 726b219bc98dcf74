---------------------------- MODULE ParallelRunner ---------------------------
(***************************************************************************)
(* parallel_run of parallel_runner.c: one thread for every connection      *)
(* strategy, and a caller that polls their results every 100 ms without a  *)
(* lock until it sees a success, until it has counted as many results as   *)
(* there are tasks, or until parallel_cancel_all is called; then it joins  *)
(* every thread, copies one result and frees them all.                     *)
(*                                                                         *)
(* A task is named by its place in the strategy list.  strategy_filter     *)
(* lists only strategies that have an executor.                            *)
(*                                                                         *)
(* One call is modelled.  Left out is g_tasks, the list to which           *)
(* task_start adds every task and which nobody reads: its count is never   *)
(* reset, so the calls of a process together may start MAX_STRATEGIES      *)
(* tasks before the next is written behind its end.                        *)
(***************************************************************************)
EXTENDS Integers, FiniteSets

CONSTANTS
  N,       \* the number of strategies in the list
  Stubs    \* the strategies whose executor is not implemented and only fails

ASSUME CountAssumption == N \in Nat
Tasks == 1 .. N

VARIABLES
  pc,         \* where parallel_run is
  i,          \* its loop index
  completed,  \* its count of completed tasks
  winner,     \* success_index, 0 for none
  ret,        \* what it returned
  chosen,     \* the task whose result was copied out, 0 for none
  thread,     \* the thread of each task
  success,    \* result->success of each task
  failed,     \* result->error_code # 0 of each task
  freed,      \* the tasks are freed
  cancelled   \* g_cancelled

runner == <<pc, i, completed, winner, ret, chosen, freed>>
task == <<thread, success, failed>>
vars == <<runner, task, cancelled>>

Started == {k \in Tasks : thread[k] # "none"}

Init ==
  /\ pc = "call"
  /\ i = 1
  /\ completed = 0
  /\ winner = 0
  /\ ret = 1
  /\ chosen = 0
  /\ thread = [k \in Tasks |-> "none"]
  /\ success = [k \in Tasks |-> FALSE]
  /\ failed = [k \in Tasks |-> FALSE]
  /\ freed = FALSE
  /\ cancelled \in BOOLEAN

----------------------------------------------------------------------------
(* The caller.                                                              *)

At(where) == pc = where
Step(where, index) == pc' = where /\ i' = index

Return(value, result) ==
  /\ ret' = value
  /\ chosen' = result
  /\ Step("done", i)

\* A cancel that came before is forgotten.
Begin ==
  /\ At("call")
  /\ IF N = 0 THEN Return(-1, 0) /\ UNCHANGED cancelled
              ELSE /\ cancelled' = FALSE
                   /\ Step("launch", 1)
                   /\ UNCHANGED <<ret, chosen>>
  /\ UNCHANGED <<completed, winner, freed, task>>

\* A task that cannot be created or started is left out.
Launch ==
  /\ At("launch") /\ i <= N
  /\ \/ thread' = [thread EXCEPT ![i] = "running"]
     \/ UNCHANGED thread
  /\ Step("launch", i + 1)
  /\ UNCHANGED <<completed, winner, ret, chosen, freed, success, failed, cancelled>>

Launched ==
  /\ At("launch") /\ i > N
  /\ IF Started = {} THEN Return(-1, 0)
                     ELSE Step("poll", 1) /\ UNCHANGED <<ret, chosen>>
  /\ UNCHANGED <<completed, winner, freed, task, cancelled>>

\* completed < task_count && success_index < 0 && !g_cancelled
Waiting == completed < Cardinality(Started) /\ winner = 0 /\ ~cancelled

Poll ==
  /\ At("poll")
  /\ Step(IF Waiting THEN "scan" ELSE "join", 1)
  /\ UNCHANGED <<completed, winner, ret, chosen, freed, task, cancelled>>

\* A slip: a task that failed is not taken for a completed one.
HasSucceeded(k) == success[k]

HasResult(k) == success[k] \/ failed[k]

\* The scan of one turn stops at the first task that has a result - also when
\* an earlier turn has counted it already.
Scan ==
  /\ At("scan") /\ i <= N /\ HasResult(i)
  /\ completed' = completed + 1
  /\ winner' = IF success[i] THEN i ELSE winner
  /\ Step("poll", i)
  /\ UNCHANGED <<ret, chosen, freed, task, cancelled>>

ScanOn ==
  /\ At("scan")
  /\ IF i <= N THEN ~HasResult(i) /\ Step("scan", i + 1) ELSE Step("poll", i)
  /\ UNCHANGED <<completed, winner, ret, chosen, freed, task, cancelled>>

\* A slip: only the winner is waited for.
JoinWinner ==
  /\ At("join") /\ i <= N
  /\ i = winner => thread[i] = "ended"
  /\ Step("join", i + 1)
  /\ UNCHANGED <<completed, winner, ret, chosen, freed, task, cancelled>>

\* task_cancel, before, sets a flag that no executor reads; so each thread is
\* waited for until it ends of itself.
Join ==
  /\ At("join") /\ i <= N
  /\ thread[i] \in {"none", "ended"}
  /\ Step("join", i + 1)
  /\ UNCHANGED <<completed, winner, ret, chosen, freed, task, cancelled>>

\* A slip: the first task's result is returned for the winner's.
FinishWithFirst ==
  /\ At("join") /\ i > N
  /\ Return(IF winner # 0 THEN 0 ELSE -1, CHOOSE k \in Started : \A j \in Started : k <= j)
  /\ freed' = TRUE
  /\ UNCHANGED <<completed, winner, task, cancelled>>

\* The winner's result, or that of the first task.
Finish ==
  /\ At("join") /\ i > N
  /\ IF winner # 0 THEN Return(0, winner)
     ELSE Return(-1, CHOOSE k \in Started : \A j \in Started : k <= j)
  /\ freed' = TRUE
  /\ UNCHANGED <<completed, winner, task, cancelled>>

Caller ==
  \/ Begin \/ Launch \/ Launched \/ Poll \/ Scan \/ ScanOn \/ Join \/ Finish

----------------------------------------------------------------------------
(* The tasks, and whoever cancels.                                          *)

\* An executor writes its verdict, which the caller may read at once.
Succeed(k) ==
  /\ thread[k] = "running"
  /\ k \notin Stubs
  /\ success' = [success EXCEPT ![k] = TRUE]
  /\ thread' = [thread EXCEPT ![k] = "ending"]
  /\ UNCHANGED <<failed, runner, cancelled>>

Fail(k) ==
  /\ thread[k] = "running"
  /\ failed' = [failed EXCEPT ![k] = TRUE]
  /\ thread' = [thread EXCEPT ![k] = "ending"]
  /\ UNCHANGED <<success, runner, cancelled>>

\* task_thread writes the rest of the result and returns.
End(k) ==
  /\ thread[k] = "ending"
  /\ thread' = [thread EXCEPT ![k] = "ended"]
  /\ UNCHANGED <<success, failed, runner, cancelled>>

Task(k) == Succeed(k) \/ Fail(k) \/ End(k)

Cancel ==
  /\ ~cancelled
  /\ cancelled' = TRUE
  /\ UNCHANGED <<runner, task>>

Next == Caller \/ (\E k \in Tasks : Task(k)) \/ Cancel

\* The caller is scheduled, and every executor comes to an end: its sockets
\* have timeouts.
Fairness == WF_vars(Caller) /\ \A k \in Tasks : WF_vars(Task(k))

Spec == Init /\ [][Next]_vars
FairSpec == Spec /\ Fairness

----------------------------------------------------------------------------
(* Properties.                                                              *)

TypeOK ==
  /\ pc \in {"call", "launch", "poll", "scan", "join", "done"}
  /\ i \in 1 .. N + 1
  /\ completed \in 0 .. Cardinality(Started)
  /\ winner \in 0 .. N
  /\ ret \in {-1, 0, 1}
  /\ chosen \in 0 .. N
  /\ thread \in [Tasks -> {"none", "running", "ending", "ended"}]
  /\ success \in [Tasks -> BOOLEAN]
  /\ failed \in [Tasks -> BOOLEAN]
  /\ freed \in BOOLEAN
  /\ cancelled \in BOOLEAN

\* The tasks are freed only when no thread can write its result any more.
FreedWhenAllEnded == freed => \A k \in Tasks : thread[k] \in {"none", "ended"}

\* parallel_run reports success exactly with the whole result of a task that
\* succeeded, whatever the other threads wrote while it polled.
SuccessIsReal ==
  pc = "done" /\ ret = 0 => chosen # 0 /\ success[chosen] /\ thread[chosen] = "ended"

\* It gives up of itself only when it has seen a task fail: tasks that are
\* merely slow are waited for.
GivesUpOnFailure ==
  pc = "done" /\ ret = -1 /\ ~cancelled /\ Started # {} => \E k \in Tasks : failed[k]

\* It returns, cancelled or not: the polling cannot go on for ever.
Returns == <>(pc = "done")
==============================================================================
