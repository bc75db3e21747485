---------------------------- MODULE ParallelFor -----------------------------
(***************************************************************************)
(* What do_work_stealing_job (cpu_backend/worker_pool.h) promises its      *)
(* caller: every task of the job is executed exactly once, by whatever     *)
(* thread, and the call returns after the last of them and before the next *)
(* job begins.  InNumaPool and NumaJobDistributor implement this           *)
(* specification.                                                          *)
(***************************************************************************)
EXTENDS Integers

CONSTANT MaxTasks   \* largest task_num a caller passes

Task == 0..(MaxTasks - 1)

VARIABLES active,   \* the caller is inside do_work_stealing_job
          size,     \* task_num of the current or last job
          count     \* executions of each task in that job

vars == <<active, size, count>>

Init == active = FALSE /\ size \in 0..MaxTasks /\ count = [k \in Task |-> 0]

Call == /\ ~active
        /\ active' = TRUE
        /\ size' \in 0..MaxTasks
        /\ count' = [k \in Task |-> 0]

Run == \E k \in Task : /\ active /\ k < size /\ count[k] = 0
                       /\ count' = [count EXCEPT ![k] = 1]
                       /\ UNCHANGED <<active, size>>

Return == /\ active /\ \A k \in Task : k < size => count[k] = 1
          /\ active' = FALSE
          /\ UNCHANGED <<size, count>>

Next == Call \/ Run \/ Return

Spec == Init /\ [][Next]_vars
=============================================================================
