----------------------------- MODULE InNumaPool -----------------------------
(***************************************************************************)
(* cpu_backend/worker_pool.{h,cpp}, class InNumaPool: the work-stealing    *)
(* pool of one NUMA node.  Thread 0 is the caller of do_work_stealing_job; *)
(* threads 1 .. N-1 are the workers.  A job is published by setting the    *)
(* status of each participating thread to WORKING; the threads then draw   *)
(* task numbers from the shared counter curr_ until it reaches end_, and   *)
(* each reports by setting its own status back to WAITING.                 *)
(*                                                                         *)
(* A worker that has been idle for 50 ms sleeps on its own condition       *)
(* variable; its own mutex is held exactly while its program counter is    *)
(* "check" or "presleep".                                                  *)
(***************************************************************************)
EXTENDS Integers, FiniteSets

CONSTANTS N,        \* total_worker_count
          MaxTasks  \* bound on task_num

ASSUME NAssumption == N \in Nat \ {0}
ASSUME MaxTasksAssumption == MaxTasks \in Nat

Thread == 0..(N - 1)
Worker == 1..(N - 1)
Task == 0..(MaxTasks - 1)

VARIABLES status,       \* thread_state_[i].status
          restricted,   \* restricted_worker_count
          worker_count, curr, end,
          pc,           \* every thread; pc[0] is the caller
          tid,          \* task_id, local to process_tasks
          cursor,       \* the caller's loop index i
          runs,         \* history: executions of each task in this job
          inits, finals \* history: threads that ran init_func, finalize_func

jobvars == <<worker_count, curr, end>>
history == <<runs, inits, finals>>
vars == <<status, restricted, worker_count, curr, end, pc, tid, cursor,
          runs, inits, finals>>

(* Inside process_tasks *)
Processing == {"init", "look", "fetch", "compute", "finalize", "store"}
CallerPC == {"idle", "publish", "notify", "wait",
             "exit_store", "exit_notify", "join", "gone"} \cup Processing
WorkerPC == {"load", "lock", "check", "presleep", "asleep", "exit"}
              \cup Processing

MutexFree(i) == i = 0 \/ pc[i] \notin {"check", "presleep"}

-----------------------------------------------------------------------------
(* The constructor *)
Init == /\ status = [i \in Thread |-> "WAITING"]
        /\ restricted = N
        /\ worker_count = 0 /\ curr = 0 /\ end = 0
        /\ pc = [i \in Thread |-> IF i = 0 THEN "idle" ELSE "load"]
        /\ tid = [i \in Thread |-> 0]
        /\ cursor = 0
        /\ runs = [k \in Task |-> 0]
        /\ inits = {} /\ finals = {}

(* 0 would divide by zero in process_tasks, and more than N overrun the    *)
(* array of thread states: the code leaves both to the caller.             *)
SetRestrictedWorkerCount ==
  /\ pc[0] = "idle"
  /\ restricted' \in 1..N
  /\ UNCHANGED <<status, jobvars, pc, tid, cursor, history>>

-----------------------------------------------------------------------------
(* do_work_stealing_job_async(task_num, ...): the closures, worker_count,  *)
(* curr_ and end_ are plain stores, safe only if no worker is reading them *)
(* (property Quiescent).                                                   *)
StartJob ==
  /\ pc[0] = "idle"
  /\ \E n \in 0..MaxTasks :
       /\ worker_count' = IF restricted < n THEN restricted ELSE n
       /\ end' = n
  /\ curr' = 0
  /\ cursor' = 0
  /\ pc' = [pc EXCEPT ![0] = "publish"]
  /\ runs' = [k \in Task |-> 0] /\ inits' = {} /\ finals' = {}
  /\ UNCHANGED <<status, restricted, tid>>

(* Mutant of Publish: the status is stored without the mutex. *)
PublishUnlocked ==
  /\ pc[0] = "publish" /\ cursor < worker_count
  /\ status' = [status EXCEPT ![cursor] = "WORKING"]
  /\ pc' = [pc EXCEPT ![0] = "notify"]
  /\ UNCHANGED <<restricted, jobvars, tid, cursor, history>>

(* { lock; status = WORKING } *)
Publish ==
  /\ pc[0] = "publish" /\ cursor < worker_count
  /\ MutexFree(cursor)
  /\ status' = [status EXCEPT ![cursor] = "WORKING"]
  /\ pc' = [pc EXCEPT ![0] = "notify"]
  /\ UNCHANGED <<restricted, jobvars, tid, cursor, history>>

(* cv.notify_one(); the next thread *)
Notify ==
  /\ pc[0] = "notify"
  /\ pc' = [i \in Thread |-> IF i = 0 THEN "publish"
                             ELSE IF i = cursor /\ pc[i] = "asleep" THEN "lock"
                             ELSE pc[i]]
  /\ cursor' = cursor + 1
  /\ UNCHANGED <<status, restricted, jobvars, tid, history>>

(* All threads told: the caller works too. *)
CallerProcess ==
  /\ pc[0] = "publish" /\ cursor >= worker_count
  /\ pc' = [pc EXCEPT ![0] = "init"]
  /\ UNCHANGED <<status, restricted, jobvars, tid, cursor, history>>

-----------------------------------------------------------------------------
(* process_tasks(i) *)
InitFunc(i) ==
  /\ pc[i] = "init"
  /\ inits' = inits \cup {i}
  /\ pc' = [pc EXCEPT ![i] = "look"]
  /\ UNCHANGED <<status, restricted, jobvars, tid, cursor, runs, finals>>

(* Mutant of Look: with nothing left, process_tasks returns at once. *)
LookAndReturn(i) ==
  /\ pc[i] = "look"
  /\ pc' = [pc EXCEPT ![i] = IF end - curr <= 0 THEN "store" ELSE "fetch"]
  /\ UNCHANGED <<status, restricted, jobvars, tid, cursor, history>>

(* old = curr_.load(); leave the loop if nothing remains *)
Look(i) ==
  /\ pc[i] = "look"
  /\ pc' = [pc EXCEPT ![i] = IF end - curr <= 0 THEN "finalize" ELSE "fetch"]
  /\ UNCHANGED <<status, restricted, jobvars, tid, cursor, history>>

(* Mutant of Fetch: the addition is not atomic and may be lost. *)
FetchNotAtomic(i) ==
  /\ pc[i] = "fetch"
  /\ tid' = [tid EXCEPT ![i] = curr]
  /\ curr' \in {curr, curr + 1}
  /\ pc' = [pc EXCEPT ![i] = IF curr >= end THEN "finalize" ELSE "compute"]
  /\ UNCHANGED <<status, restricted, worker_count, end, cursor, history>>

(* task_id = curr_.fetch_add(1); another thread may have taken the last    *)
(* task since the look                                                     *)
Fetch(i) ==
  /\ pc[i] = "fetch"
  /\ tid' = [tid EXCEPT ![i] = curr]
  /\ curr' = curr + 1
  /\ pc' = [pc EXCEPT ![i] = IF curr >= end THEN "finalize" ELSE "compute"]
  /\ UNCHANGED <<status, restricted, worker_count, end, cursor, history>>

(* compute_func_(task_id) *)
Compute(i) ==
  /\ pc[i] = "compute"
  /\ runs' = [runs EXCEPT ![tid[i]] = @ + 1]
  /\ pc' = [pc EXCEPT ![i] = "look"]
  /\ UNCHANGED <<status, restricted, jobvars, tid, cursor, inits, finals>>

FinalizeFunc(i) ==
  /\ pc[i] = "finalize"
  /\ finals' = finals \cup {i}
  /\ pc' = [pc EXCEPT ![i] = "store"]
  /\ UNCHANGED <<status, restricted, jobvars, tid, cursor, runs, inits>>

(* status = WAITING, without the mutex; the caller goes on to wait() *)
StoreWaiting(i) ==
  /\ pc[i] = "store"
  /\ status' = [status EXCEPT ![i] = "WAITING"]
  /\ pc' = [pc EXCEPT ![i] = IF i = 0 THEN "wait" ELSE "load"]
  /\ cursor' = IF i = 0 THEN 0 ELSE cursor
  /\ UNCHANGED <<restricted, jobvars, tid, history>>

Process(i) == \/ InitFunc(i) \/ Look(i) \/ Fetch(i) \/ Compute(i)
              \/ FinalizeFunc(i) \/ StoreWaiting(i)

-----------------------------------------------------------------------------
(* wait(): spin on each participant in turn, then return to the caller *)
WaitFor ==
  /\ pc[0] = "wait" /\ cursor < worker_count
  /\ status[cursor] # "WORKING"
  /\ cursor' = cursor + 1
  /\ UNCHANGED <<status, restricted, jobvars, pc, tid, history>>

(* Mutant of Return: the last participant is not waited for. *)
ReturnEarly ==
  /\ pc[0] = "wait" /\ cursor + 1 >= worker_count
  /\ pc' = [pc EXCEPT ![0] = "idle"]
  /\ UNCHANGED <<status, restricted, jobvars, tid, cursor, history>>

Return ==
  /\ pc[0] = "wait" /\ cursor >= worker_count
  /\ pc' = [pc EXCEPT ![0] = "idle"]
  /\ UNCHANGED <<status, restricted, jobvars, tid, cursor, history>>

-----------------------------------------------------------------------------
(* worker_thread(i): obey the status, or go to sleep after 50 ms of WAITING *)
WorkerObey(i) ==
  /\ pc[i] = "load"
  /\ \/ status[i] = "WORKING" /\ pc' = [pc EXCEPT ![i] = "init"]
     \/ status[i] = "EXIT" /\ pc' = [pc EXCEPT ![i] = "exit"]
     \/ status[i] = "WAITING" /\ pc' = [pc EXCEPT ![i] = "lock"]
  /\ UNCHANGED <<status, restricted, jobvars, tid, cursor, history>>

WorkerLock(i) ==
  /\ pc[i] = "lock"
  /\ pc' = [pc EXCEPT ![i] = "check"]
  /\ UNCHANGED <<status, restricted, jobvars, tid, cursor, history>>

WorkerCheck(i) ==
  /\ pc[i] = "check"
  /\ pc' = [pc EXCEPT ![i] = IF status[i] # "WAITING" THEN "load" ELSE "presleep"]
  /\ UNCHANGED <<status, restricted, jobvars, tid, cursor, history>>

WorkerSleep(i) ==
  /\ pc[i] = "presleep"
  /\ pc' = [pc EXCEPT ![i] = "asleep"]
  /\ UNCHANGED <<status, restricted, jobvars, tid, cursor, history>>

SpuriousWakeup(i) ==
  /\ pc[i] = "asleep"
  /\ pc' = [pc EXCEPT ![i] = "lock"]
  /\ UNCHANGED <<status, restricted, jobvars, tid, cursor, history>>

-----------------------------------------------------------------------------
(* ~InNumaPool(), called by the owner between jobs *)
DtorBegin ==
  /\ pc[0] = "idle"
  /\ cursor' = 0
  /\ pc' = [pc EXCEPT ![0] = "exit_store"]
  /\ UNCHANGED <<status, restricted, jobvars, tid, history>>

(* Mutant of DtorStore: EXIT is stored without the mutex. *)
DtorStoreUnlocked ==
  /\ pc[0] = "exit_store"
  /\ status' = [status EXCEPT ![cursor] = "EXIT"]
  /\ pc' = [pc EXCEPT ![0] = "exit_notify"]
  /\ UNCHANGED <<restricted, jobvars, tid, cursor, history>>

DtorStore ==
  /\ pc[0] = "exit_store"
  /\ MutexFree(cursor)
  /\ status' = [status EXCEPT ![cursor] = "EXIT"]
  /\ pc' = [pc EXCEPT ![0] = "exit_notify"]
  /\ UNCHANGED <<restricted, jobvars, tid, cursor, history>>

DtorNotify ==
  /\ pc[0] = "exit_notify"
  /\ pc' = [i \in Thread |->
              IF i = 0 THEN (IF cursor + 1 = N THEN "join" ELSE "exit_store")
              ELSE IF i = cursor /\ pc[i] = "asleep" THEN "lock"
              ELSE pc[i]]
  /\ cursor' = cursor + 1
  /\ UNCHANGED <<status, restricted, jobvars, tid, history>>

DtorJoin ==
  /\ pc[0] = "join" /\ \A i \in Worker : pc[i] = "exit"
  /\ pc' = [pc EXCEPT ![0] = "gone"]
  /\ UNCHANGED <<status, restricted, jobvars, tid, cursor, history>>

Destroyed == pc[0] = "gone" /\ UNCHANGED vars

-----------------------------------------------------------------------------
CallerStep == \/ Publish \/ Notify \/ CallerProcess \/ Process(0)
              \/ WaitFor \/ Return
              \/ DtorStore \/ DtorNotify \/ DtorJoin

WorkerStep(i) == \/ Process(i) \/ WorkerObey(i) \/ WorkerLock(i)
                 \/ WorkerCheck(i) \/ WorkerSleep(i)

Next == \/ StartJob \/ SetRestrictedWorkerCount \/ DtorBegin
        \/ CallerStep
        \/ \E i \in Worker : WorkerStep(i) \/ SpuriousWakeup(i)
        \/ Destroyed

Spec == Init /\ [][Next]_vars

(* Every thread that can step does, every task returns, and the caller,    *)
(* blocked on a worker's mutex, gets it if the worker keeps releasing it   *)
(* (the worker may be woken for no reason over and over).                  *)
Fairness == /\ WF_vars(CallerStep)
            /\ SF_vars(Publish) /\ SF_vars(DtorStore)
            /\ \A i \in Worker : WF_vars(WorkerStep(i))

FairSpec == Spec /\ Fairness

-----------------------------------------------------------------------------
(* The members of InNumaPool and the locals of its methods have the types  *)
(* of their declarations.                                                  *)
TypeOK ==
  /\ status \in [Thread -> {"WAITING", "WORKING", "EXIT"}]
  /\ restricted \in 1..N
  /\ worker_count \in 0..N /\ worker_count <= end
  /\ curr \in Nat /\ end \in 0..MaxTasks
  /\ pc \in [Thread -> CallerPC \cup WorkerPC]
  /\ pc[0] \in CallerPC /\ \A i \in Worker : pc[i] \in WorkerPC
  /\ tid \in [Thread -> Nat]
  /\ cursor \in 0..N
  /\ runs \in [Task -> Nat]
  /\ inits \subseteq Thread /\ finals \subseteq Thread

(* While the caller is outside do_work_stealing_job, where it may replace  *)
(* the closures, curr_ and end_ at any time, no worker is inside           *)
(* process_tasks, nor will one enter it before the next job is published.  *)
Quiescent ==
  pc[0] \in {"idle", "exit_store", "exit_notify", "join", "gone"} =>
    \A i \in Worker : pc[i] \notin Processing /\ status[i] # "WORKING"

(* do_work_stealing_job executes each task exactly once and returns when   *)
(* all have been executed (ParallelFor), whatever number of workers is     *)
(* allowed and however late they wake up.                                  *)
InJob == {"publish", "notify", "wait"} \cup Processing
PF == INSTANCE ParallelFor WITH
        active <- pc[0] \in InJob, size <- end, count <- runs
ImplementsParallelFor == PF!Spec

(* At the return of a job, exactly the participants (the caller even when  *)
(* there is no task) have run init_func, and each of them finalize_func:  *)
(* per-thread scratch that init prepared is always flushed.                *)
Participants == {0} \cup {i \in Thread : i < worker_count}
InitFinalizePaired ==
  /\ finals \subseteq inits /\ inits \subseteq Participants
  /\ pc[0] = "wait" /\ cursor >= worker_count => finals = Participants

(* Every job returns: no worker sleeps through the WORKING it was given. *)
JobReturns == pc[0] = "publish" ~> pc[0] = "idle"

(* The destructor of an idle pool returns: every worker sees EXIT. *)
DtorCompletes == pc[0] = "exit_store" ~> pc[0] = "gone"
=============================================================================
