------------------------- MODULE NumaJobDistributor -------------------------
(***************************************************************************)
(* cpu_backend/worker_pool.{h,cpp}, class NumaJobDistributor: one worker   *)
(* thread per NUMA node, each told to execute compute_func(i) by its       *)
(* status.  The constructor starts the workers and meets them at a         *)
(* barrier, since each creates its own status word, on its own node's      *)
(* memory.  A mutex of the class is held exactly while the worker that     *)
(* owns it is at "check" or "presleep".                                    *)
(***************************************************************************)
EXTENDS Integers

CONSTANT NumaCount    \* numa_count

ASSUME NumaAssumption == NumaCount \in Nat \ {0}

Numa == 0..(NumaCount - 1)
Nobody == -1

VARIABLES direct,    \* built with USE_NUMA_JOB_DIRECT_WORK: the caller works too
          status,    \* *status[i]; "null" until its worker has created it
          arrived,   \* threads that have arrived at ready_bar
          pc,        \* the workers
          cpc,       \* the thread that owns the distributor
          cursor,    \* its loop index i
          me_numa,   \* the node the caller works for itself, or Nobody
          ran        \* history: executions of compute_func(i) in this job

vars == <<direct, status, arrived, pc, cpc, cursor, me_numa, ran>>

MutexFree(i) == pc[i] \notin {"check", "presleep"}

(* Mutant of AllArrived: the barrier is sized without the owner. *)
BarrierTooSmall == arrived >= NumaCount
AllArrived == arrived = NumaCount + 1

-----------------------------------------------------------------------------
(* init(): the vectors are filled before the first thread starts *)
Init == /\ direct \in BOOLEAN
        /\ status = [i \in Numa |-> "null"]
        /\ arrived = 0
        /\ pc = [i \in Numa |-> "unborn"]
        /\ cpc = "spawn" /\ cursor = 0
        /\ me_numa = Nobody
        /\ ran = [i \in Numa |-> 0]

Spawn ==
  /\ cpc = "spawn" /\ cursor < NumaCount
  /\ pc' = [pc EXCEPT ![cursor] = "create"]
  /\ cursor' = cursor + 1
  /\ UNCHANGED <<direct, status, arrived, cpc, me_numa, ran>>

ArriveOwner ==
  /\ cpc = "spawn" /\ cursor >= NumaCount
  /\ arrived' = arrived + 1
  /\ cpc' = "barrier"
  /\ UNCHANGED <<direct, status, pc, cursor, me_numa, ran>>

PassOwner ==
  /\ cpc = "barrier" /\ AllArrived
  /\ cpc' = "idle"
  /\ UNCHANGED <<direct, status, arrived, pc, cursor, me_numa, ran>>

-----------------------------------------------------------------------------
(* do_numa_job(compute_func): the closure is a plain store; publish it,    *)
(* work for me_numa in the direct variant, then spin on the others.        *)
StartJob ==
  /\ cpc = "idle"
  /\ me_numa' \in IF direct THEN Numa ELSE {Nobody}
  /\ cursor' = 0
  /\ cpc' = "publish"
  /\ ran' = [i \in Numa |-> 0]
  /\ UNCHANGED <<direct, status, arrived, pc>>

(* Mutants of Publish: the status is stored without the mutex; the direct  *)
(* variant forgets to skip its own node.                                   *)
PublishUnlocked ==
  /\ cpc = "publish" /\ cursor < NumaCount /\ cursor # me_numa
  /\ status' = [status EXCEPT ![cursor] = "WORKING"]
  /\ cpc' = "notify"
  /\ UNCHANGED <<direct, arrived, pc, cursor, me_numa, ran>>

PublishToAll ==
  /\ cpc = "publish" /\ cursor < NumaCount
  /\ MutexFree(cursor)
  /\ status' = [status EXCEPT ![cursor] = "WORKING"]
  /\ cpc' = "notify"
  /\ UNCHANGED <<direct, arrived, pc, cursor, me_numa, ran>>

Publish ==
  /\ cpc = "publish" /\ cursor < NumaCount /\ cursor # me_numa
  /\ MutexFree(cursor)
  /\ status' = [status EXCEPT ![cursor] = "WORKING"]
  /\ cpc' = "notify"
  /\ UNCHANGED <<direct, arrived, pc, cursor, me_numa, ran>>

Wake(i) == pc' = [pc EXCEPT ![i] = IF @ = "asleep" THEN "lock" ELSE @]

Notify ==
  /\ cpc = "notify"
  /\ Wake(cursor)
  /\ cursor' = cursor + 1
  /\ cpc' = "publish"
  /\ UNCHANGED <<direct, status, arrived, me_numa, ran>>

(* `continue' in both loops *)
SkipMine ==
  /\ cpc \in {"publish", "wait"} /\ cursor = me_numa
  /\ cursor' = cursor + 1
  /\ UNCHANGED <<direct, status, arrived, pc, cpc, me_numa, ran>>

CallerCompute ==
  /\ cpc = "publish" /\ cursor >= NumaCount
  /\ ran' = IF me_numa = Nobody THEN ran ELSE [ran EXCEPT ![me_numa] = @ + 1]
  /\ cursor' = 0
  /\ cpc' = "wait"
  /\ UNCHANGED <<direct, status, arrived, pc, me_numa>>

WaitFor ==
  /\ cpc = "wait" /\ cursor < NumaCount /\ cursor # me_numa
  /\ status[cursor] # "WORKING"
  /\ cursor' = cursor + 1
  /\ UNCHANGED <<direct, status, arrived, pc, cpc, me_numa, ran>>

Return ==
  /\ cpc = "wait" /\ cursor >= NumaCount
  /\ cpc' = "idle"
  /\ UNCHANGED <<direct, status, arrived, pc, cursor, me_numa, ran>>

-----------------------------------------------------------------------------
(* worker_thread(i) *)
Create(i) ==
  /\ pc[i] = "create"
  /\ status' = [status EXCEPT ![i] = "WAITING"]
  /\ pc' = [pc EXCEPT ![i] = "arrive"]
  /\ UNCHANGED <<direct, arrived, cpc, cursor, me_numa, ran>>

Arrive(i) ==
  /\ pc[i] = "arrive"
  /\ arrived' = arrived + 1
  /\ pc' = [pc EXCEPT ![i] = "barrier"]
  /\ UNCHANGED <<direct, status, cpc, cursor, me_numa, ran>>

Pass(i) ==
  /\ pc[i] = "barrier" /\ AllArrived
  /\ pc' = [pc EXCEPT ![i] = "load"]
  /\ UNCHANGED <<direct, status, arrived, cpc, cursor, me_numa, ran>>

Obey(i) ==
  /\ pc[i] = "load"
  /\ \/ status[i] = "WORKING" /\ pc' = [pc EXCEPT ![i] = "compute"]
     \/ status[i] = "EXIT" /\ pc' = [pc EXCEPT ![i] = "exit"]
     \/ status[i] = "WAITING" /\ pc' = [pc EXCEPT ![i] = "lock"]  \* 50 ms later
  /\ UNCHANGED <<direct, status, arrived, cpc, cursor, me_numa, ran>>

Compute(i) ==
  /\ pc[i] = "compute"
  /\ ran' = [ran EXCEPT ![i] = @ + 1]
  /\ pc' = [pc EXCEPT ![i] = "store"]
  /\ UNCHANGED <<direct, status, arrived, cpc, cursor, me_numa>>

StoreWaiting(i) ==
  /\ pc[i] = "store"
  /\ status' = [status EXCEPT ![i] = "WAITING"]
  /\ pc' = [pc EXCEPT ![i] = "load"]
  /\ UNCHANGED <<direct, arrived, cpc, cursor, me_numa, ran>>

Lock(i) ==
  /\ pc[i] = "lock"
  /\ pc' = [pc EXCEPT ![i] = "check"]
  /\ UNCHANGED <<direct, status, arrived, cpc, cursor, me_numa, ran>>

Check(i) ==
  /\ pc[i] = "check"
  /\ pc' = [pc EXCEPT ![i] = IF status[i] # "WAITING" THEN "load" ELSE "presleep"]
  /\ UNCHANGED <<direct, status, arrived, cpc, cursor, me_numa, ran>>

Sleep(i) ==
  /\ pc[i] = "presleep"
  /\ pc' = [pc EXCEPT ![i] = "asleep"]
  /\ UNCHANGED <<direct, status, arrived, cpc, cursor, me_numa, ran>>

SpuriousWakeup(i) ==
  /\ pc[i] = "asleep"
  /\ pc' = [pc EXCEPT ![i] = "lock"]
  /\ UNCHANGED <<direct, status, arrived, cpc, cursor, me_numa, ran>>

-----------------------------------------------------------------------------
(* ~NumaJobDistributor(), called between jobs *)
DtorBegin ==
  /\ cpc = "idle"
  /\ cursor' = 0
  /\ cpc' = "exit_store"
  /\ UNCHANGED <<direct, status, arrived, pc, me_numa, ran>>

(* Mutant of DtorStore: EXIT is stored without the mutex. *)
DtorStoreUnlocked ==
  /\ cpc = "exit_store" /\ cursor < NumaCount
  /\ status' = [status EXCEPT ![cursor] = "EXIT"]
  /\ cpc' = "exit_notify"
  /\ UNCHANGED <<direct, arrived, pc, cursor, me_numa, ran>>

DtorStore ==
  /\ cpc = "exit_store" /\ cursor < NumaCount
  /\ MutexFree(cursor)
  /\ status' = [status EXCEPT ![cursor] = "EXIT"]
  /\ cpc' = "exit_notify"
  /\ UNCHANGED <<direct, arrived, pc, cursor, me_numa, ran>>

DtorNotify ==
  /\ cpc = "exit_notify"
  /\ Wake(cursor)
  /\ cursor' = cursor + 1
  /\ cpc' = "exit_store"
  /\ UNCHANGED <<direct, status, arrived, me_numa, ran>>

DtorJoin ==
  /\ cpc = "exit_store" /\ cursor >= NumaCount
  /\ \A i \in Numa : pc[i] = "exit"
  /\ cpc' = "gone"
  /\ UNCHANGED <<direct, status, arrived, pc, cursor, me_numa, ran>>

Destroyed == cpc = "gone" /\ UNCHANGED vars

-----------------------------------------------------------------------------
OwnerStep == \/ Spawn \/ ArriveOwner \/ PassOwner
             \/ Publish \/ Notify \/ SkipMine \/ CallerCompute \/ WaitFor \/ Return
             \/ DtorStore \/ DtorNotify \/ DtorJoin

WorkerStep(i) == \/ Create(i) \/ Arrive(i) \/ Pass(i) \/ Obey(i) \/ Compute(i)
                 \/ StoreWaiting(i) \/ Lock(i) \/ Check(i) \/ Sleep(i)

Next == \/ StartJob \/ DtorBegin \/ OwnerStep
        \/ \E i \in Numa : WorkerStep(i) \/ SpuriousWakeup(i)
        \/ Destroyed

Spec == Init /\ [][Next]_vars

(* As in InNumaPool: threads that can step do, and the owner, blocked on a *)
(* mutex that keeps becoming free, obtains it.                             *)
Fairness == /\ WF_vars(OwnerStep)
            /\ SF_vars(Publish) /\ SF_vars(DtorStore)
            /\ \A i \in Numa : WF_vars(WorkerStep(i))

FairSpec == Spec /\ Fairness

-----------------------------------------------------------------------------
(* Nobody dereferences a status word before its worker has created it: the *)
(* barrier orders the workers' stores before the owner's first job and     *)
(* before its destructor.                                                  *)
NoNullStatus ==
  /\ cpc \notin {"spawn", "barrier"} => \A i \in Numa : status[i] # "null"
  /\ \A i \in Numa :
       pc[i] \notin {"unborn", "create"} => status[i] # "null"

(* Between jobs, when the owner may replace compute_func or begin the      *)
(* destruction, no worker is calling it or is about to.                    *)
Quiescent ==
  cpc \in {"idle", "exit_store", "exit_notify", "gone"} =>
    \A i \in Numa : pc[i] \notin {"compute", "store"} /\ status[i] # "WORKING"

(* do_numa_job runs compute_func once for every node, and returns when all *)
(* have finished (ParallelFor, with the nodes as the tasks).               *)
InJob == {"publish", "notify", "wait"}
PF == INSTANCE ParallelFor WITH
        MaxTasks <- NumaCount,
        active <- cpc \in InJob, size <- NumaCount, count <- ran
ImplementsParallelFor == PF!Spec

(* Every job returns: no worker sleeps through the WORKING it was given.   *)
JobReturns == cpc = "publish" ~> cpc = "idle"

(* The destructor returns: every worker sees EXIT. *)
DtorCompletes == cpc = "exit_store" ~> cpc = "gone"
=============================================================================
