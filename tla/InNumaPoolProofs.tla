-------------------------- MODULE InNumaPoolProofs --------------------------
(***************************************************************************)
(* Machine-checked theorems about InNumaPool, for every number of threads  *)
(* and every bound on the number of tasks.                                 *)
(***************************************************************************)
EXTENDS InNumaPool, TLAPS

(* A worker executes the job only while its status says WORKING, and the   *)
(* status says so only from its publication until wait() has seen it       *)
(* change.                                                                 *)
StatusInv ==
  /\ \A i \in Worker : pc[i] \in Processing => status[i] = "WORKING"
  /\ \A i \in Worker : status[i] = "WORKING" =>
       /\ i < worker_count
       /\ pc[0] \in InJob
       /\ pc[0] = "publish" => i < cursor
       /\ pc[0] = "notify" => i <= cursor
       /\ pc[0] = "wait" => i >= cursor

(* A loop body runs only while the loop's condition held. *)
CursorInv == /\ pc[0] = "notify" => cursor < worker_count
             /\ pc[0] \in {"exit_store", "exit_notify"} => cursor < N

(* A task below curr_ has been executed once or is held by one thread; a   *)
(* task at or above curr_ has not been touched.                            *)
TaskInv ==
  /\ \A i \in Thread : pc[i] = "compute" =>
       tid[i] < curr /\ tid[i] < end /\ runs[tid[i]] = 0
  /\ \A i, j \in Thread :
       pc[i] = "compute" /\ pc[j] = "compute" /\ i # j => tid[i] # tid[j]
  /\ \A k \in Task : runs[k] # 0 => runs[k] = 1 /\ k < curr /\ k < end
  /\ \A k \in Task : k < curr /\ k < end =>
       runs[k] = 1 \/ \E i \in Thread : pc[i] = "compute" /\ tid[i] = k

(* A thread leaves the loop only when nothing is left to draw, and the     *)
(* caller has left it whenever it is not publishing or processing.         *)
ExhaustedInv ==
  /\ \A i \in Thread : pc[i] \in {"finalize", "store"} => curr >= end
  /\ pc[0] \notin InJob \/ pc[0] = "wait" => curr >= end

IInv == TypeOK /\ CursorInv /\ StatusInv /\ TaskInv /\ ExhaustedInv

USE DEF Thread, Worker, Task, Processing, InJob, CallerPC, WorkerPC, jobvars, history

LEMMA Threads == /\ 0 \in Thread /\ Worker \subseteq Thread /\ 0 \notin Worker
                 /\ \A i \in Thread : i # 0 => i \in Worker
                 /\ Thread \subseteq Nat /\ \A i \in Thread : i < N
BY NAssumption

(* Every member and local keeps the type of its declaration. *)
LEMMA TypeInit == Init => TypeOK /\ CursorInv
BY NAssumption, MaxTasksAssumption DEF Init, TypeOK, CursorInv

LEMMA TypeNext == TypeOK /\ CursorInv /\ [Next]_vars => TypeOK' /\ CursorInv'
<1> SUFFICES ASSUME TypeOK, CursorInv, [Next]_vars PROVE TypeOK' /\ CursorInv'
  OBVIOUS
<1> USE NAssumption, MaxTasksAssumption DEF TypeOK, CursorInv
<1>1. CASE StartJob
  BY <1>1 DEF StartJob
<1>2. CASE SetRestrictedWorkerCount
  BY <1>2 DEF SetRestrictedWorkerCount
<1>3. CASE DtorBegin
  BY <1>3 DEF DtorBegin
<1>4. CASE Publish
  BY <1>4 DEF Publish
<1>5. CASE Notify
  <2>1. pc' \in [Thread -> CallerPC \cup WorkerPC] /\ pc'[0] = "publish"
        /\ \A i \in Worker : pc'[i] \in WorkerPC
    BY <1>5 DEF Notify
  <2>2. cursor' \in 0..N
    BY <1>5 DEF Notify
  <2>3. QED BY <1>5, <2>1, <2>2 DEF Notify
<1>6. CASE CallerProcess
  BY <1>6 DEF CallerProcess
<1>7. ASSUME NEW i \in Thread, Process(i) PROVE TypeOK' /\ CursorInv'
  <2>1. CASE InitFunc(i)
    BY <2>1 DEF InitFunc
  <2>2. CASE Look(i)
    BY <2>2 DEF Look
  <2>3. CASE Fetch(i)
    BY <2>3 DEF Fetch
  <2>4. CASE Compute(i)
    <3>1. runs' = [k \in Task |-> IF k = tid[i] THEN runs[tid[i]] + 1 ELSE runs[k]]
      BY <2>4 DEF Compute
    <3>2. runs' \in [Task -> Nat]
      BY <3>1
    <3>3. QED BY <2>4, <3>2 DEF Compute
  <2>5. CASE FinalizeFunc(i)
    BY <2>5 DEF FinalizeFunc
  <2>6. CASE StoreWaiting(i)
    BY <2>6 DEF StoreWaiting
  <2>7. QED BY <1>7, <2>1, <2>2, <2>3, <2>4, <2>5, <2>6 DEF Process
<1>8. CASE WaitFor
  BY <1>8 DEF WaitFor
<1>9. CASE Return
  BY <1>9 DEF Return
<1>10. CASE DtorStore
  BY <1>10 DEF DtorStore
<1>11. CASE DtorNotify
  <2>1. pc' \in [Thread -> CallerPC \cup WorkerPC]
        /\ pc'[0] = (IF cursor + 1 = N THEN "join" ELSE "exit_store")
        /\ \A i \in Worker : pc'[i] \in WorkerPC
    BY <1>11 DEF DtorNotify
  <2>2. cursor' \in 0..N /\ (cursor + 1 # N => cursor' < N)
    BY <1>11 DEF DtorNotify
  <2>3. QED BY <1>11, <2>1, <2>2 DEF DtorNotify
<1>12. CASE DtorJoin
  BY <1>12 DEF DtorJoin
<1>13. ASSUME NEW i \in Worker,
              WorkerObey(i) \/ WorkerLock(i) \/ WorkerCheck(i)
                \/ WorkerSleep(i) \/ SpuriousWakeup(i)
       PROVE TypeOK' /\ CursorInv'
  <2>1. \E p \in WorkerPC : pc' = [pc EXCEPT ![i] = p]
    BY <1>13 DEF WorkerObey, WorkerLock, WorkerCheck, WorkerSleep, SpuriousWakeup
  <2>2. UNCHANGED <<status, restricted, jobvars, tid, cursor, history>>
    BY <1>13 DEF WorkerObey, WorkerLock, WorkerCheck, WorkerSleep, SpuriousWakeup
  <2>3. QED BY <2>1, <2>2, Threads
<1>14. CASE UNCHANGED vars
  BY <1>14 DEF vars
<1>15. QED
  BY <1>1, <1>2, <1>3, <1>4, <1>5, <1>6, <1>7, <1>8, <1>9, <1>10, <1>11,
     <1>12, <1>13, <1>14, Threads
     DEF Next, CallerStep, WorkerStep, Destroyed

-----------------------------------------------------------------------------
LEMMA InvInit == Init => IInv
<1> SUFFICES ASSUME Init PROVE StatusInv /\ TaskInv /\ ExhaustedInv
  BY TypeInit DEF IInv
<1> QED BY NAssumption, MaxTasksAssumption, Threads
        DEF Init, StatusInv, TaskInv, ExhaustedInv

(* Steps that neither draw nor execute a task *)
LEMMA TaskFrame ==
  ASSUME TaskInv, UNCHANGED <<tid, curr, end, runs>>,
         \A j \in Thread : pc'[j] = "compute" <=> pc[j] = "compute"
  PROVE  TaskInv'
BY DEF TaskInv


LEMMA InvNext == IInv /\ [Next]_vars => IInv'
<1> SUFFICES ASSUME IInv, [Next]_vars PROVE StatusInv' /\ TaskInv' /\ ExhaustedInv'
  BY TypeNext DEF IInv
<1>t. TypeOK' /\ CursorInv'
  BY TypeNext DEF IInv
<1> USE <1>t, NAssumption, MaxTasksAssumption, Threads
    DEF IInv, TypeOK, CursorInv
<1>1. CASE StartJob
  <2>1. StatusInv'
    BY <1>1 DEF StartJob, StatusInv
  <2>2. TaskInv'
    BY <1>1 DEF StartJob, StatusInv, TaskInv
  <2>3. ExhaustedInv'
    BY <1>1 DEF StartJob, StatusInv, ExhaustedInv
  <2>4. QED BY <2>1, <2>2, <2>3
<1>2. CASE SetRestrictedWorkerCount
  <2>1. StatusInv'
    BY <1>2 DEF SetRestrictedWorkerCount, StatusInv
  <2>2. TaskInv'
    BY <1>2, TaskFrame DEF SetRestrictedWorkerCount
  <2>3. ExhaustedInv'
    BY <1>2 DEF SetRestrictedWorkerCount, StatusInv, ExhaustedInv
  <2>4. QED BY <2>1, <2>2, <2>3
<1>3. CASE DtorBegin
  <2>1. StatusInv'
    BY <1>3 DEF DtorBegin, StatusInv
  <2>2. TaskInv'
    BY <1>3, TaskFrame DEF DtorBegin
  <2>3. ExhaustedInv'
    BY <1>3 DEF DtorBegin, StatusInv, ExhaustedInv
  <2>4. QED BY <2>1, <2>2, <2>3
<1>4. CASE Publish
  <2>1. StatusInv'
    BY <1>4 DEF Publish, StatusInv
  <2>2. TaskInv'
    BY <1>4, TaskFrame DEF Publish
  <2>3. ExhaustedInv'
    BY <1>4 DEF Publish, StatusInv, ExhaustedInv
  <2>4. QED BY <2>1, <2>2, <2>3
<1>5. CASE Notify
  <2>1. StatusInv'
    BY <1>5 DEF Notify, StatusInv
  <2>2. TaskInv'
    BY <1>5, TaskFrame DEF Notify
  <2>3. ExhaustedInv'
    BY <1>5 DEF Notify, StatusInv, ExhaustedInv
  <2>4. QED BY <2>1, <2>2, <2>3
<1>6. CASE CallerProcess
  <2>1. StatusInv'
    BY <1>6 DEF CallerProcess, StatusInv
  <2>2. TaskInv'
    BY <1>6, TaskFrame DEF CallerProcess
  <2>3. ExhaustedInv'
    BY <1>6 DEF CallerProcess, StatusInv, ExhaustedInv
  <2>4. QED BY <2>1, <2>2, <2>3
<1>7. ASSUME NEW i \in Thread, InitFunc(i)
      PROVE StatusInv' /\ TaskInv' /\ ExhaustedInv'
  <2>1. StatusInv'
    BY <1>7 DEF InitFunc, StatusInv
  <2>2. TaskInv'
    BY <1>7, TaskFrame DEF InitFunc
  <2>3. ExhaustedInv'
    BY <1>7 DEF InitFunc, StatusInv, ExhaustedInv
  <2>4. QED BY <2>1, <2>2, <2>3
<1>8. ASSUME NEW i \in Thread, Look(i)
      PROVE StatusInv' /\ TaskInv' /\ ExhaustedInv'
  <2>1. StatusInv'
    BY <1>8 DEF Look, StatusInv
  <2>2. TaskInv'
    BY <1>8, TaskFrame DEF Look
  <2>3. ExhaustedInv'
    BY <1>8 DEF Look, StatusInv, ExhaustedInv
  <2>4. QED BY <2>1, <2>2, <2>3
<1>9. ASSUME NEW i \in Thread, Fetch(i)
      PROVE StatusInv' /\ TaskInv' /\ ExhaustedInv'
  <2>1. StatusInv'
    BY <1>9 DEF Fetch, StatusInv
  <2>2. TaskInv'
    <3>1. /\ tid' = [tid EXCEPT ![i] = curr] /\ curr' = curr + 1
          /\ pc[i] = "fetch" /\ end' = end /\ runs' = runs
          /\ \A j \in Thread : j # i => pc'[j] = pc[j] /\ tid'[j] = tid[j]
          /\ tid'[i] = curr
          /\ pc'[i] = (IF curr >= end THEN "finalize" ELSE "compute")
      BY <1>9 DEF Fetch
    <3>2. ASSUME NEW j \in Thread, pc'[j] = "compute"
          PROVE tid'[j] < curr' /\ tid'[j] < end' /\ runs'[tid'[j]] = 0
      <4>1. CASE j = i
        <5>1. curr \in Task /\ curr < end
          BY <3>1, <3>2, <4>1
        <5>2. runs[curr] = 0
          BY <5>1 DEF TaskInv
        <5>3. QED BY <3>1, <4>1, <5>1, <5>2
      <4>2. CASE j # i
        BY <3>1, <3>2, <4>2 DEF TaskInv
      <4>3. QED BY <4>1, <4>2
    <3>3. ASSUME NEW j \in Thread, NEW k \in Thread, j # k,
                 pc'[j] = "compute", pc'[k] = "compute"
          PROVE tid'[j] # tid'[k]
      <4>1. \A m \in Thread : pc[m] = "compute" => tid[m] # curr
        BY DEF TaskInv, TypeOK
      <4>2. CASE j = i
        BY <3>1, <3>3, <4>1, <4>2
      <4>3. CASE k = i
        BY <3>1, <3>3, <4>1, <4>3
      <4>4. CASE j # i /\ k # i
        <5>1. pc[j] = "compute" /\ pc[k] = "compute"
          BY <3>1, <3>3, <4>4
        <5>2. tid[j] # tid[k]
          BY <3>3, <5>1 DEF TaskInv
        <5>3. QED BY <3>1, <4>4, <5>2
      <4>5. QED BY <4>2, <4>3, <4>4
    <3>4. ASSUME NEW k \in Task, runs'[k] # 0
          PROVE runs'[k] = 1 /\ k < curr' /\ k < end'
      BY <3>1, <3>4 DEF TaskInv
    <3>5. ASSUME NEW k \in Task, k < curr', k < end'
          PROVE runs'[k] = 1 \/ \E j \in Thread : pc'[j] = "compute" /\ tid'[j] = k
      <4>1. CASE k = curr
        BY <3>1, <3>5, <4>1
      <4>2. CASE k < curr
        <5>1. CASE runs[k] = 1
          BY <3>1, <5>1
        <5>3. k < end
          BY <3>1, <3>5
        <5>4. runs[k] = 1 \/ \E j \in Thread : pc[j] = "compute" /\ tid[j] = k
          BY <4>2, <5>3 DEF TaskInv
        <5>5. CASE \E j \in Thread : pc[j] = "compute" /\ tid[j] = k
          <6>1. PICK j \in Thread : pc[j] = "compute" /\ tid[j] = k
            BY <5>5
          <6>2. pc'[j] = "compute" /\ tid'[j] = k
            BY <3>1, <6>1
          <6>3. QED BY <6>2
        <5>6. QED BY <5>1, <5>4, <5>5
      <4>3. QED BY <3>1, <3>5, <4>1, <4>2
    <3>6. \A j \in Thread : pc'[j] = "compute" =>
            tid'[j] < curr' /\ tid'[j] < end' /\ runs'[tid'[j]] = 0
      BY <3>2
    <3>7. \A j, k \in Thread :
            pc'[j] = "compute" /\ pc'[k] = "compute" /\ j # k => tid'[j] # tid'[k]
      BY <3>3
    <3>8. \A k \in Task : runs'[k] # 0 => runs'[k] = 1 /\ k < curr' /\ k < end'
      BY <3>4
    <3>9. \A k \in Task : k < curr' /\ k < end' =>
            runs'[k] = 1 \/ \E j \in Thread : pc'[j] = "compute" /\ tid'[j] = k
      BY <3>5
    <3>10. QED BY <3>6, <3>7, <3>8, <3>9 DEF TaskInv
  <2>3. ExhaustedInv'
    BY <1>9 DEF Fetch, StatusInv, ExhaustedInv
  <2>4. QED BY <2>1, <2>2, <2>3
<1>10. ASSUME NEW i \in Thread, Compute(i)
      PROVE StatusInv' /\ TaskInv' /\ ExhaustedInv'
  <2>1. StatusInv'
    BY <1>10 DEF Compute, StatusInv
  <2>2. TaskInv'
    BY <1>10 DEF Compute, StatusInv, TaskInv
  <2>3. ExhaustedInv'
    BY <1>10 DEF Compute, StatusInv, ExhaustedInv
  <2>4. QED BY <2>1, <2>2, <2>3
<1>11. ASSUME NEW i \in Thread, FinalizeFunc(i)
      PROVE StatusInv' /\ TaskInv' /\ ExhaustedInv'
  <2>1. StatusInv'
    BY <1>11 DEF FinalizeFunc, StatusInv
  <2>2. TaskInv'
    BY <1>11, TaskFrame DEF FinalizeFunc
  <2>3. ExhaustedInv'
    BY <1>11 DEF FinalizeFunc, StatusInv, ExhaustedInv
  <2>4. QED BY <2>1, <2>2, <2>3
<1>12. ASSUME NEW i \in Thread, StoreWaiting(i)
      PROVE StatusInv' /\ TaskInv' /\ ExhaustedInv'
  <2>1. StatusInv'
    BY <1>12 DEF StoreWaiting, StatusInv
  <2>2. TaskInv'
    BY <1>12, TaskFrame DEF StoreWaiting
  <2>3. ExhaustedInv'
    BY <1>12 DEF StoreWaiting, StatusInv, ExhaustedInv
  <2>4. QED BY <2>1, <2>2, <2>3
<1>13. CASE WaitFor
  <2>1. StatusInv'
    BY <1>13 DEF WaitFor, StatusInv
  <2>2. TaskInv'
    BY <1>13, TaskFrame DEF WaitFor
  <2>3. ExhaustedInv'
    BY <1>13 DEF WaitFor, StatusInv, ExhaustedInv
  <2>4. QED BY <2>1, <2>2, <2>3
<1>14. CASE Return
  <2>1. StatusInv'
    BY <1>14 DEF Return, StatusInv
  <2>2. TaskInv'
    BY <1>14, TaskFrame DEF Return
  <2>3. ExhaustedInv'
    BY <1>14 DEF Return, StatusInv, ExhaustedInv
  <2>4. QED BY <2>1, <2>2, <2>3
<1>15. CASE DtorStore
  <2>1. StatusInv'
    BY <1>15 DEF DtorStore, StatusInv
  <2>2. TaskInv'
    BY <1>15, TaskFrame DEF DtorStore
  <2>3. ExhaustedInv'
    BY <1>15 DEF DtorStore, StatusInv, ExhaustedInv
  <2>4. QED BY <2>1, <2>2, <2>3
<1>16. CASE DtorNotify
  <2>1. StatusInv'
    BY <1>16 DEF DtorNotify, StatusInv
  <2>2. TaskInv'
    BY <1>16, TaskFrame DEF DtorNotify
  <2>3. ExhaustedInv'
    BY <1>16 DEF DtorNotify, StatusInv, ExhaustedInv
  <2>4. QED BY <2>1, <2>2, <2>3
<1>17. CASE DtorJoin
  <2>1. StatusInv'
    BY <1>17 DEF DtorJoin, StatusInv
  <2>2. TaskInv'
    BY <1>17, TaskFrame DEF DtorJoin
  <2>3. ExhaustedInv'
    BY <1>17 DEF DtorJoin, StatusInv, ExhaustedInv
  <2>4. QED BY <2>1, <2>2, <2>3
<1>18. ASSUME NEW i \in Worker, WorkerObey(i)
      PROVE StatusInv' /\ TaskInv' /\ ExhaustedInv'
  <2>1. StatusInv'
    BY <1>18 DEF WorkerObey, StatusInv
  <2>2. TaskInv'
    BY <1>18, TaskFrame DEF WorkerObey
  <2>3. ExhaustedInv'
    BY <1>18 DEF WorkerObey, StatusInv, ExhaustedInv
  <2>4. QED BY <2>1, <2>2, <2>3
<1>19. ASSUME NEW i \in Worker, WorkerLock(i)
      PROVE StatusInv' /\ TaskInv' /\ ExhaustedInv'
  <2>1. StatusInv'
    BY <1>19 DEF WorkerLock, StatusInv
  <2>2. TaskInv'
    BY <1>19, TaskFrame DEF WorkerLock
  <2>3. ExhaustedInv'
    BY <1>19 DEF WorkerLock, StatusInv, ExhaustedInv
  <2>4. QED BY <2>1, <2>2, <2>3
<1>20. ASSUME NEW i \in Worker, WorkerCheck(i)
      PROVE StatusInv' /\ TaskInv' /\ ExhaustedInv'
  <2>1. StatusInv'
    BY <1>20 DEF WorkerCheck, StatusInv
  <2>2. TaskInv'
    BY <1>20, TaskFrame DEF WorkerCheck
  <2>3. ExhaustedInv'
    BY <1>20 DEF WorkerCheck, StatusInv, ExhaustedInv
  <2>4. QED BY <2>1, <2>2, <2>3
<1>21. ASSUME NEW i \in Worker, WorkerSleep(i)
      PROVE StatusInv' /\ TaskInv' /\ ExhaustedInv'
  <2>1. StatusInv'
    BY <1>21 DEF WorkerSleep, StatusInv
  <2>2. TaskInv'
    BY <1>21, TaskFrame DEF WorkerSleep
  <2>3. ExhaustedInv'
    BY <1>21 DEF WorkerSleep, StatusInv, ExhaustedInv
  <2>4. QED BY <2>1, <2>2, <2>3
<1>22. ASSUME NEW i \in Worker, SpuriousWakeup(i)
      PROVE StatusInv' /\ TaskInv' /\ ExhaustedInv'
  <2>1. StatusInv'
    BY <1>22 DEF SpuriousWakeup, StatusInv
  <2>2. TaskInv'
    BY <1>22, TaskFrame DEF SpuriousWakeup
  <2>3. ExhaustedInv'
    BY <1>22 DEF SpuriousWakeup, StatusInv, ExhaustedInv
  <2>4. QED BY <2>1, <2>2, <2>3
<1>23. CASE UNCHANGED vars
  <2>1. StatusInv'
    BY <1>23 DEF vars, StatusInv
  <2>2. TaskInv'
    BY <1>23, TaskFrame DEF vars
  <2>3. ExhaustedInv'
    BY <1>23 DEF vars, StatusInv, ExhaustedInv
  <2>4. QED BY <2>1, <2>2, <2>3
<1>24. QED
  BY <1>1, <1>2, <1>3, <1>4, <1>5, <1>6, <1>7, <1>8, <1>9, <1>10, <1>11,
     <1>12, <1>13, <1>14, <1>15, <1>16, <1>17, <1>18, <1>19, <1>20, <1>21,
     <1>22, <1>23
     DEF Next, CallerStep, WorkerStep, Process, Destroyed

-----------------------------------------------------------------------------
THEOREM Invariance == Spec => []IInv
BY InvInit, InvNext, PTL DEF Spec

(* Type correctness of the pool, for every number of threads. *)
THEOREM TypeCorrect == Spec => []TypeOK
<1>1. IInv => TypeOK
  BY DEF IInv
<1>2. QED BY <1>1, Invariance, PTL

(* While the caller is outside a job, where it overwrites the closures and *)
(* the counters without synchronization, no worker is in process_tasks.    *)
THEOREM QuiescentAlways == Spec => []Quiescent
<1>1. IInv => Quiescent
  BY DEF IInv, TypeOK, StatusInv, Quiescent
<1>2. QED BY <1>1, Invariance, PTL

-----------------------------------------------------------------------------
(* The refinement: drawing, publishing and waiting are invisible to the    *)
(* caller; only the execution of a task, the call and the return are not.  *)
LEMMA RefinesInit == Init => PF!Init
<1> SUFFICES ASSUME Init PROVE PF!Init
  OBVIOUS
<1>1. pc[0] = "idle" /\ end \in 0..MaxTasks
  BY NAssumption, MaxTasksAssumption DEF Init
<1>2. QED BY <1>1 DEF Init, PF!Init, PF!Task, Task, InJob, Processing

LEMMA RefinesNext == IInv /\ [Next]_vars => [PF!Next]_(PF!vars)
<1> SUFFICES ASSUME IInv, [Next]_vars PROVE PF!Next \/ UNCHANGED PF!vars
  BY DEF PF!vars
<1> USE NAssumption, MaxTasksAssumption, Threads
    DEF IInv, TypeOK, PF!vars
<1>a. PF!Task = Task
  BY DEF PF!Task, Task
<1>1. CASE StartJob
  <2>1. end' \in 0..MaxTasks /\ runs' = [k \in Task |-> 0]
    BY <1>1 DEF StartJob
  <2>2. pc[0] \notin InJob /\ pc'[0] \in InJob
    BY <1>1 DEF StartJob
  <2>3. PF!Call
    BY <1>a, <2>1, <2>2 DEF PF!Call
  <2>4. QED BY <2>3 DEF PF!Next
<1>2. ASSUME NEW i \in Thread, Compute(i) PROVE PF!Next
  <2>1. tid[i] \in Nat /\ tid[i] < end /\ runs[tid[i]] = 0
    BY <1>2 DEF Compute, TaskInv
  <2>2. tid[i] \in Task
    BY <2>1
  <2>3. runs' = [runs EXCEPT ![tid[i]] = runs[tid[i]] + 1] /\ end' = end
    BY <1>2 DEF Compute
  <2>4. runs' = [runs EXCEPT ![tid[i]] = 1]
    BY <2>1, <2>2, <2>3
  <2>5. pc[0] \in InJob /\ pc'[0] \in InJob
    BY <1>2 DEF Compute, StatusInv
  <2>6. PF!Run
    BY <1>a, <2>1, <2>2, <2>3, <2>4, <2>5 DEF PF!Run
  <2>7. QED BY <2>6 DEF PF!Next
<1>3. CASE Return
  <2>1. \A i \in Thread : pc[i] # "compute"
    BY <1>3 DEF Return, StatusInv
  <2>2. curr >= end
    BY <1>3 DEF Return, ExhaustedInv
  <2>3. \A k \in Task : k < end => runs[k] = 1
    BY <2>1, <2>2 DEF TaskInv
  <2>4. pc[0] \in InJob /\ pc'[0] \notin InJob /\ end' = end /\ runs' = runs
    BY <1>3 DEF Return
  <2>5. PF!Return
    BY <1>a, <2>3, <2>4 DEF PF!Return
  <2>6. QED BY <2>5 DEF PF!Next
<1>4. ASSUME end' = end, runs' = runs, pc[0] \in InJob <=> pc'[0] \in InJob
      PROVE UNCHANGED PF!vars
  BY <1>4
<1>5. CASE SetRestrictedWorkerCount \/ DtorBegin \/ DtorStore \/ DtorNotify \/ DtorJoin
  BY <1>4, <1>5 DEF SetRestrictedWorkerCount, DtorBegin, DtorStore, DtorNotify, DtorJoin
<1>6. CASE Publish \/ Notify \/ CallerProcess \/ WaitFor
  BY <1>4, <1>6 DEF Publish, Notify, CallerProcess, WaitFor
<1>7. ASSUME NEW i \in Thread,
             InitFunc(i) \/ Look(i) \/ Fetch(i) \/ FinalizeFunc(i) \/ StoreWaiting(i)
      PROVE UNCHANGED PF!vars
  BY <1>4, <1>7 DEF InitFunc, Look, Fetch, FinalizeFunc, StoreWaiting
<1>8. ASSUME NEW i \in Worker,
             WorkerObey(i) \/ WorkerLock(i) \/ WorkerCheck(i)
               \/ WorkerSleep(i) \/ SpuriousWakeup(i)
      PROVE UNCHANGED PF!vars
  BY <1>4, <1>8 DEF WorkerObey, WorkerLock, WorkerCheck, WorkerSleep, SpuriousWakeup
<1>9. CASE UNCHANGED vars
  BY <1>4, <1>9 DEF vars
<1>10. QED
  BY <1>1, <1>2, <1>3, <1>5, <1>6, <1>7, <1>8, <1>9
     DEF Next, CallerStep, WorkerStep, Process, Destroyed

(* A job executes each of its tasks exactly once and returns only then,    *)
(* for every number of threads, every number of tasks and every            *)
(* restriction of the workers.                                             *)
THEOREM JobExactlyOnce == Spec => ImplementsParallelFor
<1>1. QED
  BY RefinesInit, RefinesNext, Invariance, PTL DEF Spec, ImplementsParallelFor, PF!Spec

-----------------------------------------------------------------------------
(* Who has run init_func and finalize_func, at each point of process_tasks *)
Published(i) == /\ pc[0] \in InJob /\ i < worker_count
                /\ pc[0] = "publish" => i < cursor
                /\ pc[0] = "notify" => i <= cursor

FinalInv ==
  /\ finals \subseteq inits /\ inits \subseteq Participants
  /\ \A i \in Thread : pc[i] \in Processing \ {"init"} => i \in inits
  /\ \A i \in Thread : pc[i] = "store" => i \in finals
  /\ pc[0] = "wait" => 0 \in finals
  /\ \A i \in Worker : Published(i) => status[i] = "WORKING" \/ i \in finals

LEMMA FinalInit == Init => FinalInv
BY NAssumption, Threads DEF Init, FinalInv, Published, Participants

LEMMA FinalNext == IInv /\ FinalInv /\ [Next]_vars => FinalInv'
<1> SUFFICES ASSUME IInv, FinalInv, [Next]_vars PROVE FinalInv'
  OBVIOUS
<1>t. TypeOK' /\ CursorInv'
  BY TypeNext DEF IInv
<1> USE <1>t, NAssumption, MaxTasksAssumption, Threads
    DEF IInv, TypeOK, CursorInv, StatusInv, FinalInv, Published, Participants
<1>1. CASE StartJob
  BY <1>1 DEF StartJob
<1>2. CASE SetRestrictedWorkerCount
  BY <1>2 DEF SetRestrictedWorkerCount
<1>3. CASE DtorBegin
  BY <1>3 DEF DtorBegin
<1>4. CASE Publish
  BY <1>4 DEF Publish
<1>5. CASE Notify
  BY <1>5 DEF Notify
<1>6. CASE CallerProcess
  BY <1>6 DEF CallerProcess
<1>7. CASE WaitFor
  BY <1>7 DEF WaitFor
<1>8. CASE Return
  BY <1>8 DEF Return
<1>9. CASE DtorStore
  BY <1>9 DEF DtorStore
<1>10. CASE DtorNotify
  BY <1>10 DEF DtorNotify
<1>11. CASE DtorJoin
  BY <1>11 DEF DtorJoin
<1>12. ASSUME NEW i \in Thread, InitFunc(i) PROVE FinalInv'
  BY <1>12 DEF InitFunc
<1>13. ASSUME NEW i \in Thread, Look(i) PROVE FinalInv'
  BY <1>13 DEF Look
<1>14. ASSUME NEW i \in Thread, Fetch(i) PROVE FinalInv'
  BY <1>14 DEF Fetch
<1>15. ASSUME NEW i \in Thread, Compute(i) PROVE FinalInv'
  BY <1>15 DEF Compute
<1>16. ASSUME NEW i \in Thread, FinalizeFunc(i) PROVE FinalInv'
  BY <1>16 DEF FinalizeFunc
<1>17. ASSUME NEW i \in Thread, StoreWaiting(i) PROVE FinalInv'
  BY <1>17 DEF StoreWaiting
<1>18. ASSUME NEW i \in Worker, WorkerObey(i) PROVE FinalInv'
  <2>1. PICK p \in {"init", "exit", "lock"} : pc' = [pc EXCEPT ![i] = p]
    BY <1>18 DEF WorkerObey
  <2>2. UNCHANGED <<status, restricted, jobvars, tid, cursor, history>>
    BY <1>18 DEF WorkerObey
  <2>3. pc'[0] = pc[0] /\ \A j \in Thread : pc'[j] = pc[j] \/ pc'[j] = p
    BY <2>1
  <2>4. QED BY <2>2, <2>3
<1>19. ASSUME NEW i \in Worker, WorkerLock(i) PROVE FinalInv'
  BY <1>19 DEF WorkerLock
<1>20. ASSUME NEW i \in Worker, WorkerCheck(i) PROVE FinalInv'
  BY <1>20 DEF WorkerCheck
<1>21. ASSUME NEW i \in Worker, WorkerSleep(i) PROVE FinalInv'
  BY <1>21 DEF WorkerSleep
<1>22. ASSUME NEW i \in Worker, SpuriousWakeup(i) PROVE FinalInv'
  BY <1>22 DEF SpuriousWakeup
<1>23. CASE UNCHANGED vars
  BY <1>23 DEF vars
<1>24. QED
  BY <1>1, <1>2, <1>3, <1>4, <1>5, <1>6, <1>7, <1>8, <1>9, <1>10,
     <1>11, <1>12, <1>13, <1>14, <1>15, <1>16, <1>17, <1>18, <1>19,
     <1>20, <1>21, <1>22, <1>23
     DEF Next, CallerStep, WorkerStep, Process, Destroyed

(* Exactly the participants of a job have run init_func and finalize_func  *)
(* when wait() is about to return.                                         *)
THEOREM InitFinalizeAlwaysPaired == Spec => []InitFinalizePaired
<1>1. IInv /\ FinalInv => InitFinalizePaired
  <2> SUFFICES ASSUME IInv, FinalInv, pc[0] = "wait", cursor >= worker_count
               PROVE Participants \subseteq finals /\ finals \subseteq Participants
    BY DEF FinalInv, InitFinalizePaired
  <2>1. finals \subseteq Participants
    BY DEF FinalInv
  <2>2. ASSUME NEW i \in Worker, i < worker_count PROVE i \in finals
    <3>1. Published(i)
      BY <2>2 DEF Published
    <3>2. status[i] # "WORKING"
      BY <2>2, Threads DEF IInv, TypeOK, StatusInv
    <3>3. QED BY <3>1, <3>2 DEF FinalInv
  <2>3. 0 \in finals
    BY DEF FinalInv
  <2>4. QED BY <2>1, <2>2, <2>3, Threads DEF Participants
<1>2. Spec => []FinalInv
  BY FinalInit, FinalNext, Invariance, PTL DEF Spec
<1>3. QED BY <1>1, <1>2, Invariance, PTL
=============================================================================
