---------------------- MODULE NumaJobDistributorProofs ----------------------
(***************************************************************************)
(* Machine-checked theorems about two ways of sharing out work.  First     *)
(* NumaJobDistributor, which gives each NUMA node its part of a job: for   *)
(* every number of NUMA nodes and for both builds of do_numa_job.          *)
(*                                                                         *)
(* Then DenseKVCache, which cuts attention into tasks for the threads of a *)
(* pool: for every number of sequences, heads, blocks and threads, every   *)
(* block table without duplicates, every import and both reduction modes.  *)
(***************************************************************************)
EXTENDS NumaJobDistributor, DenseKVCache, FiniteSetTheorems,
        WellFoundedInduction, TLAPS

OwnerPC == {"spawn", "barrier", "idle", "publish", "notify", "wait",
            "exit_store", "exit_notify", "gone"}
Early == {"unborn", "create", "arrive"}
WorkerPC == Early \cup {"barrier", "load", "compute", "store", "lock", "check",
                        "presleep", "asleep", "exit"}
Starting == {"spawn", "barrier"}
Ending == {"exit_store", "exit_notify", "gone"}

TypeInv ==
  /\ direct \in BOOLEAN
  /\ status \in [Numa -> {"null", "WAITING", "WORKING", "EXIT"}]
  /\ arrived \in Nat
  /\ pc \in [Numa -> WorkerPC] /\ cpc \in OwnerPC
  /\ cursor \in 0..NumaCount
  /\ cpc \in {"notify", "exit_notify"} => cursor < NumaCount
  /\ me_numa \in Numa \cup {Nobody}
  /\ ran \in [Numa -> Nat]

(* The workers that have come to the barrier. *)
Came == {i \in Numa : pc[i] \notin Early}

(* The barrier has counted them and the owner, and lets the owner through  *)
(* only when all have come.                                                *)
BarrierInv ==
  /\ arrived = Cardinality(Came) + (IF cpc = "spawn" THEN 0 ELSE 1)
  /\ cpc = "spawn" => \A i \in Numa : i >= cursor => pc[i] = "unborn"
  /\ cpc \notin Starting => Came = Numa

(* The loop of do_numa_job has given the job to worker i. *)
Published(i) == /\ i # me_numa
                /\ cpc = "publish" => i < cursor
                /\ cpc = "notify" => i <= cursor

(* A status word exists once its worker has created it.  A worker is in    *)
(* compute_func only while it says WORKING, and it says so only from its   *)
(* publication until the owner has seen it change.                         *)
StatusInv ==
  \A i \in Numa :
    /\ status[i] = "null" <=> pc[i] \in {"unborn", "create"}
    /\ pc[i] \in {"compute", "store"} => status[i] = "WORKING"
    /\ status[i] = "WORKING" => /\ cpc \in InJob /\ Published(i)
                                /\ cpc = "wait" => i >= cursor
    /\ status[i] = "EXIT" => cpc \in Ending

(* Within a job, compute_func(i) has run once if worker i is past it, or   *)
(* if i is the owner's node and the owner is past it, else not at all.     *)
RanInv ==
  cpc \in InJob =>
    \A i \in Numa :
      /\ ran[i] \in {0, 1}
      /\ i = me_numa => (ran[i] = 1 <=> cpc = "wait")
      /\ i # me_numa /\ ~Published(i) => ran[i] = 0
      /\ Published(i) => (ran[i] = 1 <=> status[i] # "WORKING" \/ pc[i] = "store")

IInv == TypeInv /\ BarrierInv /\ StatusInv /\ RanInv

-----------------------------------------------------------------------------
LEMMA TypeInit == Init => TypeInv
BY NumaAssumption DEF Init, TypeInv, OwnerPC, WorkerPC, Early, Numa, Nobody

LEMMA TypeNext == TypeInv /\ [Next]_vars => TypeInv'
<1> SUFFICES ASSUME TypeInv, [Next]_vars PROVE TypeInv'
  OBVIOUS
<1> USE NumaAssumption DEF TypeInv, OwnerPC, WorkerPC, Early, Numa, Nobody
<1>1. CASE StartJob
  BY <1>1 DEF StartJob
<1>2. CASE DtorBegin
  BY <1>2 DEF DtorBegin
<1>3. CASE Spawn
  BY <1>3 DEF Spawn
<1>4. CASE ArriveOwner
  BY <1>4 DEF ArriveOwner
<1>5. CASE PassOwner
  BY <1>5 DEF PassOwner, AllArrived
<1>6. CASE Publish
  BY <1>6 DEF Publish
<1>7. CASE Notify
  BY <1>7 DEF Notify, Wake
<1>8. CASE SkipMine
  BY <1>8 DEF SkipMine
<1>9. CASE CallerCompute
  BY <1>9 DEF CallerCompute
<1>10. CASE WaitFor
  BY <1>10 DEF WaitFor
<1>11. CASE Return
  BY <1>11 DEF Return
<1>12. CASE DtorStore
  BY <1>12 DEF DtorStore
<1>13. CASE DtorNotify
  BY <1>13 DEF DtorNotify, Wake
<1>14. CASE DtorJoin
  BY <1>14 DEF DtorJoin
<1>15. CASE UNCHANGED vars
  BY <1>15 DEF vars
<1>16. ASSUME NEW i \in Numa, Create(i) PROVE TypeInv'
  BY <1>16 DEF Create
<1>17. ASSUME NEW i \in Numa, Arrive(i) PROVE TypeInv'
  BY <1>17 DEF Arrive
<1>18. ASSUME NEW i \in Numa, Pass(i) PROVE TypeInv'
  BY <1>18 DEF Pass, AllArrived
<1>19. ASSUME NEW i \in Numa, Obey(i) PROVE TypeInv'
  BY <1>19 DEF Obey
<1>20. ASSUME NEW i \in Numa, Compute(i) PROVE TypeInv'
  BY <1>20 DEF Compute
<1>21. ASSUME NEW i \in Numa, StoreWaiting(i) PROVE TypeInv'
  BY <1>21 DEF StoreWaiting
<1>22. ASSUME NEW i \in Numa, Lock(i) PROVE TypeInv'
  BY <1>22 DEF Lock
<1>23. ASSUME NEW i \in Numa, Check(i) PROVE TypeInv'
  BY <1>23 DEF Check
<1>24. ASSUME NEW i \in Numa, Sleep(i) PROVE TypeInv'
  BY <1>24 DEF Sleep
<1>25. ASSUME NEW i \in Numa, SpuriousWakeup(i) PROVE TypeInv'
  BY <1>25 DEF SpuriousWakeup
<1>26. QED
  BY <1>1, <1>2, <1>3, <1>4, <1>5, <1>6, <1>7, <1>8, <1>9, <1>10,
     <1>11, <1>12, <1>13, <1>14, <1>15, <1>16, <1>17, <1>18, <1>19,
     <1>20, <1>21, <1>22, <1>23, <1>24, <1>25
     DEF Next, OwnerStep, WorkerStep, Destroyed

-----------------------------------------------------------------------------
LEMMA NumaFinite == IsFiniteSet(Numa) /\ Cardinality(Numa) = NumaCount
<1>1. 0 \in Int /\ NumaCount - 1 \in Int /\ NumaCount >= 1
  BY NumaAssumption
<1>2. /\ IsFiniteSet(0..(NumaCount - 1))
      /\ Cardinality(0..(NumaCount - 1)) =
           IF 0 > NumaCount - 1 THEN 0 ELSE NumaCount - 1 - 0 + 1
  BY <1>1, FS_Interval
<1>3. QED BY <1>1, <1>2, NumaAssumption DEF Numa

(* The barrier's arithmetic: when all the threads it is sized for have     *)
(* arrived and the owner is one of them, every worker has.                 *)
LEMMA AllCame ==
  ASSUME TypeInv, BarrierInv, cpc = "barrier", AllArrived
  PROVE  Came = Numa
<1>1. IsFiniteSet(Came) /\ Cardinality(Came) \in Nat
  BY NumaFinite, FS_Subset, FS_CardinalityType DEF Came
<1>2. Cardinality(Came) = NumaCount
  BY <1>1, NumaAssumption DEF BarrierInv, AllArrived
<1>3. QED BY <1>2, NumaFinite, FS_Subset DEF Came

(* Steps after which the same workers have come. *)
LEMMA BarrierFrame ==
  ASSUME BarrierInv, UNCHANGED <<arrived, cursor, cpc>>,
         \A j \in Numa : /\ pc'[j] \in Early <=> pc[j] \in Early
                         /\ pc[j] = "unborn" => pc'[j] = "unborn"
  PROVE  BarrierInv'
<1>1. Came' = Came
  BY DEF Came, Early
<1>2. \A i \in Numa : cpc = "spawn" /\ i >= cursor => pc'[i] = "unborn"
  BY DEF BarrierInv
<1>3. QED BY <1>1, <1>2 DEF BarrierInv, Starting

LEMMA BarrierInit == Init => BarrierInv
<1> SUFFICES ASSUME Init PROVE BarrierInv
  OBVIOUS
<1>1. Came = {}
  BY DEF Init, Came, Early
<1>2. QED BY <1>1, FS_EmptySet DEF Init, BarrierInv, Starting

LEMMA BarrierNext == TypeInv /\ BarrierInv /\ [Next]_vars => BarrierInv'
<1> SUFFICES ASSUME TypeInv, BarrierInv, [Next]_vars PROVE BarrierInv'
  OBVIOUS
<1> USE NumaAssumption DEF TypeInv
<1>1. CASE StartJob
  <2>1. Came' = Came
    BY <1>1 DEF StartJob, Came, Early
  <2>2. QED BY <1>1, <2>1 DEF StartJob, BarrierInv, Starting, Ending
<1>2. CASE DtorBegin
  <2>1. Came' = Came
    BY <1>2 DEF DtorBegin, Came, Early
  <2>2. QED BY <1>2, <2>1 DEF DtorBegin, BarrierInv, Starting, Ending
<1>3. CASE Spawn
  <2>1. pc[cursor] = "unborn" /\ cursor \in Numa
    BY <1>3 DEF Spawn, BarrierInv, Numa
  <2>2. \A j \in Numa : pc'[j] \in Early <=> pc[j] \in Early
    BY <1>3, <2>1 DEF Spawn, Early
  <2>3. Came' = Came
    BY <2>2 DEF Came, Early
  <2>4. \A j \in Numa : j >= cursor' => pc'[j] = "unborn"
    BY <1>3 DEF Spawn, BarrierInv, Numa
  <2>5. QED BY <1>3, <2>3, <2>4 DEF Spawn, BarrierInv, Starting
<1>4. CASE ArriveOwner
  <2>1. Came' = Came
    BY <1>4 DEF ArriveOwner, Came, Early
  <2>2. Cardinality(Came) \in Nat
    BY NumaFinite, FS_Subset, FS_CardinalityType DEF Came
  <2>3. arrived' = Cardinality(Came') + 1
    BY <1>4, <2>1, <2>2 DEF ArriveOwner, BarrierInv
  <2>4. QED BY <1>4, <2>1, <2>3 DEF ArriveOwner, BarrierInv, Starting
<1>5. CASE PassOwner
  <2>1. Came' = Came
    BY <1>5 DEF PassOwner, Came
  <2>2. Came = Numa
    BY <1>5, AllCame DEF PassOwner
  <2>3. QED BY <1>5, <2>1, <2>2 DEF PassOwner, BarrierInv, Starting
<1>6. CASE Publish
  <2>1. Came' = Came
    BY <1>6 DEF Publish, Came, Early
  <2>2. QED BY <1>6, <2>1 DEF Publish, BarrierInv, Starting, Ending
<1>7. CASE Notify
  <2>1. Came' = Came
    BY <1>7 DEF Notify, Wake, Came, Early
  <2>2. QED BY <1>7, <2>1 DEF Notify, BarrierInv, Starting, Ending
<1>8. CASE SkipMine
  <2>1. Came' = Came
    BY <1>8 DEF SkipMine, Came, Early
  <2>2. QED BY <1>8, <2>1 DEF SkipMine, BarrierInv, Starting, Ending
<1>9. CASE CallerCompute
  <2>1. Came' = Came
    BY <1>9 DEF CallerCompute, Came, Early
  <2>2. QED BY <1>9, <2>1 DEF CallerCompute, BarrierInv, Starting, Ending
<1>10. CASE WaitFor
  <2>1. Came' = Came
    BY <1>10 DEF WaitFor, Came, Early
  <2>2. QED BY <1>10, <2>1 DEF WaitFor, BarrierInv, Starting, Ending
<1>11. CASE Return
  <2>1. Came' = Came
    BY <1>11 DEF Return, Came, Early
  <2>2. QED BY <1>11, <2>1 DEF Return, BarrierInv, Starting, Ending
<1>12. CASE DtorStore
  <2>1. Came' = Came
    BY <1>12 DEF DtorStore, Came, Early
  <2>2. QED BY <1>12, <2>1 DEF DtorStore, BarrierInv, Starting, Ending
<1>13. CASE DtorNotify
  <2>1. Came' = Came
    BY <1>13 DEF DtorNotify, Wake, Came, Early
  <2>2. QED BY <1>13, <2>1 DEF DtorNotify, BarrierInv, Starting, Ending
<1>14. CASE DtorJoin
  <2>1. Came' = Came
    BY <1>14 DEF DtorJoin, Came, Early
  <2>2. QED BY <1>14, <2>1 DEF DtorJoin, BarrierInv, Starting, Ending
<1>15. CASE UNCHANGED vars
  BY <1>15, BarrierFrame DEF vars
<1>16. ASSUME NEW i \in Numa, Create(i) PROVE BarrierInv'
  BY <1>16, BarrierFrame DEF Create, Early
<1>17. ASSUME NEW i \in Numa, Arrive(i) PROVE BarrierInv'
  <2>1. Came' = Came \cup {i} /\ i \notin Came
    BY <1>17 DEF Arrive, Came, Early
  <2>2. IsFiniteSet(Came) /\ Cardinality(Came) \in Nat
    BY NumaFinite, FS_Subset, FS_CardinalityType DEF Came
  <2>3. Cardinality(Came') = Cardinality(Came) + 1
    BY <2>1, <2>2, FS_AddElement
  <2>4. \A j \in Numa : cpc = "spawn" /\ j >= cursor => pc'[j] = "unborn"
    BY <1>17 DEF Arrive, BarrierInv
  <2>5. cpc \notin Starting => Came' = Numa
    BY <2>1, <1>17 DEF BarrierInv, Came
  <2>6. QED BY <1>17, <2>2, <2>3, <2>4, <2>5 DEF Arrive, BarrierInv, Starting
<1>18. ASSUME NEW i \in Numa, Pass(i) PROVE BarrierInv'
  BY <1>18, BarrierFrame DEF Pass, Early
<1>19. ASSUME NEW i \in Numa, Obey(i) PROVE BarrierInv'
  BY <1>19, BarrierFrame DEF Obey, Early
<1>20. ASSUME NEW i \in Numa, Compute(i) PROVE BarrierInv'
  BY <1>20, BarrierFrame DEF Compute, Early
<1>21. ASSUME NEW i \in Numa, StoreWaiting(i) PROVE BarrierInv'
  BY <1>21, BarrierFrame DEF StoreWaiting, Early
<1>22. ASSUME NEW i \in Numa, Lock(i) PROVE BarrierInv'
  BY <1>22, BarrierFrame DEF Lock, Early
<1>23. ASSUME NEW i \in Numa, Check(i) PROVE BarrierInv'
  BY <1>23, BarrierFrame DEF Check, Early
<1>24. ASSUME NEW i \in Numa, Sleep(i) PROVE BarrierInv'
  BY <1>24, BarrierFrame DEF Sleep, Early
<1>25. ASSUME NEW i \in Numa, SpuriousWakeup(i) PROVE BarrierInv'
  BY <1>25, BarrierFrame DEF SpuriousWakeup, Early
<1>26. QED
  BY <1>1, <1>2, <1>3, <1>4, <1>5, <1>6, <1>7, <1>8, <1>9, <1>10,
     <1>11, <1>12, <1>13, <1>14, <1>15, <1>16, <1>17, <1>18, <1>19,
     <1>20, <1>21, <1>22, <1>23, <1>24, <1>25
     DEF Next, OwnerStep, WorkerStep, Destroyed

-----------------------------------------------------------------------------
(* The owner is past the barrier: every worker has created its status.     *)
LEMMA Created ==
  ASSUME BarrierInv, StatusInv, cpc \notin Starting
  PROVE  \A i \in Numa : status[i] # "null"
BY DEF BarrierInv, StatusInv, Came, Early

LEMMA StatusInit == Init => StatusInv
BY DEF Init, StatusInv

LEMMA StatusNext == IInv /\ [Next]_vars => StatusInv'
<1> SUFFICES ASSUME IInv, [Next]_vars PROVE StatusInv'
  OBVIOUS
<1>t. TypeInv'
  BY TypeNext DEF IInv
<1> USE <1>t, NumaAssumption
    DEF IInv, TypeInv, StatusInv, Published, InJob, Ending, Numa, Nobody
<1>1. CASE StartJob
  BY <1>1 DEF StartJob
<1>2. CASE DtorBegin
  BY <1>2 DEF DtorBegin
<1>3. CASE Spawn
  <2>1. pc[cursor] = "unborn"
    BY <1>3 DEF Spawn, BarrierInv
  <2>2. QED BY <1>3, <2>1 DEF Spawn
<1>4. CASE ArriveOwner
  BY <1>4 DEF ArriveOwner
<1>5. CASE PassOwner
  BY <1>5 DEF PassOwner, AllArrived
<1>6. CASE Publish
  <2>1. \A j \in Numa : status[j] # "null"
    BY <1>6, Created DEF Publish, Starting
  <2>2. QED BY <1>6, <2>1 DEF Publish
<1>7. CASE Notify
  BY <1>7 DEF Notify, Wake
<1>8. CASE SkipMine
  BY <1>8 DEF SkipMine
<1>9. CASE CallerCompute
  BY <1>9 DEF CallerCompute
<1>10. CASE WaitFor
  BY <1>10 DEF WaitFor
<1>11. CASE Return
  BY <1>11 DEF Return
<1>12. CASE DtorStore
  <2>1. \A j \in Numa : status[j] # "null"
    BY <1>12, Created DEF DtorStore, Starting
  <2>2. QED BY <1>12, <2>1 DEF DtorStore
<1>13. CASE DtorNotify
  BY <1>13 DEF DtorNotify, Wake
<1>14. CASE DtorJoin
  BY <1>14 DEF DtorJoin
<1>15. CASE UNCHANGED vars
  BY <1>15 DEF vars
<1>16. ASSUME NEW i \in Numa, Create(i) PROVE StatusInv'
  BY <1>16 DEF Create
<1>17. ASSUME NEW i \in Numa, Arrive(i) PROVE StatusInv'
  BY <1>17 DEF Arrive
<1>18. ASSUME NEW i \in Numa, Pass(i) PROVE StatusInv'
  BY <1>18 DEF Pass, AllArrived
<1>19. ASSUME NEW i \in Numa, Obey(i) PROVE StatusInv'
  BY <1>19 DEF Obey
<1>20. ASSUME NEW i \in Numa, Compute(i) PROVE StatusInv'
  BY <1>20 DEF Compute
<1>21. ASSUME NEW i \in Numa, StoreWaiting(i) PROVE StatusInv'
  BY <1>21 DEF StoreWaiting
<1>22. ASSUME NEW i \in Numa, Lock(i) PROVE StatusInv'
  BY <1>22 DEF Lock
<1>23. ASSUME NEW i \in Numa, Check(i) PROVE StatusInv'
  BY <1>23 DEF Check
<1>24. ASSUME NEW i \in Numa, Sleep(i) PROVE StatusInv'
  BY <1>24 DEF Sleep
<1>25. ASSUME NEW i \in Numa, SpuriousWakeup(i) PROVE StatusInv'
  BY <1>25 DEF SpuriousWakeup
<1>26. QED
  BY <1>1, <1>2, <1>3, <1>4, <1>5, <1>6, <1>7, <1>8, <1>9, <1>10,
     <1>11, <1>12, <1>13, <1>14, <1>15, <1>16, <1>17, <1>18, <1>19,
     <1>20, <1>21, <1>22, <1>23, <1>24, <1>25
     DEF Next, OwnerStep, WorkerStep, Destroyed

LEMMA RanInit == Init => RanInv
BY DEF Init, RanInv, InJob

LEMMA RanNext == IInv /\ [Next]_vars => RanInv'
<1> SUFFICES ASSUME IInv, [Next]_vars PROVE RanInv'
  OBVIOUS
<1>t. TypeInv' /\ StatusInv'
  BY TypeNext, StatusNext DEF IInv
<1> USE <1>t, NumaAssumption
    DEF IInv, TypeInv, StatusInv, RanInv, Published, InJob, Ending, Numa, Nobody
<1>1. CASE StartJob
  BY <1>1 DEF StartJob
<1>2. CASE DtorBegin
  BY <1>2 DEF DtorBegin
<1>3. CASE Spawn
  BY <1>3 DEF Spawn
<1>4. CASE ArriveOwner
  BY <1>4 DEF ArriveOwner
<1>5. CASE PassOwner
  BY <1>5 DEF PassOwner, AllArrived
<1>6. CASE Publish
  BY <1>6 DEF Publish
<1>7. CASE Notify
  BY <1>7 DEF Notify, Wake
<1>8. CASE SkipMine
  BY <1>8 DEF SkipMine
<1>9. CASE CallerCompute
  BY <1>9 DEF CallerCompute
<1>10. CASE WaitFor
  BY <1>10 DEF WaitFor
<1>11. CASE Return
  BY <1>11 DEF Return
<1>12. CASE DtorStore
  BY <1>12 DEF DtorStore
<1>13. CASE DtorNotify
  BY <1>13 DEF DtorNotify, Wake
<1>14. CASE DtorJoin
  BY <1>14 DEF DtorJoin
<1>15. CASE UNCHANGED vars
  BY <1>15 DEF vars
<1>16. ASSUME NEW i \in Numa, Create(i) PROVE RanInv'
  BY <1>16 DEF Create
<1>17. ASSUME NEW i \in Numa, Arrive(i) PROVE RanInv'
  BY <1>17 DEF Arrive
<1>18. ASSUME NEW i \in Numa, Pass(i) PROVE RanInv'
  BY <1>18 DEF Pass, AllArrived
<1>19. ASSUME NEW i \in Numa, Obey(i) PROVE RanInv'
  BY <1>19 DEF Obey
<1>20. ASSUME NEW i \in Numa, Compute(i) PROVE RanInv'
  BY <1>20 DEF Compute
<1>21. ASSUME NEW i \in Numa, StoreWaiting(i) PROVE RanInv'
  BY <1>21 DEF StoreWaiting
<1>22. ASSUME NEW i \in Numa, Lock(i) PROVE RanInv'
  BY <1>22 DEF Lock
<1>23. ASSUME NEW i \in Numa, Check(i) PROVE RanInv'
  BY <1>23 DEF Check
<1>24. ASSUME NEW i \in Numa, Sleep(i) PROVE RanInv'
  BY <1>24 DEF Sleep
<1>25. ASSUME NEW i \in Numa, SpuriousWakeup(i) PROVE RanInv'
  BY <1>25 DEF SpuriousWakeup
<1>26. QED
  BY <1>1, <1>2, <1>3, <1>4, <1>5, <1>6, <1>7, <1>8, <1>9, <1>10,
     <1>11, <1>12, <1>13, <1>14, <1>15, <1>16, <1>17, <1>18, <1>19,
     <1>20, <1>21, <1>22, <1>23, <1>24, <1>25
     DEF Next, OwnerStep, WorkerStep, Destroyed

-----------------------------------------------------------------------------
THEOREM Invariance == Spec => []IInv
<1>1. Init => IInv
  BY TypeInit, BarrierInit, StatusInit, RanInit DEF IInv
<1>2. IInv /\ [Next]_vars => IInv'
  BY TypeNext, BarrierNext, StatusNext, RanNext DEF IInv
<1>3. QED BY <1>1, <1>2, PTL DEF Spec

(* No status word is dereferenced before its worker has created it.        *)
THEOREM NoNullStatusEver == Spec => []NoNullStatus
<1>1. IInv => NoNullStatus
  BY Created DEF IInv, NoNullStatus, StatusInv, Starting
<1>2. QED BY <1>1, Invariance, PTL

(* Between jobs no worker is in compute_func or about to enter it.         *)
THEOREM QuiescentAlways == Spec => []Quiescent
<1>1. IInv => Quiescent
  BY DEF IInv, Quiescent, StatusInv, InJob
<1>2. QED BY <1>1, Invariance, PTL

(* do_numa_job runs compute_func exactly once for every node before it     *)
(* returns: each step is one of ParallelFor, or changes nothing it sees.   *)
THEOREM JobExactlyOnce == Spec => ImplementsParallelFor
<1>1. Init => PF!Init
  BY NumaAssumption DEF Init, PF!Init, PF!Task, InJob, Numa
<1>2. IInv /\ [Next]_vars => [PF!Next]_PF!vars
  <2> SUFFICES ASSUME IInv, [Next]_vars PROVE PF!Next \/ UNCHANGED PF!vars
    BY DEF PF!vars
  <2> USE NumaAssumption DEF IInv, TypeInv, PF!vars
  <2>a. PF!Task = Numa
    BY DEF PF!Task, Numa
  <2>1. CASE StartJob
    <3>1. cpc \notin InJob /\ cpc' \in InJob /\ ran' = [i \in Numa |-> 0]
      BY <2>1 DEF StartJob, InJob
    <3>2. PF!Call
      BY <2>a, <3>1 DEF PF!Call
    <3>3. QED BY <3>2 DEF PF!Next
  <2>r. ASSUME NEW i \in Numa, ran[i] = 0, ran' = [ran EXCEPT ![i] = 1],
               cpc \in InJob, cpc' \in InJob
        PROVE PF!Next
    <3>1. i < NumaCount
      BY DEF Numa
    <3>2. PF!Run
      BY <2>a, <2>r, <3>1 DEF PF!Run
    <3>3. QED BY <3>2 DEF PF!Next
  <2>u. ASSUME ran' = ran, cpc \in InJob <=> cpc' \in InJob
        PROVE UNCHANGED PF!vars
    BY <2>u
  <2>2. CASE CallerCompute
    <3>1. cpc \in InJob /\ cpc' \in InJob
      BY <2>2 DEF CallerCompute, InJob
    <3>2. CASE me_numa = Nobody
      <4>1. ran' = ran
        BY <2>2, <3>2 DEF CallerCompute
      <4>2. QED BY <2>u, <3>1, <4>1
    <3>3. CASE me_numa # Nobody
      <4>1. me_numa \in Numa /\ ran[me_numa] = 0
        <5>1. me_numa \in Numa /\ ran[me_numa] \in {0, 1} /\ ran[me_numa] # 1
          BY <2>2, <3>3, <3>1 DEF CallerCompute, RanInv
        <5>2. QED BY <5>1
      <4>2. ran' = [ran EXCEPT ![me_numa] = 1]
        BY <2>2, <3>3, <4>1 DEF CallerCompute
      <4>3. QED BY <2>r, <3>1, <4>1, <4>2
    <3>4. QED BY <3>2, <3>3
  <2>3. CASE Return
    <3>1. ASSUME NEW i \in Numa PROVE ran[i] = 1
      <4>1. ~(i >= cursor)
        BY <2>3 DEF Return, Numa
      <4>2. CASE i = me_numa
        BY <2>3, <4>2 DEF Return, RanInv, InJob
      <4>3. CASE i # me_numa
        BY <2>3, <4>1, <4>3 DEF Return, RanInv, StatusInv, Published, InJob
      <4>4. QED BY <4>2, <4>3
    <3>2. cpc \in InJob /\ cpc' \notin InJob /\ ran' = ran
      BY <2>3 DEF Return, InJob
    <3>3. PF!Return
      BY <2>a, <3>1, <3>2 DEF PF!Return
    <3>4. QED BY <3>3 DEF PF!Next
  <2>4. ASSUME NEW i \in Numa, Compute(i) PROVE PF!Next
    <3>1. ran[i] = 0 /\ cpc \in InJob
      BY <2>4 DEF Compute, StatusInv, RanInv, InJob
    <3>2. ran' = [ran EXCEPT ![i] = 1] /\ cpc' = cpc
      BY <2>4, <3>1 DEF Compute
    <3>3. QED BY <2>r, <3>1, <3>2
  <2>5. CASE Spawn \/ ArriveOwner \/ PassOwner \/ DtorBegin
    BY <2>u, <2>5 DEF Spawn, ArriveOwner, PassOwner, DtorBegin, InJob
  <2>6. CASE Publish \/ Notify \/ SkipMine \/ WaitFor
    BY <2>u, <2>6 DEF Publish, Notify, SkipMine, WaitFor, InJob
  <2>7. CASE DtorStore \/ DtorNotify \/ DtorJoin
    BY <2>u, <2>7 DEF DtorStore, DtorNotify, DtorJoin, InJob
  <2>8. ASSUME NEW i \in Numa,
               Create(i) \/ Arrive(i) \/ Pass(i) \/ Obey(i) \/ StoreWaiting(i)
                 \/ Lock(i) \/ Check(i) \/ Sleep(i) \/ SpuriousWakeup(i)
        PROVE UNCHANGED PF!vars
    BY <2>u, <2>8 DEF Create, Arrive, Pass, Obey, StoreWaiting, Lock, Check, Sleep,
                SpuriousWakeup
  <2>9. CASE UNCHANGED vars
    BY <2>u, <2>9 DEF vars
  <2>10. QED
    BY <2>1, <2>2, <2>3, <2>4, <2>5, <2>6, <2>7, <2>8, <2>9
       DEF Next, OwnerStep, WorkerStep, Destroyed
<1>3. QED BY <1>1, <1>2, Invariance, PTL DEF Spec, ImplementsParallelFor, PF!Spec

-----------------------------------------------------------------------------
(* DenseKVCache.  The argument, in the order of what follows:              *)
(*   - sums of bags over finite sets may be taken in any order;            *)
(*   - task_offsets_ cut a job into tasks (Cut) such that the tasks of a   *)
(*     head are consecutive and their blocks share out its tokens;         *)
(*   - the cache holds each token where block_table says (CacheHolds), so  *)
(*     that a complete task yields exactly its tokens (PartialIs);         *)
(*   - hence no step of a thread changes what a head's result, its         *)
(*     accumulators, its slots and its tasks to come add up to: Conserved; *)
(*   - when the threads are back only the result and the slots are left,   *)
(*     and the reduction adds up the slots of each query head once.        *)

(* Every nonempty set of natural numbers has a least element. *)
LEMMA LeastNat ==
  ASSUME NEW T \in SUBSET Nat, T # {}
  PROVE  \E x \in T : \A y \in T : x <= y
<1> DEFINE Less == {ss \in Nat \X Nat : ss[1] < ss[2]}
<1>1. IsWellFoundedOn(Less, Nat)
  BY Zenon, NatLessThanWellFounded DEF OpToRel
<1>2. \A x, y \in Nat : x < y => <<x, y>> \in Less
  OBVIOUS
<1> HIDE DEF Less
<1>3. PICK x \in T : \A y \in T : ~ (<<y, x>> \in Less)
  BY <1>1, WFMin
<1>4. \A y \in T : x \in Nat /\ y \in Nat /\ ~ (y < x)
  BY <1>2, <1>3
<1>5. QED BY <1>4

(* Induction up to n, stated for a set: its first element outside would be *)
(* the least one.                                                          *)
LEMMA UpTo ==
  ASSUME NEW n \in Nat, NEW S, 0 \in S, \A k \in 1..n : k - 1 \in S => k \in S
  PROVE  \A k \in 0..n : k \in S
<1> DEFINE Out == (0..n) \ S
<1>1. ASSUME Out # {} PROVE FALSE
  <2>1. Out \in SUBSET Nat
    OBVIOUS
  <2>2. PICK m \in Out : \A y \in Out : m <= y
    <3> HIDE DEF Out
    <3>1. QED BY <1>1, <2>1, LeastNat
  <2>3. m \in 1..n /\ m - 1 \in 0..n
    BY <2>2
  <2>4. m - 1 \notin Out
    BY <2>2, <2>3
  <2>5. QED BY <2>2, <2>3, <2>4
<1>2. QED BY <1>1

-----------------------------------------------------------------------------
(* Sums of bags *)

LEMMA BagAdd ==
  ASSUME NEW A, NEW B, IsABag(A), IsABag(B)
  PROVE  /\ IsABag(A (+) B) /\ A (+) B = B (+) A /\ EmptyBag (+) A = A
<1>1. /\ A \in [DOMAIN A -> {n \in Nat : n > 0}] /\ \A e \in DOMAIN A : A[e] \in Nat /\ A[e] > 0
      /\ B \in [DOMAIN B -> {n \in Nat : n > 0}] /\ \A e \in DOMAIN B : B[e] \in Nat /\ B[e] > 0
  BY DEF IsABag
<1>2. IsABag(A (+) B)
  <2> DEFINE C == A (+) B
  <2>1. /\ DOMAIN C = DOMAIN A \cup DOMAIN B
        /\ C = [e \in DOMAIN A \cup DOMAIN B |-> C[e]]
        /\ \A e \in DOMAIN A \cup DOMAIN B : C[e] \in Nat /\ C[e] > 0
    BY <1>1 DEF (+)
  <2> HIDE DEF C
  <2>2. IsABag(C)
    BY <2>1 DEF IsABag
  <2>3. QED BY <2>2 DEF C
<1>3. A (+) B = B (+) A
  BY <1>1 DEF (+)
<1>4. EmptyBag (+) A = A
  BY <1>1 DEF (+), EmptyBag, SetToBag
<1>5. QED BY <1>2, <1>3, <1>4

LEMMA BagSwap ==
  ASSUME NEW A, NEW B, NEW C, IsABag(A), IsABag(B), IsABag(C)
  PROVE  A (+) (B (+) C) = B (+) (A (+) C) /\ (A (+) B) (+) C = A (+) (B (+) C)
<1>1. /\ \A e \in DOMAIN A : A[e] \in Nat /\ A[e] > 0
      /\ \A e \in DOMAIN B : B[e] \in Nat /\ B[e] > 0
      /\ \A e \in DOMAIN C : C[e] \in Nat /\ C[e] > 0
  BY DEF IsABag
<1>2. A (+) (B (+) C) = B (+) (A (+) C)
  BY <1>1 DEF (+)
<1>3. (A (+) B) (+) C = A (+) (B (+) C)
  BY <1>1 DEF (+)
<1>4. QED BY <1>2, <1>3

LEMMA SetBag ==
  ASSUME NEW A PROVE IsABag(SetToBag(A)) /\ IsABag(EmptyBag)
BY DEF IsABag, SetToBag, EmptyBag

LEMMA BagOfUnion ==
  ASSUME NEW A, NEW B, A \cap B = {}
  PROVE  SetToBag(A) (+) SetToBag(B) = SetToBag(A \cup B)
BY DEF SetToBag, (+)

(* G adds up the bags of f over each subset of S, in whatever order. *)
IsSum(G, f, S) ==
  /\ G = [s \in SUBSET S |-> G[s]] /\ G[{}] = EmptyBag
  /\ \A s \in SUBSET S : \A x \in s : G[s] = f[x] (+) G[s \ {x}]

(* The bags of f over subsets of S, each added up from a chosen element *)
Some(s) == CHOOSE x \in s : TRUE
Chosen(g, f, S) ==
  g = [s \in SUBSET S |-> IF s = {} THEN EmptyBag ELSE f[Some(s)] (+) g[s \ {Some(s)}]]

LEMMA SumChosen ==
  ASSUME NEW f, NEW S
  PROVE  Sum(f, S) = (CHOOSE g : Chosen(g, f, S))[S]
BY Zenon DEF Sum, Chosen, Some, Fn!FoldFunctionOnSet, Fn!MapThenFoldSet

LEMMA SumIs ==
  ASSUME NEW S, IsFiniteSet(S), NEW f, NEW G, IsSum(G, f, S)
  PROVE  Sum(f, S) = G[S]
<1> DEFINE h == CHOOSE g : Chosen(g, f, S)
           c == Cardinality(S)
           T == {m \in 0..c : \A s \in SUBSET S : Cardinality(s) = m => h[s] = G[s]}
<1>0. /\ G = [s \in SUBSET S |-> G[s]] /\ G[{}] = EmptyBag
      /\ \A s \in SUBSET S : \A x \in s : G[s] = f[x] (+) G[s \ {x}]
  BY DEF IsSum
<1>1. Sum(f, S) = h[S]
  BY SumChosen
<1>2. \A s : s # {} => Some(s) \in s
  BY DEF Some
<1>3. Chosen(G, f, S)
  <2>1. ASSUME NEW s \in SUBSET S
        PROVE  G[s] = IF s = {} THEN EmptyBag ELSE f[Some(s)] (+) G[s \ {Some(s)}]
    BY <1>0, <1>2
  <2>2. QED BY <1>0, <2>1 DEF Chosen
<1>4. Chosen(h, f, S)
  BY <1>3
<1> HIDE DEF h
<1>5. \A s \in SUBSET S : h[s] = IF s = {} THEN EmptyBag ELSE f[Some(s)] (+) h[s \ {Some(s)}]
  BY <1>4 DEF Chosen
<1>6. c \in Nat
  BY FS_CardinalityType
<1>7. \A s \in SUBSET S : IsFiniteSet(s) /\ Cardinality(s) \in Nat
  BY FS_Subset, FS_CardinalityType
<1>8. 0 \in T
  <2>1. ASSUME NEW s \in SUBSET S, Cardinality(s) = 0 PROVE h[s] = G[s]
    <3>1. s = {}
      BY <1>7, <2>1, FS_EmptySet
    <3>2. QED BY <1>0, <1>5, <3>1
  <2>2. 0 \in 0..c
    BY <1>6
  <2> HIDE DEF c
  <2>3. QED BY ONLY <2>1, <2>2, Zenon
<1>9. ASSUME NEW m \in 1..c, m - 1 \in T PROVE m \in T
  <2>1. ASSUME NEW s \in SUBSET S, Cardinality(s) = m PROVE h[s] = G[s]
    <3>1. s # {}
      <4>1. Cardinality(s) # 0
        BY <1>6, <2>1
      <4>2. QED BY ONLY <4>1, FS_EmptySet
    <3> DEFINE x == Some(s)
    <3>2. x \in s
      BY <1>2, <3>1
    <3> HIDE DEF x
    <3>3. s \ {x} \in SUBSET S /\ Cardinality(s \ {x}) = m - 1
      BY <1>7, <2>1, <3>2, FS_RemoveElement
    <3>4. h[s \ {x}] = G[s \ {x}]
      BY <1>9, <3>3
    <3>5. h[s] = f[x] (+) h[s \ {x}]
      BY <1>5, <3>1 DEF x
    <3>6. G[s] = f[x] (+) G[s \ {x}]
      BY <1>0, <3>2
    <3>7. QED BY <3>4, <3>5, <3>6
  <2>2. m \in 0..c
    BY <1>6
  <2>3. QED BY <2>1, <2>2
<1>10. c \in T
  <2> HIDE DEF T, c
  <2>1. \A m \in 0..c : m \in T
    BY ONLY <1>6, <1>8, <1>9, UpTo
  <2>2. QED BY ONLY <1>6, <2>1
<1>11. QED BY <1>1, <1>10

(* A function that adds up by chosen elements exists, by induction on the  *)
(* size of the subsets.                                                    *)
LEMMA ChosenExists ==
  ASSUME NEW S, IsFiniteSet(S), NEW f
  PROVE  \E g : Chosen(g, f, S)
<1> DEFINE c == Cardinality(S)
           Next1(g, s) == IF s = {} THEN EmptyBag ELSE f[Some(s)] (+) g[s \ {Some(s)}]
           Upto(m, g) == \A s \in SUBSET S : Cardinality(s) <= m => g[s] = Next1(g, s)
           T == {m \in 0..c : \E g : Upto(m, g)}
<1>1. c \in Nat /\ \A s \in SUBSET S : IsFiniteSet(s) /\ Cardinality(s) \in Nat /\ Cardinality(s) <= c
  BY FS_Subset, FS_CardinalityType
<1>2. \A s : s # {} => Some(s) \in s
  BY DEF Some
<1>3. 0 \in T
  <2>1. Upto(0, [s \in SUBSET S |-> EmptyBag])
    <3>1. \A s \in SUBSET S : Cardinality(s) <= 0 => s = {}
      BY <1>1, FS_EmptySet
    <3>2. QED BY <3>1
  <2>2. 0 \in 0..c
    BY <1>1
  <2>3. \E g : Upto(0, g)
    BY <2>1
  <2>4. QED BY ONLY <2>2, <2>3
<1>4. ASSUME NEW m \in 1..c, m - 1 \in T PROVE m \in T
  <2>1. PICK g : Upto(m - 1, g)
    BY <1>4
  <2> DEFINE w == [s \in SUBSET S |-> IF Cardinality(s) = m THEN Next1(g, s) ELSE g[s]]
  <2>2. ASSUME NEW s \in SUBSET S, Cardinality(s) <= m PROVE w[s] = Next1(w, s)
    <3> DEFINE r == s \ {Some(s)}
    <3>1. w[s] = Next1(g, s)
      <4>1. CASE Cardinality(s) = m
        BY <4>1
      <4>2. CASE Cardinality(s) # m
        <5>1. Cardinality(s) <= m - 1
          BY <1>1, <2>2, <4>2
        <5>2. g[s] = Next1(g, s)
          BY <2>1, <5>1
        <5>3. QED BY <4>2, <5>2
      <4>3. QED BY <4>1, <4>2
    <3>2. s # {} => w[r] = g[r]
      <4>1. SUFFICES ASSUME s # {} PROVE w[r] = g[r]
        OBVIOUS
      <4>2. Some(s) \in s
        BY <1>2, <4>1
      <4>3. r \in SUBSET S /\ Cardinality(r) = Cardinality(s) - 1
        BY <1>1, <4>2, FS_RemoveElement
      <4>4. Cardinality(r) # m
        BY <1>1, <2>2, <4>3
      <4> HIDE DEF r
      <4>5. QED BY <4>3, <4>4
    <3> HIDE DEF w
    <3>3. QED BY <3>1, <3>2
  <2> HIDE DEF w
  <2>3. Upto(m, w)
    BY <2>2
  <2>4. \E g1 : Upto(m, g1)
    BY <2>3
  <2>5. m \in 0..c
    BY <1>1
  <2>6. QED BY ONLY <2>4, <2>5
<1>5. c \in T
  <2> HIDE DEF T, c
  <2>1. \A m \in 0..c : m \in T
    BY ONLY <1>1, <1>3, <1>4, UpTo
  <2>2. QED BY ONLY <1>1, <2>1
<1>6. PICK g : Upto(c, g)
  BY <1>5
<1> DEFINE w == [s \in SUBSET S |-> g[s]]
<1>7. ASSUME NEW s \in SUBSET S PROVE w[s] = Next1(w, s)
  <2>1. g[s] = Next1(g, s)
    BY <1>1, <1>6
  <2>2. s \ {Some(s)} \in SUBSET S
    OBVIOUS
  <2>3. QED BY <2>1, <2>2
<1>8. Chosen(w, f, S)
  BY <1>7 DEF Chosen
<1>9. QED BY <1>8

(* Bags may be added up in any order. *)
LEMMA SumExists ==
  ASSUME NEW S, IsFiniteSet(S), NEW f, \A x \in S : IsABag(f[x])
  PROVE  \E G : IsSum(G, f, S) /\ \A s \in SUBSET S : IsABag(G[s])
<1>1. PICK g : Chosen(g, f, S)
  BY ChosenExists
<1> DEFINE c == Cardinality(S)
           Good(s) == IsABag(g[s]) /\ \A x \in s : g[s] = f[x] (+) g[s \ {x}]
           T == {m \in 0..c : \A s \in SUBSET S : Cardinality(s) <= m => Good(s)}
<1>2. c \in Nat /\ \A s \in SUBSET S : IsFiniteSet(s) /\ Cardinality(s) \in Nat /\ Cardinality(s) <= c
  BY FS_Subset, FS_CardinalityType
<1>3. \A s : s # {} => Some(s) \in s
  BY DEF Some
<1>4. /\ g = [s \in SUBSET S |-> g[s]] /\ g[{}] = EmptyBag
      /\ \A s \in SUBSET S : s # {} => g[s] = f[Some(s)] (+) g[s \ {Some(s)}]
  BY <1>1 DEF Chosen
<1>5. 0 \in T
  <2>1. \A s \in SUBSET S : Cardinality(s) <= 0 => s = {}
    BY <1>2, FS_EmptySet
  <2>2. Good({})
    BY <1>4, SetBag
  <2>3. 0 \in 0..c
    BY <1>2
  <2> HIDE DEF Good
  <2>4. QED BY <2>1, <2>2, <2>3
<1>6. ASSUME NEW m \in 1..c, m - 1 \in T PROVE m \in T
  <2>1. \A s \in SUBSET S : Cardinality(s) <= m - 1 => Good(s)
    BY <1>6
  <2>2. ASSUME NEW s \in SUBSET S, Cardinality(s) <= m, s # {} PROVE Good(s)
    <3> DEFINE y == Some(s)
    <3>1. y \in s
      BY <1>3, <2>2
    <3>2. g[s] = f[y] (+) g[s \ {y}]
      BY <1>4, <2>2
    <3> HIDE DEF y
    <3>3. \A x \in s : s \ {x} \in SUBSET S /\ Cardinality(s \ {x}) <= m - 1
      <4> TAKE x \in s
      <4>1. Cardinality(s \ {x}) = Cardinality(s) - 1
        BY <1>2, FS_RemoveElement
      <4>2. QED BY <1>2, <2>2, <4>1
    <3>4. \A x \in s : Good(s \ {x}) /\ x \in S
      BY <2>1, <3>3
    <3>5. IsABag(g[s])
      BY <3>1, <3>2, <3>4, BagAdd
    <3>6. ASSUME NEW x \in s PROVE g[s] = f[x] (+) g[s \ {x}]
      <4>1. CASE x = y
        BY <3>2, <4>1
      <4>2. CASE x # y
        <5> DEFINE r == s \ {x, y}
        <5>1. x \in s \ {y} /\ y \in s \ {x} /\ (s \ {y}) \ {x} = r /\ (s \ {x}) \ {y} = r
          BY <3>1, <4>2
        <5>2. g[s \ {y}] = f[x] (+) g[r]
          BY <3>1, <3>4, <5>1
        <5>3. g[s \ {x}] = f[y] (+) g[r]
          BY <3>4, <5>1
        <5>4. r \in SUBSET S /\ Cardinality(r) <= m - 1
          <6>1. Cardinality((s \ {y}) \ {x}) = Cardinality(s \ {y}) - 1
            <7> DEFINE u == s \ {y}
            <7>1. IsFiniteSet(u) /\ x \in u
              BY <1>2, <3>1, <3>3, <5>1
            <7> HIDE DEF u
            <7>2. Cardinality(u \ {x}) = Cardinality(u) - 1
              BY <7>1, FS_RemoveElement
            <7>3. QED BY <7>2 DEF u
          <6>2. QED BY <1>2, <3>1, <3>3, <5>1, <6>1
        <5>5. IsABag(g[r]) /\ IsABag(f[x]) /\ IsABag(f[y])
          BY <2>1, <3>1, <3>4, <5>4
        <5> HIDE DEF r
        <5>6. f[y] (+) (f[x] (+) g[r]) = f[x] (+) (f[y] (+) g[r])
          BY <5>5, BagSwap
        <5>7. QED BY <3>2, <5>2, <5>3, <5>6
      <4>3. QED BY <4>1, <4>2
    <3>7. QED BY <3>5, <3>6
  <2>3. Good({})
    BY <1>4, SetBag
  <2>4. m \in 0..c
    BY <1>2
  <2> HIDE DEF Good
  <2>5. QED BY <2>2, <2>3, <2>4
<1>7. c \in T
  <2> HIDE DEF T, c
  <2>1. \A m \in 0..c : m \in T
    BY ONLY <1>2, <1>5, <1>6, UpTo
  <2>2. QED BY ONLY <1>2, <2>1
<1>8. \A s \in SUBSET S : Good(s)
  BY <1>2, <1>7
<1>9. IsSum(g, f, S)
  BY <1>4, <1>8 DEF IsSum
<1>10. QED BY <1>8, <1>9

LEMMA SumLaws ==
  ASSUME NEW S, IsFiniteSet(S), NEW f, \A x \in S : IsABag(f[x])
  PROVE  /\ IsABag(Sum(f, S))
         /\ \A x \in S : Sum(f, S) = f[x] (+) Sum(f, S \ {x})
<1>1. PICK G : IsSum(G, f, S) /\ \A s \in SUBSET S : IsABag(G[s])
  BY SumExists
<1>2. ASSUME NEW s \in SUBSET S PROVE Sum(f, s) = G[s]
  <2> DEFINE H == [r \in SUBSET s |-> G[r]]
  <2>1. IsFiniteSet(s)
    BY FS_Subset
  <2>2. IsSum(H, f, s)
    <3>1. /\ G[{}] = EmptyBag
          /\ \A r \in SUBSET S : \A x \in r : G[r] = f[x] (+) G[r \ {x}]
      BY <1>1 DEF IsSum
    <3>2. \A r \in SUBSET s : r \in SUBSET S /\ H[r] = G[r] /\ \A x \in r : r \ {x} \in SUBSET s
      OBVIOUS
    <3>3. H = [r \in SUBSET s |-> H[r]] /\ {} \in SUBSET s
      OBVIOUS
    <3> HIDE DEF H
    <3>4. ASSUME NEW r \in SUBSET s, NEW x \in r PROVE H[r] = f[x] (+) H[r \ {x}]
      <4>1. H[r] = G[r] /\ H[r \ {x}] = G[r \ {x}] /\ r \in SUBSET S
        BY <3>2
      <4>2. G[r] = f[x] (+) G[r \ {x}]
        BY <3>1, <4>1
      <4>3. QED BY ONLY <4>1, <4>2
    <3>5. QED BY <3>1, <3>2, <3>3, <3>4 DEF IsSum
  <2>3. Sum(f, s) = H[s]
    <3> HIDE DEF H
    <3>1. QED BY <2>1, <2>2, SumIs
  <2>4. QED BY <2>3
<1>3. S \in SUBSET S /\ \A x \in S : S \ {x} \in SUBSET S
  OBVIOUS
<1>4. \A x \in S : G[S] = f[x] (+) G[S \ {x}]
  BY <1>1, <1>3 DEF IsSum
<1>5. QED BY <1>1, <1>2, <1>3, <1>4

LEMMA SumEmpty ==
  ASSUME NEW f PROVE Sum(f, {}) = EmptyBag
<1>1. IsFiniteSet({}) /\ \A x \in {} : IsABag(f[x])
  BY FS_EmptySet
<1>2. PICK G : IsSum(G, f, {})
  BY <1>1, SumExists
<1>3. QED BY <1>1, <1>2, SumIs DEF IsSum

LEMMA SumSame ==
  ASSUME NEW S, IsFiniteSet(S), NEW f, NEW g,
         \A x \in S : IsABag(f[x]), \A x \in S : g[x] = f[x]
  PROVE  Sum(g, S) = Sum(f, S)
<1>1. PICK G : IsSum(G, f, S)
  BY SumExists
<1>2. IsSum(G, g, S)
  <2>1. /\ G = [s \in SUBSET S |-> G[s]] /\ G[{}] = EmptyBag
        /\ \A s \in SUBSET S : \A x \in s : G[s] = f[x] (+) G[s \ {x}]
    BY <1>1 DEF IsSum
  <2>2. ASSUME NEW s \in SUBSET S, NEW x \in s PROVE G[s] = g[x] (+) G[s \ {x}]
    <3>1. G[s] = f[x] (+) G[s \ {x}] /\ g[x] = f[x]
      BY <2>1
    <3>2. QED BY ONLY <3>1
  <2>3. QED BY <2>1, <2>2 DEF IsSum
<1>3. QED BY <1>1, <1>2, SumIs

(* One more bag *)
LEMMA SumAdd ==
  ASSUME NEW S, IsFiniteSet(S), NEW f, NEW x, x \notin S, NEW g,
         \A y \in S : IsABag(f[y]), IsABag(g[x]), \A y \in S : g[y] = f[y]
  PROVE  Sum(g, S \cup {x}) = g[x] (+) Sum(f, S)
<1> DEFINE R == S \cup {x}
<1>1. IsFiniteSet(R) /\ R \ {x} = S /\ x \in R
  BY FS_AddElement
<1>2. \A y \in R : IsABag(g[y])
  OBVIOUS
<1>3. Sum(g, R) = g[x] (+) Sum(g, R \ {x})
  <2> HIDE DEF R
  <2>1. QED BY <1>1, <1>2, SumLaws
<1>4. Sum(g, S) = Sum(f, S)
  BY SumSame
<1>5. QED BY <1>1, <1>3, <1>4

(* Sets that are apart *)
LEMMA SumSets ==
  ASSUME NEW S, IsFiniteSet(S), NEW f, NEW A,
         \A x \in S : f[x] = SetToBag(A[x]),
         \A x, y \in S : x # y => A[x] \cap A[y] = {}
  PROVE  Sum(f, S) = SetToBag(UNION {A[x] : x \in S})
<1> DEFINE G == [s \in SUBSET S |-> SetToBag(UNION {A[x] : x \in s})]
<1>1. G = [s \in SUBSET S |-> G[s]]
  OBVIOUS
<1>2. G[{}] = EmptyBag
  <2>1. UNION {A[x] : x \in {}} = {} /\ {} \in SUBSET S
    OBVIOUS
  <2>2. QED BY <2>1 DEF EmptyBag
<1>3. ASSUME NEW s \in SUBSET S, NEW x \in s PROVE G[s] = f[x] (+) G[s \ {x}]
  <2> DEFINE U == UNION {A[y] : y \in s \ {x}}
  <2>1. A[x] \cap U = {}
    OBVIOUS
  <2>2. A[x] \cup U = UNION {A[y] : y \in s}
    OBVIOUS
  <2>3. G[s] = SetToBag(UNION {A[y] : y \in s}) /\ G[s \ {x}] = SetToBag(U)
    OBVIOUS
  <2> HIDE DEF U, G
  <2>4. SetToBag(A[x]) (+) SetToBag(U) = SetToBag(A[x] \cup U)
    BY <2>1, BagOfUnion
  <2>5. f[x] = SetToBag(A[x])
    OBVIOUS
  <2>6. QED BY <2>2, <2>3, <2>4, <2>5
<1>4. IsSum(G, f, S)
  <2> HIDE DEF G
  <2>1. QED BY <1>1, <1>2, <1>3 DEF IsSum
<1>5. Sum(f, S) = G[S]
  <2> HIDE DEF G
  <2>1. QED BY <1>4, SumIs
<1>6. QED BY <1>5

-----------------------------------------------------------------------------
(* How a job is cut into tasks *)

LEMMA CeilDivIs ==
  ASSUME NEW n \in Nat, NEW d \in Nat \ {0}
  PROVE  /\ CeilDiv(n, d) \in Nat /\ n <= CeilDiv(n, d) * d
         /\ \A c \in 0..(CeilDiv(n, d) - 1) : c * d < n
         /\ \A j \in 0..(n - 1) : j \div d \in 0..(CeilDiv(n, d) - 1)
<1> DEFINE q == n \div d
           r == n % d
           C == CeilDiv(n, d)
<1>1. q \in Nat /\ r \in 0..(d - 1) /\ n = d * q + r
  OBVIOUS
<1>2. C = IF r # 0 THEN q + 1 ELSE q
  BY <1>1 DEF CeilDiv
<1> HIDE DEF q, r, C
<1>3. C \in Nat
  BY <1>1, <1>2
<1>4. d * q \in Nat /\ (q + 1) * d = d * q + d /\ q * d = d * q
  BY <1>1
<1>5. n <= C * d
  BY <1>1, <1>2, <1>4
<1>6. ASSUME NEW c \in 0..(C - 1) PROVE c * d < n
  <2>1. c \in Nat /\ c <= q
    BY <1>1, <1>2, <1>3
  <2>2. c * d <= q * d /\ c * d \in Nat
    BY <1>1, <2>1
  <2>3. CASE c = q
    <3>1. r # 0
      BY <1>1, <1>2, <2>3
    <3>2. QED BY <1>1, <1>4, <2>3, <3>1
  <2>4. CASE c # q
    <3>1. (c + 1) * d <= q * d /\ (c + 1) * d = c * d + d
      <4>1. c + 1 <= q
        BY <1>1, <2>1, <2>4
      <4>2. QED BY <1>1, <2>1, <4>1
    <3>2. QED BY <1>1, <1>4, <2>2, <3>1
  <2>5. QED BY <2>3, <2>4
<1>7. ASSUME NEW j \in 0..(n - 1) PROVE j \div d \in 0..(C - 1)
  <2> DEFINE v == j \div d
  <2>1. v \in Nat /\ d * v <= j /\ j < n
    OBVIOUS
  <2> HIDE DEF v
  <2>2. v < C
    <3>1. SUFFICES ASSUME C <= v PROVE FALSE
      BY <1>3, <2>1
    <3>2. C * d <= v * d /\ v * d = d * v
      BY <1>3, <2>1, <3>1
    <3> DEFINE a == C * d
               e == d * v
    <3>3. a \in Nat /\ e \in Nat
      BY <1>3, <2>1
    <3> HIDE DEF a, e
    <3>4. n <= a /\ a <= e /\ e <= j
      BY <1>5, <2>1, <3>2 DEF a, e
    <3>5. QED BY ONLY <2>1, <3>3, <3>4, j \in 0..(n - 1), n \in Nat
  <2>3. QED BY <1>3, <2>1, <2>2 DEF v
<1>8. QED BY <1>3, <1>5, <1>6, <1>7 DEF C

LEMMA CeilDivMono ==
  ASSUME NEW n \in Nat, NEW m \in Nat, n <= m, NEW d \in Nat \ {0}
  PROVE  CeilDiv(n, d) <= CeilDiv(m, d)
<1> DEFINE C == CeilDiv(n, d)
           D == CeilDiv(m, d)
<1>1. C \in Nat /\ D \in Nat /\ m <= D * d
  BY CeilDivIs
<1>2. \A c \in 0..(C - 1) : c * d < n
  BY CeilDivIs
<1> HIDE DEF C, D
<1>3. SUFFICES ASSUME D < C PROVE FALSE
  BY <1>1 DEF C, D
<1>4. D \in 0..(C - 1)
  BY <1>1, <1>3
<1>5. D * d < n /\ D * d \in Nat
  BY <1>1, <1>2, <1>4
<1>6. QED BY <1>1, <1>5

LEMMA Running ==
  ASSUME NEW n \in Nat, NEW off, NEW g, NEW most \in Nat, off[0] = 0,
         \A b \in 0..(n - 1) : g[b] \in 0..most /\ off[b + 1] = off[b] + g[b]
  PROVE  /\ \A b \in 0..n : off[b] \in Nat /\ off[b] <= b * most
         /\ \A b \in 0..n : \A a \in 0..b : off[a] <= off[b]
<1> DEFINE T == {m \in 0..n : off[m] \in Nat /\ off[m] <= m * most /\ \A a \in 0..m : off[a] \in Nat /\ off[a] <= off[m]}
<1>1. 0 \in T
  <2>1. 0 \in 0..n /\ 0 <= 0 * most /\ \A a \in 0..0 : a = 0
    OBVIOUS
  <2>2. QED BY <2>1
<1>2. ASSUME NEW m \in 1..n, m - 1 \in T PROVE m \in T
  <2>1. m - 1 \in 0..(n - 1) /\ (m - 1) + 1 = m /\ m \in 0..n /\ m \in Nat
    OBVIOUS
  <2>2. g[m - 1] \in 0..most /\ off[m] = off[m - 1] + g[m - 1]
    BY <2>1
  <2>3. /\ off[m - 1] \in Nat /\ off[m - 1] <= (m - 1) * most
        /\ \A a \in 0..(m - 1) : off[a] \in Nat /\ off[a] <= off[m - 1]
    BY <1>2
  <2>4. (m - 1) * most + most = m * most /\ (m - 1) * most \in Nat
    BY <2>1
  <2>5. off[m] \in Nat /\ off[m] <= m * most /\ off[m - 1] <= off[m]
    BY <2>2, <2>3, <2>4
  <2>6. ASSUME NEW a \in 0..m PROVE off[a] \in Nat /\ off[a] <= off[m]
    <3>1. CASE a = m
      BY <2>5, <3>1
    <3>2. CASE a # m
      <4>1. a \in 0..(m - 1)
        BY <2>1, <3>2
      <4>2. off[a] <= off[m - 1] /\ off[a] \in Nat
        BY <2>3, <4>1
      <4>3. QED BY <2>3, <2>5, <4>2
    <3>3. QED BY <3>1, <3>2
  <2>7. QED BY <2>1, <2>5, <2>6
<1>3. \A m \in 0..n : m \in T
  <2> HIDE DEF T
  <2>1. QED BY ONLY n \in Nat, <1>1, <1>2, UpTo
<1>4. QED BY <1>3

(* Tasks cut into slices *)
LEMMA Slices ==
  ASSUME NEW N \in Nat \ {0}, NEW A \in Nat
  PROVE  /\ \A a \in 0..(A - 1), s \in 0..(N - 1) :
              a * N + s \in 0..(N * A - 1) /\ (a * N + s) \div N = a /\ (a * N + s) % N = s
         /\ \A k \in 0..(N * A - 1) :
              k \div N \in 0..(A - 1) /\ k % N \in 0..(N - 1) /\ (k \div N) * N + (k % N) = k
<1>1. ASSUME NEW a \in 0..(A - 1), NEW s \in 0..(N - 1)
      PROVE  a * N + s \in 0..(N * A - 1) /\ (a * N + s) \div N = a /\ (a * N + s) % N = s
  <2>1. a * N \in Nat /\ (a + 1) * N = a * N + N /\ A * N \in Nat
    OBVIOUS
  <2>2. (a + 1) * N <= A * N
    OBVIOUS
  <2>3. N * A = A * N
    OBVIOUS
  <2>4. a * N + s \in 0..(N * A - 1)
    BY <2>1, <2>2, <2>3
  <2>5. (a * N + s) \div N = a /\ (a * N + s) % N = s
    <3> DEFINE v == a * N + s
               q == v \div N
               r == v % N
    <3>1. v \in Nat /\ q \in Nat /\ r \in 0..(N - 1) /\ v = N * q + r
      BY <2>1
    <3>2. N * a = a * N
      OBVIOUS
    <3> HIDE DEF q, r
    <3>3. ~(q < a)
      <4>1. SUFFICES ASSUME q < a PROVE FALSE
        OBVIOUS
      <4>2. N * (q + 1) <= N * a /\ N * (q + 1) = N * q + N
        BY <3>1, <4>1
      <4>3. QED BY <3>1, <3>2, <4>2
    <3>4. ~(a < q)
      <4>1. SUFFICES ASSUME a < q PROVE FALSE
        OBVIOUS
      <4>2. N * (a + 1) <= N * q /\ N * (a + 1) = N * a + N
        BY <3>1, <4>1
      <4>3. QED BY <3>1, <3>2, <4>2
    <3>5. q = a
      BY <3>1, <3>3, <3>4
    <3>6. r = s
      BY <3>1, <3>2, <3>5
    <3>7. QED BY <3>5, <3>6 DEF q, r
  <2>6. QED BY <2>4, <2>5
<1>2. ASSUME NEW k \in 0..(N * A - 1)
      PROVE  k \div N \in 0..(A - 1) /\ k % N \in 0..(N - 1) /\ (k \div N) * N + (k % N) = k
  <2> DEFINE q == k \div N
             r == k % N
  <2>1. N * A \in Nat /\ k \in Nat /\ k < N * A
    OBVIOUS
  <2>2. q \in Nat /\ r \in 0..(N - 1) /\ k = N * q + r /\ N * q = q * N
    BY <2>1
  <2> HIDE DEF q, r
  <2>3. q < A
    <3>1. SUFFICES ASSUME A <= q PROVE FALSE
      BY <2>2
    <3>2. N * A <= N * q
      BY <2>2, <3>1
    <3>3. QED BY <2>1, <2>2, <3>2
  <2>4. QED BY <2>2, <2>3 DEF q, r
<1>3. QED BY <1>1, <1>2

(* Offsets of the tasks of the sequences of a call *)
Cut ==
  /\ call.n \in 0..Batch
  /\ \A b \in Sequence : lens[b] \in 0..(Stride * BlockLen)
  /\ offsets[0] = 0
  /\ \A b \in 0..(call.n - 1) : offsets[b + 1] = offsets[b] + NumChunks(b) * KVHeads

LEMMA Sizes ==
  /\ Batch \in Nat \ {0} /\ KVHeads \in Nat \ {0} /\ GQA \in Nat \ {0}
  /\ BlockLen \in Nat \ {0} /\ BlocksPerTask \in Nat \ {0} /\ Stride \in Nat \ {0}
  /\ Blocks \in Nat \ {0} /\ Threads \in Nat \ {0} /\ Stride * BlockLen \in Nat \ {0}
<1>1. /\ Batch \in Nat \ {0} /\ KVHeads \in Nat \ {0} /\ GQA \in Nat \ {0}
      /\ BlockLen \in Nat \ {0} /\ BlocksPerTask \in Nat \ {0} /\ Stride \in Nat \ {0}
      /\ Blocks \in Nat \ {0} /\ Threads \in Nat \ {0}
  BY PositiveAssumption
<1>2. Stride * BlockLen \in Nat \ {0}
  <2> DEFINE s == Stride
             l == BlockLen
  <2>1. s \in Nat \ {0} /\ l \in Nat \ {0}
    BY <1>1
  <2> HIDE DEF s, l
  <2>2. s * l \in Nat /\ s * l >= 1
    BY <2>1
  <2>3. QED BY <2>2 DEF s, l
<1>3. QED BY <1>1, <1>2

LEMMA BlocksOfLength ==
  ASSUME NEW n \in 0..(Stride * BlockLen)
  PROVE  CeilDiv(n, BlockLen) \in 0..Stride
<1>1. n \in Nat /\ Stride \in Nat /\ BlockLen \in Nat \ {0} /\ n <= Stride * BlockLen
  BY Sizes
<1> DEFINE C == CeilDiv(n, BlockLen)
<1>2. C \in Nat /\ \A c \in 0..(C - 1) : c * BlockLen < n
  BY <1>1, CeilDivIs
<1> HIDE DEF C
<1>3. ~(Stride < C)
  <2>1. SUFFICES ASSUME Stride < C PROVE FALSE
    OBVIOUS
  <2>2. Stride * BlockLen < n
    BY <1>1, <1>2, <2>1
  <2>3. Stride * BlockLen \in Nat
    BY Sizes
  <2>4. QED BY <1>1, <2>2, <2>3
<1>4. QED BY <1>1, <1>2, <1>3 DEF C

LEMMA CutTypes ==
  ASSUME Cut
  PROVE  /\ \A b \in Sequence : /\ lens[b] \in Nat /\ NumBlocks(b) \in 0..Stride
                                /\ NumChunks(b) \in 0..CeilDiv(Stride, BlocksPerTask)
         /\ \A b \in 0..call.n : offsets[b] \in Nat
         /\ \A b \in 0..call.n : \A a \in 0..b : offsets[a] <= offsets[b]
         /\ offsets[call.n] <= MaxTasks /\ MaxTasks \in Nat
<1>1. /\ Batch \in Nat \ {0} /\ KVHeads \in Nat \ {0} /\ BlockLen \in Nat \ {0}
      /\ BlocksPerTask \in Nat \ {0} /\ Stride \in Nat \ {0} /\ Stride * BlockLen \in Nat \ {0}
  BY Sizes
<1> DEFINE W == CeilDiv(Stride, BlocksPerTask)
<1>2. W \in Nat
  BY <1>1, CeilDivIs
<1>3. ASSUME NEW b \in Sequence
      PROVE  lens[b] \in Nat /\ NumBlocks(b) \in 0..Stride /\ NumChunks(b) \in 0..W
  <2>1. lens[b] \in 0..(Stride * BlockLen) /\ lens[b] \in Nat
    BY <1>1 DEF Cut
  <2>2. NumBlocks(b) \in 0..Stride
    BY <2>1, BlocksOfLength DEF NumBlocks
  <2>3. NumBlocks(b) \in Nat /\ NumBlocks(b) <= Stride
    BY <1>1, <2>2
  <2>4. CeilDiv(NumBlocks(b), BlocksPerTask) \in Nat /\ CeilDiv(NumBlocks(b), BlocksPerTask) <= W
    BY <1>1, <2>3, CeilDivIs, CeilDivMono
  <2>5. QED BY <1>2, <2>1, <2>2, <2>4 DEF NumChunks
<1> DEFINE most == KVHeads * W
           g == [b \in 0..(call.n - 1) |-> NumChunks(b) * KVHeads]
<1>4. call.n \in 0..Batch /\ call.n \in Nat /\ call.n <= Batch
  BY <1>1 DEF Cut
<1>5. most \in Nat
  <2> HIDE DEF W
  <2>1. QED BY <1>1, <1>2
<1>6. ASSUME NEW b \in 0..(call.n - 1)
      PROVE  g[b] \in 0..most /\ offsets[b + 1] = offsets[b] + g[b]
  <2>1. NumChunks(b) \in 0..W
    <3>1. b \in Nat /\ b <= Batch - 1
      BY <1>1, <1>4
    <3>1a. b \in Sequence
      BY <1>1, <3>1 DEF Sequence
    <3>2. QED BY <1>3, <3>1a
  <2>2. offsets[b + 1] = offsets[b] + g[b] /\ g[b] = NumChunks(b) * KVHeads
    BY DEF Cut
  <2> DEFINE c == NumChunks(b)
  <2>3. c \in Nat /\ c <= W
    <3> HIDE DEF W
    <3>1. QED BY <1>2, <2>1
  <2> HIDE DEF c, W, g
  <2>4. c * KVHeads \in Nat /\ c * KVHeads <= KVHeads * W
    <3>1. c * KVHeads \in Nat
      BY <1>1, <2>3
    <3>2. KVHeads * c <= KVHeads * W /\ KVHeads * c = c * KVHeads
      BY <1>1, <1>2, <2>3
    <3>3. QED BY <3>1, <3>2
  <2>5. c * KVHeads \in 0..most
    <3> HIDE DEF most
    <3>1. c * KVHeads \in Nat /\ c * KVHeads <= most
      BY <2>4 DEF most
    <3>2. QED BY <1>5, <3>1
  <2>6. QED BY <2>2, <2>5 DEF c
<1>7. offsets[0] = 0
  BY DEF Cut
<1> HIDE DEF g, most
<1>8. /\ \A b \in 0..call.n : offsets[b] \in Nat /\ offsets[b] <= b * most
      /\ \A b \in 0..call.n : \A a \in 0..b : offsets[a] <= offsets[b]
  BY ONLY <1>4, <1>5, <1>6, <1>7, Running, Zenon
<1>9. offsets[call.n] <= MaxTasks /\ MaxTasks \in Nat
  <2>1. call.n * most <= Batch * most /\ Batch * most \in Nat /\ call.n * most \in Nat
    BY <1>1, <1>4, <1>5
  <2>2. offsets[call.n] \in Nat /\ offsets[call.n] <= call.n * most
    BY <1>4, <1>8
  <2>3. Batch * most = MaxTasks
    <3> DEFINE w == CeilDiv(Stride, BlocksPerTask)
    <3>1. w \in Nat
      BY <1>2
    <3> HIDE DEF w
    <3>2. Batch * (KVHeads * w) = Batch * KVHeads * w
      BY <1>1, <3>1
    <3>3. QED BY <3>2 DEF MaxTasks, most, w
  <2>4. QED BY <2>1, <2>2, <2>3
<1>10. QED BY <1>3, <1>8, <1>9

(* The sequence of a task is the last one that starts at or before it. *)
LEMMA Locate ==
  ASSUME NEW n \in Nat, NEW off, off[0] = 0, \A b \in 0..n : off[b] \in Nat,
         \A b \in 0..n : \A a \in 0..b : off[a] <= off[b],
         NEW k \in 0..(off[n] - 1), NEW m, m = SetMax({b \in 0..n : off[b] <= k})
  PROVE  /\ m \in 0..(n - 1) /\ off[m] <= k /\ k < off[m + 1]
         /\ \A b \in 0..(n - 1) : off[b] <= k /\ k < off[b + 1] => m = b
<1> DEFINE In == {b \in 0..n : off[b] <= k}
           Out == {b \in 0..n : k < off[b]}
<1>1. n \in 0..n /\ 0 \in 0..n /\ off[n] \in Nat /\ k \in Nat /\ k < off[n]
  OBVIOUS
<1>2. n \in Out /\ Out \in SUBSET Nat /\ 0 \notin Out
  BY <1>1
<1>3. PICK l \in Out : \A y \in Out : l <= y
  <2> HIDE DEF Out
  <2>1. QED BY <1>2, LeastNat
<1>4. l \in 1..n /\ k < off[l]
  BY <1>2, <1>3
<1>5. l - 1 \in In
  <2>1. l - 1 \in 0..n /\ l - 1 \notin Out
    BY <1>3, <1>4
  <2>2. off[l - 1] \in Nat
    BY <2>1
  <2>3. QED BY <1>1, <2>1, <2>2
<1>6. ASSUME NEW y \in In PROVE l - 1 >= y
  <2>1. SUFFICES ASSUME l <= y PROVE FALSE
    BY <1>4
  <2>2. l \in 0..y /\ y \in 0..n /\ off[y] <= k
    BY <1>4, <2>1
  <2>3. off[l] <= off[y] /\ off[l] \in Nat /\ off[y] \in Nat
    BY <1>4, <2>2
  <2>4. QED BY <1>1, <1>4, <2>2, <2>3
<1>7. m \in In /\ \A y \in In : m >= y
  <2>1. m = SetMax(In)
    OBVIOUS
  <2> HIDE DEF In
  <2>2. SetMax(In) = CHOOSE x \in In : \A y \in In : x >= y
    BY DEF SetMax, FS!Max
  <2>3. QED BY <1>5, <1>6, <2>1, <2>2
<1>8. m \in 0..n /\ m # n /\ off[m] <= k
  BY <1>1, <1>7
<1>9. m \in 0..(n - 1)
  BY <1>8
<1>10. k < off[m + 1]
  <2>1. m + 1 \in 0..n /\ m + 1 > m
    BY <1>9
  <2>2. m + 1 \notin In /\ off[m + 1] \in Nat
    BY <1>7, <1>9, <2>1
  <2>3. QED BY <1>1, <2>1, <2>2
<1>11. ASSUME NEW b \in 0..(n - 1), off[b] <= k, k < off[b + 1] PROVE m = b
  <2>1. b \in In /\ b <= m
    BY <1>7, <1>11
  <2>2. SUFFICES ASSUME b < m PROVE FALSE
    BY <1>9, <2>1
  <2>3. b + 1 \in 0..m /\ b + 1 \in 0..n /\ m \in 0..n
    BY <1>9, <2>2
  <2>4. off[b + 1] <= off[m] /\ off[b + 1] \in Nat /\ off[m] \in Nat
    BY <2>3
  <2>5. QED BY <1>1, <1>8, <1>11, <2>4
<1>12. QED BY <1>8, <1>9, <1>10, <1>11

LEMMA ChunkWidth ==
  ASSUME Cut, NEW b \in 0..(call.n - 1)
  PROVE  /\ NumChunks(b) \in Nat /\ b \in Sequence
         /\ offsets[b] \in Nat /\ offsets[b + 1] \in Nat
         /\ offsets[b + 1] - offsets[b] = KVHeads * NumChunks(b)
         /\ (offsets[b + 1] - offsets[b]) \div KVHeads = NumChunks(b)
<1>1. call.n \in 0..Batch /\ Batch \in Nat /\ KVHeads \in Nat \ {0} /\ Stride \in Nat
      /\ BlocksPerTask \in Nat \ {0}
  BY Sizes DEF Cut
<1>2. b \in Nat /\ b <= Batch - 1 /\ b \in 0..call.n /\ b + 1 \in 0..call.n
  BY <1>1
<1>3. b \in Sequence
  BY <1>1, <1>2 DEF Sequence
<1>4. offsets[b] \in Nat /\ offsets[b + 1] \in Nat /\ NumChunks(b) \in Nat
  <2>1. NumChunks(b) \in 0..CeilDiv(Stride, BlocksPerTask) /\ CeilDiv(Stride, BlocksPerTask) \in Nat
    BY <1>1, <1>3, CutTypes, CeilDivIs
  <2> HIDE DEF CeilDiv
  <2>2. QED BY <1>2, <2>1, CutTypes
<1>5. offsets[b + 1] = offsets[b] + NumChunks(b) * KVHeads
  BY DEF Cut
<1> DEFINE c == NumChunks(b)
           o == offsets[b]
           p == offsets[b + 1]
<1>6. c \in Nat /\ o \in Nat /\ p \in Nat /\ p = o + c * KVHeads
  BY <1>4, <1>5
<1> HIDE DEF c, o, p
<1>7. c * KVHeads = KVHeads * c /\ c * KVHeads \in Nat
  BY <1>1, <1>6
<1>8. p - o = KVHeads * c
  BY <1>6, <1>7
<1>9. (KVHeads * c) \div KVHeads = c
  <2>1. 0 \in 0..(KVHeads - 1) /\ c \in 0..((c + 1) - 1) /\ c + 1 \in Nat
    BY <1>1, <1>6
  <2>2. (c * KVHeads + 0) \div KVHeads = c
    BY <1>1, <2>1, Slices
  <2>3. QED BY <1>7, <2>2
<1>10. QED BY <1>3, <1>4, <1>8, <1>9 DEF c, o, p

LEMMA TaskAt ==
  ASSUME Cut, NEW k \in 0..(offsets[call.n] - 1)
  PROVE  /\ TaskSeq(k) \in 0..(call.n - 1)
         /\ offsets[TaskSeq(k)] <= k /\ k < offsets[TaskSeq(k) + 1]
         /\ TaskChunks(k) = NumChunks(TaskSeq(k))
         /\ TaskHead(k) \in Head /\ TaskChunk(k) \in 0..(NumChunks(TaskSeq(k)) - 1)
         /\ k = offsets[TaskSeq(k)] + TaskHead(k) * NumChunks(TaskSeq(k)) + TaskChunk(k)
         /\ \A b \in 0..(call.n - 1) : offsets[b] <= k /\ k < offsets[b + 1] => TaskSeq(k) = b
<1> DEFINE m == TaskSeq(k)
<1>1. call.n \in 0..Batch /\ Batch \in Nat /\ KVHeads \in Nat \ {0} /\ offsets[0] = 0 /\ call.n \in Nat
  BY Sizes DEF Cut
<1>2. m = SetMax({b \in 0..call.n : offsets[b] <= k})
  BY DEF TaskSeq
<1>3. /\ \A b \in 0..call.n : offsets[b] \in Nat
      /\ \A b \in 0..call.n : \A a \in 0..b : offsets[a] <= offsets[b]
  BY CutTypes
<1> HIDE DEF m
<1>4. /\ m \in 0..(call.n - 1) /\ offsets[m] <= k /\ k < offsets[m + 1]
      /\ \A b \in 0..(call.n - 1) : offsets[b] <= k /\ k < offsets[b + 1] => m = b
  <2>1. call.n \in Nat /\ k \in 0..(offsets[call.n] - 1) /\ offsets[0] = 0
    BY <1>1
  <2>2. QED BY ONLY <2>1, <1>2, <1>3, Locate
<1>5. /\ NumChunks(m) \in Nat /\ offsets[m] \in Nat /\ offsets[m + 1] \in Nat
      /\ offsets[m + 1] - offsets[m] = KVHeads * NumChunks(m)
      /\ (offsets[m + 1] - offsets[m]) \div KVHeads = NumChunks(m)
  BY <1>4, ChunkWidth
<1>6. TaskChunks(k) = NumChunks(m)
  BY <1>5 DEF TaskChunks, m
<1> DEFINE c == NumChunks(m)
           o == offsets[m]
           r == k - o
<1>7. c \in Nat /\ o \in Nat /\ r \in 0..(KVHeads * c - 1)
  <2>1. k \in Nat
    BY <1>3, <1>1
  <2> DEFINE w == KVHeads * NumChunks(m)
             v == offsets[m + 1]
  <2>2. w \in Nat /\ v \in Nat /\ v - o = w /\ o <= k /\ k < v /\ o \in Nat
    <3>1. w \in Nat
      BY <1>1, <1>5
    <3>2. QED BY <1>4, <1>5, <3>1
  <2> HIDE DEF w, v, o
  <2>3. r \in 0..(w - 1)
    BY <2>1, <2>2
  <2>4. QED BY <1>5, <2>2, <2>3 DEF w
<1>8. TaskHead(k) = r \div c /\ TaskChunk(k) = r % c
  BY <1>6 DEF TaskHead, TaskChunk, m
<1> HIDE DEF c, r, o
<1>9. c # 0
  <2>1. SUFFICES ASSUME c = 0 PROVE FALSE
    OBVIOUS
  <2>2. KVHeads * c = 0
    BY <1>1, <2>1
  <2>3. QED BY <1>7, <2>2
<1>9a. c * KVHeads = KVHeads * c
  BY <1>1, <1>7
<1>10. r \div c \in 0..(KVHeads - 1) /\ r % c \in 0..(c - 1) /\ (r \div c) * c + (r % c) = r
  <2>1. c \in Nat \ {0} /\ KVHeads \in Nat /\ r \in 0..(c * KVHeads - 1)
    BY <1>1, <1>7, <1>9, <1>9a
  <2>2. QED BY <2>1, Slices
<1>11. k = o + (r \div c) * c + (r % c)
  <2> DEFINE x == (r \div c) * c
             y == r % c
  <2>1. r \div c \in Nat /\ x \in Nat /\ y \in Nat /\ x + y = r
    <3>1. r \div c \in Nat /\ y \in Nat
      BY <1>1, <1>7, <1>10
    <3>2. QED BY <1>7, <1>10, <3>1
  <2>2. r = k - o /\ k \in Nat /\ o \in Nat
    BY <1>3, <1>1, <1>7 DEF r
  <2> HIDE DEF x, y
  <2>3. k = o + x + y
    BY <2>1, <2>2
  <2>4. QED BY <2>3 DEF x, y
<1>12. QED BY <1>4, <1>6, <1>8, <1>10, <1>11 DEF m, o, c, Head

LEMMA TaskOf ==
  ASSUME Cut, NEW b \in 0..(call.n - 1), NEW h \in Head, NEW s \in 0..(NumChunks(b) - 1),
         NEW k, k = offsets[b] + h * NumChunks(b) + s
  PROVE  /\ k \in 0..(offsets[call.n] - 1)
         /\ TaskSeq(k) = b /\ TaskHead(k) = h /\ TaskChunk(k) = s
<1> DEFINE c == NumChunks(b)
           o == offsets[b]
           p == offsets[b + 1]
           r == h * c + s
<1>1. /\ c \in Nat /\ o \in Nat /\ p \in Nat /\ p - o = KVHeads * c
      /\ offsets[call.n] \in Nat /\ p <= offsets[call.n]
  <2>1. call.n \in 0..Batch /\ Batch \in Nat
    BY Sizes DEF Cut
  <2>2. b + 1 \in 0..call.n /\ call.n \in 0..call.n
    BY <2>1
  <2>3. QED BY <2>2, ChunkWidth, CutTypes
<1>2. KVHeads \in Nat \ {0} /\ h \in 0..(KVHeads - 1) /\ s \in 0..(c - 1) /\ c \in Nat \ {0}
  <2> HIDE DEF c
  <2>1. c \in Nat /\ s \in 0..(c - 1)
    BY <1>1 DEF c
  <2>2. QED BY <2>1, Sizes DEF Head
<1> HIDE DEF c, o, p
<1>3. r \in 0..(c * KVHeads - 1) /\ r \div c = h /\ r % c = s
  BY <1>2, Slices
<1>4. c * KVHeads = KVHeads * c /\ h * c \in Nat
  BY <1>2
<1>5. k = o + r
  <2> DEFINE x == h * c
  <2>1. k = o + x + s /\ o \in Nat /\ x \in Nat /\ s \in Nat
    BY <1>1, <1>2, <1>4 DEF o, c
  <2> HIDE DEF x
  <2>2. k = o + (x + s)
    BY <2>1
  <2>3. QED BY <2>2 DEF x
<1> HIDE DEF r
<1>6. k \in Nat /\ o <= k /\ k < p /\ k - o = r
  <2> DEFINE w == KVHeads * c
  <2>1. r \in 0..(w - 1) /\ p - o = w /\ o \in Nat /\ p \in Nat
    BY <1>1, <1>3, <1>4
  <2> HIDE DEF w
  <2>2. QED BY <1>5, <2>1
<1>7. k \in 0..(offsets[call.n] - 1)
  BY <1>1, <1>6
<1>8. TaskSeq(k) = b
  BY <1>6, <1>7, TaskAt DEF o, p
<1>9. TaskChunks(k) = c
  BY <1>7, <1>8, TaskAt DEF c
<1>10. TaskHead(k) = h /\ TaskChunk(k) = s
  BY <1>3, <1>6, <1>8, <1>9 DEF TaskHead, TaskChunk, o
<1>11. QED BY <1>7, <1>8, <1>10

LEMMA SlotsOf ==
  ASSUME Cut, NEW b \in 0..(call.n - 1), NEW h \in Head
  PROVE  ReduceSlots(b, h) = {k \in 0..(offsets[call.n] - 1) : TaskIdx(k) = <<b, h>>}
<1> DEFINE c == NumChunks(b)
           o == offsets[b]
           x == o + h * c
<1>1. c \in Nat /\ o \in Nat /\ (offsets[b + 1] - offsets[b]) \div KVHeads = c /\ h \in Nat
  <2>1. KVHeads \in Nat \ {0}
    BY Sizes
  <2>2. QED BY <2>1, ChunkWidth DEF Head
<1>2. ReduceSlots(b, h) = x..(x + c - 1)
  BY <1>1 DEF ReduceSlots, ReduceFirst
<1> HIDE DEF c, o
<1>3. h * c \in Nat /\ x \in Nat
  <2>1. h * c \in Nat
    BY <1>1
  <2>2. QED BY <1>1, <2>1
<1> HIDE DEF x
<1>4. ASSUME NEW k \in x..(x + c - 1)
      PROVE  k \in 0..(offsets[call.n] - 1) /\ TaskIdx(k) = <<b, h>>
  <2> DEFINE s == k - x
  <2>1. s \in 0..(c - 1) /\ k = x + s
    BY <1>1, <1>3
  <2> HIDE DEF s
  <2>2. k = offsets[b] + h * NumChunks(b) + s /\ s \in 0..(NumChunks(b) - 1)
    BY <2>1 DEF x, o, c
  <2>3. QED BY <2>2, TaskOf DEF TaskIdx
<1>5. ASSUME NEW k \in 0..(offsets[call.n] - 1), TaskIdx(k) = <<b, h>>
      PROVE  k \in x..(x + c - 1)
  <2>1. TaskSeq(k) = b /\ TaskHead(k) = h
    BY <1>5 DEF TaskIdx
  <2>2. TaskChunk(k) \in 0..(c - 1) /\ k = x + TaskChunk(k)
    BY <2>1, TaskAt DEF x, o, c
  <2> HIDE DEF TaskChunk
  <2>3. QED BY <1>1, <1>3, <2>2
<1>6. QED BY <1>2, <1>4, <1>5

LEMMA BlocksOf ==
  ASSUME Cut, NEW k \in 0..(offsets[call.n] - 1)
  PROVE  /\ BlockBegin(k) \in Nat /\ BlockEnd(k) \in Nat /\ BlockBegin(k) < BlockEnd(k)
         /\ NumBlocks(TaskSeq(k)) \in Nat /\ BlockEnd(k) <= NumBlocks(TaskSeq(k))
         /\ BlockBegin(k) = TaskChunk(k) * BlocksPerTask
         /\ BlockEnd(k) <= BlockBegin(k) + BlocksPerTask
         /\ \/ BlockEnd(k) = BlockBegin(k) + BlocksPerTask
            \/ BlockEnd(k) = NumBlocks(TaskSeq(k))
<1> DEFINE b == TaskSeq(k)
           s == TaskChunk(k)
           c == NumChunks(b)
           v == NumBlocks(b)
<1>1. b \in 0..(call.n - 1) /\ s \in 0..(c - 1)
  BY TaskAt
<1>2. BlocksPerTask \in Nat \ {0} /\ c \in Nat /\ b \in Sequence
  BY <1>1, Sizes, ChunkWidth
<1>3. v \in Nat
  <2>1. v \in 0..Stride /\ Stride \in Nat
    BY <1>2, CutTypes, Sizes
  <2> HIDE DEF v
  <2>2. QED BY <2>1
<1>4. s * BlocksPerTask < v
  BY <1>1, <1>2, <1>3, CeilDivIs DEF NumChunks
<1> HIDE DEF b, c, s, v
<1> DEFINE w == s * BlocksPerTask
<1>5. w \in Nat
  BY <1>1, <1>2
<1>6. BlockBegin(k) = w
  BY DEF BlockBegin, s
<1> HIDE DEF w
<1>7. BlockEnd(k) = w + (IF v - w < BlocksPerTask THEN v - w ELSE BlocksPerTask)
  BY <1>6 DEF BlockEnd, v, b
<1>8. w < v
  BY <1>4 DEF w
<1>9. QED BY <1>2, <1>3, <1>5, <1>6, <1>7, <1>8 DEF v, b, w, s

(* The tokens a task covers, as a set *)
TokenSet(b, h, k) ==
  {<<b, h, p>> : p \in {i \in 0..(lens[b] - 1) :
     i \div BlockLen \in BlockBegin(k)..(BlockEnd(k) - 1)}}
Cached(b, h) == {<<b, h, p>> : p \in 0..(lens[b] - 1)}

(* The tasks of a head share out its tokens. *)
LEMMA Partition ==
  ASSUME Cut, NEW b \in 0..(call.n - 1), NEW h \in Head
  PROVE  /\ \A k, l \in ReduceSlots(b, h) : k # l => TokenSet(b, h, k) \cap TokenSet(b, h, l) = {}
         /\ UNION {TokenSet(b, h, k) : k \in ReduceSlots(b, h)} = Cached(b, h)
<1> DEFINE c == NumChunks(b)
           v == NumBlocks(b)
           R == {k \in 0..(offsets[call.n] - 1) : TaskIdx(k) = <<b, h>>}
<1>1. /\ BlocksPerTask \in Nat \ {0} /\ BlockLen \in Nat \ {0} /\ c \in Nat /\ v \in Nat
      /\ lens[b] \in Nat /\ b \in Sequence
  <2>1. b \in Sequence /\ c \in Nat
    BY ChunkWidth
  <2>2. v \in 0..Stride /\ Stride \in Nat /\ lens[b] \in Nat
    BY <2>1, CutTypes, Sizes
  <2> HIDE DEF v, c
  <2>3. QED BY <2>1, <2>2, Sizes
<1>2. /\ \A j \in 0..(lens[b] - 1) : j \div BlockLen \in 0..(v - 1)
      /\ \A j \in 0..(v - 1) : j \div BlocksPerTask \in 0..(c - 1)
  BY <1>1, CeilDivIs DEF NumBlocks, NumChunks
<1>3. ReduceSlots(b, h) = R
  BY SlotsOf
<1> HIDE DEF c, v
<1>4. ASSUME NEW k \in R, NEW l \in R, TaskChunk(k) < TaskChunk(l)
      PROVE  BlockEnd(k) <= BlockBegin(l)
  <2>1. /\ BlockEnd(k) \in Nat /\ BlockEnd(k) <= BlockBegin(k) + BlocksPerTask
        /\ BlockBegin(k) = TaskChunk(k) * BlocksPerTask
        /\ BlockBegin(l) = TaskChunk(l) * BlocksPerTask
    BY BlocksOf
  <2>2. TaskChunk(k) \in Nat /\ TaskChunk(l) \in Nat
    <3>1. TaskChunk(k) \in 0..(c - 1) /\ TaskChunk(l) \in 0..(c - 1)
      BY TaskAt DEF TaskIdx, c
    <3> HIDE DEF TaskChunk
    <3>2. QED BY <1>1, <3>1
  <2> DEFINE x == TaskChunk(k)
             y == TaskChunk(l)
  <2>3. x \in Nat /\ y \in Nat /\ x + 1 <= y
    BY <1>4, <2>2
  <2> HIDE DEF x, y
  <2>4. (x + 1) * BlocksPerTask <= y * BlocksPerTask
    BY <1>1, <2>3
  <2>5. (x + 1) * BlocksPerTask = x * BlocksPerTask + BlocksPerTask
    BY <1>1, <2>3
  <2> DEFINE wx == x * BlocksPerTask
             wy == y * BlocksPerTask
  <2>6. wx \in Nat /\ wy \in Nat /\ wx + BlocksPerTask <= wy
    BY <1>1, <2>3, <2>4, <2>5
  <2>7. BlockEnd(k) <= wx + BlocksPerTask /\ BlockBegin(l) = wy
    BY <2>1 DEF x, y
  <2> HIDE DEF wx, wy
  <2>8. QED BY ONLY <1>1, <2>1, <2>6, <2>7
<1>5. ASSUME NEW k \in R, NEW l \in R, k # l, NEW e, e \in TokenSet(b, h, k), e \in TokenSet(b, h, l)
      PROVE  FALSE
  <2>1. TaskChunk(k) # TaskChunk(l)
    <3>1. TaskSeq(k) = b /\ TaskSeq(l) = b /\ TaskHead(k) = h /\ TaskHead(l) = h
      BY DEF TaskIdx
    <3>2. /\ k = offsets[b] + h * NumChunks(b) + TaskChunk(k)
          /\ l = offsets[b] + h * NumChunks(b) + TaskChunk(l)
      BY <3>1, TaskAt
    <3>3. QED BY ONLY <1>5, <3>2, Zenon
  <2>2. TaskChunk(k) \in 0..(c - 1) /\ TaskChunk(l) \in 0..(c - 1)
    BY TaskAt DEF TaskIdx, c
  <2>3. PICK i \in 0..(lens[b] - 1) :
          e = <<b, h, i>> /\ i \div BlockLen \in BlockBegin(k)..(BlockEnd(k) - 1)
    BY <1>5 DEF TokenSet
  <2>4. PICK j \in 0..(lens[b] - 1) :
          e = <<b, h, j>> /\ j \div BlockLen \in BlockBegin(l)..(BlockEnd(l) - 1)
    BY <1>5 DEF TokenSet
  <2>5. i = j
    BY <2>3, <2>4
  <2> DEFINE z == i \div BlockLen
  <2>6. z \in BlockBegin(k)..(BlockEnd(k) - 1) /\ z \in BlockBegin(l)..(BlockEnd(l) - 1)
    BY <2>3, <2>4, <2>5
  <2>7. z \in Nat
    BY <1>1, <1>2
  <2> HIDE DEF z, TaskChunk, TokenSet, BlockBegin, BlockEnd
  <2>8. /\ BlockBegin(k) \in Nat /\ BlockEnd(k) \in Nat
        /\ BlockBegin(l) \in Nat /\ BlockEnd(l) \in Nat
    BY BlocksOf
  <2>9. CASE TaskChunk(k) < TaskChunk(l)
    BY <1>4, <2>6, <2>7, <2>8, <2>9
  <2>10. CASE TaskChunk(l) < TaskChunk(k)
    BY <1>4, <2>6, <2>7, <2>8, <2>10
  <2>11. QED BY <1>1, <2>1, <2>2, <2>9, <2>10
<1>6. ASSUME NEW p \in 0..(lens[b] - 1)
      PROVE  \E k \in R : <<b, h, p>> \in TokenSet(b, h, k)
  <2> DEFINE j == p \div BlockLen
             s == j \div BlocksPerTask
             k == offsets[b] + h * NumChunks(b) + s
  <2>1. j \in 0..(v - 1) /\ s \in 0..(c - 1)
    BY <1>2
  <2>2. s * BlocksPerTask <= j /\ j < s * BlocksPerTask + BlocksPerTask /\ s * BlocksPerTask \in Nat
    <3>1. j \in Nat /\ s \in Nat
      BY <1>1, <2>1
    <3> HIDE DEF j
    <3> DEFINE r == j % BlocksPerTask
    <3>2. r \in 0..(BlocksPerTask - 1) /\ j = BlocksPerTask * s + r
      BY <1>1, <3>1
    <3> HIDE DEF s, r
    <3>3. BlocksPerTask * s = s * BlocksPerTask /\ s * BlocksPerTask \in Nat
      BY <1>1, <3>1
    <3>4. QED BY <1>1, <3>1, <3>2, <3>3
  <2> HIDE DEF s
  <2>3. k \in 0..(offsets[call.n] - 1) /\ TaskSeq(k) = b /\ TaskHead(k) = h /\ TaskChunk(k) = s
    BY <2>1, TaskOf DEF c
  <2> HIDE DEF k
  <2>4. k \in R
    BY <2>3 DEF TaskIdx
  <2>5. /\ BlockBegin(k) = s * BlocksPerTask /\ BlockEnd(k) \in Nat
        /\ BlockEnd(k) = BlockBegin(k) + BlocksPerTask \/ BlockEnd(k) = v
    BY <2>3, BlocksOf DEF v
  <2> HIDE DEF j, R
  <2>6. j \in BlockBegin(k)..(BlockEnd(k) - 1)
    BY <1>1, <2>1, <2>2, <2>5
  <2>7. <<b, h, p>> \in TokenSet(b, h, k)
    BY <2>6 DEF TokenSet, j
  <2>8. QED BY <2>4, <2>7
<1>7. \A k : TokenSet(b, h, k) \subseteq Cached(b, h)
  BY DEF TokenSet, Cached
<1> HIDE DEF R
<1>8. \A k, l \in R : k # l => TokenSet(b, h, k) \cap TokenSet(b, h, l) = {}
  <2> HIDE DEF TokenSet
  <2>1. QED BY <1>5
<1>9. UNION {TokenSet(b, h, k) : k \in R} = Cached(b, h)
  <2>1. ASSUME NEW e \in Cached(b, h) PROVE \E k \in R : e \in TokenSet(b, h, k)
    <3>1. PICK p \in 0..(lens[b] - 1) : e = <<b, h, p>>
      BY DEF Cached
    <3>2. QED BY <1>6, <3>1
  <2> HIDE DEF TokenSet, Cached
  <2>2. QED BY <1>7, <2>1
<1>10. QED BY <1>3, <1>8, <1>9

LEMMA WholeOf ==
  ASSUME Cut, NEW b \in 0..(call.n - 1), NEW h \in Head
  PROVE  /\ IsFiniteSet(ReduceSlots(b, h))
         /\ Sum([k \in ReduceSlots(b, h) |-> TokensOf(b, h, k)], ReduceSlots(b, h))
              = SetToBag(Cached(b, h))
<1> DEFINE R == ReduceSlots(b, h)
           f == [k \in R |-> TokensOf(b, h, k)]
           A == [k \in R |-> TokenSet(b, h, k)]
<1>1. IsFiniteSet(R)
  <2>1. R \subseteq 0..(offsets[call.n] - 1)
    BY SlotsOf
  <2>2. offsets[call.n] \in Nat
    <3>1. call.n \in 0..call.n
      BY Sizes DEF Cut
    <3>2. QED BY <3>1, CutTypes
  <2>3. IsFiniteSet(0..(offsets[call.n] - 1))
    <3> DEFINE m == offsets[call.n] - 1
    <3>1. 0 \in Int /\ m \in Int
      BY <2>2
    <3> HIDE DEF m
    <3>2. IsFiniteSet(0..m)
      BY <3>1, FS_Interval
    <3>3. QED BY <3>2 DEF m
  <2> HIDE DEF R
  <2>4. QED BY <2>1, <2>3, FS_Subset
<1>2. \A x \in R : f[x] = SetToBag(A[x])
  BY DEF TokensOf, TokenSet
<1>3. (\A x, y \in R : x # y => A[x] \cap A[y] = {}) /\ UNION {A[x] : x \in R} = Cached(b, h)
  <2>1. /\ \A k, l \in R : k # l => TokenSet(b, h, k) \cap TokenSet(b, h, l) = {}
        /\ UNION {TokenSet(b, h, k) : k \in R} = Cached(b, h)
    BY Partition
  <2> HIDE DEF R, TokenSet, Cached
  <2>2. {A[x] : x \in R} = {TokenSet(b, h, k) : k \in R}
    OBVIOUS
  <2>3. QED BY <2>1, <2>2
<1> HIDE DEF R, f, A
<1>4. Sum(f, R) = SetToBag(UNION {A[x] : x \in R})
  BY ONLY <1>1, <1>2, <1>3, SumSets
<1>5. QED BY <1>1, <1>3, <1>4 DEF R, f

(* Every token that is cached is where the block table says. *)
CacheHolds ==
  \A b \in Sequence, h \in Head : \A p \in 0..(lens[b] - 1) :
    cache[h][Table[<<b, p \div BlockLen>>]][p % BlockLen] = <<b, h, p>>

Count(n, cells) ==
  [x \in {cells[p] : p \in 0..n} |-> Cardinality({p \in 0..n : cells[p] = x})]

LEMMA CountBag ==
  ASSUME NEW n \in Int, NEW cells
  PROVE  IsABag(Count(n, cells))
<1> DEFINE D == {cells[p] : p \in 0..n}
           S(x) == {p \in 0..n : cells[p] = x}
           B == [x \in D |-> Cardinality(S(x))]
<1>1. IsFiniteSet(0..n)
  BY FS_Interval
<1>2. ASSUME NEW x \in D PROVE Cardinality(S(x)) \in {m \in Nat : m > 0}
  <2>1. IsFiniteSet(S(x)) /\ S(x) # {}
    BY <1>1, FS_Subset
  <2> HIDE DEF S
  <2>2. QED BY <2>1, FS_CardinalityType, FS_EmptySet
<1> HIDE DEF S, D
<1>3. B \in [D -> {m \in Nat : m > 0}] /\ DOMAIN B = D
  BY <1>2
<1> HIDE DEF B
<1>4. IsABag(B)
  BY <1>3 DEF IsABag
<1>5. QED BY <1>4 DEF Count, B, D, S

LEMMA OnceBag ==
  ASSUME NEW n \in Int, NEW cells,
         \A p, q \in 0..n : cells[p] = cells[q] => p = q
  PROVE  Count(n, cells) = SetToBag({cells[p] : p \in 0..n})
<1> DEFINE D == {cells[p] : p \in 0..n}
<1>1. ASSUME NEW x \in D PROVE Cardinality({p \in 0..n : cells[p] = x}) = 1
  <2>1. PICK r \in 0..n : x = cells[r]
    OBVIOUS
  <2>2. {p \in 0..n : cells[p] = x} = {r}
    BY <2>1
  <2>3. QED BY <2>2, FS_Singleton
<1> HIDE DEF D
<1>2. [x \in D |-> Cardinality({p \in 0..n : cells[p] = x})] = [x \in D |-> 1]
  BY <1>1
<1>3. QED BY <1>2 DEF Count, SetToBag, D

LEMMA BlockTokens ==
  ASSUME Cut, NEW b \in Sequence, NEW h \in Head, NEW j \in Nat
  PROVE  /\ IsABag(BlockResult(b, h, j))
         /\ CacheHolds /\ ~ Bad(b, j) =>
              BlockResult(b, h, j) =
                SetToBag({<<b, h, p>> : p \in {i \in 0..(lens[b] - 1) : i \div BlockLen = j}})
<1> DEFINE tail == lens[b] - j * BlockLen
           n == (IF tail < BlockLen THEN tail ELSE BlockLen) - 1
           cells == cache[h][Entry(b, j)]
           L == lens[b]
           w == j * BlockLen
<1>1. BlockLen \in Nat \ {0} /\ L \in Nat /\ w \in Nat
  BY Sizes, CutTypes
<1>2. tail \in Int /\ n \in Int /\ tail = L - w
  BY <1>1
<1>3. BlockResult(b, h, j) = Count(n, cells)
  BY DEF BlockResult, Count
<1>4. n < BlockLen /\ \A p \in Nat : p <= n <=> p < BlockLen /\ w + p < L
  <2> HIDE DEF w, L
  <2>1. QED BY <1>1, <1>2
<1> HIDE DEF n, cells, tail
<1>5. IsABag(BlockResult(b, h, j))
  BY <1>2, <1>3, CountBag
<1>6. ASSUME CacheHolds, ~ Bad(b, j)
      PROVE  BlockResult(b, h, j) =
               SetToBag({<<b, h, p>> : p \in {i \in 0..(L - 1) : i \div BlockLen = j}})
  <2>1. Entry(b, j) = Table[<<b, j>>]
    BY <1>6 DEF Bad, InRange, Entry
  <2>2. ASSUME NEW p \in 0..n
        PROVE  /\ cells[p] = <<b, h, w + p>> /\ w + p \in 0..(L - 1)
               /\ (w + p) \div BlockLen = j
    <3>1. p \in Nat /\ p <= n
      BY <1>2
    <3>1a. p \in 0..(BlockLen - 1) /\ w + p < L
      BY <1>1, <1>4, <3>1
    <3>2. j \in 0..((j + 1) - 1) /\ j + 1 \in Nat
      OBVIOUS
    <3>3. (w + p) \div BlockLen = j /\ (w + p) % BlockLen = p
      BY <1>1, <3>1a, <3>2, Slices
    <3>4. w + p \in 0..(L - 1)
      <4> HIDE DEF w, L
      <4>1. QED BY <1>1, <3>1, <3>1a
    <3> HIDE DEF w
    <3>5. cache[h][Table[<<b, (w + p) \div BlockLen>>]][(w + p) % BlockLen] = <<b, h, w + p>>
      BY <1>6, <3>4 DEF CacheHolds
    <3>6. QED BY <2>1, <3>3, <3>4, <3>5 DEF cells
  <2>3. ASSUME NEW i \in 0..(L - 1), i \div BlockLen = j
        PROVE  \E p \in 0..n : i = w + p
    <3> DEFINE r == i % BlockLen
               d == i \div BlockLen
    <3>1. r \in 0..(BlockLen - 1) /\ i = BlockLen * d + r
      BY <1>1
    <3> HIDE DEF r, d
    <3>1a. BlockLen * d = w
      BY <1>1, <2>3 DEF d
    <3>2. i = w + r /\ r \in Nat /\ r < BlockLen /\ w + r < L
      <4> HIDE DEF w, L
      <4>1. QED BY <1>1, <3>1, <3>1a
    <3>3. r <= n
      BY <1>4, <3>2
    <3>4. QED BY <1>2, <3>2, <3>3
  <2> HIDE DEF w, L
  <2>4. \A p, q \in 0..n : cells[p] = cells[q] => p = q
    <3>1. SUFFICES ASSUME NEW p \in 0..n, NEW q \in 0..n, cells[p] = cells[q] PROVE p = q
      OBVIOUS
    <3>2. w + p = w + q
      BY <2>2, <3>1
    <3>3. QED BY <1>1, <1>2, <3>2
  <2>5. {cells[p] : p \in 0..n} =
          {<<b, h, p>> : p \in {i \in 0..(L - 1) : i \div BlockLen = j}}
    <3> DEFINE T == {i \in 0..(L - 1) : i \div BlockLen = j}
    <3>1. ASSUME NEW p \in 0..n PROVE \E i \in T : cells[p] = <<b, h, i>>
      BY <2>2
    <3>2. ASSUME NEW i \in T PROVE \E p \in 0..n : cells[p] = <<b, h, i>>
      BY <2>2, <2>3
    <3> HIDE DEF T
    <3>3. {cells[p] : p \in 0..n} = {<<b, h, i>> : i \in T}
      BY <3>1, <3>2
    <3>4. QED BY <3>3 DEF T
  <2>6. BlockResult(b, h, j) = SetToBag({cells[p] : p \in 0..n})
    BY <1>2, <1>3, <2>4, OnceBag
  <2>7. QED BY <2>5, <2>6
<1>7. QED BY <1>5, <1>6 DEF L

(* What a thread adds up for a task *)
LEMMA PartialIs ==
  ASSUME Cut, NEW k \in 0..(offsets[call.n] - 1)
  PROVE  /\ IsABag(Partial(k))
         /\ Complete(k) => GoodBlocks(k) # {}
         /\ CacheHolds /\ Complete(k) =>
              Partial(k) = SetToBag(TokenSet(TaskSeq(k), TaskHead(k), k))
<1> DEFINE b == TaskSeq(k)
           h == TaskHead(k)
           G == GoodBlocks(k)
           B == BlockBegin(k)
           E == BlockEnd(k)
           f == [j \in G |-> BlockResult(b, h, j)]
<1>1. B \in Nat /\ E \in Nat /\ B < E
  BY BlocksOf
<1>2. b \in Sequence /\ h \in Head
  BY TaskAt, ChunkWidth
<1>3. G \subseteq B..(E - 1)
  BY DEF GoodBlocks
<1>4. Complete(k) => G = B..(E - 1)
  BY <1>1 DEF GoodBlocks, Complete
<1>5. Partial(k) = Sum(f, G)
  BY DEF Partial, Sum
<1>6. \A j \in B..(E - 1) : Complete(k) => ~ Bad(b, j)
  BY DEF Complete
<1> HIDE DEF b, h, G, B, E
<1>7. IsFiniteSet(G)
  <2>1. E - 1 \in Int /\ B \in Int
    BY <1>1
  <2>2. IsFiniteSet(B..(E - 1))
    BY <2>1, FS_Interval
  <2>3. QED BY <1>3, <2>2, FS_Subset
<1>8. \A j \in G : IsABag(f[j])
  <2>1. ASSUME NEW j \in G PROVE IsABag(f[j])
    <3>1. j \in Nat
      BY <1>1, <1>3
    <3>2. IsABag(BlockResult(b, h, j))
      BY <1>2, <3>1, BlockTokens
    <3>3. QED BY <3>2
  <2>2. QED BY <2>1
<1>9. IsABag(Sum(f, G))
  <2> HIDE DEF f
  <2>1. QED BY <1>7, <1>8, SumLaws
<1>10. Complete(k) => G # {}
  <2>1. B \in B..(E - 1)
    BY <1>1
  <2>2. QED BY <1>4, <2>1
<1>11. ASSUME CacheHolds, Complete(k) PROVE Sum(f, G) = SetToBag(TokenSet(b, h, k))
  <2> DEFINE A == [j \in G |-> {<<b, h, p>> : p \in {i \in 0..(lens[b] - 1) : i \div BlockLen = j}}]
  <2>1. \A j \in G : f[j] = SetToBag(A[j])
    <3>1. ASSUME NEW j \in G PROVE f[j] = SetToBag(A[j])
      <4>1. j \in Nat /\ ~ Bad(b, j)
        BY <1>1, <1>3, <1>6, <1>11
      <4>2. BlockResult(b, h, j) =
              SetToBag({<<b, h, p>> : p \in {i \in 0..(lens[b] - 1) : i \div BlockLen = j}})
        BY <1>2, <1>11, <4>1, BlockTokens
      <4>3. QED BY <4>2
    <3>2. QED BY <3>1
  <2>2. ASSUME NEW i \in G, NEW j \in G, i # j PROVE A[i] \cap A[j] = {}
    BY <2>2
  <2>3. Sum(f, G) = SetToBag(UNION {A[j] : j \in G})
    <3> HIDE DEF f, A
    <3>1. QED BY <1>7, <2>1, <2>2, SumSets
  <2>4. TokenSet(b, h, k) = {<<b, h, p>> : p \in {i \in 0..(lens[b] - 1) : i \div BlockLen \in G}}
    BY <1>4, <1>11 DEF TokenSet, B, E
  <2>5. UNION {A[j] : j \in G} = TokenSet(b, h, k)
    <3>1. \A e : e \in UNION {A[j] : j \in G} <=> \E j \in G : e \in A[j]
      OBVIOUS
    <3>2. \A e : \A j \in G : e \in A[j] <=> \E p \in 0..(lens[b] - 1) : e = <<b, h, p>> /\ p \div BlockLen = j
      OBVIOUS
    <3>3. \A e : e \in TokenSet(b, h, k) <=>
                   \E p \in 0..(lens[b] - 1) : e = <<b, h, p>> /\ p \div BlockLen \in G
      BY <2>4
    <3> HIDE DEF A
    <3>4. QED BY <3>1, <3>2, <3>3
  <2>6. QED BY <2>3, <2>5
<1>12. QED BY <1>5, <1>9, <1>10, <1>11 DEF b, h, G

-----------------------------------------------------------------------------
(* The inductive invariant *)

ThreadPC == {"out", "init", "next", "commit", "work"}
Phase == {"idle", "update", "initialize", "compute", "reduce", "convert"}

CacheTypeInv ==
  /\ lens \in [Sequence -> 0..(Stride * BlockLen)]
  /\ parallel \in BOOLEAN /\ phase \in Phase /\ call.n \in 0..Batch
  /\ cache = [h \in Head |-> [k \in 0..(Blocks - 1) |->
                                [p \in 0..(BlockLen - 1) |-> cache[h][k][p]]]]
  /\ offsets = [b \in 0..Batch |-> offsets[b]]
  /\ tpc \in [Thread -> ThreadPC] /\ failed \in [Thread -> BOOLEAN]
  /\ task = [t \in Thread |-> task[t]] /\ cur = [t \in Thread |-> cur[t]]
  /\ acc = [t \in Thread |-> acc[t]] /\ \A t \in Thread : IsABag(acc[t])
  /\ valid \in [Sequence -> [Head -> BOOLEAN]]
  /\ out = [b \in Sequence |-> [q \in QueryHead |-> out[b][q]]]
  /\ \A b \in Sequence, q \in QueryHead : IsABag(out[b][q])
  /\ slot = [k \in 0..(MaxTasks - 1) |-> slot[k]]
  /\ \A k \in 0..(MaxTasks - 1) : IsABag(slot[k])

(* A task of the update job has written its token. *)
Written(k) ==
  LET b == call.first + (k \div (KVHeads * call.q))
      h == (k \div call.q) % KVHeads
      p == lens[b] + (k % call.q)
  IN cache[h][Table[<<b, p \div BlockLen>>]][p % BlockLen] = <<b, h, p>>

UpdateInv ==
  phase = "update" =>
    /\ call.first \in Nat /\ call.q \in Nat \ {0} /\ call.first + call.n <= Batch
    /\ UpdateAccepted(call)
    /\ todo \subseteq 0..(call.n * KVHeads * call.q - 1)
    /\ \A k \in 0..(call.n * KVHeads * call.q - 1) : k \notin todo => Written(k)

InHand(t) == tpc[t] \in {"commit", "work"}

(* The compute job: which tasks are where, and what each thread works on *)
TasksInv ==
  /\ todo \subseteq 0..(offsets[call.n] - 1)
  /\ \A t \in Thread : InHand(t) => task[t] \in 0..(offsets[call.n] - 1) /\ task[t] \notin todo
  /\ \A t, u \in Thread : InHand(t) /\ InHand(u) /\ t # u => task[t] # task[u]

HeadsInv ==
  /\ \A t \in Thread : tpc[t] \in {"next", "commit", "work"} =>
       cur[t] = None \/ cur[t] \in (0..(call.n - 1)) \X Head
  /\ \A t \in Thread : tpc[t] = "commit" =>
       ~ parallel /\ cur[t] # None /\ cur[t] # TaskIdx(task[t])
  /\ \A t \in Thread : tpc[t] = "work" /\ ~ parallel =>
       cur[t] = None \/ cur[t] = TaskIdx(task[t]) \/ GoodBlocks(task[t]) = {}

(* Nothing is in the result of a head before its first commit, and nothing *)
(* is ever committed when the partial results are reduced afterwards.      *)
FreshInv ==
  \A b \in 0..(call.n - 1), h \in Head : \A q \in QueryHead :
    q \div GQA = h /\ (parallel \/ ~ valid[b][h]) => out[b][q] = EmptyBag

ComputeInv == phase = "compute" => TasksInv /\ HeadsInv /\ FreshInv

QueryTask(b, q) == b * (KVHeads * GQA) + q

(* The reduction: a query head is reduced, or its slots hold it. *)
ReduceInv ==
  phase = "reduce" =>
    /\ todo \subseteq 0..(call.n * (KVHeads * GQA) - 1)
    /\ \A b \in 0..(call.n - 1), q \in QueryHead :
         IF QueryTask(b, q) \in todo
         THEN /\ out[b][q] = EmptyBag
              /\ Sum(slot, ReduceSlots(b, KVHead(q))) = SetToBag(Cached(b, KVHead(q)))
         ELSE out[b][q] = SetToBag(Cached(b, KVHead(q)))

ConvertInv ==
  phase = "convert" =>
    \A b \in 0..(call.n - 1), q \in QueryHead : out[b][q] = SetToBag(Cached(b, KVHead(q)))

PhaseInv ==
  /\ phase # "compute" => \A t \in Thread : tpc[t] = "out"
  /\ phase \in {"compute", "reduce", "convert"} => Cut

CacheInv == /\ CacheTypeInv /\ CacheHolds /\ UpdateInv /\ PhaseInv /\ ComputeInv
        /\ ReduceInv /\ ConvertInv /\ Conserved

LEMMA MinIn ==
  ASSUME NEW S \in SUBSET Nat, S # {}
  PROVE  FS!Min(S) \in S
<1>1. \E x \in S : \A y \in S : x <= y
  BY LeastNat
<1>2. FS!Min(S) = CHOOSE x \in S : \A y \in S : x <= y
  BY DEF FS!Min
<1>3. QED BY <1>1, <1>2

LEMMA EmptyIsBag == IsABag(EmptyBag)
BY SetBag

LEMMA CacheInitInv == CacheInit => CacheInv
<1> SUFFICES ASSUME CacheInit PROVE CacheInv
  OBVIOUS
<1>1. CacheTypeInv
  <2>1. 0 \in 0..(Stride * BlockLen) /\ 0 \in 0..Batch
    BY Sizes
  <2>2. /\ phase = "idle" /\ call.n = 0 /\ parallel = TRUE
        /\ lens = [b \in Sequence |-> 0] /\ tpc = [t \in Thread |-> "out"]
        /\ failed = [t \in Thread |-> FALSE]
        /\ cache = [h \in Head |-> [k \in 0..(Blocks - 1) |-> [p \in 0..(BlockLen - 1) |-> Zero]]]
        /\ offsets = [b \in 0..Batch |-> 0]
        /\ task = [t \in Thread |-> 0] /\ cur = [t \in Thread |-> None]
        /\ acc = [t \in Thread |-> EmptyBag]
        /\ valid = [b \in Sequence |-> [h \in Head |-> FALSE]]
        /\ out = [b \in Sequence |-> [q \in QueryHead |-> EmptyBag]]
        /\ slot = [k \in 0..(MaxTasks - 1) |-> EmptyBag]
    BY DEF CacheInit, NoCall
  <2>3. /\ lens \in [Sequence -> 0..(Stride * BlockLen)]
        /\ parallel \in BOOLEAN /\ phase \in Phase /\ call.n \in 0..Batch
        /\ tpc \in [Thread -> ThreadPC] /\ failed \in [Thread -> BOOLEAN]
        /\ valid \in [Sequence -> [Head -> BOOLEAN]]
    BY <2>1, <2>2 DEF Phase, ThreadPC
  <2>4. cache = [h \in Head |-> [k \in 0..(Blocks - 1) |->
                                [p \in 0..(BlockLen - 1) |-> cache[h][k][p]]]]
    <3> DEFINE Z == [k \in 0..(Blocks - 1) |-> [p \in 0..(BlockLen - 1) |-> Zero]]
    <3>1. \A h \in Head : cache[h] = Z
      BY <2>2
    <3>2. [k \in 0..(Blocks - 1) |-> [p \in 0..(BlockLen - 1) |-> Z[k][p]]] = Z
      OBVIOUS
    <3>3. cache = [h \in Head |-> Z]
      BY <2>2
    <3> HIDE DEF Z
    <3>4. QED BY <3>1, <3>2, <3>3
  <2>5. /\ offsets = [b \in 0..Batch |-> offsets[b]]
        /\ task = [t \in Thread |-> task[t]] /\ cur = [t \in Thread |-> cur[t]]
        /\ acc = [t \in Thread |-> acc[t]] /\ \A t \in Thread : IsABag(acc[t])
    BY <2>2, EmptyIsBag
  <2>6. /\ out = [b \in Sequence |-> [q \in QueryHead |-> out[b][q]]]
        /\ \A b \in Sequence, q \in QueryHead : IsABag(out[b][q])
    BY <2>2, EmptyIsBag
  <2>7. /\ slot = [k \in 0..(MaxTasks - 1) |-> slot[k]]
        /\ \A k \in 0..(MaxTasks - 1) : IsABag(slot[k])
    <3> HIDE DEF MaxTasks
    <3>1. QED BY <2>2, EmptyIsBag
  <2>8. QED BY <2>3, <2>4, <2>5, <2>6, <2>7 DEF CacheTypeInv
<1>2. CacheHolds
  <2>1. \A b \in Sequence : lens[b] = 0
    BY DEF CacheInit
  <2>2. QED BY <2>1 DEF CacheHolds
<1>3. phase = "idle" /\ \A t \in Thread : tpc[t] = "out"
  BY DEF CacheInit
<1>4. UpdateInv /\ PhaseInv /\ ComputeInv /\ ReduceInv /\ ConvertInv /\ Conserved
  BY <1>3, Zenon DEF UpdateInv, PhaseInv, ComputeInv, ReduceInv, ConvertInv, Conserved
<1>5. QED BY <1>1, <1>2, <1>4 DEF CacheInv

(* Between calls nothing but the cache is constrained. *)
LEMMA IdleStep ==
  ASSUME CacheInv, CacheTypeInv', UNCHANGED <<cache, lens, tpc>>,
         phase = "idle", phase' \in {"idle", "initialize"}
  PROVE  CacheInv'
<1>1. CacheHolds'
  BY DEF CacheInv, CacheHolds
<1>2. \A t \in Thread : tpc'[t] = "out"
  BY Zenon DEF CacheInv, PhaseInv
<1>3. phase' # "update" /\ phase' # "compute" /\ phase' # "reduce" /\ phase' # "convert"
  OBVIOUS
<1>4. UpdateInv' /\ ComputeInv' /\ ReduceInv' /\ ConvertInv' /\ Conserved'
  BY <1>3, Zenon DEF UpdateInv, ComputeInv, ReduceInv, ConvertInv, Conserved
<1>5. PhaseInv'
  BY <1>2, <1>3 DEF PhaseInv
<1>6. QED BY <1>1, <1>4, <1>5 DEF CacheInv

LEMMA SettingStep == CacheInv /\ (SetParallelReduce \/ EditTable) => CacheInv'
<1> SUFFICES ASSUME CacheInv, SetParallelReduce \/ EditTable PROVE CacheInv'
  OBVIOUS
<1>1. /\ phase = "idle" /\ phase' = "idle" /\ parallel' \in BOOLEAN
      /\ UNCHANGED <<cache, lens, phase, call, todo, offsets, tpc, task, cur, acc, failed,
                     valid, out, slot>>
  BY DEF SetParallelReduce, EditTable, threadvars, resultvars, CacheInv, CacheTypeInv
<1>2. CacheTypeInv'
  BY <1>1 DEF CacheInv, CacheTypeInv
<1>3. QED BY <1>1, <1>2, IdleStep

LEMMA AttnStep == CacheInv /\ Attn => CacheInv'
<1> SUFFICES ASSUME CacheInv, Attn PROVE CacheInv'
  OBVIOUS
<1>1. /\ phase = "idle" /\ phase' = "initialize" /\ call'.n \in 0..Batch
      /\ UNCHANGED <<cache, lens, parallel, todo, offsets, tpc, task, cur, acc, failed,
                     valid, out, slot>>
  BY DEF Attn, threadvars, resultvars
<1>2. CacheTypeInv'
  BY <1>1 DEF CacheInv, CacheTypeInv, Phase
<1>3. QED BY <1>1, <1>2, IdleStep

(* The arguments of an update *)
IsUpdate(c) ==
  c.first \in Nat /\ c.n \in 0..Batch /\ c.q \in Nat \ {0} /\ c.first + c.n <= Batch

LEMMA BeginUpdateStep ==
  ASSUME CacheInv, NEW c, IsUpdate(c), BeginUpdate(c)
  PROVE  CacheInv'
<1>1. /\ phase = "idle"
      /\ UNCHANGED <<cache, lens, hole, parallel, offsets, tpc, task, cur, acc, failed,
                     valid, out, slot>>
  BY DEF BeginUpdate, threadvars, resultvars
<1>2. CASE UpdateAccepted(c)
  <2>1. phase' = "update" /\ call' = c /\ todo' = 0..(c.n * KVHeads * c.q - 1)
    BY <1>2 DEF BeginUpdate
  <2>2. CacheTypeInv'
    BY <1>1, <2>1 DEF CacheInv, CacheTypeInv, Phase, IsUpdate
  <2>3. CacheHolds'
    BY <1>1 DEF CacheInv, CacheHolds
  <2>4. \A t \in Thread : tpc'[t] = "out"
    BY <1>1, Zenon DEF CacheInv, PhaseInv
  <2>5. UpdateAccepted(call)'
    BY <1>1, <1>2, <2>1 DEF UpdateAccepted, Entry, InRange
  <2>6. UpdateInv'
    <3>1. /\ call'.first \in Nat /\ call'.q \in Nat \ {0} /\ call'.first + call'.n <= Batch
          /\ todo' = 0..(call'.n * KVHeads * call'.q - 1)
      BY <2>1 DEF IsUpdate
    <3>2. QED BY <2>5, <3>1 DEF UpdateInv
  <2>7. PhaseInv'
    BY <2>1, <2>4 DEF PhaseInv
  <2>8. phase' # "compute" /\ phase' # "reduce" /\ phase' # "convert"
    BY <2>1
  <2>9. ComputeInv' /\ ReduceInv' /\ ConvertInv' /\ Conserved'
    BY <2>8, Zenon DEF ComputeInv, ReduceInv, ConvertInv, Conserved
  <2>10. QED BY <2>2, <2>3, <2>6, <2>7, <2>9 DEF CacheInv
<1>3. CASE ~ UpdateAccepted(c)
  <2>1. phase' = "idle" /\ UNCHANGED <<call, todo>>
    BY <1>1, <1>3 DEF BeginUpdate
  <2>2. CacheTypeInv'
    BY <1>1, <2>1 DEF CacheInv, CacheTypeInv
  <2>3. QED BY <1>1, <2>1, <2>2, IdleStep
<1>4. QED BY <1>2, <1>3

LEMMA ImportIs == Import => \E c : IsUpdate(c) /\ BeginUpdate(c)
<1> SUFFICES ASSUME Import PROVE \E c : IsUpdate(c) /\ BeginUpdate(c)
  OBVIOUS
<1>1. PICK x \in Imports :
        BeginUpdate([op |-> "import", first |-> x[1], n |-> 1, q |-> x[2]])
  BY DEF Import
<1> DEFINE c == [op |-> "import", first |-> x[1], n |-> 1, q |-> x[2]]
<1>2. x[1] \in 0..(Batch - 1) /\ x[2] \in Nat \ {0} /\ Batch \in Nat \ {0}
  BY Sizes, PositiveAssumption
<1>3. c.first = x[1] /\ c.n = 1 /\ c.q = x[2]
  OBVIOUS
<1>4. IsUpdate(c)
  BY <1>2, <1>3 DEF IsUpdate
<1>5. QED BY <1>1, <1>4

LEMMA DecodeIs == AttnWithKvcache => \E c : IsUpdate(c) /\ BeginUpdate(c)
<1> SUFFICES ASSUME AttnWithKvcache PROVE \E c : IsUpdate(c) /\ BeginUpdate(c)
  OBVIOUS
<1>1. PICK n \in 0..Batch : BeginUpdate([op |-> "decode", first |-> 0, n |-> n, q |-> 1])
  BY DEF AttnWithKvcache
<1> DEFINE c == [op |-> "decode", first |-> 0, n |-> n, q |-> 1]
<1>2. c.first = 0 /\ c.n = n /\ c.q = 1 /\ Batch \in Nat
  BY Sizes
<1>3. IsUpdate(c)
  BY <1>2 DEF IsUpdate
<1>4. QED BY <1>1, <1>3

-----------------------------------------------------------------------------
(* The update job *)

LEMMA DivMono ==
  ASSUME NEW x \in Nat, NEW y \in Nat, x <= y, NEW d \in Nat \ {0}
  PROVE  x \div d \in Nat /\ y \div d \in Nat /\ x \div d <= y \div d
<1> DEFINE u == x \div d
           v == y \div d
           r == x % d
           s == y % d
<1>1. /\ u \in Nat /\ v \in Nat /\ r \in 0..(d - 1) /\ s \in 0..(d - 1)
      /\ x = d * u + r /\ y = d * v + s
  OBVIOUS
<1> HIDE DEF u, v, r, s
<1>2. ~ (v < u)
  <2>1. SUFFICES ASSUME v < u PROVE FALSE
    OBVIOUS
  <2>2. d * (v + 1) <= d * u /\ d * (v + 1) = d * v + d
    BY <1>1, <2>1
  <2> DEFINE a == d * u
             b == d * v
  <2>3. a \in Nat /\ b \in Nat /\ b + d <= a
    BY <1>1, <2>2
  <2>4. x = a + r /\ y = b + s
    BY <1>1
  <2> HIDE DEF a, b
  <2>5. QED BY <1>1, <2>3, <2>4
<1>3. QED BY <1>1, <1>2 DEF u, v

LEMMA SliceOf ==
  ASSUME NEW N \in Nat \ {0}, NEW A \in Nat, NEW a \in 0..(A - 1), NEW s \in 0..(N - 1),
         NEW k, k = a * N + s
  PROVE  k \in 0..(N * A - 1) /\ k \div N = a /\ k % N = s
BY Slices

(* The sequence, head and token of a task of the update job *)
IsUpdateTask(n, q, i, h, r, k) ==
  /\ k \in 0..(n * KVHeads * q - 1)
  /\ k \div (KVHeads * q) = i /\ (k \div q) % KVHeads = h /\ k % q = r

LEMMA UpdateFields ==
  ASSUME NEW n \in Nat, NEW q \in Nat \ {0}
  PROVE  /\ \A k \in 0..(n * KVHeads * q - 1) :
              /\ k \in Nat /\ k \div (KVHeads * q) \in 0..(n - 1)
              /\ (k \div q) % KVHeads \in Head /\ k % q \in 0..(q - 1)
         /\ \A i \in 0..(n - 1), h \in Head, r \in 0..(q - 1) :
              \E k : IsUpdateTask(n, q, i, h, r, k)
<1> DEFINE H == KVHeads
           W == H * q
<1>1. H \in Nat \ {0} /\ Head = 0..(H - 1)
  BY Sizes DEF Head
<1> HIDE DEF H
<1>2. W \in Nat \ {0} /\ W * n = n * H * q /\ q * (n * H) = n * H * q /\ H * n = n * H
      /\ n * H \in Nat /\ W = q * H
  <2>1. W \in Nat /\ W >= 1 /\ n * H \in Nat
    BY <1>1
  <2>2. W * n = n * W /\ n * W = n * H * q
    BY <1>1
  <2>3. q * (n * H) = n * H * q /\ H * n = n * H /\ W = q * H
    BY <1>1
  <2>4. QED BY <2>1, <2>2, <2>3
<1> HIDE DEF W
<1>3. ASSUME NEW k \in 0..(n * H * q - 1)
      PROVE  /\ k \in Nat /\ k \div W \in 0..(n - 1)
             /\ (k \div q) % H \in Head /\ k % q \in 0..(q - 1)
  <2>1. k \in 0..(W * n - 1) /\ k \in 0..(q * (n * H) - 1)
    BY <1>2
  <2>2. k \div W \in 0..(n - 1)
    BY <1>2, <2>1, Slices
  <2>3. k \div q \in 0..(n * H - 1) /\ k % q \in 0..(q - 1)
    BY <1>2, <2>1, Slices
  <2>4. k \div q \in 0..(H * n - 1)
    BY <1>2, <2>3
  <2>5. (k \div q) % H \in 0..(H - 1)
    BY <1>1, <2>4, Slices
  <2>6. QED BY <1>1, <2>2, <2>3, <2>5
<1>4. ASSUME NEW i \in 0..(n - 1), NEW h \in Head, NEW r \in 0..(q - 1)
      PROVE  \E k : IsUpdateTask(n, q, i, h, r, k)
  <2> DEFINE s == h * q + r
             a == i * H + h
             k == i * W + s
  <2>1. s \in 0..(W - 1)
    BY <1>1, <1>2, Slices
  <2>2. k \in 0..(W * n - 1) /\ k \div W = i
    <3> HIDE DEF s
    <3>1. W \in Nat \ {0} /\ k = i * W + s
      BY <1>2
    <3> HIDE DEF k
    <3>2. QED BY ONLY <2>1, <3>1, n \in Nat, i \in 0..(n - 1), SliceOf
  <2>3. a \in 0..(H * n - 1) /\ a % H = h
    <3>1. H \in Nat \ {0} /\ h \in 0..(H - 1) /\ a = i * H + h
      BY <1>1
    <3> HIDE DEF a
    <3>2. QED BY ONLY <3>1, n \in Nat, i \in 0..(n - 1), SliceOf
  <2>4. k = a * q + r
    <3>1. i * W = i * H * q
      BY <1>1 DEF W
    <3>2. (i * H + h) * q = i * H * q + h * q /\ i * H * q \in Nat /\ h * q \in Nat
      BY <1>1
    <3>3. QED BY <3>1, <3>2
  <2> HIDE DEF k
  <2>5. k \div q = a /\ k % q = r
    <3> HIDE DEF a
    <3>1. a \in 0..(n * H - 1) /\ n * H \in Nat
      BY <1>2, <2>3
    <3>2. QED BY ONLY <2>4, <3>1, q \in Nat \ {0}, r \in 0..(q - 1), SliceOf
  <2>6. k \in 0..(n * H * q - 1) /\ k \div W = i /\ (k \div q) % H = h /\ k % q = r
    BY <1>2, <2>2, <2>3, <2>5
  <2>7. IsUpdateTask(n, q, i, h, r, k)
    BY <2>6 DEF W, H, IsUpdateTask
  <2>8. QED BY <2>7
<1>5. QED BY <1>3, <1>4 DEF W, H

(* No two tokens share a cell. *)
LEMMA CellOf ==
  ASSUME NEW b \in Sequence, NEW p \in 0..(Stride * BlockLen - 1)
  PROVE  /\ Table[<<b, p \div BlockLen>>] \in 0..(Blocks - 1) /\ p % BlockLen \in 0..(BlockLen - 1)
         /\ \A c \in Sequence, r \in 0..(Stride * BlockLen - 1) :
              Table[<<b, p \div BlockLen>>] = Table[<<c, r \div BlockLen>>]
                /\ p % BlockLen = r % BlockLen => b = c /\ p = r
<1>1. BlockLen \in Nat \ {0} /\ Stride \in Nat /\ Stride * BlockLen = BlockLen * Stride
  BY Sizes
<1>2. ASSUME NEW r \in 0..(Stride * BlockLen - 1)
      PROVE  /\ r \div BlockLen \in 0..(Stride - 1) /\ r % BlockLen \in 0..(BlockLen - 1)
             /\ (r \div BlockLen) * BlockLen + (r % BlockLen) = r
  BY <1>1, Slices
<1>3. Table \in [(0..(Batch - 1)) \X (0..(Stride - 1)) -> 0..(Blocks - 1)]
  BY TableAssumption
<1>4. Table[<<b, p \div BlockLen>>] \in 0..(Blocks - 1)
  BY <1>2, <1>3 DEF Sequence
<1>5. ASSUME NEW c \in Sequence, NEW r \in 0..(Stride * BlockLen - 1),
             Table[<<b, p \div BlockLen>>] = Table[<<c, r \div BlockLen>>],
             p % BlockLen = r % BlockLen
      PROVE  b = c /\ p = r
  <2>1. <<b, p \div BlockLen>> \in DOMAIN Table /\ <<c, r \div BlockLen>> \in DOMAIN Table
    BY <1>2, <1>3 DEF Sequence
  <2>2. <<b, p \div BlockLen>> = <<c, r \div BlockLen>>
    BY <1>5, <2>1, TableAssumption
  <2>3. b = c /\ p \div BlockLen = r \div BlockLen
    BY <2>2
  <2>4. QED BY <1>2, <1>5, <2>3
<1>6. QED BY <1>2, <1>4, <1>5

LEMMA UpdateTask ==
  ASSUME CacheTypeInv, UpdateInv, phase = "update",
         NEW k \in 0..(call.n * KVHeads * call.q - 1),
         NEW b, b = call.first + (k \div (KVHeads * call.q)),
         NEW p, p = lens[b] + (k % call.q)
  PROVE  /\ k \in Nat /\ (k \div call.q) % KVHeads \in Head
         /\ b \in Sequence /\ lens[b] \in Nat /\ p \in Nat /\ lens[b] <= p
         /\ p \in 0..(Stride * BlockLen - 1)
         /\ Entry(b, p \div BlockLen) = Table[<<b, p \div BlockLen>>]
<1>1. /\ call.first \in Nat /\ call.q \in Nat \ {0} /\ call.first + call.n <= Batch
      /\ UpdateAccepted(call)
  BY DEF UpdateInv
<1>2. call.n \in Nat /\ Batch \in Nat /\ BlockLen \in Nat \ {0} /\ Stride * BlockLen \in Nat
  BY Sizes DEF CacheTypeInv
<1> DEFINE i == k \div (KVHeads * call.q)
           r == k % call.q
<1>3. k \in Nat /\ i \in 0..(call.n - 1) /\ (k \div call.q) % KVHeads \in Head /\ r \in 0..(call.q - 1)
  BY <1>1, <1>2, UpdateFields
<1> HIDE DEF i, r
<1>4. b = call.first + i /\ p = lens[b] + r
  BY DEF i, r
<1>5. b \in Sequence
  BY <1>1, <1>2, <1>3, <1>4 DEF Sequence
<1>6. lens[b] \in 0..(Stride * BlockLen) /\ lens[b] \in Nat
  BY <1>2, <1>5 DEF CacheTypeInv
<1>7. /\ lens[b] + call.q <= Stride * BlockLen
      /\ \A j \in (lens[b] \div BlockLen)..((lens[b] + call.q - 1) \div BlockLen) : InRange(Entry(b, j))
  <2> DEFINE Fits(z) == /\ lens[z] + call.q <= Stride * BlockLen
                        /\ \A j \in (lens[z] \div BlockLen)..((lens[z] + call.q - 1) \div BlockLen) :
                             InRange(Entry(z, j))
  <2>1. \A m \in 0..(call.n - 1) : Fits(call.first + m)
    <3>1. UpdateAccepted(call)
      BY <1>1
    <3>2. SUFFICES ASSUME NEW m \in 0..(call.n - 1) PROVE Fits(call.first + m)
      OBVIOUS
    <3>3. lens[call.first + m] + call.q <= Stride * BlockLen
      BY ONLY <3>1, m \in 0..(call.n - 1) DEF UpdateAccepted
    <3>3a. lens[call.first + m] \in 0..(Stride * BlockLen) /\ lens[call.first + m] \in Nat
      <4>1. call.first + m \in Sequence
        BY <1>1, <1>2 DEF Sequence
      <4>2. QED BY <1>2, <4>1 DEF CacheTypeInv
    <3>4. \A j \in (lens[call.first + m] \div BlockLen)..((lens[call.first + m] + call.q - 1) \div BlockLen) :
            InRange(Entry(call.first + m, j))
      BY ONLY <1>1, <1>2, <3>1, <3>3a, m \in 0..(call.n - 1) DEF UpdateAccepted
    <3>5. QED BY ONLY <3>3, <3>4
  <2> HIDE DEF Fits
  <2>2. Fits(call.first + i)
    BY <1>3, <2>1
  <2>3. Fits(b)
    BY <1>4, <2>2
  <2>4. QED BY <2>3 DEF Fits
<1>8. p \in Nat /\ lens[b] <= p /\ p <= lens[b] + call.q - 1 /\ lens[b] + call.q - 1 \in Nat
  BY <1>1, <1>3, <1>4, <1>6
<1>9. p \in 0..(Stride * BlockLen - 1)
  <2> DEFINE m == Stride * BlockLen
  <2>1. m \in Nat /\ lens[b] + call.q <= m
    BY <1>2, <1>7
  <2> HIDE DEF m
  <2>2. p \in 0..(m - 1)
    BY <1>1, <1>6, <1>8, <2>1
  <2>3. QED BY <2>2 DEF m
<1>10. InRange(Entry(b, p \div BlockLen))
  <2> DEFINE j == p \div BlockLen
             x == lens[b] \div BlockLen
             y == (lens[b] + call.q - 1) \div BlockLen
  <2>1. j \in Nat /\ x \in Nat /\ x <= j
    BY <1>2, <1>6, <1>8, DivMono
  <2>2. y \in Nat /\ j <= y
    BY <1>2, <1>6, <1>8, DivMono
  <2>3. \A z \in x..y : InRange(Entry(b, z))
    BY <1>7
  <2> HIDE DEF j, x, y
  <2>4. j \in x..y
    BY <2>1, <2>2
  <2>5. InRange(Entry(b, j))
    BY <2>3, <2>4
  <2>6. QED BY <2>5 DEF j
<1>11. Entry(b, p \div BlockLen) = Table[<<b, p \div BlockLen>>]
  BY <1>10 DEF InRange, Entry
<1>12. QED BY <1>3, <1>5, <1>6, <1>8, <1>9, <1>11

LEMMA UpdateFits ==
  ASSUME CacheTypeInv, UpdateInv, phase = "update",
         NEW b \in call.first..(call.first + call.n - 1)
  PROVE  b \in Sequence /\ lens[b] \in Nat /\ lens[b] + call.q <= Stride * BlockLen
<1>1. /\ call.first \in Nat /\ call.q \in Nat \ {0} /\ call.first + call.n <= Batch
      /\ UpdateAccepted(call) /\ call.n \in Nat /\ Batch \in Nat /\ Stride * BlockLen \in Nat
  BY Sizes DEF UpdateInv, CacheTypeInv
<1>2. b - call.first \in 0..(call.n - 1) /\ call.first + (b - call.first) = b /\ b \in Sequence
  BY <1>1 DEF Sequence
<1>3. lens[b] \in Nat
  BY <1>1, <1>2 DEF CacheTypeInv
<1> DEFINE i == b - call.first
<1>4. i \in 0..(call.n - 1) /\ call.first + i = b
  BY <1>2
<1> HIDE DEF i
<1>5. lens[call.first + i] + call.q <= Stride * BlockLen
  BY ONLY <1>1, <1>4 DEF UpdateAccepted
<1>6. QED BY <1>2, <1>3, <1>4, <1>5

LEMMA WriteStep == CacheInv /\ WriteToken => CacheInv'
<1> SUFFICES ASSUME CacheInv, WriteToken PROVE CacheInv'
  OBVIOUS
<1> DEFINE total == call.n * KVHeads * call.q
<1>1. /\ phase = "update" /\ todo # {}
      /\ UNCHANGED <<lens, hole, parallel, phase, call, offsets, tpc, task, cur, acc, failed,
                     valid, out, slot>>
  BY Zenon DEF WriteToken, callervars, threadvars, resultvars
<1>2. CacheTypeInv /\ UpdateInv /\ CacheHolds /\ PhaseInv
  BY DEF CacheInv
<1>3. /\ call.first \in Nat /\ call.q \in Nat \ {0} /\ call.first + call.n <= Batch
      /\ UpdateAccepted(call) /\ todo \subseteq 0..(total - 1)
      /\ \A k \in 0..(total - 1) : k \notin todo => Written(k)
  BY <1>1, <1>2 DEF UpdateInv
<1> HIDE DEF total
<1>4. PICK k \in todo : k = FS!Min(todo)
  <2>1. todo \in SUBSET Nat
    <3>1. \A x \in 0..(total - 1) : x \in Nat
      OBVIOUS
    <3>2. QED BY <1>3, <3>1
  <2>2. QED BY <1>1, <2>1, MinIn
<1>5. PICK b : b = call.first + (k \div (KVHeads * call.q))
  OBVIOUS
<1>6. PICK h : h = (k \div call.q) % KVHeads
  OBVIOUS
<1>7. PICK p : p = lens[b] + (k % call.q)
  OBVIOUS
<1>8. /\ h \in Head /\ b \in Sequence /\ p \in 0..(Stride * BlockLen - 1)
      /\ Entry(b, p \div BlockLen) = Table[<<b, p \div BlockLen>>]
  <2>1. k \in 0..(call.n * KVHeads * call.q - 1)
    BY <1>3, <1>4 DEF total
  <2>2. QED BY <1>1, <1>2, <1>5, <1>6, <1>7, <2>1, UpdateTask
<1> DEFINE e == Table[<<b, p \div BlockLen>>]
           r == p % BlockLen
<1>9. /\ cache' = [cache EXCEPT ![h][e][r] = <<b, h, p>>]
      /\ todo' = todo \ {k}
  <2>1. /\ cache' = [cache EXCEPT ![h][Entry(b, p \div BlockLen)][p % BlockLen] = <<b, h, p>>]
        /\ todo' = todo \ {k}
    BY <1>4, <1>5, <1>6, <1>7, Zenon DEF WriteToken
  <2>2. QED BY <1>8, <2>1, Zenon
<1>10. e \in 0..(Blocks - 1) /\ r \in 0..(BlockLen - 1)
  BY <1>8, CellOf
<1>11. ASSUME NEW x \in Head, NEW y \in 0..(Blocks - 1), NEW z \in 0..(BlockLen - 1)
       PROVE  cache'[x][y][z] = IF x = h /\ y = e /\ z = r THEN <<b, h, p>> ELSE cache[x][y][z]
  <2> HIDE DEF e, r
  <2> DEFINE row == cache[h][e]
             rows == cache[h]
             row2 == [row EXCEPT ![r] = <<b, h, p>>]
             rows2 == [rows EXCEPT ![e] = row2]
  <2>1. cache' = [cache EXCEPT ![h] = rows2]
    BY <1>9, Zenon
  <2>2. cache'[x] = IF x = h THEN rows2 ELSE cache[x]
    <3> HIDE DEF rows2
    <3>1. cache = [i \in Head |-> cache[i]]
      BY <1>2 DEF CacheTypeInv
    <3>2. QED BY <1>8, <2>1, <3>1
  <2>3. rows2[y] = IF y = e THEN row2 ELSE rows[y]
    <3> HIDE DEF row2
    <3>1. rows = [i \in 0..(Blocks - 1) |-> rows[i]]
      BY <1>2, <1>8 DEF CacheTypeInv
    <3> HIDE DEF rows
    <3>2. QED BY <1>10, <3>1
  <2>4. row2[z] = IF z = r THEN <<b, h, p>> ELSE row[z]
    <3>1. row = [i \in 0..(BlockLen - 1) |-> row[i]]
      BY <1>2, <1>8, <1>10 DEF CacheTypeInv
    <3> HIDE DEF row
    <3>2. QED BY <1>10, <3>1
  <2> HIDE DEF row2, rows2
  <2>5. QED BY <2>2, <2>3, <2>4, Zenon DEF row, rows
<1>12. cache' = [x \in Head |-> [y \in 0..(Blocks - 1) |->
                                   [z \in 0..(BlockLen - 1) |-> cache'[x][y][z]]]]
  <2> HIDE DEF e, r
  <2> DEFINE row == cache[h][e]
             rows == cache[h]
             row2 == [row EXCEPT ![r] = <<b, h, p>>]
             rows2 == [rows EXCEPT ![e] = row2]
  <2>1. row = [z \in 0..(BlockLen - 1) |-> row[z]]
    BY <1>2, <1>8, <1>10 DEF CacheTypeInv
  <2>2. rows = [y \in 0..(Blocks - 1) |-> [z \in 0..(BlockLen - 1) |-> rows[y][z]]]
    BY <1>2, <1>8 DEF CacheTypeInv
  <2>3. cache' = [cache EXCEPT ![h] = rows2]
    BY <1>9, Zenon
  <2> HIDE DEF row
  <2>4. row2 = [z \in 0..(BlockLen - 1) |-> row2[z]]
    BY <2>1
  <2> HIDE DEF row2, rows
  <2>5. rows2 = [y \in 0..(Blocks - 1) |-> [z \in 0..(BlockLen - 1) |-> rows2[y][z]]]
    BY <2>2, <2>4, <1>10
  <2> HIDE DEF rows2
  <2>6. \A x \in Head : cache'[x] = IF x = h THEN rows2 ELSE cache[x]
    BY <1>2, <2>3 DEF CacheTypeInv
  <2>7. \A x \in Head : cache[x] = [y \in 0..(Blocks - 1) |-> [z \in 0..(BlockLen - 1) |-> cache[x][y][z]]]
    BY <1>2 DEF CacheTypeInv
  <2>8. \A x \in Head : cache'[x] = [y \in 0..(Blocks - 1) |-> [z \in 0..(BlockLen - 1) |-> cache'[x][y][z]]]
    BY <2>5, <2>6, <2>7
  <2>9. cache' = [x \in Head |-> cache'[x]]
    BY <1>2, <2>3 DEF CacheTypeInv
  <2>10. QED BY <2>8, <2>9
<1>13. CacheTypeInv'
  BY <1>1, <1>2, <1>12 DEF CacheTypeInv
<1>14. ASSUME NEW b1 \in Sequence, NEW h1 \in Head, NEW p1 \in 0..(Stride * BlockLen - 1),
              \/ cache[h1][Table[<<b1, p1 \div BlockLen>>]][p1 % BlockLen] = <<b1, h1, p1>>
              \/ b1 = b /\ h1 = h /\ p1 = p
       PROVE  cache'[h1][Table[<<b1, p1 \div BlockLen>>]][p1 % BlockLen] = <<b1, h1, p1>>
  <2> DEFINE e1 == Table[<<b1, p1 \div BlockLen>>]
             r1 == p1 % BlockLen
  <2>1. e1 \in 0..(Blocks - 1) /\ r1 \in 0..(BlockLen - 1)
    BY CellOf
  <2>2. cache'[h1][e1][r1] = IF h1 = h /\ e1 = e /\ r1 = r THEN <<b, h, p>> ELSE cache[h1][e1][r1]
    BY <1>11, <2>1
  <2>3. h1 = h /\ e1 = e /\ r1 = r => b1 = b /\ p1 = p
    BY <1>8, CellOf
  <2>4. b1 = b /\ h1 = h /\ p1 = p => h1 = h /\ e1 = e /\ r1 = r
    OBVIOUS
  <2> HIDE DEF e, r, e1, r1
  <2>5. QED BY ONLY <1>14, <2>2, <2>3, <2>4 DEF e1, r1
<1>15. CacheHolds'
  <2>1. SUFFICES ASSUME NEW b1 \in Sequence, NEW h1 \in Head, NEW p1 \in 0..(lens[b1] - 1)
                 PROVE  cache'[h1][Table[<<b1, p1 \div BlockLen>>]][p1 % BlockLen] = <<b1, h1, p1>>
    BY <1>1, Zenon DEF CacheHolds
  <2>2. lens[b1] \in 0..(Stride * BlockLen) /\ Stride * BlockLen \in Nat
    BY <1>2, Sizes DEF CacheTypeInv
  <2>3. p1 \in 0..(Stride * BlockLen - 1)
    <3> DEFINE m == Stride * BlockLen
    <3>1. lens[b1] \in 0..m /\ m \in Nat
      BY <2>2
    <3> HIDE DEF m
    <3>2. p1 \in 0..(m - 1)
      BY <3>1
    <3>3. QED BY <3>2 DEF m
  <2>4. cache[h1][Table[<<b1, p1 \div BlockLen>>]][p1 % BlockLen] = <<b1, h1, p1>>
    BY <1>2, Zenon DEF CacheHolds
  <2>5. QED BY <1>14, <2>3, <2>4, Zenon
<1>16. UpdateInv'
  <2>1. todo' \subseteq 0..(total - 1)
    BY <1>3, <1>9
  <2>2. ASSUME NEW k1 \in 0..(total - 1), k1 \notin todo' PROVE Written(k1)'
    <3>1. PICK b1 : b1 = call.first + (k1 \div (KVHeads * call.q))
      OBVIOUS
    <3>2. PICK h1 : h1 = (k1 \div call.q) % KVHeads
      OBVIOUS
    <3>3. PICK p1 : p1 = lens[b1] + (k1 % call.q)
      OBVIOUS
    <3>4. h1 \in Head /\ b1 \in Sequence /\ p1 \in 0..(Stride * BlockLen - 1)
      <4>1. k1 \in 0..(call.n * KVHeads * call.q - 1)
        BY DEF total
      <4>2. QED BY <1>1, <1>2, <3>1, <3>2, <3>3, <4>1, UpdateTask
    <3>5. \/ cache[h1][Table[<<b1, p1 \div BlockLen>>]][p1 % BlockLen] = <<b1, h1, p1>>
          \/ b1 = b /\ h1 = h /\ p1 = p
      <4>1. CASE k1 = k
        BY <1>5, <1>6, <1>7, <3>1, <3>2, <3>3, <4>1
      <4>2. CASE k1 # k
        <5>1. Written(k1)
          BY <1>3, <1>9, <2>2, <4>2
        <5>2. QED BY <3>1, <3>2, <3>3, <5>1, Zenon DEF Written
      <4>3. QED BY <4>1, <4>2
    <3>6. cache'[h1][Table[<<b1, p1 \div BlockLen>>]][p1 % BlockLen] = <<b1, h1, p1>>
      BY <1>14, <3>4, <3>5, Zenon
    <3>7. QED BY <1>1, <3>1, <3>2, <3>3, <3>6, Zenon DEF Written
  <2>3. UpdateAccepted(call)'
    BY <1>1, <1>3 DEF UpdateAccepted, Entry, InRange
  <2>4. total' = total
    BY <1>1 DEF total
  <2>5. QED BY <1>1, <1>3, <2>1, <2>2, <2>3, <2>4 DEF UpdateInv, total
<1>17. PhaseInv' /\ ComputeInv' /\ ReduceInv' /\ ConvertInv' /\ Conserved'
  <2>1. phase' # "compute" /\ phase' # "reduce" /\ phase' # "convert"
    BY <1>1
  <2>2. \A t \in Thread : tpc'[t] = "out"
    BY <1>1, <1>2, Zenon DEF PhaseInv
  <2>3. QED BY <2>1, <2>2, Zenon DEF PhaseInv, ComputeInv, ReduceInv, ConvertInv, Conserved
<1>18. QED BY <1>13, <1>15, <1>16, <1>17 DEF CacheInv

LEMMA UpdateReturnStep == CacheInv /\ UpdateReturn => CacheInv'
<1> SUFFICES ASSUME CacheInv, UpdateReturn PROVE CacheInv'
  OBVIOUS
<1>1. /\ phase = "update" /\ todo = {} /\ lens' = Grown
      /\ phase' \in {"idle", "initialize"} /\ call' \in {call, NoCall}
      /\ UNCHANGED <<cache, parallel, offsets, tpc, task, cur, acc, failed, valid, out, slot>>
  BY DEF UpdateReturn, callervars, threadvars, resultvars
<1>2. CacheTypeInv /\ UpdateInv /\ CacheHolds /\ PhaseInv
  BY DEF CacheInv
<1>3. /\ call.first \in Nat /\ call.q \in Nat \ {0} /\ call.first + call.n <= Batch
      /\ call.n \in Nat
      /\ \A k \in 0..(call.n * KVHeads * call.q - 1) : Written(k)
  BY <1>1, <1>2, Sizes DEF UpdateInv, CacheTypeInv
<1>4. ASSUME NEW b \in Sequence
      PROVE  lens'[b] \in 0..(Stride * BlockLen)
  <2>1. lens[b] \in 0..(Stride * BlockLen) /\ Stride * BlockLen \in Nat
    BY <1>2, Sizes DEF CacheTypeInv
  <2>2. lens'[b] = IF b \in call.first..(call.first + call.n - 1) THEN lens[b] + call.q ELSE lens[b]
    BY <1>1 DEF Grown
  <2> DEFINE m == Stride * BlockLen
  <2>3. b \in call.first..(call.first + call.n - 1) => lens[b] + call.q <= m
    BY <1>1, <1>2, UpdateFits
  <2>4. lens[b] \in 0..m /\ m \in Nat
    BY <2>1
  <2> HIDE DEF m
  <2>5. lens'[b] \in 0..m
    BY <1>3, <2>2, <2>3, <2>4
  <2>6. QED BY <2>5 DEF m
<1>5. CacheTypeInv'
  <2>1. lens' \in [Sequence -> 0..(Stride * BlockLen)]
    BY <1>1, <1>4 DEF Grown
  <2>2. call'.n \in 0..Batch
    BY <1>1, <1>2, Sizes DEF CacheTypeInv, NoCall
  <2>3. QED BY <1>1, <1>2, <2>1, <2>2 DEF CacheTypeInv, Phase
<1>6. CacheHolds'
  <2>1. SUFFICES ASSUME NEW b \in Sequence, NEW h \in Head, NEW p \in 0..(lens'[b] - 1)
                 PROVE  cache[h][Table[<<b, p \div BlockLen>>]][p % BlockLen] = <<b, h, p>>
    BY <1>1, Zenon DEF CacheHolds
  <2>2. lens[b] \in Nat /\ lens'[b] \in Nat /\ b \in Nat
    <3>1. lens[b] \in 0..(Stride * BlockLen)
      BY <1>2 DEF CacheTypeInv
    <3>2. QED BY <1>4, <3>1 DEF Sequence
  <2>3. lens'[b] = IF b \in call.first..(call.first + call.n - 1) THEN lens[b] + call.q ELSE lens[b]
    BY <1>1 DEF Grown
  <2>4. CASE p < lens[b]
    <3>1. p \in 0..(lens[b] - 1)
      BY <2>2, <2>4
    <3>2. QED BY <1>2, <3>1, Zenon DEF CacheHolds
  <2>5. CASE ~ (p < lens[b])
    <3> DEFINE i == b - call.first
               r == p - lens[b]
    <3>1. b \in call.first..(call.first + call.n - 1)
      BY <2>2, <2>3, <2>5
    <3>2. i \in 0..(call.n - 1) /\ b = call.first + i
      BY <1>3, <2>2, <3>1
    <3>3. r \in 0..(call.q - 1) /\ p = lens[b] + r
      BY <1>3, <2>2, <2>3, <2>5, <3>1
    <3> HIDE DEF i, r
    <3>4. PICK k \in 0..(call.n * KVHeads * call.q - 1) :
            k \div (KVHeads * call.q) = i /\ (k \div call.q) % KVHeads = h /\ k % call.q = r
      <4>1. call.n \in Nat /\ call.q \in Nat \ {0}
        BY <1>3
      <4>2. \E k : IsUpdateTask(call.n, call.q, i, h, r, k)
        BY ONLY <4>1, <3>2, <3>3, h \in Head, UpdateFields
      <4>3. QED BY ONLY <4>2 DEF IsUpdateTask
    <3>5. Written(k)
      BY <1>3
    <3>6. QED BY <3>2, <3>3, <3>4, <3>5, Zenon DEF Written
  <2>6. QED BY <2>4, <2>5
<1>7. UpdateInv' /\ PhaseInv' /\ ComputeInv' /\ ReduceInv' /\ ConvertInv' /\ Conserved'
  <2>1. phase' # "update" /\ phase' # "compute" /\ phase' # "reduce" /\ phase' # "convert"
    BY <1>1
  <2>2. \A t \in Thread : tpc'[t] = "out"
    <3>1. phase # "compute"
      BY <1>1
    <3>2. QED BY <1>1, <1>2, <3>1, Zenon DEF PhaseInv
  <2>3. QED BY <2>1, <2>2, Zenon DEF UpdateInv, PhaseInv, ComputeInv, ReduceInv, ConvertInv, Conserved
<1>8. QED BY <1>5, <1>6, <1>7 DEF CacheInv

-----------------------------------------------------------------------------
(* The start of the compute job *)

(* The recursive function of TaskOffsets exists: by induction there is one *)
(* up to every m, and so the one that is chosen has its equations.         *)
LEMMA TaskOffsetsDef ==
  /\ TaskOffsets[0] = 0
  /\ \A b \in 0..(Batch - 1) : TaskOffsets[b + 1] = TaskOffsets[b] + NumChunks(b) * KVHeads
<1> DEFINE g(b) == NumChunks(b) * KVHeads
           Up(m, f) == f = [b \in 0..m |-> f[b]] /\ f[0] = 0 /\ \A b \in 1..m : f[b] = f[b - 1] + g(b - 1)
           Done == {m \in 0..Batch : \E f : Up(m, f)}
           P(f) == f = [b \in 0..Batch |-> IF b = 0 THEN 0 ELSE f[b - 1] + g(b - 1)]
<1>1. Batch \in Nat
  BY Sizes
<1>2. TaskOffsets = CHOOSE f : P(f)
  BY Zenon DEF TaskOffsets
<1> HIDE DEF g
<1>3. 0 \in Done
  <2>1. Up(0, [b \in 0..0 |-> 0])
    OBVIOUS
  <2>2. \E f : Up(0, f)
    BY <2>1
  <2>3. QED BY ONLY <1>1, <2>2
<1>4. ASSUME NEW m \in 1..Batch, m - 1 \in Done PROVE m \in Done
  <2>1. PICK f : Up(m - 1, f)
    BY <1>4
  <2> DEFINE e == [b \in 0..m |-> IF b = m THEN f[m - 1] + g(m - 1) ELSE f[b]]
  <2>2. m \in Nat /\ m - 1 \in 0..(m - 1) /\ m \in 0..Batch /\ 0 \in 0..(m - 1) /\ m # 0
    BY <1>1
  <2>3. e = [b \in 0..m |-> e[b]] /\ e[0] = 0
    <3>1. 0 \in 0..m /\ f[0] = 0
      BY <2>1, <2>2
    <3>2. QED BY <2>2, <3>1
  <2>4. ASSUME NEW b \in 1..m PROVE e[b] = e[b - 1] + g(b - 1)
    <3>1. b \in 0..m /\ b - 1 \in 0..m /\ b - 1 # m /\ (b # m => b \in 1..(m - 1))
      BY <2>2
    <3>2. /\ e[b - 1] = f[b - 1]
          /\ b = m => e[b] = f[b - 1] + g(b - 1)
          /\ b # m => e[b] = f[b]
      BY <3>1
    <3>3. b # m => f[b] = f[b - 1] + g(b - 1)
      BY <2>1, <3>1
    <3>4. QED BY ONLY <3>2, <3>3
  <2> HIDE DEF e
  <2>5. Up(m, e)
    BY <2>3, <2>4
  <2>6. \E f1 : Up(m, f1)
    BY <2>5
  <2>7. QED BY ONLY <2>2, <2>6
<1>5. \A m \in 0..Batch : m \in Done
  <2> HIDE DEF Done
  <2>1. QED BY ONLY <1>1, <1>3, <1>4, UpTo
<1>6. \E f : Up(Batch, f)
  <2>1. Batch \in 0..Batch
    BY <1>1
  <2>2. Batch \in Done
    BY <1>5, <2>1
  <2>3. QED BY <2>2
<1>7. PICK f : Up(Batch, f)
  BY <1>6
<1>8. P(f)
  <2>1. ASSUME NEW b \in 0..Batch PROVE f[b] = IF b = 0 THEN 0 ELSE f[b - 1] + g(b - 1)
    <3>1. b = 0 \/ b \in 1..Batch
      OBVIOUS
    <3>2. QED BY <1>7, <3>1
  <2>2. f = [b \in 0..Batch |-> f[b]]
    BY <1>7
  <2>3. QED BY <2>1, <2>2
<1>9. P(TaskOffsets)
  <2> HIDE DEF P
  <2>1. QED BY <1>2, <1>8
<1>10. TaskOffsets[0] = 0
  <2>1. 0 \in 0..Batch
    BY <1>1
  <2>2. QED BY <1>9, <2>1
<1>11. ASSUME NEW b \in 0..(Batch - 1) PROVE TaskOffsets[b + 1] = TaskOffsets[b] + g(b)
  <2>1. b + 1 \in 0..Batch /\ b + 1 # 0 /\ (b + 1) - 1 = b
    BY <1>1
  <2>2. TaskOffsets[b + 1] = IF b + 1 = 0 THEN 0 ELSE TaskOffsets[(b + 1) - 1] + g((b + 1) - 1)
    BY <1>9, <2>1
  <2>3. QED BY <2>1, <2>2
<1>12. QED BY <1>10, <1>11 DEF g

(* What the cut into tasks gives, in one predicate *)
CutFacts ==
  Cut =>
    /\ call.n \in Nat /\ offsets[call.n] \in Nat /\ offsets[call.n] <= MaxTasks /\ MaxTasks \in Nat
    /\ \A b \in 0..(call.n - 1) : b \in Sequence
    /\ \A b \in 0..(call.n - 1), h \in Head :
         /\ ReduceSlots(b, h) = {k \in 0..(offsets[call.n] - 1) : TaskIdx(k) = <<b, h>>}
         /\ IsFiniteSet(ReduceSlots(b, h))
         /\ Sum([k \in ReduceSlots(b, h) |-> TokensOf(b, h, k)], ReduceSlots(b, h))
              = SetToBag(Cached(b, h))
    /\ \A k \in 0..(offsets[call.n] - 1) :
         /\ TaskIdx(k) \in (0..(call.n - 1)) \X Head
         /\ IsABag(Partial(k))
         /\ Complete(k) => GoodBlocks(k) # {}
         /\ CacheHolds /\ Complete(k) =>
              \A b, h : TaskIdx(k) = <<b, h>> => Partial(k) = TokensOf(b, h, k)

LEMMA CutFactsHold == CutFacts
<1> SUFFICES ASSUME Cut PROVE CutFacts
  BY DEF CutFacts
<1>1. call.n \in Nat /\ offsets[call.n] \in Nat /\ offsets[call.n] <= MaxTasks /\ MaxTasks \in Nat
  <2>1. call.n \in 0..Batch /\ Batch \in Nat
    BY Sizes DEF Cut
  <2>2. call.n \in 0..call.n
    BY <2>1
  <2>3. QED BY <2>1, <2>2, CutTypes
<1>2. \A b \in 0..(call.n - 1) : b \in Sequence
  BY ChunkWidth
<1>3. ASSUME NEW b \in 0..(call.n - 1), NEW h \in Head
      PROVE  /\ ReduceSlots(b, h) = {k \in 0..(offsets[call.n] - 1) : TaskIdx(k) = <<b, h>>}
             /\ IsFiniteSet(ReduceSlots(b, h))
             /\ Sum([k \in ReduceSlots(b, h) |-> TokensOf(b, h, k)], ReduceSlots(b, h))
                  = SetToBag(Cached(b, h))
  BY SlotsOf, WholeOf
<1>4. ASSUME NEW k \in 0..(offsets[call.n] - 1)
      PROVE  /\ TaskIdx(k) \in (0..(call.n - 1)) \X Head
             /\ IsABag(Partial(k))
             /\ Complete(k) => GoodBlocks(k) # {}
  BY TaskAt, PartialIs DEF TaskIdx
<1>5. ASSUME NEW k \in 0..(offsets[call.n] - 1), CacheHolds, Complete(k),
             NEW b, NEW h, TaskIdx(k) = <<b, h>>
      PROVE  Partial(k) = TokensOf(b, h, k)
  <2>1. b = TaskSeq(k) /\ h = TaskHead(k)
    BY <1>5 DEF TaskIdx
  <2>2. Partial(k) = SetToBag(TokenSet(TaskSeq(k), TaskHead(k), k))
    BY <1>5, PartialIs
  <2>3. QED BY <2>1, <2>2 DEF TokenSet, TokensOf
<1>6. ASSUME NEW k \in 0..(offsets[call.n] - 1)
      PROVE  CacheHolds /\ Complete(k) =>
               \A b, h : TaskIdx(k) = <<b, h>> => Partial(k) = TokensOf(b, h, k)
  BY <1>5
<1>7. QED BY <1>1, <1>2, <1>3, <1>4, <1>6 DEF CutFacts

LEMMA CutFactsNext == CutFacts'
BY CutFactsHold, PTL

(* What is still on its way to the result of a head *)
Held(b, h) == Sum(acc, Holders(b, h))
Slotted(b, h) == Sum(slot, Finished(b, h))
ToCome(b, h) == Sum([k \in Pending(b, h) |-> TokensOf(b, h, k)], Pending(b, h))
Rest(b, h) == Held(b, h) (+) Slotted(b, h) (+) ToCome(b, h)

ConservedIs(b, h) ==
  \A q \in QueryHead : q \div GQA = h => out[b][q] (+) Rest(b, h) = SetToBag(Cached(b, h))

LEMMA ConservedHeads ==
  Conserved <=>
    (phase = "compute" /\ (\A t \in Thread : ~failed[t]) =>
       \A b \in 0..(call.n - 1), h \in Head : ConservedIs(b, h))
BY DEF Conserved, ConservedIs, Rest, Held, Slotted, ToCome, Cached

LEMMA ConservedHeadsNext ==
  (Conserved <=>
    (phase = "compute" /\ (\A t \in Thread : ~failed[t]) =>
       \A b \in 0..(call.n - 1), h \in Head : ConservedIs(b, h)))'
BY ConservedHeads, PTL

LEMMA InitializeStep == CacheInv /\ Initialize => CacheInv'
<1> SUFFICES ASSUME CacheInv, Initialize PROVE CacheInv'
  OBVIOUS
<1>1. /\ phase = "initialize" /\ phase' = "compute"
      /\ UNCHANGED <<cache, lens, hole, parallel, call, task, cur, acc, slot>>
      /\ todo' = 0..(offsets'[call.n] - 1)
      /\ tpc' = [t \in Thread |-> IF t < offsets'[call.n] THEN "init" ELSE "out"]
      /\ failed' = [t \in Thread |-> FALSE]
  BY DEF Initialize, callervars, threadvars, resultvars
<1>2. CacheTypeInv /\ CacheHolds
  BY DEF CacheInv
<1>3. call.n \in 0..Batch /\ Batch \in Nat /\ call.n \in Nat
  BY <1>2, Sizes DEF CacheTypeInv
<1>4. offsets' = [b \in 0..Batch |-> IF b <= call.n THEN TaskOffsets[b] ELSE offsets[b]]
  BY DEF Initialize
<1>5. valid' = [b \in Sequence |-> IF b < call.n THEN [h \in Head |-> FALSE] ELSE valid[b]]
  BY DEF Initialize
<1>6. out' = [b \in Sequence |-> IF b < call.n THEN [q \in QueryHead |-> EmptyBag] ELSE out[b]]
  BY DEF Initialize
<1>7. Cut'
  <2>1. \A b \in 0..call.n : offsets'[b] = TaskOffsets[b]
    BY <1>3, <1>4
  <2>2. offsets'[0] = 0
    <3>1. 0 \in 0..call.n
      BY <1>3
    <3>2. QED BY <2>1, <3>1, TaskOffsetsDef
  <2>3. ASSUME NEW b \in 0..(call.n - 1) PROVE offsets'[b + 1] = offsets'[b] + NumChunks(b) * KVHeads
    <3>1. b \in 0..call.n /\ b + 1 \in 0..call.n /\ b \in 0..(Batch - 1)
      BY <1>3
    <3>2. QED BY <2>1, <3>1, TaskOffsetsDef
  <2>4. \A b : NumChunks(b)' = NumChunks(b)
    BY <1>1 DEF NumChunks, NumBlocks
  <2>5. \A b \in Sequence : lens[b] \in 0..(Stride * BlockLen)
    BY <1>2 DEF CacheTypeInv
  <2>6. QED BY <1>1, <1>3, <2>2, <2>3, <2>4, <2>5, Zenon DEF Cut
<1>8. CacheTypeInv'
  <2>1. /\ offsets' = [b \in 0..Batch |-> offsets'[b]]
        /\ tpc' \in [Thread -> ThreadPC] /\ failed' \in [Thread -> BOOLEAN]
        /\ valid' \in [Sequence -> [Head -> BOOLEAN]]
        /\ phase' \in Phase
    BY <1>1, <1>2, <1>4, <1>5 DEF ThreadPC, Phase, CacheTypeInv
  <2>2. /\ out' = [b \in Sequence |-> [q \in QueryHead |-> out'[b][q]]]
        /\ \A b \in Sequence, q \in QueryHead : IsABag(out'[b][q])
    <3>1. ASSUME NEW b \in Sequence
          PROVE  /\ out'[b] = [q \in QueryHead |-> out'[b][q]]
                 /\ \A q \in QueryHead : IsABag(out'[b][q])
      <4>1. out[b] = [q \in QueryHead |-> out[b][q]] /\ \A q \in QueryHead : IsABag(out[b][q])
        BY <1>2 DEF CacheTypeInv
      <4>2. out'[b] = IF b < call.n THEN [q \in QueryHead |-> EmptyBag] ELSE out[b]
        BY <1>6
      <4>3. QED BY <4>1, <4>2, EmptyIsBag
    <3>2. QED BY <1>6, <3>1
  <2>3. QED BY <1>1, <1>2, <2>1, <2>2 DEF CacheTypeInv
<1>9. CacheHolds'
  BY <1>1, <1>2, Zenon DEF CacheHolds
<1>10. \A t \in Thread : tpc'[t] \in {"init", "out"}
  BY <1>1
<1>11. \A b \in 0..(call.n - 1), q \in QueryHead : out'[b][q] = EmptyBag
  <2>1. ASSUME NEW b \in 0..(call.n - 1) PROVE out'[b] = [q \in QueryHead |-> EmptyBag]
    <3>1. b \in Sequence /\ b < call.n
      BY <1>3 DEF Sequence
    <3>2. QED BY <1>6, <3>1
  <2>2. QED BY <2>1
<1>12. ComputeInv'
  <2>1. TasksInv' /\ HeadsInv'
    BY <1>1, <1>10 DEF TasksInv, HeadsInv, InHand
  <2>2. FreshInv'
    BY <1>1, <1>11, Zenon DEF FreshInv
  <2>3. QED BY <2>1, <2>2, Zenon DEF ComputeInv
<1>13. ASSUME NEW b \in 0..(call.n - 1), NEW h \in Head PROVE ConservedIs(b, h)'
  <2>1. /\ ReduceSlots(b, h)' = {k \in 0..(offsets'[call.n] - 1) : TaskIdx(k)' = <<b, h>>}
        /\ Sum([k \in ReduceSlots(b, h)' |-> TokensOf(b, h, k)'], ReduceSlots(b, h)')
                  = SetToBag(Cached(b, h)')
    BY <1>1, <1>7, CutFactsNext, Zenon DEF CutFacts
  <2>2. Holders(b, h)' = {}
    BY <1>10 DEF Holders
  <2>3. Pending(b, h)' = ReduceSlots(b, h)'
    <3>1. {task'[t] : t \in {u \in Thread : tpc'[u] \in {"commit", "work"}}} = {}
      BY <1>10
    <3>2. Pending(b, h)' = {k \in todo' : TaskIdx(k)' = <<b, h>>}
      BY <3>1, Zenon DEF Pending
    <3>3. QED BY <1>1, <2>1, <3>2
  <2>4. Finished(b, h)' = {}
    BY <2>3 DEF Finished
  <2>5. Held(b, h)' = EmptyBag /\ Slotted(b, h)' = EmptyBag
    BY <2>2, <2>4, SumEmpty DEF Held, Slotted
  <2>6. ToCome(b, h)' = SetToBag(Cached(b, h)')
    BY <2>1, <2>3, Zenon DEF ToCome
  <2>7. Rest(b, h)' = SetToBag(Cached(b, h)')
    <3> DEFINE X == SetToBag(Cached(b, h)')
    <3>1. IsABag(X) /\ EmptyBag (+) EmptyBag = EmptyBag /\ EmptyBag (+) X = X
      BY BagAdd, SetBag
    <3>2. Rest(b, h)' = EmptyBag (+) EmptyBag (+) X
      BY <2>5, <2>6, Zenon DEF Rest
    <3>3. QED BY <3>1, <3>2
  <2>8. EmptyBag (+) SetToBag(Cached(b, h)') = SetToBag(Cached(b, h)')
    BY BagAdd, SetBag
  <2>9. QED BY <1>11, <2>7, <2>8 DEF ConservedIs
<1>14. Conserved'
  BY <1>1, <1>13, ConservedHeadsNext
<1>15. UpdateInv' /\ PhaseInv' /\ ReduceInv' /\ ConvertInv'
  <2>1. phase' # "update" /\ phase' # "reduce" /\ phase' # "convert"
    BY <1>1
  <2>2. QED BY <1>1, <1>7, <2>1, Zenon DEF UpdateInv, PhaseInv, ReduceInv, ConvertInv
<1>16. QED BY <1>8, <1>9, <1>12, <1>14, <1>15 DEF CacheInv

-----------------------------------------------------------------------------
(* The steps of a thread *)

LEMMA Steady ==
  ASSUME UNCHANGED <<cache, lens, hole, call, offsets>>
  PROVE  /\ (Cut => Cut') /\ (CacheHolds => CacheHolds')
         /\ \A k : TaskIdx(k)' = TaskIdx(k) /\ GoodBlocks(k)' = GoodBlocks(k)
         /\ \A b, h : /\ ReduceSlots(b, h)' = ReduceSlots(b, h) /\ Cached(b, h)' = Cached(b, h)
                      /\ \A k : TokensOf(b, h, k)' = TokensOf(b, h, k)
<1>1. \A b : NumBlocks(b)' = NumBlocks(b) /\ NumChunks(b)' = NumChunks(b)
  BY Zenon DEF NumBlocks, NumChunks
<1>2. Cut => Cut'
  BY <1>1, Zenon DEF Cut
<1>3. CacheHolds => CacheHolds'
  BY Zenon DEF CacheHolds
<1>4. \A k : TaskSeq(k)' = TaskSeq(k)
  BY Zenon DEF TaskSeq
<1>5. \A k : TaskChunks(k)' = TaskChunks(k)
  BY <1>4, Zenon DEF TaskChunks
<1>6. \A k : TaskHead(k)' = TaskHead(k) /\ TaskChunk(k)' = TaskChunk(k)
  BY <1>4, <1>5, Zenon DEF TaskHead, TaskChunk
<1>7. \A k : BlockBegin(k)' = BlockBegin(k)
  BY <1>6, Zenon DEF BlockBegin
<1>8. \A k : BlockEnd(k)' = BlockEnd(k)
  BY <1>1, <1>4, <1>7, Zenon DEF BlockEnd
<1>9. \A b, j : Bad(b, j)' = Bad(b, j)
  BY Zenon DEF Bad, Entry, InRange
<1>10. \A k : GoodBlocks(k)' = GoodBlocks(k)
  BY <1>4, <1>7, <1>8, <1>9, Zenon DEF GoodBlocks
<1>11. \A k : TaskIdx(k)' = TaskIdx(k)
  BY <1>4, <1>6, Zenon DEF TaskIdx
<1>12. \A b, h : ReduceSlots(b, h)' = ReduceSlots(b, h) /\ Cached(b, h)' = Cached(b, h)
  BY Zenon DEF ReduceSlots, ReduceFirst, Cached
<1>13. \A b, h, k : TokensOf(b, h, k)' = TokensOf(b, h, k)
  BY <1>7, <1>8, Zenon DEF TokensOf
<1>14. QED BY <1>2, <1>3, <1>10, <1>11, <1>12, <1>13

(* The sums of Rest are sums of bags over finite sets. *)
PartsOf(b, h) ==
  /\ IsFiniteSet(Holders(b, h)) /\ \A t \in Holders(b, h) : IsABag(acc[t])
  /\ IsFiniteSet(Finished(b, h)) /\ \A k \in Finished(b, h) : IsABag(slot[k])
  /\ IsFiniteSet(Pending(b, h)) /\ \A k \in Pending(b, h) : IsABag(TokensOf(b, h, k))
  /\ IsABag(Held(b, h)) /\ IsABag(Slotted(b, h)) /\ IsABag(ToCome(b, h))

LEMMA Parts ==
  ASSUME CacheTypeInv, Cut, TasksInv, NEW b \in 0..(call.n - 1), NEW h \in Head
  PROVE  PartsOf(b, h)
<1>1. IsFiniteSet(Holders(b, h)) /\ \A t \in Holders(b, h) : IsABag(acc[t])
  <2>1. IsFiniteSet(Thread)
    <3>1. 0 \in Int /\ Threads - 1 \in Int
      BY Sizes
    <3>2. QED BY <3>1, FS_Interval DEF Thread
  <2>2. Holders(b, h) \subseteq Thread
    BY DEF Holders
  <2>3. QED BY <2>1, <2>2, FS_Subset DEF CacheTypeInv
<1>2. /\ offsets[call.n] \in Nat /\ offsets[call.n] <= MaxTasks /\ MaxTasks \in Nat
      /\ ReduceSlots(b, h) = {k \in 0..(offsets[call.n] - 1) : TaskIdx(k) = <<b, h>>}
      /\ IsFiniteSet(ReduceSlots(b, h))
  BY CutFactsHold DEF CutFacts
<1>3. IsFiniteSet(Finished(b, h)) /\ \A k \in Finished(b, h) : IsABag(slot[k])
  <2>1. Finished(b, h) \subseteq ReduceSlots(b, h)
    BY DEF Finished
  <2>2. \A k \in ReduceSlots(b, h) : k \in 0..(MaxTasks - 1)
    <3> HIDE DEF MaxTasks
    <3>1. QED BY <1>2
  <2>3. QED BY <1>2, <2>1, <2>2, FS_Subset DEF CacheTypeInv
<1>4. IsFiniteSet(Pending(b, h)) /\ \A k \in Pending(b, h) : IsABag(TokensOf(b, h, k))
  <2>1. Pending(b, h) \subseteq ReduceSlots(b, h)
    BY <1>2 DEF Pending, TasksInv, InHand
  <2>2. \A k : IsABag(TokensOf(b, h, k))
    BY SetBag, Zenon DEF TokensOf
  <2>3. QED BY <1>2, <2>1, <2>2, FS_Subset
<1>5. IsABag(Held(b, h)) /\ IsABag(Slotted(b, h)) /\ IsABag(ToCome(b, h))
  <2>1. IsABag(Held(b, h)) /\ IsABag(Slotted(b, h))
    BY <1>1, <1>3, SumLaws DEF Held, Slotted
  <2> DEFINE f == [k \in Pending(b, h) |-> TokensOf(b, h, k)]
  <2>2. \A k \in Pending(b, h) : IsABag(f[k])
    BY <1>4
  <2> HIDE DEF f
  <2>3. IsABag(Sum(f, Pending(b, h)))
    BY <1>4, <2>2, SumLaws
  <2>4. QED BY <2>1, <2>3 DEF ToCome, f
<1>6. QED BY <1>1, <1>3, <1>4, <1>5 DEF PartsOf

(* The parts of Rest that a step leaves alone *)
LEMMA SameHeld ==
  ASSUME NEW b, NEW h, PartsOf(b, h),
         Holders(b, h)' = Holders(b, h), \A t \in Holders(b, h) : acc'[t] = acc[t]
  PROVE  Held(b, h)' = Held(b, h)
<1>1. Sum(acc', Holders(b, h)) = Sum(acc, Holders(b, h))
  BY SumSame DEF PartsOf
<1>2. QED BY <1>1, Zenon DEF Held

LEMMA SameSlotted ==
  ASSUME NEW b, NEW h, PartsOf(b, h),
         Finished(b, h)' = Finished(b, h), \A k \in Finished(b, h) : slot'[k] = slot[k]
  PROVE  Slotted(b, h)' = Slotted(b, h)
<1>1. Sum(slot', Finished(b, h)) = Sum(slot, Finished(b, h))
  BY SumSame DEF PartsOf
<1>2. QED BY <1>1, Zenon DEF Slotted

LEMMA SameToCome ==
  ASSUME NEW b, NEW h, UNCHANGED <<cache, lens, hole, call, offsets>>,
         Pending(b, h)' = Pending(b, h)
  PROVE  ToCome(b, h)' = ToCome(b, h)
<1>1. [k \in Pending(b, h)' |-> TokensOf(b, h, k)'] = [k \in Pending(b, h) |-> TokensOf(b, h, k)]
  BY Steady
<1>2. QED BY <1>1, Zenon DEF ToCome

(* What a step of a thread leaves alone, and what is then left to show *)
LEMMA ThreadFrame ==
  ASSUME CacheInv, phase = "compute",
         UNCHANGED <<cache, lens, hole, parallel, phase, call, offsets>>,
         CacheTypeInv', TasksInv', HeadsInv', FreshInv',
         \A t \in Thread : failed[t] => failed'[t],
         \A b \in 0..(call.n - 1), h \in Head :
           (\A t \in Thread : ~ failed'[t]) /\ ConservedIs(b, h) => ConservedIs(b, h)'
  PROVE  CacheInv'
<1>1. Cut /\ CacheHolds
  BY DEF CacheInv, PhaseInv
<1>2. Cut' /\ CacheHolds'
  BY <1>1, Steady
<1>3. Conserved'
  <2>1. SUFFICES ASSUME \A t \in Thread : ~ failed'[t],
                        NEW b \in 0..(call.n - 1), NEW h \in Head
                 PROVE  ConservedIs(b, h)'
    BY ConservedHeadsNext
  <2>2. \A t \in Thread : ~ failed[t]
    BY <2>1
  <2>3. ConservedIs(b, h)
    BY <2>2, ConservedHeads DEF CacheInv
  <2>4. QED BY <2>1, <2>3
<1>4. phase' = "compute"
  OBVIOUS
<1>5. UpdateInv' /\ PhaseInv' /\ ReduceInv' /\ ConvertInv' /\ ComputeInv'
  BY <1>2, <1>4, Zenon DEF UpdateInv, PhaseInv, ReduceInv, ConvertInv, ComputeInv
<1>6. QED BY <1>2, <1>3, <1>5 DEF CacheInv

LEMMA InitFuncStep ==
  ASSUME CacheInv, NEW t \in Thread, InitFunc(t)
  PROVE  CacheInv'
<1>1. /\ phase = "compute" /\ tpc[t] = "init"
      /\ cur' = [cur EXCEPT ![t] = None] /\ tpc' = [tpc EXCEPT ![t] = "next"]
      /\ UNCHANGED <<cache, lens, hole, parallel, phase, call, todo, offsets, task, acc, failed,
                     valid, out, slot>>
  BY DEF InitFunc, callervars, resultvars
<1>2. CacheTypeInv /\ TasksInv /\ HeadsInv /\ FreshInv /\ Cut
  BY <1>1 DEF CacheInv, ComputeInv, PhaseInv
<1>3. \A u \in Thread : /\ tpc'[u] = IF u = t THEN "next" ELSE tpc[u]
                        /\ cur'[u] = IF u = t THEN None ELSE cur[u]
  BY <1>1, <1>2 DEF CacheTypeInv
<1>4. CacheTypeInv'
  <2>1. tpc' \in [Thread -> ThreadPC] /\ cur' = [u \in Thread |-> cur'[u]]
    BY <1>1, <1>2 DEF CacheTypeInv, ThreadPC
  <2>2. QED BY <1>1, <1>2, <2>1 DEF CacheTypeInv
<1>5. TasksInv'
  BY <1>1, <1>2, <1>3 DEF TasksInv, InHand
<1>6. HeadsInv'
  <2>1. \A k : TaskIdx(k)' = TaskIdx(k) /\ GoodBlocks(k)' = GoodBlocks(k)
    BY <1>1, Steady
  <2>2. QED BY <1>1, <1>2, <1>3, <2>1 DEF HeadsInv
<1>7. FreshInv'
  BY <1>1, <1>2, Zenon DEF FreshInv
<1>8. ASSUME NEW b \in 0..(call.n - 1), NEW h \in Head, ConservedIs(b, h)
      PROVE  ConservedIs(b, h)'
  <2>1. PartsOf(b, h)
    BY <1>2, Parts
  <2>2. /\ \A k : TaskIdx(k)' = TaskIdx(k)
        /\ ReduceSlots(b, h)' = ReduceSlots(b, h) /\ Cached(b, h)' = Cached(b, h)
    BY <1>1, Steady
  <2>3. Holders(b, h)' = Holders(b, h)
    <3>1. None # <<b, h>>
      BY <1>8 DEF None
    <3>2. QED BY <1>1, <1>3, <3>1 DEF Holders
  <2>4. Pending(b, h)' = Pending(b, h)
    <3>1. {u \in Thread : tpc'[u] \in {"commit", "work"}} = {u \in Thread : tpc[u] \in {"commit", "work"}}
      BY <1>1, <1>3
    <3>2. QED BY <1>1, <2>2, <3>1 DEF Pending
  <2>5. Finished(b, h)' = Finished(b, h)
    BY <1>1, <2>2, <2>4 DEF Finished
  <2>6. Held(b, h)' = Held(b, h) /\ Slotted(b, h)' = Slotted(b, h) /\ ToCome(b, h)' = ToCome(b, h)
    BY <1>1, <2>1, <2>3, <2>4, <2>5, SameHeld, SameSlotted, SameToCome
  <2>7. Rest(b, h)' = Rest(b, h)
    BY <2>6, Zenon DEF Rest
  <2>8. QED BY <1>1, <1>8, <2>2, <2>7, Zenon DEF ConservedIs
<1>9. QED BY <1>1, <1>4, <1>5, <1>6, <1>7, <1>8, ThreadFrame

LEMMA TakeStep ==
  ASSUME CacheInv, NEW t \in Thread, Take(t)
  PROVE  CacheInv'
<1>1. /\ phase = "compute" /\ tpc[t] = "next" /\ todo # {}
      /\ UNCHANGED <<cache, lens, hole, parallel, phase, call, offsets, cur, acc, failed,
                     valid, out, slot>>
  BY DEF Take, callervars, resultvars
<1>2. CacheTypeInv /\ TasksInv /\ HeadsInv /\ FreshInv /\ Cut
  BY <1>1 DEF CacheInv, ComputeInv, PhaseInv
<1>3. PICK k \in todo : k = FS!Min(todo)
  <2>1. todo \in SUBSET Nat
    <3>1. \A x \in 0..(offsets[call.n] - 1) : x \in Nat
      OBVIOUS
    <3>2. QED BY <1>2, <3>1 DEF TasksInv
  <2>2. QED BY <1>1, <2>1, MinIn
<1> DEFINE commit == /\ ~parallel /\ GoodBlocks(k) # {}
                     /\ cur[t] # None /\ cur[t] # TaskIdx(k)
<1>4. /\ task' = [task EXCEPT ![t] = k] /\ todo' = todo \ {k}
      /\ tpc' = [tpc EXCEPT ![t] = IF commit THEN "commit" ELSE "work"]
  BY <1>3, Zenon DEF Take
<1>5. \A u \in Thread : /\ tpc'[u] = IF u = t THEN (IF commit THEN "commit" ELSE "work") ELSE tpc[u]
                        /\ task'[u] = IF u = t THEN k ELSE task[u]
  <2> HIDE DEF commit
  <2>1. QED BY <1>2, <1>4 DEF CacheTypeInv
<1>6. CacheTypeInv'
  <2>1. tpc' \in [Thread -> ThreadPC] /\ task' = [u \in Thread |-> task'[u]]
    <3> HIDE DEF commit
    <3>1. QED BY <1>2, <1>4 DEF CacheTypeInv, ThreadPC
  <2>2. QED BY <1>1, <1>2, <2>1 DEF CacheTypeInv
<1>7. \A u \in Thread : u # t => tpc'[u] = tpc[u] /\ task'[u] = task[u]
  BY <1>5
<1>8. tpc'[t] \in {"commit", "work"} /\ task'[t] = k /\ (tpc'[t] = "commit" <=> commit)
  BY <1>5
<1> HIDE DEF commit
<1>9. TasksInv'
  <2>1. todo' \subseteq 0..(offsets[call.n] - 1) /\ k \in 0..(offsets[call.n] - 1)
    BY <1>2, <1>4 DEF TasksInv
  <2>2. \A u \in Thread : InHand(u) => task[u] # k
    BY <1>2, <1>3 DEF TasksInv
  <2>3. \A u \in Thread : u # t => (InHand(u)' <=> InHand(u))
    BY <1>7 DEF InHand
  <2>4. \A u \in Thread : InHand(u)' => task'[u] \in 0..(offsets[call.n] - 1) /\ task'[u] \notin todo'
    BY <1>2, <1>4, <1>7, <1>8, <2>1, <2>3 DEF TasksInv
  <2>5. \A u, v \in Thread : InHand(u)' /\ InHand(v)' /\ u # v => task'[u] # task'[v]
    BY <1>2, <1>7, <1>8, <2>2, <2>3 DEF TasksInv
  <2>6. QED BY <1>1, <2>1, <2>4, <2>5 DEF TasksInv
<1>10. HeadsInv'
  <2>1. \A x : TaskIdx(x)' = TaskIdx(x) /\ GoodBlocks(x)' = GoodBlocks(x)
    BY <1>1, Steady
  <2>2. \A u \in Thread : tpc'[u] \in {"next", "commit", "work"} =>
          cur'[u] = None \/ cur'[u] \in (0..(call.n - 1)) \X Head
    BY <1>1, <1>2, <1>7 DEF HeadsInv
  <2>3. \A u \in Thread : tpc'[u] = "commit" =>
          ~ parallel' /\ cur'[u] # None /\ cur'[u] # TaskIdx(task'[u])
    BY <1>1, <1>2, <1>7, <1>8, <2>1 DEF HeadsInv, commit
  <2>4. \A u \in Thread : tpc'[u] = "work" /\ ~ parallel' =>
          cur'[u] = None \/ cur'[u] = TaskIdx(task'[u]) \/ GoodBlocks(task'[u]) = {}
    BY <1>1, <1>2, <1>7, <1>8, <2>1 DEF HeadsInv, commit
  <2>5. QED BY <1>1, <2>1, <2>2, <2>3, <2>4 DEF HeadsInv
<1>11. FreshInv'
  BY <1>1, <1>2, Zenon DEF FreshInv
<1>12. ASSUME NEW b \in 0..(call.n - 1), NEW h \in Head, ConservedIs(b, h)
      PROVE  ConservedIs(b, h)'
  <2>1. PartsOf(b, h)
    BY <1>2, Parts
  <2>2. /\ \A x : TaskIdx(x)' = TaskIdx(x)
        /\ ReduceSlots(b, h)' = ReduceSlots(b, h) /\ Cached(b, h)' = Cached(b, h)
    BY <1>1, Steady
  <2>3. Holders(b, h)' = Holders(b, h)
    BY <1>1, <1>7, <1>8 DEF Holders
  <2>4. Pending(b, h)' = Pending(b, h)
    <3> DEFINE A == todo \cup {task[u] : u \in {v \in Thread : tpc[v] \in {"commit", "work"}}}
               B == todo' \cup {task'[u] : u \in {v \in Thread : tpc'[v] \in {"commit", "work"}}}
    <3>1. \A x \in B : x \in A
      BY <1>3, <1>4, <1>7, <1>8
    <3>2. \A x \in A : x \in B
      <4>1. \A x \in todo : x \in B
        BY <1>4, <1>8
      <4>2. \A u \in Thread : tpc[u] \in {"commit", "work"} => task[u] \in B
        BY <1>1, <1>7
      <4>3. QED BY <4>1, <4>2
    <3>3. A = B
      BY <3>1, <3>2
    <3> HIDE DEF A, B
    <3>4. Pending(b, h) = {x \in A : TaskIdx(x) = <<b, h>>}
      BY Zenon DEF Pending, A
    <3>5. Pending(b, h)' = {x \in B : TaskIdx(x)' = <<b, h>>}
      BY Zenon DEF Pending, B
    <3>6. QED BY <2>2, <3>3, <3>4, <3>5
  <2>5. Finished(b, h)' = Finished(b, h)
    BY <1>1, <2>2, <2>4 DEF Finished
  <2>6. Held(b, h)' = Held(b, h) /\ Slotted(b, h)' = Slotted(b, h) /\ ToCome(b, h)' = ToCome(b, h)
    BY <1>1, <2>1, <2>3, <2>4, <2>5, SameHeld, SameSlotted, SameToCome
  <2>7. Rest(b, h)' = Rest(b, h)
    BY <2>6, Zenon DEF Rest
  <2>8. QED BY <1>1, <1>12, <2>2, <2>7, Zenon DEF ConservedIs
<1>13. QED BY <1>1, <1>6, <1>9, <1>10, <1>11, <1>12, ThreadFrame

LEMMA BagMove ==
  ASSUME NEW o, NEW a, NEW h, NEW s, NEW c,
         IsABag(o), IsABag(a), IsABag(h), IsABag(s), IsABag(c)
  PROVE  (o (+) a) (+) ((h (+) s) (+) c) = o (+) (((a (+) h) (+) s) (+) c)
<1>1. IsABag(h (+) s)
  BY BagAdd
<1>2. IsABag((h (+) s) (+) c)
  BY <1>1, BagAdd
<1>3. (o (+) a) (+) ((h (+) s) (+) c) = o (+) (a (+) ((h (+) s) (+) c))
  BY <1>2, BagSwap
<1>4. a (+) ((h (+) s) (+) c) = (a (+) (h (+) s)) (+) c
  BY <1>1, BagSwap
<1>5. a (+) (h (+) s) = (a (+) h) (+) s
  BY BagSwap
<1>6. QED BY ONLY <1>3, <1>4, <1>5, Zenon

(* A commit adds the accumulator of the thread to the result of its head,  *)
(* whichever of its two branches is taken.                                 *)
LEMMA FlushFacts ==
  ASSUME CacheTypeInv, FreshInv, Cut, ~ parallel, NEW t \in Thread, cur[t] # None, Flush(t),
         NEW b0 \in 0..(call.n - 1), NEW h0 \in Head, cur[t] = <<b0, h0>>
  PROVE  /\ \A b \in 0..(call.n - 1), q \in QueryHead :
              out'[b][q] = IF b = b0 /\ q \div GQA = h0 THEN out[b][q] (+) acc[t] ELSE out[b][q]
         /\ \A b \in 0..(call.n - 1), h \in Head :
              valid'[b][h] <=> (b = b0 /\ h = h0) \/ valid[b][h]
         /\ valid' \in [Sequence -> [Head -> BOOLEAN]]
         /\ out' = [b \in Sequence |-> [q \in QueryHead |-> out'[b][q]]]
         /\ \A b \in Sequence, q \in QueryHead : IsABag(out'[b][q])
<1>1. \A b \in 0..(call.n - 1) : b \in Sequence
  BY CutFactsHold DEF CutFacts
<1>2. cur[t][1] = b0 /\ cur[t][2] = h0 /\ b0 \in Sequence
  BY <1>1
<1> DEFINE a == acc[t]
           row == [q \in QueryHead |-> IF q \div GQA # h0 THEN out[b0][q]
                     ELSE IF valid[b0][h0] THEN out[b0][q] (+) a ELSE a]
<1>3. out' = [out EXCEPT ![b0] = row] /\ valid' = [valid EXCEPT ![b0][h0] = TRUE]
  BY <1>2, Zenon DEF Flush, Merged
<1>4. IsABag(a) /\ out = [b \in Sequence |-> [q \in QueryHead |-> out[b][q]]]
  BY DEF CacheTypeInv
<1> HIDE DEF a
<1>5. ASSUME NEW q \in QueryHead
      PROVE  row[q] = IF q \div GQA = h0 THEN out[b0][q] (+) a ELSE out[b0][q]
  <2>1. ASSUME q \div GQA = h0, ~ valid[b0][h0] PROVE a = out[b0][q] (+) a
    <3>1. out[b0][q] = EmptyBag
      BY <2>1 DEF FreshInv
    <3>2. EmptyBag (+) a = a
      BY <1>4, BagAdd, EmptyIsBag
    <3>3. QED BY <3>1, <3>2
  <2>2. QED BY <2>1
<1>6. row = [q \in QueryHead |-> row[q]]
  OBVIOUS
<1> HIDE DEF row
<1>7. \A b \in Sequence : out'[b] = IF b = b0 THEN row ELSE out[b]
  BY <1>2, <1>3, <1>4
<1>8. \A b \in Sequence, q \in QueryHead :
        out'[b][q] = IF b = b0 /\ q \div GQA = h0 THEN out[b][q] (+) a ELSE out[b][q]
  BY <1>5, <1>7
<1>9. \A b \in Sequence, q \in QueryHead : IsABag(out'[b][q])
  <2>1. SUFFICES ASSUME NEW b \in Sequence, NEW q \in QueryHead PROVE IsABag(out'[b][q])
    OBVIOUS
  <2>2. IsABag(out[b][q])
    BY DEF CacheTypeInv
  <2>3. IsABag(out[b][q] (+) a)
    BY <1>4, <2>2, BagAdd
  <2>4. QED BY <1>8, <2>2, <2>3
<1>10. out' = [b \in Sequence |-> [q \in QueryHead |-> out'[b][q]]]
  <2>1. \A b \in Sequence : out'[b] = [q \in QueryHead |-> out'[b][q]]
    <3>1. \A b \in Sequence : out[b] = [q \in QueryHead |-> out[b][q]]
      BY DEF CacheTypeInv
    <3>2. QED BY <1>6, <1>7, <3>1
  <2>2. out' = [b \in Sequence |-> out'[b]]
    BY <1>3, <1>4
  <2>3. QED BY <2>1, <2>2
<1>11. /\ \A b \in Sequence, h \in Head : valid'[b][h] <=> (b = b0 /\ h = h0) \/ valid[b][h]
       /\ valid' \in [Sequence -> [Head -> BOOLEAN]]
  BY <1>2, <1>3 DEF CacheTypeInv
<1>12. QED BY <1>1, <1>8, <1>9, <1>10, <1>11 DEF a

(* How a commit keeps the sum: what the head gains, the thread gives up. *)
LEMMA FlushConserves ==
  ASSUME NEW b, NEW h, NEW t, PartsOf(b, h), t \in Holders(b, h), ConservedIs(b, h),
         \A q \in QueryHead : IsABag(out[b][q]),
         \A q \in QueryHead : q \div GQA = h => out'[b][q] = out[b][q] (+) acc[t],
         Holders(b, h)' = Holders(b, h) \ {t},
         \A u \in Holders(b, h) \ {t} : acc'[u] = acc[u],
         Slotted(b, h)' = Slotted(b, h), ToCome(b, h)' = ToCome(b, h),
         Cached(b, h)' = Cached(b, h)
  PROVE  ConservedIs(b, h)'
<1> DEFINE H == Holders(b, h)
           R == H \ {t}
<1>1. IsFiniteSet(H) /\ \A u \in H : IsABag(acc[u])
  BY DEF PartsOf
<1>2. Sum(acc, H) = acc[t] (+) Sum(acc, R)
  BY <1>1, SumLaws
<1>3. IsFiniteSet(R) /\ \A u \in R : IsABag(acc[u])
  BY <1>1, FS_Subset
<1>4. IsABag(Sum(acc, R))
  BY <1>3, SumLaws
<1>5. Sum(acc', R) = Sum(acc, R)
  <2>1. \A u \in R : acc'[u] = acc[u]
    OBVIOUS
  <2> HIDE DEF R
  <2>2. QED BY <1>3, <2>1, SumSame
<1>6. Held(b, h)' = Sum(acc, R)
  BY <1>5, Zenon DEF Held
<1>7. Held(b, h) = acc[t] (+) Sum(acc, R)
  BY <1>2 DEF Held
<1> DEFINE a == acc[t]
           x == Sum(acc, R)
           s == Slotted(b, h)
           c == ToCome(b, h)
<1>8. IsABag(a) /\ IsABag(x) /\ IsABag(s) /\ IsABag(c)
  BY <1>1, <1>4 DEF PartsOf
<1>9. Rest(b, h)' = (x (+) s) (+) c
  BY <1>6, Zenon DEF Rest
<1>10. Rest(b, h) = ((a (+) x) (+) s) (+) c
  BY <1>7, Zenon DEF Rest
<1> HIDE DEF H, R, a, x, s, c
<1>11. ASSUME NEW q \in QueryHead, q \div GQA = h
       PROVE  out'[b][q] (+) Rest(b, h)' = SetToBag(Cached(b, h)')
  <2>1. out'[b][q] = out[b][q] (+) a
    BY <1>11 DEF a
  <2>2. (out[b][q] (+) a) (+) ((x (+) s) (+) c) = out[b][q] (+) (((a (+) x) (+) s) (+) c)
    BY <1>8, BagMove
  <2>3. out[b][q] (+) Rest(b, h) = SetToBag(Cached(b, h))
    BY <1>11 DEF ConservedIs
  <2>4. QED BY <1>9, <1>10, <2>1, <2>2, <2>3, Zenon
<1>12. QED BY <1>11 DEF ConservedIs

LEMMA CommitStep ==
  ASSUME CacheInv, NEW t \in Thread, Commit(t)
  PROVE  CacheInv'
<1>1. /\ tpc[t] = "commit" /\ Flush(t)
      /\ cur' = [cur EXCEPT ![t] = TaskIdx(task[t])]
      /\ acc' = [acc EXCEPT ![t] = EmptyBag] /\ tpc' = [tpc EXCEPT ![t] = "work"]
      /\ UNCHANGED <<cache, lens, hole, parallel, phase, call, todo, offsets, task, failed, slot>>
  BY DEF Commit, callervars
<1>2. phase = "compute"
  <2>1. tpc[t] # "out"
    BY <1>1
  <2>2. QED BY <2>1, Zenon DEF CacheInv, PhaseInv
<1>3. CacheTypeInv /\ TasksInv /\ HeadsInv /\ FreshInv /\ Cut
  BY <1>2 DEF CacheInv, ComputeInv, PhaseInv
<1>4. ~ parallel /\ cur[t] # None /\ cur[t] # TaskIdx(task[t])
  BY <1>1, <1>3 DEF HeadsInv
<1>5. PICK b0 \in 0..(call.n - 1), h0 \in Head : cur[t] = <<b0, h0>>
  <2>1. cur[t] \in (0..(call.n - 1)) \X Head
    BY <1>1, <1>3, <1>4 DEF HeadsInv
  <2>2. QED BY <2>1
<1>6. PICK k : k = task[t]
  OBVIOUS
<1>7. k \in 0..(offsets[call.n] - 1)
  BY <1>1, <1>3, <1>6 DEF TasksInv, InHand
<1>8. TaskIdx(k) \in (0..(call.n - 1)) \X Head
  BY <1>3, <1>7, CutFactsHold DEF CutFacts
<1>9. /\ \A b \in 0..(call.n - 1), q \in QueryHead :
              out'[b][q] = IF b = b0 /\ q \div GQA = h0 THEN out[b][q] (+) acc[t] ELSE out[b][q]
      /\ \A b \in 0..(call.n - 1), h \in Head :
              valid'[b][h] <=> (b = b0 /\ h = h0) \/ valid[b][h]
      /\ valid' \in [Sequence -> [Head -> BOOLEAN]]
      /\ out' = [b \in Sequence |-> [q \in QueryHead |-> out'[b][q]]]
      /\ \A b \in Sequence, q \in QueryHead : IsABag(out'[b][q])
  BY <1>1, <1>3, <1>4, <1>5, FlushFacts
<1>10. \A u \in Thread : /\ tpc'[u] = IF u = t THEN "work" ELSE tpc[u]
                         /\ cur'[u] = IF u = t THEN TaskIdx(k) ELSE cur[u]
                         /\ acc'[u] = IF u = t THEN EmptyBag ELSE acc[u]
  BY <1>1, <1>3, <1>6 DEF CacheTypeInv
<1>11. CacheTypeInv'
  <2>1. /\ tpc' \in [Thread -> ThreadPC] /\ cur' = [u \in Thread |-> cur'[u]]
        /\ acc' = [u \in Thread |-> acc'[u]] /\ \A u \in Thread : IsABag(acc'[u])
    BY <1>1, <1>3, <1>10, EmptyIsBag DEF CacheTypeInv, ThreadPC
  <2>2. QED BY <1>1, <1>3, <1>9, <2>1 DEF CacheTypeInv
<1>12. TasksInv'
  <2>1. \A u \in Thread : InHand(u)' <=> InHand(u)
    BY <1>1, <1>10 DEF InHand
  <2>2. QED BY <1>1, <1>3, <2>1 DEF TasksInv
<1>13. HeadsInv'
  <2>1. \A x : TaskIdx(x)' = TaskIdx(x) /\ GoodBlocks(x)' = GoodBlocks(x)
    BY <1>1, Steady
  <2>2. \A u \in Thread : u # t => tpc'[u] = tpc[u] /\ cur'[u] = cur[u]
    BY <1>10
  <2>3. tpc'[t] = "work" /\ cur'[t] = TaskIdx(k)
    BY <1>10
  <2>4. \A u \in Thread : tpc'[u] \in {"next", "commit", "work"} =>
          cur'[u] = None \/ cur'[u] \in (0..(call.n - 1)) \X Head
    BY <1>3, <1>8, <2>2, <2>3 DEF HeadsInv
  <2>5. \A u \in Thread : tpc'[u] = "commit" =>
          ~ parallel' /\ cur'[u] # None /\ cur'[u] # TaskIdx(task'[u])
    BY <1>1, <1>3, <2>1, <2>2, <2>3 DEF HeadsInv
  <2>6. \A u \in Thread : tpc'[u] = "work" /\ ~ parallel' =>
          cur'[u] = None \/ cur'[u] = TaskIdx(task'[u]) \/ GoodBlocks(task'[u]) = {}
    BY <1>1, <1>3, <1>6, <2>1, <2>2, <2>3 DEF HeadsInv
  <2>7. QED BY <1>1, <2>1, <2>4, <2>5, <2>6 DEF HeadsInv
<1>14. FreshInv'
  <2>1. SUFFICES ASSUME NEW b \in 0..(call.n - 1), NEW h \in Head, NEW q \in QueryHead,
                        q \div GQA = h, ~ valid'[b][h]
                 PROVE  out'[b][q] = EmptyBag
    BY <1>1, <1>4, Zenon DEF FreshInv
  <2>2. ~ valid[b][h] /\ ~ (b = b0 /\ h = h0)
    BY <1>9, <2>1
  <2>3. out[b][q] = EmptyBag
    BY <1>3, <2>1, <2>2 DEF FreshInv
  <2>4. QED BY <1>9, <2>1, <2>2, <2>3
<1>15. ASSUME NEW b \in 0..(call.n - 1), NEW h \in Head, ConservedIs(b, h)
       PROVE  ConservedIs(b, h)'
  <2>1. PartsOf(b, h)
    BY <1>3, Parts
  <2>2. /\ \A x : TaskIdx(x)' = TaskIdx(x)
        /\ ReduceSlots(b, h)' = ReduceSlots(b, h) /\ Cached(b, h)' = Cached(b, h)
    BY <1>1, Steady
  <2>3. Pending(b, h)' = Pending(b, h)
    <3>1. {u \in Thread : tpc'[u] \in {"commit", "work"}} = {u \in Thread : tpc[u] \in {"commit", "work"}}
      BY <1>1, <1>10
    <3>2. QED BY <1>1, <2>2, <3>1 DEF Pending
  <2>4. Finished(b, h)' = Finished(b, h)
    BY <1>1, <2>2, <2>3 DEF Finished
  <2>5. Slotted(b, h)' = Slotted(b, h) /\ ToCome(b, h)' = ToCome(b, h)
    BY <1>1, <2>1, <2>3, <2>4, SameSlotted, SameToCome
  <2>6. CASE b = b0 /\ h = h0
    <3>1. t \in Holders(b, h)
      BY <1>1, <1>4, <1>5, <2>6 DEF Holders
    <3>2. Holders(b, h)' = Holders(b, h) \ {t}
      BY <1>1, <1>4, <1>5, <1>6, <1>10, <2>6 DEF Holders
    <3>3. \A u \in Holders(b, h) \ {t} : acc'[u] = acc[u]
      BY <1>10 DEF Holders
    <3>4. \A q \in QueryHead : IsABag(out[b][q])
      <4>1. b \in Sequence
        BY <1>3, CutFactsHold DEF CutFacts
      <4>2. QED BY <1>3, <4>1 DEF CacheTypeInv
    <3>5. \A q \in QueryHead : q \div GQA = h => out'[b][q] = out[b][q] (+) acc[t]
      BY <1>9, <2>6
    <3>6. QED BY <1>15, <2>1, <2>2, <2>5, <3>1, <3>2, <3>3, <3>4, <3>5, FlushConserves
  <2>7. CASE ~ (b = b0 /\ h = h0)
    <3>1. \A q \in QueryHead : q \div GQA = h => out'[b][q] = out[b][q]
      BY <1>9, <2>7
    <3>2. t \notin Holders(b, h)
      BY <1>5, <2>7 DEF Holders
    <3>3. Held(b, h)' = Held(b, h)
      <4>1. CASE TaskIdx(k) # <<b, h>>
        <5>1. Holders(b, h)' = Holders(b, h)
          BY <1>1, <1>10, <3>2, <4>1 DEF Holders
        <5>2. \A u \in Holders(b, h) : acc'[u] = acc[u]
          BY <1>10, <3>2 DEF Holders
        <5>3. QED BY <2>1, <5>1, <5>2, SameHeld
      <4>2. CASE TaskIdx(k) = <<b, h>>
        <5> DEFINE H == Holders(b, h)
        <5>1. Holders(b, h)' = H \cup {t}
          BY <1>1, <1>4, <1>10, <4>2 DEF Holders
        <5>2. /\ IsFiniteSet(H) /\ \A u \in H : IsABag(acc[u])
              /\ acc'[t] = EmptyBag /\ \A u \in H : acc'[u] = acc[u]
              /\ t \notin H
          BY <1>10, <2>1, <3>2 DEF PartsOf, Holders
        <5> HIDE DEF H
        <5>3. IsABag(acc'[t])
          BY <5>2, EmptyIsBag
        <5>4. Sum(acc', H \cup {t}) = acc'[t] (+) Sum(acc, H)
          BY ONLY <5>2, <5>3, SumAdd
        <5>5. EmptyBag (+) Sum(acc, H) = Sum(acc, H)
          BY <5>2, SumLaws, BagAdd, EmptyIsBag
        <5>6. Held(b, h)' = Sum(acc', H \cup {t})
          BY <5>1, Zenon DEF Held
        <5>7. Held(b, h) = Sum(acc, H)
          BY Zenon DEF Held, H
        <5>8. QED BY <5>2, <5>4, <5>5, <5>6, <5>7, Zenon
      <4>3. QED BY <4>1, <4>2
    <3>4. Rest(b, h)' = Rest(b, h)
      BY <2>5, <3>3, Zenon DEF Rest
    <3>5. QED BY <1>15, <2>2, <3>1, <3>4, Zenon DEF ConservedIs
  <2>8. QED BY <2>6, <2>7
<1>16. QED BY <1>1, <1>2, <1>11, <1>12, <1>13, <1>14, <1>15, ThreadFrame

LEMMA FinalizeStep ==
  ASSUME CacheInv, NEW t \in Thread, FinalizeFunc(t)
  PROVE  CacheInv'
<1>1. /\ phase = "compute" /\ tpc[t] = "next" /\ todo = {}
      /\ tpc' = [tpc EXCEPT ![t] = "out"]
      /\ UNCHANGED <<cache, lens, hole, parallel, phase, call, todo, offsets, task, cur, acc, failed,
                     slot>>
      /\ IF parallel THEN UNCHANGED <<valid, out>> ELSE Flush(t)
  BY DEF FinalizeFunc, callervars
<1>2. CacheTypeInv /\ TasksInv /\ HeadsInv /\ FreshInv /\ Cut
  BY <1>1 DEF CacheInv, ComputeInv, PhaseInv
<1>3. \A u \in Thread : tpc'[u] = IF u = t THEN "out" ELSE tpc[u]
  BY <1>1, <1>2 DEF CacheTypeInv
<1>4. tpc' \in [Thread -> ThreadPC]
  BY <1>1, <1>2 DEF CacheTypeInv, ThreadPC
<1>5. TasksInv'
  <2>1. \A u \in Thread : InHand(u)' <=> InHand(u)
    BY <1>1, <1>3 DEF InHand
  <2>2. QED BY <1>1, <1>2, <2>1 DEF TasksInv
<1>6. HeadsInv'
  <2>1. \A x : TaskIdx(x)' = TaskIdx(x) /\ GoodBlocks(x)' = GoodBlocks(x)
    BY <1>1, Steady
  <2>2. \A u \in Thread : tpc'[u] # "out" => tpc'[u] = tpc[u]
    BY <1>3
  <2>3. \A u \in Thread : tpc'[u] \in {"next", "commit", "work"} =>
          cur'[u] = None \/ cur'[u] \in (0..(call.n - 1)) \X Head
    BY <1>1, <1>2, <2>2 DEF HeadsInv
  <2>4. \A u \in Thread : tpc'[u] = "commit" =>
          ~ parallel' /\ cur'[u] # None /\ cur'[u] # TaskIdx(task'[u])
    BY <1>1, <1>2, <2>1, <2>2 DEF HeadsInv
  <2>5. \A u \in Thread : tpc'[u] = "work" /\ ~ parallel' =>
          cur'[u] = None \/ cur'[u] = TaskIdx(task'[u]) \/ GoodBlocks(task'[u]) = {}
    BY <1>1, <1>2, <2>1, <2>2 DEF HeadsInv
  <2>6. QED BY <1>1, <2>1, <2>3, <2>4, <2>5 DEF HeadsInv
<1>7. ASSUME NEW b \in 0..(call.n - 1), NEW h \in Head
      PROVE  /\ PartsOf(b, h) /\ Cached(b, h)' = Cached(b, h)
             /\ Slotted(b, h)' = Slotted(b, h) /\ ToCome(b, h)' = ToCome(b, h)
  <2>1. PartsOf(b, h)
    BY <1>2, Parts
  <2>2. /\ \A x : TaskIdx(x)' = TaskIdx(x)
        /\ ReduceSlots(b, h)' = ReduceSlots(b, h) /\ Cached(b, h)' = Cached(b, h)
    BY <1>1, Steady
  <2>3. Pending(b, h)' = Pending(b, h)
    <3>1. {u \in Thread : tpc'[u] \in {"commit", "work"}} = {u \in Thread : tpc[u] \in {"commit", "work"}}
      BY <1>1, <1>3
    <3>2. QED BY <1>1, <2>2, <3>1 DEF Pending
  <2>4. Finished(b, h)' = Finished(b, h)
    BY <1>1, <2>2, <2>3 DEF Finished
  <2>5. QED BY <1>1, <2>1, <2>2, <2>3, <2>4, SameSlotted, SameToCome
<1>8. CASE parallel \/ cur[t] = None
  <2>1. UNCHANGED <<valid, out>>
    <3>1. CASE parallel
      BY <1>1, <3>1
    <3>2. CASE ~ parallel
      <4>1. Flush(t) /\ cur[t] = None
        BY <1>1, <1>8, <3>2
      <4>2. QED BY <4>1, Zenon DEF Flush
    <3>3. QED BY <3>1, <3>2
  <2>2. CacheTypeInv'
    BY <1>1, <1>2, <1>4, <2>1 DEF CacheTypeInv
  <2>3. FreshInv'
    BY <1>1, <1>2, <2>1, Zenon DEF FreshInv
  <2>4. ASSUME NEW b \in 0..(call.n - 1), NEW h \in Head, ConservedIs(b, h)
        PROVE  ConservedIs(b, h)'
    <3>1. Holders(b, h)' = Holders(b, h)
      <4>1. None # <<b, h>>
        BY <2>4 DEF None
      <4>2. QED BY <1>1, <1>3, <1>8, <4>1 DEF Holders
    <3>2. Held(b, h)' = Held(b, h)
      BY <1>1, <1>7, <3>1, SameHeld
    <3>3. Rest(b, h)' = Rest(b, h)
      BY <1>7, <3>2, Zenon DEF Rest
    <3>4. QED BY <1>7, <2>1, <2>4, <3>3, Zenon DEF ConservedIs
  <2>5. QED BY <1>1, <1>5, <1>6, <2>2, <2>3, <2>4, ThreadFrame
<1>9. CASE ~ (parallel \/ cur[t] = None)
  <2>1. Flush(t) /\ ~ parallel /\ cur[t] # None
    BY <1>1, <1>9
  <2>2. PICK b0 \in 0..(call.n - 1), h0 \in Head : cur[t] = <<b0, h0>>
    <3>1. cur[t] \in (0..(call.n - 1)) \X Head
      BY <1>1, <1>2, <2>1 DEF HeadsInv
    <3>2. QED BY <3>1
  <2>3. /\ \A b \in 0..(call.n - 1), q \in QueryHead :
              out'[b][q] = IF b = b0 /\ q \div GQA = h0 THEN out[b][q] (+) acc[t] ELSE out[b][q]
        /\ \A b \in 0..(call.n - 1), h \in Head :
              valid'[b][h] <=> (b = b0 /\ h = h0) \/ valid[b][h]
        /\ valid' \in [Sequence -> [Head -> BOOLEAN]]
        /\ out' = [b \in Sequence |-> [q \in QueryHead |-> out'[b][q]]]
        /\ \A b \in Sequence, q \in QueryHead : IsABag(out'[b][q])
    BY <1>2, <2>1, <2>2, FlushFacts
  <2>4. CacheTypeInv'
    BY <1>1, <1>2, <1>4, <2>3 DEF CacheTypeInv
  <2>5. FreshInv'
    <3>1. SUFFICES ASSUME NEW b \in 0..(call.n - 1), NEW h \in Head, NEW q \in QueryHead,
                          q \div GQA = h, ~ valid'[b][h]
                   PROVE  out'[b][q] = EmptyBag
      BY <1>1, <2>1, Zenon DEF FreshInv
    <3>2. ~ valid[b][h] /\ ~ (b = b0 /\ h = h0)
      BY <2>3, <3>1
    <3>3. out[b][q] = EmptyBag
      BY <1>2, <3>1, <3>2 DEF FreshInv
    <3>4. QED BY <2>3, <3>1, <3>2, <3>3
  <2>6. ASSUME NEW b \in 0..(call.n - 1), NEW h \in Head, ConservedIs(b, h)
        PROVE  ConservedIs(b, h)'
    <3>1. CASE b = b0 /\ h = h0
      <4>1. t \in Holders(b, h)
        BY <1>1, <2>1, <2>2, <3>1 DEF Holders
      <4>2. Holders(b, h)' = Holders(b, h) \ {t}
        BY <1>1, <1>3 DEF Holders
      <4>3. \A u \in Holders(b, h) \ {t} : acc'[u] = acc[u]
        BY <1>1
      <4>4. \A q \in QueryHead : IsABag(out[b][q])
        <5>1. b \in Sequence
          BY <1>2, CutFactsHold DEF CutFacts
        <5>2. QED BY <1>2, <5>1 DEF CacheTypeInv
      <4>5. \A q \in QueryHead : q \div GQA = h => out'[b][q] = out[b][q] (+) acc[t]
        BY <2>3, <3>1
      <4>6. QED BY <1>7, <2>6, <4>1, <4>2, <4>3, <4>4, <4>5, FlushConserves
    <3>2. CASE ~ (b = b0 /\ h = h0)
      <4>1. \A q \in QueryHead : q \div GQA = h => out'[b][q] = out[b][q]
        BY <2>3, <3>2
      <4>2. Holders(b, h)' = Holders(b, h)
        <5>1. cur[t] # <<b, h>>
          BY <2>2, <3>2
        <5>2. QED BY <1>1, <1>3, <5>1 DEF Holders
      <4>3. Held(b, h)' = Held(b, h)
        BY <1>1, <1>7, <4>2, SameHeld
      <4>4. Rest(b, h)' = Rest(b, h)
        BY <1>7, <4>3, Zenon DEF Rest
      <4>5. QED BY <1>7, <2>6, <4>1, <4>4, Zenon DEF ConservedIs
    <3>3. QED BY <3>1, <3>2
  <2>7. QED BY <1>1, <1>5, <1>6, <2>4, <2>5, <2>6, ThreadFrame
<1>10. QED BY <1>8, <1>9

(* The result of a complete task leaves ToCome for Held or Slotted. *)
LEMMA BagPass ==
  ASSUME NEW p, NEW h, NEW s, NEW c,
         IsABag(p), IsABag(h), IsABag(s), IsABag(c)
  PROVE  /\ ((p (+) h) (+) s) (+) c = (h (+) s) (+) (p (+) c)
         /\ (h (+) (p (+) s)) (+) c = (h (+) s) (+) (p (+) c)
<1>1. IsABag(h (+) s)
  BY BagAdd
<1>2. (h (+) s) (+) (p (+) c) = p (+) ((h (+) s) (+) c)
  BY <1>1, BagSwap
<1>3. p (+) ((h (+) s) (+) c) = (p (+) (h (+) s)) (+) c
  BY <1>1, BagSwap
<1>4. p (+) (h (+) s) = (p (+) h) (+) s
  BY BagSwap
<1>5. p (+) (h (+) s) = h (+) (p (+) s)
  BY BagSwap
<1>6. QED BY ONLY <1>2, <1>3, <1>4, <1>5, Zenon

LEMMA WorkStep ==
  ASSUME CacheInv, NEW t \in Thread, Work(t)
  PROVE  CacheInv'
<1>1. PICK k : k = task[t]
  OBVIOUS
<1> DEFINE keep == ~parallel /\ cur[t] = TaskIdx(k)
           sum == IF keep THEN acc[t] (+) Partial(k) ELSE Partial(k)
<1>2. /\ tpc[t] = "work"
      /\ IF GoodBlocks(k) = {} THEN UNCHANGED <<cur, acc>>
         ELSE cur' = [cur EXCEPT ![t] = TaskIdx(k)] /\ acc' = [acc EXCEPT ![t] = sum]
      /\ failed' = IF Complete(k) THEN failed ELSE [failed EXCEPT ![t] = TRUE]
      /\ slot' = IF parallel /\ Complete(k) THEN [slot EXCEPT ![k] = sum] ELSE slot
      /\ tpc' = [tpc EXCEPT ![t] = "next"] /\ task' = [task EXCEPT ![t] = 0]
      /\ UNCHANGED <<cache, lens, hole, parallel, phase, call, todo, offsets, valid, out>>
  BY <1>1, Zenon DEF Work, callervars
<1>3. phase = "compute"
  <2>1. tpc[t] # "out"
    BY <1>2
  <2>2. QED BY <2>1, Zenon DEF CacheInv, PhaseInv
<1>4. CacheTypeInv /\ TasksInv /\ HeadsInv /\ FreshInv /\ Cut /\ CacheHolds
  BY <1>3 DEF CacheInv, ComputeInv, PhaseInv
<1>5. k \in 0..(offsets[call.n] - 1) /\ k \notin todo
  BY <1>1, <1>2, <1>4 DEF TasksInv, InHand
<1>6. /\ TaskIdx(k) \in (0..(call.n - 1)) \X Head /\ IsABag(Partial(k))
      /\ Complete(k) => GoodBlocks(k) # {}
      /\ Complete(k) => \A b, h : TaskIdx(k) = <<b, h>> => Partial(k) = TokensOf(b, h, k)
      /\ offsets[call.n] \in Nat /\ offsets[call.n] <= MaxTasks /\ MaxTasks \in Nat
  BY <1>4, <1>5, CutFactsHold DEF CutFacts
<1>7. k \in 0..(MaxTasks - 1)
  <2> HIDE DEF MaxTasks
  <2>1. QED BY <1>5, <1>6
<1>8. IsABag(acc[t]) /\ IsABag(sum)
  <2>1. IsABag(acc[t])
    BY <1>4 DEF CacheTypeInv
  <2>2. IsABag(acc[t] (+) Partial(k))
    BY <1>6, <2>1, BagAdd
  <2>3. QED BY <1>6, <2>1, <2>2
<1>9. parallel => sum = Partial(k)
  OBVIOUS
<1>10. /\ keep => sum = acc[t] (+) Partial(k)
       /\ ~ keep => sum = Partial(k)
       /\ keep <=> ~parallel /\ cur[t] = TaskIdx(k)
  OBVIOUS
<1> HIDE DEF keep, sum
<1>11. \A u \in Thread : /\ tpc'[u] = IF u = t THEN "next" ELSE tpc[u]
                         /\ task'[u] = IF u = t THEN 0 ELSE task[u]
                         /\ u # t => cur'[u] = cur[u] /\ acc'[u] = acc[u]
  BY <1>2, <1>4 DEF CacheTypeInv
<1>12. /\ GoodBlocks(k) = {} => cur'[t] = cur[t] /\ acc'[t] = acc[t]
       /\ GoodBlocks(k) # {} => cur'[t] = TaskIdx(k) /\ acc'[t] = sum
  BY <1>2, <1>4 DEF CacheTypeInv
<1>13. \A x \in 0..(MaxTasks - 1) :
         slot'[x] = IF parallel /\ Complete(k) /\ x = k THEN sum ELSE slot[x]
  <2> HIDE DEF MaxTasks
  <2>1. QED BY <1>2, <1>4, <1>7 DEF CacheTypeInv
<1>14. CacheTypeInv'
  <2>1. /\ tpc' \in [Thread -> ThreadPC] /\ failed' \in [Thread -> BOOLEAN]
        /\ task' = [u \in Thread |-> task'[u]]
    BY <1>2, <1>4 DEF CacheTypeInv, ThreadPC
  <2>2. /\ cur' = [u \in Thread |-> cur'[u]] /\ acc' = [u \in Thread |-> acc'[u]]
    BY <1>2, <1>4 DEF CacheTypeInv
  <2>3. \A u \in Thread : IsABag(acc'[u])
    BY <1>4, <1>8, <1>11, <1>12 DEF CacheTypeInv
  <2>4. slot' = [x \in 0..(MaxTasks - 1) |-> slot'[x]]
    <3> HIDE DEF MaxTasks
    <3>1. QED BY <1>2, <1>4 DEF CacheTypeInv
  <2>5. \A x \in 0..(MaxTasks - 1) : IsABag(slot'[x])
    <3> HIDE DEF MaxTasks
    <3>1. QED BY <1>4, <1>8, <1>13 DEF CacheTypeInv
  <2>6. QED BY <1>2, <1>4, <2>1, <2>2, <2>3, <2>4, <2>5 DEF CacheTypeInv
<1>15. TasksInv'
  <2>1. \A u \in Thread : InHand(u)' => InHand(u) /\ u # t
    BY <1>11 DEF InHand
  <2>2. QED BY <1>2, <1>4, <1>11, <2>1 DEF TasksInv
<1>16. HeadsInv'
  <2>1. \A x : TaskIdx(x)' = TaskIdx(x) /\ GoodBlocks(x)' = GoodBlocks(x)
    BY <1>2, Steady
  <2>2. \A u \in Thread : u # t => tpc'[u] = tpc[u] /\ cur'[u] = cur[u] /\ task'[u] = task[u]
    BY <1>11
  <2>3. tpc'[t] = "next"
    BY <1>11
  <2>3a. cur'[t] = None \/ cur'[t] \in (0..(call.n - 1)) \X Head
    BY <1>2, <1>4, <1>6, <1>12 DEF HeadsInv
  <2>4. \A u \in Thread : tpc'[u] \in {"next", "commit", "work"} =>
          cur'[u] = None \/ cur'[u] \in (0..(call.n - 1)) \X Head
    BY <1>4, <2>2, <2>3a DEF HeadsInv
  <2>5. \A u \in Thread : tpc'[u] = "commit" =>
          ~ parallel' /\ cur'[u] # None /\ cur'[u] # TaskIdx(task'[u])
    BY <1>2, <1>4, <2>1, <2>2, <2>3 DEF HeadsInv
  <2>6. \A u \in Thread : tpc'[u] = "work" /\ ~ parallel' =>
          cur'[u] = None \/ cur'[u] = TaskIdx(task'[u]) \/ GoodBlocks(task'[u]) = {}
    BY <1>2, <1>4, <2>1, <2>2, <2>3 DEF HeadsInv
  <2>7. QED BY <1>2, <2>1, <2>4, <2>5, <2>6 DEF HeadsInv
<1>17. FreshInv'
  BY <1>2, <1>4, Zenon DEF FreshInv
<1>18. \A u \in Thread : failed[u] => failed'[u]
  BY <1>2, <1>4 DEF CacheTypeInv
<1>19. ASSUME NEW b \in 0..(call.n - 1), NEW h \in Head, ConservedIs(b, h),
              \A u \in Thread : ~ failed'[u]
       PROVE  ConservedIs(b, h)'
  <2>1. Complete(k) /\ GoodBlocks(k) # {}
    <3>1. ~ Complete(k) => failed'[t] = TRUE
      BY <1>2, <1>4 DEF CacheTypeInv
    <3>2. QED BY <1>6, <1>19, <3>1
  <2>2. PartsOf(b, h)
    BY <1>4, Parts
  <2>3. /\ \A x : TaskIdx(x)' = TaskIdx(x)
        /\ ReduceSlots(b, h)' = ReduceSlots(b, h) /\ Cached(b, h)' = Cached(b, h)
        /\ \A x : TokensOf(b, h, x)' = TokensOf(b, h, x)
    BY <1>2, Steady
  <2>4. ReduceSlots(b, h) = {x \in 0..(offsets[call.n] - 1) : TaskIdx(x) = <<b, h>>}
    BY <1>4, CutFactsHold DEF CutFacts
  <2>5. cur[t] = None \/ cur[t] = TaskIdx(k) \/ parallel
    BY <1>1, <1>2, <1>4, <2>1 DEF HeadsInv
  <2>6. Pending(b, h)' = Pending(b, h) \ {k}
    <3> DEFINE A == todo \cup {task[u] : u \in {v \in Thread : tpc[v] \in {"commit", "work"}}}
               B == todo' \cup {task'[u] : u \in {v \in Thread : tpc'[v] \in {"commit", "work"}}}
    <3>1. \A u \in Thread : InHand(u)' <=> InHand(u) /\ u # t
      BY <1>11 DEF InHand
    <3>2. \A u \in Thread : InHand(u) /\ u # t => task[u] # k /\ task'[u] = task[u]
      BY <1>1, <1>2, <1>4, <1>11 DEF TasksInv, InHand
    <3>3. \A x : x \in A <=> x \in todo \/ \E u \in Thread : InHand(u) /\ x = task[u]
      BY DEF InHand
    <3>4. \A x : x \in B <=> x \in todo \/ \E u \in Thread : InHand(u)' /\ x = task'[u]
      BY <1>2 DEF InHand
    <3>5. B = A \ {k}
      <4>1. ASSUME NEW x, x \in B PROVE x \in A \ {k}
        <5> HIDE DEF A, B
        <5>1. QED BY <1>5, <3>1, <3>2, <3>3, <3>4, <4>1
      <4>2. ASSUME NEW x, x \in A, x # k PROVE x \in B
        <5> HIDE DEF A, B
        <5>1. x \in todo \/ \E u \in Thread : InHand(u) /\ x = task[u]
          BY <3>3, <4>2
        <5>2. CASE x \in todo
          BY <3>4, <5>2
        <5>3. CASE \E u \in Thread : InHand(u) /\ x = task[u]
          <6>1. PICK u \in Thread : InHand(u) /\ x = task[u]
            BY <5>3
          <6>2. u # t
            BY <1>1, <4>2, <6>1
          <6>3. QED BY <3>1, <3>2, <3>4, <6>1, <6>2
        <5>4. QED BY <5>1, <5>2, <5>3
      <4> HIDE DEF A, B
      <4>3. QED BY <4>1, <4>2
    <3> HIDE DEF A, B
    <3>6. Pending(b, h) = {x \in A : TaskIdx(x) = <<b, h>>}
      BY Zenon DEF Pending, A
    <3>7. Pending(b, h)' = {x \in B : TaskIdx(x)' = <<b, h>>}
      BY Zenon DEF Pending, B
    <3>8. QED BY <2>3, <3>5, <3>6, <3>7
  <2>7. CASE TaskIdx(k) = <<b, h>>
    <3> DEFINE P == Pending(b, h)
               Q == P \ {k}
               p == TokensOf(b, h, k)
               f == [x \in P |-> TokensOf(b, h, x)]
               g == [x \in Q |-> TokensOf(b, h, x)]
    <3>1. k \in P /\ k \in ReduceSlots(b, h)
      BY <1>1, <1>2, <1>5, <2>4, <2>7 DEF Pending
    <3>2. Partial(k) = p /\ IsABag(p)
      BY <1>6, <2>1, <2>7
    <3>3. /\ IsFiniteSet(P) /\ IsFiniteSet(Q) /\ \A x \in P : IsABag(f[x])
          /\ \A x \in Q : IsABag(g[x])
          /\ \A x \in Q : f[x] = g[x]
          /\ f[k] = p
      <4>1. IsFiniteSet(P) /\ IsFiniteSet(Q) /\ \A x \in P : IsABag(TokensOf(b, h, x))
        BY <2>2, FS_Subset DEF PartsOf
      <4> HIDE DEF P
      <4>2. QED BY <3>1, <4>1
    <3>4. ToCome(b, h) = p (+) Sum(g, Q) /\ IsABag(Sum(g, Q))
      <4>1. ToCome(b, h) = Sum(f, P)
        BY Zenon DEF ToCome
      <4> HIDE DEF f, g, P, p
      <4>2. Sum(f, P) = f[k] (+) Sum(f, Q)
        BY <3>1, <3>3, SumLaws
      <4> HIDE DEF Q
      <4>3. Sum(f, Q) = Sum(g, Q)
        BY <3>3, SumSame
      <4>4. IsABag(Sum(g, Q))
        BY <3>3, SumLaws
      <4>5. QED BY <3>3, <4>1, <4>2, <4>3, <4>4
    <3>5. ToCome(b, h)' = Sum(g, Q)
      <4>1. [x \in Pending(b, h)' |-> TokensOf(b, h, x)'] = g
        BY <2>3, <2>6
      <4> HIDE DEF g
      <4>2. Pending(b, h)' = Q
        BY <2>6
      <4> HIDE DEF Q
      <4>3. QED BY <4>1, <4>2, Zenon DEF ToCome
    <3> DEFINE c == Sum(g, Q)
               hd == Held(b, h)
               s == Slotted(b, h)
    <3>6. IsABag(hd) /\ IsABag(s) /\ IsABag(c) /\ IsABag(p)
      BY <2>2, <3>2, <3>4 DEF PartsOf
    <3>7. Rest(b, h) = (hd (+) s) (+) (p (+) c)
      BY <3>4, Zenon DEF Rest
    <3> HIDE DEF c, hd, s, p, f, g, P, Q
    <3>8. Rest(b, h)' = Rest(b, h)
      <4>1. CASE parallel
        <5> DEFINE F == Finished(b, h)
        <5>1. Finished(b, h)' = F \cup {k} /\ k \notin F
          BY <1>2, <2>3, <2>6, <3>1, <4>1 DEF Finished, P
        <5>2. /\ IsFiniteSet(F) /\ \A x \in F : IsABag(slot[x])
              /\ F \subseteq ReduceSlots(b, h)
          BY <2>2 DEF PartsOf, Finished
        <5>3. slot'[k] = p
          BY <1>7, <1>9, <1>13, <2>1, <3>2, <4>1
        <5>4. \A x \in F : slot'[x] = slot[x]
          <6>1. \A x \in F : x \in 0..(MaxTasks - 1) /\ x # k
            <7> HIDE DEF MaxTasks, F
            <7>1. QED BY <1>6, <2>4, <5>1, <5>2
          <6> HIDE DEF F
          <6>2. QED BY <1>13, <6>1
        <5>5. Slotted(b, h)' = p (+) s
          <6>1. Slotted(b, h)' = Sum(slot', F \cup {k})
            BY <5>1, Zenon DEF Slotted
          <6>2. s = Sum(slot, F)
            BY Zenon DEF Slotted, s
          <6> HIDE DEF F
          <6>3. Sum(slot', F \cup {k}) = slot'[k] (+) Sum(slot, F)
            BY <3>6, <5>1, <5>2, <5>3, <5>4, SumAdd
          <6>4. QED BY <5>3, <6>1, <6>2, <6>3, Zenon
        <5>6. Held(b, h)' = hd
          <6>1. Holders(b, h)' = {} /\ Holders(b, h) = {}
            BY <1>2, <4>1 DEF Holders
          <6>2. QED BY <2>2, <6>1, SameHeld DEF hd
        <5>7. Rest(b, h)' = (hd (+) (p (+) s)) (+) c
          BY <3>5, <5>5, <5>6, Zenon DEF Rest, c
        <5>8. (hd (+) (p (+) s)) (+) c = (hd (+) s) (+) (p (+) c)
          BY <3>6, BagPass
        <5>9. QED BY <3>7, <5>7, <5>8, Zenon
      <4>2. CASE ~ parallel
        <5> DEFINE H == Holders(b, h)
        <5>1. /\ IsFiniteSet(H) /\ \A u \in H : IsABag(acc[u])
              /\ H \subseteq Thread
          BY <2>2 DEF PartsOf, Holders
        <5>2. cur'[t] = TaskIdx(k) /\ acc'[t] = sum
          BY <1>12, <2>1
        <5>3. Holders(b, h)' = H \cup {t}
          BY <1>2, <1>11, <2>7, <4>2, <5>2 DEF Holders
        <5>4. \A u \in H : u # t => acc'[u] = acc[u]
          BY <1>11, <5>1
        <5>5. t \in H <=> keep
          BY <1>2, <1>10, <2>7, <4>2 DEF Holders
        <5>6. hd = Sum(acc, H) /\ Held(b, h)' = Sum(acc', H \cup {t})
          BY <5>3, Zenon DEF Held, hd
        <5> HIDE DEF H
        <5>7. Held(b, h)' = p (+) hd
          <6>1. CASE t \notin H
            <7>1. sum = p
              BY <1>10, <3>2, <5>5, <6>1
            <7>2. Sum(acc', H \cup {t}) = acc'[t] (+) Sum(acc, H)
              BY <3>6, <5>1, <5>2, <5>4, <6>1, <7>1, SumAdd
            <7>3. QED BY <5>2, <5>6, <7>1, <7>2, Zenon
          <6>2. CASE t \in H
            <7> DEFINE R == H \ {t}
                       a == acc[t]
                       x == Sum(acc, R)
            <7>1. sum = a (+) p
              BY <1>10, <3>2, <5>5, <6>2
            <7>2. IsFiniteSet(R) /\ \A u \in R : IsABag(acc[u])
              BY <5>1, FS_Subset
            <7>3. Sum(acc, H) = a (+) x /\ IsABag(x)
              BY <5>1, <6>2, <7>2, SumLaws
            <7>4. H \cup {t} = R \cup {t} /\ t \notin R /\ \A u \in R : acc'[u] = acc[u]
              BY <5>4, <6>2
            <7> HIDE DEF R
            <7>5. Sum(acc', R \cup {t}) = acc'[t] (+) x
              BY <1>8, <5>2, <7>2, <7>4, SumAdd
            <7>6. IsABag(a)
              BY <1>8
            <7> HIDE DEF x, a
            <7>7. (a (+) p) (+) x = p (+) (a (+) x)
              <8>1. a (+) p = p (+) a /\ (p (+) a) (+) x = p (+) (a (+) x)
                BY <3>6, <7>3, <7>6, BagAdd, BagSwap
              <8>2. QED BY <8>1
            <7>8. QED BY <5>2, <5>6, <7>1, <7>3, <7>4, <7>5, <7>7, Zenon
          <6>3. QED BY <6>1, <6>2
        <5>8. Slotted(b, h)' = s
          <6>1. Finished(b, h)' = {} /\ Finished(b, h) = {}
            BY <1>2, <4>2 DEF Finished
          <6>2. QED BY <2>2, <6>1, SameSlotted DEF s
        <5>9. Rest(b, h)' = ((p (+) hd) (+) s) (+) c
          BY <3>5, <5>7, <5>8, Zenon DEF Rest, c
        <5>10. ((p (+) hd) (+) s) (+) c = (hd (+) s) (+) (p (+) c)
          BY <3>6, BagPass
        <5>11. QED BY <3>7, <5>9, <5>10, Zenon
      <4>3. QED BY <4>1, <4>2
    <3>9. QED BY <1>2, <1>19, <2>3, <3>8, Zenon DEF ConservedIs
  <2>8. CASE TaskIdx(k) # <<b, h>>
    <3>1. k \notin Pending(b, h) /\ k \notin ReduceSlots(b, h)
      BY <2>4, <2>8 DEF Pending
    <3>2. Pending(b, h)' = Pending(b, h)
      BY <2>6, <3>1
    <3>3. Finished(b, h)' = Finished(b, h)
      BY <1>2, <2>3, <3>2 DEF Finished
    <3>4. \A x \in Finished(b, h) : slot'[x] = slot[x]
      <4>1. \A x \in Finished(b, h) : x \in ReduceSlots(b, h)
        BY DEF Finished
      <4>2. \A x \in Finished(b, h) : x \in 0..(MaxTasks - 1) /\ x # k
        <5> HIDE DEF MaxTasks
        <5>1. QED BY <1>6, <2>4, <3>1, <4>1
      <4>3. QED BY <1>13, <4>2
    <3>5. Holders(b, h)' = Holders(b, h)
      <4>1. None # <<b, h>>
        BY <1>19 DEF None
      <4>2. CASE parallel
        BY <1>2, <4>2 DEF Holders
      <4>3. CASE ~ parallel
        <5>1. cur[t] # <<b, h>> /\ cur'[t] # <<b, h>>
          BY <1>12, <2>1, <2>5, <2>8, <4>1, <4>3
        <5>2. \A u \in Thread : u # t => tpc'[u] = tpc[u] /\ cur'[u] = cur[u]
          BY <1>11
        <5>3. parallel' = parallel
          BY <1>2
        <5>4. QED BY ONLY <5>1, <5>2, <5>3 DEF Holders
      <4>4. QED BY <4>2, <4>3
    <3>6. \A u \in Holders(b, h) : acc'[u] = acc[u]
      <4>1. None # <<b, h>>
        BY <1>19 DEF None
      <4>2. t \notin Holders(b, h)
        BY <2>5, <2>8, <4>1 DEF Holders
      <4>3. QED BY <1>11, <4>2 DEF Holders
    <3>7. Held(b, h)' = Held(b, h) /\ Slotted(b, h)' = Slotted(b, h) /\ ToCome(b, h)' = ToCome(b, h)
      BY <1>2, <2>2, <3>2, <3>3, <3>4, <3>5, <3>6, SameHeld, SameSlotted, SameToCome
    <3>8. Rest(b, h)' = Rest(b, h)
      BY <3>7, Zenon DEF Rest
    <3>9. QED BY <1>2, <1>19, <2>3, <3>8, Zenon DEF ConservedIs
  <2>9. QED BY <2>7, <2>8
<1>20. QED BY <1>2, <1>3, <1>14, <1>15, <1>16, <1>17, <1>18, <1>19, ThreadFrame

-----------------------------------------------------------------------------
(* The end of a call *)

LEMMA ComputeReturnStep == CacheInv /\ ComputeReturn => CacheInv'
<1> SUFFICES ASSUME CacheInv, ComputeReturn PROVE CacheInv'
  OBVIOUS
<1>1. /\ phase = "compute" /\ todo = {} /\ \A t \in Thread : tpc[t] = "out"
      /\ UNCHANGED <<cache, lens, hole, parallel, offsets, tpc, task, cur, acc, failed, valid, out, slot>>
  BY DEF ComputeReturn, callervars, threadvars, resultvars
<1>2. CacheTypeInv /\ TasksInv /\ FreshInv /\ Cut /\ CacheHolds
  BY <1>1 DEF CacheInv, ComputeInv, PhaseInv
<1>3. CacheHolds'
  BY <1>1, <1>2, Zenon DEF CacheHolds
<1>4. CASE AnyFailed
  <2>1. phase' = "idle" /\ call' = NoCall
    BY <1>4 DEF ComputeReturn
  <2>2. CacheTypeInv'
    <3>1. NoCall.n = 0 /\ 0 \in 0..Batch
      BY Sizes DEF NoCall
    <3>2. QED BY <1>1, <1>2, <2>1, <3>1 DEF CacheTypeInv, Phase
  <2>3. UpdateInv' /\ PhaseInv' /\ ComputeInv' /\ ReduceInv' /\ ConvertInv' /\ Conserved'
    <3>1. phase' # "update" /\ phase' # "compute" /\ phase' # "reduce" /\ phase' # "convert"
      BY <2>1
    <3>2. \A t \in Thread : tpc'[t] = "out"
      BY <1>1
    <3>3. QED BY <3>1, <3>2, Zenon DEF UpdateInv, PhaseInv, ComputeInv, ReduceInv, ConvertInv, Conserved
  <2>4. QED BY <1>3, <2>2, <2>3 DEF CacheInv
<1>5. CASE ~ AnyFailed
  <2>1. /\ phase' = IF parallel /\ offsets[call.n] > 0 THEN "reduce" ELSE "convert"
        /\ todo' = IF phase' = "reduce" THEN 0..(call.n * KVHeads * GQA - 1) ELSE {}
        /\ call' = call
    BY <1>5, Zenon DEF ComputeReturn
  <2>2. CacheTypeInv'
    BY <1>1, <1>2, <2>1 DEF CacheTypeInv, Phase
  <2>3. Cut'
    BY <1>1, <1>2, <2>1, Steady
  (* Nothing is held or to come any more. *)
  <2>4. ASSUME NEW b \in 0..(call.n - 1), NEW h \in Head
        PROVE  /\ PartsOf(b, h) /\ ConservedIs(b, h)
               /\ Pending(b, h) = {} /\ Rest(b, h) = Slotted(b, h)
    <3>1. PartsOf(b, h)
      BY <1>2, Parts
    <3>2. ConservedIs(b, h)
      BY <1>1, <1>5, ConservedHeads DEF CacheInv, AnyFailed
    <3>3. Holders(b, h) = {} /\ Pending(b, h) = {}
      BY <1>1 DEF Holders, Pending
    <3>4. Held(b, h) = EmptyBag /\ ToCome(b, h) = EmptyBag
      BY <3>3, SumEmpty DEF Held, ToCome
    <3>5. IsABag(Slotted(b, h))
      BY <3>1 DEF PartsOf
    <3> DEFINE s == Slotted(b, h)
    <3>6. EmptyBag (+) s = s /\ s (+) EmptyBag = s
      BY <3>5, BagAdd, EmptyIsBag
    <3>7. Rest(b, h) = (EmptyBag (+) s) (+) EmptyBag
      BY <3>4, Zenon DEF Rest
    <3>8. QED BY <3>1, <3>2, <3>3, <3>6, <3>7
  <2>5. \A q \in QueryHead : KVHead(q) \in Head
    <3>1. SUFFICES ASSUME NEW q \in 0..(KVHeads * GQA - 1) PROVE q \div GQA \in 0..(KVHeads - 1)
      BY DEF QueryHead, KVHead, Head
    <3>2. KVHeads \in Nat /\ GQA \in Nat \ {0} /\ KVHeads * GQA = GQA * KVHeads
      BY Sizes
    <3>3. QED BY <3>1, <3>2, Slices
  <2>6. CASE phase' = "reduce"
    <3>1. parallel
      BY <2>1, <2>6
    <3>2. todo' = 0..(call.n * (KVHeads * GQA) - 1)
      <4>1. call.n \in Nat /\ KVHeads \in Nat /\ GQA \in Nat
        BY <1>2, Sizes DEF CacheTypeInv
      <4>2. call.n * KVHeads * GQA = call.n * (KVHeads * GQA)
        BY <4>1
      <4>3. QED BY <2>1, <2>6, <4>2
    <3>3. ASSUME NEW b \in 0..(call.n - 1), NEW q \in QueryHead
          PROVE  /\ QueryTask(b, q) \in todo' /\ out[b][q] = EmptyBag
                 /\ Sum(slot, ReduceSlots(b, KVHead(q))) = SetToBag(Cached(b, KVHead(q)))
      <4> DEFINE h == KVHead(q)
      <4>1. h \in Head /\ q \div GQA = h
        BY <2>5 DEF KVHead
      <4> HIDE DEF h
      <4>2. out[b][q] = EmptyBag
        BY <1>2, <3>1, <4>1 DEF FreshInv
      <4>3. Finished(b, h) = ReduceSlots(b, h)
        BY <2>4, <3>1, <4>1 DEF Finished
      <4>4. Rest(b, h) = Sum(slot, ReduceSlots(b, h))
        BY <2>4, <4>1, <4>3 DEF Slotted
      <4>5. IsABag(Rest(b, h))
        BY <2>4, <4>1 DEF PartsOf
      <4>6. out[b][q] (+) Rest(b, h) = SetToBag(Cached(b, h))
        BY <2>4, <4>1 DEF ConservedIs
      <4>7. EmptyBag (+) Rest(b, h) = Rest(b, h)
        BY <4>5, BagAdd, EmptyIsBag
      <4>8. QueryTask(b, q) \in todo'
        <5>1. call.n \in Nat /\ KVHeads * GQA \in Nat \ {0} /\ q \in 0..(KVHeads * GQA - 1)
          <6>1. call.n \in Nat /\ KVHeads \in Nat \ {0} /\ GQA \in Nat \ {0}
            BY <1>2, Sizes DEF CacheTypeInv
          <6>2. KVHeads * GQA \in Nat /\ KVHeads * GQA >= 1
            BY <6>1
          <6>3. QED BY <6>1, <6>2 DEF QueryHead
        <5> DEFINE W == KVHeads * GQA
        <5>2. W \in Nat \ {0} /\ q \in 0..(W - 1) /\ QueryTask(b, q) = b * W + q
          BY <5>1 DEF QueryTask
        <5> HIDE DEF W
        <5>3. W * call.n = call.n * W
          BY <5>1, <5>2
        <5>4. QueryTask(b, q) \in 0..(W * call.n - 1)
          BY ONLY <5>1, <5>2, SliceOf, b \in 0..(call.n - 1)
        <5>5. QED BY <3>2, <5>3, <5>4 DEF W
      <4>9. QED BY <4>2, <4>4, <4>6, <4>7, <4>8 DEF h
    <3>4. ReduceInv'
      <4>1. \A b, h : ReduceSlots(b, h)' = ReduceSlots(b, h) /\ Cached(b, h)' = Cached(b, h)
        BY <1>1, <2>1, Steady
      <4>2. ASSUME NEW b \in 0..(call.n - 1), NEW q \in QueryHead
            PROVE  /\ QueryTask(b, q) \in todo' /\ out'[b][q] = EmptyBag
                   /\ Sum(slot', ReduceSlots(b, KVHead(q))') = SetToBag(Cached(b, KVHead(q))')
        <5>1. QueryTask(b, q) \in todo' /\ out'[b][q] = EmptyBag
          BY <1>1, <3>3
        <5>2. Sum(slot, ReduceSlots(b, KVHead(q))) = SetToBag(Cached(b, KVHead(q)))
          BY <3>3
        <5>3. QED BY <1>1, <4>1, <5>1, <5>2, Zenon
      <4>3. QED BY <2>1, <3>2, <4>2, Zenon DEF ReduceInv
    <3>5. UpdateInv' /\ PhaseInv' /\ ComputeInv' /\ ConvertInv' /\ Conserved'
      <4>1. phase' # "update" /\ phase' # "compute" /\ phase' # "convert"
        BY <2>6
      <4>2. \A t \in Thread : tpc'[t] = "out"
        BY <1>1
      <4>3. QED BY <2>3, <4>1, <4>2, Zenon DEF UpdateInv, PhaseInv, ComputeInv, ConvertInv, Conserved
    <3>6. QED BY <1>3, <2>2, <3>4, <3>5 DEF CacheInv
  <2>7. CASE phase' = "convert"
    <3>1. ~ (parallel /\ offsets[call.n] > 0)
      BY <2>1, <2>7
    <3>2. ASSUME NEW b \in 0..(call.n - 1), NEW q \in QueryHead
          PROVE  out[b][q] = SetToBag(Cached(b, KVHead(q)))
      <4> DEFINE h == KVHead(q)
      <4>1. h \in Head /\ q \div GQA = h
        BY <2>5 DEF KVHead
      <4> HIDE DEF h
      <4>2. Finished(b, h) = {}
        <5>1. CASE ~ parallel
          BY <5>1 DEF Finished
        <5>2. CASE parallel
          <6>1. /\ offsets[call.n] \in Nat
                /\ ReduceSlots(b, h) = {k \in 0..(offsets[call.n] - 1) : TaskIdx(k) = <<b, h>>}
            BY <1>2, <4>1, CutFactsHold DEF CutFacts
          <6>2. offsets[call.n] = 0
            BY <3>1, <5>2, <6>1
          <6>3. ReduceSlots(b, h) = {}
            BY <6>1, <6>2
          <6>4. QED BY <6>3 DEF Finished
        <5>3. QED BY <5>1, <5>2
      <4>3. Rest(b, h) = EmptyBag
        BY <2>4, <4>1, <4>2, SumEmpty DEF Slotted
      <4>4. out[b][q] (+) Rest(b, h) = SetToBag(Cached(b, h))
        BY <2>4, <4>1 DEF ConservedIs
      <4>5. IsABag(out[b][q])
        <5>1. b \in Sequence
          BY <1>2, CutFactsHold DEF CutFacts
        <5>2. QED BY <1>2, <5>1 DEF CacheTypeInv
      <4>6. out[b][q] (+) EmptyBag = out[b][q]
        BY <4>5, BagAdd, EmptyIsBag
      <4>7. QED BY <4>3, <4>4, <4>6 DEF h
    <3>3. ConvertInv'
      <4>1. \A b, h : Cached(b, h)' = Cached(b, h)
        BY <1>1, <2>1, Steady
      <4>2. \A b \in 0..(call.n - 1), q \in QueryHead : out'[b][q] = SetToBag(Cached(b, KVHead(q))')
        BY <1>1, <3>2, <4>1
      <4>3. QED BY <2>1, <4>2, Zenon DEF ConvertInv
    <3>4. UpdateInv' /\ PhaseInv' /\ ComputeInv' /\ ReduceInv' /\ Conserved'
      <4>1. phase' # "update" /\ phase' # "compute" /\ phase' # "reduce"
        BY <2>7
      <4>2. \A t \in Thread : tpc'[t] = "out"
        BY <1>1
      <4>3. QED BY <2>3, <4>1, <4>2, Zenon DEF UpdateInv, PhaseInv, ComputeInv, ReduceInv, Conserved
    <3>5. QED BY <1>3, <2>2, <3>3, <3>4 DEF CacheInv
  <2>8. phase' = "reduce" \/ phase' = "convert"
    BY <2>1
  <2>9. QED BY <2>6, <2>7, <2>8
<1>6. QED BY <1>4, <1>5

LEMMA QueryTaskOf ==
  ASSUME NEW n \in Nat, NEW k \in 0..(n * (KVHeads * GQA) - 1)
  PROVE  /\ k \div (KVHeads * GQA) \in 0..(n - 1) /\ k % (KVHeads * GQA) \in QueryHead
         /\ \A b \in 0..(n - 1), q \in QueryHead :
              QueryTask(b, q) = k <=> b = k \div (KVHeads * GQA) /\ q = k % (KVHeads * GQA)
<1> DEFINE W == KVHeads * GQA
<1>1. W \in Nat \ {0} /\ QueryHead = 0..(W - 1)
  <2>1. KVHeads \in Nat \ {0} /\ GQA \in Nat \ {0}
    BY Sizes
  <2>2. KVHeads * GQA \in Nat /\ KVHeads * GQA >= 1
    BY <2>1
  <2>3. QED BY <2>2 DEF QueryHead
<1>2. \A b, q : QueryTask(b, q) = b * W + q
  BY DEF QueryTask
<1>3. k \in 0..(n * W - 1)
  OBVIOUS
<1> HIDE DEF W
<1>4. k \in 0..(W * n - 1)
  BY <1>1, <1>3
<1>5. k \div W \in 0..(n - 1) /\ k % W \in 0..(W - 1) /\ (k \div W) * W + (k % W) = k
  BY ONLY <1>1, <1>4, n \in Nat, Slices
<1>6. ASSUME NEW b \in 0..(n - 1), NEW q \in 0..(W - 1)
      PROVE  b * W + q = k <=> b = k \div W /\ q = k % W
  <2>1. W \in Nat \ {0}
    BY <1>1
  <2>2. PICK v : v = b * W + q
    OBVIOUS
  <2>3. v \div W = b /\ v % W = q
    BY ONLY <2>1, <2>2, n \in Nat, b \in 0..(n - 1), q \in 0..(W - 1), SliceOf
  <2>4. QED BY <1>5, <2>2, <2>3, Zenon
<1>7. QED BY <1>1, <1>2, <1>5, <1>6 DEF W

LEMMA ReduceStep == CacheInv /\ ReduceOneQueryHead => CacheInv'
<1> SUFFICES ASSUME CacheInv, ReduceOneQueryHead PROVE CacheInv'
  OBVIOUS
<1>1. /\ phase = "reduce" /\ todo # {}
      /\ UNCHANGED <<cache, lens, hole, parallel, phase, call, offsets, tpc, task,
                     cur, acc, failed, valid, slot>>
  BY DEF ReduceOneQueryHead, callervars, threadvars
<1>2. /\ CacheTypeInv /\ Cut /\ CacheHolds
      /\ todo \subseteq 0..(call.n * (KVHeads * GQA) - 1)
      /\ \A b \in 0..(call.n - 1), q \in QueryHead :
           IF QueryTask(b, q) \in todo
           THEN /\ out[b][q] = EmptyBag
                /\ Sum(slot, ReduceSlots(b, KVHead(q))) = SetToBag(Cached(b, KVHead(q)))
           ELSE out[b][q] = SetToBag(Cached(b, KVHead(q)))
  BY <1>1 DEF CacheInv, ReduceInv, PhaseInv
<1>3. call.n \in Nat /\ \A b \in 0..(call.n - 1) : b \in Sequence
  BY <1>2, CutFactsHold DEF CutFacts
<1> DEFINE k == FS!Min(todo)
           c == k \div (KVHeads * GQA)
           r == k % (KVHeads * GQA)
<1>4. out' = [out EXCEPT ![c][r] = Fn!FoldFunctionOnSet((+), @, slot, ReduceSlots(c, KVHead(r)))]
      /\ todo' = todo \ {k}
  BY DEF ReduceOneQueryHead
<1>5. k \in todo /\ k \in 0..(call.n * (KVHeads * GQA) - 1)
  <2>1. todo \in SUBSET Nat
    BY <1>2
  <2>2. QED BY <1>1, <1>2, <2>1, MinIn
<1> HIDE DEF k
<1>6. /\ c \in 0..(call.n - 1) /\ r \in QueryHead
      /\ \A b \in 0..(call.n - 1), q \in QueryHead : QueryTask(b, q) = k <=> b = c /\ q = r
  BY <1>3, <1>5, QueryTaskOf
<1> HIDE DEF c, r
<1>7. Fn!FoldFunctionOnSet((+), out[c][r], slot, ReduceSlots(c, KVHead(r)))
        = SetToBag(Cached(c, KVHead(r)))
  <2>1. QueryTask(c, r) \in todo
    BY <1>5, <1>6
  <2>2. /\ out[c][r] = EmptyBag
        /\ Sum(slot, ReduceSlots(c, KVHead(r))) = SetToBag(Cached(c, KVHead(r)))
    BY <1>2, <1>6, <2>1
  <2>3. QED BY <2>2, Zenon DEF Sum
<1>8. ASSUME NEW b \in Sequence, NEW q \in QueryHead
      PROVE  /\ out'[b][q] = IF b = c /\ q = r THEN SetToBag(Cached(c, KVHead(r))) ELSE out[b][q]
             /\ out'[b] = [p \in QueryHead |-> out'[b][p]]
  <2>1. out = [x \in Sequence |-> [p \in QueryHead |-> out[x][p]]]
    BY <1>2 DEF CacheTypeInv
  <2> DEFINE v == SetToBag(Cached(c, KVHead(r)))
  <2>2. out' = [out EXCEPT ![c][r] = v]
    BY <1>4, <1>7
  <2>3. c \in Sequence
    BY <1>3, <1>6
  <2> HIDE DEF v
  <2>4. out'[b] = IF b = c THEN [out[b] EXCEPT ![r] = v] ELSE out[b]
    BY <2>1, <2>2, <2>3
  <2>5. out[b] = [p \in QueryHead |-> out[b][p]]
    BY <2>1
  <2>6. out'[b][q] = (IF b = c /\ q = r THEN v ELSE out[b][q])
        /\ out'[b] = [p \in QueryHead |-> out'[b][p]]
    BY <1>6, <2>4, <2>5
  <2>7. QED BY <2>6 DEF v
<1>9. CacheTypeInv'
  <2>1. out' = [b \in Sequence |-> [q \in QueryHead |-> out'[b][q]]]
    <3>1. out' = [b \in Sequence |-> out'[b]]
      BY <1>2, <1>4 DEF CacheTypeInv
    <3>2. \A b \in Sequence : out'[b] = [q \in QueryHead |-> out'[b][q]]
      <4>1. QueryHead # {}
        BY <1>6
      <4>2. QED BY <1>8, <4>1
    <3>3. QED BY <3>1, <3>2
  <2>2. \A b \in Sequence, q \in QueryHead : IsABag(out'[b][q])
    <3>1. \A b \in Sequence, q \in QueryHead : IsABag(out[b][q])
      BY <1>2 DEF CacheTypeInv
    <3>2. ASSUME NEW b \in Sequence, NEW q \in QueryHead PROVE IsABag(out'[b][q])
      <4>1. out'[b][q] = SetToBag(Cached(c, KVHead(r))) \/ out'[b][q] = out[b][q]
        BY <1>8
      <4>2. IsABag(SetToBag(Cached(c, KVHead(r)))) /\ IsABag(out[b][q])
        BY <3>1, SetBag
      <4>3. QED BY <4>1, <4>2
    <3>3. QED BY <3>2
  <2>3. QED BY <1>1, <1>2, <2>1, <2>2 DEF CacheTypeInv
<1>10. CacheHolds' /\ Cut'
  BY <1>1, <1>2, Steady
<1>11. ReduceInv'
  <2>1. \A b, h : ReduceSlots(b, h)' = ReduceSlots(b, h) /\ Cached(b, h)' = Cached(b, h)
    BY <1>1, Steady
  <2>2. todo' \subseteq 0..(call.n * (KVHeads * GQA) - 1)
    BY <1>2, <1>4
  <2>3. ASSUME NEW b \in 0..(call.n - 1), NEW q \in QueryHead
        PROVE  IF QueryTask(b, q) \in todo'
               THEN /\ out'[b][q] = EmptyBag
                    /\ Sum(slot, ReduceSlots(b, KVHead(q))) = SetToBag(Cached(b, KVHead(q)))
               ELSE out'[b][q] = SetToBag(Cached(b, KVHead(q)))
    <3>1. b \in Sequence
      BY <1>3
    <3>2. CASE b = c /\ q = r
      <4>1. QueryTask(b, q) \notin todo'
        BY <1>4, <1>6, <3>2
      <4>2. out'[b][q] = SetToBag(Cached(b, KVHead(q)))
        BY <1>8, <3>1, <3>2
      <4>3. QED BY <4>1, <4>2
    <3>3. CASE ~ (b = c /\ q = r)
      <4>1. QueryTask(b, q) \in todo' <=> QueryTask(b, q) \in todo
        BY <1>4, <1>6, <3>3
      <4>2. out'[b][q] = out[b][q]
        BY <1>8, <3>1, <3>3
      <4>3. QED BY <1>2, <4>1, <4>2
    <3>4. QED BY <3>2, <3>3
  <2>4. ASSUME NEW b \in 0..(call.n - 1), NEW q \in QueryHead
        PROVE  IF QueryTask(b, q) \in todo'
               THEN /\ out'[b][q] = EmptyBag
                    /\ Sum(slot', ReduceSlots(b, KVHead(q))') = SetToBag(Cached(b, KVHead(q))')
               ELSE out'[b][q] = SetToBag(Cached(b, KVHead(q))')
    BY <1>1, <2>1, <2>3, Zenon
  <2>5. QED BY <1>1, <2>2, <2>4, Zenon DEF ReduceInv
<1>12. UpdateInv' /\ PhaseInv' /\ ComputeInv' /\ ConvertInv' /\ Conserved'
  <2>1. phase' # "update" /\ phase' # "compute" /\ phase' # "convert"
    BY <1>1
  <2>2. \A t \in Thread : tpc'[t] = "out"
    BY <1>1 DEF CacheInv, PhaseInv
  <2>3. QED BY <1>10, <2>1, <2>2, Zenon DEF UpdateInv, PhaseInv, ComputeInv, ConvertInv, Conserved
<1>13. QED BY <1>9, <1>10, <1>11, <1>12 DEF CacheInv

LEMMA ReduceReturnStep == CacheInv /\ ReduceReturn => CacheInv'
<1> SUFFICES ASSUME CacheInv, ReduceReturn PROVE CacheInv'
  OBVIOUS
<1>1. /\ phase = "reduce" /\ todo = {} /\ phase' = "convert"
      /\ UNCHANGED <<cache, lens, hole, parallel, call, offsets, tpc, task,
                     cur, acc, failed, valid, out, slot>>
  BY DEF ReduceReturn, callervars, threadvars, resultvars
<1>2. /\ CacheTypeInv /\ Cut /\ CacheHolds /\ \A t \in Thread : tpc[t] = "out"
      /\ \A b \in 0..(call.n - 1), q \in QueryHead : out[b][q] = SetToBag(Cached(b, KVHead(q)))
  BY <1>1 DEF CacheInv, ReduceInv, PhaseInv
<1>3. CacheTypeInv'
  BY <1>1, <1>2 DEF CacheTypeInv, Phase
<1>4. CacheHolds' /\ Cut' /\ \A b, h : Cached(b, h)' = Cached(b, h)
  BY <1>1, <1>2, Steady
<1>5. ConvertInv'
  <2>1. \A b \in 0..(call.n - 1), q \in QueryHead : out'[b][q] = SetToBag(Cached(b, KVHead(q))')
    BY <1>1, <1>2, <1>4
  <2>2. QED BY <1>1, <2>1, Zenon DEF ConvertInv
<1>6. UpdateInv' /\ PhaseInv' /\ ComputeInv' /\ ReduceInv' /\ Conserved'
  <2>1. phase' # "update" /\ phase' # "compute" /\ phase' # "reduce"
    BY <1>1
  <2>2. \A t \in Thread : tpc'[t] = "out"
    BY <1>1, <1>2
  <2>3. QED BY <1>4, <2>1, <2>2, Zenon DEF UpdateInv, PhaseInv, ComputeInv, ReduceInv, Conserved
<1>7. QED BY <1>3, <1>4, <1>5, <1>6 DEF CacheInv

LEMMA ConvertStep == CacheInv /\ Convert => CacheInv'
<1> SUFFICES ASSUME CacheInv, Convert PROVE CacheInv'
  OBVIOUS
<1>1. /\ phase = "convert" /\ phase' = "idle" /\ call' = NoCall
      /\ UNCHANGED <<cache, lens, hole, parallel, offsets, tpc, task,
                     cur, acc, failed, valid, out, slot>>
  BY DEF Convert, callervars, threadvars, resultvars
<1>2. CacheTypeInv /\ CacheHolds /\ \A t \in Thread : tpc[t] = "out"
  BY <1>1 DEF CacheInv, PhaseInv
<1>3. CacheTypeInv'
  <2>1. NoCall.n = 0 /\ 0 \in 0..Batch
    BY Sizes DEF NoCall
  <2>2. QED BY <1>1, <1>2, <2>1 DEF CacheTypeInv, Phase
<1>4. CacheHolds'
  BY <1>1, <1>2, Zenon DEF CacheHolds
<1>5. UpdateInv' /\ PhaseInv' /\ ComputeInv' /\ ReduceInv' /\ ConvertInv' /\ Conserved'
  <2>1. phase' # "update" /\ phase' # "compute" /\ phase' # "reduce" /\ phase' # "convert"
    BY <1>1
  <2>2. \A t \in Thread : tpc'[t] = "out"
    BY <1>1, <1>2
  <2>3. QED BY <2>1, <2>2, Zenon DEF UpdateInv, PhaseInv, ComputeInv, ReduceInv, ConvertInv, Conserved
<1>6. QED BY <1>3, <1>4, <1>5 DEF CacheInv

-----------------------------------------------------------------------------
(* The theorems *)

LEMMA StutterStep ==
  ASSUME CacheInv, UNCHANGED cacheVars
  PROVE  CacheInv'
<1>1. UNCHANGED <<cache, lens, hole, parallel, phase, call, todo, offsets, tpc, task,
                  cur, acc, failed, valid, out, slot>>
  BY DEF cacheVars
<1>2. CacheHolds' /\ (Cut => Cut')
  BY <1>1, Steady DEF CacheInv
<1>3. /\ \A k : TaskIdx(k)' = TaskIdx(k) /\ GoodBlocks(k)' = GoodBlocks(k)
      /\ \A b, h : ReduceSlots(b, h)' = ReduceSlots(b, h) /\ Cached(b, h)' = Cached(b, h)
  BY <1>1, Steady
<1>4. CacheTypeInv'
  BY <1>1 DEF CacheInv, CacheTypeInv
<1>5. UpdateInv'
  <2>1. UpdateAccepted(call)' <=> UpdateAccepted(call)
    BY <1>1, Zenon DEF UpdateAccepted, Entry, InRange
  <2>2. \A k : Written(k)' <=> Written(k)
    BY <1>1, Zenon DEF Written
  <2>3. UpdateInv
    BY DEF CacheInv
  <2>4. QED BY <1>1, <2>1, <2>2, <2>3, Zenon DEF UpdateInv
<1>6. PhaseInv'
  <2>1. PhaseInv
    BY DEF CacheInv
  <2>2. QED BY <1>1, <1>2, <2>1, Zenon DEF PhaseInv
<1>7. ComputeInv'
  <2>1. \A t : InHand(t)' <=> InHand(t)
    BY <1>1, Zenon DEF InHand
  <2>2. TasksInv => TasksInv'
    BY <1>1, <2>1, Zenon DEF TasksInv
  <2>3. HeadsInv => HeadsInv'
    BY <1>1, <1>3, Zenon DEF HeadsInv
  <2>4. FreshInv => FreshInv'
    BY <1>1, Zenon DEF FreshInv
  <2>5. QED BY <1>1, <2>2, <2>3, <2>4, Zenon DEF ComputeInv, CacheInv
<1>8. ReduceInv' /\ ConvertInv'
  <2>1. ReduceInv /\ ConvertInv
    BY DEF CacheInv
  <2>2. ReduceInv'
    BY <1>1, <1>3, <2>1, Zenon DEF ReduceInv
  <2>3. ConvertInv'
    BY <1>1, <1>3, <2>1, Zenon DEF ConvertInv
  <2>4. QED BY <2>2, <2>3
<1>9. Conserved'
  <2>1. ASSUME NEW b, NEW h PROVE Rest(b, h)' = Rest(b, h)
    <3>1. Holders(b, h)' = Holders(b, h)
      BY <1>1, Zenon DEF Holders
    <3>2. Pending(b, h)' = Pending(b, h)
      BY <1>1, <1>3, Zenon DEF Pending
    <3>3. Finished(b, h)' = Finished(b, h)
      BY <1>1, <1>3, <3>2, Zenon DEF Finished
    <3>4. Held(b, h)' = Held(b, h) /\ Slotted(b, h)' = Slotted(b, h)
      BY <1>1, <3>1, <3>3, Zenon DEF Held, Slotted
    <3>5. ToCome(b, h)' = ToCome(b, h)
      BY <1>1, <3>2, SameToCome
    <3>6. QED BY <3>4, <3>5, Zenon DEF Rest
  <2>2. \A b, h : ConservedIs(b, h) => ConservedIs(b, h)'
    BY <1>1, <1>3, <2>1, Zenon DEF ConservedIs
  <2>3. phase = "compute" /\ (\A t \in Thread : ~failed[t]) =>
          \A b \in 0..(call.n - 1), h \in Head : ConservedIs(b, h)
    BY ConservedHeads DEF CacheInv
  <2>4. QED BY <1>1, <2>2, <2>3, ConservedHeadsNext, Zenon
<1>10. QED BY <1>2, <1>4, <1>5, <1>6, <1>7, <1>8, <1>9 DEF CacheInv

LEMMA CacheNextInv == CacheInv /\ [CacheNext]_cacheVars => CacheInv'
<1> SUFFICES ASSUME CacheInv, [CacheNext]_cacheVars PROVE CacheInv'
  OBVIOUS
<1>1. CASE SetParallelReduce \/ EditTable
  BY <1>1, SettingStep
<1>2. CASE Import \/ AttnWithKvcache
  <2>1. PICK c : IsUpdate(c) /\ BeginUpdate(c)
    BY <1>2, ImportIs, DecodeIs
  <2>2. QED BY <2>1, BeginUpdateStep
<1>3. CASE Attn
  BY <1>3, AttnStep
<1>4. CASE CallerStep
  BY <1>4, WriteStep, UpdateReturnStep, InitializeStep, ComputeReturnStep, ReduceStep,
     ReduceReturnStep, ConvertStep DEF CallerStep
<1>5. CASE \E t \in Thread : ThreadStep(t)
  <2>1. PICK t \in Thread : ThreadStep(t)
    BY <1>5
  <2>2. CASE InitFunc(t)
    BY <2>2, InitFuncStep
  <2>3. CASE Take(t)
    BY <2>3, TakeStep
  <2>4. CASE Commit(t)
    BY <2>4, CommitStep
  <2>5. CASE Work(t)
    BY <2>5, WorkStep
  <2>6. CASE FinalizeFunc(t)
    BY <2>6, FinalizeStep
  <2>7. QED BY <2>1, <2>2, <2>3, <2>4, <2>5, <2>6 DEF ThreadStep
<1>6. CASE UNCHANGED cacheVars
  BY <1>6, StutterStep
<1>7. QED BY <1>1, <1>2, <1>3, <1>4, <1>5, <1>6 DEF CacheNext

LEMMA CacheInvHolds == CacheSpec => []CacheInv
BY CacheInitInv, CacheNextInv, PTL DEF CacheSpec

(* While a job of attention_kvhead_ runs and nothing has failed, each      *)
(* cached token of each head is in exactly one place: committed, in a      *)
(* thread's accumulator, in a finished task's slot, or in a task to come.  *)
THEOREM ConservedSafe == CacheSpec => []Conserved
<1>1. CacheInv => Conserved
  BY DEF CacheInv
<1>2. QED BY <1>1, CacheInvHolds, PTL

(* Each step of the cache is a step of CachedAttention or leaves what the *)
(* caller sees alone.                                                      *)
LEMMA CacheRefinesInit == CacheInit => Promise!Init
<1>1. Promise!EmptyBag = EmptyBag
  BY DEF Promise!EmptyBag, EmptyBag, Promise!SetToBag, SetToBag
<1>2. QED BY <1>1 DEF CacheInit, Promise!Init, Promise!Sequence, Promise!QueryHead, Sequence, QueryHead

LEMMA CallRefines ==
  ASSUME phase = "idle", phase' # "idle", UNCHANGED <<lens, answer>>
  PROVE  Promise!Next
BY DEF Promise!Next, Promise!Call

LEMMA AppendRefines == CacheInv /\ UpdateReturn => Promise!Next
<1> SUFFICES ASSUME CacheInv, UpdateReturn PROVE Promise!Append
  BY DEF Promise!Next
<1>1. phase = "update" /\ lens' = Grown /\ answer' = answer
  BY DEF UpdateReturn
<1>2. CacheTypeInv /\ UpdateInv
  BY DEF CacheInv
<1>3. call.q \in Nat \ {0} /\ Stride * BlockLen \in Nat \ {0}
  BY <1>1, <1>2, Sizes DEF UpdateInv
<1> DEFINE S == {b \in Sequence : b \in call.first..(call.first + call.n - 1)}
           m == Stride * BlockLen
           n == IF S = {} THEN 1 ELSE call.q
<1>4. \A b \in S : b \in Sequence /\ lens[b] \in Nat /\ lens[b] + call.q <= m
  BY <1>1, <1>2, UpdateFits
<1>5. m \in Nat \ {0}
  BY <1>3
<1>6. lens' = [b \in Sequence |-> IF b \in S THEN lens[b] + n ELSE lens[b]]
  BY <1>1 DEF Grown
<1>7. S \in SUBSET Sequence
  OBVIOUS
<1> HIDE DEF S, m
<1>8. n \in 1..m
  BY <1>3, <1>4, <1>5
<1>9. \A b \in S : lens[b] + n <= m
  BY <1>4
<1> HIDE DEF n
<1>10. S \in SUBSET Promise!Sequence
       /\ lens' = [b \in Promise!Sequence |-> IF b \in S THEN lens[b] + n ELSE lens[b]]
  BY <1>6, <1>7 DEF Promise!Sequence, Sequence
<1>11. (phase # "idle") /\ (phase # "idle")' \in BOOLEAN
  BY <1>1
<1>12. \E T \in SUBSET Promise!Sequence, k \in 1..(Stride * BlockLen) :
         /\ \A b \in T : lens[b] + k <= Stride * BlockLen
         /\ lens' = [b \in Promise!Sequence |-> IF b \in T THEN lens[b] + k ELSE lens[b]]
  BY <1>8, <1>9, <1>10 DEF m
<1>13. QED BY <1>1, <1>11, <1>12 DEF Promise!Append

LEMMA AnswerRefines == CacheInv /\ Convert => Promise!Next
<1> SUFFICES ASSUME CacheInv, Convert PROVE Promise!Answer
  BY DEF Promise!Next
<1>1. /\ phase = "convert" /\ phase' = "idle" /\ lens' = lens
      /\ answer' = [b \in Sequence |-> IF b < call.n THEN out[b] ELSE answer[b]]
  BY DEF Convert
<1>2. CacheTypeInv /\ \A b \in 0..(call.n - 1), q \in QueryHead : out[b][q] = SetToBag(Cached(b, KVHead(q)))
  BY <1>1 DEF CacheInv, ConvertInv
<1>3. call.n \in 0..Batch /\ Batch \in Nat
  BY <1>2, Sizes DEF CacheTypeInv
<1>4. ASSUME NEW b \in Sequence, b < call.n
      PROVE  out[b] = [q \in QueryHead |-> Promise!Whole(b, q)]
  <2>1. b \in 0..(call.n - 1)
    BY <1>3, <1>4 DEF Sequence
  <2>2. out[b] = [q \in QueryHead |-> out[b][q]]
    BY <1>2 DEF CacheTypeInv
  <2>3. \A q \in QueryHead : out[b][q] = Promise!Whole(b, q)
    BY <1>2, <2>1 DEF Promise!Whole, Cached, KVHead, Promise!SetToBag, SetToBag
  <2>4. QED BY <2>2, <2>3
<1>5. answer' = [b \in Sequence |-> IF b < call.n THEN [q \in QueryHead |-> Promise!Whole(b, q)]
                                    ELSE answer[b]]
  BY <1>1, <1>4
<1>6. QED BY <1>1, <1>3, <1>5
          DEF Promise!Answer, Promise!Sequence, Promise!QueryHead, Sequence, QueryHead

LEMMA CacheStepRefines == CacheInv /\ [CacheNext]_cacheVars => [Promise!Next]_Promise!vars
<1> SUFFICES ASSUME CacheInv, [CacheNext]_cacheVars
             PROVE  Promise!Next \/ UNCHANGED <<lens, phase # "idle", answer>>
  BY DEF Promise!vars
<1>1. CASE SetParallelReduce \/ EditTable
  BY <1>1 DEF SetParallelReduce, EditTable
<1>2. CASE Import \/ AttnWithKvcache
  <2>1. PICK c : IsUpdate(c) /\ BeginUpdate(c)
    BY <1>2, ImportIs, DecodeIs
  <2>2. phase = "idle" /\ phase' \in {"idle", "update"} /\ UNCHANGED <<lens, answer>>
    BY <2>1 DEF BeginUpdate
  <2>3. QED BY <2>2, CallRefines
<1>3. CASE Attn
  BY <1>3, CallRefines DEF Attn
<1>4. CASE UpdateReturn
  BY <1>4, AppendRefines
<1>5. CASE Convert
  BY <1>5, AnswerRefines
<1>6. CASE ComputeReturn
  <2>1. phase = "compute" /\ phase' \in {"idle", "reduce", "convert"} /\ UNCHANGED <<lens, answer>>
    BY <1>6, Zenon DEF ComputeReturn
  <2>2. QED BY <2>1 DEF Promise!Next, Promise!Refuse
<1>7. CASE WriteToken \/ Initialize \/ ReduceOneQueryHead \/ ReduceReturn
  <2>1. phase # "idle" /\ phase' # "idle" /\ UNCHANGED <<lens, answer>>
    BY <1>7, Zenon DEF WriteToken, Initialize, ReduceOneQueryHead, ReduceReturn
  <2>2. QED BY <2>1
<1>8. CASE \E t \in Thread : ThreadStep(t)
  <2>1. PICK t \in Thread : ThreadStep(t)
    BY <1>8
  <2>2. UNCHANGED <<lens, phase, answer>>
    BY <2>1 DEF ThreadStep, InitFunc, Take, Commit, Work, FinalizeFunc
  <2>3. QED BY <2>2
<1>9. CASE UNCHANGED cacheVars
  BY <1>9 DEF cacheVars
<1>10. QED BY <1>1, <1>2, <1>3, <1>4, <1>5, <1>6, <1>7, <1>8, <1>9 DEF CacheNext, CallerStep

(* Seen by the caller, the cache and its attention implement               *)
(* CachedAttention: every answer holds each cached token of each query     *)
(* head exactly once.                                                      *)
THEOREM RefinesCachedAttention == CacheSpec => ImplementsCachedAttention
BY CacheInvHolds, CacheRefinesInit, CacheStepRefines, PTL DEF CacheSpec, ImplementsCachedAttention, Promise!Spec
=============================================================================
