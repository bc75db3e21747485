------------------------------ MODULE WorkerPool ----------------------------
(***************************************************************************)
(* cpu_backend/worker_pool.cpp, WorkerPool::init and                       *)
(* NumaJobDistributor::init: the sub-pools are built one after the other,  *)
(* then the distributor with one main thread for each.  Both loops count   *)
(* the threads given to each NUMA node so far, so that every thread gets a *)
(* core of its own, the main thread of a sub-pool being its thread 0.      *)
(*                                                                         *)
(* The counts are a vector with one entry for each sub-pool, indexed by    *)
(* NUMA id.  An access past its end is undefined; the model stops there.   *)
(***************************************************************************)
EXTENDS Integers, Sequences

CONSTANTS Nodes,    \* NUMA nodes of the machine
          Cores,    \* cores of each
          Configs   \* WorkerPoolConfig: records of two sequences, map and threads

ASSUME ConfigAssumption ==
  /\ Nodes \subseteq Nat /\ Cores \in Nat
  /\ \A c \in Configs : /\ c.map \in Seq(Nat) /\ c.threads \in Seq(Nat \ {0})
                        /\ Len(c.map) = Len(c.threads)

VARIABLES config,
          phase,               \* the loop: "pools", "mains", then "ready"
          i,                   \* its index; 0 is the first
          numa_threads_count,  \* the loop's vector
          bound,               \* threads bound so far: <<sub-pool, thread, node, core>>
          outside              \* a vector was indexed past its end

poolVars == <<config, phase, i, numa_threads_count, bound, outside>>

subpool_count == Len(config.map)
this_numa == config.map[i + 1]
InVector == this_numa < subpool_count

Zeros(c) == [k \in 0..(Len(c.map) - 1) |-> 0]

PoolInit ==
        /\ config \in Configs
        /\ phase = "pools" /\ i = 0
        /\ numa_threads_count = Zeros(config)
        /\ bound = {} /\ outside = FALSE

(* hwloc finds no core outside the machine; such a thread stays unbound. *)
Bind(threads, start) ==
  {<<i, t, this_numa, t + start>> : t \in {x \in threads : x + start < Cores /\ this_numa \in Nodes}}

Count == numa_threads_count' = [numa_threads_count EXCEPT ![this_numa] = @ + config.threads[i + 1]]

(* InNumaPool(thread_count, numa, start): workers 1.. are bound from the   *)
(* core after start on.                                                    *)
BuildPool ==
  /\ phase = "pools" /\ i < subpool_count /\ ~outside /\ InVector
  /\ bound' = bound \cup Bind(1..(config.threads[i + 1] - 1), numa_threads_count[this_numa])
  /\ Count
  /\ i' = i + 1
  /\ UNCHANGED <<config, phase, outside>>

StartMains ==
  /\ phase = "pools" /\ i >= subpool_count
  /\ phase' = "mains" /\ i' = 0
  /\ numa_threads_count' = Zeros(config)
  /\ UNCHANGED <<config, bound, outside>>

(* A main thread that finds no core is not counted (`continue').  Mutant   *)
(* of Main: one entry of the vector for each thread, not each sub-pool's   *)
(* number of them.                                                         *)
MainCountsOne ==
  /\ phase = "mains" /\ i < subpool_count /\ ~outside /\ InVector
  /\ LET new == Bind({0}, numa_threads_count[this_numa])
     IN  /\ bound' = bound \cup new
         /\ numa_threads_count' = [numa_threads_count EXCEPT ![this_numa] = @ + 1]
  /\ i' = i + 1
  /\ UNCHANGED <<config, phase, outside>>

Main ==
  /\ phase = "mains" /\ i < subpool_count /\ ~outside /\ InVector
  /\ LET new == Bind({0}, numa_threads_count[this_numa])
     IN  /\ bound' = bound \cup new
         /\ IF new # {} THEN Count ELSE UNCHANGED numa_threads_count
  /\ i' = i + 1
  /\ UNCHANGED <<config, phase, outside>>

IndexOutside ==
  /\ phase \in {"pools", "mains"} /\ i < subpool_count /\ ~InVector
  /\ outside' = TRUE
  /\ UNCHANGED <<config, phase, i, numa_threads_count, bound>>

Ready ==
  /\ phase = "mains" /\ i >= subpool_count
  /\ phase' = "ready"
  /\ UNCHANGED <<config, i, numa_threads_count, bound, outside>>

PoolNext == BuildPool \/ StartMains \/ Main \/ IndexOutside \/ Ready

PoolSpec == PoolInit /\ [][PoolNext]_poolVars

-----------------------------------------------------------------------------
(* No core has two threads: those of sub-pools on one node follow each     *)
(* other, and the loop of the main threads leaves the same gaps that the   *)
(* loop of the pools filled.                                               *)
OneThreadPerCore ==
  \A x, y \in bound : x[3] = y[3] /\ x[4] = y[4] => x = y
=============================================================================
