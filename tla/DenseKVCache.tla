---------------------------- MODULE DenseKVCache ----------------------------
(***************************************************************************)
(* operators/dense_kvcache: the paged FP16 KV cache of one layer and the   *)
(* decode attention over it, run as jobs on a worker pool.                 *)
(*                                                                         *)
(* A job is cut into tasks of up to BlocksPerTask consecutive blocks of    *)
(* one (sequence, KV head); the partial softmax results of the tasks are   *)
(* merged by a second job (parallel_reduce_), or by each thread under the  *)
(* mutex of the head.  A partial result (output and LSE) is the bag of the *)
(* tokens it covers: merging two of them by their LSE is the sum of bags.  *)
(* A token <<b, h, p>> is the K/V slice of head h at position p of         *)
(* sequence b.                                                             *)
(*                                                                         *)
(* The pool is used through what ParallelFor promises: each task is run    *)
(* once by some participant, and the caller waits for all of them.         *)
(***************************************************************************)
EXTENDS Integers, FiniteSets, Bags

FS == INSTANCE FiniteSetsExt
Fn == INSTANCE Functions

CONSTANTS Batch,          \* config.max_batch_size
          KVHeads,        \* config.kv_head_num
          GQA,            \* n_gqa_, query heads per KV head
          BlockLen,       \* config.block_len
          BlocksPerTask,  \* kBlocksPerTask
          Stride,         \* max_block_num, the width of a row of block_table
          Blocks,         \* config.max_block_num, the physical blocks
          Threads,        \* threads of the pool
          Table,          \* block_table as the caller has filled it
          Imports,        \* pairs of a sequence and a number of tokens to import
          Holes,          \* entries of block_table that may be missing
          MaxCalls        \* bound on the number of calls

ASSUME PositiveAssumption ==
  /\ {Batch, KVHeads, GQA, BlockLen, BlocksPerTask} \subseteq Nat \ {0}
  /\ {Stride, Blocks, Threads} \subseteq Nat \ {0}
  /\ MaxCalls \in Nat
  /\ Imports \subseteq (0..(Batch - 1)) \X (Nat \ {0})
ASSUME TableAssumption ==
  /\ Table \in [(0..(Batch - 1)) \X (0..(Stride - 1)) -> 0..(Blocks - 1)]
  /\ \A x, y \in DOMAIN Table : Table[x] = Table[y] => x = y
  /\ Holes \subseteq DOMAIN Table

Sequence == 0..(Batch - 1)
Head == 0..(KVHeads - 1)
QueryHead == 0..(KVHeads * GQA - 1)
Thread == 0..(Threads - 1)
Zero == <<>>                       \* a cell that was never written
None == <<-1, -1>>                 \* thread_cur_head_idx_ of a fresh thread

CeilDiv(n, d) == n \div d + (IF n % d # 0 THEN 1 ELSE 0)
SetMax(S) == FS!Max(S)
MaxTasks == Batch * KVHeads * CeilDiv(Stride, BlocksPerTask)

VARIABLES
  cache,     \* k_cache_fp16_, v_cache_fp16_: [head][physical block][position]
  lens,      \* the caller's cache_seqlens
  hole,      \* entries of block_table the caller has overwritten with -1
  parallel,  \* parallel_reduce_
  phase,     \* where the calling thread is
  call,      \* its arguments
  todo,      \* tasks of the current job that no thread has taken
  offsets,   \* task_offsets_
  tpc, task, \* per thread: program counter and task_id
  cur,       \* thread_cur_head_idx_
  acc,       \* thread_local_cur_output_fp32_, _attn_lse_
  failed,    \* thread_local_failed_
  valid,     \* output_valid_
  out,       \* output_fp32_, attn_lse_
  slot,      \* reduce_task_output_, reduce_task_lse_
  answer,    \* the caller's output and attn_lse
  outcome,   \* history: how the last call ended
  calls      \* history: number of calls so far

threadvars == <<tpc, task, cur, acc, failed>>
resultvars == <<valid, out, slot>>
callervars == <<hole, parallel, calls>>
cacheVars == <<cache, lens, hole, parallel, phase, call, todo, offsets, tpc,
               task, cur, acc, failed, valid, out, slot, answer, outcome, calls>>

NoCall == [op |-> "none", first |-> 0, n |-> 0, q |-> 0]

CacheInit ==
  /\ cache = [h \in Head |-> [k \in 0..(Blocks - 1) |->
                                [p \in 0..(BlockLen - 1) |-> Zero]]]
  /\ lens = [b \in Sequence |-> 0]
  /\ hole = {} /\ parallel = TRUE
  /\ phase = "idle" /\ call = NoCall
  /\ todo = {} /\ offsets = [b \in 0..Batch |-> 0]
  /\ tpc = [t \in Thread |-> "out"] /\ task = [t \in Thread |-> 0]
  /\ cur = [t \in Thread |-> None]
  /\ acc = [t \in Thread |-> EmptyBag]
  /\ failed = [t \in Thread |-> FALSE]
  /\ valid = [b \in Sequence |-> [h \in Head |-> FALSE]]
  /\ out = [b \in Sequence |-> [q \in QueryHead |-> EmptyBag]]
  /\ slot = [k \in 0..(MaxTasks - 1) |-> EmptyBag]
  /\ answer = [b \in Sequence |-> [q \in QueryHead |-> EmptyBag]]
  /\ outcome = "none" /\ calls = 0

-----------------------------------------------------------------------------
(* The caller, between calls *)
SetParallelReduce ==
  /\ phase = "idle"
  /\ parallel' = ~parallel
  /\ UNCHANGED <<cache, lens, hole, phase, call, todo, offsets, threadvars,
                 resultvars, answer, outcome, calls>>

(* Entries of block_table come and go with the allocation of blocks. *)
EditTable ==
  /\ phase = "idle"
  /\ \E x \in Holes : hole' = IF hole = {} THEN {x} ELSE {}
  /\ UNCHANGED <<cache, lens, parallel, phase, call, todo, offsets, threadvars,
                 resultvars, answer, outcome, calls>>

Entry(b, j) == IF <<b, j>> \in hole THEN -1 ELSE Table[<<b, j>>]
InRange(k) == 0 <= k /\ k < Blocks

-----------------------------------------------------------------------------
(* update_kvcache_fp16 *)

(* The checks before the job: the tokens fit in the rows and every block   *)
(* that will be written is a physical block.                               *)
UpdateAccepted(c) ==
  \A i \in 0..(c.n - 1) :
    LET b == c.first + i
        last == lens[b] + c.q
    IN /\ last <= Stride * BlockLen
       /\ \A j \in (lens[b] \div BlockLen)..((last - 1) \div BlockLen) :
            InRange(Entry(b, j))

(* A call of update_kvcache_fp16 for the row of one sequence, or of        *)
(* attn_with_kvcache for the first n rows; refused arguments change        *)
(* nothing.  batch_size 0 has no job.                                      *)
BeginUpdate(c) ==
  /\ phase = "idle" /\ calls < MaxCalls
  /\ calls' = calls + 1
  /\ IF UpdateAccepted(c)
     THEN /\ phase' = "update" /\ call' = c
          /\ todo' = 0..(c.n * KVHeads * c.q - 1)
          /\ outcome' = "none"
     ELSE outcome' = "error" /\ UNCHANGED <<phase, call, todo>>
  /\ UNCHANGED <<cache, lens, hole, parallel, offsets, threadvars, resultvars,
                 answer>>

Import == \E x \in Imports :
  BeginUpdate([op |-> "import", first |-> x[1], n |-> 1, q |-> x[2]])

AttnWithKvcache == \E n \in 0..Batch :
  BeginUpdate([op |-> "decode", first |-> 0, n |-> n, q |-> 1])

(* One task of the update job.  Tasks are taken in ascending order; those   *)
(* of this job and of the reduction touch nothing another task of the job  *)
(* does, so that one step each loses no interleaving that matters.         *)
WriteToken ==
  /\ phase = "update" /\ todo # {}
  /\ LET k == FS!Min(todo)
         b == call.first + (k \div (KVHeads * call.q))
         h == (k \div call.q) % KVHeads
         p == lens[b] + (k % call.q)
     IN /\ cache' = [cache EXCEPT
              ![h][Entry(b, p \div BlockLen)][p % BlockLen] = <<b, h, p>>]
        /\ todo' = todo \ {k}
  /\ UNCHANGED <<lens, callervars, phase, call, offsets, threadvars, resultvars,
                 answer, outcome>>

Grown == [b \in Sequence |-> IF b \in call.first..(call.first + call.n - 1)
                             THEN lens[b] + call.q ELSE lens[b]]

(* update_kvcache_fp16 leaves the lengths to its caller, who advances them *)
(* after an import; attn_with_kvcache advances them itself.                *)
UpdateReturn ==
  /\ phase = "update" /\ todo = {}
  /\ lens' = Grown
  /\ phase' = IF call.op = "import" THEN "idle" ELSE "initialize"
  /\ call' = IF call.op = "import" THEN NoCall ELSE call
  /\ UNCHANGED <<cache, callervars, todo, offsets, threadvars, resultvars,
                 answer, outcome>>

-----------------------------------------------------------------------------
(* attn, called directly *)
Attn ==
  /\ phase = "idle" /\ calls < MaxCalls
  /\ \E n \in 0..Batch :
       call' = [op |-> "attn", first |-> 0, n |-> n, q |-> 1]
  /\ phase' = "initialize"
  /\ outcome' = "none" /\ calls' = calls + 1
  /\ UNCHANGED <<cache, lens, hole, parallel, todo, offsets, threadvars,
                 resultvars, answer>>

NumBlocks(b) == CeilDiv(lens[b], BlockLen)
NumChunks(b) == CeilDiv(NumBlocks(b), BlocksPerTask)

TaskOffsets == LET f[b \in 0..Batch] ==
                     IF b = 0 THEN 0 ELSE f[b - 1] + NumChunks(b - 1) * KVHeads
               IN f

(* attn_initialize_kvhead_, then the start of the compute job: participants *)
(* are as many threads as there are tasks, at most all.  Without a task     *)
(* there is no job.                                                         *)
Initialize ==
  /\ phase = "initialize"
  /\ offsets' = [b \in 0..Batch |-> IF b <= call.n THEN TaskOffsets[b]
                                    ELSE offsets[b]]
  /\ valid' = [b \in Sequence |-> IF b < call.n THEN [h \in Head |-> FALSE]
                                  ELSE valid[b]]
  /\ out' = [b \in Sequence |-> IF b < call.n
                                THEN [q \in QueryHead |-> EmptyBag] ELSE out[b]]
  /\ failed' = [t \in Thread |-> FALSE]
  /\ todo' = 0..(offsets'[call.n] - 1)
  /\ tpc' = [t \in Thread |-> IF t < offsets'[call.n] THEN "init" ELSE "out"]
  /\ phase' = "compute"
  /\ UNCHANGED <<cache, lens, callervars, call, task, cur, acc, slot, answer,
                 outcome>>

-----------------------------------------------------------------------------
(* attention_kvhead_: the compute job *)
TaskSeq(k) == SetMax({b \in 0..call.n : offsets[b] <= k})
TaskChunks(k) == (offsets[TaskSeq(k) + 1] - offsets[TaskSeq(k)]) \div KVHeads
TaskHead(k) == (k - offsets[TaskSeq(k)]) \div TaskChunks(k)
TaskChunk(k) == (k - offsets[TaskSeq(k)]) % TaskChunks(k)
TaskIdx(k) == <<TaskSeq(k), TaskHead(k)>>
BlockBegin(k) == TaskChunk(k) * BlocksPerTask
BlockEnd(k) == LET rest == NumBlocks(TaskSeq(k)) - BlockBegin(k)
               IN BlockBegin(k) + IF rest < BlocksPerTask THEN rest ELSE BlocksPerTask

(* A block cannot be computed if its entry is no physical block; a GEMM    *)
(* that rejects the block fails the task in the same way.                  *)
Bad(b, j) == ~InRange(Entry(b, j))

(* attn_with_kvcache_one_block_: what the valid cells of a block hold *)
BlockResult(b, h, j) ==
  LET tail == lens[b] - j * BlockLen
      valid_tokens == IF tail < BlockLen THEN tail ELSE BlockLen
      cells == cache[h][Entry(b, j)]
  IN [x \in {cells[p] : p \in 0..(valid_tokens - 1)} |->
        Cardinality({p \in 0..(valid_tokens - 1) : cells[p] = x})]

(* The blocks of a task are merged in order, up to the first bad one. *)
GoodBlocks(k) == {j \in BlockBegin(k)..(BlockEnd(k) - 1) :
                    \A i \in BlockBegin(k)..j : ~Bad(TaskSeq(k), i)}
Complete(k) == \A j \in BlockBegin(k)..(BlockEnd(k) - 1) : ~Bad(TaskSeq(k), j)
Partial(k) ==
  Fn!FoldFunctionOnSet((+), EmptyBag,
    [j \in GoodBlocks(k) |-> BlockResult(TaskSeq(k), TaskHead(k), j)],
    GoodBlocks(k))

(* init_func *)
InitFunc(t) ==
  /\ phase = "compute" /\ tpc[t] = "init"
  /\ cur' = [cur EXCEPT ![t] = None]
  /\ tpc' = [tpc EXCEPT ![t] = "next"]
  /\ UNCHANGED <<cache, lens, callervars, phase, call, todo, offsets, task, acc,
                 failed, resultvars, answer, outcome>>

(* The thread takes the next task; when it has been working on another     *)
(* head, the locked mode first commits that head's accumulator.            *)
Take(t) ==
  /\ phase = "compute" /\ tpc[t] = "next" /\ todo # {}
  /\ LET k == FS!Min(todo)
         commit == /\ ~parallel /\ GoodBlocks(k) # {}
                   /\ cur[t] # None /\ cur[t] # TaskIdx(k)
     IN /\ task' = [task EXCEPT ![t] = k]
        /\ todo' = todo \ {k}
        /\ tpc' = [tpc EXCEPT ![t] = IF commit THEN "commit" ELSE "work"]
  /\ UNCHANGED <<cache, lens, callervars, phase, call, offsets, cur, acc, failed,
                 resultvars, answer, outcome>>

(* Mutant of Merged: each commit is taken for the first of its head. *)
MergedOverwrite(t, old) ==
  [old EXCEPT ![cur[t][1]] = [q \in QueryHead |->
      IF q \div GQA # cur[t][2] THEN @[q] ELSE acc[t]]]

(* flush_thread_result, all of it under the mutex of the head: copy the    *)
(* first accumulator committed for a head, merge the others.               *)
Merged(t, old) ==
  LET b == cur[t][1]  h == cur[t][2]
  IN [old EXCEPT ![b] = [q \in QueryHead |->
        IF q \div GQA # h THEN @[q]
        ELSE IF valid[b][h] THEN @[q] (+) acc[t] ELSE acc[t]]]

Flush(t) ==
  IF cur[t] = None THEN UNCHANGED <<valid, out>>
  ELSE /\ out' = Merged(t, out)
       /\ valid' = [valid EXCEPT ![cur[t][1]][cur[t][2]] = TRUE]

Commit(t) ==
  /\ tpc[t] = "commit"
  /\ Flush(t)
  /\ cur' = [cur EXCEPT ![t] = TaskIdx(task[t])]
  /\ acc' = [acc EXCEPT ![t] = EmptyBag]
  /\ tpc' = [tpc EXCEPT ![t] = "work"]
  /\ UNCHANGED <<cache, lens, callervars, phase, call, todo, offsets, task,
                 failed, slot, answer, outcome>>

(* The blocks of the task, all in private memory: the accumulator starts   *)
(* over with each task, or, in the locked mode, with each new head.  Only  *)
(* a complete task fills its slot.                                         *)
Work(t) ==
  /\ tpc[t] = "work"
  /\ LET k == task[t]
         keep == ~parallel /\ cur[t] = TaskIdx(k)
         sum == IF keep THEN acc[t] (+) Partial(k) ELSE Partial(k)
     IN /\ IF GoodBlocks(k) = {} THEN UNCHANGED <<cur, acc>>
           ELSE /\ cur' = [cur EXCEPT ![t] = TaskIdx(k)]
                /\ acc' = [acc EXCEPT ![t] = sum]
        /\ failed' = IF Complete(k) THEN failed
                     ELSE [failed EXCEPT ![t] = TRUE]
        /\ slot' = IF parallel /\ Complete(k) THEN [slot EXCEPT ![k] = sum]
                   ELSE slot
  /\ tpc' = [tpc EXCEPT ![t] = "next"] /\ task' = [task EXCEPT ![t] = 0]
  /\ UNCHANGED <<cache, lens, callervars, phase, call, todo, offsets,
                 valid, out, answer, outcome>>

(* finalize_func, when no task is left *)
FinalizeFunc(t) ==
  /\ phase = "compute" /\ tpc[t] = "next" /\ todo = {}
  /\ IF parallel THEN UNCHANGED <<valid, out>> ELSE Flush(t)
  /\ tpc' = [tpc EXCEPT ![t] = "out"]
  /\ UNCHANGED <<cache, lens, callervars, phase, call, todo, offsets, task, cur,
                 acc, failed, slot, answer, outcome>>

AnyFailed == \E t \in Thread : failed[t]

(* All participants are back: a failure is thrown, otherwise the results   *)
(* are reduced, or are already whole.                                      *)
ComputeReturn ==
  /\ phase = "compute" /\ todo = {} /\ \A t \in Thread : tpc[t] = "out"
  /\ IF AnyFailed
     THEN /\ phase' = "idle" /\ call' = NoCall
          /\ outcome' = "error" /\ UNCHANGED todo
     ELSE /\ phase' = IF parallel /\ offsets[call.n] > 0 THEN "reduce" ELSE "convert"
          /\ todo' = IF phase' = "reduce" THEN 0..(call.n * KVHeads * GQA - 1) ELSE {}
          /\ UNCHANGED <<call, outcome>>
  /\ UNCHANGED <<cache, lens, callervars, offsets, threadvars, resultvars,
                 answer>>

-----------------------------------------------------------------------------
(* reduce_one_query_head_: add up the slots of one query head's KV head *)
ReduceFirst(b, h) ==
  offsets[b] + h * ((offsets[b + 1] - offsets[b]) \div KVHeads)
ReduceSlots(b, h) ==
  ReduceFirst(b, h)..(ReduceFirst(b, h)
                      + (offsets[b + 1] - offsets[b]) \div KVHeads - 1)

(* Mutant of KVHead: the query heads of a group are KVHeads apart. *)
KVHeadInterleaved(q) == q % KVHeads

KVHead(q) == q \div GQA

ReduceOneQueryHead ==
  /\ phase = "reduce" /\ todo # {}
  /\ LET k == FS!Min(todo)
         b == k \div (KVHeads * GQA)
         q == k % (KVHeads * GQA)
     IN /\ out' = [out EXCEPT ![b][q] =
                     Fn!FoldFunctionOnSet((+), @, slot, ReduceSlots(b, KVHead(q)))]
        /\ todo' = todo \ {k}
  /\ UNCHANGED <<cache, lens, callervars, phase, call, offsets, threadvars,
                 valid, slot, answer, outcome>>

ReduceReturn ==
  /\ phase = "reduce" /\ todo = {}
  /\ phase' = "convert"
  /\ UNCHANGED <<cache, lens, callervars, call, todo, offsets, threadvars,
                 resultvars, answer, outcome>>

(* The results are converted into the caller's buffers. *)
Convert ==
  /\ phase = "convert"
  /\ answer' = [b \in Sequence |-> IF b < call.n THEN out[b] ELSE answer[b]]
  /\ phase' = "idle" /\ call' = NoCall /\ outcome' = "answer"
  /\ UNCHANGED <<cache, lens, callervars, todo, offsets, threadvars,
                 resultvars>>

-----------------------------------------------------------------------------
CallerStep == \/ WriteToken \/ UpdateReturn \/ Initialize
              \/ ComputeReturn \/ ReduceOneQueryHead \/ ReduceReturn \/ Convert

ThreadStep(t) == \/ InitFunc(t) \/ Take(t) \/ Commit(t) \/ Work(t)
                 \/ FinalizeFunc(t)

CacheNext == \/ SetParallelReduce \/ EditTable
             \/ Import \/ AttnWithKvcache \/ Attn
             \/ CallerStep
             \/ \E t \in Thread : ThreadStep(t)

CacheSpec == CacheInit /\ [][CacheNext]_cacheVars

-----------------------------------------------------------------------------
(* While a job of attention_kvhead_ runs and nothing has failed, each      *)
(* cached token of each head is in exactly one place: committed, in one    *)
(* thread's accumulator, in the slot of one finished task, or in a task    *)
(* still to come.                                                          *)
Pending(b, h) ==
  {k \in todo \cup {task[t] : t \in {u \in Thread : tpc[u] \in {"commit", "work"}}} :
     TaskIdx(k) = <<b, h>>}
TokensOf(b, h, k) ==
  SetToBag({<<b, h, p>> : p \in {i \in 0..(lens[b] - 1) :
              i \div BlockLen \in BlockBegin(k)..(BlockEnd(k) - 1)}})
Holders(b, h) ==
  {t \in Thread : /\ ~parallel /\ cur[t] = <<b, h>>
                  /\ tpc[t] \in {"next", "commit", "work"}}
Finished(b, h) == IF parallel THEN ReduceSlots(b, h) \ Pending(b, h) ELSE {}
Sum(f, S) == Fn!FoldFunctionOnSet((+), EmptyBag, f, S)
Conserved ==
  phase = "compute" /\ (\A t \in Thread : ~failed[t]) =>
    \A b \in 0..(call.n - 1), h \in Head :
      LET rest == Sum(acc, Holders(b, h)) (+) Sum(slot, Finished(b, h))
                    (+) Sum([k \in Pending(b, h) |-> TokensOf(b, h, k)],
                            Pending(b, h))
          whole == SetToBag({<<b, h, p>> : p \in 0..(lens[b] - 1)})
      IN \A q \in QueryHead : q \div GQA = h => out[b][q] (+) rest = whole

(* Seen by the caller, a call answers with every cached token of each      *)
(* query head exactly once, or leaves the output buffer alone              *)
(* (CachedAttention), whatever calls, failures and changes of the          *)
(* reduction mode went before.                                             *)
Promise == INSTANCE CachedAttention WITH
             len <- lens, busy <- phase # "idle", MaxLen <- Stride * BlockLen
ImplementsCachedAttention == Promise!Spec

=============================================================================
