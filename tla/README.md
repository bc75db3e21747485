# A TLA+ model of kv-flash

kv-flash is a fork of KTransformers: a language model whose attention runs on
a GPU and whose experts (and, in this fork, whose decode attention over the KV
cache) run on the CPU. The code that decides whether the results are right
is the machinery that keeps the two apart and brings them together: a task queue, two layers of thread pools, staging buffers shared by all layers, and a
cache split into blocks. Fine-tuning adds a backward pass over the same queue
and pools, on one process or on several ranks; the archived server adds a
scheduler that plans batches ahead of the engine. The numeric kernels
themselves are not modelled.

All source paths below are relative to the repository root `src/`.
`K/` stands for `kt-kernel/cpu_backend/`.

## 1. Inventory

| Component | Source | State | Operations | Interacts with |
|---|---|---|---|---|
| TaskQueue | `K/task_queue.{h,cpp}` | linked list with atomic `tail`, worker-owned `head`, counter `pending`, one mutex and one condition variable, `done` | `enqueue`, `sync(n)`, worker loop, destructor | called by CPUInfer from Python threads and from CUDA callbacks |
| CPUInfer | `K/cpuinfer.h` | pointers to pool and queue | `submit`, `sync`, both also as callbacks of a CUDA stream | owns TaskQueue and WorkerPool |
| InNumaPool | `K/worker_pool.{h,cpp}` | per thread a status (WORKING, WAITING, EXIT), counter, end; the closures of the job; `restricted_worker_count` | `do_work_stealing_job`, worker loop, `set_restricted_worker_count`, destructor | runs the tasks of one operator on one NUMA node |
| NumaJobDistributor | same files | per node a status slot, a barrier, `compute_func` | constructor, `do_numa_job` in two build variants, worker loop, destructor | one worker per node, each calling its InNumaPool |
| WorkerPool | same files | the pools and the distributor; while building, threads per NUMA node | construction, destruction | builds both kinds of pool on the cores of the nodes |
| BaseMoEWrapper, KExpertsCPUBuffer | `kt-kernel/python/experts_base.py` | class-level cache of pinned staging slots, flag per layer "did it defer" | `submit_forward`, `sync_forward`, `set_capture_batch_sizes`, `clear_buffer_cache` | one per layer; enqueue on the stream and through it on TaskQueue |
| Qwen3DualBatchRunner | `Qwen3DualBatchRunner.py` | slots with hidden, residual, topk of two microbatches | `forward` | drives attention on the stream and BaseMoEWrapper in turn |
| dense::KVCache | `kt-kernel/operators/dense_kvcache/` | blocks per layer and head, per-thread accumulators, per-task results, global results | `update_kvcache_fp16`, `attn`, `attn_with_kvcache`, resizing, snapshots | runs on InNumaPool |
| SharedMemBuffer | `K/shared_mem_buffer.{h,cpp}` | one arena per node, list of requests | `alloc` | every operator takes its scratch space from it |
| TP_MOE, AMX_MOE_BASE | `kt-kernel/operators/moe-tp.hpp`, `operators/amx/moe_base.hpp` | per node: routing tables, pointers into the arena, partial outputs | `forward` (prefill and decode), `merge_results` | NumaJobDistributor, one InNumaPool per node, SharedMemBuffer |
| SFT training | `kt-kernel/python/sft`, `operators/moe-sft-tp.hpp`, `operators/amx/sft_moe.hpp` | cache stack per layer, shared backward weights with an owner, LoRA copies, gradient buffers, a repack thread per layer | forward, checkpoint recomputation, `backward`, `submit_backward_repack`, `update_lora_weights` | autograd calls it; runs on TaskQueue and NumaJobDistributor |
| Distributed SFT | `kt-kernel/python/sft/dist_utils.py`, `layer.py`, `autograd.py` | per rank: lengths of all ranks, kept in `ctx` for the backward | `_all_gather_qlens`, gather to and scatter from rank 0 | ranks by collectives and point-to-point transfers; rank 0 holds the experts |
| balance_serve scheduler | `archive/csrc/balance_serve/sched`, `kvc2` (gpu_only), `archive/ktransformers/server` | queries with status and plan position, event queue, one-slot next batch, pages, the engine's positions | `add_query`, `update_last_batch`, the event loop | web server and engine are its clients over RPC |
| Sparse KVCache, kernels, loaders, bindings, the rest of `archive/`, vendored code | | | | listed in `PROJECT.json`, not modelled |

What is hard about them, and what makes them correct:

* **TaskQueue.** Lock-free producers, a worker that frees the nodes it leaves,
  and one condition variable used for two purposes. Correct when no freed node
  is touched, tasks run once and in order, `sync(n)` returns only when at most
  `n` tasks are unfinished, and nobody sleeps for ever.
* **InNumaPool, NumaJobDistributor.** Jobs are published with plain stores,
  ordered only by the status of each worker, and workers that have polled for
  50 ms fall asleep without a timeout. Correct when every task of a job runs
  exactly once, the caller returns only after all of them, a late worker never
  meets the next job, and no wake-up is lost.
* **BaseMoEWrapper.** Three agents (host, stream, worker) that run far
  apart; two slots for all layers; experts that may be *deferred* by one layer.
  Correct when no input is overwritten before it was read, every layer fetches
  an output that holds its own immediate and its predecessor's deferred
  experts and nothing else, the two tasks of a layer share out its experts, a row
  defers none of its best, and no stream operation refers to freed memory.
* **Qwen3DualBatchRunner.** Two microbatches half a layer apart that share the
  slots of BaseMoEWrapper. Correct when neither sees the other's data and the
  pipeline overlaps what it was written to overlap.
* **dense::KVCache.** A job whose tasks are cut out of ragged sequences, two
  ways of merging partial softmax results, failure inside a worker. Correct
    when the result of each head covers each cached token exactly once.
* **TP_MOE.** A chain of parallel jobs over scratch rows that every layer
  of the node reuses and no lock protects. Correct when each token's output is the
  weighted sum of its own experts over its own input, each node's share counted once,
  and the scratch pools hold every batch.
* **SharedMemBuffer.** One arena under many objects, replaced when it is too small.
  Correct when every live object's pointers lead into the arena in use.
* **WorkerPool.** Correct when the pools and their main threads get cores of their own.
* **SFT training.** The training thread, the worker and a repack thread
  share one weight buffer and one NUMA pool; saved activations are counted twice, in Python and C++. Correct when a
  backward finds the activations of its own layer and batch, the
  weights of its layer, current LoRA weights, and a pool nobody else drives.
* **Distributed SFT.** Transfers carry no tag and empty ranks skip them. Correct
  when each transfer is taken as what it was sent as, each row comes back to its
  rank and call, and no rank waits for one that will not come.
* **balance_serve scheduler.** The scheduler plans a batch before it knows the
  results of the previous two; pages are free as soon as a query is known to be
  done. Correct when no page is written for two queries or for an earlier one
  after a later one, no query outgrows its pages, and a query that waits for
  pages is retried.

`PROJECT.json` lists the hazards line by line with the property that covers
each.

## 2. Modules

| Module | Models | Relation |
|---|---|---|
| `TaskFifo` | what callers of TaskQueue may rely on: acceptance, start, end, sync with a threshold, close | abstract |
| `TaskQueue` | `task_queue.cpp`, one atomic access per action | implements `TaskFifo` |
| `TaskQueueProofs` | theorems about `TaskQueue` | |
| `ParallelFor` | a job: call, run each task once, return | abstract |
| `InNumaPool` | the work-stealing pool | implements `ParallelFor` |
| `InNumaPoolProofs` | theorems about `InNumaPool` | |
| `NumaJobDistributor` | the per-node distributor, start-up to destruction | implements `ParallelFor` |
| `NumaJobDistributorProofs` | theorems about `NumaJobDistributor` and `DenseKVCache` | |
| `StagingSlots` | number of layers, staging slots of the wrappers | extended by their two callers |
| `MoEForward` | BaseMoEWrapper over one stream and the queue | uses the TaskFifo order of tasks |
| `DeferredExperts` | `select_deferred_experts`: which experts of a batch a layer defers | the choice `MoEForward` leaves open |
| `MoEForwardProofs` | theorems about `MoEForward` and `DeferredExperts` | |
| `DualBatchRunner` | Qwen3DualBatchRunner over the same stream and queue | |
| `DualBatchRunnerProofs` | theorems about `DualBatchRunner` | |
| `Inference` | the two callers of the wrappers in one process | composes `MoEForward` and `DualBatchRunner` |
| `TPMoE` | one forward pass of a layer's experts: TP_MOE over the AMX parts | uses the `ParallelFor` promise of the pools, and `SharedMemBuffer`'s arenas |
| `SharedMemBuffer` | the arena of a node | |
| `WorkerPool` | construction of the pools | |
| `Experts` | pools, layers and passes of one process | composes `WorkerPool`, `SharedMemBuffer` and `TPMoE` |
| `ExpertsProofs` | theorems about `SharedMemBuffer`, `WorkerPool` and `TPMoE` | |
| `SFTTraining` | LoRA training in one process | drives one job of the pools at a time |
| `SFTTrainingProofs` | theorems about `SFTTraining` and `DistMoE` | |
| `DistMoE` | the data-parallel training layer | |
| `Scheduler` | the serving scheduler and the engine's loop | |
| `SchedulerProofs` | theorems about `Scheduler` | |
| `CachedAttention` | what dense::KVCache promises: append, answer with each token once, or refuse | abstract |
| `DenseKVCache` | `dense_kvcache_attn.cpp`, `update_kvcache_fp16` | implements `CachedAttention` |
| `MCTaskQueue`, `MCDenseKVCache`, `MCDistMoE`, `MCScheduler`, `MCExperts`, `MCInference` | clients, block tables and calls, lengths, requests, sizes, routes and batches, for TLC | |

The layers compose by substitution of promises: `TaskQueue` is shown to behave
like `TaskFifo`, and `MoEForward` and `DualBatchRunner` use a queue with just
that behaviour (a sequence of accepted tasks, the first of which may be
running, and a sync that waits for a length). Likewise the pools are shown to
implement `ParallelFor`, and `DenseKVCache` runs its jobs on a pool of which it
uses only that promise: each task is run once by some participant, each
participant has one init and one finalize, the caller waits for all.

### TaskQueue

Variables carry the names of the C++ members: `head`, `tail`, `next`, `pending`,
`done`, `mutex`. A node is an address of a finite heap; freed addresses may be
allocated again, so the ABA cases of a lock-free list are part of the model.
`enqueue` is five actions (count, exchange, link, the empty critical section,
notify), `sync` is lock, predicate, sleep, return; the worker loop is cut at
each access to shared state. Condition variables are sets of sleepers; a wake-up
may also be spurious. The destructor is called once no call is in progress.
History variables (`accepted` order and the like) exist only for the refinement
mapping.

Memory order: accesses are sequentially consistent. The code uses acquire and
release on the links and `seq_cst` defaults on `tail` and the counter, which is
enough for the message-passing patterns here; a weaker model is not explored.

### InNumaPool and NumaJobDistributor

One action per access to a status, a counter or the job's closures. The caller
takes part in the job as thread 0. The claim takes one task at a
time, as `process_tasks` sets its chunk size to 1. Poll-then-sleep is
a free choice of the worker: the 50 ms are not modelled, so a worker may try to
sleep after any unsuccessful look. `direct` in `NumaJobDistributor` selects
between the two builds of `do_numa_job` (`USE_NUMA_JOB_DIRECT_WORK`). Start-up
models the window in which the status pointers of the workers are null.

### MoEForward

The host runs a forward pass layer by layer and only appends operations to the
stream; the stream executes copies, enqueues tasks and blocks in sync
callbacks; the worker runs the tasks. Tensors are tags naming the layer, pass
and batch they belong to; an output slot is the set of contributions it has
accumulated, or starts over when a task is not incremental. Which layers defer
is chosen freely in the initial state, except the last layer, whose deferral no
later layer could fetch (the caller disables it). A pass of a batch size outside
the capture list replaces the temporary buffers.

`EndPass` makes an assumption about the caller, not about the wrapper: it waits for the
stream at the end of a pass, as `Qwen3DualBatchRunner.py:149` does with
`stream.synchronize()` and SGLang by reading the logits. `get_buffer`
(`experts_base.py:140`) and `clear_buffer_cache` do not wait for the stream themselves.
For operations already issued `NoDanglingBuffer` rests on this wait; what it finds out
by itself is about the tasks left in the queue, and about buffers replaced within a pass. A
caller that began a pass of another batch size, or cleared the cache, while the stream is
still at work is outside the model.

### DeferredExperts

Operators, no state: `Splits` gives the pairs of id lists that `submit_forward` may hand
to the two tasks of a layer, one for each way `torch.topk` may break ties. `ProtectedFlag`
is the tensor `protected_flag`, which has one entry per expert and none per row. A row
therefore keeps an expert that only another row protects, and may defer fewer experts
than `max_deferred_experts_per_token` allows, never more. -1 marks a place that is not in
a list; a layer without deferral hands over no second list, here a list of -1.
The clamp of `protected_k` (`experts_base.py:356`) and the flag that the rows share
(`:366`) are what can go wrong here: `OneTask` and `BestKept` say what must hold.

### TPMoE

`plan[n]` holds what the serial start of a part computes: rows per expert
(`m_local_num_`), the place of each routed position among them (`m_local_pos_`), the
active experts, and each expert's first row in the row buffers and in the padded
pools. `job[n]` is the job in progress, with its counter and the tasks
that threads hold; `mem[n]` is the arena. A task claims and works in two
steps; its effect is one step, since the tasks of a
job write disjoint rows or slices and that is what `OutputWhole` would see fail.
Numbers are terms, a sum is a bag of terms: an output that took
a wrong row, a leftover, an expert twice or a stale slice differs from `Expected`. `gate` and `up`
of a row are slices, one for each thread index `ith`; a kernel that reads a row
whose slices differ yields `Junk`.

Both paths are modelled: `forward_prefill` sorts rows by expert, `forward_decode`
(one token) takes experts in the order of the ids and reads the input in place.
`DirectBelow` stands for the 10 tokens below which short jobs are loops of the
caller; the matrix jobs always go to the pool. `incremental` is first
looked at by `merge_results`, and is chosen there. The GEMM output buffers
(`gate_bc_` and the like) are written and read within one task and are not variables;
`RegionsApart` covers the size of their pools, which are computed alike.

### SharedMemBuffer

`pointers[a]` says which block, and which object's layout, the pointers of
the object at address `a` were last set for. `object_requests` keeps everything
ever asked for, as in the code; an address may be used again. After growth
the last request for an address decides.

### WorkerPool

The two construction loops, one iteration per step. `bound` collects thread, node
and core; threads for which hwloc finds no node or core stay unbound, and a main
thread without a core is not counted. A step past the end of the vector
of counts is recorded in `outside`, and the model stops there.

### Experts

`part` chooses what a behaviour follows: the construction of the pools, that of layers, or
passes. They share no variable and do not overlap in time (the pools
are complete before the constructor of WorkerPool returns; layers are built by the thread
that would submit passes; a pass starts from whatever the arena holds), so their product
has no behaviour that the three do not have one by one, and the run checks them side by side.

### DualBatchRunner

The pipeline of `_run_pipeline`: startup, `2 * Layers - 1` overlap steps,
drain. Attention is an opaque operation from the hidden state of one microbatch
and layer to the next; the content of each tensor names the microbatch and the depth it has
been computed to, so a mix-up between microbatches or a missed layer shows.

The host binds names to tensors when it issues an operation, the stream fills and reads
tensors when it executes it, and `value` changes only then. That holds for the outputs of
the router too: `Routed` is filled by the attention of its layer, copied to the slot
(`Ids`) by `submit_forward`, and read there by the task. Its content is that of the hidden
state the router saw, so a task that finds the routing of the other microbatch or of
another layer yields `Garbage`. `topk_ids` and `topk_weights` are one tensor, and the
three copies into a slot (`experts_base.py:424`) one step, since the stream makes
them one after another with nothing in between that looks at the slot.

### Inference

`caller` chooses which of the two callers of the wrappers a behaviour follows. A process
serves its requests by one of them, and they do not overlap; what they share is the number of
layers and of slots (`StagingSlots`), not contents. The run checks them side by side.

### DenseKVCache

One layer of the cache. A K/V slice is named by sequence, head and position; a
partial softmax result (output and LSE) is the *bag* of the tokens that
have entered it, and merging two results by their LSE is the sum of bags: a token
lost, counted twice or taken from another sequence or a recycled block shows in
the bag. The numeric content of a merge is not modelled.

`BeginUpdate`, `WriteToken`, `UpdateReturn` are `update_kvcache_fp16` with its
checks; `Initialize` is `attn_initialize_kvhead_`; `InitFunc`, `Take`, `Commit`,
`Work`, `FinalizeFunc` are a thread in the compute job of `attention_kvhead_`;
`ComputeReturn`, `ReduceOneQueryHead`, `ReduceReturn` and `Convert` are the
caller's part. A task touches only memory of its thread and its slot except
where it commits, so it is one step apart from `Commit`, which holds the mutex of the
head. Tasks are taken in ascending order, as the pool's counter gives them out; those of
the update and reduce jobs write disjoint memory and are run one at a
time. `reduce_task_output_`, thread accumulators and the caller's
output keep what earlier calls and failures left there. `Holes` are entries of
`block_table` that may be -1 when a call comes; between calls the
caller may change them and the reduction mode.

`kBlocksPerTask` is a constant, 4 in the code and 2 in the runs.

### SFTTraining

`py` is the training thread: which layer of which pass it is in and what it is
about to do. `task` is the task of the CPUInfer queue (the wrapper submits one and
syncs before the next), `repack[l]` the thread that `submit_backward_repack`
starts. Data is named by layer and batch:
`slot` records which batch a cache entry holds, `mem` what its memory
was last written with (with a shared cache pool the entries of all layers are the
same memory), `bb` the recorded owner and the contents of the shared backward
weights, which `StartRepack` destroys before `FinishRepack` fills them.
`copy` and `prepared` are the versions of the LoRA weights as partitioned and as
transposed for the kernels. `mode` is the configuration, one of the twelve that make
sense. `train_lora` is the condition of `layer.py:114`: PEFT modules hold the
layer's LoRA weights. Fused experts have none (`lora.py:193`), their dirty mark is never
taken (`layer.py:126`), and `LoraFresh` promises nothing to them (section 6); that their
hidden states require gradients, so that they save activations all the same, is assumed.

The copies of results to the GPU are no steps of their own. The training buffers are not
pinned (`base.py:49`), so a `non_blocking` copy has read its source when the call returns.

The training loop is not the repository's: any order of training and evaluation
forwards, backward passes, abandoned graphs and optimizer steps is allowed, with
at most `MaxGraphs` live graphs. Non-checkpointed backward passes run newest graph
first. A backward without a cache entry raises, which ends the
behaviour; `PassCompletes` allows it only without checkpointing, where it happens
when a second training forward was made before the first one's backward (the
repeated save was counted once).

The gradient buffers are kept as two sets of batches, one per kind of merge.
One partition stands for all NUMA nodes: a task is one job of
the distributor.

### DistMoE

Each rank runs the same program of calls (`fwd`, `bwd`, with or without
saving) and each call is a list of transfers. A transfer from one rank to
another is an entry in the channel of the pair; nothing in it but its contents
says which tensor it is, as `P2POp` without a tag. `eager` decides
whether a send completes when issued or when received; both must work. A row is named by
rank, call and index, so `OwnRows` says that results come back to
their own tokens, and gradients meet the activations of their own forward.

### Scheduler

One action per handler of the event loop, in the order the events were
enqueued; the handlers enqueue further events themselves, and the check for
an empty queue is a step of its own. The engine's loop is cut at each
exchange with the event loop: sending updates, taking the published batch,
announcing it. `plan` is the position planned by the scheduler,
`position` the engine's; both move on their own. `Alloc` gives the first free pages in
order. Whether a decode meets a stop token is a free choice.

`MustStop` models the check with three tokens to spare: `check_stop` uses two, and
three once a stop criterion is set (a chat model sets its end token).
Two history variables: `writer`, the queries whose batch last wrote a page, and
`skewed`, queries that were handed a prefill chunk again (see section 6), to which
`LiveHandles`, `WithinEstimate` and `PageHandover` promise nothing.
Timing is not modelled: the engine may be arbitrarily slow or fast.

## 3. Runs

| Run | Bounds | What it shows |
|---|---|---|
| `TaskQueue` | 1 client, 3 nodes (one is the dummy), fairness | no use after free, exact counting, FIFO refinement (theorems for any number of clients); with one calling thread every sync returns, every task runs, destruction completes |
| `TaskQueueLostWakeup` | 2 clients, fairness | **violation**: see section 6 |
| `InNumaPool` | 3 threads, jobs of 0 to 2 tasks, any restriction 1..3, fairness | exactly-once refinement, no late waker, paired init and finalize; jobs return, destruction completes |
| `NumaJobDistributor` | 3 nodes, both variants, fairness | start-up, refinement, no lost wake-up |
| `Inference` | 4 layers; passes: 2, batch sizes 1 and 2, every deferral pattern and capture list, fairness; 2 decode steps of two microbatches; 2 rows of 3 experts out of 4 | staging, deferral and buffer lifetime, every pass ends; separation of microbatches, whose getting on shows as the absence of deadlock; an assumption of `MCInference` evaluates `OneTask` and `BestKept` on every split |
| `DenseKVCache` | 2 sequences, 2 KV heads of 2 query heads, blocks of 2 tokens, tasks of 2 blocks, 3 blocks per sequence, 2 threads, 3 calls | every answer is whole, a failed task never yields one, `CachedAttention` |
| `Experts` | pools: 1 to 3 sub-pools of 1 or 2 threads on nodes 0 to 2 of which 2 exist, 3 cores per node; layers: 3 addresses, 4 requests of 3 sizes, 5 constructions; passes: 2 nodes of 2 threads, 4 experts of which one is on the GPU, 2 tokens, top-2, blocks of 2 rows, rows with two, one and no CPU expert | one thread per core, pointers of live layers current, whole outputs, regions apart and within their pools |
| `SFTTraining` | 3 layers, cache of 2 entries, 5 forward passes, 2 live graphs, 2 optimizer steps, every configuration, fairness | own activations, own weights, fresh LoRA where PEFT modules hold it, exclusive pool, counts that agree, passes end |
| `SFTFusedLora` | 2 layers, 2 passes, 1 optimizer step | **violation**: see section 6 |
| `SFTGradAccumulation` | 2 layers, 2 passes | **violation**: see section 6 |
| `DistMoE` | 3 ranks, 2 layers, 2 passes of lengths 0 to 2 with one or two ranks empty, both kinds of send, fairness | transfers match, rows come home, ranks finish |
| `Scheduler` | 2 queries of 1 or 2 pages each, 3 pages, batches of 3, chunks of 1 token, fairness | preparation, handles, page limits, page hand-over, every query is served |

The type invariants of `TaskQueue` and `InNumaPool` are proved and not run again.

Why the bounds are enough. Three nodes let one address be freed and reused
while a producer still holds another. `TaskQueue` has one client because with two a
sync may block for ever (section 6); what several producers can do to each other in the
gap between exchange and link is covered by the theorems, for any number of them. Three threads give a working, a late and a sleeping
worker at once, and two jobs in a row are always possible because jobs are not
counted. Four layers use each of the two slots twice, so every write-after-read
conflict between layers `l`, `l+1` and `l+2` arises, and the second pass meets
the slots as the first left them. For the microbatches, four layers and two steps contain the
startup, a full interior overlap and the drain, entered from a used state.
The two rows that `MCInference` splits share two experts or three, so each is affected
by what the other protects, with and without ties; a deferral of 4 is more than a row has.
In `DenseKVCache` a sequence of four tokens fills its blocks and its task exactly, and a
decode step takes it into a new block that is also a new task, next to a sequence
that is empty or short; a missing entry in the middle of a task stops an import,
not a decode step, and fails the attention after it; two threads can share a
head, work on two, or fail apart; three calls let an import be followed by a
refused attention call and by one that finds the table repaired.
In `Experts` two tokens that choose the same or different experts give blocks that are
full, padded and empty, and every position of an expert in the layout; one token takes the
decode path and the direct loops, two take prefill and the pool; two threads let a
job end while the other still works. Five constructions at three addresses allow growth
over a live object, over a dead one whose address was used again, and twice in a row.
In `SFTTraining` three layers give a first, an inner and a last one: the last has no
repack thread, the first starts none, and the inner one meets the buffer of both
neighbours; five passes allow an abandoned graph, an evaluation between a
forward and its backward, and a pass after the second optimizer step.
In `DistMoE` each of the other ranks is empty in some pass, alone or with rank 0,
and the second pass may change all lengths, so that kept and new lengths differ.
In `Scheduler` two long queries need four pages of three: the second waits for the first
and then takes pages that batches in flight still write, and a long query's prefill is
one double chunk or two single ones. Larger estimates only repeat
the decode steps in the middle.

No run uses symmetry.
Deadlock is checked in every run but `DistMoE`, whose ranks stop at the end of their programs
(`RanksFinish` says that they all get there); the other modules say where the system may
stop by a stuttering action of its own.

Each property of each passing run comes with a mutant: an operator next to the
definition it stands for, changed as a plausible bug would change it (a
dropped guard, a store without the lock, a missing reset), under which the same run
violates the property. Mutants are marked by comments and used by no
specification.

### Fairness

Weak fairness is assumed of every step of a thread that is able to run:
the operating system schedules threads. Where threads compete for a mutex, strong
fairness is assumed of acquiring it, since a `std::mutex` under the Linux futex
implementation does not starve a waiter for ever against a loop that keeps
releasing it. Nothing is assumed of callers (they may never call), of spurious
wake-ups, and of which waiter `notify_one` chooses. In the training modules the
training thread inside a pass, the worker, the repack threads and
each rank run, and the transport delivers what was sent; nobody has to begin
another pass. In `Scheduler` the event loop and the engine run; the web server need not
add queries.

## 4. Proofs

`TaskQueueProofs`, for every finite or infinite set of clients and any heap:

* `TypeCorrect`: `Spec => []TypeOK`.
* `PendingAlwaysExact`: `pending` equals the tasks in the list, plus the one
  being run, plus those that producers have counted and not yet linked.
* `NeverUsedAfterFree`: no thread holds a freed address it will dereference.
* `IsFifo`: `Spec => ImplementsFifo`, a step simulation to `TaskFifo`.

The inductive invariant describes the list as a sequence of nodes from `head`
to `tail` in order of exchange, in which link `i -> i+1` is present exactly
when the producer of node `i+1` has linked it; from it follow the freshness of the node
the worker frees and the order of tasks. It is needed because memory safety
alone is not inductive: a producer holding `prev` is safe only because the
worker cannot pass a node whose successor is not linked.

`InNumaPoolProofs`, for every number of threads and tasks:

* `TypeCorrect`, `QuiescentAlways` (between jobs no worker is inside or about to
  enter `process_tasks`), `InitFinalizeAlwaysPaired`, and `JobExactlyOnce`
  (`Spec => ImplementsParallelFor`). The invariant says for each thread which of
  its program points are compatible with its status, and that the tasks claimed
  are exactly those below the counter.

`NumaJobDistributorProofs`, for every number of nodes and both builds:

* `NoNullStatusEver`, `QuiescentAlways` and `JobExactlyOnce`
  (`Spec => ImplementsParallelFor`). The invariant `IInv` has four parts: types;
  the barrier has counted exactly the threads that came, so that it opens only when
  all have (the one argument about cardinalities); which status goes with which
  program point of the worker and the owner; and how often `compute_func(i)` has run, as
  a function of them. The second is needed because the null status words are
  guarded by nothing but the barrier.

`MoEForwardProofs`, for every number of layers and passes, every set of batch
sizes, every capture list and every choice of the deferring layers:

* `InputStableSafe`, `OutputCompleteSafe`, `NoDanglingBufferSafe`. A pass is one
  sequence of positions, a layer and a phase of it; the invariant `IInv` says that the
  host is at one position, the stream at an earlier one, and that the stream
  holds exactly the operations in between (`Chained`). The position of the stream
  then tells what the queue can hold (`Tasks`): at most what the layer before deferred, the
  immediate task of this layer and what it deferred itself, and what the slots
  of these tasks contain. None of the three properties is inductive: that a slot is not
  loaded over an unread input rests on the sync of the layer before, two
  agents away.
* `TasksShareOut`, `BestExpertsKept`: `OneTask` and `BestKept` for every result of
  `Splits`, whatever the batch, the number of experts, the scores and the setting. Each of
  the three cases of the code keeps some set of places in every row (`SplitBy`); that an
  expert is kept in all rows or in none gives the first, and counting the places of a row
  the second (`KeptEnough`). That the experts of a row differ is not used. That there is
  a split at all is evaluated by TLC only: a set of the best places is found by induction.

`DualBatchRunnerProofs`, for every number of layers and decode steps:

* `BothCompleteSafe`, `RoutedInputStableSafe`. How many sublayers each
  microbatch has been through, which tensor holds the result (`Depth`, `At`) and which
  operations the stream has still to do are functions of the time slot; the invariant
  adds what each tensor, routing included, holds at each stage of a slot, and the one task that can be
  in the queue.

`ExpertsProofs`:

* `PointersAlwaysCurrent` (`Spec => []PointersCurrent` of `SharedMemBuffer`, for
  any set of sizes and any number of objects). The property is not
  inductive: growth overwrites all pointers from the list of requests. The
  invariant adds that the last request made at the address of a live object is the
  object's own (`LastIsOwn`).
* `OneThreadPerCoreSafe` (`WorkerPool`, for any machine and any configuration,
  repeated and missing nodes included). The counters alone do not say which cores are
  taken, as a main thread is counted only if it got one. The invariant (`PlacedInv`)
  keeps what the counters were at the start of each earlier iteration: these ranges of cores
  are adjacent, and every bound thread lies in that of its own pool or main thread.
* `RegionsApartSafe` (`TPMoE`, for any batch, routing, number of experts and sizes): the
  invariant says that the plan is one of those the two layout loops make for a batch
  (`PlanInv`), and the rest is about their running offsets, by induction. The
  rows of the experts are disjoint sets of positions of the batch, so that they add up to
  at most `MaxLen * TopK` (`OffsetsCount`, `RowsFit`); no expert is placed twice, so that at most
  `ExpertNum` blocks and lines of padding come on top (`ExpertsFit`, `OffsetsBound`). The
  induction theorems of the library take an operator as a parameter; `UpTo` states
  induction for a set instead and follows from the least-number principle
  (`LeastNat`), which the library's theorem about well-founded relations gives. For
  that reason the offsets are a recursive function (`Offsets`), whose equations
  `OffsetsDef` proves.
* `OutputWholeSafe` (`TPMoE`, for any batch, routing, sizes, numbers of nodes and threads):
  the caller gets the sum over the parts of what its own experts compute. The invariant
  (`PassInv`) says of each part, for the tasks of its job that have been run (`Ran`) and
  for all tasks of the jobs before (`Done`), what each of the six buffers holds at each routed
  position (`CopiedIn`, `QuantizedIn`, `UpIn`, `GateIn`, `ActedIn`, `DownIn`, `SumsIn`); nothing
  is said of positions no finished task has written, which is what makes leftovers
  harmless. It rests on the plan (`PlanOK`): each routed position has a row of
  its own, the rows and blocks of different experts are apart, and the table
  of experts has each expert with rows once (`ActivatedLists`, `PrefillOK`, `DecodeOK`). `RunTask`
  is the step of a task, by one lemma for each kernel: it fills in its own positions
  (`Written`: the rows of its expert, its slice) and disturbs no other. `NextJob` says that a
  job without tasks left has done everything the next one reads. During the merge,
  `MergeInv` keeps what is added up already; as the first part's buffer is also
  where the sum is made, a token may be merged once only. That the sum of the parts
  is the expected bag (`MergedIs`) is by induction over the set of parts: each part's
  summands name the part, so their sets are disjoint and their bags add up to the
  bag of their union (`BagOfParts`, `AddedUpIs`).

`SchedulerProofs`, for any number of queries, any requests, any sizes of chunks,
batches, pages and of the cache:

* `LiveHandlesSafe`: a batch names only queries that own pages. Before its prefill
  a query is in one place (an event, a queue or the preparation that waits for
  pages, `PlaceInv`), what is ready owns pages (`ReadyInv`), and the end of a query is
  announced after all its prefill chunks (`OrderInv`), so that no late announcement
  revives it. The last fails for queries in `skewed`.
* `WithinEstimateSafe`: no query is decoded past its pages. `CountInv` counts the decodes that
  may still come to a query that has been found done, by where they are: running,
  taken, published and to be planned, one each, which the margin of `check_stop` covers.
* `PageHandoverSafe`, an action property, from a second invariant, `PagesInv`, over `IInv`: queries
  get pages in their order of arrival (`FcfsInv`), a page has one owner, the
  last query it was given to (`OwnerInv`, on the lemma that the allocator gives only free pages),
  and from the batches that wrote over the running and the taken to
  the published one a page goes only to later queries (`FlowInv`). Pages are free before the
  last batch of their owner is written, so ownership alone is not enough.

`SFTTrainingProofs`, about `SFTTraining`, for every number of layers, cache entries, passes
and graphs:

* `PoolExclusiveSafe`, `LoraFreshSafe`, `DepthAgreesSafe`
  from the invariant `IInv`: at most one repack thread exists, only for the layer
  whose backward comes next, and only while Python is between a layer's backward
  and the entry of the next; with PEFT modules, a layer that is not marked dirty has current
  copies; and the Python count and the stack height of a layer differ by exactly
  the call in progress. Exclusion is not inductive by itself
  because the waits are in Python and the thread is started in C++: the invariant
  ties the thread's state to the program point.
* `BackwardOwnDataSafe` needs a second invariant, `OInv`, over `IInv`: that a stack never has more than one entry, what the
  entry of a layer holds, seen from each program point of a backward, and that the
  recorded owner of the weight buffer is right unless a repack is running. With a
  shared cache pool it says whose memory the first entry is between
  a recomputation and its backward; without checkpointing, why the newest graph is
  the one whose batch the entry holds.

and about `DistMoE`, for any number of ranks and layers, any lengths, empty ranks
included, and whether or not a send waits for its receiver:

* `MatchedSafe` and `OwnRowsSafe`, from one invariant in two halves. `LenInv` is
  about the collective: what each rank has posted, that none is past an exchange
  of lengths to which somebody has not come (`BarrierInv`), and therefore that
  the lengths a rank goes by, gathered anew or kept in `ctx`, are those of the
  pass (`KnownInv`, `CtxInv`), so that sender and receiver agree on who is empty.
  `NetInv`, over it, is about the transfers. A rank with rows is at most one
  call from rank 0, and each direction of its channel holds exactly the
  transfers between what the one side has issued and the other has taken
  (`RankInv`); nothing in the channel says what it is, so `Matched` is
  this fact. An empty rank may be any number of transfers ahead
  within a pass. The other parts say what rank 0 has received, gathered, computed
  and cached at each step of a call (`GotInv`, `InpInv`, `CacheInv`), and what each rank's last
  result is (`ResInv`).
* The lemmas they rest on: `ProgramShape`, that in the programs each backward
  comes after a saving forward of its layer and pass with no other forward of the layer in between,
  and that a forward stands between calls of different passes;
  `FlattenParts`, where the parts of a concatenation lie, in terms of the
  running offsets (`OffsetDef`); and `ChunkOwn`, that the chunk cut out at the
  offset of a rank is what that rank has sent. The first two are by induction over
  sets of numbers (`UpTo`), as in `ExpertsProofs`.

`NumaJobDistributorProofs`, second part, about `DenseKVCache`, for every number of sequences,
heads, query heads per head, blocks, tasks and threads, every block table without
duplicates, any imports and holes, any number of calls and both reduction modes:

* `ConservedSafe`. The property is not inductive: it says where the tokens of a head are,
  not that a task will produce them. The invariant (`CacheInv`) adds what each step relies on.
  `CacheHolds`: the cell that the block table gives for a position below the length holds
  that position's token, which rests on the checks of `update_kvcache_fp16` and on a table without
  duplicates. `TasksInv`: a task is to come or in one thread's hands. `HeadsInv`: what
  a thread has accumulated belongs to one head, in the locked mode the one it commits next;
  `FreshInv`: a head without a commit has an empty result, so that the copy of a first commit
  loses nothing. From `Cut`, the equation of `task_offsets_`, follow the pure facts: each
  task number is one sequence, head and chunk (`TaskAt`, `TaskOf`), the tasks of a head are
  consecutive (`SlotsOf`), and their blocks share out its tokens (`Partition`), also when the last
  block and the last task are not full. A complete task therefore adds its own tokens and
  nothing else (`PartialIs`), and taking, finishing and committing a task only move a bag from one sum to
  another (`BagMove`, `BagPass`). Once a thread has failed nothing is claimed, which is
  why what a failed task leaves behind does no harm: the next job starts from
  `Initialize`, and the accumulators it inherits belong to nobody.
* `RefinesCachedAttention`, with the same invariant, whose last parts follow the caller: at the
  start of the reduction the slots of each KV head hold its tokens once and the
  results are empty (`ReduceInv`); at the conversion each result is whole (`ConvertInv`). An
  update that has been accepted fits its rows (`UpdateFits`); a call that fails, before or after the job, does not touch the
  caller's output.
* The lemmas about sums of bags: a sum over a finite set does not depend on the order in
  which it is taken (`SumIs`, `SumLaws`), the sum of the bags of disjoint sets is the bag of their union
  (`SumSets`). The fold of the community modules chooses some order; that the function it
  chooses exists (`ChosenExists`) is by induction on cardinalities, again by `UpTo`.

Assumptions: only the named `ASSUME`s of the modules (constants are positive
numbers, the heap has a null address outside it, a request fits the cache and has room
for two tokens, no physical block is in the block table twice).

Only model-checked: liveness, as the prover handles neither fairness nor ENABLED
(`SyncReturns`, `TasksFinish`, `JobReturns`, `DtorCompletes`, `PassCompletes`,
`RanksFinish`, `Served`). Every other property of a passing run is a theorem.

## 5. Not modelled

The reasons are in `PROJECT.json` per component. In short: numeric kernels
(floating-point data), loaders, command line and model definitions
(sequential input/output and tensor code, by far most of the repository's lines), the
archived v0.x tree except its scheduler, vendored code. Of the scheduler: strategies other
than first come first served, the prefix cache on CPU and disk, RPC, cancellation
(`sched_rpc.py:87` calls a method that does not exist). Of fine-tuning: kernels,
wrapping a model, adapters on disk, a rank that dies. A queue or pool is destroyed only
after its last call, as its owner does it; zero or too many restricted workers,
which no caller sets, are excluded by assumptions. `TPMoE` follows the AMX parts; the
llamafile and other back ends have job chains of their own, and loading and partitioning weights
is data movement without shared state. `SharedMemBuffer` follows the pointers of
operators; what else the memory of a destroyed one was given to is outside it. Weak memory behaviour below the
acquire/release level is out of scope, and so is the time the poll loops wait.

## 6. Disagreements found

**Lost wake-up.** `TaskQueue::enqueue` wakes one waiter of a condition variable on which both the
worker and callers of `sync` sleep. It counts the task, links it, takes and
releases the mutex and then calls `notify_one`. When a second thread has
blocked in `sync(0)` in between (it sees `pending` above 0), the single wake-up
may go to that thread. It finds `pending` still above 0 and sleeps again; the
worker has not been woken and no other step will wake it. The task is never
run and the sync never returns. The worker's own later broadcast cannot help,
as it comes only after a task. `kt-kernel/python/utils/amx.py:964` states that
`CPUInfer.sync()` blocks until pending tasks complete. Two threads must use the
queue, for instance a Python thread that submits and a CUDA callback that
syncs; with one thread the same property holds (run `TaskQueue`). The repair
is `notify_all`, or a second condition variable.

**Gradient accumulation** (run `SFTGradAccumulation`). `TP_MOE_SFT::backward` leaves six LoRA
gradients. Three (`gate_lora_b`, `up_lora_b`, `down_lora_a`) are added to what
the caller's buffers hold (`sft_moe.hpp:4554`), three (`gate_lora_a`,
`up_lora_a`, `down_lora_b`) are overwritten by the merge over partitions
(`moe-sft-tp.hpp:812`, `:838`). The buffers are the parameters' `.grad`
(`lora.py:501`) and nothing clears them between backward passes, so after
several passes before one optimizer step half of the gradients are sums and half are
those of the last pass (experts that were not active keep the earlier one). The
fine-tuning guide recommends `gradient_accumulation_steps: 8`
(`doc/en/SFT/KTransformers-Fine-Tuning_User-Guide.md:167`). With one pass per step
both kinds agree.

**Fused experts keep stale LoRA copies** (run `SFTFusedLora`). The C++ side computes with
copies of the LoRA weights, partitioned and transposed when the layer is
initialised (`moe-sft-tp.hpp:940`). After `optimizer.step()`,
`update_kt_lora_pointers` marks every layer (`lora.py:528`), and the next forward is to
take the mark and renew the copies. It does so only if `train_lora` (`layer.py:126`), that is if
`_peft_lora_modules` is set (`layer.py:114`). For fused experts `kt_adapt_peft_lora` sets it
to `None` (`lora.py:193`), although their LoRA buffers are parameters that the optimizer
trains. Nothing else renews the copies, so after the first step tasks go on computing with
partitions and conversions of the initial weights (next to current ones where a kernel
reads a matrix in place, as some do `gate_lora_a`). The docstrings say of these buffers "that the C++ kernel
reads/writes directly" (`lora.py:409`) and "KT kernel reads from PEFT LoRA on each
forward" (`lora.py:147`). The repair is to test the mark without `train_lora`. Where PEFT modules
hold the weights, `LoraFresh` holds (run `SFTTraining`).

Observations about the construction of the pools: `WorkerPool::init` and
`NumaJobDistributor::init` count the threads per NUMA node in a vector with one entry
for each sub-pool and index it by node id (`worker_pool.cpp:424`, `:428`, `:435`; `:285`,
`:289`, `:326`). The Python constructor takes an "Explicit list of NUMA node IDs"
(`experts_base.py:171`) and checks only its length. `[1]` with one sub-pool, or `[0, 2]` on
a machine with three nodes, reads and writes past the end; the model stops
there (`IndexOutside`). Sizing the vector by the largest id repairs it. Repeated nodes,
missing nodes and nodes with too few cores are handled (run `Experts`).

Observations about the scheduler, which no promise of the repository
contradicts and no run lists:

* Between `touch_load` in `update_last_batch` and the handling of the event that
  announces the batch, the loop may publish the same prefill chunk again
  (`scheduler.cpp:580`). The engine then counts its tokens twice
  (`query_manager.py:160`), and the query ends early. The announcement of the
  second chunk (`scheduler.cpp:228`) may then come after its end and set it to Decode
  again, without pages: it is planned once more, over a page that by then may belong to another
  query. With one page in the cache, batches of 3 and chunks of one token this takes
  two queries. The model keeps the case; `LiveHandles`, `WithinEstimate` and
  `PageHandover` promise nothing to such a query.
* A query with room for one token only can be done before its last prefill chunk's
  batch is handled, which sets it to Decode again
  (`scheduler.cpp:228`); the model assumes room for two.
* A query that needs more pages than the cache has waits for ever, and all
  behind it (`scheduler.cpp:830`); the model assumes it fits.
* With `max_batch_size = 2` the assertion of `gen_batch_query_todo`
  (`scheduler.cpp:460`) fails when two queries decode; the model assumes 3.

## 7. Plan

In order:

1. *Done:* TaskQueue, InNumaPool, NumaJobDistributor, MoEForward,
   DeferredExperts, DualBatchRunner, DenseKVCache (update and attention), SFTTraining, DistMoE, Scheduler, TPMoE,
   SharedMemBuffer, construction of WorkerPool; proofs of the safety
   properties of all of them.
2. The rest of DenseKVCache: resizing (blocks beyond a smaller capacity are
   dropped while tables may still name them), clearing, exporting, and the
   snapshot round trip.
3. CPUInfer and WorkerPool: the order of destruction, in which the pool goes
   before the queue and the sub-pools before the distributor.
4. `generate_gpu_experts_masks`, the placement of experts on the GPU, as a pure operator.
5. The job chain of the llamafile back end, and `TPMoE` as an implementation of the
   worker step of MoEForward.
