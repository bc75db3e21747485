---------------------------- MODULE SFTTraining ----------------------------
(***************************************************************************)
(* LoRA fine-tuning of the CPU experts: the Python training thread walks   *)
(* the MoE layers forward and backward (KTMoELayerWrapper.forward and      *)
(* KTMoEFunction), the CPUInfer worker runs one forward_sft or backward    *)
(* task at a time, and a thread of the next layer in backward order        *)
(* repacks its weights into the buffer all layers share                    *)
(* (share_backward_bb) while the GPU computes attention.                   *)
(*                                                                         *)
(* A forward pass is identified by a batch number; data is abstracted to   *)
(* the layer and batch it belongs to, a LoRA weight to its version.  One   *)
(* NUMA partition stands for all of them: a task or a repack is one job of *)
(* the distributor (module NumaJobDistributor), which one client at a time *)
(* may drive.                                                              *)
(***************************************************************************)
EXTENDS Integers, FiniteSets

CONSTANTS
  NumLayers,    \* MoE layers
  MaxDepth,     \* max_cache_depth: slots of a layer's forward cache
  MaxBatches,   \* bound: forward passes of a behaviour
  MaxGraphs,    \* bound: training forwards whose backward is still to come
  MaxSteps      \* bound: optimizer steps

ASSUME SFTAssumption ==
  /\ NumLayers \in Nat \ {0} /\ MaxDepth \in Nat \ {0}
  /\ MaxBatches \in Nat /\ MaxGraphs \in Nat /\ MaxSteps \in Nat

Layers == 1 .. NumLayers

\* The configurations: gradient checkpointing (non-reentrant), the shared
\* backward weight buffer, the shared cache pool, which is only for
\* checkpointing ("one layer at a time"), and train_lora: the LoRA weights
\* belong to PEFT modules, which fused experts do not have.
Modes == {m \in [ckpt : BOOLEAN, shareBB : BOOLEAN, shareCache : BOOLEAN,
                 train_lora : BOOLEAN] : m.shareCache => m.ckpt}

VARIABLES
  mode,     \* the configuration, chosen once
  py,       \* the training thread: what it is about to do, in which layer
  depth,    \* per layer, Python: _cache_depth
  dirty,    \* per layer, Python: _lora_pointers_dirty
  top,      \* per layer, C++: cache_stack_top_
  slot,     \* per layer, C++: the batch recorded in each slot of cache_stack_
  mem,      \* the memory behind the cache slots: <<layer, batch>> last written
  copy,     \* per layer, C++: version of the partitioned LoRA copies
  prepared, \* per layer, C++: version transposed for the kernels, 0 for none
  bb,       \* shared backward buffer: recorded owner, and what it contains
  repack,   \* per layer: the repack thread
  task,     \* the task of the CPUInfer queue
  grad,     \* per layer: batches summed in the two kinds of LoRA gradients
  graphs,   \* batches whose autograd graph is alive
  since,    \* batches whose backward completed since zero_grad
  batch,    \* the last batch number given out
  lora      \* version of the LoRA weights

cacheVars == <<top, slot, mem>>
loraVars  == <<copy, prepared, lora>>
loopVars  == <<mode, batch, since>>
vars == <<loopVars, py, graphs, depth, dirty, cacheVars, loraVars, grad, bb,
          repack, task>>

NoTask == [kind |-> "none", l |-> 0, b |-> 0, save |-> FALSE, slot |-> 0,
           run |-> FALSE]
Idle   == [op |-> "idle", kind |-> "none", l |-> 0, b |-> 0]

Init ==
  /\ mode \in Modes
  /\ py = Idle
  /\ depth = [l \in Layers |-> 0] /\ dirty = [l \in Layers |-> FALSE]
  /\ top = [l \in Layers |-> 0]
  /\ slot = [l \in Layers |-> [i \in 1 .. MaxDepth |-> 0]]
  /\ mem = [c \in Layers \X (1 .. MaxDepth) |-> <<0, 0>>]
  /\ copy = [l \in Layers |-> 1] /\ prepared = [l \in Layers |-> 0]
  /\ bb = [owner |-> 0, content |-> 0]
  /\ repack = [l \in Layers |-> "none"]
  /\ task = NoTask
  /\ grad = [l \in Layers |-> [copied |-> {}, reduced |-> {}]]
  /\ graphs = {} /\ since = {} /\ batch = 0 /\ lora = 1

-----------------------------------------------------------------------------
(* The training loop (outside the repository: accelerate, the Trainer).    *)

\* A forward pass: a training one, or an evaluation or reference one under
\* no_grad, which may fall between a training forward and its backward.
BeginForward ==
  /\ py.op = "idle" /\ batch < MaxBatches
  /\ \E kind \in {"train", "eval"} :
       /\ kind = "train" => Cardinality(graphs) < MaxGraphs
       /\ py' = [op |-> "layer", kind |-> kind, l |-> 1, b |-> batch + 1]
  /\ batch' = batch + 1
  /\ UNCHANGED <<mode, since, graphs, depth, dirty, cacheVars, loraVars, grad,
                 bb, repack, task>>

\* A backward pass of a graph.  Without checkpointing the newest graph goes
\* first, the order autograd runs the nodes of a summed loss in.
BeginBackward ==
  /\ py.op = "idle"
  /\ \E b \in graphs :
       /\ ~mode.ckpt => \A g \in graphs : g <= b
       /\ py' = [op |-> "unpack", kind |-> "backward", l |-> NumLayers, b |-> b]
  /\ UNCHANGED <<loopVars, graphs, depth, dirty, cacheVars, loraVars, grad, bb,
                 repack, task>>

\* The oldest graph is freed without a backward (a skipped loss).
DropGraph ==
  /\ py.op = "idle"
  /\ \E b \in graphs : (\A g \in graphs : b <= g) /\ graphs' = graphs \ {b}
  /\ UNCHANGED <<loopVars, py, depth, dirty, cacheVars, loraVars, grad, bb,
                 repack, task>>

\* optimizer.step() writes the LoRA weights in place, update_kt_lora_pointers
\* marks every layer dirty, zero_grad clears the gradient buffers.
OptimizerStep ==
  /\ py.op = "idle" /\ graphs = {} /\ since /= {} /\ lora <= MaxSteps
  /\ lora' = lora + 1
  /\ dirty' = [l \in Layers |-> TRUE]
  /\ grad' = [l \in Layers |-> [copied |-> {}, reduced |-> {}]]
  /\ since' = {}
  /\ UNCHANGED <<mode, batch, py, graphs, depth, cacheVars, copy, prepared, bb,
                 repack, task>>

-----------------------------------------------------------------------------
(* KTMoELayerWrapper.forward and the wrapper's submit and sync.            *)

(* Mutant of Saves: the recomputation does not save either. *)
SavesNever(kind) == kind = "train" /\ ~mode.ckpt

\* Whether the forward saves its activations: a training forward does, except
\* the first forward under a checkpoint; the recomputation does.
Saves(kind) == kind = "recompute" \/ (kind = "train" /\ ~mode.ckpt)

(* Mutant of UpdateLora: what was prepared from the old weights stays. *)
UpdateLoraKeepPrepared(l) == /\ copy' = [copy EXCEPT ![l] = lora]
                             /\ UNCHANGED prepared

\* TP_MOE_SFT::update_lora_weights: copy the partitioned weights, and drop
\* what was prepared from the old ones.
UpdateLora(l) == /\ copy' = [copy EXCEPT ![l] = lora]
                 /\ prepared' = [prepared EXCEPT ![l] = 0]

\* KTMoELayerWrapper.forward up to the submit.
SubmitForward ==
  /\ py.op = "layer" /\ task = NoTask
  /\ IF mode.train_lora /\ dirty[py.l]
       THEN UpdateLora(py.l) /\ dirty' = [dirty EXCEPT ![py.l] = FALSE]
       ELSE UNCHANGED <<copy, prepared, dirty>>
  /\ task' = [NoTask EXCEPT !.kind = "forward", !.l = py.l, !.b = py.b,
                            !.save = Saves(py.kind)]
  /\ py' = [py EXCEPT !.op = "sync"]
  /\ UNCHANGED <<loopVars, graphs, depth, cacheVars, lora, grad, bb, repack>>

(* Mutant of Counted: every repeated forward counts. *)
CountedAgain(d) == IF Saves(py.kind) THEN d + 1 ELSE d

\* sync_forward counts a saved forward once, however often it is repeated.
Counted(d) == IF Saves(py.kind) /\ d = 0 THEN d + 1 ELSE d

\* sync_forward, and on to the next layer, to the end of the pass, or back to
\* the backward that asked for the recomputation.
SyncForward ==
  /\ py.op = "sync" /\ task = NoTask
  /\ depth' = [depth EXCEPT ![py.l] = Counted(@)]
  /\ py' = IF py.kind = "recompute"
             THEN [py EXCEPT !.op = "bwd", !.kind = "backward"]
           ELSE IF py.l < NumLayers
             THEN [py EXCEPT !.op = "layer", !.l = @ + 1]
           ELSE Idle
  /\ graphs' = IF py.kind = "train" /\ py.l = NumLayers
                 THEN graphs \cup {py.b} ELSE graphs
  /\ UNCHANGED <<loopVars, dirty, cacheVars, loraVars, grad, bb, repack, task>>

-----------------------------------------------------------------------------
(* KTMoEFunction.backward.                                                 *)

\* The layer's repack thread, if it has one, can be joined.
Joined(l) == repack[l] \in {"none", "finished"}

(* Mutant of WaitRepack: the backward does not wait. *)
WaitRepackNot(l) == UNCHANGED repack

\* wait_backward_repack.
WaitRepack(l) == Joined(l) /\ repack' = [repack EXCEPT ![l] = "none"]

\* Entry: wait for the repack, then touch saved_tensors, which under
\* checkpointing recomputes the layer before anything else.
EnterBackward ==
  /\ py.op = "unpack"
  /\ IF mode.shareBB THEN WaitRepack(py.l) ELSE UNCHANGED repack
  /\ py' = IF mode.ckpt THEN [py EXCEPT !.op = "layer", !.kind = "recompute"]
                        ELSE [py EXCEPT !.op = "bwd"]
  /\ UNCHANGED <<loopVars, graphs, depth, dirty, cacheVars, loraVars, grad, bb,
                 task>>

\* BaseSFTMoEWrapper.backward refuses to run without a counted forward.
RaiseNoCache ==
  /\ py.op = "bwd" /\ depth[py.l] <= 0
  /\ py' = [py EXCEPT !.op = "raised"]
  /\ UNCHANGED <<loopVars, graphs, depth, dirty, cacheVars, loraVars, grad, bb,
                 repack, task>>

SubmitBackward ==
  /\ py.op = "bwd" /\ depth[py.l] > 0
  /\ task = NoTask
  /\ task' = [NoTask EXCEPT !.kind = "backward", !.l = py.l, !.b = py.b]
  /\ py' = [py EXCEPT !.op = "bwdsync"]
  /\ UNCHANGED <<loopVars, graphs, depth, dirty, cacheVars, loraVars, grad, bb,
                 repack>>

\* The layer whose repack the backward of l starts (_next_backward_wrapper).
NextBackward(l) == l - 1

\* backward returns, and the repack of the next layer starts (after joining
\* the thread of an earlier one).
SyncBackward ==
  LET next == NextBackward(py.l) IN
  /\ py.op = "bwdsync" /\ task = NoTask
  /\ depth' = [depth EXCEPT ![py.l] = @ - 1]
  /\ IF mode.shareBB /\ next \in Layers
       THEN Joined(next) /\ repack' = [repack EXCEPT ![next] = "spawned"]
       ELSE UNCHANGED repack
  /\ IF py.l > 1
       THEN /\ py' = [py EXCEPT !.op = "unpack", !.l = @ - 1]
            /\ UNCHANGED <<graphs, since>>
       ELSE /\ py' = Idle
            /\ graphs' = graphs \ {py.b}
            /\ since' = since \cup {py.b}
  /\ UNCHANGED <<mode, batch, dirty, cacheVars, loraVars, grad, bb, task>>

-----------------------------------------------------------------------------
(* The CPUInfer worker.                                                    *)

\* The memory behind slot i of layer l: all layers' slots alias in the shared
\* cache pool.
Cell(l, i) == <<IF mode.shareCache THEN 1 ELSE l, i>>

\* push_cache wraps around at the end of the stack; forward_sft pushes only
\* when the stack is empty and otherwise overwrites the top entry.
PushedTop(t) == (IF t >= MaxDepth THEN 0 ELSE t) + 1
SaveSlot(t) == IF t > 0 THEN t ELSE PushedTop(t)

\* prepare_backward_bb_for_async, complete: contents first, owner last.
Repacked(l) == [owner |-> l, content |-> l]

\* forward_sft starts: lazily transposes the LoRA weights it was given.
StartForward ==
  /\ task.kind = "forward" /\ ~task.run
  /\ prepared' = [prepared EXCEPT ![task.l] = IF @ = 0 THEN copy[task.l] ELSE @]
  /\ task' = [task EXCEPT !.run = TRUE]
  /\ UNCHANGED <<loopVars, py, graphs, depth, dirty, cacheVars, copy, lora, grad,
                 bb, repack>>

\* forward_sft ends; with save_for_backward it has filled a cache slot.
FinishForward ==
  LET i == SaveSlot(top[task.l]) IN
  /\ task.kind = "forward" /\ task.run
  /\ IF task.save
       THEN /\ top' = [top EXCEPT ![task.l] = i]
            /\ slot' = [slot EXCEPT ![task.l][i] = task.b]
            /\ mem' = [mem EXCEPT ![Cell(task.l, i)] = <<task.l, task.b>>]
       ELSE UNCHANGED cacheVars
  /\ task' = NoTask
  /\ UNCHANGED <<loopVars, py, graphs, depth, dirty, loraVars, grad, bb, repack>>

(* Mutant of BackwardBB: the owner recorded in the buffer is not looked at. *)
BackwardBBUnchecked(l) == bb

\* The buffer the backward of l runs on: its own if the recorded owner says
\* so, else it is repacked on the spot.
BackwardBB(l) == IF mode.shareBB /\ bb.owner /= l THEN Repacked(l) ELSE bb

\* backward starts: pops the cache, makes the weight buffer its own.
StartBackward ==
  /\ task.kind = "backward" /\ ~task.run
  /\ top' = [top EXCEPT ![task.l] = IF @ > 0 THEN @ - 1 ELSE @]
  /\ bb' = BackwardBB(task.l)
  /\ task' = [task EXCEPT !.run = TRUE, !.slot = top[task.l]]
  /\ UNCHANGED <<loopVars, py, graphs, depth, dirty, slot, mem, loraVars, grad,
                 repack>>

\* The gradients backward leaves for an active expert: gate_lora_b, up_lora_b
\* and down_lora_a are added to, the other three are overwritten by the merge.
AddGradients(g, b) == [copied |-> g.copied \cup {b}, reduced |-> {b}]

FinishBackward ==
  /\ task.kind = "backward" /\ task.run
  /\ grad' = [grad EXCEPT ![task.l] = AddGradients(@, task.b)]
  /\ task' = NoTask
  /\ UNCHANGED <<loopVars, py, graphs, depth, dirty, cacheVars, loraVars, bb,
                 repack>>

-----------------------------------------------------------------------------
(* The repack thread of a layer.                                           *)

StartRepack(l) ==
  /\ repack[l] = "spawned"
  /\ repack' = [repack EXCEPT ![l] = "running"]
  /\ bb' = [bb EXCEPT !.content = 0]
  /\ UNCHANGED <<loopVars, py, graphs, depth, dirty, cacheVars, loraVars, grad,
                 task>>

FinishRepack(l) ==
  /\ repack[l] = "running"
  /\ repack' = [repack EXCEPT ![l] = "finished"]
  /\ bb' = Repacked(l)
  /\ UNCHANGED <<loopVars, py, graphs, depth, dirty, cacheVars, loraVars, grad,
                 task>>

\* Training is over, or was stopped by an exception.
Finished ==
  /\ py.op = "raised" \/ (py.op = "idle" /\ batch = MaxBatches)
  /\ task = NoTask
  /\ UNCHANGED vars

Python == SubmitForward \/ SyncForward \/ EnterBackward \/ RaiseNoCache
            \/ SubmitBackward \/ SyncBackward
Worker == StartForward \/ FinishForward \/ StartBackward \/ FinishBackward
Repack(l) == StartRepack(l) \/ FinishRepack(l)

Next == \/ BeginForward \/ BeginBackward \/ DropGraph \/ OptimizerStep
        \/ Python \/ Worker \/ Finished
        \/ \E l \in Layers : Repack(l)

Spec == Init /\ [][Next]_vars

\* Every thread runs: the training thread inside a pass, the worker and the
\* repack threads.  Nobody has to start another pass.
Fairness == /\ WF_vars(Python) /\ WF_vars(Worker)
            /\ \A l \in Layers : WF_vars(Repack(l))

FairSpec == Spec /\ Fairness

-----------------------------------------------------------------------------
(* Properties.                                                             *)

\* A repack thread and the worker's task never drive the NUMA pool together:
\* the distributor's job fields belong to one client at a time, and nothing
\* but the waits at the entry of a layer's backward keeps the two apart.
PoolExclusive ==
  Cardinality({l \in Layers : repack[l] = "running"})
    + (IF task.run THEN 1 ELSE 0) <= 1

\* A running backward reads the activations its own layer saved for its own
\* batch, in memory no other layer has overwritten since, and weights that
\* were repacked for its layer and completely: over re-forwarding, dropped
\* graphs, recomputation and a repack started ahead or not at all.
BackwardOwnData ==
  task.kind = "backward" /\ task.run =>
    /\ task.slot > 0
    /\ slot[task.l][task.slot] = task.b
    /\ mem[Cell(task.l, task.slot)] = <<task.l, task.b>>
    /\ mode.shareBB => bb = Repacked(task.l)

\* A running task computes with the LoRA weights of the last optimizer step,
\* if PEFT modules hold them: the dirty mark reaches the C++ copies, and what
\* was prepared from the old copies is dropped.
LoraFresh == task.run /\ mode.train_lora => prepared[task.l] = lora

\* The kernel reads the current LoRA weights on each forward, as the comment
\* on kt_adapt_peft_lora says of all experts, fused ones included.
KernelReadsLora == task.run => prepared[task.l] = lora

\* Between calls, the Python wrapper's count of cached forwards is the height
\* of the C++ cache stack, whichever of the two may have repeated a save.
DepthAgrees ==
  task = NoTask /\ py.op \notin {"sync", "bwdsync"} =>
    \A l \in Layers : depth[l] = top[l]

\* Between passes, all LoRA gradients sum the backward passes since zero_grad,
\* which training with gradient_accumulation_steps needs.
GradsAccumulate ==
  py.op = "idle" =>
    \A l \in Layers : grad[l].copied = since /\ grad[l].reduced = since

\* A pass that has begun ends: the waits for a repack thread and the worker
\* come to an end, and under checkpointing no backward finds
\* its cache missing.  Without it, the older of two graphs raises.
PassCompletes ==
  (py.op /= "idle") ~> (py.op = "idle" \/ (py.op = "raised" /\ ~mode.ckpt))

=============================================================================
