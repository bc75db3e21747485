----------------------------- MODULE MoEForward -----------------------------
(***************************************************************************)
(* python/experts_base.py: BaseMoEWrapper.submit_forward / sync_forward,   *)
(* called for every MoE layer of every forward pass, with deferred experts *)
(* and the double-buffered staging memory of KExpertsCPUBuffer.            *)
(*                                                                         *)
(* Three actors run concurrently.  The Python host issues operations to a  *)
(* CUDA stream and runs ahead of it; the stream executes them in order,    *)
(* its host callbacks entering and waiting for the CPU task queue          *)
(* (TaskFifo); the queue's worker executes the expert tasks, which read    *)
(* and write the staging buffers through raw pointers.                     *)
(*                                                                         *)
(* Data is abstracted to provenance.  A staging slot holds the tag         *)
(* <<pass, layer>> of what was copied into it; an output slot holds the    *)
(* set of expert contributions summed in it.                               *)
(***************************************************************************)
EXTENDS StagingSlots, Sequences, FiniteSets

CONSTANTS MaxPass,   \* bound on forward passes
          Batch,     \* batch sizes that occur
          Null

ASSUME BatchAssumption == 0 \notin Batch /\ Null \notin Nat

VARIABLES deferring,   \* layers with max_deferred_experts_per_token > 0
          pass, layer, batch, hpc,       \* the host
          has_pending_deferred,          \* _layer_has_pending_deferred
          capture_bs, capture_buffers, temp_bs,   \* KExpertsCPUBuffer
          stream,      \* operations issued and not yet executed
          queue, running, waiting, closed,        \* the task queue
          input,       \* input_tensor_cpu, weights_cpu, immediate ids
          deferred_ids,\* deferred_experts_ids_cpu
          output_cpu, output_gpu

host == <<pass, layer, batch, hpc, has_pending_deferred>>
pool == <<capture_bs, capture_buffers, temp_bs>>
fifo == <<queue, running, waiting, closed>>
store == <<input, deferred_ids, output_cpu, output_gpu>>
vars == <<deferring, host, pool, stream, fifo, store>>

(* CUDA runs the host functions of one stream one at a time. *)
Callback == "stream"
TQ == INSTANCE TaskFifo WITH Client <- {Callback}, Task <- {}, Allow <- {0, 1}

Empty(v) == [b \in Batch |-> [s \in Slot |-> v]]

(* The caller configures deferral per layer and leaves it off on the last  *)
(* one, whose deferred experts no later layer would add.                   *)
Init == /\ deferring \in SUBSET (0..(Layers - 2))
        /\ pass = 0 /\ layer = 0 /\ batch = 0 /\ hpc = "begin"
        /\ has_pending_deferred = {}
        /\ capture_bs = {} /\ capture_buffers = {} /\ temp_bs = 0
        /\ stream = <<>>
        /\ TQ!Init
        /\ input = Empty(Null) /\ deferred_ids = Empty(Null)
        /\ output_cpu = Empty({}) /\ output_gpu = Empty(Null)

-----------------------------------------------------------------------------
(* The host between two passes *)
BeginPass(b) ==
  /\ hpc = "begin" /\ pass < MaxPass
  /\ pass' = pass + 1 /\ layer' = 0 /\ batch' = b /\ hpc' = "submit"
  /\ UNCHANGED <<deferring, has_pending_deferred, pool, stream, fifo, store>>

SetCaptureBatchSizes ==
  /\ hpc = "begin"
  /\ capture_bs' \in SUBSET Batch
  /\ UNCHANGED <<deferring, host, capture_buffers, temp_bs, stream, fifo, store>>

ClearBufferCache ==
  /\ hpc = "begin"
  /\ capture_buffers' = {} /\ temp_bs' = 0
  /\ UNCHANGED <<deferring, host, capture_bs, stream, fifo, store>>

(* get_buffer(b): a hit in the captured or the temporary buffers, or a     *)
(* fresh zeroed buffer that displaces the temporary one.                   *)
Hit(b) == b \in capture_buffers \/ b = temp_bs
GetBuffer(b) ==
  IF Hit(b) THEN UNCHANGED <<pool, store>>
  ELSE /\ temp_bs' = b
       /\ capture_buffers' = IF b \in capture_bs THEN capture_buffers \cup {b}
                                                 ELSE capture_buffers
       /\ input' = [input EXCEPT ![b] = [s \in Slot |-> Null]]
       /\ deferred_ids' = [deferred_ids EXCEPT ![b] = [s \in Slot |-> Null]]
       /\ output_cpu' = [output_cpu EXCEPT ![b] = [s \in Slot |-> {}]]
       /\ output_gpu' = [output_gpu EXCEPT ![b] = [s \in Slot |-> Null]]
       /\ UNCHANGED capture_bs

-----------------------------------------------------------------------------
CurrentSlot == layer % buffer_depth
NextSlot == (CurrentSlot + 1) % buffer_depth
Tag == <<pass, layer>>

Op(kind) == [op |-> kind, tag |-> Tag, b |-> batch, slot |-> CurrentSlot]

(* moe.forward_task(...) with the pointers it captures *)
ForwardTask(kind, dst, inc) ==
  [kind |-> kind, tag |-> Tag, b |-> batch, slot |-> CurrentSlot,
   dst |-> dst, incremental |-> inc]

Enqueue(t) == [op |-> "enqueue", task |-> t, b |-> t.b]

(* submit_forward: stage the inputs, submit the immediate experts, and, if *)
(* this layer defers, stage and submit the deferred ones, whose result     *)
(* goes to the slot of the next layer.                                     *)
SubmitForward ==
  /\ hpc = "submit"
  /\ GetBuffer(batch)
  /\ LET incremental == layer - 1 \in has_pending_deferred
         immediate == <<Op("load"),
                        Enqueue(ForwardTask("imm", CurrentSlot, incremental))>>
         deferred == <<Op("load_deferred"),
                       Enqueue(ForwardTask("def", NextSlot, FALSE))>>
     IN IF layer \in deferring
        THEN /\ stream' = stream \o immediate \o deferred
             /\ has_pending_deferred' = has_pending_deferred \cup {layer}
        ELSE /\ stream' = stream \o immediate
             /\ has_pending_deferred' = has_pending_deferred \ {layer}
  /\ hpc' = "sync"
  /\ UNCHANGED <<deferring, pass, layer, batch, fifo>>

(* Mutant of AllowPending: one task may always be pending. *)
AllowOne == 1
AllowPending == IF layer \in has_pending_deferred THEN 1 ELSE 0

(* sync_forward: wait, in the stream, for all tasks but the deferred one   *)
(* just submitted, then copy the result back.                              *)
SyncForward ==
  /\ hpc = "sync"
  /\ GetBuffer(batch)
  /\ stream' = stream \o <<[op |-> "sync", allow |-> AllowPending, b |-> batch],
                           Op("fetch")>>
  /\ IF layer + 1 < Layers THEN layer' = layer + 1 /\ hpc' = "submit"
                           ELSE layer' = layer /\ hpc' = "end"
  /\ UNCHANGED <<deferring, pass, batch, has_pending_deferred, fifo>>

(* The caller waits for the pass it started: Qwen3DualBatchRunner with its *)
(* stream.synchronize(), SGLang because it reads the logits.  get_buffer   *)
(* and clear_buffer_cache themselves do not wait for the stream.           *)
EndPass ==
  /\ hpc = "end" /\ stream = <<>>
  /\ hpc' = "begin"
  /\ UNCHANGED <<deferring, pass, layer, batch, has_pending_deferred, pool,
                 stream, fifo, store>>

-----------------------------------------------------------------------------
(* The stream executes its oldest operation. *)
Executing(kind) == stream # <<>> /\ Head(stream).op = kind
Pop == stream' = Tail(stream)

StreamLoad ==
  /\ Executing("load") /\ Pop
  /\ LET o == Head(stream) IN input' = [input EXCEPT ![o.b][o.slot] = o.tag]
  /\ UNCHANGED <<deferring, host, pool, fifo, deferred_ids, output_cpu, output_gpu>>

StreamLoadDeferred ==
  /\ Executing("load_deferred") /\ Pop
  /\ LET o == Head(stream)
     IN deferred_ids' = [deferred_ids EXCEPT ![o.b][o.slot] = o.tag]
  /\ UNCHANGED <<deferring, host, pool, fifo, input, output_cpu, output_gpu>>

(* submit_with_cuda_stream: the callback enters the task into the queue *)
StreamEnqueue ==
  /\ Executing("enqueue") /\ Pop
  /\ TQ!Accept(Head(stream).task)
  /\ UNCHANGED <<deferring, host, pool, store>>

(* sync_with_cuda_stream: the callback blocks in TaskQueue::sync *)
StreamSyncCall ==
  /\ Executing("sync")
  /\ TQ!SyncCall(Callback, Head(stream).allow)
  /\ UNCHANGED <<deferring, host, pool, stream, store>>

(* Mutant of StreamSyncReturn: the bound of sync is strict. *)
StreamSyncReturnStrict ==
  /\ Executing("sync") /\ Pop
  /\ TQ!SyncReturn(Callback)
  /\ Len(queue) < waiting[Callback]
  /\ UNCHANGED <<deferring, host, pool, store>>

StreamSyncReturn ==
  /\ Executing("sync") /\ Pop
  /\ TQ!SyncReturn(Callback)
  /\ UNCHANGED <<deferring, host, pool, store>>

(* output_gpu[slot].copy_(output_cpu[slot]) *)
StreamFetch ==
  /\ Executing("fetch") /\ Pop
  /\ LET o == Head(stream)
     IN output_gpu' = [output_gpu EXCEPT ![o.b][o.slot] =
                         [tag |-> o.tag, sum |-> output_cpu[o.b][o.slot]]]
  /\ UNCHANGED <<deferring, host, pool, fifo, input, deferred_ids, output_cpu>>

-----------------------------------------------------------------------------
(* The queue's worker executes forward(..., incremental): the result       *)
(* replaces the output slot, or is added to what is there.                 *)
TaskStart ==
  /\ TQ!Start
  /\ UNCHANGED <<deferring, host, pool, stream, store>>

Computed(t) ==
  LET ids == IF t.kind = "imm" THEN input[t.b][t.slot] ELSE deferred_ids[t.b][t.slot]
  IN {[ids |-> ids, input |-> input[t.b][t.slot], kind |-> t.kind]}
       \cup (IF t.incremental THEN output_cpu[t.b][t.dst] ELSE {})

TaskFinish ==
  /\ TQ!Finish
  /\ output_cpu' = [output_cpu EXCEPT ![running.b][running.dst] = Computed(running)]
  /\ UNCHANGED <<deferring, host, pool, stream, input, deferred_ids, output_gpu>>

-----------------------------------------------------------------------------
Finished == /\ hpc = "begin" /\ pass = MaxPass /\ queue = <<>>
            /\ UNCHANGED vars

StreamStep == \/ StreamLoad \/ StreamLoadDeferred \/ StreamEnqueue
              \/ StreamSyncCall \/ StreamSyncReturn \/ StreamFetch
WorkerStep == TaskStart \/ TaskFinish
HostStep == SubmitForward \/ SyncForward \/ EndPass

Next == \/ \E b \in Batch : BeginPass(b)
        \/ SetCaptureBatchSizes \/ ClearBufferCache
        \/ HostStep \/ StreamStep \/ WorkerStep \/ Finished

Spec == Init /\ [][Next]_vars

(* The host, the stream and the worker each keep going. *)
FairSpec == Spec /\ WF_vars(HostStep) /\ WF_vars(StreamStep) /\ WF_vars(WorkerStep)

-----------------------------------------------------------------------------
(* An expert task reads the staging slot through a pointer when it runs,   *)
(* long after submit_forward returned: until it has finished, the slot     *)
(* still holds the inputs of the layer that submitted it.                  *)
InputStable ==
  \A i \in DOMAIN queue :
    LET t == queue[i]
    IN /\ input[t.b][t.slot] = t.tag
       /\ t.kind = "def" => deferred_ids[t.b][t.slot] = t.tag

(* What layer l of pass p must return: its immediate experts, and the      *)
(* experts the layer before it deferred.                                   *)
Expert(p, l, k) == [ids |-> <<p, l>>, input |-> <<p, l>>, kind |-> k]
Expected(p, l) == {Expert(p, l, "imm")} \cup
                  (IF l - 1 \in deferring THEN {Expert(p, l - 1, "def")} ELSE {})

(* Every result sync_forward hands to the GPU is the complete sum of the   *)
(* right experts over the right inputs, nothing lost and nothing stale.    *)
OutputComplete ==
  \A b \in Batch, s \in Slot :
    output_gpu[b][s] # Null =>
      output_gpu[b][s].sum = Expected(output_gpu[b][s].tag[1],
                                      output_gpu[b][s].tag[2])

(* No queued task and no issued operation holds a pointer into a buffer    *)
(* KExpertsCPUBuffer has let go of.  Between passes it is the wait of      *)
(* EndPass that sees to the operations; no wait sees to the tasks.         *)
NoDanglingBuffer ==
  /\ \A i \in DOMAIN queue : Hit(queue[i].b)
  /\ \A i \in DOMAIN stream : Hit(stream[i].b)

(* Every pass comes to an end: no callback waits for a task behind it. *)
PassCompletes == hpc = "submit" ~> hpc = "begin"
=============================================================================
