-------------------------- MODULE DualBatchRunner ---------------------------
(***************************************************************************)
(* Qwen3DualBatchRunner.py: one decode step of two microbatches through    *)
(* all layers on one CUDA stream.  Time slot i issues the MoE of one       *)
(* microbatch, the attention of the other and the wait for the MoE, then   *)
(* synchronizes the stream.  The wrappers are those of MoEForward without  *)
(* deferral: their staging slots and output_gpu are shared by all layers   *)
(* of the same parity, hence by both microbatches.                         *)
(*                                                                         *)
(* A Python variable is bound to a tensor when an operation is issued and  *)
(* the tensor gets its content when the stream executes it, so the model   *)
(* separates tensors (`Tensor') from their contents (`value').  A content  *)
(* <<mb, n>> is microbatch mb after n sublayers: attention of layer l      *)
(* turns <<mb, 2l>> into <<mb, 2l + 1>> and its MoE that into              *)
(* <<mb, 2l + 2>>.  The router's outputs have the content of the hidden    *)
(* state they were computed from.  Any other operand gives Garbage.        *)
(***************************************************************************)
EXTENDS StagingSlots, Sequences, FiniteSets

CONSTANTS Steps,      \* bound on decode steps
          Null

MB == {0, 1}
Garbage == <<2, 0>>

(* Tensors: one per operation result, and the wrappers' shared buffers.    *)
(* Routed stands for topk_ids and topk_weights, Ids for the slots both are *)
(* staged in.                                                              *)
Embedded(mb) == <<"embed", mb, 0>>
AttnOut(mb, l) == <<"attn", mb, l>>
Routed(mb, l) == <<"topk", mb, l>>
Cloned(mb, l) == <<"clone", mb, l>>
Input(s) == <<"input_cpu", s, 0>>
Ids(s) == <<"ids_cpu", s, 0>>
OutCpu(s) == <<"output_cpu", s, 0>>
OutGpu(s) == <<"output_gpu", s, 0>>
Tensor == {Embedded(mb) : mb \in MB}
            \cup {AttnOut(mb, l) : mb \in MB, l \in 0..(Layers - 1)}
            \cup {Routed(mb, l) : mb \in MB, l \in 0..(Layers - 1)}
            \cup {Cloned(mb, l) : mb \in MB, l \in 0..(Layers - 1)}
            \cup {Input(s) : s \in Slot} \cup {Ids(s) : s \in Slot}
            \cup {OutCpu(s) : s \in Slot} \cup {OutGpu(s) : s \in Slot}

VARIABLES step, i, hpc,    \* decode step, time slot, position in the slot
          hidden,          \* self.hidden_states[mb]: a tensor
          residual,        \* self.residual[mb]: attentions folded into it
          topk,            \* self.topk_ids[mb], topk_weights[mb]: a tensor or Null
          stream,          \* issued operations
          queue, running, waiting, closed,   \* the task queue
          value            \* content of every tensor

fifo == <<queue, running, waiting, closed>>
batch == <<hidden, residual, topk>>
vars == <<step, i, hpc, batch, stream, fifo, value>>

Callback == "stream"
TQ == INSTANCE TaskFifo WITH Client <- {Callback}, Task <- {}, Allow <- {0}

overlap_steps == 2 * Layers - 1

Init == /\ step = 0 /\ i = 0 /\ hpc = "idle"
        /\ hidden = [mb \in MB |-> Embedded(mb)]
        /\ residual = [mb \in MB |-> 0]
        /\ topk = [mb \in MB |-> Null]
        /\ stream = <<>> /\ TQ!Init
        /\ value = [t \in Tensor |-> Null]

-----------------------------------------------------------------------------
(* forward(m0, m1): embed both microbatches, reset the per-step registers. *)
Forward ==
  /\ hpc = "idle" /\ step < Steps
  /\ step' = step + 1 /\ i' = 0 /\ hpc' = "slot"
  /\ hidden' = [mb \in MB |-> Embedded(mb)]
  /\ residual' = [mb \in MB |-> 0]
  /\ topk' = [mb \in MB |-> Null]
  /\ stream' = stream \o <<[op |-> "embed", mb |-> 0, dst |-> Embedded(0)],
                           [op |-> "embed", mb |-> 1, dst |-> Embedded(1)]>>
  /\ UNCHANGED <<fifo, value>>

(* submit_attn: the residual is None exactly at the first layer. *)
Attn(mb, l) == <<[op |-> "attn", mb |-> mb, layer |-> l, src |-> hidden[mb],
                  dst |-> AttnOut(mb, l), route |-> Routed(mb, l),
                  res |-> residual[mb]]>>

(* Mutant of SubmitMoe: the task is entered before its inputs are staged.  *)
SubmitMoeEarly(mb, l) ==
  <<[op |-> "enqueue", mb |-> mb, layer |-> l, src |-> Input(l % buffer_depth),
     ids |-> Ids(l % buffer_depth), dst |-> OutCpu(l % buffer_depth)],
    [op |-> "load", src |-> hidden[mb], ids |-> topk[mb], slot |-> l % buffer_depth]>>

(* submit_moe: submit_forward of layer l.  The stream copies the hidden    *)
(* state and the router's outputs into the slot and enters the task.       *)
SubmitMoe(mb, l) ==
  <<[op |-> "load", src |-> hidden[mb], ids |-> topk[mb], slot |-> l % buffer_depth],
    [op |-> "enqueue", mb |-> mb, layer |-> l, src |-> Input(l % buffer_depth),
     ids |-> Ids(l % buffer_depth), dst |-> OutCpu(l % buffer_depth)]>>

(* sync_moe: sync_forward, then a private copy of the shared output *)
SyncMoe(mb, l) ==
  LET s == l % buffer_depth
  IN <<[op |-> "sync"], [op |-> "copy", src |-> OutCpu(s), dst |-> OutGpu(s)],
       [op |-> "copy", src |-> OutGpu(s), dst |-> Cloned(mb, l)]>>

(* Mutant of SyncedHidden: the shared output is not cloned. *)
SharedHidden(mb, l) == OutGpu(l % buffer_depth)
SyncedHidden(mb, l) == Cloned(mb, l)

-----------------------------------------------------------------------------
(* _run_pipeline, one action per kind of time slot *)
Startup ==
  /\ hpc = "slot" /\ i = 0
  /\ stream' = stream \o Attn(0, 0)
  /\ hidden' = [hidden EXCEPT ![0] = AttnOut(0, 0)]
  /\ residual' = [residual EXCEPT ![0] = @ + 1]
  /\ topk' = [topk EXCEPT ![0] = Routed(0, 0)]
  /\ hpc' = "synchronize"
  /\ UNCHANGED <<step, i, fifo, value>>

OverlapOps(attn_batch, attn_layer, moe_batch, moe_layer) ==
  SubmitMoe(moe_batch, moe_layer) \o Attn(attn_batch, attn_layer)
    \o SyncMoe(moe_batch, moe_layer)

Overlap ==
  LET attn_batch == i % 2
      moe_batch == 1 - attn_batch
      attn_layer == i \div 2
      moe_layer == (i - 1) \div 2
  IN /\ hpc = "slot" /\ i > 0 /\ i <= overlap_steps
     /\ stream' = stream \o OverlapOps(attn_batch, attn_layer, moe_batch, moe_layer)
     /\ hidden' = [hidden EXCEPT ![attn_batch] = AttnOut(attn_batch, attn_layer),
                                 ![moe_batch] = SyncedHidden(moe_batch, moe_layer)]
     /\ residual' = [residual EXCEPT ![attn_batch] = @ + 1]
     /\ topk' = [topk EXCEPT ![attn_batch] = Routed(attn_batch, attn_layer),
                             ![moe_batch] = Null]
     /\ hpc' = "synchronize"
     /\ UNCHANGED <<step, i, fifo, value>>

Drain ==
  /\ hpc = "slot" /\ i = overlap_steps + 1
  /\ stream' = stream \o SubmitMoe(1, Layers - 1) \o SyncMoe(1, Layers - 1)
  /\ hidden' = [hidden EXCEPT ![1] = SyncedHidden(1, Layers - 1)]
  /\ topk' = [topk EXCEPT ![1] = Null]
  /\ hpc' = "synchronize"
  /\ UNCHANGED <<step, i, residual, fifo, value>>

(* self.stream.synchronize() at the end of every slot *)
Synchronize ==
  /\ hpc = "synchronize" /\ stream = <<>>
  /\ i' = i + 1
  /\ hpc' = IF i = overlap_steps + 1 THEN "norm" ELSE "slot"
  /\ UNCHANGED <<step, batch, stream, fifo, value>>

(* The final norm has read both results; the step is over. *)
ReturnNormed ==
  /\ hpc = "norm"
  /\ hpc' = "idle"
  /\ UNCHANGED <<step, i, batch, stream, fifo, value>>

-----------------------------------------------------------------------------
Executing(kind) == stream # <<>> /\ Head(stream).op = kind
Pop == stream' = Tail(stream)

StreamEmbed ==
  /\ Executing("embed") /\ Pop
  /\ value' = [value EXCEPT ![Head(stream).dst] = <<Head(stream).mb, 0>>]
  /\ UNCHANGED <<step, i, hpc, batch, fifo>>

StreamLoad ==
  /\ Executing("load") /\ Pop
  /\ LET o == Head(stream)
     IN value' = [value EXCEPT ![Input(o.slot)] = value[o.src],
                               ![Ids(o.slot)] = value[o.ids]]
  /\ UNCHANGED <<step, i, hpc, batch, fifo>>

StreamCopy ==
  /\ Executing("copy") /\ Pop
  /\ value' = [value EXCEPT ![Head(stream).dst] = value[Head(stream).src]]
  /\ UNCHANGED <<step, i, hpc, batch, fifo>>

StreamAttn ==
  /\ Executing("attn") /\ Pop
  /\ LET o == Head(stream)
         good == value[o.src] = <<o.mb, 2 * o.layer>> /\ o.res = o.layer
         result == IF good THEN <<o.mb, 2 * o.layer + 1>> ELSE Garbage
     IN value' = [value EXCEPT ![o.dst] = result, ![o.route] = result]
  /\ UNCHANGED <<step, i, hpc, batch, fifo>>

StreamEnqueue ==
  /\ Executing("enqueue") /\ Pop
  /\ TQ!Accept(Head(stream))
  /\ UNCHANGED <<step, i, hpc, batch, value>>

StreamSyncCall ==
  /\ Executing("sync")
  /\ TQ!SyncCall(Callback, 0)
  /\ UNCHANGED <<step, i, hpc, batch, stream, value>>

StreamSyncReturn ==
  /\ Executing("sync") /\ Pop
  /\ TQ!SyncReturn(Callback)
  /\ UNCHANGED <<step, i, hpc, batch, value>>

(* The CPU worker runs the experts of one layer for one microbatch. *)
TaskStart ==
  /\ TQ!Start
  /\ UNCHANGED <<step, i, hpc, batch, stream, value>>

TaskFinish ==
  /\ TQ!Finish
  /\ LET attended == <<running.mb, 2 * running.layer + 1>>
         good == value[running.src] = attended /\ value[running.ids] = attended
     IN value' = [value EXCEPT ![running.dst] =
                    IF good THEN <<running.mb, 2 * running.layer + 2>> ELSE Garbage]
  /\ UNCHANGED <<step, i, hpc, batch, stream>>

-----------------------------------------------------------------------------
Finished == hpc = "idle" /\ step = Steps /\ UNCHANGED vars

HostStep == Startup \/ Overlap \/ Drain \/ Synchronize \/ ReturnNormed
StreamStep == \/ StreamEmbed \/ StreamLoad \/ StreamCopy \/ StreamAttn
              \/ StreamEnqueue \/ StreamSyncCall \/ StreamSyncReturn
WorkerStep == TaskStart \/ TaskFinish

Next == Forward \/ HostStep \/ StreamStep \/ WorkerStep \/ Finished

Spec == Init /\ [][Next]_vars

-----------------------------------------------------------------------------
(* When the final norm reads them, both hidden states have been through    *)
(* every attention and every MoE of their own microbatch, in order, and    *)
(* are still there: no buffer shared with the other microbatch has been    *)
(* overwritten underneath them.                                            *)
BothComplete ==
  hpc = "norm" => \A mb \in MB : /\ value[hidden[mb]] = <<mb, 2 * Layers>>
                                 /\ residual[mb] = Layers

(* The hidden state and the routing staged for a MoE task are those of its *)
(* own microbatch and layer for as long as the task waits or runs, although *)
(* the other microbatch is attended and routed meanwhile.                  *)
RoutedInputStable ==
  \A k \in DOMAIN queue :
    LET attended == <<queue[k].mb, 2 * queue[k].layer + 1>>
    IN value[queue[k].src] = attended /\ value[queue[k].ids] = attended
=============================================================================
