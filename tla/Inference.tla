----------------------------- MODULE Inference ------------------------------
(***************************************************************************)
(* The two callers of the MoE wrappers, over layers and staging slots of   *)
(* the same number: forward passes with deferred experts (MoEForward), and *)
(* decode steps of two microbatches (DualBatchRunner).  A process serves   *)
(* requests in one of the two ways, so a behaviour follows one of them;    *)
(* the stream and the queue of the other stay empty.                       *)
(***************************************************************************)
EXTENDS MoEForward

CONSTANT Steps     \* bound on decode steps

VARIABLES caller,  \* the one followed
          step, i, dual_pc, hidden, residual, topk, dual_stream,
          dual_queue, dual_running, dual_waiting, dual_closed, value

Dual == INSTANCE DualBatchRunner
  WITH hpc <- dual_pc, stream <- dual_stream, queue <- dual_queue,
       running <- dual_running, waiting <- dual_waiting, closed <- dual_closed

dual_vars == <<step, i, dual_pc, hidden, residual, topk, dual_stream,
               dual_queue, dual_running, dual_waiting, dual_closed, value>>
all == <<caller, vars, dual_vars>>

Start == caller \in {"forward", "dual"} /\ Init /\ Dual!Init

Step == \/ caller = "forward" /\ Next /\ UNCHANGED <<caller, dual_vars>>
        \/ caller = "dual" /\ Dual!Next /\ UNCHANGED <<caller, vars>>

InferenceSpec == /\ Start /\ [][Step]_all
                 /\ WF_vars(HostStep) /\ WF_vars(StreamStep) /\ WF_vars(WorkerStep)

(* DualBatchRunner: each microbatch ends its step with every attention and *)
(* every MoE of its own behind it (_run_pipeline, sync_moe's clone).       *)
BothComplete == Dual!BothComplete

(* DualBatchRunner: what submit_forward staged for a task stays the hidden *)
(* state and the routing of the task's own microbatch and layer.           *)
RoutedInputStable == Dual!RoutedInputStable
=============================================================================
