------------------------------- MODULE Experts ------------------------------
(***************************************************************************)
(* What carries the experts of one process, from the construction of its   *)
(* pools (WorkerPool) over that of its layers, on an arena that they share *)
(* (SharedMemBuffer), to the passes through them (TPMoE).                  *)
(*                                                                         *)
(* The three share no variable and do not overlap in time: the pools are   *)
(* complete before WorkerPool's constructor returns, and a layer is built  *)
(* by a thread that does not run a pass meanwhile.  A pass assumes nothing *)
(* of what the arena holds.  A behaviour therefore follows one of them,    *)
(* and every interleaving of them is one of these seen piece by piece.     *)
(***************************************************************************)
EXTENDS SharedMemBuffer, WorkerPool, TPMoE

VARIABLE part   \* the one followed

Rest == <<part, vars, poolVars, passVars>>

Start == /\ part \in {"pools", "layers", "pass"}
         /\ PoolInit /\ Init /\ PassInit
         /\ part # "pools" => config = CHOOSE c \in Configs : TRUE

(* The constructor is done, or the bound on layers is reached. *)
Stop == /\ \/ part = "pools" /\ (phase = "ready" \/ outside)
           \/ part = "layers" /\ Len(object_requests) = MaxAllocs
        /\ UNCHANGED Rest

Step == \/ part = "pools" /\ PoolNext /\ UNCHANGED <<part, vars, passVars>>
        \/ part = "layers" /\ Next /\ UNCHANGED <<part, poolVars, passVars>>
        \/ part = "pass" /\ PassNext /\ UNCHANGED <<part, vars, poolVars>>
        \/ Stop

ExpertsSpec == Start /\ [][Step]_Rest
=============================================================================
