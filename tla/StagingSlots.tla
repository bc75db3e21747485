---------------------------- MODULE StagingSlots ----------------------------
(***************************************************************************)
(* What all callers of the wrappers of python/experts_base.py share: the   *)
(* layers of the model, and the slots of KExpertsCPUBuffer, one of which   *)
(* each layer uses, by its number.                                         *)
(***************************************************************************)
EXTENDS Integers

CONSTANT Layers    \* number of MoE layers

ASSUME LayersAssumption == Layers \in Nat \ {0}

(* Mutant of buffer_depth: a single staging slot. *)
SingleBuffer == 1

buffer_depth == 2
Slot == 0..(buffer_depth - 1)
=============================================================================
