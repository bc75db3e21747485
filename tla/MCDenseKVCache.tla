--------------------------- MODULE MCDenseKVCache ---------------------------
(* DenseKVCache for TLC: a block table that mixes the physical blocks of   *)
(* the sequences.                                                          *)
EXTENDS DenseKVCache

MixedTable == [x \in (0..(Batch - 1)) \X (0..(Stride - 1)) |->
                 (Blocks - 1) - (x[1] + Batch * x[2])]

(* A sequence that a decode step takes over a block and a task boundary,   *)
(* and a short one. *)
LongAndShort == {<<0, 4>>, <<1, 1>>}

(* A block in the middle of a task: an import needs it, a decode step does *)
(* not write it, but the attention after it reads it.                      *)
SomeHoles == {<<0, 1>>}
=============================================================================
