----------------------------- MODULE MCDistMoE -----------------------------
(* DistMoE for TLC: lengths in which each rank is empty, short or long in  *)
(* some pass, alone or with others.                                        *)
EXTENDS DistMoE

MixedLengths == {<<1, 2, 0>>, <<0, 1, 2>>, <<2, 0, 1>>, <<0, 0, 1>>, <<1, 0, 0>>}

\* The same with ranks counted from 0.
UnevenLengths == {[r \in 0 .. 2 |-> t[r + 1]] : t \in MixedLengths}
=============================================================================
