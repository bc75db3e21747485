------------------------------ MODULE MCExperts -----------------------------
(* Experts for TLC. *)
EXTENDS Experts, TLC

CONSTANTS small, other, medium, large

(* Two requests of one size and two larger ones *)
SomeSizes == small :> 1 @@ other :> 1 @@ medium :> 2 @@ large :> 3

(* Up to three sub-pools of one or two threads on any nodes, one of which  *)
(* the machine does not have                                               *)
MCNodes == {0, 1}
Numbers == {0, 1, 2}
AnyConfigs == UNION {[map : [1..n -> Numbers], threads : [1..n -> {1, 2}]] : n \in 1..3}

(* Rows of two experts, of one, and of none; expert 1 is on the GPU. *)
SomeRoutes == {<<0, 2>>, <<3, 1>>, <<1, -1>>}
=============================================================================
