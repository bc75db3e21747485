---------------------------- MODULE MCInference -----------------------------
(***************************************************************************)
(* Inference for TLC, with DeferredExperts evaluated on small batches.     *)
(***************************************************************************)
EXTENDS Inference, DeferredExperts

Row == 0..1
TopK == 3
NumExperts == 4
RoutedRows == {ids \in [Choice(TopK) -> 0..(NumExperts - 1)] :
                 \A c, d \in Choice(TopK) : ids[c] = ids[d] => c = d}
RowScores == [Choice(TopK) -> 1..2]

(* Up to the names of the experts, the first row is routed to 0, 1, 2.     *)
(* max_deferred = 4 is more than a row has.                                *)
ASSUME DeferredExpertsOnSmallBatches ==
  \A other \in RoutedRows, scores \in [Row -> RowScores], max_deferred \in {-1, 0, 1, 2, 3, 4} :
    LET ids == [r \in Row |-> IF r = 0 THEN [c \in Choice(TopK) |-> c] ELSE other]
        results == Splits(ids, scores, TopK, max_deferred)
    IN  /\ results # {}
        /\ \A split \in results :
             OneTask(ids, split) /\ BestKept(scores, TopK, max_deferred, split)
=============================================================================
