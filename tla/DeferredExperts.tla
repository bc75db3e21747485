--------------------------- MODULE DeferredExperts ---------------------------
(***************************************************************************)
(* python/experts_base.py: which of the experts a batch is routed to a     *)
(* layer computes at once and which it defers (submit_forward, with        *)
(* select_deferred_experts).  MoEForward leaves this choice open.          *)
(*                                                                         *)
(* ids[r][c] is the expert in place c of row (token) r, scores[r][c] its   *)
(* routing weight.  The experts to keep are found row by row but marked in *)
(* one flag per expert for the whole batch: an expert that any row         *)
(* protects is kept for all of them.                                       *)
(***************************************************************************)
EXTENDS Integers, FiniteSets

Choice(topk) == 0..(topk - 1)
Absent == -1                       \* no expert in this place
NoIds(ids) == [r \in DOMAIN ids |-> [c \in DOMAIN ids[r] |-> Absent]]

AtMost(n, m) == IF n < m THEN n ELSE m
AtLeast(n, m) == IF n > m THEN n ELSE m
ProtectedK(topk, max_deferred) == AtLeast(0, AtMost(topk - max_deferred, topk))

(* torch.topk: k places with the highest scores, any of them among equals. *)
TopPlaces(scores, k) ==
  {P \in SUBSET DOMAIN scores :
     /\ Cardinality(P) = k
     /\ \A c \in P, d \in DOMAIN scores \ P : scores[c] >= scores[d]}

(* protected_flag has no row: it holds what the rows have set together.    *)
ProtectedFlag(ids, top) == UNION {{ids[r][c] : c \in top[r]} : r \in DOMAIN ids}

MaskFill(ids, experts) ==
  [r \in DOMAIN ids |-> [c \in DOMAIN ids[r] |->
     IF ids[r][c] \in experts THEN Absent ELSE ids[r][c]]]
Named(ids) == UNION {{ids[r][c] : c \in DOMAIN ids[r]} : r \in DOMAIN ids}

(* The results the call can have, one for each way to break ties.          *)
SelectDeferredExperts(ids, scores, k) ==
  IF k = 0
  THEN {[immediate |-> NoIds(ids), deferred |-> ids]}
  ELSE {[immediate |-> MaskFill(ids, Named(ids) \ ProtectedFlag(ids, top)),
         deferred  |-> MaskFill(ids, ProtectedFlag(ids, top))] :
          top \in {t \in [DOMAIN ids -> SUBSET UNION {DOMAIN ids[r] : r \in DOMAIN ids}] :
                     \A r \in DOMAIN ids : t[r] \in TopPlaces(scores[r], k)}}

(* A layer that does not defer has no second list.                         *)
Splits(ids, scores, topk, max_deferred) ==
  IF max_deferred > 0
  THEN SelectDeferredExperts(ids, scores, ProtectedK(topk, max_deferred))
  ELSE {[immediate |-> ids, deferred |-> NoIds(ids)]}

-----------------------------------------------------------------------------
(* The immediate and the deferred task of a layer share out the experts of *)
(* the batch: every place is in the list of exactly one of them, and no    *)
(* expert is computed by both, whichever rows it is chosen in.             *)
OneTask(ids, split) ==
  /\ \A r \in DOMAIN ids : \A c \in DOMAIN ids[r] :
       {split.immediate[r][c], split.deferred[r][c]} = {ids[r][c], Absent}
  /\ Named(split.immediate) \cap Named(split.deferred) \subseteq {Absent}

(* No row has more experts deferred than the layer may defer, and each row *)
(* keeps topk - max_deferred experts at once that score at least as high   *)
(* as any it defers, though other rows have a say in what it keeps.        *)
DeferredIn(split, r) == {c \in DOMAIN split.deferred[r] : split.deferred[r][c] # Absent}
BestKept(scores, topk, max_deferred, split) ==
  \A r \in DOMAIN scores :
    /\ Cardinality(DeferredIn(split, r)) <= AtLeast(0, max_deferred)
    /\ \E P \in SUBSET (DOMAIN scores[r] \ DeferredIn(split, r)) :
         /\ Cardinality(P) = ProtectedK(topk, max_deferred)
         /\ \A c \in P, d \in DeferredIn(split, r) : scores[r][c] >= scores[r][d]
=============================================================================
