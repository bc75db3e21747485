--------------------------- MODULE CachedAttention ---------------------------
(***************************************************************************)
(* What dense::KVCache (operators/dense_kvcache/dense_kvcache.h) promises  *)
(* its caller: tokens are appended to sequences, and an attention call     *)
(* either answers, for every query head, with the softmax over each token  *)
(* of its sequence exactly once, or refuses and leaves the output buffer   *)
(* as it was.  A result is the bag of the tokens that have entered it.     *)
(* DenseKVCache implements this specification.                             *)
(***************************************************************************)
EXTENDS Integers, Bags

CONSTANTS Batch, KVHeads, GQA, MaxLen

Sequence == 0..(Batch - 1)
QueryHead == 0..(KVHeads * GQA - 1)

VARIABLES len,     \* tokens cached of each sequence
          busy,    \* a call is in progress
          answer   \* the caller's output buffer

vars == <<len, busy, answer>>

Whole(b, q) == SetToBag({<<b, q \div GQA, p>> : p \in 0..(len[b] - 1)})

Init == /\ len = [b \in Sequence |-> 0]
        /\ busy = FALSE
        /\ answer = [b \in Sequence |-> [q \in QueryHead |-> EmptyBag]]

Call == ~busy /\ busy' = TRUE /\ UNCHANGED <<len, answer>>

(* The tokens of a call become visible all at once, by the length. *)
Append == /\ busy
          /\ \E S \in SUBSET Sequence, n \in 1..MaxLen :
               /\ \A b \in S : len[b] + n <= MaxLen
               /\ len' = [b \in Sequence |-> IF b \in S THEN len[b] + n ELSE len[b]]
          /\ busy' \in BOOLEAN
          /\ UNCHANGED answer

Answer == /\ busy /\ busy' = FALSE
          /\ \E n \in 0..Batch :
               answer' = [b \in Sequence |->
                            IF b < n THEN [q \in QueryHead |-> Whole(b, q)]
                            ELSE answer[b]]
          /\ UNCHANGED len

Refuse == busy /\ busy' = FALSE /\ UNCHANGED <<len, answer>>

Next == Call \/ Append \/ Answer \/ Refuse

Spec == Init /\ [][Next]_vars
=============================================================================
