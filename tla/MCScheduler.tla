----------------------------- MODULE MCScheduler -----------------------------
(***************************************************************************)
(* A short request of one page and a longer one of two pages and, alone,   *)
(* one prefill chunk (of twice Chunk), or two when it shares the batch.    *)
(***************************************************************************)
EXTENDS Scheduler

ShortAndLong == {[prompt |-> 1, estimated |-> 3], [prompt |-> 2, estimated |-> 6]}
=============================================================================
