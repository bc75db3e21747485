------------------------------ MODULE DistMoE ------------------------------
(***************************************************************************)
(* The data-parallel form of the fine-tuning layer: every rank runs the    *)
(* same model on its own tokens, rank 0 alone owns the CPU experts.  A     *)
(* forward all-gathers the ranks' lengths, gathers three tensors of uneven *)
(* length to rank 0, and scatters the experts' output back by offsets; a   *)
(* backward does the same with gradients, under the lengths its forward    *)
(* left in ctx.  Ranks with no tokens take no part in the point-to-point   *)
(* transfers, and no rank waits for another except in these calls.         *)
(*                                                                         *)
(* A row of a tensor is named by its rank, the call it was made in and its *)
(* index.  Transfers between two ranks are matched in the order they were  *)
(* issued, whatever their contents.                                        *)
(***************************************************************************)
EXTENDS Integers, Sequences, FiniteSets, SequencesExt

CONSTANTS
  WorldSize,    \* ranks
  LayerCount,   \* MoE layers
  Lengths       \* bound: the lengths the ranks may have in a pass

ASSUME DistAssumption ==
  /\ WorldSize \in Nat \ {0} /\ LayerCount \in Nat \ {0}
  /\ Lengths \subseteq [0 .. (WorldSize - 1) -> Nat]

Ranks == 0 .. (WorldSize - 1)
MoELayers == 1 .. LayerCount

VARIABLES
  prog,      \* the calls of the model, the same on every rank
  eager,     \* whether the transport buffers a send
  qlen,      \* per pass: the local lengths of the ranks
  at, step,  \* per rank: the call it is in, and the step of the call
  waiting,   \* per rank: it waits for what it has issued
  posted,    \* per rank: lengths it has given to all_gather so far
  known,     \* per rank: all_qlens of the last all_gather
  ctx,       \* per rank and layer: all_qlens kept for the backward
  chan,      \* per pair of ranks: transfers under way
  got,       \* rank 0: rows received in the current gather
  inp,       \* rank 0: tensors gathered in the current call
  cache,     \* rank 0, per layer: input rows of the last saving forward
  res        \* per rank: the result of its last scatter

netVars  == <<chan, got, inp, cache>>
lenVars  == <<posted, known, ctx>>
distVars == <<prog, eager, qlen, at, step, waiting, lenVars, netVars, res>>

Fwd(l, p, save) == [kind |-> "fwd", l |-> l, pass |-> p, save |-> save]
Bwd(l, p)       == [kind |-> "bwd", l |-> l, pass |-> p, save |-> FALSE]

Up(F(_))   == [l \in MoELayers |-> F(l)]
Down(F(_)) == [l \in MoELayers |-> F(LayerCount + 1 - l)]

\* An evaluation pass; a training pass; one under checkpointing, in which
\* each backward first repeats the forward of its layer.
EvalPass(p)  == Up(LAMBDA l : Fwd(l, p, FALSE))
TrainPass(p) == Up(LAMBDA l : Fwd(l, p, TRUE)) \o Down(LAMBDA l : Bwd(l, p))
CheckpointPass(p) ==
  Up(LAMBDA l : Fwd(l, p, FALSE))
    \o FlattenSeq(Down(LAMBDA l : <<Fwd(l, p, TRUE), Bwd(l, p)>>))

\* Two passes, of different lengths.
Programs == {EvalPass(1) \o TrainPass(2), CheckpointPass(1) \o EvalPass(2)}

\* The transfers of a call.
Gathers  == {"hs", "ids", "wts", "go"}
Scatters == {"out", "gi", "gw"}
Steps(kind) == IF kind = "fwd" THEN <<"qlens", "hs", "ids", "wts", "out">>
                               ELSE <<"go", "gi", "gw">>

DistInit ==
  /\ prog \in Programs /\ eager \in BOOLEAN
  /\ qlen \in [1 .. 2 -> Lengths]
  /\ at = [r \in Ranks |-> 1] /\ step = [r \in Ranks |-> 1]
  /\ waiting = [r \in Ranks |-> FALSE]
  /\ posted = [r \in Ranks |-> <<>>]
  /\ known = [r \in Ranks |-> [x \in Ranks |-> 0]]
  /\ ctx = [r \in Ranks |-> [l \in MoELayers |-> [x \in Ranks |-> 0]]]
  /\ chan = [c \in Ranks \X Ranks |-> <<>>]
  /\ got = [r \in {} |-> <<>>]
  /\ inp = [w \in Gathers |-> <<>>]
  /\ cache = [l \in MoELayers |-> <<>>]
  /\ res = [r \in Ranks |-> [at |-> 0, what |-> "none", rows |-> <<>>]]

-----------------------------------------------------------------------------
Active(r) == at[r] <= Len(prog)
Call(r) == prog[at[r]]
What(r) == Steps(Call(r).kind)[step[r]]
Local(r) == qlen[Call(r).pass][r]

\* The rows of rank r's own tensor in the call c.
Rows(r, c, n) == [i \in 1 .. n |-> <<r, c, i>>]

\* The lengths a call goes by: gathered anew, or kept by the forward.
Lens(r) == IF Call(r).kind = "fwd" THEN known[r] ELSE ctx[r][Call(r).l]

\* On to the next step, and from the last one to the next call.  A forward
\* that saves leaves its lengths in ctx.
Advance(r) ==
  LET last == step[r] = Len(Steps(Call(r).kind)) IN
  /\ step' = [step EXCEPT ![r] = IF last THEN 1 ELSE @ + 1]
  /\ at' = [at EXCEPT ![r] = IF last THEN @ + 1 ELSE @]
  /\ waiting' = [waiting EXCEPT ![r] = FALSE]

Stay == UNCHANGED <<prog, eager, qlen>>

\* _all_gather_qlens: a collective, which returns when every rank has come.
PostQlen(r) ==
  /\ Active(r) /\ What(r) = "qlens" /\ ~waiting[r]
  /\ posted' = [posted EXCEPT ![r] = Append(@, Local(r))]
  /\ waiting' = [waiting EXCEPT ![r] = TRUE]
  /\ Stay /\ UNCHANGED <<at, step, known, ctx, netVars, res>>

AwaitQlens(r) ==
  LET k == Len(posted[r]) IN
  /\ Active(r) /\ What(r) = "qlens" /\ waiting[r]
  /\ \A x \in Ranks : Len(posted[x]) >= k
  /\ known' = [known EXCEPT ![r] = [x \in Ranks |-> posted[x][k]]]
  /\ ctx' = [ctx EXCEPT ![r][Call(r).l] = known'[r]]
  /\ Advance(r)
  /\ Stay /\ UNCHANGED <<posted, netVars, res>>

\* Every use of the lengths checks the rank's own first (else it raises).
Checked(r) == Lens(r)[r] = Local(r)

(* Mutant of Sends: a rank sends its empty tensors as well. *)
SendsEmpty(n) == TRUE

(* Mutant of Expects: rank 0 waits for empty tensors as well. *)
ExpectsEmpty(n) == TRUE

\* A tensor of no rows is not transferred: not sent to rank 0, not waited for
\* there, and on the way back not sent and not received.
Sends(n)    == n > 0
Expects(n)  == n > 0
SendsTo(n)  == n > 0
Receives(n) == n > 0

\* _dist_gather_varlen_to_rank0 on the other ranks.
SendRows(r) ==
  /\ Active(r) /\ r /= 0 /\ What(r) \in Gathers /\ Checked(r) /\ ~waiting[r]
  /\ Sends(Lens(r)[r])
  /\ chan' = [chan EXCEPT ![<<r, 0>>] =
                Append(@, [what |-> What(r), rows |-> Rows(r, at[r], Local(r))])]
  /\ waiting' = [waiting EXCEPT ![r] = TRUE]
  /\ Stay /\ UNCHANGED <<at, step, lenVars, got, inp, cache, res>>

\* wait() on the send.
SendWaited(r) ==
  /\ Active(r) /\ r /= 0 /\ What(r) \in Gathers /\ waiting[r]
  /\ eager \/ chan[<<r, 0>>] = <<>>
  /\ Advance(r)
  /\ Stay /\ UNCHANGED <<lenVars, netVars, res>>

\* Nothing to send, or nothing to receive.
SkipTransfer(r) ==
  /\ Active(r) /\ r /= 0 /\ Checked(r) /\ ~waiting[r]
  /\ \/ What(r) \in Gathers /\ ~Sends(Lens(r)[r])
     \/ What(r) \in Scatters /\ ~Receives(Lens(r)[r])
  /\ res' = IF What(r) \in Scatters
              THEN [res EXCEPT ![r] = [at |-> at[r], what |-> What(r), rows |-> <<>>]]
              ELSE res
  /\ Advance(r)
  /\ Stay /\ UNCHANGED <<lenVars, netVars>>

\* ... and on rank 0, which receives from all ranks in one batch.
RecvRows(src) ==
  /\ Active(0) /\ What(0) \in Gathers /\ Checked(0)
  /\ src /= 0 /\ Expects(Lens(0)[src]) /\ src \notin DOMAIN got
  /\ chan[<<src, 0>>] /= <<>>
  /\ got' = [x \in DOMAIN got \cup {src} |->
               IF x = src THEN Head(chan[<<src, 0>>]).rows ELSE got[x]]
  /\ chan' = [chan EXCEPT ![<<src, 0>>] = Tail(@)]
  /\ Stay /\ UNCHANGED <<at, step, waiting, lenVars, inp, cache, res>>

From(src) == IF src \in DOMAIN got THEN got[src] ELSE <<>>

(* Mutant of Cat: rank 0 puts its own tensor last. *)
CatOwnLast(own) ==
  FlattenSeq([k \in 1 .. WorldSize |-> IF k = WorldSize THEN own ELSE From(k)])

\* torch.cat of the ranks' tensors in rank order.
Cat(own) ==
  FlattenSeq([k \in 1 .. WorldSize |-> IF k = 1 THEN own ELSE From(k - 1)])

GatherDone ==
  /\ Active(0) /\ What(0) \in Gathers /\ Checked(0)
  /\ \A src \in Ranks \ {0} : Expects(Lens(0)[src]) => src \in DOMAIN got
  /\ inp' = [inp EXCEPT ![What(0)] = Cat(Rows(0, at[0], Local(0)))]
  /\ got' = [r \in {} |-> <<>>]
  /\ Advance(0)
  /\ Stay /\ UNCHANGED <<lenVars, chan, cache, res>>

-----------------------------------------------------------------------------
(* The experts, on rank 0, and the way back.                               *)

\* forward: each output row comes from one row of each of the three inputs.
Forward == [i \in 1 .. Len(inp["hs"]) |->
              IF inp["hs"][i] = inp["ids"][i] /\ inp["hs"][i] = inp["wts"][i]
                THEN inp["hs"][i] ELSE <<>>]

\* backward: a gradient row belongs to a row of grad_output and to the cached
\* row of the forward.
Backward(l) == [i \in 1 .. Len(inp["go"]) |-> <<inp["go"][i], cache[l][i]>>]

\* _qlen_offsets: the running sums of the lengths, from 0.
Offset(q) ==
  LET off[k \in 0 .. WorldSize] == IF k = 0 THEN 0 ELSE off[k - 1] + q[k - 1]
  IN  off

Chunk(t, q, r) == SubSeq(t, Offset(q)[r] + 1, Offset(q)[r] + q[r])

Result == IF Call(0).kind = "fwd" THEN Forward ELSE Backward(Call(0).l)

\* _dist_scatter_varlen_from_rank0 on rank 0: copies its own chunk and sends
\* the others in one batch.
SendChunks ==
  LET q == Lens(0) IN
  /\ Active(0) /\ What(0) \in Scatters /\ Checked(0) /\ ~waiting[0]
  /\ res' = [res EXCEPT ![0] = [at |-> at[0], what |-> What(0),
                                rows |-> Chunk(Result, q, 0)]]
  /\ chan' = [c \in Ranks \X Ranks |->
                IF c[1] = 0 /\ c[2] /= 0 /\ SendsTo(q[c[2]])
                  THEN Append(chan[c], [what |-> What(0),
                                        rows |-> Chunk(Result, q, c[2])])
                  ELSE chan[c]]
  /\ cache' = IF Call(0).save THEN [cache EXCEPT ![Call(0).l] = Forward]
                              ELSE cache
  /\ waiting' = [waiting EXCEPT ![0] = TRUE]
  /\ Stay /\ UNCHANGED <<at, step, lenVars, got, inp>>

ChunksWaited ==
  /\ Active(0) /\ What(0) \in Scatters /\ waiting[0]
  /\ eager \/ \A r \in Ranks : chan[<<0, r>>] = <<>>
  /\ Advance(0)
  /\ Stay /\ UNCHANGED <<lenVars, netVars, res>>

\* ... and on the other ranks.
RecvChunk(r) ==
  /\ Active(r) /\ r /= 0 /\ What(r) \in Scatters /\ Checked(r)
  /\ Receives(Lens(r)[r])
  /\ chan[<<0, r>>] /= <<>>
  /\ res' = [res EXCEPT ![r] = [at |-> at[r], what |-> What(r),
                                rows |-> Head(chan[<<0, r>>]).rows]]
  /\ chan' = [chan EXCEPT ![<<0, r>>] = Tail(@)]
  /\ Advance(r)
  /\ Stay /\ UNCHANGED <<lenVars, got, inp, cache>>

Rank0Step == GatherDone \/ SendChunks \/ ChunksWaited
               \/ \E src \in Ranks : RecvRows(src)
RankStep(r) == PostQlen(r) \/ AwaitQlens(r) \/ SendRows(r) \/ SendWaited(r)
                 \/ SkipTransfer(r) \/ RecvChunk(r) \/ (r = 0 /\ Rank0Step)

DistNext == \E r \in Ranks : RankStep(r)

DistSpec == DistInit /\ [][DistNext]_distVars

\* Every rank's process runs; the transport delivers what was sent.
FairDistSpec == DistSpec /\ \A r \in Ranks : WF_distVars(RankStep(r))

-----------------------------------------------------------------------------
(* Properties.                                                             *)

\* A transfer is received as the tensor it was sent as, and with the number
\* of rows the receiver made room for.
Matched ==
  \A r \in Ranks \ {0} :
    /\ LET m == chan[<<0, r>>] IN
       m /= <<>> /\ Active(r) /\ What(r) \in Scatters =>
         Head(m).what = What(r) /\ Len(Head(m).rows) = Lens(r)[r]
    /\ LET m == chan[<<r, 0>>] IN
       m /= <<>> /\ Active(0) /\ What(0) \in Gathers /\ r \notin DOMAIN got =>
         Head(m).what = What(0) /\ Len(Head(m).rows) = Lens(0)[r]

\* The call whose saved input the backward k of a layer goes by.
SavedBy(k) == CHOOSE j \in 1 .. (k - 1) :
                /\ prog[j].save /\ prog[j].l = prog[k].l
                /\ prog[j].pass = prog[k].pass

\* What comes back to a rank belongs to its own tokens, in their order, and
\* to the call it was in; a gradient, to the activations of its own forward.
OwnRows ==
  \A r \in Ranks : res[r].what /= "none" =>
    LET k == res[r].at
        n == qlen[prog[k].pass][r] IN
    res[r].rows =
      [i \in 1 .. n |-> IF prog[k].kind = "fwd" THEN <<r, k, i>>
                        ELSE <<<<r, k, i>>, <<r, SavedBy(k), i>>>>]

\* Every rank gets through its program, whatever the others' lengths are and
\* whether or not a send waits for its receiver.
RanksFinish == <>(\A r \in Ranks : ~Active(r))

=============================================================================
