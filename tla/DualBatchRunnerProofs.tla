------------------------ MODULE DualBatchRunnerProofs -----------------------
(***************************************************************************)
(* Machine-checked theorems about DualBatchRunner, for every number of     *)
(* layers and of decode steps.                                             *)
(*                                                                         *)
(* The argument: what each microbatch has been through (Depth) and where   *)
(* the result is (At) are functions of the time slot, and what the stream  *)
(* has still to do is a suffix of the operations of the current slot.      *)
(***************************************************************************)
EXTENDS DualBatchRunner, TLAPS

Last == 2 * Layers

(* Sublayers microbatch mb has been through after n slots, and the tensor  *)
(* that holds its hidden state after d sublayers                           *)
Depth(mb, n) == IF mb = 0 THEN (IF n <= Last THEN n ELSE Last)
                          ELSE (IF n = 0 THEN 0 ELSE n - 1)
At(mb, d) == IF d = 0 THEN Embedded(mb)
             ELSE IF d % 2 = 1 THEN AttnOut(mb, d \div 2)
             ELSE Cloned(mb, d \div 2 - 1)

(* The microbatch and the layer whose attention slot n issues, and those   *)
(* of its MoE                                                              *)
A(n) == n % 2
AL(n) == n \div 2
M(n) == 1 - (n % 2)
ML(n) == (n - 1) \div 2

(* The operations of slot n, by stage; the drain has no attention, and     *)
(* slot 0 has nothing but one, after the embedding.                        *)
EmbedOp(mb) == [op |-> "embed", mb |-> mb, dst |-> Embedded(mb)]
AttnOp(n) == [op |-> "attn", mb |-> A(n), layer |-> AL(n), src |-> At(A(n), 2 * AL(n)),
              dst |-> AttnOut(A(n), AL(n)), route |-> Routed(A(n), AL(n)), res |-> AL(n)]
LoadOp(n) == [op |-> "load", src |-> AttnOut(M(n), ML(n)), ids |-> Routed(M(n), ML(n)),
              slot |-> ML(n) % buffer_depth]
MoeTask(n) == [op |-> "enqueue", mb |-> M(n), layer |-> ML(n),
               src |-> Input(ML(n) % buffer_depth), ids |-> Ids(ML(n) % buffer_depth),
               dst |-> OutCpu(ML(n) % buffer_depth)]
CopyOp(from, to) == [op |-> "copy", src |-> from, dst |-> to]
SyncOp == [op |-> "sync"]

StageOp(n, s) ==
  IF s = 1 THEN LoadOp(n)
  ELSE IF s = 2 THEN MoeTask(n)
  ELSE IF s = 3 THEN AttnOp(n)
  ELSE IF s = 4 THEN SyncOp
  ELSE IF s = 5 THEN CopyOp(OutCpu(ML(n) % buffer_depth), OutGpu(ML(n) % buffer_depth))
  ELSE CopyOp(OutGpu(ML(n) % buffer_depth), Cloned(M(n), ML(n)))
Stage(n, p) == IF n = Last /\ p >= 3 THEN p + 1 ELSE p
OpAt(n, p) == IF n > 0 THEN StageOp(n, Stage(n, p))
              ELSE IF p = 1 THEN EmbedOp(0)
              ELSE IF p = 2 THEN EmbedOp(1)
              ELSE AttnOp(0)
AnOp == {OpAt(n, p) : n \in 0..Last, p \in 1..6}

(* Operations issued in the current slot so far, and how many are executed *)
Issued == IF hpc = "synchronize"
            THEN (IF i = 0 THEN 3 ELSE IF i = Last THEN 5 ELSE 6)
            ELSE (IF hpc = "slot" /\ i = 0 THEN 2 ELSE 0)
Done == Issued - Len(stream)
InMoe == hpc = "synchronize" /\ i > 0

TypeInv ==
  /\ hpc \in {"idle", "slot", "synchronize", "norm"}
  /\ i \in 0..(Last + 1)
  /\ hpc \in {"slot", "synchronize"} => i <= Last
  /\ hpc = "norm" => i = Last + 1
  /\ DOMAIN value = Tensor
  /\ DOMAIN hidden = MB /\ DOMAIN residual = MB /\ DOMAIN topk = MB
  /\ stream \in Seq(AnOp) /\ queue \in Seq(AnOp)
  /\ waiting \in [{Callback} -> {Null, 0}] /\ closed = FALSE

(* The registers are those after the slots issued so far. *)
Registers(n) ==
  \A mb \in MB : LET d == Depth(mb, n) IN
    /\ hidden[mb] = At(mb, d)
    /\ residual[mb] = (d + 1) \div 2
    /\ d % 2 = 1 => topk[mb] = Routed(mb, d \div 2)
RegisterInv == /\ hpc \in {"slot", "norm"} => Registers(i)
               /\ hpc = "synchronize" => Registers(i + 1)

StreamInv ==
  /\ Len(stream) <= Issued
  /\ \A j \in 1..Len(stream) : stream[j] = OpAt(i, Done + j)

(* What is where, before the slot is issued and while it is executed *)
Settled ==
  \A mb \in MB : LET d == Depth(mb, i) IN
    /\ value[At(mb, d)] = <<mb, d>>
    /\ d % 2 = 1 => value[Routed(mb, d \div 2)] = <<mb, d>>

StartContent ==
  /\ Done >= 1 => value[Embedded(0)] = <<0, 0>>
  /\ Done >= 2 => value[Embedded(1)] = <<1, 0>>
  /\ Done >= 3 => value[AttnOut(0, 0)] = <<0, 1>> /\ value[Routed(0, 0)] = <<0, 1>>

Attended(n) ==
  n < Last => /\ value[AttnOut(A(n), AL(n))] = <<A(n), 2 * AL(n) + 1>>
              /\ value[Routed(A(n), AL(n))] = <<A(n), 2 * AL(n) + 1>>
Staged(n) ==
  /\ value[Input(ML(n) % buffer_depth)] = <<M(n), 2 * ML(n) + 1>>
  /\ value[Ids(ML(n) % buffer_depth)] = <<M(n), 2 * ML(n) + 1>>

MoeContent ==
  LET s == Stage(i, Done)
      m == M(i)
      l == ML(i)
  IN /\ s >= 1 => Staged(i)
     /\ s \in {2, 3} => \/ queue = <<MoeTask(i)>>
                        \/ queue = <<>> /\ value[OutCpu(l % buffer_depth)] = <<m, 2 * l + 2>>
     /\ s >= 3 => Attended(i)
     /\ s >= 4 => value[OutCpu(l % buffer_depth)] = <<m, 2 * l + 2>>
     /\ s >= 5 => value[OutGpu(l % buffer_depth)] = <<m, 2 * l + 2>>
     /\ s >= 6 => value[Cloned(m, l)] = <<m, 2 * l + 2>>

ContentInv ==
  /\ hpc \in {"slot", "synchronize", "norm"} /\ i > 0 => Settled
  /\ hpc \in {"slot", "synchronize"} /\ i = 0 => StartContent
  /\ InMoe => MoeContent
  /\ ~(InMoe /\ Stage(i, Done) \in {2, 3}) => queue = <<>>

IInv == TypeInv /\ RegisterInv /\ StreamInv /\ ContentInv
-----------------------------------------------------------------------------
(* Slots, stages and tensors *)

LEMMA SlotArith ==
  ASSUME NEW n \in 1..Last
  PROVE  /\ A(n) \in MB /\ M(n) \in MB /\ A(n) # M(n)
         /\ AL(n) \in 0..Layers /\ (n < Last => AL(n) \in 0..(Layers - 1))
         /\ ML(n) \in 0..(Layers - 1)
         /\ ML(n) % buffer_depth \in Slot
         /\ Depth(A(n), n) = 2 * AL(n)
         /\ Depth(M(n), n) = 2 * ML(n) + 1
         /\ (n < Last => Depth(A(n), n + 1) = 2 * AL(n) + 1)
         /\ (n = Last => Depth(A(n), n + 1) = 2 * AL(n) /\ M(n) = 1 /\ A(n) = 0)
         /\ Depth(M(n), n + 1) = 2 * ML(n) + 2
<1> USE LayersAssumption DEF Last
<1>1. n = 2 * (n \div 2) + (n % 2) /\ n % 2 \in {0, 1} /\ n \div 2 \in Nat
  OBVIOUS
<1>2. CASE n % 2 = 0
  <2>1. (n - 1) \div 2 = n \div 2 - 1
    BY <1>1, <1>2
  <2>2. QED BY <1>1, <1>2, <2>1 DEF A, M, AL, ML, Depth, MB, Slot, buffer_depth
<1>3. CASE n % 2 = 1
  <2>1. (n - 1) \div 2 = n \div 2
    BY <1>1, <1>3
  <2>2. QED BY <1>1, <1>3, <2>1 DEF A, M, AL, ML, Depth, MB, Slot, buffer_depth
<1>4. QED BY <1>1, <1>2, <1>3

LEMMA AtDepth ==
  ASSUME NEW mb, NEW l \in Nat
  PROVE  /\ At(mb, 2 * l + 1) = AttnOut(mb, l)
         /\ At(mb, 2 * l + 2) = Cloned(mb, l)
         /\ At(mb, 0) = Embedded(mb)
         /\ (2 * l + 1) % 2 = 1 /\ (2 * l) % 2 = 0
         /\ (2 * l + 1) \div 2 = l /\ (2 * l + 2) \div 2 = l + 1 /\ (2 * l) \div 2 = l
BY DEF At

LEMMA InTensor ==
  ASSUME NEW mb \in MB, NEW l \in 0..(Layers - 1), NEW s \in Slot
  PROVE  {Embedded(mb), AttnOut(mb, l), Routed(mb, l), Cloned(mb, l), Input(s), Ids(s),
          OutCpu(s), OutGpu(s)} \subseteq Tensor
BY DEF Tensor

LEMMA Distinct ==
  ASSUME NEW mb, NEW mb2, NEW l, NEW l2, NEW s, NEW s2
  PROVE  /\ Embedded(mb) \notin {AttnOut(mb2, l), Routed(mb2, l), Cloned(mb2, l), Input(s),
                                 Ids(s), OutCpu(s), OutGpu(s)}
         /\ AttnOut(mb, l) \notin {Routed(mb2, l2), Cloned(mb2, l2), Input(s), Ids(s),
                                   OutCpu(s), OutGpu(s)}
         /\ Routed(mb, l) \notin {Cloned(mb2, l2), Input(s), Ids(s), OutCpu(s), OutGpu(s)}
         /\ Cloned(mb, l) \notin {Input(s), Ids(s), OutCpu(s), OutGpu(s)}
         /\ Input(s) \notin {Ids(s2), OutCpu(s2), OutGpu(s2)}
         /\ Ids(s) \notin {OutCpu(s2), OutGpu(s2)}
         /\ OutCpu(s) # OutGpu(s2)
         /\ Embedded(mb) = Embedded(mb2) <=> mb = mb2
         /\ AttnOut(mb, l) = AttnOut(mb2, l2) <=> mb = mb2 /\ l = l2
         /\ Routed(mb, l) = Routed(mb2, l2) <=> mb = mb2 /\ l = l2
         /\ Cloned(mb, l) = Cloned(mb2, l2) <=> mb = mb2 /\ l = l2
BY DEF Embedded, AttnOut, Routed, Cloned, Input, Ids, OutCpu, OutGpu

LEMMA AttnTensor ==
  ASSUME NEW n \in 1..Last, n < Last
  PROVE  AttnOut(A(n), AL(n)) \in Tensor /\ Routed(A(n), AL(n)) \in Tensor
BY SlotArith DEF Tensor

(* Neither of the hidden states a slot starts from is written in it. *)
LEMMA SettledTensors ==
  ASSUME NEW n \in 1..Last
  PROVE  /\ At(M(n), Depth(M(n), n)) = AttnOut(M(n), ML(n))
         /\ At(A(n), Depth(A(n), n)) \in Tensor
         /\ \A l, s : At(A(n), Depth(A(n), n)) \notin
                        {AttnOut(A(n), l), Routed(A(n), l), Cloned(M(n), l), Input(s), Ids(s),
                         OutCpu(s), OutGpu(s)}
<1>1. /\ A(n) \in MB /\ M(n) \in MB /\ A(n) # M(n) /\ ML(n) \in 0..(Layers - 1)
      /\ AL(n) \in 0..Layers
      /\ Depth(A(n), n) = 2 * AL(n) /\ Depth(M(n), n) = 2 * ML(n) + 1
  BY SlotArith
<1>2. At(M(n), Depth(M(n), n)) = AttnOut(M(n), ML(n))
  BY <1>1, AtDepth, LayersAssumption
<1>3. CASE AL(n) = 0
  <2>1. At(A(n), Depth(A(n), n)) = Embedded(A(n))
    BY <1>1, <1>3 DEF At
  <2>2. Embedded(A(n)) \in Tensor
    BY <1>1 DEF Tensor
  <2>3. QED BY <1>2, <2>1, <2>2, Distinct
<1>4. CASE AL(n) # 0
  <2>1. AL(n) - 1 \in 0..(Layers - 1) /\ 2 * AL(n) = 2 * (AL(n) - 1) + 2
    BY <1>1, <1>4, LayersAssumption
  <2>2. At(A(n), Depth(A(n), n)) = Cloned(A(n), AL(n) - 1)
    BY <1>1, <2>1, AtDepth
  <2>3. Cloned(A(n), AL(n) - 1) \in Tensor
    BY <1>1, <2>1 DEF Tensor
  <2>4. A(n) # M(n)
    BY <1>1
  <2>5. \A l, s : Cloned(A(n), AL(n) - 1) \notin
           {AttnOut(A(n), l), Routed(A(n), l), Cloned(M(n), l), Input(s), Ids(s),
            OutCpu(s), OutGpu(s)}
    BY <2>4, Distinct
  <2>6. QED BY <1>2, <2>2, <2>3, <2>5
<1>5. QED BY <1>3, <1>4

(* Which operations are of which kind *)
LEMMA Kinds ==
  ASSUME NEW n \in 0..Last, NEW p \in 1..6, n = Last => p <= 5
  PROVE  LET o == OpAt(n, p)  s == Stage(n, p) IN
         /\ o.op = "embed" => n = 0 /\ p \in {1, 2} /\ o = EmbedOp(p - 1)
         /\ o.op = "attn" => /\ n = 0 => p >= 3 /\ o = AttnOp(0)
                             /\ n > 0 => s = 3 /\ n < Last /\ o = AttnOp(n)
         /\ o.op = "load" => n > 0 /\ s = 1 /\ o = LoadOp(n)
         /\ o.op = "copy" => n > 0 /\ s \in {5, 6} /\ o = StageOp(n, s)
         /\ o.op = "enqueue" => n > 0 /\ s = 2 /\ o = MoeTask(n)
         /\ o.op = "sync" => n > 0 /\ s = 4
<1> USE LayersAssumption DEF Last
<1>1. CASE n = 0
  BY <1>1 DEF OpAt, EmbedOp, AttnOp
<1>2. CASE n > 0
  <2>1. OpAt(n, p) = StageOp(n, Stage(n, p)) /\ Stage(n, p) \in 1..6
        /\ (Stage(n, p) = 3 => n < Last)
    BY <1>2 DEF OpAt, Stage
  <2>2. QED BY <1>2, <2>1 DEF StageOp, LoadOp, CopyOp, MoeTask, AttnOp, SyncOp
<1>3. QED BY <1>1, <1>2

LEMMA IssuedBound ==
  ASSUME TypeInv, StreamInv
  PROVE  /\ Issued \in 0..6 /\ Done \in 0..Issued /\ Len(stream) \in 0..Issued
         /\ Done = Issued - Len(stream)
         /\ hpc = "synchronize" /\ i = Last => Issued = 5
         /\ hpc = "slot" /\ i = 0 => Issued = 2
         /\ hpc = "synchronize" /\ i = 0 => Issued = 3
         /\ hpc = "synchronize" /\ i \in 1..(Last - 1) => Issued = 6
         /\ (hpc \in {"idle", "norm"} \/ (hpc = "slot" /\ i > 0)) => Issued = 0
         /\ stream = <<>> <=> Len(stream) = 0
<1>1. Len(stream) \in Nat /\ (stream = <<>> <=> Len(stream) = 0)
  BY DEF TypeInv
<1>2. QED BY <1>1, LayersAssumption DEF TypeInv, StreamInv, Issued, Done, Last

LEMMA InAnOp == \A n \in 0..Last, p \in 1..6 : OpAt(n, p) \in AnOp
BY DEF AnOp

LEMMA PairSeq ==
  ASSUME NEW S, NEW a \in S, NEW b \in S
  PROVE  <<a, b>> \in Seq(S) /\ Len(<<a, b>>) = 2
OBVIOUS

LEMMA AppendFacts ==
  ASSUME NEW S, NEW q \in Seq(S), NEW a \in S, NEW r, r = q \o <<a>>
  PROVE  /\ r \in Seq(S) /\ Len(r) = Len(q) + 1 /\ r[Len(q) + 1] = a
         /\ \A j \in 1..Len(q) : r[j] = q[j]
OBVIOUS

LEMMA TailFacts ==
  ASSUME NEW S, NEW q \in Seq(S), q # <<>>
  PROVE  /\ Len(q) \in Nat \ {0} /\ Len(Tail(q)) = Len(q) - 1
         /\ Tail(q) \in Seq(S)
         /\ \A j \in 1..(Len(q) - 1) : Tail(q)[j] = q[j + 1]
         /\ Head(q) = q[1]
OBVIOUS

(* The stream executes the next operation of the slot. *)
LEMMA PopOp ==
  ASSUME TypeInv, StreamInv, stream # <<>>, Pop, UNCHANGED <<hpc, i>>
  PROVE  /\ stream' \in Seq(AnOp) /\ StreamInv' /\ Done' = Done + 1 /\ Issued' = Issued
         /\ Done + 1 \in 1..Issued /\ Done + 1 \in 1..6 /\ Done \in 0..5
         /\ Head(stream) = OpAt(i, Done + 1)
         /\ i \in 0..Last /\ (i = Last => Done + 1 <= 5)
         /\ i > 0 => InMoe
<1>1. /\ Len(stream) \in Nat \ {0} /\ Len(stream') = Len(stream) - 1
      /\ stream' \in Seq(AnOp)
      /\ \A j \in 1..Len(stream') : stream'[j] = stream[j + 1]
      /\ Head(stream) = stream[1]
  <2>1. stream \in Seq(AnOp) /\ stream # <<>> /\ stream' = Tail(stream)
    BY DEF TypeInv, Pop
  <2>2. QED BY <2>1, TailFacts
<1>2. Issued' = Issued /\ Done' = Done + 1
  BY <1>1, IssuedBound DEF Issued, Done
<1>3. /\ Done + 1 \in 1..Issued /\ Issued \in 1..6
      /\ hpc = "synchronize" \/ (hpc = "slot" /\ i = 0)
      /\ i \in 0..Last /\ (i = Last => Done + 1 <= 5)
  <2>1. Issued \in 1..6 /\ Done + 1 \in 1..Issued
    BY <1>1, IssuedBound
  <2>2. Issued # 0 => hpc \notin {"idle", "norm"} /\ ~(hpc = "slot" /\ i > 0)
    BY IssuedBound
  <2>3. /\ hpc \in {"slot", "synchronize"} /\ i \in 0..Last
    BY <2>1, <2>2, LayersAssumption DEF TypeInv, Last
  <2>4. hpc = "synchronize" \/ (hpc = "slot" /\ i = 0)
    BY <2>1, <2>2, <2>3, LayersAssumption DEF Last
  <2>5. i = Last => Issued = 5
    BY <2>4, IssuedBound, LayersAssumption DEF Last
  <2>6. QED BY <2>1, <2>3, <2>4, <2>5
<1>4. Head(stream) = OpAt(i, Done + 1)
  BY <1>1, <1>3 DEF StreamInv
<1>5. StreamInv'
  BY <1>1, <1>2, <1>3, IssuedBound DEF StreamInv
<1>6. Done + 1 \in 1..6 /\ Done \in 0..5
  BY <1>3, IssuedBound
<1>7. QED BY <1>1, <1>2, <1>3, <1>4, <1>5, <1>6 DEF InMoe

(* A step that executes nothing and issues nothing *)
LEMMA SameStream ==
  ASSUME UNCHANGED <<stream, hpc, i>>
  PROVE  /\ StreamInv <=> StreamInv'
         /\ Done' = Done /\ Issued' = Issued /\ InMoe' = InMoe
<1>1. Done' = Done /\ Issued' = Issued /\ InMoe' = InMoe
  BY DEF Done, Issued, InMoe
<1>2. QED BY <1>1 DEF StreamInv

Written(n) == {AttnOut(A(n), AL(n)), Routed(A(n), AL(n)), Cloned(M(n), ML(n)),
               Input(ML(n) % buffer_depth), Ids(ML(n) % buffer_depth),
               OutCpu(ML(n) % buffer_depth), OutGpu(ML(n) % buffer_depth)}

LEMMA SettledKept ==
  ASSUME i \in 1..Last, Settled, i' = i,
         \A t \in Tensor \ Written(i) : value'[t] = value[t]
  PROVE  Settled'
<1>1. /\ A(i) \in MB /\ M(i) \in MB /\ A(i) # M(i) /\ ML(i) \in 0..(Layers - 1)
      /\ AL(i) \in Nat /\ ML(i) \in Nat
      /\ Depth(A(i), i) = 2 * AL(i) /\ Depth(M(i), i) = 2 * ML(i) + 1
  BY SlotArith, LayersAssumption
<1>2. {AttnOut(M(i), ML(i)), Routed(M(i), ML(i))} \subseteq Tensor \ Written(i)
  <2>1. {AttnOut(M(i), ML(i)), Routed(M(i), ML(i))} \subseteq Tensor
    BY <1>1 DEF Tensor
  <2>2. QED BY <1>1, <2>1, Distinct DEF Written
<1>3. /\ At(M(i), Depth(M(i), i)) \in Tensor \ Written(i)
      /\ Routed(M(i), Depth(M(i), i) \div 2) \in Tensor \ Written(i)
  BY <1>1, <1>2, SettledTensors, AtDepth
<1>4. At(A(i), Depth(A(i), i)) \in Tensor \ Written(i) /\ Depth(A(i), i) % 2 = 0
  BY <1>1, SettledTensors, AtDepth DEF Written
<1>5. \A mb \in MB : mb = A(i) \/ mb = M(i)
  BY <1>1 DEF MB
<1>6. \A mb \in MB : LET d == Depth(mb, i) IN
        /\ value'[At(mb, d)] = <<mb, d>>
        /\ d % 2 = 1 => value'[Routed(mb, d \div 2)] = <<mb, d>>
  BY <1>1, <1>3, <1>4, <1>5 DEF Settled
<1>7. QED BY <1>6 DEF Settled

-----------------------------------------------------------------------------
LEMMA InvInit == Init => IInv
<1> SUFFICES ASSUME Init PROVE IInv
  OBVIOUS
<1> USE LayersAssumption DEF Init
<1>1. TypeInv
  BY DEF TypeInv, TQ!Init, Last
<1>2. Issued = 0 /\ Len(stream) = 0 /\ ~InMoe
  BY DEF Issued, InMoe
<1>3. QED BY <1>1, <1>2 DEF IInv, RegisterInv, StreamInv, ContentInv, TQ!Init

(* The host issues operations. *)
LEMMA ForwardInv == ASSUME IInv, Forward PROVE IInv'
<1> USE LayersAssumption DEF IInv, Forward
<1>1. stream = <<>> /\ queue = <<>>
  <2>1. stream = <<>>
    BY IssuedBound
  <2>2. QED BY <2>1 DEF ContentInv, InMoe
<1>2. /\ stream' = <<EmbedOp(0), EmbedOp(1)>>
  BY <1>1 DEF EmbedOp
<1>3. EmbedOp(0) = OpAt(0, 1) /\ EmbedOp(1) = OpAt(0, 2)
  BY DEF OpAt
<1>4. stream' \in Seq(AnOp) /\ Len(stream') = 2
  <2>1. EmbedOp(0) \in AnOp /\ EmbedOp(1) \in AnOp
    BY <1>3, InAnOp DEF Last
  <2>2. QED BY <1>2, <2>1, PairSeq
<1>5. Issued' = 2 /\ Done' = 0 /\ ~InMoe'
  BY <1>4 DEF Issued, Done, InMoe
<1>6. TypeInv'
  BY <1>4 DEF TypeInv, Last, MB, fifo
<1>7. RegisterInv'
  <2>1. \A mb \in MB : Depth(mb, 0) = 0 /\ At(mb, 0) = Embedded(mb)
    BY DEF Depth, At, Last
  <2>2. QED BY <2>1 DEF RegisterInv, Registers
<1>8. StreamInv'
  BY <1>2, <1>3, <1>4, <1>5 DEF StreamInv
<1>9. ContentInv'
  BY <1>1, <1>5 DEF ContentInv, StartContent, fifo
<1>10. QED BY <1>6, <1>7, <1>8, <1>9

LEMMA StartupInv == ASSUME IInv, Startup PROVE IInv'
<1> USE LayersAssumption
<1>0. /\ TypeInv /\ RegisterInv /\ StreamInv /\ ContentInv
      /\ hpc = "slot" /\ i = 0 /\ hpc' = "synchronize" /\ i' = 0
      /\ stream' = stream \o Attn(0, 0)
      /\ hidden' = [hidden EXCEPT ![0] = AttnOut(0, 0)]
      /\ residual' = [residual EXCEPT ![0] = @ + 1]
      /\ topk' = [topk EXCEPT ![0] = Routed(0, 0)]
      /\ UNCHANGED <<queue, waiting, closed, value>>
  BY DEF IInv, Startup, fifo
<1>1. /\ Issued = 2 /\ Issued' = 3 /\ Len(stream) \in 0..2
      /\ \A j \in 1..Len(stream) : stream[j] = OpAt(0, Done + j)
  <2>1. Issued = 2 /\ Len(stream) \in 0..Issued
    BY <1>0, IssuedBound
  <2>2. Issued' = 3
    BY <1>0 DEF Issued
  <2>3. \A j \in 1..Len(stream) : stream[j] = OpAt(0, Done + j)
    BY <1>0 DEF StreamInv
  <2>4. Len(stream) \in 0..2
    BY <2>1
  <2>5. QED BY <2>1, <2>2, <2>3, <2>4
<1>2. hidden[0] = Embedded(0) /\ residual[0] = 0 /\ hidden[1] = Embedded(1) /\ residual[1] = 0
  BY <1>0 DEF RegisterInv, Registers, Depth, At, Last, MB
<1>3. Attn(0, 0) = <<AttnOp(0)>>
  BY <1>2 DEF Attn, AttnOp, A, AL, At
<1>4. /\ Len(stream') = Len(stream) + 1 /\ stream'[Len(stream) + 1] = AttnOp(0)
      /\ \A j \in 1..Len(stream) : stream'[j] = stream[j]
      /\ stream' \in Seq(AnOp)
  <2>1. AttnOp(0) \in AnOp
    <3>1. AttnOp(0) = OpAt(0, 3)
      BY DEF OpAt
    <3>2. QED BY <3>1, InAnOp DEF Last
  <2>2. stream \in Seq(AnOp) /\ stream' = stream \o <<AttnOp(0)>>
    BY <1>0, <1>3 DEF TypeInv
  <2>3. QED BY <2>1, <2>2, AppendFacts
<1>5. Done' = Done /\ Done = 2 - Len(stream) /\ ~InMoe' /\ ~InMoe
  BY <1>0, <1>1, <1>4 DEF Done, InMoe
<1>6. TypeInv'
  BY <1>0, <1>4 DEF TypeInv, Last
<1>7. RegisterInv'
  <2>1. Depth(0, 1) = 1 /\ Depth(1, 1) = 0 /\ At(0, 1) = AttnOut(0, 0) /\ At(1, 0) = Embedded(1)
    BY DEF Depth, At, Last
  <2>2. Registers(1)'
    BY <1>0, <1>2, <2>1 DEF Registers, MB, TypeInv
  <2>3. QED BY <1>0, <2>2 DEF RegisterInv
<1>8. StreamInv'
  BY <1>0, <1>1, <1>4, <1>5 DEF StreamInv, OpAt
<1>9. ContentInv'
  BY <1>0, <1>5 DEF ContentInv, StartContent
<1>10. QED BY <1>6, <1>7, <1>8, <1>9 DEF IInv

LEMMA ConcatSix ==
  ASSUME NEW S, NEW a \in S, NEW b \in S, NEW c \in S, NEW d \in S, NEW e \in S, NEW f \in S,
         NEW q, q = <<>> \o (<<a, b>> \o <<c>> \o <<d, e, f>>)
  PROVE  /\ q \in Seq(S) /\ Len(q) = 6
         /\ q[1] = a /\ q[2] = b /\ q[3] = c /\ q[4] = d /\ q[5] = e /\ q[6] = f
OBVIOUS

LEMMA ConcatFive ==
  ASSUME NEW S, NEW a \in S, NEW b \in S, NEW d \in S, NEW e \in S, NEW f \in S,
         NEW q, q = <<>> \o <<a, b>> \o <<d, e, f>>
  PROVE  /\ q \in Seq(S) /\ Len(q) = 5
         /\ q[1] = a /\ q[2] = b /\ q[3] = d /\ q[4] = e /\ q[5] = f
OBVIOUS

(* The registers a slot starts from, and its operations *)
LEMMA SlotRegisters ==
  ASSUME IInv, hpc = "slot", i \in 1..Last
  PROVE  /\ stream = <<>> /\ queue = <<>>
         /\ hidden[M(i)] = AttnOut(M(i), ML(i)) /\ topk[M(i)] = Routed(M(i), ML(i))
         /\ residual[M(i)] = ML(i) + 1
         /\ hidden[A(i)] = At(A(i), 2 * AL(i)) /\ residual[A(i)] = AL(i)
         /\ Settled
<1>1. TypeInv /\ StreamInv /\ Registers(i) /\ ContentInv
  BY DEF IInv, RegisterInv
<1>2. stream = <<>>
  BY <1>1, IssuedBound
<1>3. queue = <<>> /\ Settled
  BY <1>1 DEF ContentInv, InMoe
<1>4. /\ A(i) \in MB /\ M(i) \in MB /\ ML(i) \in Nat /\ AL(i) \in Nat
      /\ Depth(A(i), i) = 2 * AL(i) /\ Depth(M(i), i) = 2 * ML(i) + 1
  BY SlotArith, LayersAssumption
<1>5. /\ hidden[M(i)] = At(M(i), 2 * ML(i) + 1) /\ residual[M(i)] = (2 * ML(i) + 2) \div 2
      /\ (2 * ML(i) + 1) % 2 = 1 => topk[M(i)] = Routed(M(i), (2 * ML(i) + 1) \div 2)
      /\ hidden[A(i)] = At(A(i), 2 * AL(i)) /\ residual[A(i)] = (2 * AL(i) + 1) \div 2
  BY <1>1, <1>4 DEF Registers
<1>6. QED BY <1>2, <1>3, <1>4, <1>5, AtDepth

LEMMA MoeOps ==
  ASSUME IInv, hpc = "slot", i \in 1..Last
  PROVE  /\ SubmitMoe(M(i), ML(i)) = <<StageOp(i, 1), StageOp(i, 2)>>
         /\ SyncMoe(M(i), ML(i)) = <<StageOp(i, 4), StageOp(i, 5), StageOp(i, 6)>>
         /\ Attn(A(i), AL(i)) = <<StageOp(i, 3)>>
BY SlotRegisters
   DEF SubmitMoe, SyncMoe, Attn, StageOp, LoadOp, CopyOp, SyncOp, MoeTask, AttnOp
(* The registers after slot i has been issued *)
LEMMA OverlapRegisters ==
  ASSUME IInv, hpc = "slot", i \in 1..(Last - 1),
         hidden' = [hidden EXCEPT ![A(i)] = AttnOut(A(i), AL(i)),
                                  ![M(i)] = Cloned(M(i), ML(i))],
         residual' = [residual EXCEPT ![A(i)] = @ + 1],
         topk' = [topk EXCEPT ![A(i)] = Routed(A(i), AL(i)), ![M(i)] = Null], i' = i
  PROVE  Registers(i + 1)'
<1>1. /\ A(i) \in MB /\ M(i) \in MB /\ A(i) # M(i) /\ ML(i) \in Nat /\ AL(i) \in Nat
      /\ \A mb \in MB : mb = A(i) \/ mb = M(i)
      /\ Depth(A(i), i + 1) = 2 * AL(i) + 1 /\ Depth(M(i), i + 1) = 2 * ML(i) + 2
  BY SlotArith, LayersAssumption DEF Last, MB
<1>2. DOMAIN hidden = MB /\ DOMAIN residual = MB /\ DOMAIN topk = MB
  BY DEF IInv, TypeInv
<1>3. residual[A(i)] = AL(i) /\ residual[M(i)] = ML(i) + 1
  BY SlotRegisters, LayersAssumption DEF Last
<1>4. /\ hidden'[A(i)] = AttnOut(A(i), AL(i)) /\ hidden'[M(i)] = Cloned(M(i), ML(i))
      /\ residual'[A(i)] = AL(i) + 1 /\ residual'[M(i)] = ML(i) + 1
      /\ topk'[A(i)] = Routed(A(i), AL(i))
  BY <1>1, <1>2, <1>3
<1>5. /\ hidden'[A(i)] = At(A(i), 2 * AL(i) + 1) /\ hidden'[M(i)] = At(M(i), 2 * ML(i) + 2)
  BY <1>1, <1>4, AtDepth
<1>6. /\ AL(i) + 1 = (2 * AL(i) + 2) \div 2 /\ (2 * AL(i) + 1) \div 2 = AL(i)
      /\ ML(i) + 1 = (2 * ML(i) + 3) \div 2 /\ (2 * ML(i) + 2) % 2 = 0
  BY <1>1
<1>7. \A mb \in MB : LET d == Depth(mb, i + 1) IN
        /\ hidden'[mb] = At(mb, d)
        /\ residual'[mb] = (d + 1) \div 2
        /\ d % 2 = 1 => topk'[mb] = Routed(mb, d \div 2)
  BY <1>1, <1>4, <1>5, <1>6
<1>8. QED BY <1>7 DEF Registers

LEMMA OverlapInv == ASSUME IInv, Overlap PROVE IInv'
<1> USE LayersAssumption
<1>0. /\ TypeInv /\ ContentInv
      /\ hpc = "slot" /\ i \in 1..(Last - 1) /\ hpc' = "synchronize" /\ i' = i
      /\ stream' = stream \o OverlapOps(A(i), AL(i), M(i), ML(i))
      /\ hidden' = [hidden EXCEPT ![A(i)] = AttnOut(A(i), AL(i)),
                                   ![M(i)] = Cloned(M(i), ML(i))]
      /\ residual' = [residual EXCEPT ![A(i)] = @ + 1]
      /\ topk' = [topk EXCEPT ![A(i)] = Routed(A(i), AL(i)), ![M(i)] = Null]
      /\ UNCHANGED <<queue, waiting, closed, value>>
  BY DEF IInv, Overlap, TypeInv, overlap_steps, fifo, A, AL, M, ML, SyncedHidden, Last
<1>1. i \in 1..Last /\ i # Last /\ i # 0
  BY <1>0 DEF Last
<1>2. stream = <<>> /\ queue = <<>> /\ Settled
  BY <1>0, <1>1, SlotRegisters
<1>3. stream' = <<>> \o (<<StageOp(i, 1), StageOp(i, 2)>> \o <<StageOp(i, 3)>>
                           \o <<StageOp(i, 4), StageOp(i, 5), StageOp(i, 6)>>)
  <2>1. /\ SubmitMoe(M(i), ML(i)) = <<StageOp(i, 1), StageOp(i, 2)>>
        /\ SyncMoe(M(i), ML(i)) = <<StageOp(i, 4), StageOp(i, 5), StageOp(i, 6)>>
        /\ Attn(A(i), AL(i)) = <<StageOp(i, 3)>>
    BY <1>0, <1>1, MoeOps
  <2>2. QED BY <1>0, <1>2, <2>1 DEF OverlapOps
<1>4. \A p \in 1..6 : OpAt(i, p) = StageOp(i, p) /\ StageOp(i, p) \in AnOp
  <2>1. \A p \in 1..6 : OpAt(i, p) = StageOp(i, p)
    BY <1>1 DEF OpAt, Stage
  <2>2. QED BY <1>1, <2>1, InAnOp
<1>5. /\ stream' \in Seq(AnOp) /\ Len(stream') = 6
      /\ \A j \in 1..6 : stream'[j] = OpAt(i, j)
  <2>1. /\ stream' \in Seq(AnOp) /\ Len(stream') = 6
        /\ stream'[1] = StageOp(i, 1) /\ stream'[2] = StageOp(i, 2) /\ stream'[3] = StageOp(i, 3)
        /\ stream'[4] = StageOp(i, 4) /\ stream'[5] = StageOp(i, 5) /\ stream'[6] = StageOp(i, 6)
    BY <1>3, <1>4, ConcatSix
  <2>2. QED BY <1>4, <2>1
<1>6. Issued' = 6 /\ Done' = 0 /\ InMoe' /\ Stage(i, 0) = 0
  BY <1>0, <1>1, <1>5 DEF Issued, Done, InMoe, Stage
<1>7. TypeInv'
  BY <1>0, <1>5 DEF TypeInv
<1>8. RegisterInv'
  <2>1. Registers(i + 1)'
    BY <1>0, OverlapRegisters
  <2>2. QED BY <1>0, <2>1 DEF RegisterInv
<1>9. StreamInv'
  <2>1. i' = i
    BY <1>0
  <2>2. QED BY <1>5, <1>6, <2>1 DEF StreamInv
<1>10. Settled'
  BY <1>0, <1>2 DEF Settled
<1>11. ContentInv'
  <2>1. MoeContent'
    BY <1>0, <1>6 DEF MoeContent
  <2>2. QED BY <1>0, <1>1, <1>2, <1>6, <1>10, <2>1 DEF ContentInv
<1>12. QED BY <1>7, <1>8, <1>9, <1>11 DEF IInv

LEMMA DrainRegisters ==
  ASSUME IInv, hpc = "slot", i = Last,
         hidden' = [hidden EXCEPT ![1] = Cloned(1, Layers - 1)],
         topk' = [topk EXCEPT ![1] = Null], residual' = residual
  PROVE  Registers(Last + 1)'
<1> USE LayersAssumption
<1>1. Last \in 1..Last /\ A(Last) = 0 /\ M(Last) = 1 /\ ML(Last) = Layers - 1
      /\ AL(Last) = Layers
  BY DEF Last, A, M, ML, AL
<1>2. /\ hidden[0] = At(0, 2 * Layers) /\ residual[0] = Layers /\ residual[1] = Layers
  BY <1>1, SlotRegisters
<1>3. DOMAIN hidden = MB /\ DOMAIN residual = MB /\ DOMAIN topk = MB /\ MB = {0, 1}
  BY DEF IInv, TypeInv, MB
<1>4. At(1, 2 * Layers) = Cloned(1, Layers - 1)
  <2>1. 2 * Layers = 2 * (Layers - 1) + 2
    OBVIOUS
  <2>2. QED BY <2>1, AtDepth
<1>5. Depth(0, Last + 1) = 2 * Layers /\ Depth(1, Last + 1) = 2 * Layers
      /\ (2 * Layers) % 2 = 0 /\ (2 * Layers + 1) \div 2 = Layers
  BY DEF Depth, Last
<1>6. \A mb \in MB : /\ hidden'[mb] = At(mb, 2 * Layers)
                      /\ residual'[mb] = Layers /\ Depth(mb, Last + 1) = 2 * Layers
  BY <1>2, <1>3, <1>4, <1>5
<1>7. QED BY <1>5, <1>6 DEF Registers

LEMMA DrainInv == ASSUME IInv, Drain PROVE IInv'
<1> USE LayersAssumption
<1>0. /\ TypeInv /\ ContentInv
      /\ hpc = "slot" /\ i = Last /\ hpc' = "synchronize" /\ i' = i
      /\ stream' = stream \o SubmitMoe(1, Layers - 1) \o SyncMoe(1, Layers - 1)
      /\ hidden' = [hidden EXCEPT ![1] = Cloned(1, Layers - 1)]
      /\ topk' = [topk EXCEPT ![1] = Null]
      /\ UNCHANGED <<residual, queue, waiting, closed, value>>
  BY DEF IInv, Drain, TypeInv, overlap_steps, fifo, SyncedHidden, Last
<1>1. i \in 1..Last /\ M(i) = 1 /\ ML(i) = Layers - 1
  BY <1>0 DEF Last, M, ML
<1>2. stream = <<>> /\ queue = <<>> /\ Settled
  BY <1>0, <1>1, SlotRegisters
<1>3. stream' = <<>> \o <<StageOp(i, 1), StageOp(i, 2)>>
                   \o <<StageOp(i, 4), StageOp(i, 5), StageOp(i, 6)>>
  <2>1. /\ SubmitMoe(1, Layers - 1) = <<StageOp(i, 1), StageOp(i, 2)>>
        /\ SyncMoe(1, Layers - 1) = <<StageOp(i, 4), StageOp(i, 5), StageOp(i, 6)>>
    BY <1>0, <1>1, MoeOps
  <2>2. QED BY <1>0, <1>2, <2>1
<1>4. /\ OpAt(i, 1) = StageOp(i, 1) /\ OpAt(i, 2) = StageOp(i, 2)
      /\ OpAt(i, 3) = StageOp(i, 4) /\ OpAt(i, 4) = StageOp(i, 5)
      /\ OpAt(i, 5) = StageOp(i, 6)
      /\ \A p \in 1..5 : OpAt(i, p) \in AnOp
  <2>1. \A p \in 1..5 : OpAt(i, p) \in AnOp
    BY <1>1, InAnOp
  <2>2. QED BY <1>0, <1>1, <2>1 DEF OpAt, Stage
<1>5. /\ stream' \in Seq(AnOp) /\ Len(stream') = 5
      /\ \A j \in 1..5 : stream'[j] = OpAt(i, j)
  <2>1. /\ stream' \in Seq(AnOp) /\ Len(stream') = 5
        /\ stream'[1] = StageOp(i, 1) /\ stream'[2] = StageOp(i, 2) /\ stream'[3] = StageOp(i, 4)
        /\ stream'[4] = StageOp(i, 5) /\ stream'[5] = StageOp(i, 6)
    BY <1>3, <1>4, ConcatFive
  <2>2. QED BY <1>4, <2>1
<1>6. Issued' = 5 /\ Done' = 0 /\ InMoe' /\ Stage(i, 0) = 0
  BY <1>0, <1>1, <1>5 DEF Issued, Done, InMoe, Stage
<1>7. TypeInv'
  BY <1>0, <1>5 DEF TypeInv
<1>8. RegisterInv'
  <2>1. Registers(Last + 1)'
    BY <1>0, DrainRegisters
  <2>2. QED BY <1>0, <2>1 DEF RegisterInv
<1>9. StreamInv'
  <2>1. i' = i
    BY <1>0
  <2>2. QED BY <1>5, <1>6, <2>1 DEF StreamInv
<1>10. Settled'
  BY <1>0, <1>2 DEF Settled
<1>11. ContentInv'
  <2>1. MoeContent'
    BY <1>0, <1>6 DEF MoeContent
  <2>2. QED BY <1>0, <1>1, <1>2, <1>6, <1>10, <2>1 DEF ContentInv
<1>12. QED BY <1>7, <1>8, <1>9, <1>11 DEF IInv
(* At the end of a slot the hidden states are those the next starts from. *)
LEMMA SettledNext ==
  ASSUME IInv, hpc = "synchronize", stream = <<>>, i' = i + 1, UNCHANGED value
  PROVE  Settled' /\ queue = <<>>
<1> USE LayersAssumption
<1>1. TypeInv /\ StreamInv /\ ContentInv /\ i \in 0..Last /\ Done = Issued
  <2>1. TypeInv /\ StreamInv /\ ContentInv /\ i \in 0..Last
    BY DEF IInv, TypeInv, Last
  <2>2. QED BY <2>1, IssuedBound
<1>2. CASE i = 0
  <2>1. Done = 3
    BY <1>1, <1>2, IssuedBound
  <2>2. value[Embedded(1)] = <<1, 0>> /\ value[AttnOut(0, 0)] = <<0, 1>>
        /\ value[Routed(0, 0)] = <<0, 1>> /\ queue = <<>>
    BY <1>1, <1>2, <2>1 DEF ContentInv, StartContent, InMoe
  <2>3. Depth(0, 1) = 1 /\ Depth(1, 1) = 0 /\ At(0, 1) = AttnOut(0, 0) /\ At(1, 0) = Embedded(1)
    BY DEF Depth, At, Last
  <2>4. QED BY <1>2, <2>2, <2>3 DEF Settled, MB
<1>3. CASE i \in 1..Last
  <2>1. InMoe /\ i # 0 /\ Stage(i, Done) = 6
    <3>1. i = Last \/ i \in 1..(Last - 1)
      BY <1>3 DEF Last
    <3>2. Done = IF i = Last THEN 5 ELSE 6
      BY <1>1, <3>1, IssuedBound
    <3>3. QED BY <1>3, <3>2 DEF InMoe, Stage
  <2>2. /\ MoeContent /\ Settled /\ queue = <<>>
    BY <1>1, <1>3, <2>1 DEF ContentInv, InMoe
  <2>3. /\ value[Cloned(M(i), ML(i))] = <<M(i), 2 * ML(i) + 2>>
        /\ Attended(i)
    BY <2>1, <2>2 DEF MoeContent
  <2>4. /\ A(i) \in MB /\ M(i) \in MB /\ ML(i) \in Nat /\ AL(i) \in Nat
        /\ \A mb \in MB : mb = A(i) \/ mb = M(i)
        /\ Depth(A(i), i) = 2 * AL(i)
        /\ Depth(M(i), i + 1) = 2 * ML(i) + 2
        /\ i < Last => Depth(A(i), i + 1) = 2 * AL(i) + 1
        /\ i = Last => Depth(A(i), i + 1) = 2 * AL(i)
    BY <1>3, SlotArith DEF MB
  <2>5. value[At(M(i), Depth(M(i), i + 1))] = <<M(i), Depth(M(i), i + 1)>>
    BY <2>3, <2>4, AtDepth
  <2>6. LET d == Depth(A(i), i + 1) IN
        /\ value[At(A(i), d)] = <<A(i), d>>
        /\ d % 2 = 1 => value[Routed(A(i), d \div 2)] = <<A(i), d>>
    <3>1. CASE i = Last
      BY <2>2, <2>4, <3>1, AtDepth DEF Settled
    <3>2. CASE i < Last
      BY <2>3, <2>4, <3>2, AtDepth DEF Attended
    <3>3. QED BY <1>3, <3>1, <3>2 DEF Last
  <2>7. Depth(M(i), i + 1) % 2 = 0
    BY <2>4
  <2>8. \A mb \in MB : LET d == Depth(mb, i + 1) IN
          /\ value[At(mb, d)] = <<mb, d>>
          /\ d % 2 = 1 => value[Routed(mb, d \div 2)] = <<mb, d>>
    BY <2>4, <2>5, <2>6, <2>7
  <2>9. QED BY <2>2, <2>8 DEF Settled
<1>4. QED BY <1>1, <1>2, <1>3 DEF Last

LEMMA SynchronizeInv == ASSUME IInv, Synchronize PROVE IInv'
<1> USE LayersAssumption
<1>0. /\ TypeInv /\ RegisterInv
      /\ hpc = "synchronize" /\ stream = <<>> /\ i \in 0..Last /\ i' = i + 1
      /\ hpc' = IF i = Last THEN "norm" ELSE "slot"
      /\ UNCHANGED <<hidden, residual, topk, stream, queue, waiting, closed, value>>
  BY DEF IInv, TypeInv, Synchronize, overlap_steps, batch, fifo, Last
<1>1. Settled' /\ queue = <<>>
  BY <1>0, SettledNext
<1>2. Issued' = 0 /\ Len(stream') = 0 /\ ~InMoe'
  BY <1>0 DEF Issued, InMoe
<1>3. TypeInv'
  BY <1>0 DEF TypeInv, Last
<1>4. RegisterInv'
  <2>1. Registers(i)'
    BY <1>0 DEF RegisterInv, Registers
  <2>2. QED BY <1>0, <2>1 DEF RegisterInv
<1>5. StreamInv'
  BY <1>2 DEF StreamInv
<1>6. ContentInv'
  BY <1>0, <1>1, <1>2 DEF ContentInv
<1>7. QED BY <1>3, <1>4, <1>5, <1>6 DEF IInv

LEMMA ReturnNormedInv == ASSUME IInv, ReturnNormed PROVE IInv'
<1>0. /\ TypeInv /\ StreamInv /\ ContentInv
      /\ hpc = "norm" /\ hpc' = "idle"
      /\ UNCHANGED <<i, hidden, residual, topk, stream, queue, waiting, closed, value>>
  BY DEF IInv, ReturnNormed, batch, fifo
<1>1. Len(stream) = 0 /\ queue = <<>>
  <2>1. Issued = 0
    BY <1>0, IssuedBound
  <2>2. QED BY <1>0, <2>1, IssuedBound DEF ContentInv, InMoe
<1>2. TypeInv'
  BY <1>0 DEF TypeInv
<1>3. QED BY <1>0, <1>1, <1>2 DEF IInv, RegisterInv, StreamInv, Issued, ContentInv, InMoe

-----------------------------------------------------------------------------
(* The stream and the worker leave the registers alone. *)
LEMMA DeviceInv ==
  ASSUME IInv, UNCHANGED <<step, i, hpc, batch>>, TypeInv', StreamInv', ContentInv'
  PROVE  IInv'
<1>1. UNCHANGED <<i, hpc, hidden, residual, topk>>
  BY DEF batch
<1>2. RegisterInv'
  BY <1>1 DEF IInv, RegisterInv, Registers
<1>3. QED BY <1>2 DEF IInv

LEMMA StreamEmbedInv == ASSUME IInv, StreamEmbed PROVE IInv'
<1> USE LayersAssumption
<1>0. /\ TypeInv /\ StreamInv /\ ContentInv
      /\ stream # <<>> /\ Head(stream).op = "embed" /\ Pop
      /\ value' = [value EXCEPT ![Head(stream).dst] = <<Head(stream).mb, 0>>]
      /\ UNCHANGED <<step, i, hpc, batch, hidden, residual, topk, queue, waiting, closed>>
  BY DEF IInv, StreamEmbed, Executing, fifo, batch
<1>1. /\ stream' \in Seq(AnOp) /\ StreamInv' /\ Done' = Done + 1
      /\ Done + 1 \in 1..6 /\ Done \in 0..5 /\ i \in 0..Last /\ (i = Last => Done + 1 <= 5)
      /\ Head(stream) = OpAt(i, Done + 1)
  BY <1>0, PopOp
<1>2. i = 0 /\ Done + 1 \in {1, 2} /\ Head(stream) = EmbedOp(Done)
  BY <1>0, <1>1, Kinds
<1>3. Done \in {0, 1} /\ Head(stream).dst = Embedded(Done) /\ Head(stream).mb = Done
  BY <1>1, <1>2 DEF EmbedOp
<1>4. DOMAIN value = Tensor /\ Embedded(0) \in Tensor /\ Embedded(1) \in Tensor
      /\ Embedded(0) # Embedded(1)
  BY <1>0 DEF TypeInv, Tensor, MB, Embedded
<1>5. TypeInv'
  BY <1>0, <1>1, <1>4 DEF TypeInv
<1>6. StartContent'
  <2>1. Done = 1 => value[Embedded(0)] = <<0, 0>>
    <3>1. hpc \in {"slot", "synchronize"}
      <4>1. Issued # 0
        BY <1>0, PopOp
      <4>2. QED BY <1>0, <4>1, IssuedBound DEF TypeInv
    <3>2. QED BY <1>0, <1>2, <1>3, <3>1 DEF ContentInv, StartContent
  <2>2. CASE Done = 0
    <3>1. value'[Embedded(0)] = <<0, 0>> /\ Done' = 1
      BY <1>0, <1>1, <1>3, <1>4, <2>2
    <3>2. QED BY <3>1 DEF StartContent
  <2>3. CASE Done = 1
    <3>1. value'[Embedded(1)] = <<1, 0>> /\ value'[Embedded(0)] = <<0, 0>> /\ Done' = 2
      BY <1>0, <1>1, <1>3, <1>4, <2>1, <2>3
    <3>2. QED BY <3>1 DEF StartContent
  <2>4. QED BY <1>3, <2>2, <2>3
<1>7. ContentInv'
  BY <1>0, <1>2, <1>6 DEF ContentInv, InMoe
<1>8. QED BY <1>0, <1>1, <1>5, <1>7, DeviceInv

LEMMA StageNext ==
  ASSUME NEW n \in 1..Last, NEW p \in 0..5, n = Last => p + 1 <= 5
  PROVE  LET s == Stage(n, p + 1) IN
         /\ s \in 1..6
         /\ s \in {1, 2, 5, 6} => Stage(n, p) = s - 1
         /\ s = 3 => Stage(n, p) = 2 /\ n < Last
         /\ s = 4 => Stage(n, p) = (IF n = Last THEN 2 ELSE 3)
BY LayersAssumption DEF Stage, Last

(* What an operation of a MoE slot starts from, and its tensors *)
LEMMA MoeStep ==
  ASSUME IInv, stream # <<>>, Pop, UNCHANGED <<hpc, i>>, i > 0
  PROVE  /\ i \in 1..Last /\ Done' = Done + 1 /\ stream' \in Seq(AnOp) /\ StreamInv'
         /\ InMoe /\ InMoe' /\ MoeContent /\ Settled
         /\ Done \in 0..5 /\ Done + 1 \in 1..6 /\ (i = Last => Done + 1 <= 5)
         /\ Head(stream) = OpAt(i, Done + 1)
         /\ Stage(i, Done)' = Stage(i, Done + 1)
         /\ {Input(ML(i) % buffer_depth), Ids(ML(i) % buffer_depth), OutCpu(ML(i) % buffer_depth),
             OutGpu(ML(i) % buffer_depth), Cloned(M(i), ML(i))} \subseteq Tensor
         /\ value[AttnOut(M(i), ML(i))] = <<M(i), 2 * ML(i) + 1>>
         /\ value[Routed(M(i), ML(i))] = <<M(i), 2 * ML(i) + 1>>
<1>1. TypeInv /\ StreamInv /\ ContentInv
  BY DEF IInv
<1>2. /\ i \in 1..Last /\ Done' = Done + 1 /\ stream' \in Seq(AnOp) /\ StreamInv'
      /\ InMoe /\ Done \in 0..5 /\ Done + 1 \in 1..6 /\ (i = Last => Done + 1 <= 5)
      /\ Head(stream) = OpAt(i, Done + 1)
  <2>1. /\ Done' = Done + 1 /\ stream' \in Seq(AnOp) /\ StreamInv' /\ i \in 0..Last
        /\ InMoe /\ Done \in 0..5 /\ Done + 1 \in 1..6 /\ (i = Last => Done + 1 <= 5)
        /\ Head(stream) = OpAt(i, Done + 1)
    BY <1>1, PopOp
  <2>2. QED BY <2>1
<1>3. InMoe' /\ MoeContent /\ Settled
  BY <1>1, <1>2 DEF ContentInv, InMoe
<1>4. Stage(i, Done)' = Stage(i, Done + 1)
  BY <1>2
<1>5. /\ M(i) \in MB /\ ML(i) \in 0..(Layers - 1) /\ ML(i) % buffer_depth \in Slot
      /\ Depth(M(i), i) = 2 * ML(i) + 1
  BY <1>2, SlotArith
<1>6. /\ value[AttnOut(M(i), ML(i))] = <<M(i), 2 * ML(i) + 1>>
      /\ value[Routed(M(i), ML(i))] = <<M(i), 2 * ML(i) + 1>>
  <2>1. At(M(i), Depth(M(i), i)) = AttnOut(M(i), ML(i))
    BY <1>2, SettledTensors
  <2>2. ML(i) \in Nat
    BY <1>5, LayersAssumption
  <2>3. Depth(M(i), i) % 2 = 1 /\ Depth(M(i), i) \div 2 = ML(i)
    BY <1>5, <2>2, AtDepth
  <2>4. QED BY <1>3, <1>5, <2>1, <2>3 DEF Settled
<1>7. QED BY <1>2, <1>3, <1>4, <1>5, <1>6, InTensor

(* A write to a tensor of the slot *)
LEMMA MoeWrite ==
  ASSUME i \in 1..Last, Settled, i' = i, DOMAIN value = Tensor,
         NEW t \in Written(i) \cap Tensor, NEW v, value' = [value EXCEPT ![t] = v]
  PROVE  /\ Settled' /\ DOMAIN value' = Tensor /\ value'[t] = v
         /\ \A u \in Tensor : u # t => value'[u] = value[u]
<1>1. /\ DOMAIN value' = Tensor /\ value'[t] = v
      /\ \A u \in Tensor : u # t => value'[u] = value[u]
  OBVIOUS
<1>2. QED BY <1>1, SettledKept

LEMMA MoeWriteTwo ==
  ASSUME i \in 1..Last, Settled, i' = i, DOMAIN value = Tensor,
         NEW t \in Written(i) \cap Tensor, NEW v, NEW u \in Written(i) \cap Tensor, NEW w,
         t # u, value' = [value EXCEPT ![t] = v, ![u] = w]
  PROVE  /\ Settled' /\ DOMAIN value' = Tensor /\ value'[t] = v /\ value'[u] = w
         /\ \A x \in Tensor : x # t /\ x # u => value'[x] = value[x]
<1>1. /\ DOMAIN value' = Tensor /\ value'[t] = v /\ value'[u] = w
      /\ \A x \in Tensor : x # t /\ x # u => value'[x] = value[x]
  OBVIOUS
<1>2. QED BY <1>1, SettledKept

(* What a write elsewhere leaves of the contents of the slot *)
LEMMA ContentsKept ==
  ASSUME i \in 1..Last, i' = i, ML(i) % buffer_depth \in Slot,
         NEW t, \A u \in Tensor : u # t => value'[u] = value[u]
  PROVE  /\ Staged(i) /\ t \notin {Input(ML(i) % buffer_depth), Ids(ML(i) % buffer_depth)}
              => Staged(i)'
         /\ Attended(i) /\ t \notin {AttnOut(A(i), AL(i)), Routed(A(i), AL(i))}
              => Attended(i)'
<1>1. {Input(ML(i) % buffer_depth), Ids(ML(i) % buffer_depth)} \subseteq Tensor
  BY DEF Tensor
<1>2. i < Last => {AttnOut(A(i), AL(i)), Routed(A(i), AL(i))} \subseteq Tensor
  BY AttnTensor
<1>3. ASSUME Staged(i), t \notin {Input(ML(i) % buffer_depth), Ids(ML(i) % buffer_depth)}
      PROVE  Staged(i)'
  <2>1. /\ value'[Input(ML(i) % buffer_depth)] = value[Input(ML(i) % buffer_depth)]
        /\ value'[Ids(ML(i) % buffer_depth)] = value[Ids(ML(i) % buffer_depth)]
    BY <1>1, <1>3
  <2>2. QED BY <1>3, <2>1 DEF Staged
<1>4. ASSUME Attended(i), t \notin {AttnOut(A(i), AL(i)), Routed(A(i), AL(i))}
      PROVE  Attended(i)'
  <2>1. i < Last => /\ value'[AttnOut(A(i), AL(i))] = value[AttnOut(A(i), AL(i))]
                    /\ value'[Routed(A(i), AL(i))] = value[Routed(A(i), AL(i))]
    BY <1>2, <1>4
  <2>2. QED BY <1>4, <2>1 DEF Attended
<1>5. QED BY <1>3, <1>4

LEMMA StreamLoadInv == ASSUME IInv, StreamLoad PROVE IInv'
<1> DEFINE l == ML(i)
           b == ML(i) % buffer_depth
<1>0. /\ TypeInv /\ StreamInv /\ ContentInv
      /\ stream # <<>> /\ Head(stream).op = "load" /\ Pop
      /\ value' = [value EXCEPT ![Input(Head(stream).slot)] = value[Head(stream).src],
                                ![Ids(Head(stream).slot)] = value[Head(stream).ids]]
      /\ UNCHANGED <<step, i, hpc, batch, hidden, residual, topk, queue, waiting, closed>>
      /\ DOMAIN value = Tensor
  BY DEF IInv, TypeInv, StreamLoad, Executing, fifo, batch
<1>1. i > 0 /\ Stage(i, Done + 1) = 1 /\ Head(stream) = LoadOp(i)
  <2>1. /\ i \in 0..Last /\ (i = Last => Done + 1 <= 5) /\ Done + 1 \in 1..6
        /\ Head(stream) = OpAt(i, Done + 1)
    BY <1>0, PopOp
  <2>2. QED BY <1>0, <2>1, Kinds
<1>2. /\ i \in 1..Last /\ Done' = Done + 1 /\ stream' \in Seq(AnOp) /\ StreamInv'
      /\ InMoe /\ InMoe' /\ MoeContent /\ Settled /\ Stage(i, Done)' = 1
      /\ {Input(b), Ids(b)} \subseteq Tensor
      /\ value[AttnOut(M(i), l)] = <<M(i), 2 * l + 1>>
      /\ value[Routed(M(i), l)] = <<M(i), 2 * l + 1>>
      /\ Done \in 0..5 /\ (i = Last => Done + 1 <= 5)
  BY <1>0, <1>1, MoeStep
<1>3. Stage(i, Done) = 0
  BY <1>1, <1>2, StageNext
<1>4. queue = <<>> /\ queue' = <<>>
  BY <1>0, <1>2, <1>3 DEF ContentInv
<1>5. value' = [value EXCEPT ![Input(b)] = <<M(i), 2 * l + 1>>, ![Ids(b)] = <<M(i), 2 * l + 1>>]
  <2>1. /\ Head(stream).slot = b /\ Head(stream).src = AttnOut(M(i), l)
        /\ Head(stream).ids = Routed(M(i), l)
    BY <1>1 DEF LoadOp
  <2>2. QED BY <1>0, <1>2, <2>1
<1>6. /\ Settled' /\ DOMAIN value' = Tensor
      /\ value'[Input(b)] = <<M(i), 2 * l + 1>> /\ value'[Ids(b)] = <<M(i), 2 * l + 1>>
  <2>1. Input(b) \in Written(i) \cap Tensor /\ Ids(b) \in Written(i) \cap Tensor
    BY <1>2 DEF Written
  <2>2. Input(b) # Ids(b) /\ i' = i
    BY <1>0, Distinct
  <2>3. i \in 1..Last /\ Settled /\ DOMAIN value = Tensor
    BY <1>0, <1>2
  <2>4. QED BY ONLY <1>5, <2>1, <2>2, <2>3, MoeWriteTwo
<1>7. MoeContent'
  <2>1. Staged(i)'
    BY <1>0, <1>6 DEF Staged
  <2>2. QED BY <1>0, <1>2, <2>1 DEF MoeContent
<1>8. TypeInv'
  BY <1>0, <1>2, <1>6 DEF TypeInv
<1>9. ContentInv'
  BY <1>0, <1>2, <1>4, <1>6, <1>7 DEF ContentInv
<1>10. QED BY <1>0, <1>2, <1>8, <1>9, DeviceInv

LEMMA StreamCopyInv == ASSUME IInv, StreamCopy PROVE IInv'
<1> DEFINE s == Stage(i, Done + 1)
           l == ML(i)
<1>0. /\ TypeInv /\ StreamInv /\ ContentInv
      /\ stream # <<>> /\ Head(stream).op = "copy" /\ Pop
      /\ value' = [value EXCEPT ![Head(stream).dst] = value[Head(stream).src]]
      /\ UNCHANGED <<step, i, hpc, batch, hidden, residual, topk, queue, waiting, closed>>
      /\ DOMAIN value = Tensor
  BY DEF IInv, TypeInv, StreamCopy, Executing, fifo, batch
<1>1. i > 0 /\ s \in {5, 6} /\ Head(stream) = StageOp(i, s)
  <2>1. /\ i \in 0..Last /\ (i = Last => Done + 1 <= 5) /\ Done + 1 \in 1..6
        /\ Head(stream) = OpAt(i, Done + 1)
    BY <1>0, PopOp
  <2>2. QED BY <1>0, <2>1, Kinds
<1>2. /\ i \in 1..Last /\ Done' = Done + 1 /\ stream' \in Seq(AnOp) /\ StreamInv'
      /\ InMoe /\ InMoe' /\ MoeContent /\ Settled /\ Stage(i, Done)' = s
      /\ {Input(l % buffer_depth), Ids(l % buffer_depth), OutCpu(l % buffer_depth),
          OutGpu(l % buffer_depth), Cloned(M(i), l)} \subseteq Tensor
      /\ Done \in 0..5 /\ (i = Last => Done + 1 <= 5)
  BY <1>0, <1>1, MoeStep
<1>3. Stage(i, Done) = s - 1
  BY <1>1, <1>2, StageNext
<1>4. queue = <<>> /\ queue' = <<>>
  BY <1>0, <1>1, <1>2, <1>3 DEF ContentInv
<1>5. Settled' /\ MoeContent' /\ DOMAIN value' = Tensor
  <2>1. CASE s = 5
    <3>1. Head(stream).dst = OutGpu(l % buffer_depth) /\ Head(stream).src = OutCpu(l % buffer_depth)
      BY <1>1, <2>1 DEF StageOp, CopyOp
    <3>2. /\ Staged(i)
          /\ value[OutCpu(l % buffer_depth)] = <<M(i), 2 * l + 2>>
          /\ Attended(i)
      BY <1>2, <1>3, <2>1 DEF MoeContent
    <3>3. /\ Settled' /\ DOMAIN value' = Tensor
          /\ value'[OutGpu(l % buffer_depth)] = <<M(i), 2 * l + 2>>
          /\ \A u \in Tensor : u # OutGpu(l % buffer_depth) => value'[u] = value[u]
      <4>1. OutGpu(l % buffer_depth) \in Written(i) \cap Tensor
        BY <1>2 DEF Written
      <4>2. value' = [value EXCEPT ![OutGpu(l % buffer_depth)] = <<M(i), 2 * l + 2>>]
        BY <1>0, <3>1, <3>2
      <4>3. i \in 1..Last /\ Settled /\ i' = i /\ DOMAIN value = Tensor
        BY <1>0, <1>2
      <4>4. QED BY ONLY <4>1, <4>2, <4>3, MoeWrite
    <3>4. Staged(i)' /\ Attended(i)'
      <4>1. OutGpu(l % buffer_depth) \notin {Input(l % buffer_depth), Ids(l % buffer_depth),
                AttnOut(A(i), AL(i)), Routed(A(i), AL(i))}
        BY Distinct
      <4>2. ML(i) % buffer_depth \in Slot
        BY <1>2, SlotArith
      <4>3. QED BY <1>0, <1>2, <3>2, <3>3, <4>1, <4>2, ContentsKept
    <3>5. /\ value'[OutCpu(l % buffer_depth)] = <<M(i), 2 * l + 2>>
      BY <1>2, <3>2, <3>3, Distinct
    <3>6. QED BY <1>0, <1>2, <2>1, <3>3, <3>4, <3>5 DEF MoeContent
  <2>2. CASE s = 6
    <3>1. Head(stream).dst = Cloned(M(i), l) /\ Head(stream).src = OutGpu(l % buffer_depth)
      BY <1>1, <2>2 DEF StageOp, CopyOp
    <3>2. /\ Staged(i)
          /\ value[OutCpu(l % buffer_depth)] = <<M(i), 2 * l + 2>>
          /\ value[OutGpu(l % buffer_depth)] = <<M(i), 2 * l + 2>>
          /\ Attended(i)
      BY <1>2, <1>3, <2>2 DEF MoeContent
    <3>3. /\ Settled' /\ DOMAIN value' = Tensor
          /\ value'[Cloned(M(i), l)] = <<M(i), 2 * l + 2>>
          /\ \A u \in Tensor : u # Cloned(M(i), l) => value'[u] = value[u]
      <4>1. Cloned(M(i), l) \in Written(i) \cap Tensor
        BY <1>2 DEF Written
      <4>2. value' = [value EXCEPT ![Cloned(M(i), l)] = <<M(i), 2 * l + 2>>]
        BY <1>0, <3>1, <3>2
      <4>3. QED BY <1>0, <1>2, <4>1, <4>2, MoeWrite
    <3>4. Staged(i)' /\ Attended(i)'
      <4>1. Cloned(M(i), l) \notin {Input(l % buffer_depth), Ids(l % buffer_depth),
                AttnOut(A(i), AL(i)), Routed(A(i), AL(i))}
        BY Distinct
      <4>2. ML(i) % buffer_depth \in Slot
        BY <1>2, SlotArith
      <4>3. QED BY <1>0, <1>2, <3>2, <3>3, <4>1, <4>2, ContentsKept
    <3>5. /\ value'[OutCpu(l % buffer_depth)] = <<M(i), 2 * l + 2>>
          /\ value'[OutGpu(l % buffer_depth)] = <<M(i), 2 * l + 2>>
      BY <1>2, <3>2, <3>3, Distinct
    <3>6. QED BY <1>0, <1>2, <2>2, <3>3, <3>4, <3>5 DEF MoeContent
  <2>3. QED BY <1>1, <2>1, <2>2
<1>6. TypeInv'
  BY <1>0, <1>2, <1>5 DEF TypeInv
<1>7. ContentInv'
  BY <1>0, <1>2, <1>4, <1>5 DEF ContentInv
<1>8. QED BY <1>0, <1>2, <1>6, <1>7, DeviceInv

LEMMA StreamAttnInv == ASSUME IInv, StreamAttn PROVE IInv'
<1> USE LayersAssumption
<1>0. /\ TypeInv /\ StreamInv /\ ContentInv
      /\ stream # <<>> /\ Head(stream).op = "attn" /\ Pop
      /\ UNCHANGED <<step, i, hpc, batch, hidden, residual, topk, queue, waiting, closed>>
      /\ DOMAIN value = Tensor
      /\ LET o == Head(stream)
             good == value[o.src] = <<o.mb, 2 * o.layer>> /\ o.res = o.layer
             result == IF good THEN <<o.mb, 2 * o.layer + 1>> ELSE Garbage
         IN value' = [value EXCEPT ![o.dst] = result, ![o.route] = result]
  BY DEF IInv, TypeInv, StreamAttn, Executing, fifo, batch
<1>1. /\ i \in 0..Last /\ (i = Last => Done + 1 <= 5) /\ Done + 1 \in 1..6
      /\ Head(stream) = OpAt(i, Done + 1)
      /\ stream' \in Seq(AnOp) /\ StreamInv' /\ Done' = Done + 1
      /\ Done + 1 \in 1..Issued
  BY <1>0, PopOp
<1>2. /\ i = 0 => Done + 1 >= 3 /\ Head(stream) = AttnOp(0)
      /\ i > 0 => Stage(i, Done + 1) = 3 /\ i < Last /\ Head(stream) = AttnOp(i)
  BY <1>0, <1>1, Kinds
<1>3. CASE i = 0
  <2>1. Done = 2 /\ hpc = "synchronize"
    <3>1. Issued \in 0..6 /\ Issued >= 3 /\ Done \in Int
      BY <1>0, <1>1, <1>2, <1>3, IssuedBound
    <3>2. hpc \in {"slot", "idle", "norm"} => Issued < 3
      BY <1>0, <1>3, IssuedBound
    <3>3. hpc = "synchronize"
      BY <1>0, <3>1, <3>2 DEF TypeInv
    <3>4. Issued = 3
      BY <1>0, <1>3, <3>3, IssuedBound
    <3>5. QED BY <1>1, <1>2, <1>3, <3>1, <3>3, <3>4
  <2>2. value[Embedded(0)] = <<0, 0>> /\ value[Embedded(1)] = <<1, 0>>
    BY <1>0, <1>3, <2>1 DEF ContentInv, StartContent
  <2>3. /\ Head(stream).src = Embedded(0) /\ Head(stream).dst = AttnOut(0, 0)
        /\ Head(stream).route = Routed(0, 0)
        /\ Head(stream).mb = 0 /\ Head(stream).layer = 0 /\ Head(stream).res = 0
    BY <1>2, <1>3 DEF AttnOp, A, AL, At
  <2>4. value' = [value EXCEPT ![AttnOut(0, 0)] = <<0, 1>>, ![Routed(0, 0)] = <<0, 1>>]
    <3>1. 2 * 0 = 0 /\ 2 * 0 + 1 = 1
      OBVIOUS
    <3>2. QED BY <1>0, <2>2, <2>3, <3>1
  <2>5. /\ {AttnOut(0, 0), Routed(0, 0), Embedded(0), Embedded(1)} \subseteq Tensor
        /\ Embedded(0) \notin {AttnOut(0, 0), Routed(0, 0)}
        /\ Embedded(1) \notin {AttnOut(0, 0), Routed(0, 0)} /\ AttnOut(0, 0) # Routed(0, 0)
    BY Distinct DEF Tensor, MB
  <2>6. /\ value'[AttnOut(0, 0)] = <<0, 1>> /\ value'[Routed(0, 0)] = <<0, 1>>
        /\ value'[Embedded(0)] = <<0, 0>>
        /\ value'[Embedded(1)] = <<1, 0>> /\ DOMAIN value' = Tensor
    BY <1>0, <2>2, <2>4, <2>5
  <2>7. TypeInv'
    BY <1>0, <1>1, <2>6 DEF TypeInv
  <2>8. ContentInv'
    <3>1. i' = 0 /\ ~InMoe
      BY <1>0, <1>3 DEF InMoe
    <3>2. ~InMoe'
      BY <3>1 DEF InMoe
    <3>3. StartContent'
      BY <2>6 DEF StartContent
    <3>4. queue' = <<>>
      BY <1>0, <3>1 DEF ContentInv
    <3>5. QED BY <3>1, <3>2, <3>3, <3>4 DEF ContentInv
  <2>9. QED BY <1>0, <1>1, <2>7, <2>8, DeviceInv
<1>4. CASE i > 0
  <2> DEFINE l == ML(i)
  <2>1. /\ i \in 1..Last /\ Done' = Done + 1
        /\ InMoe /\ InMoe' /\ MoeContent /\ Settled /\ Stage(i, Done)' = 3 /\ i < Last
        /\ {Input(l % buffer_depth), Ids(l % buffer_depth), OutCpu(l % buffer_depth),
            OutGpu(l % buffer_depth), Cloned(M(i), l)} \subseteq Tensor
        /\ Done \in 0..5 /\ (i = Last => Done + 1 <= 5)
    BY <1>0, <1>2, <1>4, MoeStep
  <2>2. Stage(i, Done) = 2
    BY <1>2, <1>4, <2>1, StageNext
  <2>3. /\ Head(stream).src = At(A(i), 2 * AL(i)) /\ Head(stream).dst = AttnOut(A(i), AL(i))
        /\ Head(stream).route = Routed(A(i), AL(i))
        /\ Head(stream).mb = A(i) /\ Head(stream).layer = AL(i) /\ Head(stream).res = AL(i)
    BY <1>2, <1>4 DEF AttnOp
  <2>4. value[At(A(i), 2 * AL(i))] = <<A(i), 2 * AL(i)>>
    <3>1. A(i) \in MB /\ Depth(A(i), i) = 2 * AL(i)
      BY <2>1, SlotArith
    <3>2. QED BY <2>1, <3>1 DEF Settled
  <2>5. /\ Settled' /\ DOMAIN value' = Tensor
        /\ value'[AttnOut(A(i), AL(i))] = <<A(i), 2 * AL(i) + 1>>
        /\ value'[Routed(A(i), AL(i))] = <<A(i), 2 * AL(i) + 1>>
        /\ \A u \in Tensor : u # AttnOut(A(i), AL(i)) /\ u # Routed(A(i), AL(i)) =>
              value'[u] = value[u]
    <3>1. /\ AttnOut(A(i), AL(i)) \in Written(i) \cap Tensor
          /\ Routed(A(i), AL(i)) \in Written(i) \cap Tensor
      BY <2>1, AttnTensor DEF Written
    <3>2. value' = [value EXCEPT ![AttnOut(A(i), AL(i))] = <<A(i), 2 * AL(i) + 1>>,
                                 ![Routed(A(i), AL(i))] = <<A(i), 2 * AL(i) + 1>>]
      BY <1>0, <2>3, <2>4
    <3>3. AttnOut(A(i), AL(i)) # Routed(A(i), AL(i)) /\ i' = i
      BY <1>0, Distinct
    <3>4. i \in 1..Last /\ Settled /\ DOMAIN value = Tensor
      BY <1>0, <2>1
    <3>5. QED BY ONLY <3>1, <3>2, <3>3, <3>4, MoeWriteTwo
  <2>6. /\ value'[Input(l % buffer_depth)] = value[Input(l % buffer_depth)]
        /\ value'[Ids(l % buffer_depth)] = value[Ids(l % buffer_depth)]
        /\ value'[OutCpu(l % buffer_depth)] = value[OutCpu(l % buffer_depth)]
    BY <2>1, <2>5, Distinct
  <2>7. /\ Staged(i)
        /\ \/ queue = <<MoeTask(i)>>
           \/ queue = <<>> /\ value[OutCpu(l % buffer_depth)] = <<M(i), 2 * l + 2>>
    BY <2>1, <2>2 DEF MoeContent
  <2>8. MoeContent'
    <3>1. i' = i /\ queue' = queue
      BY <1>0
    <3>2. Staged(i)' /\ Attended(i)'
      BY <2>5, <2>6, <2>7, <3>1 DEF Staged, Attended
    <3>3. QED BY <2>1, <2>6, <2>7, <3>1, <3>2 DEF MoeContent
  <2>9. TypeInv'
    BY <1>0, <1>1, <2>5 DEF TypeInv
  <2>10. ContentInv'
    <3>1. i' = i /\ i' # 0 /\ InMoe' /\ Stage(i, Done)' = 3
      BY <1>0, <2>1
    <3>2. Settled' /\ MoeContent'
      BY <2>5, <2>8
    <3>3. QED BY <3>1, <3>2 DEF ContentInv
  <2>11. QED BY <1>0, <1>1, <2>9, <2>10, DeviceInv
<1>5. QED BY <1>1, <1>3, <1>4

LEMMA StreamEnqueueInv == ASSUME IInv, StreamEnqueue PROVE IInv'
<1>0. /\ TypeInv /\ StreamInv /\ ContentInv
      /\ stream # <<>> /\ Head(stream).op = "enqueue" /\ Pop
      /\ queue' = Append(queue, Head(stream))
      /\ UNCHANGED <<step, i, hpc, batch, hidden, residual, topk, waiting, closed, value>>
  BY DEF IInv, StreamEnqueue, TQ!Accept, Executing, batch
<1>1. i > 0 /\ Stage(i, Done + 1) = 2 /\ Head(stream) = MoeTask(i)
  <2>1. /\ i \in 0..Last /\ (i = Last => Done + 1 <= 5) /\ Done + 1 \in 1..6
        /\ Head(stream) = OpAt(i, Done + 1)
    BY <1>0, PopOp
  <2>2. QED BY <1>0, <2>1, Kinds
<1>2. /\ i \in 1..Last /\ Done' = Done + 1 /\ stream' \in Seq(AnOp) /\ StreamInv'
      /\ InMoe /\ InMoe' /\ MoeContent /\ Settled /\ Stage(i, Done)' = 2
      /\ Done \in 0..5 /\ Done + 1 \in 1..6 /\ (i = Last => Done + 1 <= 5)
      /\ Head(stream) = OpAt(i, Done + 1)
  BY <1>0, <1>1, MoeStep
<1>3. Stage(i, Done) = 1
  BY <1>1, <1>2, StageNext
<1>4. queue = <<>> /\ Staged(i)
  BY <1>2, <1>3 DEF ContentInv, MoeContent, IInv
<1>5. queue' = <<MoeTask(i)>>
  BY <1>0, <1>1, <1>4
<1>6. queue' \in Seq(AnOp)
  <2>1. MoeTask(i) \in AnOp
    <3>1. i \in 0..Last
      BY <1>2
    <3>2. QED BY <1>1, <1>2, <3>1, InAnOp
  <2>2. QED BY <1>5, <2>1
<1>7. Settled' /\ MoeContent'
  <2>1. Staged(i)' /\ Settled'
    BY <1>0, <1>2, <1>4 DEF Staged, Settled
  <2>2. i' = i
    BY <1>0
  <2>3. QED BY <1>2, <1>5, <2>1, <2>2 DEF MoeContent
<1>8. TypeInv'
  BY <1>0, <1>2, <1>6 DEF TypeInv
<1>9. ContentInv'
  BY <1>0, <1>2, <1>7 DEF ContentInv
<1>10. QED BY <1>0, <1>2, <1>8, <1>9, DeviceInv

LEMMA StreamSyncCallInv == ASSUME IInv, StreamSyncCall PROVE IInv'
<1>0. /\ TypeInv /\ StreamInv /\ ContentInv
      /\ waiting' = [waiting EXCEPT ![Callback] = 0]
      /\ UNCHANGED <<step, i, hpc, batch, hidden, residual, topk, queue, closed, stream, value>>
  BY DEF IInv, StreamSyncCall, TQ!SyncCall, batch
<1>1. StreamInv' /\ Done' = Done /\ InMoe' = InMoe
  BY <1>0, SameStream
<1>2. TypeInv'
  BY <1>0 DEF TypeInv
<1>3. ContentInv'
  BY <1>0, <1>1 DEF ContentInv, Settled, StartContent, MoeContent, Staged, Attended
<1>4. QED BY <1>0, <1>1, <1>2, <1>3, DeviceInv

LEMMA StreamSyncReturnInv == ASSUME IInv, StreamSyncReturn PROVE IInv'
<1>0. /\ TypeInv /\ StreamInv /\ ContentInv
      /\ stream # <<>> /\ Head(stream).op = "sync" /\ Pop
      /\ waiting[Callback] # Null /\ (Len(queue) <= waiting[Callback] \/ closed)
      /\ waiting' = [waiting EXCEPT ![Callback] = Null]
      /\ UNCHANGED <<step, i, hpc, batch, hidden, residual, topk, queue, closed, value>>
  BY DEF IInv, StreamSyncReturn, TQ!SyncReturn, Executing, batch
<1>1. i > 0 /\ Stage(i, Done + 1) = 4
  <2>1. /\ i \in 0..Last /\ (i = Last => Done + 1 <= 5) /\ Done + 1 \in 1..6
        /\ Head(stream) = OpAt(i, Done + 1)
    BY <1>0, PopOp
  <2>2. QED BY <1>0, <2>1, Kinds
<1>2. /\ i \in 1..Last /\ Done' = Done + 1 /\ stream' \in Seq(AnOp) /\ StreamInv'
      /\ InMoe /\ InMoe' /\ MoeContent /\ Settled /\ Stage(i, Done)' = 4
      /\ Done \in 0..5 /\ (i = Last => Done + 1 <= 5)
  BY <1>0, <1>1, MoeStep
<1>3. Stage(i, Done) = IF i = Last THEN 2 ELSE 3
  BY <1>1, <1>2, StageNext
<1>4. queue = <<>>
  <2>1. Len(queue) <= 0
    BY <1>0 DEF TypeInv
  <2>2. queue \in Seq(AnOp)
    BY <1>0 DEF TypeInv
  <2>3. QED BY <2>1, <2>2
<1>5. queue # <<MoeTask(i)>>
  BY <1>4
<1>6. /\ Staged(i) /\ Attended(i)
      /\ value[OutCpu(ML(i) % buffer_depth)] = <<M(i), 2 * ML(i) + 2>>
  BY <1>2, <1>3, <1>5, LayersAssumption DEF MoeContent, Attended, Last
<1>7. Settled' /\ MoeContent'
  <2>1. Staged(i)' /\ Attended(i)' /\ Settled'
    BY <1>0, <1>2, <1>6 DEF Staged, Attended, Settled
  <2>2. QED BY <1>0, <1>2, <1>6, <2>1 DEF MoeContent
<1>8. TypeInv'
  BY <1>0, <1>2 DEF TypeInv
<1>9. ContentInv'
  BY <1>0, <1>2, <1>4, <1>7 DEF ContentInv
<1>10. QED BY <1>0, <1>2, <1>8, <1>9, DeviceInv

LEMMA TaskStartInv == ASSUME IInv, TaskStart PROVE IInv'
<1>0. /\ TypeInv /\ StreamInv /\ ContentInv
      /\ UNCHANGED <<step, i, hpc, batch, hidden, residual, topk, queue, waiting, closed,
                     stream, value>>
  BY DEF IInv, TaskStart, TQ!Start, batch
<1>1. StreamInv' /\ Done' = Done /\ InMoe' = InMoe
  BY <1>0, SameStream
<1>2. TypeInv'
  BY <1>0 DEF TypeInv
<1>3. ContentInv'
  BY <1>0, <1>1 DEF ContentInv, Settled, StartContent, MoeContent, Staged, Attended
<1>4. QED BY <1>0, <1>1, <1>2, <1>3, DeviceInv

(* A queued task is the MoE of the current slot, between stages 2 and 3. *)
LEMMA QueuedTask ==
  ASSUME IInv, queue # <<>>
  PROVE  /\ InMoe /\ i \in 1..Last /\ Stage(i, Done) \in {2, 3} /\ MoeContent /\ Settled
         /\ queue = <<MoeTask(i)>> /\ Staged(i)
<1>1. InMoe /\ Stage(i, Done) \in {2, 3} /\ MoeContent /\ Settled /\ i \in 1..Last
  BY LayersAssumption DEF IInv, ContentInv, InMoe, TypeInv, Last
<1>2. QED BY <1>1 DEF MoeContent

LEMMA TaskFinishInv == ASSUME IInv, TaskFinish PROVE IInv'
<1> DEFINE l == ML(i)
<1>0. /\ TypeInv /\ StreamInv /\ ContentInv
      /\ queue # <<>> /\ running = Head(queue) /\ queue' = Tail(queue)
      /\ UNCHANGED <<step, i, hpc, batch, hidden, residual, topk, waiting, closed, stream>>
      /\ DOMAIN value = Tensor
      /\ LET attended == <<running.mb, 2 * running.layer + 1>>
             good == value[running.src] = attended /\ value[running.ids] = attended
         IN value' = [value EXCEPT ![running.dst] =
                        IF good THEN <<running.mb, 2 * running.layer + 2>> ELSE Garbage]
  BY DEF IInv, TypeInv, TaskFinish, TQ!Finish, batch
<1>1. StreamInv' /\ Done' = Done /\ InMoe' = InMoe
  BY <1>0, SameStream
<1>2. /\ InMoe /\ i \in 1..Last /\ Stage(i, Done) \in {2, 3} /\ MoeContent /\ Settled
      /\ queue = <<MoeTask(i)>> /\ Staged(i)
  BY <1>0, QueuedTask
<1>3. running = MoeTask(i) /\ queue' = <<>>
  BY <1>0, <1>2
<1>4. value' = [value EXCEPT ![OutCpu(l % buffer_depth)] = <<M(i), 2 * l + 2>>]
  <2>1. /\ running.src = Input(l % buffer_depth) /\ running.mb = M(i) /\ running.layer = l
        /\ running.ids = Ids(l % buffer_depth) /\ running.dst = OutCpu(l % buffer_depth)
    BY <1>3 DEF MoeTask
  <2>2. QED BY <1>0, <1>2, <2>1 DEF Staged
<1>5. {Input(l % buffer_depth), Ids(l % buffer_depth), OutCpu(l % buffer_depth)} \subseteq Tensor
  BY <1>2, SlotArith DEF Tensor
<1>6. /\ Settled' /\ DOMAIN value' = Tensor
      /\ value'[OutCpu(l % buffer_depth)] = <<M(i), 2 * l + 2>>
      /\ \A u \in Tensor : u # OutCpu(l % buffer_depth) => value'[u] = value[u]
  <2>1. OutCpu(l % buffer_depth) \in Written(i) \cap Tensor
    BY <1>5 DEF Written
  <2>2. QED BY <1>0, <1>2, <1>4, <2>1, MoeWrite
<1>7. Staged(i)' /\ (Stage(i, Done) = 3 => Attended(i)')
  <2>1. OutCpu(l % buffer_depth) \notin {Input(l % buffer_depth), Ids(l % buffer_depth),
            AttnOut(A(i), AL(i)), Routed(A(i), AL(i))}
    BY Distinct
  <2>2. ML(i) % buffer_depth \in Slot /\ i' = i
    BY <1>0, <1>2, SlotArith
  <2>3. Stage(i, Done) = 3 => Attended(i)
    BY <1>2 DEF MoeContent
  <2>4. QED BY <1>2, <1>6, <2>1, <2>2, <2>3, ContentsKept
<1>8. MoeContent'
  <2>1. i' = i /\ Stage(i, Done)' = Stage(i, Done)
    BY <1>0, <1>1
  <2>2. QED BY <1>2, <1>3, <1>6, <1>7, <2>1 DEF MoeContent
<1>9. queue' \in Seq(AnOp)
  BY <1>3
<1>10. TypeInv'
  BY <1>0, <1>6, <1>9 DEF TypeInv
<1>11. ContentInv'
  BY <1>0, <1>1, <1>2, <1>3, <1>6, <1>8 DEF ContentInv, InMoe
<1>12. QED BY <1>0, <1>1, <1>10, <1>11, DeviceInv

LEMMA StutterInv == ASSUME IInv, UNCHANGED vars PROVE IInv'
<1>0. /\ TypeInv /\ StreamInv /\ ContentInv
      /\ UNCHANGED <<step, i, hpc, batch, hidden, residual, topk, queue, waiting, closed,
                     stream, value>>
  BY DEF IInv, vars, batch, fifo
<1>1. StreamInv' /\ Done' = Done /\ InMoe' = InMoe
  BY <1>0, SameStream
<1>2. TypeInv'
  BY <1>0 DEF TypeInv
<1>3. ContentInv'
  BY <1>0, <1>1 DEF ContentInv, Settled, StartContent, MoeContent, Staged, Attended
<1>4. QED BY <1>0, <1>1, <1>2, <1>3, DeviceInv

-----------------------------------------------------------------------------
LEMMA InvNext == IInv /\ [Next]_vars => IInv'
<1> SUFFICES ASSUME IInv, [Next]_vars PROVE IInv'
  OBVIOUS
<1>1. CASE Forward
  BY <1>1, ForwardInv
<1>2. CASE HostStep
  BY <1>2, StartupInv, OverlapInv, DrainInv, SynchronizeInv, ReturnNormedInv DEF HostStep
<1>3. CASE StreamStep
  BY <1>3, StreamEmbedInv, StreamLoadInv, StreamCopyInv, StreamAttnInv, StreamEnqueueInv,
     StreamSyncCallInv, StreamSyncReturnInv DEF StreamStep
<1>4. CASE WorkerStep
  BY <1>4, TaskStartInv, TaskFinishInv DEF WorkerStep
<1>5. CASE UNCHANGED vars
  BY <1>5, StutterInv
<1>6. QED BY <1>1, <1>2, <1>3, <1>4, <1>5 DEF Next, Finished

LEMMA Invariance == Spec => []IInv
<1>1. QED BY InvInit, InvNext, PTL DEF Spec

(* Whatever the number of layers, when the final norm of a decode step     *)
(* reads the two hidden states, each has been through all attentions and   *)
(* MoEs of its own microbatch, and its residual through all attentions.    *)
THEOREM BothCompleteSafe == Spec => []BothComplete
<1>1. IInv => BothComplete
  <2> SUFFICES ASSUME IInv, hpc = "norm"
               PROVE  \A mb \in MB : /\ value[hidden[mb]] = <<mb, 2 * Layers>>
                                     /\ residual[mb] = Layers
    BY DEF BothComplete
  <2>1. i = Last + 1 /\ Last \in Nat \ {0} /\ Settled /\ Registers(i)
    BY LayersAssumption DEF IInv, TypeInv, ContentInv, RegisterInv, Last
  <2>2. \A mb \in MB : Depth(mb, i) = 2 * Layers
    BY <2>1, LayersAssumption DEF Depth, Last
  <2>3. (2 * Layers + 1) \div 2 = Layers
    BY LayersAssumption
  <2>4. \A mb \in MB : /\ hidden[mb] = At(mb, 2 * Layers)
                       /\ residual[mb] = (2 * Layers + 1) \div 2
    BY <2>1, <2>2 DEF Registers
  <2>5. \A mb \in MB : value[At(mb, 2 * Layers)] = <<mb, 2 * Layers>>
    BY <2>1, <2>2 DEF Settled
  <2>6. QED BY <2>3, <2>4, <2>5
<1>2. QED BY <1>1, Invariance, PTL

(* While a MoE task waits or runs, the hidden state and the routing staged  *)
(* for it are those of its own microbatch and layer, although the staging  *)
(* slots are shared by both microbatches and by layers of equal parity.    *)
THEOREM RoutedInputStableSafe == Spec => []RoutedInputStable
<1>1. IInv => RoutedInputStable
  <2> SUFFICES ASSUME IInv, NEW k \in DOMAIN queue
               PROVE  LET attended == <<queue[k].mb, 2 * queue[k].layer + 1>>
                      IN  value[queue[k].src] = attended /\ value[queue[k].ids] = attended
    BY DEF RoutedInputStable
  <2>1. queue \in Seq(AnOp) /\ queue # <<>>
    BY DEF IInv, TypeInv
  <2>2. queue = <<MoeTask(i)>> /\ Staged(i)
    BY <2>1, QueuedTask
  <2>3. queue[k] = MoeTask(i)
    BY <2>2
  <2>4. QED BY <2>2, <2>3 DEF MoeTask, Staged
<1>2. QED BY <1>1, Invariance, PTL
=============================================================================
