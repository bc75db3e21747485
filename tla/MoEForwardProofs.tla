-------------------------- MODULE MoEForwardProofs --------------------------
(***************************************************************************)
(* Machine-checked theorems about MoEForward, for every number of layers,  *)
(* of passes, every set of batch sizes and every choice of the layers that *)
(* defer experts.                                                          *)
(*                                                                         *)
(* The argument: the operations of a pass form one sequence of positions   *)
(* <<layer, phase>>.  The host is at one position, the stream at an        *)
(* earlier one (the cursor), and the operations in the stream are those in *)
(* between.  The cursor bounds what the task queue can hold: at most the   *)
(* task the layer before deferred, the immediate task of the cursor's      *)
(* layer and the task this one deferred; and it tells what is in the       *)
(* slots these tasks use.                                                  *)
(*                                                                         *)
(* At the end, the theorems about DeferredExperts: whatever the scores, a  *)
(* row keeps its protected places, and the places of an expert are kept in *)
(* every row or in none.                                                   *)
(***************************************************************************)
EXTENDS MoEForward, DeferredExperts, SequenceTheorems, FiniteSetTheorems, TLAPS

(* D: the layers that defer, p: the pass, b: its batch size.               *)
(* Phases: load, enqueue immediate, load deferred, enqueue deferred, sync, *)
(* fetch; a layer that does not defer skips phases 2 and 3.                *)
Pos(l, ph) == <<l, ph>>
Position(D) == {x \in Nat \X (0..5) : x[2] \in {2, 3} => x[1] \in D}
Succ(D, x) == IF x[2] = 1 /\ x[1] \notin D THEN Pos(x[1], 4)
              ELSE IF x[2] = 5 THEN Pos(x[1] + 1, 0)
              ELSE Pos(x[1], x[2] + 1)

ImmTask(D, p, b, l) ==
  [kind |-> "imm", tag |-> <<p, l>>, b |-> b, slot |-> l % 2, dst |-> l % 2,
   incremental |-> l - 1 \in D]
DefTask(p, b, l) ==
  [kind |-> "def", tag |-> <<p, l>>, b |-> b, slot |-> l % 2, dst |-> (l + 1) % 2,
   incremental |-> FALSE]

SlotOp(kind, p, b, l) == [op |-> kind, tag |-> <<p, l>>, b |-> b, slot |-> l % 2]
TaskOp(t, b) == [op |-> "enqueue", task |-> t, b |-> b]
SyncOp(D, b, l) == [op |-> "sync", allow |-> IF l \in D THEN 1 ELSE 0, b |-> b]

PhaseOp(D, p, b, l, ph) ==
  IF ph = 0 THEN SlotOp("load", p, b, l)
  ELSE IF ph = 1 THEN TaskOp(ImmTask(D, p, b, l), b)
  ELSE IF ph = 2 THEN SlotOp("load_deferred", p, b, l)
  ELSE IF ph = 3 THEN TaskOp(DefTask(p, b, l), b)
  ELSE IF ph = 4 THEN SyncOp(D, b, l)
  ELSE SlotOp("fetch", p, b, l)
OpOf(D, p, b, x) == PhaseOp(D, p, b, x[1], x[2])
AnOp(D, p, b) == {OpOf(D, p, b, x) : x \in Position(D)}

(* The operations from position c up to position x, excluded *)
Chained(D, p, b, q, c, x) ==
  \E pos \in [1..(Len(q) + 1) -> Position(D)] :
    /\ pos[1] = c /\ pos[Len(q) + 1] = x
    /\ \A j \in 1..Len(q) : /\ q[j] = OpOf(D, p, b, pos[j])
                            /\ pos[j + 1] = Succ(D, pos[j])

HostPosition == IF hpc = "submit" THEN Pos(layer, 0)
                ELSE IF hpc = "sync" THEN Pos(layer, 4)
                ELSE IF hpc = "end" THEN Pos(Layers, 0)
                ELSE Pos(0, 0)

(* The tasks of left, in the order in which they entered the queue *)
Left(D, p, b, l, left) ==
  LET older == DefTask(p, b, l - 1)
      imm == ImmTask(D, p, b, l)
      newer == DefTask(p, b, l)
  IN IF "older" \in left
       THEN IF "newer" \in left THEN <<older, imm, newer>>
            ELSE IF "imm" \in left THEN <<older, imm>> ELSE <<older>>
       ELSE IF "imm" \in left
              THEN IF "newer" \in left THEN <<imm, newer>> ELSE <<imm>>
              ELSE IF "newer" \in left THEN <<newer>> ELSE <<>>

(* Which tasks may be unfinished when the stream is at phase ph of layer l *)
MayBeLeft(l, ph, left) ==
  /\ left \subseteq {"older", "imm", "newer"}
  /\ "older" \in left => l - 1 \in deferring /\ ph # 5 /\ (ph >= 2 => "imm" \in left)
  /\ "imm" \in left => ph \in 2..4 /\ (ph = 4 /\ l \in deferring => "newer" \in left)
  /\ "newer" \in left => ph \in {4, 5} /\ l \in deferring

(* What the slots hold then *)
InputContent(l, ph, left) ==
  /\ ph >= 1 => input[batch][l % 2] = <<pass, l>>
  /\ ph >= 3 /\ l \in deferring => deferred_ids[batch][l % 2] = <<pass, l>>
  /\ "older" \in left => /\ input[batch][(l + 1) % 2] = <<pass, l - 1>>
                         /\ deferred_ids[batch][(l + 1) % 2] = <<pass, l - 1>>
OutputContent(l, ph, left) ==
  /\ l - 1 \in deferring /\ "older" \notin left /\ (ph <= 1 \/ "imm" \in left) =>
       output_cpu[batch][l % 2] = {Expert(pass, l - 1, "def")}
  /\ ph >= 2 /\ "imm" \notin left => output_cpu[batch][l % 2] = Expected(pass, l)
  /\ ph >= 4 /\ l \in deferring /\ "newer" \notin left =>
       output_cpu[batch][(l + 1) % 2] = {Expert(pass, l, "def")}

Tasks(l, ph) ==
  \E left \in SUBSET {"older", "imm", "newer"} :
    /\ queue = Left(deferring, pass, batch, l, left)
    /\ MayBeLeft(l, ph, left)
    /\ InputContent(l, ph, left)
    /\ OutputContent(l, ph, left)

FlowInv ==
  \E l \in Nat, ph \in 0..5 :
    /\ Chained(deferring, pass, batch, stream, Pos(l, ph), HostPosition)
    /\ Tasks(l, ph)

Store(f) == DOMAIN f = Batch /\ \A b \in Batch : DOMAIN f[b] = Slot

TypeInv ==
  /\ deferring \subseteq 0..(Layers - 2)
  /\ hpc \in {"begin", "submit", "sync", "end"}
  /\ layer \in 0..(Layers - 1)
  /\ hpc # "begin" => batch \in Batch
  /\ has_pending_deferred \subseteq Nat
  /\ stream \in Seq(AnOp(deferring, pass, batch))
  /\ waiting \in [{Callback} -> {Null, 0, 1}] /\ closed = FALSE
  /\ Store(input) /\ Store(deferred_ids) /\ Store(output_cpu) /\ Store(output_gpu)

(* Between two passes, and before the first submit_forward of a pass has   *)
(* asked for the buffer                                                    *)
Idle == hpc = "begin" \/ (hpc = "submit" /\ layer = 0)

HostInv ==
  /\ hpc = "submit" /\ layer > 0 =>
       (layer - 1 \in has_pending_deferred <=> layer - 1 \in deferring)
  /\ hpc = "sync" => (layer \in has_pending_deferred <=> layer \in deferring)
  /\ Idle => stream = <<>> /\ queue = <<>>
  /\ ~Idle => Hit(batch)

SyncInv ==
  waiting[Callback] # Null => /\ stream # <<>> /\ Head(stream).op = "sync"
                              /\ waiting[Callback] = Head(stream).allow

IInv == TypeInv /\ HostInv /\ SyncInv /\ FlowInv /\ OutputComplete
-----------------------------------------------------------------------------
(* Positions and the operations between two of them *)

LEMMA SuccPosition ==
  ASSUME NEW D, NEW x \in Position(D)
  PROVE  Succ(D, x) \in Position(D)
<1>1. PICK l \in Nat, ph \in 0..5 : x = Pos(l, ph) /\ (ph \in {2, 3} => l \in D)
  BY DEF Position, Pos
<1>2. CASE ph = 1 /\ l \notin D
  BY <1>1, <1>2 DEF Position, Succ, Pos
<1>3. CASE ph = 5
  BY <1>1, <1>3 DEF Position, Succ, Pos
<1>4. CASE ph \notin {1, 5} \/ (ph = 1 /\ l \in D)
  <2>1. Succ(D, x) = Pos(l, ph + 1) /\ ph + 1 \in 0..5
    BY <1>1, <1>4 DEF Succ, Pos
  <2>2. ph + 1 \in {2, 3} => l \in D
    BY <1>1, <1>4
  <2>3. QED BY <2>1, <2>2 DEF Position, Pos
<1>5. QED BY <1>1, <1>2, <1>3, <1>4

LEMMA ChainEmpty ==
  ASSUME NEW D, NEW p, NEW b, NEW x \in Position(D)
  PROVE  Chained(D, p, b, <<>>, x, x)
<1> DEFINE pos == [j \in 1..(Len(<<>>) + 1) |-> x]
<1>1. Len(<<>>) = 0
  OBVIOUS
<1>2. pos \in [1..(Len(<<>>) + 1) -> Position(D)] /\ pos[1] = x /\ pos[Len(<<>>) + 1] = x
  BY <1>1
<1>3. \A j \in 1..Len(<<>>) : FALSE
  BY <1>1
<1>4. QED BY <1>2, <1>3 DEF Chained

LEMMA ChainNone ==
  ASSUME NEW D, NEW p, NEW b, NEW c, NEW x, Chained(D, p, b, <<>>, c, x)
  PROVE  c = x /\ c \in Position(D)
BY DEF Chained

LEMMA ChainTail ==
  ASSUME NEW D, NEW p, NEW b, NEW c, NEW x, NEW q \in Seq(AnOp(D, p, b)), q # <<>>,
         Chained(D, p, b, q, c, x)
  PROVE  /\ c \in Position(D) /\ Head(q) = OpOf(D, p, b, c)
         /\ Succ(D, c) \in Position(D)
         /\ Chained(D, p, b, Tail(q), Succ(D, c), x)
         /\ Tail(q) \in Seq(AnOp(D, p, b))
<1>1. PICK pos \in [1..(Len(q) + 1) -> Position(D)] :
        /\ pos[1] = c /\ pos[Len(q) + 1] = x
        /\ \A j \in 1..Len(q) : /\ q[j] = OpOf(D, p, b, pos[j])
                                /\ pos[j + 1] = Succ(D, pos[j])
  BY DEF Chained
<1>2. /\ Len(q) \in Nat \ {0} /\ Len(Tail(q)) = Len(q) - 1
      /\ Tail(q) \in Seq(AnOp(D, p, b))
      /\ \A j \in 1..(Len(q) - 1) : Tail(q)[j] = q[j + 1]
      /\ Head(q) = q[1]
  OBVIOUS
<1>3. c \in Position(D) /\ Head(q) = OpOf(D, p, b, c) /\ pos[2] = Succ(D, c)
      /\ pos[2] \in Position(D)
  BY <1>1, <1>2
<1> DEFINE tail == [j \in 1..(Len(Tail(q)) + 1) |-> pos[j + 1]]
<1>4. /\ tail \in [1..(Len(Tail(q)) + 1) -> Position(D)]
      /\ tail[1] = Succ(D, c) /\ tail[Len(Tail(q)) + 1] = x
  BY <1>1, <1>2, <1>3
<1>5. ASSUME NEW j \in 1..Len(Tail(q))
      PROVE  /\ Tail(q)[j] = OpOf(D, p, b, tail[j])
             /\ tail[j + 1] = Succ(D, tail[j])
  <2>1. j \in 1..(Len(q) - 1) /\ j + 1 \in 1..Len(q) /\ j + 1 \in 1..(Len(Tail(q)) + 1)
        /\ j \in 1..(Len(Tail(q)) + 1)
    BY <1>2
  <2>2. tail[j] = pos[j + 1] /\ tail[j + 1] = pos[(j + 1) + 1] /\ Tail(q)[j] = q[j + 1]
    BY <1>2, <2>1
  <2>3. QED BY <1>1, <2>1, <2>2
<1>6. Chained(D, p, b, Tail(q), Succ(D, c), x)
  BY <1>4, <1>5 DEF Chained
<1>7. QED BY <1>2, <1>3, <1>6

LEMMA SuccAt ==
  ASSUME NEW D, NEW l
  PROVE  /\ Succ(D, Pos(l, 0)) = Pos(l, 1)
         /\ Succ(D, Pos(l, 1)) = IF l \in D THEN Pos(l, 2) ELSE Pos(l, 4)
         /\ Succ(D, Pos(l, 2)) = Pos(l, 3)
         /\ Succ(D, Pos(l, 3)) = Pos(l, 4)
         /\ Succ(D, Pos(l, 4)) = Pos(l, 5)
         /\ Succ(D, Pos(l, 5)) = Pos(l + 1, 0)
BY DEF Succ, Pos

LEMMA OpAt ==
  ASSUME NEW D, NEW p, NEW b, NEW l
  PROVE  /\ OpOf(D, p, b, Pos(l, 0)) = SlotOp("load", p, b, l)
         /\ OpOf(D, p, b, Pos(l, 1)) = TaskOp(ImmTask(D, p, b, l), b)
         /\ OpOf(D, p, b, Pos(l, 2)) = SlotOp("load_deferred", p, b, l)
         /\ OpOf(D, p, b, Pos(l, 3)) = TaskOp(DefTask(p, b, l), b)
         /\ OpOf(D, p, b, Pos(l, 4)) = SyncOp(D, b, l)
         /\ OpOf(D, p, b, Pos(l, 5)) = SlotOp("fetch", p, b, l)
BY DEF OpOf, PhaseOp, Pos

(* The host issues operations two at a time. *)
AppendTwo(q, o1, o2) == q \o <<o1, o2>>
LEMMA ChainTwo ==
  ASSUME NEW D, NEW p, NEW b, NEW c, NEW x, NEW q \in Seq(AnOp(D, p, b)),
         Chained(D, p, b, q, c, x),
         NEW r, r = AppendTwo(q, OpOf(D, p, b, x), OpOf(D, p, b, Succ(D, x)))
  PROVE  /\ r \in Seq(AnOp(D, p, b)) /\ Len(r) = Len(q) + 2
         /\ Chained(D, p, b, r, c, Succ(D, Succ(D, x)))
         /\ q # <<>> => r # <<>> /\ Head(r) = Head(q)
<1> DEFINE n == Len(q)
           y == Succ(D, x)
           z == Succ(D, Succ(D, x))
<1>1. PICK pos \in [1..(n + 1) -> Position(D)] :
        /\ pos[1] = c /\ pos[n + 1] = x
        /\ \A j \in 1..n : /\ q[j] = OpOf(D, p, b, pos[j])
                           /\ pos[j + 1] = Succ(D, pos[j])
  BY DEF Chained
<1>2. n \in Nat
  OBVIOUS
<1>3. x \in Position(D) /\ y \in Position(D) /\ z \in Position(D)
  BY <1>1, <1>2, SuccPosition
<1>4. OpOf(D, p, b, x) \in AnOp(D, p, b) /\ OpOf(D, p, b, y) \in AnOp(D, p, b)
  BY <1>3 DEF AnOp
<1>5. /\ r \in Seq(AnOp(D, p, b)) /\ Len(r) = n + 2
      /\ r[n + 1] = OpOf(D, p, b, x) /\ r[n + 2] = OpOf(D, p, b, y)
      /\ \A j \in 1..n : r[j] = q[j]
  BY <1>4 DEF AppendTwo
<1> DEFINE longer == [j \in 1..(Len(r) + 1) |-> IF j <= n + 1 THEN pos[j]
                                               ELSE IF j = n + 2 THEN y ELSE z]
<1>6. longer \in [1..(Len(r) + 1) -> Position(D)]
  <2>1. ASSUME NEW j \in 1..(Len(r) + 1), j <= n + 1 PROVE pos[j] \in Position(D)
    BY <1>1, <1>2, <2>1
  <2>2. QED BY <1>3, <2>1
<1>7. /\ longer[1] = c /\ longer[Len(r) + 1] = z
      /\ longer[n + 1] = x /\ longer[n + 2] = y /\ longer[n + 3] = z
      /\ \A j \in 1..n : longer[j] = pos[j] /\ longer[j + 1] = pos[j + 1]
  BY <1>1, <1>2, <1>5
<1>8. ASSUME NEW j \in 1..Len(r)
      PROVE  r[j] = OpOf(D, p, b, longer[j]) /\ longer[j + 1] = Succ(D, longer[j])
  <2>1. CASE j \in 1..n
    BY <1>1, <1>5, <1>7, <2>1
  <2>2. CASE j = n + 1
    BY <1>2, <1>5, <1>7, <2>2
  <2>3. CASE j = n + 2
    BY <1>2, <1>5, <1>7, <2>3
  <2>4. QED BY <1>2, <1>5, <2>1, <2>2, <2>3
<1>9. Chained(D, p, b, r, c, z)
  BY <1>6, <1>7, <1>8 DEF Chained
<1>10. ASSUME q # <<>> PROVE r # <<>> /\ Head(r) = Head(q)
  <2>1. n \in Nat \ {0}
    BY <1>10
  <2>2. Head(q) = q[1] /\ Head(r) = r[1] /\ r # <<>>
    BY <1>5, <2>1, <1>10
  <2>3. QED BY <1>5, <2>1, <2>2
<1>11. QED BY <1>5, <1>9, <1>10

-----------------------------------------------------------------------------
(* What the queue holds *)

Three == {"older", "imm", "newer"}

LEMMA AppendThird ==
  ASSUME NEW x, NEW y, NEW z
  PROVE  Append(<<x, y>>, z) = <<x, y, z>>
<1> DEFINE S == {x, y, z}
           s == Append(<<x, y>>, z)
           t == <<x, y, z>>
<1>1. <<x, y>> \in Seq(S) /\ t \in Seq(S) /\ Len(<<x, y>>) = 2 /\ Len(t) = 3
  OBVIOUS
<1>2. s \in Seq(S) /\ Len(s) = 3
  BY <1>1
<1>3. s[1] = x /\ s[2] = y /\ s[3] = z
  OBVIOUS
<1>4. \A i \in 1..Len(s) : s[i] = t[i]
  BY <1>2, <1>3
<1> HIDE DEF s, t, S
<1>5. QED BY <1>1, <1>2, <1>4, SeqEqual DEF s, t

LEMMA LeftAppend ==
  ASSUME NEW D, NEW p, NEW b, NEW l, NEW left \in SUBSET Three, "newer" \notin left,
         NEW more
  PROVE  /\ "imm" \notin left /\ more = left \cup {"imm"} =>
              Left(D, p, b, l, more) = Append(Left(D, p, b, l, left), ImmTask(D, p, b, l))
         /\ ("older" \in left => "imm" \in left) /\ more = left \cup {"newer"} =>
              Left(D, p, b, l, more) = Append(Left(D, p, b, l, left), DefTask(p, b, l))
<1>1. CASE "imm" \notin left /\ "older" \notin left
  BY <1>1 DEF Left, Three
<1>2. CASE "imm" \notin left /\ "older" \in left
  BY <1>2 DEF Left, Three
<1>3. CASE "imm" \in left /\ "older" \notin left
  BY <1>3 DEF Left, Three
<1>4. CASE "imm" \in left /\ "older" \in left
  <2>1. /\ Left(D, p, b, l, left) = <<DefTask(p, b, l - 1), ImmTask(D, p, b, l)>>
        /\ Left(D, p, b, l, left \cup {"newer"}) =
             <<DefTask(p, b, l - 1), ImmTask(D, p, b, l), DefTask(p, b, l)>>
    BY <1>4 DEF Left
  <2>2. QED BY <1>4, <2>1, AppendThird
<1>5. QED BY <1>1, <1>2, <1>3, <1>4

LEMMA LeftHead ==
  ASSUME NEW D, NEW p, NEW b, NEW l, NEW left \in SUBSET Three,
         "older" \in left /\ "newer" \in left => "imm" \in left, NEW fewer
  PROVE  /\ "older" \in left =>
              /\ Head(Left(D, p, b, l, left)) = DefTask(p, b, l - 1)
              /\ fewer = left \ {"older"} =>
                   Left(D, p, b, l, fewer) = Tail(Left(D, p, b, l, left))
         /\ "older" \notin left /\ "imm" \in left =>
              /\ Head(Left(D, p, b, l, left)) = ImmTask(D, p, b, l)
              /\ fewer = left \ {"imm"} =>
                   Left(D, p, b, l, fewer) = Tail(Left(D, p, b, l, left))
         /\ "older" \notin left /\ "imm" \notin left /\ "newer" \in left =>
              /\ Head(Left(D, p, b, l, left)) = DefTask(p, b, l)
              /\ fewer = left \ {"newer"} =>
                   Left(D, p, b, l, fewer) = Tail(Left(D, p, b, l, left))
         /\ left = {} => Left(D, p, b, l, left) = <<>>
<1>1. CASE "older" \in left
  BY <1>1 DEF Left, Three
<1>2. CASE "older" \notin left /\ "imm" \in left
  BY <1>2 DEF Left, Three
<1>3. CASE "older" \notin left /\ "imm" \notin left
  BY <1>3 DEF Left, Three
<1>4. QED BY <1>1, <1>2, <1>3

LEMMA LeftElements ==
  ASSUME NEW D, NEW p, NEW b, NEW l, NEW left \in SUBSET Three,
         "older" \in left /\ "newer" \in left => "imm" \in left,
         NEW q, q = Left(D, p, b, l, left), NEW i \in DOMAIN q
  PROVE  \/ "older" \in left /\ q[i] = DefTask(p, b, l - 1)
         \/ "imm" \in left /\ q[i] = ImmTask(D, p, b, l)
         \/ "newer" \in left /\ q[i] = DefTask(p, b, l)
<1>1. CASE "older" \in left
  BY <1>1 DEF Left, Three
<1>2. CASE "older" \notin left /\ "imm" \in left
  BY <1>2 DEF Left, Three
<1>3. CASE "older" \notin left /\ "imm" \notin left
  BY <1>3 DEF Left, Three
<1>4. QED BY <1>1, <1>2, <1>3

LEMMA LeftLen ==
  ASSUME NEW D, NEW p, NEW b, NEW l, NEW left \in SUBSET Three
  PROVE  /\ Len(Left(D, p, b, l, left)) <= 0 => left = {}
         /\ Len(Left(D, p, b, l, left)) <= 1 =>
              /\ "newer" \in left => "imm" \notin left
              /\ "older" \in left => "imm" \notin left
BY DEF Left, Three

(* The task a layer deferred is the older one of the next layer. *)
LEMMA LeftNext ==
  ASSUME NEW D, NEW p, NEW b, NEW l \in Nat, NEW left \in SUBSET {"newer"}
  PROVE  Left(D, p, b, l, left) =
           Left(D, p, b, l + 1, IF "newer" \in left THEN {"older"} ELSE {})
<1>1. (l + 1) - 1 = l
  OBVIOUS
<1>2. QED BY <1>1 DEF Left

LEMMA Parity ==
  ASSUME NEW l \in Nat
  PROVE  /\ l % 2 \in Slot /\ (l + 1) % 2 \in Slot /\ l % 2 # (l + 1) % 2
         /\ ((l + 1) + 1) % 2 = l % 2 /\ (l + 1) - 1 = l /\ (l - 1) + 1 = l
         /\ l >= 1 => (l - 1) % 2 = (l + 1) % 2
         /\ layer \in Nat => ((layer % 2) + 1) % 2 = (layer + 1) % 2
BY DEF Slot, buffer_depth

Write(f, b, s, v) == [f EXCEPT ![b][s] = v]
LEMMA StoreWrite ==
  ASSUME NEW f, Store(f), NEW b \in Batch, NEW s \in Slot, NEW v, NEW g,
         g = Write(f, b, s, v)
  PROVE  /\ Store(g) /\ g[b][s] = v
         /\ \A c \in Batch, t \in Slot : c # b \/ t # s => g[c][t] = f[c][t]
<1>1. g = [f EXCEPT ![b] = [f[b] EXCEPT ![s] = v]]
  BY DEF Write
<1>2. QED BY <1>1 DEF Store

(* Which operation is executed at which phase, and the next phase *)
LEMMA Phases ==
  ASSUME NEW D, NEW p, NEW b, NEW l, NEW ph \in 0..5
  PROVE  LET o == OpOf(D, p, b, Pos(l, ph)) IN
         /\ o.op = "load" => ph = 0
         /\ o.op = "enqueue" => ph \in {1, 3}
         /\ o.op = "load_deferred" => ph = 2
         /\ o.op = "sync" => ph = 4
         /\ o.op = "fetch" => ph = 5
BY OpAt DEF SlotOp, TaskOp, SyncOp

LEMMA OpBuffer ==
  ASSUME NEW D, NEW p, NEW b, NEW o \in AnOp(D, p, b)
  PROVE  o.b = b
BY DEF AnOp, OpOf, PhaseOp, SlotOp, TaskOp, SyncOp

-----------------------------------------------------------------------------
(* The host *)

LEMMA IdleTasks == deferring \subseteq Nat /\ queue = <<>> => Tasks(0, 0)
<1> SUFFICES ASSUME deferring \subseteq Nat, queue = <<>> PROVE Tasks(0, 0)
  OBVIOUS
<1>1. Left(deferring, pass, batch, 0, {}) = <<>>
  BY DEF Left
<1>2. MayBeLeft(0, 0, {})
  BY DEF MayBeLeft
<1>3. InputContent(0, 0, {}) /\ OutputContent(0, 0, {})
  BY DEF InputContent, OutputContent
<1>4. QED BY <1>1, <1>2, <1>3 DEF Tasks

LEMMA SameTasks ==
  ASSUME NEW l, NEW ph, Tasks(l, ph),
         UNCHANGED <<deferring, pass, batch, queue, input, deferred_ids, output_cpu>>
  PROVE  Tasks(l, ph)'
BY DEF Tasks, MayBeLeft, InputContent, OutputContent, Expected

(* Between two passes the stream and the queue are at the first position. *)
Start == /\ deferring \subseteq Nat /\ queue = <<>> /\ stream = <<>>
         /\ HostPosition = Pos(0, 0)

LEMMA StartFlow == Start => FlowInv
<1> SUFFICES ASSUME Start PROVE FlowInv
  OBVIOUS
<1>1. Tasks(0, 0)
  BY IdleTasks DEF Start
<1>2. Pos(0, 0) \in Position(deferring)
  BY DEF Position, Pos
<1>3. Chained(deferring, pass, batch, stream, Pos(0, 0), HostPosition)
  BY <1>2, ChainEmpty DEF Start
<1>4. QED BY <1>1, <1>3 DEF FlowInv

LEMMA InvInit == Init => IInv
<1> SUFFICES ASSUME Init PROVE IInv
  OBVIOUS
<1> USE LayersAssumption DEF Init
<1>1. TypeInv
  <2>1. Store(input) /\ Store(deferred_ids) /\ Store(output_cpu) /\ Store(output_gpu)
    BY DEF Store, Empty
  <2>2. waiting \in [{Callback} -> {Null, 0, 1}] /\ closed = FALSE
    BY DEF TQ!Init
  <2>3. stream \in Seq(AnOp(deferring, pass, batch))
    OBVIOUS
  <2>4. QED BY <2>1, <2>2, <2>3 DEF TypeInv
<1>2. HostInv /\ SyncInv
  BY DEF HostInv, SyncInv, Idle, TQ!Init
<1>3. Start
  BY DEF Start, HostPosition, TQ!Init
<1>4. OutputComplete
  BY DEF OutputComplete, Empty
<1>5. QED BY <1>1, <1>2, <1>3, <1>4, StartFlow DEF IInv

(* The steps of the host between two passes *)
LEMMA BeginPassInv == ASSUME IInv, NEW b \in Batch, BeginPass(b) PROVE IInv'
<1>0. /\ TypeInv /\ HostInv /\ SyncInv /\ OutputComplete /\ hpc = "begin"
      /\ layer' = 0 /\ batch' = b /\ hpc' = "submit"
      /\ UNCHANGED <<deferring, has_pending_deferred, stream, queue, waiting, closed,
                     input, deferred_ids, output_cpu, output_gpu>>
  BY DEF IInv, BeginPass, fifo, store
<1>1. stream = <<>> /\ queue = <<>>
  BY <1>0 DEF HostInv, Idle
<1>2. TypeInv'
  <2>1. stream' \in Seq(AnOp(deferring, pass, batch)')
    BY <1>0, <1>1
  <2>2. QED BY <1>0, <2>1, LayersAssumption DEF TypeInv, Store
<1>3. HostInv' /\ SyncInv'
  BY <1>0, <1>1 DEF HostInv, SyncInv, Idle
<1>4. FlowInv'
  <2>1. Start'
    BY <1>0, <1>1 DEF Start, HostPosition, TypeInv
  <2>2. QED BY <2>1, StartFlow, PTL
<1>5. OutputComplete'
  BY <1>0 DEF OutputComplete, Expected
<1>6. QED BY <1>2, <1>3, <1>4, <1>5 DEF IInv

LEMMA BufferCallsInv ==
  ASSUME IInv, SetCaptureBatchSizes \/ ClearBufferCache PROVE IInv'
<1>0. /\ TypeInv /\ HostInv /\ SyncInv /\ OutputComplete /\ hpc = "begin"
      /\ UNCHANGED <<deferring, pass, batch, layer, hpc, has_pending_deferred, stream, queue,
                     waiting, closed, input, deferred_ids, output_cpu, output_gpu>>
  BY DEF IInv, SetCaptureBatchSizes, ClearBufferCache, fifo, store, host
<1>1. stream = <<>> /\ queue = <<>>
  BY <1>0 DEF HostInv, Idle
<1>2. TypeInv'
  BY <1>0 DEF TypeInv, Store
<1>3. HostInv' /\ SyncInv'
  BY <1>0, <1>1 DEF HostInv, SyncInv, Idle
<1>4. FlowInv'
  <2>1. Start'
    BY <1>0, <1>1 DEF Start, HostPosition, TypeInv
  <2>2. QED BY <2>1, StartFlow, PTL
<1>5. OutputComplete'
  BY <1>0 DEF OutputComplete, Expected
<1>6. QED BY <1>2, <1>3, <1>4, <1>5 DEF IInv

LEMMA EndPassInv == ASSUME IInv, EndPass PROVE IInv'
<1>0. /\ TypeInv /\ HostInv /\ SyncInv /\ FlowInv /\ OutputComplete
      /\ hpc = "end" /\ stream = <<>> /\ hpc' = "begin"
      /\ UNCHANGED <<deferring, pass, batch, layer, has_pending_deferred, stream, queue,
                     waiting, closed, input, deferred_ids, output_cpu, output_gpu>>
  BY DEF IInv, EndPass, fifo, store
<1>1. queue = <<>>
  <2>1. PICK l \in Nat, ph \in 0..5 :
          Chained(deferring, pass, batch, stream, Pos(l, ph), HostPosition) /\ Tasks(l, ph)
    BY <1>0 DEF FlowInv
  <2>2. l = Layers /\ ph = 0
    BY <1>0, <2>1, ChainNone DEF HostPosition, Pos
  <2>3. l - 1 \notin deferring
    BY <1>0, <2>2, LayersAssumption DEF TypeInv
  <2>4. PICK left \in SUBSET Three :
          queue = Left(deferring, pass, batch, l, left) /\ MayBeLeft(l, ph, left)
    BY <2>1 DEF Tasks, Three
  <2>5. left = {}
    BY <2>2, <2>3, <2>4 DEF MayBeLeft
  <2>6. QED BY <2>4, <2>5 DEF Left
<1>2. TypeInv'
  BY <1>0 DEF TypeInv, Store
<1>3. HostInv' /\ SyncInv'
  BY <1>0, <1>1 DEF HostInv, SyncInv, Idle
<1>4. FlowInv'
  <2>1. Start'
    BY <1>0, <1>1 DEF Start, HostPosition, TypeInv
  <2>2. QED BY <2>1, StartFlow, PTL
<1>5. OutputComplete'
  BY <1>0 DEF OutputComplete, Expected
<1>6. QED BY <1>2, <1>3, <1>4, <1>5 DEF IInv

(* get_buffer: a miss can only happen before anything is in flight. *)
LEMMA GetBufferInv ==
  ASSUME IInv, GetBuffer(batch), UNCHANGED <<deferring, batch>>, batch \in Batch
  PROVE  /\ Store(input)' /\ Store(deferred_ids)' /\ Store(output_cpu)' /\ Store(output_gpu)'
         /\ OutputComplete' /\ Hit(batch)'
         /\ \/ UNCHANGED <<pool, store>>
            \/ stream = <<>> /\ queue = <<>> /\ hpc = "submit" /\ layer = 0
            \/ hpc = "begin"
<1>0. TypeInv /\ HostInv /\ OutputComplete
  BY DEF IInv
<1>1. CASE Hit(batch)
  <2>1. UNCHANGED <<capture_bs, capture_buffers, temp_bs, input, deferred_ids, output_cpu,
                    output_gpu, pool, store>>
    BY <1>1 DEF GetBuffer, pool, store
  <2>2. OutputComplete'
    BY <1>0, <2>1 DEF OutputComplete, Expected
  <2>3. QED BY <1>0, <1>1, <2>1, <2>2 DEF TypeInv, Store, Hit
<1>2. CASE ~Hit(batch)
  <2>1. /\ temp_bs' = batch
        /\ input' = [input EXCEPT ![batch] = [s \in Slot |-> Null]]
        /\ deferred_ids' = [deferred_ids EXCEPT ![batch] = [s \in Slot |-> Null]]
        /\ output_cpu' = [output_cpu EXCEPT ![batch] = [s \in Slot |-> {}]]
        /\ output_gpu' = [output_gpu EXCEPT ![batch] = [s \in Slot |-> Null]]
    BY <1>2 DEF GetBuffer
  <2>2. Store(input)' /\ Store(deferred_ids)' /\ Store(output_cpu)' /\ Store(output_gpu)'
    BY <1>0, <2>1 DEF TypeInv, Store
  <2>3. OutputComplete'
    <3>1. \A b \in Batch, s \in Slot :
            output_gpu'[b][s] # Null => output_gpu'[b][s] = output_gpu[b][s]
      BY <1>0, <2>1 DEF TypeInv, Store
    <3>2. QED BY <1>0, <3>1 DEF OutputComplete, Expected
  <2>4. Hit(batch)'
    BY <2>1 DEF Hit
  <2>5. \/ stream = <<>> /\ queue = <<>> /\ hpc = "submit" /\ layer = 0
        \/ hpc = "begin"
    BY <1>0, <1>2 DEF HostInv, Idle
  <2>6. QED BY <2>2, <2>3, <2>4, <2>5
<1>3. QED BY <1>1, <1>2

(* The operations the host issues are those of its position. *)
LEMMA HostOps ==
  ASSUME IInv, layer \in Nat
  PROVE  /\ Op("load") = OpOf(deferring, pass, batch, Pos(layer, 0))
         /\ Op("load_deferred") = OpOf(deferring, pass, batch, Pos(layer, 2))
         /\ Op("fetch") = OpOf(deferring, pass, batch, Pos(layer, 5))
         /\ hpc = "submit" =>
              Enqueue(ForwardTask("imm", CurrentSlot, layer - 1 \in has_pending_deferred)) =
                OpOf(deferring, pass, batch, Pos(layer, 1))
         /\ Enqueue(ForwardTask("def", NextSlot, FALSE)) =
              OpOf(deferring, pass, batch, Pos(layer, 3))
         /\ hpc = "sync" =>
              [op |-> "sync", allow |-> AllowPending, b |-> batch] =
                OpOf(deferring, pass, batch, Pos(layer, 4))
<1>1. CurrentSlot = layer % 2 /\ NextSlot = (layer + 1) % 2 /\ Tag = <<pass, layer>>
  BY Parity DEF CurrentSlot, NextSlot, Tag, buffer_depth
<1>2. \A kind : Op(kind) = SlotOp(kind, pass, batch, layer)
  BY <1>1 DEF Op, SlotOp
<1>3. ASSUME hpc = "submit"
      PROVE  Enqueue(ForwardTask("imm", CurrentSlot, layer - 1 \in has_pending_deferred)) =
               TaskOp(ImmTask(deferring, pass, batch, layer), batch)
  <2>1. (layer - 1 \in has_pending_deferred) = (layer - 1 \in deferring)
    <3>1. CASE layer = 0
      BY <3>1 DEF IInv, TypeInv
    <3>2. CASE layer > 0
      BY <1>3, <3>2 DEF IInv, HostInv
    <3>3. QED BY <3>1, <3>2
  <2>2. ForwardTask("imm", CurrentSlot, layer - 1 \in has_pending_deferred) =
          ImmTask(deferring, pass, batch, layer)
    BY <1>1, <2>1 DEF ForwardTask, ImmTask
  <2>3. ImmTask(deferring, pass, batch, layer).b = batch
    BY DEF ImmTask
  <2>4. QED BY <2>2, <2>3 DEF Enqueue, TaskOp
<1>4. Enqueue(ForwardTask("def", NextSlot, FALSE)) =
        TaskOp(DefTask(pass, batch, layer), batch)
  BY <1>1 DEF Enqueue, ForwardTask, TaskOp, DefTask
<1>5. hpc = "sync" => [op |-> "sync", allow |-> AllowPending, b |-> batch] =
                        SyncOp(deferring, batch, layer)
  BY DEF IInv, HostInv, AllowPending, SyncOp
<1>6. /\ Op("load") = SlotOp("load", pass, batch, layer)
      /\ Op("load_deferred") = SlotOp("load_deferred", pass, batch, layer)
      /\ Op("fetch") = SlotOp("fetch", pass, batch, layer)
  BY <1>2
<1>7. /\ OpOf(deferring, pass, batch, Pos(layer, 0)) = SlotOp("load", pass, batch, layer)
      /\ OpOf(deferring, pass, batch, Pos(layer, 1)) =
           TaskOp(ImmTask(deferring, pass, batch, layer), batch)
      /\ OpOf(deferring, pass, batch, Pos(layer, 2)) =
           SlotOp("load_deferred", pass, batch, layer)
      /\ OpOf(deferring, pass, batch, Pos(layer, 3)) =
           TaskOp(DefTask(pass, batch, layer), batch)
      /\ OpOf(deferring, pass, batch, Pos(layer, 4)) = SyncOp(deferring, batch, layer)
      /\ OpOf(deferring, pass, batch, Pos(layer, 5)) = SlotOp("fetch", pass, batch, layer)
  BY OpAt
<1>8. QED BY <1>3, <1>4, <1>5, <1>6, <1>7

LEMMA SubmitForwardInv == ASSUME IInv, SubmitForward PROVE IInv'
<1> DEFINE imm == <<Op("load"), Enqueue(ForwardTask("imm", CurrentSlot,
                                          layer - 1 \in has_pending_deferred))>>
           def == <<Op("load_deferred"), Enqueue(ForwardTask("def", NextSlot, FALSE))>>
           defers == layer \in deferring
<1>a. /\ TypeInv /\ HostInv /\ SyncInv /\ FlowInv /\ OutputComplete
      /\ hpc = "submit" /\ batch \in Batch /\ layer \in Nat
  BY LayersAssumption DEF IInv, TypeInv, SubmitForward
<1>0. /\ TypeInv /\ HostInv /\ SyncInv /\ FlowInv /\ OutputComplete
      /\ hpc = "submit" /\ GetBuffer(batch) /\ hpc' = "sync" /\ batch \in Batch
      /\ layer \in Nat /\ layer' = layer
      /\ stream' = IF defers THEN stream \o imm \o def ELSE stream \o imm
      /\ has_pending_deferred' = IF defers THEN has_pending_deferred \cup {layer}
                                           ELSE has_pending_deferred \ {layer}
      /\ UNCHANGED <<deferring, pass, batch, layer, queue, waiting, closed>>
  BY <1>a DEF SubmitForward, fifo
<1>1. PICK l \in Nat, ph \in 0..5 :
        /\ Chained(deferring, pass, batch, stream, Pos(l, ph), Pos(layer, 0))
        /\ Tasks(l, ph)
  BY <1>0 DEF FlowInv, HostPosition
<1>2. /\ Store(input)' /\ Store(deferred_ids)' /\ Store(output_cpu)' /\ Store(output_gpu)'
      /\ OutputComplete' /\ Hit(batch)'
      /\ UNCHANGED <<pool, store>> \/ (stream = <<>> /\ queue = <<>> /\ layer = 0)
  BY <1>0, GetBufferInv
<1>3. /\ imm = <<OpOf(deferring, pass, batch, Pos(layer, 0)),
                 OpOf(deferring, pass, batch, Pos(layer, 1))>>
      /\ def = <<OpOf(deferring, pass, batch, Pos(layer, 2)),
                 OpOf(deferring, pass, batch, Pos(layer, 3))>>
  BY <1>0, HostOps
<1>4. /\ Succ(deferring, Pos(layer, 0)) = Pos(layer, 1)
      /\ Succ(deferring, Pos(layer, 1)) = IF defers THEN Pos(layer, 2) ELSE Pos(layer, 4)
      /\ Succ(deferring, Pos(layer, 2)) = Pos(layer, 3)
      /\ Succ(deferring, Pos(layer, 3)) = Pos(layer, 4)
  BY SuccAt
<1>5. /\ (stream \o imm) \in Seq(AnOp(deferring, pass, batch))
      /\ Chained(deferring, pass, batch, stream \o imm, Pos(l, ph),
                 IF defers THEN Pos(layer, 2) ELSE Pos(layer, 4))
      /\ stream # <<>> => stream \o imm # <<>> /\ Head(stream \o imm) = Head(stream)
  <2>1. stream \in Seq(AnOp(deferring, pass, batch))
    BY <1>0 DEF TypeInv
  <2> HIDE DEF imm, def, defers
  <2>2. stream \o imm = AppendTwo(stream, OpOf(deferring, pass, batch, Pos(layer, 0)),
          OpOf(deferring, pass, batch, Succ(deferring, Pos(layer, 0))))
    BY <1>3, <1>4 DEF AppendTwo
  <2>3. Succ(deferring, Succ(deferring, Pos(layer, 0))) =
          IF defers THEN Pos(layer, 2) ELSE Pos(layer, 4)
    BY <1>4
  <2>4. /\ (stream \o imm) \in Seq(AnOp(deferring, pass, batch))
        /\ Chained(deferring, pass, batch, stream \o imm, Pos(l, ph),
                   Succ(deferring, Succ(deferring, Pos(layer, 0))))
        /\ stream # <<>> => stream \o imm # <<>> /\ Head(stream \o imm) = Head(stream)
    BY <1>1, <2>1, <2>2, ChainTwo
  <2>5. QED BY <2>3, <2>4
<1>6. /\ stream' \in Seq(AnOp(deferring, pass, batch))
      /\ Chained(deferring, pass, batch, stream', Pos(l, ph), Pos(layer, 4))
      /\ stream # <<>> => stream' # <<>> /\ Head(stream') = Head(stream)
  <2> HIDE DEF imm, def
  <2>1. CASE ~defers
    BY <1>0, <1>5, <2>1
  <2>2. CASE defers
    <3>1. stream' = AppendTwo(stream \o imm, OpOf(deferring, pass, batch, Pos(layer, 2)),
            OpOf(deferring, pass, batch, Succ(deferring, Pos(layer, 2))))
      BY <1>0, <1>3, <1>4, <2>2 DEF AppendTwo
    <3>2. Succ(deferring, Succ(deferring, Pos(layer, 2))) = Pos(layer, 4)
      BY <1>4
    <3>3. /\ (stream \o imm) \in Seq(AnOp(deferring, pass, batch))
          /\ Chained(deferring, pass, batch, stream \o imm, Pos(l, ph), Pos(layer, 2))
      BY <1>5, <2>2
    <3>4. /\ stream' \in Seq(AnOp(deferring, pass, batch))
          /\ Chained(deferring, pass, batch, stream', Pos(l, ph),
                     Succ(deferring, Succ(deferring, Pos(layer, 2))))
          /\ stream \o imm # <<>> => stream' # <<>> /\ Head(stream') = Head(stream \o imm)
      <4> DEFINE q == stream \o imm
                 x == Pos(layer, 2)
      <4>1. /\ q \in Seq(AnOp(deferring, pass, batch))
            /\ Chained(deferring, pass, batch, q, Pos(l, ph), x)
            /\ stream' = AppendTwo(q, OpOf(deferring, pass, batch, x),
                            OpOf(deferring, pass, batch, Succ(deferring, x)))
        BY <3>1, <3>3
      <4> HIDE DEF q, x
      <4>2. /\ stream' \in Seq(AnOp(deferring, pass, batch))
            /\ Chained(deferring, pass, batch, stream', Pos(l, ph),
                       Succ(deferring, Succ(deferring, x)))
            /\ q # <<>> => stream' # <<>> /\ Head(stream') = Head(q)
        BY <4>1, ChainTwo
      <4>3. QED BY <4>2 DEF q, x
    <3>5. QED BY <1>5, <3>2, <3>4
  <2>3. QED BY <2>1, <2>2
<1>7. TypeInv'
  BY <1>0, <1>2, <1>6 DEF TypeInv
<1>8. HostInv'
  BY <1>0, <1>2 DEF HostInv, Idle
<1>9. SyncInv'
  BY <1>0, <1>6 DEF SyncInv
<1>10. FlowInv'
  <2>1. Tasks(l, ph)'
    <3>1. CASE UNCHANGED <<pool, store>>
      BY <1>0, <1>1, <3>1, SameTasks DEF store
    <3>2. CASE stream = <<>> /\ queue = <<>> /\ layer = 0
      <4>1. l = 0 /\ ph = 0
        BY <1>1, <3>2, ChainNone DEF Pos
      <4>2. (deferring \subseteq Nat /\ queue = <<>>)'
        BY <1>0, <3>2 DEF TypeInv
      <4>3. Tasks(0, 0)'
        BY <4>2, IdleTasks, PTL
      <4>4. QED BY <4>1, <4>3
    <3>3. QED BY <1>2, <3>1, <3>2
  <2>2. HostPosition' = Pos(layer, 4)
    BY <1>0 DEF HostPosition
  <2>3. Chained(deferring, pass, batch, stream, Pos(l, ph), HostPosition)'
    BY <1>0, <1>6, <2>2
  <2>4. QED BY <2>1, <2>3 DEF FlowInv
<1>11. QED BY <1>2, <1>7, <1>8, <1>9, <1>10 DEF IInv

LEMMA SyncForwardInv == ASSUME IInv, SyncForward PROVE IInv'
<1>0. /\ TypeInv /\ HostInv /\ SyncInv /\ FlowInv /\ OutputComplete
      /\ hpc = "sync" /\ GetBuffer(batch) /\ batch \in Batch
      /\ layer \in Nat
      /\ stream' = stream \o <<[op |-> "sync", allow |-> AllowPending, b |-> batch],
                               Op("fetch")>>
      /\ IF layer + 1 < Layers THEN layer' = layer + 1 /\ hpc' = "submit"
                               ELSE layer' = layer /\ hpc' = "end" /\ layer + 1 = Layers
      /\ UNCHANGED <<deferring, pass, batch, has_pending_deferred, queue, waiting, closed>>
  BY LayersAssumption DEF IInv, TypeInv, SyncForward, fifo
<1>1. PICK l \in Nat, ph \in 0..5 :
        /\ Chained(deferring, pass, batch, stream, Pos(l, ph), Pos(layer, 4))
        /\ Tasks(l, ph)
  BY <1>0 DEF FlowInv, HostPosition
<1>2. /\ Store(input)' /\ Store(deferred_ids)' /\ Store(output_cpu)' /\ Store(output_gpu)'
      /\ OutputComplete' /\ Hit(batch)' /\ UNCHANGED <<pool, store>>
  BY <1>0, GetBufferInv
<1>3. /\ Succ(deferring, Pos(layer, 4)) = Pos(layer, 5)
      /\ Succ(deferring, Pos(layer, 5)) = Pos(layer + 1, 0)
  BY SuccAt
<1>4. /\ stream' \in Seq(AnOp(deferring, pass, batch))
      /\ Chained(deferring, pass, batch, stream', Pos(l, ph), Pos(layer + 1, 0))
      /\ stream # <<>> => stream' # <<>> /\ Head(stream') = Head(stream)
  <2>1. stream \in Seq(AnOp(deferring, pass, batch))
    BY <1>0 DEF TypeInv
  <2>2. stream' = AppendTwo(stream, OpOf(deferring, pass, batch, Pos(layer, 4)),
          OpOf(deferring, pass, batch, Succ(deferring, Pos(layer, 4))))
    BY <1>0, <1>3, HostOps DEF AppendTwo
  <2>3. QED BY <1>1, <1>3, <2>1, <2>2, ChainTwo
<1>5. TypeInv'
  <2>1. layer' \in 0..(Layers - 1) /\ hpc' \in {"submit", "end"}
    BY <1>0, LayersAssumption
  <2>2. QED BY <1>0, <1>2, <1>4, <2>1 DEF TypeInv
<1>6. HostInv'
  <2>1. hpc' \in {"submit", "end"} /\ (hpc' = "submit" => layer' = layer + 1)
    BY <1>0
  <2>2. ~Idle'
    BY <1>0, <2>1 DEF Idle
  <2>3. (layer + 1) - 1 = layer /\ (layer \in has_pending_deferred <=> layer \in deferring)
    BY <1>0 DEF HostInv
  <2>4. QED BY <1>0, <1>2, <2>1, <2>2, <2>3 DEF HostInv
<1>7. SyncInv'
  BY <1>0, <1>4 DEF SyncInv
<1>8. FlowInv'
  <2>1. Tasks(l, ph)'
    BY <1>0, <1>1, <1>2, SameTasks DEF store
  <2>2. HostPosition' = Pos(layer + 1, 0)
    BY <1>0 DEF HostPosition
  <2>3. Chained(deferring, pass, batch, stream, Pos(l, ph), HostPosition)'
    BY <1>0, <1>4, <2>2
  <2>4. QED BY <2>1, <2>3 DEF FlowInv
<1>9. QED BY <1>2, <1>5, <1>6, <1>7, <1>8 DEF IInv

-----------------------------------------------------------------------------
(* The stream and the worker *)

LEMMA DeviceInv ==
  ASSUME IInv, UNCHANGED <<deferring, host, pool, closed>>,
         Store(input)', Store(deferred_ids)', Store(output_cpu)', Store(output_gpu)',
         stream' \in Seq(AnOp(deferring, pass, batch)'),
         waiting' \in [{Callback} -> {Null, 0, 1}],
         stream = <<>> /\ queue = <<>> => stream' = <<>> /\ queue' = <<>>,
         SyncInv', FlowInv', OutputComplete'
  PROVE  IInv'
<1>1. /\ TypeInv /\ HostInv
      /\ UNCHANGED <<deferring, pass, layer, batch, hpc, has_pending_deferred,
                     capture_buffers, temp_bs, closed>>
  BY DEF IInv, host, pool
<1>2. TypeInv'
  BY <1>1 DEF TypeInv
<1>3. HostInv'
  BY <1>1 DEF HostInv, Idle, Hit
<1>4. QED BY <1>2, <1>3 DEF IInv

(* The stream executes the operation at the cursor. *)
LEMMA StreamPop ==
  ASSUME IInv, stream # <<>>, Pop, UNCHANGED <<deferring, host>>
  PROVE  /\ stream' \in Seq(AnOp(deferring, pass, batch)') /\ batch \in Batch
         /\ \E l \in Nat, ph \in 0..5 :
              /\ Head(stream) = OpOf(deferring, pass, batch, Pos(l, ph))
              /\ ph \in {2, 3} => l \in deferring
              /\ Tasks(l, ph)
              /\ \A k \in Nat, h \in 0..5 :
                   Succ(deferring, Pos(l, ph)) = Pos(k, h) /\ Tasks(k, h)' => FlowInv'
<1>1. /\ TypeInv /\ HostInv /\ stream' = Tail(stream)
      /\ UNCHANGED <<deferring, pass, layer, batch, hpc, has_pending_deferred>>
  BY DEF IInv, host, Pop
<1>2. PICK l \in Nat, ph \in 0..5 :
        /\ Chained(deferring, pass, batch, stream, Pos(l, ph), HostPosition)
        /\ Tasks(l, ph)
  BY DEF IInv, FlowInv
<1>3. batch \in Batch
  BY <1>1 DEF HostInv, TypeInv, Idle
<1>4. stream \in Seq(AnOp(deferring, pass, batch))
  BY <1>1 DEF TypeInv
<1>5. /\ Pos(l, ph) \in Position(deferring)
      /\ Head(stream) = OpOf(deferring, pass, batch, Pos(l, ph))
      /\ Chained(deferring, pass, batch, stream', Succ(deferring, Pos(l, ph)), HostPosition)
      /\ stream' \in Seq(AnOp(deferring, pass, batch))
  BY <1>1, <1>2, <1>4, ChainTail
<1>6. ph \in {2, 3} => l \in deferring
  BY <1>5 DEF Position, Pos
<1>7. HostPosition' = HostPosition
  BY <1>1 DEF HostPosition
<1>8. ASSUME NEW k \in Nat, NEW h \in 0..5,
             Succ(deferring, Pos(l, ph)) = Pos(k, h), Tasks(k, h)'
      PROVE  FlowInv'
  <2>1. Chained(deferring, pass, batch, stream, Pos(k, h), HostPosition)'
    BY <1>1, <1>5, <1>7, <1>8
  <2>2. QED BY <1>8, <2>1 DEF FlowInv
<1>9. stream' \in Seq(AnOp(deferring, pass, batch)')
  BY <1>1, <1>5
<1>10. QED BY <1>2, <1>3, <1>5, <1>6, <1>8, <1>9

LEMMA NotSync ==
  ASSUME IInv, stream # <<>>, Head(stream).op # "sync", waiting' = waiting
  PROVE  SyncInv'
BY DEF IInv, SyncInv

LEMMA StreamLoadInv == ASSUME IInv, StreamLoad PROVE IInv'
<1>0. /\ TypeInv /\ OutputComplete
      /\ stream # <<>> /\ Head(stream).op = "load" /\ Pop
      /\ input' = [input EXCEPT ![Head(stream).b][Head(stream).slot] = Head(stream).tag]
      /\ UNCHANGED <<deferring, host, pass, batch, pool, queue, running, waiting, closed,
                     deferred_ids, output_cpu, output_gpu>>
  BY DEF IInv, StreamLoad, Executing, fifo, host
<1>1. /\ stream' \in Seq(AnOp(deferring, pass, batch)') /\ batch \in Batch
  BY <1>0, StreamPop
<1>2. PICK l \in Nat, ph \in 0..5 :
        /\ Head(stream) = OpOf(deferring, pass, batch, Pos(l, ph))
        /\ ph \in {2, 3} => l \in deferring
        /\ Tasks(l, ph)
        /\ \A k \in Nat, h \in 0..5 :
             Succ(deferring, Pos(l, ph)) = Pos(k, h) /\ Tasks(k, h)' => FlowInv'
  BY <1>0, StreamPop
<1>3. ph = 0
  BY <1>0, <1>2, Phases
<1>4. /\ Head(stream).b = batch /\ Head(stream).slot = l % 2 /\ Head(stream).tag = <<pass, l>>
  <2>1. Head(stream) = SlotOp("load", pass, batch, l)
    BY <1>2, <1>3, OpAt
  <2>2. QED BY <2>1 DEF SlotOp
<1>5. /\ Store(input)' /\ input'[batch][l % 2] = <<pass, l>>
      /\ input'[batch][(l + 1) % 2] = input[batch][(l + 1) % 2]
  <2>1. input' = Write(input, batch, l % 2, <<pass, l>>)
    BY <1>0, <1>4 DEF Write
  <2>2. Store(input)
    BY <1>0 DEF TypeInv
  <2>3. l % 2 \in Slot /\ (l + 1) % 2 \in Slot /\ l % 2 # (l + 1) % 2
    BY Parity
  <2>4. /\ Store(input') /\ input'[batch][l % 2] = <<pass, l>>
        /\ \A c \in Batch, t \in Slot : c # batch \/ t # l % 2 => input'[c][t] = input[c][t]
    BY <1>1, <2>1, <2>2, <2>3, StoreWrite
  <2>5. QED BY <1>1, <2>3, <2>4 DEF Store
<1>6. PICK left \in SUBSET {"older", "imm", "newer"} :
        /\ queue = Left(deferring, pass, batch, l, left)
        /\ MayBeLeft(l, 0, left) /\ InputContent(l, 0, left) /\ OutputContent(l, 0, left)
  BY <1>2, <1>3 DEF Tasks
<1>7. Tasks(l, 1)'
  <2>1. queue' = Left(deferring, pass, batch, l, left)'
    BY <1>0, <1>6
  <2>2. MayBeLeft(l, 1, left)'
    BY <1>0, <1>6 DEF MayBeLeft
  <2>3. InputContent(l, 1, left)'
    <3>1. UNCHANGED <<pass, batch, deferring, deferred_ids>>
      BY <1>0
    <3>2. InputContent(l, 0, left)
      BY <1>6
    <3>3. QED BY ONLY <1>5, <3>1, <3>2 DEF InputContent
  <2>4. OutputContent(l, 1, left)'
    BY <1>0, <1>6 DEF OutputContent
  <2>5. QED BY <2>1, <2>2, <2>3, <2>4 DEF Tasks
<1>8. FlowInv'
  BY <1>2, <1>3, <1>7, SuccAt
<1>9. OutputComplete'
  BY <1>0 DEF OutputComplete, Expected
<1>10. SyncInv'
  BY <1>0, NotSync
<1>11. QED BY <1>0, <1>1, <1>5, <1>8, <1>9, <1>10, DeviceInv DEF TypeInv, Store

LEMMA StreamLoadDeferredInv == ASSUME IInv, StreamLoadDeferred PROVE IInv'
<1>0. /\ TypeInv /\ OutputComplete
      /\ stream # <<>> /\ Head(stream).op = "load_deferred" /\ Pop
      /\ deferred_ids' = [deferred_ids EXCEPT ![Head(stream).b][Head(stream).slot] =
                            Head(stream).tag]
      /\ UNCHANGED <<deferring, host, pass, batch, pool, queue, running, waiting, closed,
                     input, output_cpu, output_gpu>>
  BY DEF IInv, StreamLoadDeferred, Executing, fifo, host
<1>1. /\ stream' \in Seq(AnOp(deferring, pass, batch)') /\ batch \in Batch
  BY <1>0, StreamPop
<1>2. PICK l \in Nat, ph \in 0..5 :
        /\ Head(stream) = OpOf(deferring, pass, batch, Pos(l, ph))
        /\ ph \in {2, 3} => l \in deferring
        /\ Tasks(l, ph)
        /\ \A k \in Nat, h \in 0..5 :
             Succ(deferring, Pos(l, ph)) = Pos(k, h) /\ Tasks(k, h)' => FlowInv'
  BY <1>0, StreamPop
<1>3. ph = 2 /\ l \in deferring
  BY <1>0, <1>2, Phases
<1>4. /\ Head(stream).b = batch /\ Head(stream).slot = l % 2 /\ Head(stream).tag = <<pass, l>>
  <2>1. Head(stream) = SlotOp("load_deferred", pass, batch, l)
    BY <1>2, <1>3, OpAt
  <2>2. QED BY <2>1 DEF SlotOp
<1>5. /\ Store(deferred_ids)' /\ deferred_ids'[batch][l % 2] = <<pass, l>>
      /\ deferred_ids'[batch][(l + 1) % 2] = deferred_ids[batch][(l + 1) % 2]
  <2>1. deferred_ids' = Write(deferred_ids, batch, l % 2, <<pass, l>>)
    BY <1>0, <1>4 DEF Write
  <2>2. Store(deferred_ids)
    BY <1>0 DEF TypeInv
  <2>3. l % 2 \in Slot /\ (l + 1) % 2 \in Slot /\ l % 2 # (l + 1) % 2
    BY Parity
  <2>4. /\ Store(deferred_ids') /\ deferred_ids'[batch][l % 2] = <<pass, l>>
        /\ \A c \in Batch, t \in Slot :
             c # batch \/ t # l % 2 => deferred_ids'[c][t] = deferred_ids[c][t]
    BY <1>1, <2>1, <2>2, <2>3, StoreWrite
  <2>5. QED BY <1>1, <2>3, <2>4 DEF Store
<1>6. PICK left \in SUBSET {"older", "imm", "newer"} :
        /\ queue = Left(deferring, pass, batch, l, left)
        /\ MayBeLeft(l, 2, left) /\ InputContent(l, 2, left) /\ OutputContent(l, 2, left)
  BY <1>2, <1>3 DEF Tasks
<1>7. Tasks(l, 3)'
  <2>1. queue' = Left(deferring, pass, batch, l, left)'
    BY <1>0, <1>6
  <2>2. MayBeLeft(l, 3, left)'
    BY <1>0, <1>6 DEF MayBeLeft
  <2>3. InputContent(l, 3, left)'
    <3>1. UNCHANGED <<pass, batch, deferring, input>>
      BY <1>0
    <3>2. InputContent(l, 2, left)
      BY <1>6
    <3>3. QED BY ONLY <1>5, <3>1, <3>2 DEF InputContent
  <2>4. OutputContent(l, 3, left)'
    BY <1>0, <1>6 DEF OutputContent, Expected
  <2>5. QED BY <2>1, <2>2, <2>3, <2>4 DEF Tasks
<1>8. FlowInv'
  BY <1>2, <1>3, <1>7, SuccAt
<1>9. OutputComplete'
  BY <1>0 DEF OutputComplete, Expected
<1>10. SyncInv'
  BY <1>0, NotSync
<1>11. QED BY <1>0, <1>1, <1>5, <1>8, <1>9, <1>10, DeviceInv DEF TypeInv, Store

LEMMA StreamEnqueueInv == ASSUME IInv, StreamEnqueue PROVE IInv'
<1>0. /\ TypeInv /\ OutputComplete
      /\ stream # <<>> /\ Head(stream).op = "enqueue" /\ Pop
      /\ queue' = Append(queue, Head(stream).task)
      /\ UNCHANGED <<deferring, host, pass, batch, pool, waiting, closed,
                     input, deferred_ids, output_cpu, output_gpu>>
  BY DEF IInv, StreamEnqueue, Executing, TQ!Accept, host, store
<1>1. /\ stream' \in Seq(AnOp(deferring, pass, batch)') /\ batch \in Batch
  BY <1>0, StreamPop
<1>2. PICK l \in Nat, ph \in 0..5 :
        /\ Head(stream) = OpOf(deferring, pass, batch, Pos(l, ph))
        /\ ph \in {2, 3} => l \in deferring
        /\ Tasks(l, ph)
        /\ \A k \in Nat, h \in 0..5 :
             Succ(deferring, Pos(l, ph)) = Pos(k, h) /\ Tasks(k, h)' => FlowInv'
  BY <1>0, StreamPop
<1>3. ph \in {1, 3} /\ (ph = 3 => l \in deferring)
  BY <1>0, <1>2, Phases
<1>4. PICK left \in SUBSET {"older", "imm", "newer"} :
        /\ queue = Left(deferring, pass, batch, l, left)
        /\ MayBeLeft(l, ph, left) /\ InputContent(l, ph, left) /\ OutputContent(l, ph, left)
  BY <1>2 DEF Tasks
<1>5. left \in SUBSET Three /\ "newer" \notin left
  BY <1>3, <1>4 DEF MayBeLeft, Three
<1>6. CASE ph = 1
  <2>1. "imm" \notin left
    BY <1>4, <1>6 DEF MayBeLeft
  <2>2. queue' = Left(deferring, pass, batch, l, left \cup {"imm"})
    <3>1. Head(stream).task = ImmTask(deferring, pass, batch, l)
      <4>1. Head(stream) = TaskOp(ImmTask(deferring, pass, batch, l), batch)
        BY <1>2, <1>6, OpAt
      <4>2. QED BY <4>1 DEF TaskOp
    <3>2. Append(Left(deferring, pass, batch, l, left), ImmTask(deferring, pass, batch, l)) =
            Left(deferring, pass, batch, l, left \cup {"imm"})
      BY <1>5, <2>1, LeftAppend
    <3>3. QED BY ONLY <1>0, <1>4, <3>1, <3>2
  <2>3. ASSUME NEW next \in {2, 4}, next = IF l \in deferring THEN 2 ELSE 4
        PROVE  Tasks(l, next)'
    <3>1. queue' = Left(deferring, pass, batch, l, left \cup {"imm"})'
      BY <1>0, <2>2
    <3>2. MayBeLeft(l, next, left \cup {"imm"})'
      BY <1>0, <1>4, <1>5, <1>6, <2>3 DEF MayBeLeft
    <3>3. InputContent(l, next, left \cup {"imm"})'
      BY <1>0, <1>4, <1>6, <2>3 DEF InputContent
    <3>4. OutputContent(l, next, left \cup {"imm"})'
      BY <1>0, <1>4, <1>6, <2>3 DEF OutputContent
    <3>5. left \cup {"imm"} \in SUBSET {"older", "imm", "newer"}
      BY <1>4
    <3>6. QED BY <3>1, <3>2, <3>3, <3>4, <3>5 DEF Tasks
  <2>4. Succ(deferring, Pos(l, 1)) = IF l \in deferring THEN Pos(l, 2) ELSE Pos(l, 4)
    BY SuccAt
  <2>5. FlowInv'
    <3>1. CASE l \in deferring
      <4>1. Tasks(l, 2)'
        BY <2>3, <3>1
      <4>2. QED BY <1>2, <1>6, <2>4, <3>1, <4>1
    <3>2. CASE l \notin deferring
      <4>1. Tasks(l, 4)'
        BY <2>3, <3>2
      <4>2. QED BY <1>2, <1>6, <2>4, <3>2, <4>1
    <3>3. QED BY <3>1, <3>2
  <2>6. QED BY <1>0, <1>1, <2>5, NotSync, DeviceInv DEF TypeInv, Store, OutputComplete, Expected
<1>7. CASE ph = 3
  <2>1. "older" \in left => "imm" \in left
    BY <1>4, <1>7 DEF MayBeLeft
  <2>2. queue' = Left(deferring, pass, batch, l, left \cup {"newer"})
    <3>1. Head(stream).task = DefTask(pass, batch, l)
      <4>1. Head(stream) = TaskOp(DefTask(pass, batch, l), batch)
        BY <1>2, <1>7, OpAt
      <4>2. QED BY <4>1 DEF TaskOp
    <3>2. Append(Left(deferring, pass, batch, l, left), DefTask(pass, batch, l)) =
            Left(deferring, pass, batch, l, left \cup {"newer"})
      BY <1>5, <2>1, LeftAppend
    <3>3. QED BY ONLY <1>0, <1>4, <3>1, <3>2
  <2>3. Tasks(l, 4)'
    <3>1. queue' = Left(deferring, pass, batch, l, left \cup {"newer"})'
      BY <1>0, <2>2
    <3>2. MayBeLeft(l, 4, left \cup {"newer"})'
      BY <1>0, <1>3, <1>4, <1>5, <1>7 DEF MayBeLeft
    <3>3. InputContent(l, 4, left \cup {"newer"})'
      BY <1>0, <1>4, <1>7 DEF InputContent
    <3>4. OutputContent(l, 4, left \cup {"newer"})'
      BY <1>0, <1>4, <1>7 DEF OutputContent, Expected
    <3>5. left \cup {"newer"} \in SUBSET {"older", "imm", "newer"}
      BY <1>4
    <3>6. QED BY <3>1, <3>2, <3>3, <3>4, <3>5 DEF Tasks
  <2>4. FlowInv'
    BY <1>2, <1>7, <2>3, SuccAt
  <2>5. QED BY <1>0, <1>1, <2>4, NotSync, DeviceInv DEF TypeInv, Store, OutputComplete, Expected
<1>8. QED BY <1>3, <1>6, <1>7

LEMMA SameFlow ==
  ASSUME FlowInv, UNCHANGED <<deferring, host, pass, batch, stream, queue, input,
                              deferred_ids, output_cpu>>
  PROVE  FlowInv'
<1>1. PICK l \in Nat, ph \in 0..5 :
        /\ Chained(deferring, pass, batch, stream, Pos(l, ph), HostPosition)
        /\ Tasks(l, ph)
  BY DEF FlowInv
<1>2. HostPosition' = HostPosition
  BY DEF HostPosition, host
<1>3. Chained(deferring, pass, batch, stream, Pos(l, ph), HostPosition)'
  BY <1>1, <1>2
<1>4. Tasks(l, ph)'
  BY <1>1, SameTasks
<1>5. QED BY <1>3, <1>4 DEF FlowInv

(* The operation sync executes is the one of its layer. *)
LEMMA SyncHead ==
  ASSUME IInv, stream # <<>>, Head(stream).op = "sync"
  PROVE  Head(stream).allow \in {0, 1}
<1>1. PICK l \in Nat, ph \in 0..5 :
        Chained(deferring, pass, batch, stream, Pos(l, ph), HostPosition)
  BY DEF IInv, FlowInv
<1>2. stream \in Seq(AnOp(deferring, pass, batch))
  BY DEF IInv, TypeInv
<1>3. /\ Head(stream) = OpOf(deferring, pass, batch, Pos(l, ph))
      /\ Chained(deferring, pass, batch, Tail(stream), Succ(deferring, Pos(l, ph)),
                 HostPosition)
  BY <1>1, <1>2, ChainTail
<1>4. ph = 4
  BY <1>3, Phases
<1>5. Head(stream) = SyncOp(deferring, batch, l)
  BY <1>3, <1>4, OpAt
<1>6. QED BY <1>5 DEF SyncOp

LEMMA StreamSyncCallInv == ASSUME IInv, StreamSyncCall PROVE IInv'
<1>0. /\ TypeInv /\ OutputComplete /\ FlowInv
      /\ stream # <<>> /\ Head(stream).op = "sync"
      /\ waiting' = [waiting EXCEPT ![Callback] = Head(stream).allow]
      /\ UNCHANGED <<deferring, host, pass, batch, pool, stream, queue, closed,
                     input, deferred_ids, output_cpu, output_gpu>>
  BY DEF IInv, StreamSyncCall, Executing, TQ!SyncCall, host, store
<1>1. waiting' \in [{Callback} -> {Null, 0, 1}] /\ waiting'[Callback] = Head(stream).allow
  BY <1>0, SyncHead DEF TypeInv
<1>2. SyncInv'
  BY <1>0, <1>1 DEF SyncInv
<1>3. FlowInv'
  BY <1>0, SameFlow
<1>4. QED BY <1>0, <1>1, <1>2, <1>3, DeviceInv DEF TypeInv, Store, OutputComplete, Expected

LEMMA StreamSyncReturnInv == ASSUME IInv, StreamSyncReturn PROVE IInv'
<1>0. /\ TypeInv /\ OutputComplete /\ SyncInv
      /\ stream # <<>> /\ Head(stream).op = "sync" /\ Pop
      /\ waiting[Callback] # Null /\ (Len(queue) <= waiting[Callback] \/ closed)
      /\ waiting' = [waiting EXCEPT ![Callback] = Null]
      /\ UNCHANGED <<deferring, host, pass, batch, pool, queue, closed,
                     input, deferred_ids, output_cpu, output_gpu>>
  BY DEF IInv, StreamSyncReturn, Executing, TQ!SyncReturn, host, store
<1>1. /\ stream' \in Seq(AnOp(deferring, pass, batch)') /\ batch \in Batch
  BY <1>0, StreamPop
<1>2. PICK l \in Nat, ph \in 0..5 :
        /\ Head(stream) = OpOf(deferring, pass, batch, Pos(l, ph))
        /\ ph \in {2, 3} => l \in deferring
        /\ Tasks(l, ph)
        /\ \A k \in Nat, h \in 0..5 :
             Succ(deferring, Pos(l, ph)) = Pos(k, h) /\ Tasks(k, h)' => FlowInv'
  BY <1>0, StreamPop
<1>3. ph = 4
  BY <1>0, <1>2, Phases
<1>4. PICK left \in SUBSET {"older", "imm", "newer"} :
        /\ queue = Left(deferring, pass, batch, l, left)
        /\ MayBeLeft(l, 4, left) /\ InputContent(l, 4, left) /\ OutputContent(l, 4, left)
  BY <1>2, <1>3 DEF Tasks
<1>5. left \in SUBSET Three
  BY <1>4 DEF Three
<1>6. Len(queue) <= IF l \in deferring THEN 1 ELSE 0
  <2>1. Head(stream) = SyncOp(deferring, batch, l)
    BY <1>2, <1>3, OpAt
  <2>2. waiting[Callback] = IF l \in deferring THEN 1 ELSE 0
    BY <1>0, <2>1 DEF SyncInv, SyncOp
  <2>3. QED BY <1>0, <2>2 DEF TypeInv
<1>7. "imm" \notin left /\ "older" \notin left
  <2>1. CASE l \in deferring
    <3>1. Len(Left(deferring, pass, batch, l, left)) <= 1
      BY <1>4, <1>6, <2>1
    <3>2. "newer" \in left => "imm" \notin left
      BY <1>5, <3>1, LeftLen
    <3>3. QED BY <1>4, <2>1, <3>2 DEF MayBeLeft
  <2>2. CASE l \notin deferring
    <3>1. Len(Left(deferring, pass, batch, l, left)) <= 0
      BY <1>4, <1>6, <2>2
    <3>2. left = {}
      BY <1>5, <3>1, LeftLen
    <3>3. QED BY <3>2
  <2>3. QED BY <2>1, <2>2
<1>8. Tasks(l, 5)'
  <2>1. queue' = Left(deferring, pass, batch, l, left)'
    BY <1>0, <1>4
  <2>2. MayBeLeft(l, 5, left)'
    BY <1>0, <1>4, <1>7 DEF MayBeLeft
  <2>3. InputContent(l, 5, left)'
    BY <1>0, <1>4 DEF InputContent
  <2>4. OutputContent(l, 5, left)'
    BY <1>0, <1>4, <1>7 DEF OutputContent, Expected
  <2>5. QED BY <1>4, <2>1, <2>2, <2>3, <2>4 DEF Tasks
<1>9. FlowInv'
  BY <1>2, <1>3, <1>8, SuccAt
<1>10. waiting' \in [{Callback} -> {Null, 0, 1}] /\ SyncInv'
  BY <1>0 DEF TypeInv, SyncInv
<1>11. QED BY <1>0, <1>1, <1>9, <1>10, DeviceInv DEF TypeInv, Store, OutputComplete, Expected

LEMMA StreamFetchInv == ASSUME IInv, StreamFetch PROVE IInv'
<1>0. /\ TypeInv /\ OutputComplete
      /\ stream # <<>> /\ Head(stream).op = "fetch" /\ Pop
      /\ output_gpu' = [output_gpu EXCEPT ![Head(stream).b][Head(stream).slot] =
           [tag |-> Head(stream).tag, sum |-> output_cpu[Head(stream).b][Head(stream).slot]]]
      /\ UNCHANGED <<deferring, host, pass, batch, pool, queue, running, waiting, closed,
                     input, deferred_ids, output_cpu>>
  BY DEF IInv, StreamFetch, Executing, fifo, host
<1>1. /\ stream' \in Seq(AnOp(deferring, pass, batch)') /\ batch \in Batch
  BY <1>0, StreamPop
<1>2. PICK l \in Nat, ph \in 0..5 :
        /\ Head(stream) = OpOf(deferring, pass, batch, Pos(l, ph))
        /\ ph \in {2, 3} => l \in deferring
        /\ Tasks(l, ph)
        /\ \A k \in Nat, h \in 0..5 :
             Succ(deferring, Pos(l, ph)) = Pos(k, h) /\ Tasks(k, h)' => FlowInv'
  BY <1>0, StreamPop
<1>3. ph = 5
  BY <1>0, <1>2, Phases
<1>4. /\ Head(stream).b = batch /\ Head(stream).slot = l % 2 /\ Head(stream).tag = <<pass, l>>
  <2>1. Head(stream) = SlotOp("fetch", pass, batch, l)
    BY <1>2, <1>3, OpAt
  <2>2. QED BY <2>1 DEF SlotOp
<1>5. PICK left \in SUBSET {"older", "imm", "newer"} :
        /\ queue = Left(deferring, pass, batch, l, left)
        /\ MayBeLeft(l, 5, left) /\ InputContent(l, 5, left) /\ OutputContent(l, 5, left)
  BY <1>2, <1>3 DEF Tasks
<1>6. /\ left \in SUBSET {"newer"} /\ output_cpu[batch][l % 2] = Expected(pass, l)
      /\ "newer" \in left => l \in deferring
  BY <1>5 DEF MayBeLeft, OutputContent
<1>7. Store(output_gpu)' /\ OutputComplete'
  <2> DEFINE result == [tag |-> <<pass, l>>, sum |-> Expected(pass, l)]
  <2>1. output_gpu' = Write(output_gpu, batch, l % 2, result)
    BY <1>0, <1>4, <1>6 DEF Write
  <2>2. Store(output_gpu) /\ l % 2 \in Slot
    BY <1>0, Parity DEF TypeInv
  <2>3. result.sum = Expected(result.tag[1], result.tag[2])
    OBVIOUS
  <2> HIDE DEF result
  <2>4. /\ Store(output_gpu') /\ output_gpu'[batch][l % 2] = result
        /\ \A c \in Batch, t \in Slot :
             c # batch \/ t # l % 2 => output_gpu'[c][t] = output_gpu[c][t]
    BY <1>1, <2>1, <2>2, StoreWrite
  <2>5. \A c \in Batch, t \in Slot : output_gpu'[c][t] # Null =>
          output_gpu'[c][t].sum = Expected(output_gpu'[c][t].tag[1], output_gpu'[c][t].tag[2])
    <3>1. \A c \in Batch, t \in Slot : output_gpu[c][t] # Null =>
            output_gpu[c][t].sum = Expected(output_gpu[c][t].tag[1], output_gpu[c][t].tag[2])
      BY <1>0 DEF OutputComplete
    <3> HIDE DEF Expected
    <3>2. QED BY ONLY <2>3, <2>4, <3>1
  <2>6. deferring' = deferring
    BY <1>0
  <2>7. QED BY <2>4, <2>5, <2>6 DEF OutputComplete, Expected, Store
<1>8. Tasks(l + 1, 0)'
  <2>1. PICK next \in SUBSET {"older", "imm", "newer"} :
          next = IF "newer" \in left THEN {"older"} ELSE {}
    OBVIOUS
  <2>2. /\ (l + 1) - 1 = l /\ ((l + 1) + 1) % 2 = l % 2
    BY Parity
  <2>3. queue' = Left(deferring, pass, batch, l + 1, next)'
    <3>1. Left(deferring, pass, batch, l, left) = Left(deferring, pass, batch, l + 1, next)
      BY <1>6, <2>1, LeftNext
    <3>2. QED BY <1>0, <1>5, <3>1
  <2>4. MayBeLeft(l + 1, 0, next)'
    BY <1>0, <1>6, <2>1, <2>2 DEF MayBeLeft
  <2>5. InputContent(l + 1, 0, next)'
    BY <1>0, <1>5, <1>6, <2>1, <2>2 DEF InputContent
  <2>6. OutputContent(l + 1, 0, next)'
    BY <1>0, <1>5, <1>6, <2>1, <2>2 DEF OutputContent
  <2>7. QED BY <2>3, <2>4, <2>5, <2>6 DEF Tasks
<1>9. FlowInv'
  <2>1. Succ(deferring, Pos(l, 5)) = Pos(l + 1, 0) /\ l + 1 \in Nat
    BY SuccAt
  <2>2. QED BY <1>2, <1>3, <1>8, <2>1
<1>10. SyncInv'
  BY <1>0, NotSync
<1>11. QED BY <1>0, <1>1, <1>7, <1>9, <1>10, DeviceInv DEF TypeInv, Store

LEMMA TaskStartInv == ASSUME IInv, TaskStart PROVE IInv'
<1>0. /\ TypeInv /\ OutputComplete /\ SyncInv /\ FlowInv
      /\ UNCHANGED <<deferring, host, pass, batch, pool, stream, queue, waiting, closed,
                     input, deferred_ids, output_cpu, output_gpu>>
  BY DEF IInv, TaskStart, TQ!Start, host, store
<1>1. FlowInv'
  BY <1>0, SameFlow
<1>2. QED BY <1>0, <1>1, DeviceInv DEF TypeInv, Store, OutputComplete, Expected, SyncInv

(* What the oldest task writes: its own experts, and for the immediate     *)
(* task of a layer after a deferring one what the deferred task left.      *)
LEMMA OlderResult ==
  ASSUME NEW l \in Nat, l >= 1, NEW t, t = DefTask(pass, batch, l - 1),
         input[batch][(l + 1) % 2] = <<pass, l - 1>>,
         deferred_ids[batch][(l + 1) % 2] = <<pass, l - 1>>
  PROVE  t.b = batch /\ t.dst = l % 2 /\ Computed(t) = {Expert(pass, l - 1, "def")}
<1>1. /\ t.b = batch /\ t.slot = (l + 1) % 2 /\ t.dst = l % 2 /\ t.kind = "def"
      /\ t.incremental = FALSE
  BY Parity DEF DefTask
<1>2. QED BY <1>1 DEF Computed, Expert

LEMMA NewerResult ==
  ASSUME NEW l \in Nat, NEW t, t = DefTask(pass, batch, l),
         input[batch][l % 2] = <<pass, l>>, deferred_ids[batch][l % 2] = <<pass, l>>
  PROVE  t.b = batch /\ t.dst = (l + 1) % 2 /\ Computed(t) = {Expert(pass, l, "def")}
<1>1. /\ t.b = batch /\ t.slot = l % 2 /\ t.dst = (l + 1) % 2 /\ t.kind = "def"
      /\ t.incremental = FALSE
  BY DEF DefTask
<1>2. QED BY <1>1 DEF Computed, Expert

LEMMA ImmResult ==
  ASSUME NEW l \in Nat, NEW t, t = ImmTask(deferring, pass, batch, l),
         input[batch][l % 2] = <<pass, l>>,
         l - 1 \in deferring => output_cpu[batch][l % 2] = {Expert(pass, l - 1, "def")}
  PROVE  t.b = batch /\ t.dst = l % 2 /\ Computed(t) = Expected(pass, l)
<1>1. /\ t.b = batch /\ t.slot = l % 2 /\ t.dst = l % 2 /\ t.kind = "imm"
      /\ t.incremental <=> l - 1 \in deferring
  BY DEF ImmTask
<1>2. Computed(t) = {Expert(pass, l, "imm")} \cup
                      (IF t.incremental THEN output_cpu[batch][l % 2] ELSE {})
  BY <1>1 DEF Computed, Expert
<1>3. QED BY <1>1, <1>2 DEF Expected

(* Where the stream and the queue are while a task is unfinished *)
LEMMA QueueState ==
  ASSUME IInv, queue # <<>>
  PROVE  /\ batch \in Batch
         /\ \E l \in Nat, ph \in 0..5 : \E left \in SUBSET Three :
              /\ Chained(deferring, pass, batch, stream, Pos(l, ph), HostPosition)
              /\ queue = Left(deferring, pass, batch, l, left)
              /\ MayBeLeft(l, ph, left) /\ InputContent(l, ph, left)
              /\ OutputContent(l, ph, left)
              /\ left # {} /\ ("older" \in left /\ "newer" \in left => "imm" \in left)
<1>1. batch \in Batch
  BY DEF IInv, HostInv, TypeInv, Idle
<1>2. PICK l \in Nat, ph \in 0..5 :
        /\ Chained(deferring, pass, batch, stream, Pos(l, ph), HostPosition)
        /\ Tasks(l, ph)
  BY DEF IInv, FlowInv
<1>3. PICK left \in SUBSET Three :
        /\ queue = Left(deferring, pass, batch, l, left)
        /\ MayBeLeft(l, ph, left) /\ InputContent(l, ph, left) /\ OutputContent(l, ph, left)
  BY <1>2 DEF Tasks, Three
<1>4. "older" \in left /\ "newer" \in left => "imm" \in left
  BY <1>3 DEF MayBeLeft
<1>5. left # {}
  BY <1>3, <1>4, LeftHead
<1>6. QED BY <1>1, <1>2, <1>3, <1>4, <1>5

LEMMA TaskFinishInv == ASSUME IInv, TaskFinish PROVE IInv'
<1>0. /\ TypeInv /\ OutputComplete /\ SyncInv /\ FlowInv
      /\ queue # <<>> /\ running = Head(queue) /\ queue' = Tail(queue)
      /\ output_cpu' = [output_cpu EXCEPT ![running.b][running.dst] = Computed(running)]
      /\ UNCHANGED <<deferring, host, hpc, layer, pass, batch, pool, stream, waiting, closed,
                     input, deferred_ids, output_gpu>>
  BY DEF IInv, TaskFinish, TQ!Finish, host
<1>1. PICK l \in Nat, ph \in 0..5 : \E left \in SUBSET Three :
        /\ Chained(deferring, pass, batch, stream, Pos(l, ph), HostPosition)
        /\ queue = Left(deferring, pass, batch, l, left)
        /\ MayBeLeft(l, ph, left) /\ InputContent(l, ph, left)
        /\ OutputContent(l, ph, left)
        /\ left # {} /\ ("older" \in left /\ "newer" \in left => "imm" \in left)
  BY <1>0, QueueState
<1>2. PICK left \in SUBSET Three :
        /\ Chained(deferring, pass, batch, stream, Pos(l, ph), HostPosition)
        /\ queue = Left(deferring, pass, batch, l, left)
        /\ MayBeLeft(l, ph, left) /\ InputContent(l, ph, left)
        /\ OutputContent(l, ph, left)
        /\ left # {} /\ ("older" \in left /\ "newer" \in left => "imm" \in left)
  BY <1>1
<1>3. batch \in Batch /\ Store(output_cpu)
  BY <1>0, QueueState DEF TypeInv
<1>4. l % 2 \in Slot /\ (l + 1) % 2 \in Slot /\ l % 2 # (l + 1) % 2
  BY Parity
<1>5. ASSUME NEW d \in Slot, NEW v, running.b = batch, running.dst = d, Computed(running) = v
      PROVE  /\ Store(output_cpu') /\ output_cpu'[batch][d] = v
             /\ \A t \in Slot : t # d => output_cpu'[batch][t] = output_cpu[batch][t]
  <2>1. output_cpu' = Write(output_cpu, batch, d, v)
    BY <1>0, <1>5 DEF Write
  <2>2. /\ Store(output_cpu') /\ output_cpu'[batch][d] = v
        /\ \A c \in Batch, t \in Slot :
             c # batch \/ t # d => output_cpu'[c][t] = output_cpu[c][t]
    BY <1>3, <1>5, <2>1, StoreWrite
  <2>3. QED BY <1>3, <2>2
<1>6. ASSUME Store(output_cpu'), NEW fewer \in SUBSET Three,
             queue' = Left(deferring, pass, batch, l, fewer),
             MayBeLeft(l, ph, fewer), InputContent(l, ph, fewer), OutputContent(l, ph, fewer)'
      PROVE  IInv'
  <2>1. MayBeLeft(l, ph, fewer)' /\ InputContent(l, ph, fewer)'
    BY <1>0, <1>6 DEF MayBeLeft, InputContent
  <2>2. Tasks(l, ph)'
    BY <1>0, <1>6, <2>1 DEF Tasks, Three
  <2>3. Chained(deferring, pass, batch, stream, Pos(l, ph), HostPosition)'
    BY <1>0, <1>2 DEF HostPosition
  <2>4. FlowInv'
    BY <2>2, <2>3 DEF FlowInv
  <2>5. QED BY <1>0, <1>6, <2>4, DeviceInv
            DEF TypeInv, Store, OutputComplete, Expected, SyncInv
<1>7. /\ running = Head(Left(deferring, pass, batch, l, left))
       /\ queue' = Tail(Left(deferring, pass, batch, l, left))
  BY ONLY <1>0, <1>2
<1>8. "older" \in left /\ "newer" \in left => "imm" \in left
  BY ONLY <1>2
<1>9. CASE "older" \in left
  <2>1. PICK fewer \in SUBSET Three : fewer = left \ {"older"}
    OBVIOUS
  <2>2. /\ running = DefTask(pass, batch, l - 1)
        /\ queue' = Left(deferring, pass, batch, l, fewer)
    <3>1. /\ Head(Left(deferring, pass, batch, l, left)) = DefTask(pass, batch, l - 1)
          /\ Left(deferring, pass, batch, l, fewer) =
               Tail(Left(deferring, pass, batch, l, left))
      BY ONLY left \in SUBSET Three, <1>8, <1>9, <2>1, LeftHead
    <3>2. QED BY ONLY <1>7, <3>1
  <2>3. l - 1 \in deferring /\ l >= 1
    BY <1>0, <1>2, <1>9 DEF MayBeLeft, TypeInv
  <2>4. running.b = batch /\ running.dst = l % 2
        /\ Computed(running) = {Expert(pass, l - 1, "def")}
    BY <1>2, <1>9, <2>2, <2>3, OlderResult DEF InputContent
  <2>5. /\ Store(output_cpu') /\ output_cpu'[batch][l % 2] = {Expert(pass, l - 1, "def")}
        /\ output_cpu'[batch][(l + 1) % 2] = output_cpu[batch][(l + 1) % 2]
    BY <1>4, <1>5, <2>4
  <2>6. MayBeLeft(l, ph, fewer) /\ InputContent(l, ph, fewer)
    BY <1>2, <2>1 DEF MayBeLeft, InputContent
  <2>7. OutputContent(l, ph, fewer)'
    <3>1. ph >= 2 => "imm" \in fewer
      BY <1>2, <1>9, <2>1 DEF MayBeLeft
    <3>2. ph >= 4 /\ l \in deferring /\ "newer" \notin fewer => "newer" \notin left
      BY <2>1
    <3>3. UNCHANGED <<pass, batch, deferring>> /\ OutputContent(l, ph, left)
      BY <1>0, <1>2
    <3>4. QED BY ONLY <1>2, <2>5, <3>1, <3>2, <3>3 DEF OutputContent
  <2>8. QED BY <1>6, <2>2, <2>5, <2>6, <2>7
<1>10. CASE "older" \notin left /\ "imm" \in left
  <2>1. PICK fewer \in SUBSET Three : fewer = left \ {"imm"}
    OBVIOUS
  <2>2. /\ running = ImmTask(deferring, pass, batch, l)
        /\ queue' = Left(deferring, pass, batch, l, fewer)
    <3>1. /\ Head(Left(deferring, pass, batch, l, left)) = ImmTask(deferring, pass, batch, l)
          /\ Left(deferring, pass, batch, l, fewer) =
               Tail(Left(deferring, pass, batch, l, left))
      BY ONLY left \in SUBSET Three, <1>8, <1>10, <2>1, LeftHead
    <3>2. QED BY ONLY <1>7, <3>1
  <2>3. /\ ph \in 2..4 /\ input[batch][l % 2] = <<pass, l>>
        /\ l - 1 \in deferring => output_cpu[batch][l % 2] = {Expert(pass, l - 1, "def")}
    BY <1>2, <1>10 DEF MayBeLeft, InputContent, OutputContent
  <2>4. running.b = batch /\ running.dst = l % 2 /\ Computed(running) = Expected(pass, l)
    BY <2>2, <2>3, ImmResult
  <2>5. /\ Store(output_cpu') /\ output_cpu'[batch][l % 2] = Expected(pass, l)
        /\ output_cpu'[batch][(l + 1) % 2] = output_cpu[batch][(l + 1) % 2]
    BY <1>4, <1>5, <2>4
  <2>6. MayBeLeft(l, ph, fewer) /\ InputContent(l, ph, fewer)
    BY <1>2, <1>10, <2>1 DEF MayBeLeft, InputContent
  <2>7. OutputContent(l, ph, fewer)'
    <3>1. Expected(pass, l)' = Expected(pass, l)
      BY <1>0 DEF Expected
    <3>2. "imm" \notin fewer /\ ("newer" \notin fewer => "newer" \notin left)
      BY <2>1
    <3>3. UNCHANGED <<pass, batch, deferring>> /\ OutputContent(l, ph, left)
      BY <1>0, <1>2
    <3>4. QED BY ONLY <2>3, <2>5, <3>1, <3>2, <3>3 DEF OutputContent
  <2>8. QED BY <1>6, <2>2, <2>5, <2>6, <2>7
<1>11. CASE "older" \notin left /\ "imm" \notin left
  <2>1. PICK fewer \in SUBSET Three : fewer = left \ {"newer"}
    OBVIOUS
  <2>2. "newer" \in left
    BY <1>2, <1>11 DEF Three
  <2>3. /\ running = DefTask(pass, batch, l)
        /\ queue' = Left(deferring, pass, batch, l, fewer)
    <3>1. /\ Head(Left(deferring, pass, batch, l, left)) = DefTask(pass, batch, l)
          /\ Left(deferring, pass, batch, l, fewer) =
               Tail(Left(deferring, pass, batch, l, left))
      BY ONLY left \in SUBSET Three, <1>8, <1>11, <2>1, <2>2, LeftHead
    <3>2. QED BY ONLY <1>7, <3>1
  <2>4. /\ ph \in {4, 5} /\ l \in deferring
        /\ input[batch][l % 2] = <<pass, l>> /\ deferred_ids[batch][l % 2] = <<pass, l>>
        /\ output_cpu[batch][l % 2] = Expected(pass, l)
    BY <1>2, <1>11, <2>2 DEF MayBeLeft, InputContent, OutputContent
  <2>5. running.b = batch /\ running.dst = (l + 1) % 2
        /\ Computed(running) = {Expert(pass, l, "def")}
    BY <2>3, <2>4, NewerResult
  <2>6. /\ Store(output_cpu') /\ output_cpu'[batch][(l + 1) % 2] = {Expert(pass, l, "def")}
        /\ output_cpu'[batch][l % 2] = output_cpu[batch][l % 2]
    BY <1>4, <1>5, <2>5
  <2>7. MayBeLeft(l, ph, fewer) /\ InputContent(l, ph, fewer)
    BY <1>2, <1>11, <2>1 DEF MayBeLeft, InputContent
  <2>8. OutputContent(l, ph, fewer)'
    <3>1. Expected(pass, l)' = Expected(pass, l)
      BY <1>0 DEF Expected
    <3>2. "imm" \notin fewer
      BY <1>11, <2>1
    <3>3. QED BY <1>0, <2>4, <2>6, <3>1, <3>2 DEF OutputContent
  <2>9. QED BY <1>6, <2>3, <2>6, <2>7, <2>8
<1>12. QED BY <1>9, <1>10, <1>11

LEMMA StutterInv == ASSUME IInv, UNCHANGED vars PROVE IInv'
<1>0. /\ TypeInv /\ OutputComplete /\ SyncInv /\ FlowInv
      /\ UNCHANGED <<deferring, host, pass, batch, pool, stream, queue, waiting, closed,
                     input, deferred_ids, output_cpu, output_gpu>>
  BY DEF IInv, vars, fifo, store, host
<1>1. FlowInv'
  BY <1>0, SameFlow
<1>2. QED BY <1>0, <1>1, DeviceInv DEF TypeInv, Store, OutputComplete, Expected, SyncInv

-----------------------------------------------------------------------------
LEMMA InvNext == IInv /\ [Next]_vars => IInv'
<1> SUFFICES ASSUME IInv, [Next]_vars PROVE IInv'
  OBVIOUS
<1>1. CASE \E b \in Batch : BeginPass(b)
  BY <1>1, BeginPassInv
<1>2. CASE SetCaptureBatchSizes \/ ClearBufferCache
  BY <1>2, BufferCallsInv
<1>3. CASE HostStep
  BY <1>3, SubmitForwardInv, SyncForwardInv, EndPassInv DEF HostStep
<1>4. CASE StreamStep
  BY <1>4, StreamLoadInv, StreamLoadDeferredInv, StreamEnqueueInv, StreamSyncCallInv,
     StreamSyncReturnInv, StreamFetchInv DEF StreamStep
<1>5. CASE WorkerStep
  BY <1>5, TaskStartInv, TaskFinishInv DEF WorkerStep
<1>6. CASE UNCHANGED vars
  BY <1>6, StutterInv
<1>7. QED BY <1>1, <1>2, <1>3, <1>4, <1>5, <1>6 DEF Next, Finished

LEMMA Invariance == Spec => []IInv
<1>1. QED BY InvInit, InvNext, PTL DEF Spec

(* Every queued task reads the staging slot its own layer filled, although *)
(* the host has long gone on to later layers that use the same slots.      *)
THEOREM InputStableSafe == Spec => []InputStable
<1>1. IInv => InputStable
  <2> SUFFICES ASSUME IInv, NEW i \in DOMAIN queue
               PROVE  LET t == queue[i]
                      IN /\ input[t.b][t.slot] = t.tag
                         /\ t.kind = "def" => deferred_ids[t.b][t.slot] = t.tag
    BY DEF InputStable
  <2>1. queue # <<>>
    OBVIOUS
  <2>2. PICK l \in Nat, ph \in 0..5 : \E left \in SUBSET Three :
          /\ queue = Left(deferring, pass, batch, l, left)
          /\ MayBeLeft(l, ph, left) /\ InputContent(l, ph, left)
          /\ "older" \in left /\ "newer" \in left => "imm" \in left
    BY <2>1, QueueState
  <2>3. PICK left \in SUBSET Three :
          /\ queue = Left(deferring, pass, batch, l, left)
          /\ MayBeLeft(l, ph, left) /\ InputContent(l, ph, left)
          /\ "older" \in left /\ "newer" \in left => "imm" \in left
    BY <2>2
  <2>4. \/ "older" \in left /\ queue[i] = DefTask(pass, batch, l - 1)
        \/ "imm" \in left /\ queue[i] = ImmTask(deferring, pass, batch, l)
        \/ "newer" \in left /\ queue[i] = DefTask(pass, batch, l)
    BY <2>3, LeftElements
  <2>5. CASE "older" \in left /\ queue[i] = DefTask(pass, batch, l - 1)
    <3>1. l >= 1
      BY <2>3, <2>5 DEF MayBeLeft, IInv, TypeInv
    <3>2. (l - 1) % 2 = (l + 1) % 2
      BY <3>1, Parity
    <3>3. /\ input[batch][(l + 1) % 2] = <<pass, l - 1>>
          /\ deferred_ids[batch][(l + 1) % 2] = <<pass, l - 1>>
      BY <2>3, <2>5 DEF InputContent
    <3>4. /\ queue[i].b = batch /\ queue[i].slot = (l - 1) % 2
          /\ queue[i].tag = <<pass, l - 1>>
      BY <2>5 DEF DefTask
    <3>5. QED BY <3>2, <3>3, <3>4
  <2>6. CASE "imm" \in left /\ queue[i] = ImmTask(deferring, pass, batch, l)
    <3>1. ph >= 1
      BY <2>3, <2>6 DEF MayBeLeft
    <3>2. input[batch][l % 2] = <<pass, l>>
      BY <2>3, <3>1 DEF InputContent
    <3>3. /\ queue[i].b = batch /\ queue[i].slot = l % 2
          /\ queue[i].tag = <<pass, l>> /\ queue[i].kind = "imm"
      BY <2>6 DEF ImmTask
    <3>4. QED BY <3>2, <3>3
  <2>7. CASE "newer" \in left /\ queue[i] = DefTask(pass, batch, l)
    <3>1. ph >= 3 /\ l \in deferring
      BY <2>3, <2>7 DEF MayBeLeft
    <3>2. input[batch][l % 2] = <<pass, l>> /\ deferred_ids[batch][l % 2] = <<pass, l>>
      BY <2>3, <3>1 DEF InputContent
    <3>3. queue[i].b = batch /\ queue[i].slot = l % 2 /\ queue[i].tag = <<pass, l>>
      BY <2>7 DEF DefTask
    <3>4. QED BY <3>2, <3>3
  <2>8. QED BY <2>4, <2>5, <2>6, <2>7
<1>2. QED BY <1>1, Invariance, PTL

(* Every result handed to the GPU is the sum of the immediate experts of   *)
(* its layer and of those the layer before deferred, over their own inputs *)
(* and routing: nothing lost, nothing of another layer or pass.            *)
THEOREM OutputCompleteSafe == Spec => []OutputComplete
<1>1. IInv => OutputComplete
  BY DEF IInv
<1>2. QED BY <1>1, Invariance, PTL

(* get_buffer displaces or clears a buffer only while no task and no       *)
(* issued operation refers to one.                                         *)
THEOREM NoDanglingBufferSafe == Spec => []NoDanglingBuffer
<1>1. IInv => NoDanglingBuffer
  <2> SUFFICES ASSUME IInv PROVE NoDanglingBuffer
    OBVIOUS
  <2>1. ASSUME NEW i \in DOMAIN queue PROVE Hit(queue[i].b)
    <3>1. queue # <<>>
      BY <2>1
    <3>2. PICK l \in Nat : \E left \in SUBSET Three :
            /\ queue = Left(deferring, pass, batch, l, left)
            /\ "older" \in left /\ "newer" \in left => "imm" \in left
      BY <3>1, QueueState
    <3>3. \/ queue[i] = DefTask(pass, batch, l - 1)
          \/ queue[i] = ImmTask(deferring, pass, batch, l)
          \/ queue[i] = DefTask(pass, batch, l)
      BY <2>1, <3>2, LeftElements
    <3>4. queue[i].b = batch
      BY <3>3 DEF ImmTask, DefTask
    <3>5. QED BY <3>1, <3>4 DEF IInv, HostInv
  <2>2. ASSUME NEW i \in DOMAIN stream PROVE Hit(stream[i].b)
    <3>1. stream[i] \in AnOp(deferring, pass, batch) /\ stream # <<>>
      BY <2>2 DEF IInv, TypeInv
    <3>2. stream[i].b = batch
      BY <3>1, OpBuffer
    <3>3. QED BY <3>1, <3>2 DEF IInv, HostInv
  <2>3. QED BY <2>1, <2>2 DEF NoDanglingBuffer
<1>2. QED BY <1>1, Invariance, PTL

-----------------------------------------------------------------------------
(* Which experts are deferred, module DeferredExperts, for every batch,    *)
(* number of experts, scores and setting of max_deferred_experts_per_token *)

(* A result of Splits keeps the places Kept[r] of each row r, the same for *)
(* every row that names the expert, and among them the protected places    *)
(* top[r].                                                                 *)
KeepsIn(ids, split, Kept) ==
  \A r \in DOMAIN ids :
    /\ DOMAIN split.immediate[r] = DOMAIN ids[r] /\ DOMAIN split.deferred[r] = DOMAIN ids[r]
    /\ \A c \in DOMAIN ids[r] :
         /\ split.immediate[r][c] = IF c \in Kept[r] THEN ids[r][c] ELSE Absent
         /\ split.deferred[r][c] = IF c \in Kept[r] THEN Absent ELSE ids[r][c]
SameInAll(ids, Kept) ==
  \A r, s \in DOMAIN ids : \A c \in DOMAIN ids[r], d \in DOMAIN ids[s] :
    c \in Kept[r] /\ ids[r][c] = ids[s][d] => d \in Kept[s]
SplitBy(ids, scores, k, split, Kept, top) ==
  /\ DOMAIN split.immediate = DOMAIN ids /\ DOMAIN split.deferred = DOMAIN ids
  /\ KeepsIn(ids, split, Kept) /\ SameInAll(ids, Kept)
  /\ \A r \in DOMAIN ids : top[r] \subseteq Kept[r] /\ top[r] \in TopPlaces(scores[r], k)

LEMMA ProtectedIs ==
  ASSUME NEW topk \in Nat, NEW m \in Int
  PROVE  /\ ProtectedK(topk, m) \in 0..topk
         /\ topk - ProtectedK(topk, m) <= AtLeast(0, m)
         /\ m <= 0 => ProtectedK(topk, m) = topk
BY DEF ProtectedK, AtLeast, AtMost

LEMMA ChoiceCard ==
  ASSUME NEW topk \in Nat
  PROVE  IsFiniteSet(Choice(topk)) /\ Cardinality(Choice(topk)) = topk
<1>1. 0 \in Int /\ topk - 1 \in Int
  OBVIOUS
<1>2. /\ IsFiniteSet(0..(topk - 1))
      /\ Cardinality(0..(topk - 1)) = IF 0 > topk - 1 THEN 0 ELSE (topk - 1) - 0 + 1
  BY ONLY <1>1, FS_Interval
<1>3. QED BY <1>2 DEF Choice

(* All places of a row, or none of them, are the top of it.                *)
LEMMA WholeRowIsTop ==
  ASSUME NEW topk \in Nat, NEW row, DOMAIN row = Choice(topk)
  PROVE  Choice(topk) \in TopPlaces(row, topk) /\ {} \in TopPlaces(row, 0)
<1>1. Cardinality(Choice(topk)) = topk /\ Cardinality({}) = 0
  BY ChoiceCard, FS_EmptySet
<1>2. QED BY <1>1 DEF TopPlaces

LEMMA SplitKeeps ==
  ASSUME NEW Row, NEW topk \in Nat, NEW m \in Int,
         NEW ids \in [Row -> [Choice(topk) -> Nat]], NEW scores \in [Row -> [Choice(topk) -> Int]],
         NEW split \in Splits(ids, scores, topk, m)
  PROVE  \E Kept, top \in [Row -> SUBSET Choice(topk)] :
           SplitBy(ids, scores, ProtectedK(topk, m), split, Kept, top)
<1> DEFINE k == ProtectedK(topk, m)
<1>1. /\ DOMAIN ids = Row /\ \A r \in Row : DOMAIN ids[r] = Choice(topk)
      /\ \A r \in Row : DOMAIN scores[r] = Choice(topk)
  OBVIOUS
<1>2. CASE m <= 0
  <2> DEFINE K == [r \in Row |-> Choice(topk)]
  <2>1. K \in [Row -> SUBSET Choice(topk)] /\ \A r \in Row : K[r] = Choice(topk)
    OBVIOUS
  <2>2. split = [immediate |-> ids, deferred |-> NoIds(ids)]
    BY <1>2 DEF Splits
  <2>3. k = topk
    BY <1>2, ProtectedIs
  <2> HIDE DEF K
  <2>4. KeepsIn(ids, split, K) /\ SameInAll(ids, K)
    BY <1>1, <2>1, <2>2 DEF KeepsIn, SameInAll, NoIds
  <2>5. SplitBy(ids, scores, k, split, K, K)
    BY <1>1, <2>1, <2>2, <2>3, <2>4, WholeRowIsTop DEF SplitBy, NoIds
  <2>6. QED BY <2>1, <2>5
<1>3. CASE m > 0 /\ k = 0
  <2> DEFINE K == [r \in Row |-> {}]
  <2>1. K \in [Row -> SUBSET Choice(topk)] /\ \A r \in Row : K[r] = {}
    OBVIOUS
  <2>2. split = [immediate |-> NoIds(ids), deferred |-> ids]
    BY <1>3 DEF Splits, SelectDeferredExperts
  <2> HIDE DEF K
  <2>3. KeepsIn(ids, split, K) /\ SameInAll(ids, K)
    BY <1>1, <2>1, <2>2 DEF KeepsIn, SameInAll, NoIds
  <2>4. SplitBy(ids, scores, k, split, K, K)
    BY <1>1, <1>3, <2>1, <2>2, <2>3, WholeRowIsTop DEF SplitBy, NoIds
  <2>5. QED BY <2>1, <2>4
<1>4. CASE m > 0 /\ k # 0
  <2>1. PICK top \in [Row -> SUBSET UNION {DOMAIN ids[r] : r \in Row}] :
          /\ \A r \in Row : top[r] \in TopPlaces(scores[r], k)
          /\ split = [immediate |-> MaskFill(ids, Named(ids) \ ProtectedFlag(ids, top)),
                      deferred  |-> MaskFill(ids, ProtectedFlag(ids, top))]
    BY <1>1, <1>4 DEF Splits, SelectDeferredExperts
  <2>2. top \in [Row -> SUBSET Choice(topk)]
    BY <1>1, <2>1
  <2> DEFINE K == [r \in Row |-> {c \in Choice(topk) : ids[r][c] \in ProtectedFlag(ids, top)}]
  <2>3. /\ K \in [Row -> SUBSET Choice(topk)]
        /\ \A r \in Row, c \in Choice(topk) : c \in K[r] <=> ids[r][c] \in ProtectedFlag(ids, top)
    OBVIOUS
  <2> HIDE DEF K
  <2>4. \A r \in Row, c \in Choice(topk) : ids[r][c] \in Named(ids)
    BY <1>1 DEF Named
  <2>5. KeepsIn(ids, split, K)
    BY <1>1, <2>1, <2>3, <2>4 DEF KeepsIn, MaskFill
  <2>6. SameInAll(ids, K)
    BY <1>1, <2>3 DEF SameInAll
  <2>7. \A r \in Row : top[r] \subseteq K[r]
    BY <1>1, <2>2, <2>3 DEF ProtectedFlag
  <2>8. SplitBy(ids, scores, k, split, K, top)
    BY <1>1, <2>1, <2>5, <2>6, <2>7 DEF SplitBy, MaskFill
  <2>9. QED BY <2>2, <2>3, <2>8
<1>5. QED BY <1>2, <1>3, <1>4

(* The immediate and the deferred task of a layer (submit_forward) share   *)
(* out the routed experts, and no expert is computed by both of them.      *)
THEOREM TasksShareOut ==
  ASSUME NEW Row, NEW topk \in Nat, NEW m \in Int,
         NEW ids \in [Row -> [Choice(topk) -> Nat]], NEW scores \in [Row -> [Choice(topk) -> Int]],
         NEW split \in Splits(ids, scores, topk, m)
  PROVE  OneTask(ids, split)
<1>1. PICK Kept, top \in [Row -> SUBSET Choice(topk)] :
        SplitBy(ids, scores, ProtectedK(topk, m), split, Kept, top)
  BY SplitKeeps
<1>2. DOMAIN split.immediate = DOMAIN ids /\ DOMAIN split.deferred = DOMAIN ids
      /\ KeepsIn(ids, split, Kept) /\ SameInAll(ids, Kept)
  BY <1>1 DEF SplitBy
<1>3. ASSUME NEW r \in DOMAIN ids, NEW c \in DOMAIN ids[r]
      PROVE  {split.immediate[r][c], split.deferred[r][c]} = {ids[r][c], Absent}
  BY <1>2 DEF KeepsIn
<1>4. ASSUME NEW e \in Named(split.immediate), e \in Named(split.deferred), e # Absent
      PROVE  FALSE
  <2>1. PICK r \in DOMAIN ids : \E c \in DOMAIN ids[r] : e = split.immediate[r][c]
    BY <1>2, <1>4 DEF Named, KeepsIn
  <2>2. PICK c \in DOMAIN ids[r] : e = split.immediate[r][c]
    BY <2>1
  <2>3. PICK s \in DOMAIN ids : \E d \in DOMAIN ids[s] : e = split.deferred[s][d]
    BY <1>2, <1>4 DEF Named, KeepsIn
  <2>4. PICK d \in DOMAIN ids[s] : e = split.deferred[s][d]
    BY <2>3
  <2>5. c \in Kept[r] /\ e = ids[r][c] /\ d \notin Kept[s] /\ e = ids[s][d]
    BY <1>2, <1>4, <2>2, <2>4 DEF KeepsIn
  <2>6. QED BY <1>2, <2>5 DEF SameInAll
<1>5. QED BY <1>3, <1>4 DEF OneTask

(* If k places of a row are kept and the others score no higher, the row   *)
(* is within its budget.                                                   *)
LEMMA KeptEnough ==
  ASSUME NEW topk \in Nat, NEW m \in Int, NEW row \in [Choice(topk) -> Int],
         NEW P \in TopPlaces(row, ProtectedK(topk, m)), NEW D \in SUBSET (Choice(topk) \ P)
  PROVE  /\ Cardinality(D) <= AtLeast(0, m)
         /\ P \in SUBSET (Choice(topk) \ D) /\ Cardinality(P) = ProtectedK(topk, m)
         /\ \A c \in P, d \in D : row[c] >= row[d]
<1>1. P \in SUBSET Choice(topk) /\ Cardinality(P) = ProtectedK(topk, m)
  BY DEF TopPlaces
<1>2. IsFiniteSet(Choice(topk)) /\ Cardinality(Choice(topk)) = topk
  BY ChoiceCard
<1>3. /\ IsFiniteSet(Choice(topk) \ P)
      /\ Cardinality(Choice(topk) \ P) = Cardinality(Choice(topk)) - Cardinality(Choice(topk) \cap P)
  BY <1>2, FS_Difference
<1>4. Choice(topk) \cap P = P
  BY <1>1
<1>5. IsFiniteSet(D) /\ Cardinality(D) <= Cardinality(Choice(topk) \ P)
  BY <1>3, FS_Subset
<1>6. Cardinality(D) \in Nat
  BY <1>5, FS_CardinalityType
<1>7. Cardinality(D) <= topk - ProtectedK(topk, m)
  BY <1>1, <1>2, <1>3, <1>4, <1>5
<1>8. /\ ProtectedK(topk, m) \in Int /\ topk - ProtectedK(topk, m) <= AtLeast(0, m)
      /\ AtLeast(0, m) \in Int
  BY ProtectedIs DEF AtLeast
<1>9. Cardinality(D) <= AtLeast(0, m)
  BY <1>6, <1>7, <1>8
<1>10. QED BY <1>1, <1>9 DEF TopPlaces

(* A layer defers no more experts of a row than it may, and none that      *)
(* scores higher than the experts the row must keep.                       *)
THEOREM BestExpertsKept ==
  ASSUME NEW Row, NEW topk \in Nat, NEW m \in Int,
         NEW ids \in [Row -> [Choice(topk) -> Nat]], NEW scores \in [Row -> [Choice(topk) -> Int]],
         NEW split \in Splits(ids, scores, topk, m)
  PROVE  BestKept(scores, topk, m, split)
<1>1. PICK Kept, top \in [Row -> SUBSET Choice(topk)] :
        SplitBy(ids, scores, ProtectedK(topk, m), split, Kept, top)
  BY SplitKeeps
<1>2. SUFFICES ASSUME NEW r \in Row
               PROVE  /\ Cardinality(DeferredIn(split, r)) <= AtLeast(0, m)
                      /\ \E P \in SUBSET (Choice(topk) \ DeferredIn(split, r)) :
                           /\ Cardinality(P) = ProtectedK(topk, m)
                           /\ \A c \in P, d \in DeferredIn(split, r) : scores[r][c] >= scores[r][d]
  <2>1. DOMAIN scores = Row /\ \A r \in Row : DOMAIN scores[r] = Choice(topk)
    OBVIOUS
  <2>2. QED BY <2>1 DEF BestKept
<1>3. top[r] \subseteq Kept[r] /\ top[r] \in TopPlaces(scores[r], ProtectedK(topk, m))
  BY <1>1 DEF SplitBy
<1>4. DeferredIn(split, r) \subseteq Choice(topk) \ Kept[r]
  <2>1. DOMAIN ids = Row /\ DOMAIN ids[r] = Choice(topk)
    OBVIOUS
  <2>2. KeepsIn(ids, split, Kept)
    BY <1>1 DEF SplitBy
  <2>3. QED BY <2>1, <2>2 DEF KeepsIn, DeferredIn
<1>5. DeferredIn(split, r) \in SUBSET (Choice(topk) \ top[r]) /\ scores[r] \in [Choice(topk) -> Int]
  BY <1>3, <1>4
<1>6. /\ Cardinality(DeferredIn(split, r)) <= AtLeast(0, m)
      /\ top[r] \in SUBSET (Choice(topk) \ DeferredIn(split, r))
      /\ Cardinality(top[r]) = ProtectedK(topk, m)
      /\ \A c \in top[r], d \in DeferredIn(split, r) : scores[r][c] >= scores[r][d]
  <2> DEFINE D == DeferredIn(split, r)
             P == top[r]
             row == scores[r]
  <2>1. row \in [Choice(topk) -> Int] /\ P \in TopPlaces(row, ProtectedK(topk, m))
        /\ D \in SUBSET (Choice(topk) \ P) /\ topk \in Nat /\ m \in Int
    BY <1>3, <1>5
  <2> HIDE DEF D, P, row
  <2>2. /\ Cardinality(D) <= AtLeast(0, m)
        /\ P \in SUBSET (Choice(topk) \ D) /\ Cardinality(P) = ProtectedK(topk, m)
        /\ \A c \in P, d \in D : row[c] >= row[d]
    <3>1. Cardinality(D) <= AtLeast(0, m)
      BY ONLY <2>1, KeptEnough
    <3>2. P \in SUBSET (Choice(topk) \ D) /\ Cardinality(P) = ProtectedK(topk, m)
      BY ONLY <2>1, KeptEnough
    <3>3. \A c \in P, d \in D : row[c] >= row[d]
      <4>1. \A c \in P, d \in Choice(topk) \ P : row[c] >= row[d]
        BY ONLY <2>1 DEF TopPlaces
      <4>2. QED BY <2>1, <4>1
    <3>4. QED BY <3>1, <3>2, <3>3
  <2>3. QED BY <2>2 DEF D, P, row
<1>7. QED BY <1>6
=============================================================================
