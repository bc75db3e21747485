------------------------- MODULE SFTTrainingProofs -------------------------
(***************************************************************************)
(* Proofs about fine-tuning.  First about module SFTTraining, for any      *)
(* number of layers, cache depth and bounds.  The inductive invariant has  *)
(* a part for each hazard: who may drive the pool, which LoRA copies are   *)
(* fresh, and how the two counts of cached forwards move.                  *)
(*                                                                         *)
(* Then about module DistMoE, for any number of ranks and layers and any   *)
(* lengths.  There the inductive invariant says which lengths every rank   *)
(* goes by, how far a rank and rank 0 can be apart, and from that exactly  *)
(* what is under way between them.                                         *)
(***************************************************************************)
EXTENDS SFTTraining, DistMoE, FiniteSetTheorems, SequenceTheorems,
        WellFoundedInduction, TLAPS

PyOps   == {"idle", "layer", "sync", "unpack", "bwd", "bwdsync", "raised"}
PyKinds == {"none", "train", "eval", "backward", "recompute"}

\* The types of the variables, as far as the proofs look at them.
TypeInv ==
  /\ mode \in [ckpt : BOOLEAN, shareBB : BOOLEAN, shareCache : BOOLEAN,
               train_lora : BOOLEAN]
  /\ py \in [op : PyOps, kind : PyKinds, l : 0 .. NumLayers, b : Nat]
  /\ depth \in [Layers -> Int] /\ dirty \in [Layers -> BOOLEAN]
  /\ top \in [Layers -> 0 .. MaxDepth]
  /\ copy \in [Layers -> Nat] /\ prepared \in [Layers -> Nat]
  /\ repack \in [Layers -> {"none", "spawned", "running", "finished"}]
  /\ task \in [kind : {"none", "forward", "backward"}, l : 0 .. NumLayers,
               b : Nat, save : BOOLEAN, slot : Nat, run : BOOLEAN]
  /\ graphs \in SUBSET Nat /\ batch \in Nat
  /\ lora \in Nat /\ lora > 0

\* The control state: what the training thread is about to do says what the
\* queue holds, and in which layer.
Control ==
  /\ py.op \notin {"idle", "raised"} => py.l \in Layers
  /\ py.op \in {"unpack", "bwd", "bwdsync"} => py.kind = "backward"
  /\ py.op \in {"layer", "sync"} => py.kind \in {"train", "eval", "recompute"}
  /\ py.op = "idle" => py.kind = "none"
  /\ task.kind = "none" => task = NoTask
  /\ task.kind = "forward" => py.op = "sync" /\ task.save = Saves(py.kind)
  /\ task.kind = "backward" => py.op = "bwdsync" /\ py.l = task.l
  /\ task.kind /= "none" => task.l = py.l

\* A repack thread is at work only while the training thread stands before
\* the wait of that layer.
RepackAwaited ==
  \A l \in Layers : repack[l] \in {"spawned", "running"} =>
                      mode.shareBB /\ py.op = "unpack" /\ py.l = l

\* The layer computes with the current LoRA weights, if PEFT modules hold them.
Fresh(l) == mode.train_lora => ~dirty[l] /\ prepared[l] = lora

\* Copies are current unless marked dirty, and what is prepared comes from
\* them; a live graph, and a backward pass, imply fresh layers throughout, a
\* forward pass fresh layers behind it.
LoraInv ==
  /\ \A l \in Layers : /\ ~dirty[l] => copy[l] = lora
                       /\ prepared[l] \in {0, copy[l]}
  /\ graphs /= {} => \A l \in Layers : Fresh(l)
  /\ py.op /= "raised" /\ py.kind \in {"backward", "recompute"} =>
       \A l \in Layers : Fresh(l)
  /\ py.op \in {"layer", "sync"} => \A l \in Layers : l < py.l => Fresh(l)
  /\ py.op = "sync" /\ task = NoTask => Fresh(py.l)
  /\ task /= NoTask /\ mode.train_lora => ~dirty[task.l]
  /\ task.run => Fresh(task.l)

\* The height of a layer's cache stack, from the wrapper's count and the
\* progress of the call under way.
Height(l) ==
  LET d == depth[l] IN
  IF py.op = "sync" /\ task = NoTask /\ py.l = l THEN Counted(d)
  ELSE IF py.op = "bwdsync" /\ py.l = l /\ (task = NoTask \/ task.run) THEN d - 1
  ELSE d

DepthInv == /\ \A l \in Layers : depth[l] >= 0 /\ top[l] = Height(l)
            /\ py.op = "bwdsync" => depth[py.l] > 0

IInv == /\ TypeInv /\ Control /\ RepackAwaited /\ LoraInv /\ DepthInv

\* Every step keeps the invariant.
LEMMA Inductive == IInv /\ [Next]_vars => IInv'
<1> SUFFICES ASSUME IInv, [Next]_vars PROVE IInv'
  OBVIOUS
<1> USE SFTAssumption DEF IInv, cacheVars, loraVars, loopVars
<1>1. CASE BeginForward
  <2>1. TypeInv'
    BY <1>1 DEF BeginForward, TypeInv, PyOps, PyKinds, NoTask, Idle, Layers, Modes, Control
  <2>2. Control'
    BY <1>1 DEF BeginForward, Control, TypeInv, NoTask, Idle, Layers, Saves
  <2>3. RepackAwaited'
    BY <1>1 DEF BeginForward, RepackAwaited, Control, TypeInv, Layers, NoTask
  <2>4. LoraInv'
    <3>1. /\ py'.op = "layer" /\ py'.kind \in {"train", "eval"} /\ py'.l = 1
          /\ UNCHANGED <<mode, dirty, copy, prepared, lora, graphs, task>>
          /\ task = NoTask
      BY <1>1 DEF BeginForward, Control, TypeInv
    <3>2. \A l \in Layers : ~(l < 1)
      BY DEF Layers
    <3> QED BY <3>1, <3>2 DEF LoraInv, Fresh, NoTask
  <2>5. DepthInv'
    BY <1>1 DEF BeginForward, DepthInv, Height, Counted, Saves, Control, TypeInv, NoTask, Layers, Idle
  <2> QED BY <2>1, <2>2, <2>3, <2>4, <2>5
<1>2. CASE BeginBackward
  <2>1. TypeInv'
    BY <1>2 DEF BeginBackward, TypeInv, PyOps, PyKinds, NoTask, Idle, Layers, Modes, Control
  <2>2. Control'
    BY <1>2 DEF BeginBackward, Control, TypeInv, NoTask, Idle, Layers, Saves
  <2>3. RepackAwaited'
    BY <1>2 DEF BeginBackward, RepackAwaited, Control, TypeInv, Layers, NoTask
  <2>4. LoraInv'
    BY <1>2 DEF BeginBackward, LoraInv, Fresh, Control, TypeInv, NoTask, Idle, Layers
  <2>5. DepthInv'
    BY <1>2 DEF BeginBackward, DepthInv, Height, Counted, Saves, Control, TypeInv, NoTask, Layers, Idle
  <2> QED BY <2>1, <2>2, <2>3, <2>4, <2>5
<1>3. CASE DropGraph
  <2>1. TypeInv'
    BY <1>3 DEF DropGraph, TypeInv, PyOps, PyKinds, NoTask, Idle, Layers, Modes, Control
  <2>2. Control'
    BY <1>3 DEF DropGraph, Control, TypeInv, NoTask, Idle, Layers, Saves
  <2>3. RepackAwaited'
    BY <1>3 DEF DropGraph, RepackAwaited, Control, TypeInv, Layers, NoTask
  <2>4. LoraInv'
    BY <1>3 DEF DropGraph, LoraInv, Fresh, Control, TypeInv, NoTask, Idle, Layers
  <2>5. DepthInv'
    BY <1>3 DEF DropGraph, DepthInv, Height, Counted, Saves, Control, TypeInv, NoTask, Layers, Idle
  <2> QED BY <2>1, <2>2, <2>3, <2>4, <2>5
<1>4. CASE OptimizerStep
  <2>1. TypeInv'
    BY <1>4 DEF OptimizerStep, TypeInv
  <2>2. Control'
    BY <1>4 DEF OptimizerStep, Control, TypeInv, NoTask, Idle, Layers, Saves
  <2>3. RepackAwaited'
    BY <1>4 DEF OptimizerStep, RepackAwaited, Control, TypeInv, Layers, NoTask
  <2>4. LoraInv'
    BY <1>4 DEF OptimizerStep, LoraInv, Fresh, Control, TypeInv, NoTask, Idle, Layers
  <2>5. DepthInv'
    BY <1>4 DEF OptimizerStep, DepthInv, Height, Counted, Saves, Control, TypeInv, NoTask, Layers, Idle
  <2> QED BY <2>1, <2>2, <2>3, <2>4, <2>5
<1>5. CASE SubmitForward
  <2>1. TypeInv'
    <3>1. py.l \in Layers
      BY <1>5 DEF SubmitForward, Control
    <3>2. /\ copy' \in [Layers -> Nat] /\ prepared' \in [Layers -> Nat]
          /\ dirty' \in [Layers -> BOOLEAN]
      <4>1. /\ copy \in [Layers -> Nat] /\ prepared \in [Layers -> Nat]
            /\ dirty \in [Layers -> BOOLEAN] /\ lora \in Nat
        BY DEF TypeInv
      <4>2. \/ /\ copy' = [copy EXCEPT ![py.l] = lora]
               /\ prepared' = [prepared EXCEPT ![py.l] = 0]
               /\ dirty' = [dirty EXCEPT ![py.l] = FALSE]
            \/ UNCHANGED <<copy, prepared, dirty>>
        BY <1>5 DEF SubmitForward, UpdateLora
      <4>3. FALSE \in BOOLEAN /\ 0 \in Nat
        OBVIOUS
      <4>4. dirty' \in [Layers -> BOOLEAN]
        BY ONLY <4>1, <4>2, Zenon
      <4> QED BY ONLY <4>1, <4>2, <4>3, <4>4
    <3>3. /\ py' \in [op : PyOps, kind : PyKinds, l : 0 .. NumLayers, b : Nat]
          /\ task' \in [kind : {"none", "forward", "backward"},
                        l : 0 .. NumLayers, b : Nat, save : BOOLEAN,
                        slot : Nat, run : BOOLEAN]
      BY <1>5 DEF SubmitForward, TypeInv, NoTask, PyOps, Saves
    <3> QED BY <1>5, <3>2, <3>3 DEF SubmitForward, TypeInv
  <2>2. Control'
    BY <1>5 DEF SubmitForward, Control, TypeInv, NoTask, Idle, Layers, Saves, UpdateLora
  <2>3. RepackAwaited'
    BY <1>5 DEF SubmitForward, RepackAwaited, Control, TypeInv, Layers, NoTask, UpdateLora
  <2>4. LoraInv'
    <3>1. /\ py.l \in Layers /\ py.op = "layer" /\ task = NoTask
          /\ \A l \in Layers : l < py.l => Fresh(l)
      BY <1>5 DEF SubmitForward, Control, LoraInv
    <3>2. /\ py'.op = "sync" /\ py'.l = py.l /\ py'.kind = py.kind
          /\ task'.kind = "forward" /\ task'.l = py.l /\ ~task'.run
      BY <1>5 DEF SubmitForward, TypeInv, NoTask
    <3>n. task' /= NoTask
      BY <3>2 DEF NoTask
    <3>3. UNCHANGED <<mode, graphs, lora>>
      BY <1>5 DEF SubmitForward
    <3>4. mode.train_lora => ~dirty'[py.l]
      BY <1>5, <3>1 DEF SubmitForward, TypeInv
    <3>5. ASSUME NEW l \in Layers
          PROVE  /\ ~dirty'[l] => copy'[l] = lora
                 /\ prepared'[l] \in {0, copy'[l]}
                 /\ Fresh(l) => Fresh(l)'
      <4>1. CASE l = py.l
        BY <1>5, <3>1, <3>3, <4>1
        DEF SubmitForward, UpdateLora, LoraInv, Fresh, TypeInv
      <4>2. CASE l /= py.l
        BY <1>5, <3>1, <3>3, <4>2
        DEF SubmitForward, UpdateLora, LoraInv, Fresh, TypeInv
      <4> QED BY <4>1, <4>2
    <3> QED BY <3>1, <3>2, <3>n, <3>3, <3>4, <3>5 DEF LoraInv
  <2>5. DepthInv'
    BY <1>5 DEF SubmitForward, DepthInv, Height, Counted, Saves, Control, TypeInv, NoTask, Layers, Idle, UpdateLora
  <2> QED BY <2>1, <2>2, <2>3, <2>4, <2>5
<1>6. CASE SyncForward
  <2>1. TypeInv'
    <3>1. py.l \in Layers /\ py.kind \in PyKinds /\ py.b \in Nat
      BY <1>6 DEF SyncForward, TypeInv, Control
    <3>2. py' \in [op : PyOps, kind : PyKinds, l : 0 .. NumLayers, b : Nat]
      <4>1. CASE py' = [py EXCEPT !.op = "bwd", !.kind = "backward"]
        BY <4>1 DEF TypeInv, PyOps, PyKinds
      <4>2. CASE py' = [py EXCEPT !.op = "layer", !.l = @ + 1] /\ py.l < NumLayers
        <5>1. py.l + 1 \in 0 .. NumLayers
          BY <3>1, <4>2 DEF Layers
        <5>2. py \in [op : PyOps, kind : PyKinds, l : 0 .. NumLayers, b : Nat]
          BY DEF TypeInv
        <5> QED BY <4>2, <5>1, <5>2 DEF PyOps
      <4>3. CASE py' = Idle
        BY <4>3 DEF Idle, PyOps, PyKinds
      <4> QED BY <1>6, <4>1, <4>2, <4>3 DEF SyncForward
    <3>3. depth' \in [Layers -> Int]
      <4>1. depth \in [Layers -> Int] /\ depth[py.l] \in Int
        BY <3>1 DEF TypeInv
      <4>2. depth' = [depth EXCEPT ![py.l] = Counted(depth[py.l])]
        BY <1>6 DEF SyncForward
      <4>3. Counted(depth[py.l]) \in Int
        BY <4>1 DEF Counted
      <4> QED BY <4>1, <4>2, <4>3
    <3>4. graphs' \in {graphs, graphs \cup {py.b}}
      BY <1>6 DEF SyncForward
    <3>5. graphs' \in SUBSET Nat
      BY <3>1, <3>4 DEF TypeInv
    <3> QED BY <1>6, <3>2, <3>3, <3>5 DEF SyncForward, TypeInv
  <2>6. /\ py.op = "sync" /\ task = NoTask /\ task' = NoTask /\ NumLayers \in Nat
        /\ py.l \in Layers /\ py.kind \in {"train", "eval", "recompute"}
        /\ UNCHANGED <<mode, dirty, top, copy, prepared, lora>>
        /\ depth' = [depth EXCEPT ![py.l] = Counted(depth[py.l])]
        /\ graphs' \in {graphs, graphs \cup {py.b}}
        /\ graphs' /= graphs => py.l = NumLayers
    BY <1>6 DEF SyncForward, Control
  <2>7. \/ /\ py.kind = "recompute"
           /\ py'.op = "bwd" /\ py'.kind = "backward" /\ py'.l = py.l
        \/ /\ py.kind /= "recompute" /\ py.l < NumLayers
           /\ py'.op = "layer" /\ py'.kind = py.kind /\ py'.l = py.l + 1
        \/ /\ py.kind /= "recompute" /\ py.l = NumLayers
           /\ py'.op = "idle" /\ py'.kind = "none" /\ py'.l = 0
    <3>1. py \in [op : PyOps, kind : PyKinds, l : 0 .. NumLayers, b : Nat]
      BY DEF TypeInv
    <3>2. py' = IF py.kind = "recompute"
                  THEN [py EXCEPT !.op = "bwd", !.kind = "backward"]
                ELSE IF py.l < NumLayers
                  THEN [py EXCEPT !.op = "layer", !.l = @ + 1]
                ELSE Idle
      BY <1>6 DEF SyncForward
    <3>3. CASE py.kind = "recompute"
      BY ONLY <3>1, <3>2, <3>3
    <3>4. CASE py.kind /= "recompute" /\ py.l < NumLayers
      BY ONLY <3>1, <3>2, <3>4
    <3>5. CASE py.kind /= "recompute" /\ ~(py.l < NumLayers)
      <4>1. py.l = NumLayers
        BY ONLY <2>6, <3>5 DEF Layers
      <4> QED BY ONLY <3>2, <3>5, <4>1 DEF Idle
    <3> QED BY <3>3, <3>4, <3>5
  <2>2. Control'
    <3>1. py'.op = "layer" => py'.l \in Layers
      BY ONLY <2>6, <2>7 DEF Layers
    <3> QED BY ONLY <2>6, <2>7, <3>1 DEF Control, NoTask
  <2>3. RepackAwaited'
    BY <1>6 DEF SyncForward, RepackAwaited, Control, TypeInv, Layers, NoTask, Counted, Saves
  <2>4. LoraInv'
    <3>1. \A l : Fresh(l)' <=> Fresh(l)
      BY ONLY <2>6 DEF Fresh
    <3>2. Fresh(py.l) /\ \A l \in Layers : l < py.l => Fresh(l)
      BY ONLY <2>6, LoraInv DEF LoraInv
    <3>3. \A l \in Layers : l < py.l + 1 => Fresh(l)
      <4>1. \A l \in Layers : l < py.l + 1 => l < py.l \/ l = py.l
        BY ONLY <2>6 DEF Layers
      <4> QED BY ONLY <3>2, <4>1
    <3>4. py.l = NumLayers => \A l \in Layers : Fresh(l)
      <4>1. \A l \in Layers : l < NumLayers + 1
        BY ONLY <2>6 DEF Layers
      <4> QED BY ONLY <3>3, <4>1
    <3>5. graphs' /= {} => \A l \in Layers : Fresh(l)
      BY ONLY <2>6, <3>4, LoraInv DEF LoraInv
    <3>6. py.kind = "recompute" => \A l \in Layers : Fresh(l)
      BY ONLY <2>6, LoraInv DEF LoraInv
    <3>7. /\ py'.op /= "raised" /\ py'.kind \in {"backward", "recompute"} =>
               \A l \in Layers : Fresh(l)
          /\ py'.op \in {"layer", "sync"} => \A l \in Layers : l < py'.l => Fresh(l)
          /\ py'.op /= "sync"
      BY ONLY <2>6, <2>7, <3>3, <3>6
    <3>8. ~task'.run
      BY ONLY <2>6 DEF NoTask
    <3>9. \A l \in Layers : /\ ~dirty'[l] => copy'[l] = lora'
                            /\ prepared'[l] \in {0, copy'[l]}
      BY ONLY <2>6, LoraInv DEF LoraInv
    <3> QED BY ONLY <2>6, <3>1, <3>5, <3>7, <3>8, <3>9 DEF LoraInv
  <2>5. DepthInv'
    <3>1. py'.op \notin {"sync", "bwdsync"}
      BY ONLY <2>7
    <3>2. \A l \in Layers : Height(l)' = depth'[l]
      BY ONLY <3>1 DEF Height
    <3>3. depth \in [Layers -> Int]
      BY DEF TypeInv
    <3>4. ASSUME NEW l \in Layers PROVE depth'[l] >= 0 /\ top'[l] = depth'[l]
      <4>1. CASE l = py.l
        <5>1. depth'[l] = Counted(depth[l]) /\ Height(l) = Counted(depth[l])
          BY ONLY <2>6, <3>3, <4>1 DEF Height
        <5>2. depth[l] >= 0 /\ depth[l] \in Int /\ top[l] = Height(l)
          BY ONLY <3>3, DepthInv, l \in Layers DEF DepthInv
        <5>3. Counted(depth[l]) >= 0
          BY ONLY <5>2 DEF Counted
        <5> QED BY ONLY <2>6, <5>1, <5>2, <5>3
      <4>2. CASE l /= py.l
        <5>1. depth'[l] = depth[l]
          BY ONLY <2>6, <3>3, <4>2, l \in Layers
        <5>2. Height(l) = depth[l]
          BY ONLY <2>6, <4>2 DEF Height
        <5>3. depth[l] >= 0 /\ top[l] = Height(l)
          BY ONLY DepthInv, l \in Layers DEF DepthInv
        <5> QED BY ONLY <2>6, <5>1, <5>2, <5>3
      <4> QED BY <4>1, <4>2
    <3> QED BY ONLY <3>1, <3>2, <3>4 DEF DepthInv
  <2> QED BY <2>1, <2>2, <2>3, <2>4, <2>5
<1>7. CASE EnterBackward
  <2>1. TypeInv'
    BY <1>7 DEF EnterBackward, WaitRepack, TypeInv, PyOps, PyKinds, NoTask, Idle, Layers, Modes, Control, Joined
  <2>2. Control'
    BY <1>7 DEF EnterBackward, WaitRepack, Control, TypeInv, NoTask, Idle, Layers, Saves, Joined
  <2>3. RepackAwaited'
    BY <1>7 DEF EnterBackward, WaitRepack, RepackAwaited, Control, TypeInv, Layers, NoTask, Joined
  <2>4. LoraInv'
    BY <1>7 DEF EnterBackward, WaitRepack, LoraInv, Fresh, Control, TypeInv, NoTask, Idle, Layers, Joined
  <2>5. DepthInv'
    BY <1>7 DEF EnterBackward, WaitRepack, DepthInv, Height, Counted, Saves, Control, TypeInv, NoTask, Layers, Idle, Joined
  <2> QED BY <2>1, <2>2, <2>3, <2>4, <2>5
<1>8. CASE RaiseNoCache
  <2>1. TypeInv'
    BY <1>8 DEF RaiseNoCache, TypeInv, PyOps, PyKinds, NoTask, Idle, Layers, Modes, Control
  <2>2. Control'
    BY <1>8 DEF RaiseNoCache, Control, TypeInv, NoTask, Idle, Layers, Saves
  <2>3. RepackAwaited'
    BY <1>8 DEF RaiseNoCache, RepackAwaited, Control, TypeInv, Layers, NoTask
  <2>4. LoraInv'
    BY <1>8 DEF RaiseNoCache, LoraInv, Fresh, Control, TypeInv, NoTask, Idle, Layers
  <2>5. DepthInv'
    BY <1>8 DEF RaiseNoCache, DepthInv, Height, Counted, Saves, Control, TypeInv, NoTask, Layers, Idle
  <2> QED BY <2>1, <2>2, <2>3, <2>4, <2>5
<1>9. CASE SubmitBackward
  <2>1. TypeInv'
    BY <1>9 DEF SubmitBackward, TypeInv, PyOps, PyKinds, NoTask, Idle, Layers, Modes, Control
  <2>2. Control'
    BY <1>9 DEF SubmitBackward, Control, TypeInv, NoTask, Idle, Layers, Saves
  <2>3. RepackAwaited'
    BY <1>9 DEF SubmitBackward, RepackAwaited, Control, TypeInv, Layers, NoTask
  <2>4. LoraInv'
    BY <1>9 DEF SubmitBackward, LoraInv, Fresh, Control, TypeInv, NoTask, Idle, Layers
  <2>5. DepthInv'
    BY <1>9 DEF SubmitBackward, DepthInv, Height, Counted, Saves, Control, TypeInv, NoTask, Layers, Idle
  <2> QED BY <2>1, <2>2, <2>3, <2>4, <2>5
<1>10. CASE SyncBackward
  <2>1. TypeInv'
    <3>1. py.l \in Layers /\ py.kind = "backward"
      BY <1>10 DEF SyncBackward, Control
    <3>2. \/ py.l > 1 /\ py' = [py EXCEPT !.op = "unpack", !.l = @ - 1]
          \/ py' = Idle
      BY <1>10 DEF SyncBackward
    <3>3. py' \in [op : PyOps, kind : PyKinds, l : 0 .. NumLayers, b : Nat]
      <4>1. CASE py.l > 1 /\ py' = [py EXCEPT !.op = "unpack", !.l = @ - 1]
        <5>1. py.l \in 1 .. NumLayers /\ py.l - 1 \in 0 .. NumLayers
          BY <3>1 DEF Layers
        <5>2. py \in [op : PyOps, kind : PyKinds, l : 0 .. NumLayers, b : Nat]
          BY DEF TypeInv
        <5> QED BY <4>1, <5>1, <5>2 DEF PyOps
      <4>2. CASE py' = Idle
        BY <4>2 DEF Idle, PyOps, PyKinds
      <4> QED BY <3>2, <4>1, <4>2
    <3>4. graphs' \in {graphs, graphs \ {py.b}}
      BY <1>10 DEF SyncBackward
    <3>7. depth' \in [Layers -> Int]
      <4>1. depth \in [Layers -> Int] /\ depth[py.l] - 1 \in Int
        BY <3>1 DEF TypeInv
      <4>2. depth' = [depth EXCEPT ![py.l] = depth[py.l] - 1]
        BY <1>10 DEF SyncBackward
      <4> QED BY <4>1, <4>2
    <3>5. repack' \in [Layers -> {"none", "spawned", "running", "finished"}]
      BY <1>10 DEF SyncBackward, TypeInv
    <3>6. graphs' \in SUBSET Nat
      BY <3>4 DEF TypeInv
    <3> QED BY <1>10, <3>3, <3>5, <3>6, <3>7 DEF SyncBackward, TypeInv
  <2>2. Control'
    <3>1. py.l \in Layers /\ py.kind = "backward" /\ task = NoTask
      BY <1>10 DEF SyncBackward, Control
    <3>2. \/ py.l > 1 /\ py' = [py EXCEPT !.op = "unpack", !.l = @ - 1]
          \/ py' = Idle
      BY <1>10 DEF SyncBackward
    <3>3. UNCHANGED <<mode, task>>
      BY <1>10 DEF SyncBackward
    <3>4. CASE py.l > 1 /\ py' = [py EXCEPT !.op = "unpack", !.l = @ - 1]
      <4>1. py'.op = "unpack" /\ py'.kind = "backward" /\ py'.l \in Layers
        <5>1. py \in [op : PyOps, kind : PyKinds, l : 0 .. NumLayers, b : Nat]
          BY DEF TypeInv
        <5>2. py'.op = "unpack" /\ py'.kind = py.kind /\ py'.l = py.l - 1
          BY ONLY <3>4, <5>1
        <5> QED BY ONLY <3>1, <3>4, <5>2, SFTAssumption DEF Layers
      <4> QED BY <3>1, <3>3, <4>1 DEF Control, NoTask
    <3>5. CASE py' = Idle
      BY <3>1, <3>3, <3>5 DEF Control, NoTask, Idle
    <3> QED BY <3>2, <3>4, <3>5
  <2>3. RepackAwaited'
    <3>1. py.l \in Layers /\ mode' = mode
      BY <1>10 DEF SyncBackward, Control
    <3>2. \A l \in Layers : repack[l] \notin {"spawned", "running"}
      BY <1>10 DEF SyncBackward, RepackAwaited
    <3>3. ASSUME NEW l \in Layers, repack'[l] \in {"spawned", "running"}
          PROVE  mode.shareBB /\ py'.op = "unpack" /\ py'.l = l
      <4>1. mode.shareBB /\ l = py.l - 1
        BY <1>10, <3>2, <3>3 DEF SyncBackward, NextBackward, TypeInv
      <4>2. py.l > 1
        BY <3>1, <4>1 DEF Layers
      <4> QED BY <1>10, <4>1, <4>2 DEF SyncBackward, TypeInv
    <3> QED BY <3>1, <3>3 DEF RepackAwaited
  <2>4. LoraInv'
    <3>1. py.l \in Layers /\ py.kind = "backward" /\ task = NoTask
      BY <1>10 DEF SyncBackward, Control
    <3>2. \/ py.l > 1 /\ py' = [py EXCEPT !.op = "unpack", !.l = @ - 1]
          \/ py' = Idle
      BY <1>10 DEF SyncBackward
    <3>p. py'.op \in {"unpack", "idle"}
      <4>1. CASE py' = [py EXCEPT !.op = "unpack", !.l = @ - 1]
        BY <4>1 DEF TypeInv
      <4>2. CASE py' = Idle
        BY <4>2 DEF Idle
      <4> QED BY <3>2, <4>1, <4>2
    <3>3. py'.op \notin {"layer", "sync"} /\ task' = NoTask
      BY <1>10, <3>1, <3>p DEF SyncBackward
    <3>4. \A l \in Layers : Fresh(l)
      BY <1>10, <3>1 DEF SyncBackward, LoraInv
    <3>5. UNCHANGED <<mode, dirty, copy, prepared, lora>>
      BY <1>10 DEF SyncBackward
    <3>6. ~task'.run
      BY <3>3 DEF NoTask
    <3> QED BY <3>3, <3>4, <3>5, <3>6 DEF LoraInv, Fresh
  <2>5. DepthInv'
    <3>1. py.l \in Layers /\ py.kind = "backward" /\ task = NoTask
      BY <1>10 DEF SyncBackward, Control
    <3>2. \/ py.l > 1 /\ py' = [py EXCEPT !.op = "unpack", !.l = @ - 1]
          \/ py' = Idle
      BY <1>10 DEF SyncBackward
    <3>p. py'.op \in {"unpack", "idle"}
      <4>1. CASE py' = [py EXCEPT !.op = "unpack", !.l = @ - 1]
        BY <4>1 DEF TypeInv
      <4>2. CASE py' = Idle
        BY <4>2 DEF Idle
      <4> QED BY <3>2, <4>1, <4>2
    <3>3. depth[py.l] > 0 /\ py.op = "bwdsync"
      BY <1>10 DEF SyncBackward, DepthInv
    <3>4. /\ depth' = [depth EXCEPT ![py.l] = @ - 1]
          /\ UNCHANGED top
      BY <1>10 DEF SyncBackward
    <3>6. ASSUME NEW l \in Layers
          PROVE  depth'[l] >= 0 /\ top'[l] = Height(l)'
      <4>1. CASE l = py.l
        BY <3>1, <3>3, <3>4, <3>p, <4>1 DEF DepthInv, Height, TypeInv
      <4>2. CASE l /= py.l
        BY <3>1, <3>3, <3>4, <3>p, <4>2 DEF DepthInv, Height, TypeInv
      <4> QED BY <4>1, <4>2
    <3> QED BY <3>p, <3>6 DEF DepthInv
  <2> QED BY <2>1, <2>2, <2>3, <2>4, <2>5
<1>11. CASE StartForward
  <2>1. TypeInv'
    BY <1>11 DEF StartForward, TypeInv, PyOps, PyKinds, NoTask, Idle, Layers, Modes, Control
  <2>2. Control'
    BY <1>11 DEF StartForward, Control, TypeInv, NoTask, Idle, Layers, Saves
  <2>3. RepackAwaited'
    BY <1>11 DEF StartForward, RepackAwaited, Control, TypeInv, Layers, NoTask
  <2>4. LoraInv'
    BY <1>11 DEF StartForward, LoraInv, Fresh, Control, TypeInv
  <2>5. DepthInv'
    <3>1. /\ task' = [task EXCEPT !.run = TRUE] /\ task.kind = "forward"
          /\ UNCHANGED <<mode, py, depth, top>>
      BY <1>11 DEF StartForward
    <3>2. py.op = "sync"
      BY <3>1 DEF Control
    <3>3. task' /= NoTask /\ task /= NoTask
      <4>1. task'.kind = "forward"
        BY <3>1 DEF TypeInv
      <4> QED BY ONLY <3>1, <4>1 DEF NoTask
    <3>4. \A l : Height(l)' = Height(l)
      BY ONLY <3>1, <3>2, <3>3 DEF Height
    <3> QED BY ONLY <3>1, <3>2, <3>4, DepthInv DEF DepthInv
  <2> QED BY <2>1, <2>2, <2>3, <2>4, <2>5
<1>12. CASE FinishForward
  <2>1. TypeInv'
    <3>1. task.l \in Layers
      BY <1>12 DEF FinishForward, Control
    <3>2. top' \in [Layers -> 0 .. MaxDepth]
      BY <1>12, <3>1 DEF FinishForward, TypeInv, SaveSlot, PushedTop, cacheVars
    <3>3. task' \in [kind : {"none", "forward", "backward"}, l : 0 .. NumLayers,
                     b : Nat, save : BOOLEAN, slot : Nat, run : BOOLEAN]
      BY <1>12 DEF FinishForward, NoTask
    <3> QED BY <1>12, <3>2, <3>3 DEF FinishForward, TypeInv
  <2>2. Control'
    BY <1>12 DEF FinishForward, Control, TypeInv, NoTask, Idle, Layers, Saves, SaveSlot, PushedTop, Saves
  <2>3. RepackAwaited'
    BY <1>12 DEF FinishForward, RepackAwaited, Control, TypeInv, Layers, NoTask, SaveSlot, PushedTop, Saves
  <2>4. LoraInv'
    BY <1>12 DEF FinishForward, LoraInv, Fresh, Control, TypeInv, NoTask, Idle, Layers, SaveSlot, PushedTop, Saves
  <2>5. DepthInv'
    <3>1. /\ py.l \in Layers /\ task.l = py.l /\ py.op = "sync"
          /\ task.save = Saves(py.kind) /\ task /= NoTask
      BY <1>12 DEF FinishForward, Control, NoTask
    <3>2. UNCHANGED <<depth, py, mode>> /\ task' = NoTask
      BY <1>12 DEF FinishForward
    <3>3. top' = IF Saves(py.kind) THEN [top EXCEPT ![py.l] = SaveSlot(top[py.l])]
                 ELSE top
      BY <1>12, <3>1 DEF FinishForward
    <3>4. \A l \in Layers : top[l] = depth[l] /\ depth[l] >= 0
      BY <3>1 DEF DepthInv, Height
    <3>5. ASSUME NEW l \in Layers PROVE top'[l] = Height(l)'
      <4>1. CASE l = py.l
        BY <3>1, <3>2, <3>3, <3>4, <4>1
        DEF Height, Counted, Saves, SaveSlot, PushedTop, TypeInv
      <4>2. CASE l /= py.l
        BY <3>1, <3>2, <3>3, <3>4, <4>2 DEF Height, TypeInv
      <4> QED BY <4>1, <4>2
    <3> QED BY <3>1, <3>2, <3>4, <3>5 DEF DepthInv
  <2> QED BY <2>1, <2>2, <2>3, <2>4, <2>5
<1>13. CASE StartBackward
  <2>1. TypeInv'
    <3>1. task.l \in Layers /\ top[task.l] \in Nat
      BY <1>13 DEF StartBackward, Control, TypeInv
    <3>2. top' \in [Layers -> 0 .. MaxDepth]
      BY <1>13, <3>1 DEF StartBackward, TypeInv
    <3>3. task' = [task EXCEPT !.run = TRUE, !.slot = top[task.l]]
      BY <1>13 DEF StartBackward
    <3>4. task' \in [kind : {"none", "forward", "backward"}, l : 0 .. NumLayers,
                     b : Nat, save : BOOLEAN, slot : Nat, run : BOOLEAN]
      BY <3>1, <3>3 DEF TypeInv
    <3> QED BY <1>13, <3>2, <3>4 DEF StartBackward, TypeInv
  <2>2. Control'
    BY <1>13 DEF StartBackward, Control, TypeInv, NoTask, Idle, Layers, Saves, BackwardBB, Repacked
  <2>3. RepackAwaited'
    BY <1>13 DEF StartBackward, RepackAwaited, Control, TypeInv, Layers, NoTask, BackwardBB, Repacked
  <2>4. LoraInv'
    BY <1>13 DEF StartBackward, LoraInv, Fresh, Control, TypeInv, NoTask, Idle, Layers, BackwardBB, Repacked
  <2>5. DepthInv'
    <3>1. /\ py.l \in Layers /\ task.l = py.l /\ py.op = "bwdsync"
          /\ ~task.run /\ task /= NoTask /\ depth[py.l] > 0
      BY <1>13 DEF StartBackward, Control, NoTask, DepthInv
    <3>2. UNCHANGED <<depth, py, mode>> /\ task'.run
      BY <1>13 DEF StartBackward, TypeInv
    <3>3. \A l \in Layers : top[l] = depth[l] /\ depth[l] >= 0
      BY <3>1 DEF DepthInv, Height
    <3>4. top' = [top EXCEPT ![py.l] = depth[py.l] - 1]
      BY <1>13, <3>1, <3>3 DEF StartBackward
    <3>5. ASSUME NEW l \in Layers PROVE top'[l] = Height(l)'
      <4>1. CASE l = py.l
        BY <3>1, <3>2, <3>4, <4>1 DEF Height, TypeInv
      <4>2. CASE l /= py.l
        BY <3>1, <3>2, <3>3, <3>4, <4>2 DEF Height, TypeInv
      <4> QED BY <4>1, <4>2
    <3> QED BY <3>1, <3>2, <3>3, <3>5 DEF DepthInv
  <2> QED BY <2>1, <2>2, <2>3, <2>4, <2>5
<1>14. CASE FinishBackward
  <2>1. TypeInv'
    <3>1. task' \in [kind : {"none", "forward", "backward"}, l : 0 .. NumLayers,
                     b : Nat, save : BOOLEAN, slot : Nat, run : BOOLEAN]
      BY <1>14 DEF FinishBackward, NoTask
    <3> QED BY <1>14, <3>1 DEF FinishBackward, TypeInv
  <2>2. Control'
    BY <1>14 DEF FinishBackward, Control, TypeInv, NoTask, Idle, Layers, Saves
  <2>3. RepackAwaited'
    BY <1>14 DEF FinishBackward, RepackAwaited, Control, TypeInv, Layers, NoTask
  <2>4. LoraInv'
    BY <1>14 DEF FinishBackward, LoraInv, Fresh, Control, TypeInv, NoTask, Idle, Layers
  <2>5. DepthInv'
    BY <1>14 DEF FinishBackward, DepthInv, Height, Counted, Saves, Control, TypeInv, NoTask, Layers, Idle
  <2> QED BY <2>1, <2>2, <2>3, <2>4, <2>5
<1>15. ASSUME NEW k \in Layers, Repack(k) PROVE IInv'
  <2>1. TypeInv'
    <3>1. /\ \/ repack' = [repack EXCEPT ![k] = "running"]
             \/ repack' = [repack EXCEPT ![k] = "finished"]
          /\ UNCHANGED <<loopVars, py, graphs, depth, dirty, cacheVars, loraVars, task>>
      BY <1>15 DEF Repack, StartRepack, FinishRepack
    <3>2. repack' \in [Layers -> {"none", "spawned", "running", "finished"}]
      <4>1. repack \in [Layers -> {"none", "spawned", "running", "finished"}]
        BY DEF TypeInv
      <4> QED BY ONLY <3>1, <4>1
    <3> QED BY <3>1, <3>2 DEF TypeInv
  <2>2. Control'
    BY <1>15 DEF Repack, StartRepack, FinishRepack, Control, TypeInv, NoTask, Idle, Layers, Saves
  <2>3. RepackAwaited'
    BY <1>15 DEF Repack, StartRepack, FinishRepack, RepackAwaited, Control, TypeInv, Layers, NoTask
  <2>4. LoraInv'
    BY <1>15 DEF Repack, StartRepack, FinishRepack, LoraInv, Fresh
  <2>5. DepthInv'
    BY <1>15 DEF Repack, StartRepack, FinishRepack, DepthInv, Height, Counted, Saves
  <2> QED BY <2>1, <2>2, <2>3, <2>4, <2>5
<1>16. CASE UNCHANGED vars
  BY <1>16 DEF vars, TypeInv, Control, RepackAwaited, LoraInv,
    DepthInv, Fresh, Height, Counted, Saves
<1> QED
  BY <1>1, <1>2, <1>3, <1>4, <1>5, <1>6, <1>7, <1>8, <1>9, <1>10, <1>11, <1>12, <1>13, <1>14, <1>15, <1>16 DEF cacheVars, loraVars, loopVars, Next, Python, Worker, Finished

\* The initial states satisfy it.
LEMMA Initial == Init => IInv
<1> SUFFICES ASSUME Init PROVE IInv
  OBVIOUS
<1> USE SFTAssumption DEF Init, Idle, NoTask
<1>1. TypeInv
  <2>1. mode \in [ckpt : BOOLEAN, shareBB : BOOLEAN, shareCache : BOOLEAN,
                  train_lora : BOOLEAN]
    BY DEF Modes
  <2>2. /\ py \in [op : PyOps, kind : PyKinds, l : 0 .. NumLayers, b : Nat]
        /\ task \in [kind : {"none", "forward", "backward"}, l : 0 .. NumLayers,
                     b : Nat, save : BOOLEAN, slot : Nat, run : BOOLEAN]
    BY DEF PyOps, PyKinds
  <2>3. top \in [Layers -> 0 .. MaxDepth]
    <3>1. 0 \in 0 .. MaxDepth /\ top = [l \in Layers |-> 0]
      OBVIOUS
    <3> HIDE SFTAssumption DEF Init, Idle, NoTask
    <3> QED BY <3>1
  <2>4. /\ depth \in [Layers -> Int] /\ dirty \in [Layers -> BOOLEAN]
        /\ copy \in [Layers -> Nat] /\ prepared \in [Layers -> Nat]
        /\ repack \in [Layers -> {"none", "spawned", "running", "finished"}]
    OBVIOUS
  <2>5. /\ graphs \in SUBSET Nat /\ batch \in Nat
        /\ lora \in Nat /\ lora > 0
    <3>1. graphs = {} /\ batch = 0 /\ lora = 1
      OBVIOUS
    <3> HIDE DEF Init
    <3> QED BY <3>1
  <2> HIDE SFTAssumption DEF Init, Idle, NoTask
  <2> QED BY <2>1, <2>2, <2>3, <2>4, <2>5 DEF TypeInv
<1>2. Control /\ RepackAwaited
  BY DEF Control, RepackAwaited
<1>3. LoraInv /\ DepthInv
  BY DEF LoraInv, DepthInv, Height, Fresh
<1> QED BY <1>1, <1>2, <1>3 DEF IInv

\* The invariant holds in every behaviour.
THEOREM Invariance == Spec => []IInv
BY Initial, Inductive, PTL DEF Spec

\* The worker's task and the repack threads never drive the NUMA pool
\* together: a busy repack thread means that the training thread stands before
\* its wait, so that no task is queued and no other thread is busy.
THEOREM PoolExclusiveSafe == Spec => []PoolExclusive
<1>1. IInv => PoolExclusive
  <2> SUFFICES ASSUME IInv PROVE PoolExclusive
    OBVIOUS
  <2> DEFINE Busy == {l \in Layers : repack[l] = "running"}
  <2>1. CASE Busy = {}
    <3>1. Cardinality(Busy) = 0
      BY <2>1, FS_EmptySet
    <3> QED BY <3>1 DEF PoolExclusive
  <2>2. ASSUME NEW k \in Busy PROVE PoolExclusive
    <3>1. Busy = {k}
      BY <2>2 DEF IInv, RepackAwaited
    <3>2. Cardinality(Busy) = 1
      BY <3>1, FS_Singleton
    <3>3. py.op = "unpack"
      BY <2>2 DEF IInv, RepackAwaited
    <3>4. ~task.run
      BY <3>3 DEF IInv, Control, TypeInv, NoTask
    <3> QED BY <3>2, <3>4 DEF PoolExclusive
  <2> QED BY <2>1, <2>2
<1> QED BY <1>1, Invariance, PTL

\* Every task computes with the LoRA weights of the last optimizer step, if
\* PEFT modules hold them.
THEOREM LoraFreshSafe == Spec => []LoraFresh
<1>1. IInv => LoraFresh
  BY DEF IInv, LoraInv, Fresh, LoraFresh
<1> QED BY <1>1, Invariance, PTL

\* The wrapper's count of cached forwards is the height of the cache stack.
THEOREM DepthAgreesSafe == Spec => []DepthAgrees
<1>1. IInv => DepthAgrees
  BY DEF IInv, DepthInv, Height, DepthAgrees
<1> QED BY <1>1, Invariance, PTL

-----------------------------------------------------------------------------
(* Whose data a backward reads.  A stack never holds more than one entry,   *)
(* because a save overwrites the top: the entry, and the memory behind it,  *)
(* belong to the newest graph (without checkpointing) or to the             *)
(* recomputation just made (with it).                                       *)

Holds(l, b) == slot[l][1] = b /\ mem[Cell(l, 1)] = <<l, b>>

Newest(b) == b \in graphs /\ \A g \in graphs : g <= b

CacheType ==
  /\ slot \in [Layers -> [1 .. MaxDepth -> Nat]]
  /\ mem \in [Layers \X (1 .. MaxDepth) -> (0 .. NumLayers) \X Nat]
  /\ mode.shareCache => mode.ckpt
  /\ \A l \in Layers : top[l] \in {0, 1}

\* The batch the training thread works for.
PassInv ==
  /\ \A g \in graphs : g <= batch
  /\ py.kind \in {"train", "eval"} => py.b = batch /\ \A g \in graphs : g < batch
  /\ py.kind \in {"backward", "recompute"} =>
       py.b \in graphs /\ (~mode.ckpt => Newest(py.b))
  /\ py.kind = "recompute" => mode.ckpt
  /\ task /= NoTask => task.b = py.b

\* Without checkpointing: what the cache entries hold.
EntryInv ==
  ~mode.ckpt =>
    /\ py.kind \in {"none", "eval", "backward"} =>
         \A l \in Layers, b \in graphs : top[l] = 1 /\ Newest(b) => Holds(l, b)
    /\ py.kind = "train" =>
         \A l \in Layers :
           /\ l < py.l \/ (l = py.l /\ py.op = "sync" /\ task = NoTask)
           /\ top[l] = 1
           => Holds(l, py.b)
    /\ py.kind = "backward" => \A l \in Layers : l > py.l => top[l] = 0

\* The layer at work: it holds what its backward will read, which pops it.
WorkInv ==
  /\ mode.ckpt /\ ( \/ py.op = "sync" /\ py.kind = "recompute" /\ task = NoTask
                   \/ py.op \in {"bwd", "bwdsync"} ) => Holds(py.l, py.b)
  /\ py.op = "bwdsync" /\ (task = NoTask \/ task.run) => top[py.l] = 0
  /\ task.kind = "backward" /\ task.run => task.slot = 1 /\ Holds(py.l, py.b)

\* The repack buffer holds its recorded owner's weights unless a repack runs.
BufferInv ==
  /\ bb \in [owner : 0 .. NumLayers, content : 0 .. NumLayers]
  /\ (\A l \in Layers : repack[l] /= "running") => bb.owner = bb.content
  /\ task.kind = "backward" /\ task.run /\ mode.shareBB => bb = Repacked(py.l)

OInv == CacheType /\ PassInv /\ EntryInv /\ WorkInv /\ BufferInv

\* Every step keeps the cache invariant too.
LEMMA OwnInductive == IInv /\ OInv /\ [Next]_vars => OInv'
<1> SUFFICES ASSUME IInv, OInv, [Next]_vars PROVE OInv'
  OBVIOUS
<1> USE SFTAssumption DEF IInv, OInv, cacheVars, loraVars, loopVars
<1>1. CASE BeginForward
  <2>1. CacheType'
    BY <1>1 DEF BeginForward, CacheType
  <2>2. PassInv'
    BY <1>1 DEF BeginForward, PassInv, Newest, TypeInv, Control, NoTask
  <2>3. EntryInv'
    <3>1. /\ py.kind = "none" /\ py'.kind \in {"train", "eval"}
          /\ py'.l = 1 /\ py'.op = "layer"
      BY <1>1 DEF BeginForward, Control
    <3>2. UNCHANGED <<mode, graphs, top, slot, mem>>
      BY <1>1 DEF BeginForward
    <3>3. \A l \in Layers : ~(l < 1)
      BY DEF Layers
    <3> QED BY <3>1, <3>2, <3>3 DEF EntryInv, Newest, Holds, Cell
  <2>4. WorkInv'
    BY <1>1 DEF BeginForward, WorkInv, Holds, Cell, TypeInv, Control, NoTask
  <2>5. BufferInv'
    BY <1>1 DEF BeginForward, BufferInv, Repacked, TypeInv, NoTask, Control
  <2> QED BY <2>1, <2>2, <2>3, <2>4, <2>5
<1>2. CASE BeginBackward
  <2>1. CacheType'
    BY <1>2 DEF BeginBackward, CacheType
  <2>2. PassInv'
    BY <1>2 DEF BeginBackward, PassInv, Newest, TypeInv, Control, NoTask
  <2>3. EntryInv'
    <3>1. /\ py.kind = "none" /\ py'.kind = "backward" /\ py'.l = NumLayers
      BY <1>2 DEF BeginBackward, Control
    <3>2. UNCHANGED <<mode, graphs, top, slot, mem>>
      BY <1>2 DEF BeginBackward
    <3>3. \A l \in Layers : ~(l > NumLayers)
      BY DEF Layers
    <3> QED BY <3>1, <3>2, <3>3 DEF EntryInv, Newest, Holds, Cell
  <2>4. WorkInv'
    BY <1>2 DEF BeginBackward, WorkInv, Holds, Cell, TypeInv, Control, NoTask
  <2>5. BufferInv'
    BY <1>2 DEF BeginBackward, BufferInv, Repacked, TypeInv, NoTask, Control
  <2> QED BY <2>1, <2>2, <2>3, <2>4, <2>5
<1>3. CASE DropGraph
  <2>1. CacheType'
    BY <1>3 DEF DropGraph, CacheType
  <2>2. PassInv'
    BY <1>3 DEF DropGraph, PassInv, Newest, TypeInv, Control, NoTask
  <2>3. EntryInv'
    BY <1>3 DEF DropGraph, EntryInv, Newest, Holds, Cell, TypeInv, Control, NoTask
  <2>4. WorkInv'
    BY <1>3 DEF DropGraph, WorkInv, Holds, Cell, TypeInv, Control, NoTask
  <2>5. BufferInv'
    BY <1>3 DEF DropGraph, BufferInv, Repacked, TypeInv, NoTask, Control
  <2> QED BY <2>1, <2>2, <2>3, <2>4, <2>5
<1>4. CASE OptimizerStep
  <2>1. CacheType'
    BY <1>4 DEF OptimizerStep, CacheType
  <2>2. PassInv'
    BY <1>4 DEF OptimizerStep, PassInv, Newest, TypeInv, Control, NoTask
  <2>3. EntryInv'
    BY <1>4 DEF OptimizerStep, EntryInv, Newest, Holds, Cell, TypeInv, Control, NoTask
  <2>4. WorkInv'
    BY <1>4 DEF OptimizerStep, WorkInv, Holds, Cell, TypeInv, Control, NoTask
  <2>5. BufferInv'
    BY <1>4 DEF OptimizerStep, BufferInv, Repacked, TypeInv, NoTask, Control
  <2> QED BY <2>1, <2>2, <2>3, <2>4, <2>5
<1>5. CASE SubmitForward
  <2>1. CacheType'
    BY <1>5 DEF SubmitForward, CacheType
  <2>2. PassInv'
    BY <1>5 DEF SubmitForward, PassInv, Newest, TypeInv, Control, NoTask
  <2>3. EntryInv'
    <3>1. /\ py'.op = "sync" /\ py'.l = py.l /\ py'.kind = py.kind
          /\ py'.b = py.b /\ task'.kind = "forward"
      BY <1>5 DEF SubmitForward, TypeInv, NoTask
    <3>2. task' /= NoTask
      BY <3>1 DEF NoTask
    <3>3. UNCHANGED <<mode, graphs, top, slot, mem>>
      BY <1>5 DEF SubmitForward
    <3> QED BY <3>1, <3>2, <3>3 DEF EntryInv, Newest, Holds, Cell
  <2>4. WorkInv'
    BY <1>5 DEF SubmitForward, WorkInv, Holds, Cell, TypeInv, Control, NoTask
  <2>5. BufferInv'
    BY <1>5 DEF SubmitForward, BufferInv, Repacked, TypeInv, NoTask, Control
  <2> QED BY <2>1, <2>2, <2>3, <2>4, <2>5
<1>6. CASE SyncForward
  <2>1. CacheType'
    BY <1>6 DEF SyncForward, CacheType
  <2>2. PassInv'
    <3>1. /\ py.op = "sync" /\ task = NoTask /\ UNCHANGED <<task, mode, batch>>
          /\ UNCHANGED <<top, slot, mem>> /\ py.l \in Layers
          /\ py.kind \in {"train", "eval", "recompute"}
      BY <1>6 DEF SyncForward, Control
    <3>2. \/ /\ py.kind = "recompute"
             /\ py' = [py EXCEPT !.op = "bwd", !.kind = "backward"]
             /\ graphs' = graphs
          \/ /\ py.kind /= "recompute" /\ py.l < NumLayers
             /\ py' = [py EXCEPT !.op = "layer", !.l = py.l + 1]
             /\ graphs' = graphs
          \/ /\ py.kind \in {"train", "eval"} /\ ~(py.l < NumLayers) /\ py' = Idle
             /\ graphs' = IF py.kind = "train" THEN graphs \cup {py.b} ELSE graphs
      BY <1>6, <3>1 DEF SyncForward, Layers
    <3>3. CASE /\ py.kind = "recompute"
               /\ py' = [py EXCEPT !.op = "bwd", !.kind = "backward"]
               /\ graphs' = graphs
      <4>1. py'.op = "bwd" /\ py'.kind = "backward" /\ py'.l = py.l /\ py'.b = py.b
        BY <3>3 DEF TypeInv
      <4> QED BY <3>1, <3>3, <4>1 DEF PassInv, Newest
    <3>4. CASE /\ py.kind /= "recompute" /\ py.l < NumLayers
               /\ py' = [py EXCEPT !.op = "layer", !.l = py.l + 1]
               /\ graphs' = graphs
      <4>1. /\ py'.op = "layer" /\ py'.kind = py.kind /\ py'.l = py.l + 1
            /\ py'.b = py.b
        BY <3>4 DEF TypeInv
      <4> QED BY <3>1, <3>4, <4>1 DEF PassInv, Newest
    <3>5. CASE /\ py.kind \in {"train", "eval"} /\ ~(py.l < NumLayers) /\ py' = Idle
               /\ graphs' = IF py.kind = "train" THEN graphs \cup {py.b} ELSE graphs
      <4>1. py'.op = "idle" /\ py'.kind = "none"
        BY <3>5 DEF Idle
      <4>2. py.b = batch /\ batch \in Nat
        BY <3>5 DEF PassInv, TypeInv
      <4>3. \A g \in graphs' : g <= batch
        BY <3>5, <4>2 DEF PassInv
      <4> QED BY <3>1, <4>1, <4>3 DEF PassInv
    <3> QED BY <3>2, <3>3, <3>4, <3>5
  <2>3. EntryInv'
    <3>1. /\ py.op = "sync" /\ task = NoTask /\ UNCHANGED <<task, mode, batch>>
          /\ UNCHANGED <<top, slot, mem>> /\ py.l \in Layers
          /\ py.kind \in {"train", "eval", "recompute"}
      BY <1>6 DEF SyncForward, Control
    <3>2. \/ /\ py.kind = "recompute"
             /\ py' = [py EXCEPT !.op = "bwd", !.kind = "backward"]
             /\ graphs' = graphs
          \/ /\ py.kind /= "recompute" /\ py.l < NumLayers
             /\ py' = [py EXCEPT !.op = "layer", !.l = py.l + 1]
             /\ graphs' = graphs
          \/ /\ py.kind \in {"train", "eval"} /\ ~(py.l < NumLayers) /\ py' = Idle
             /\ graphs' = IF py.kind = "train" THEN graphs \cup {py.b} ELSE graphs
      BY <1>6, <3>1 DEF SyncForward, Layers
    <3>3. CASE /\ py.kind = "recompute"
               /\ py' = [py EXCEPT !.op = "bwd", !.kind = "backward"]
               /\ graphs' = graphs
      BY <3>1, <3>3 DEF EntryInv, PassInv
    <3>4. CASE /\ py.kind /= "recompute" /\ py.l < NumLayers
               /\ py' = [py EXCEPT !.op = "layer", !.l = py.l + 1]
               /\ graphs' = graphs
      <4>1. /\ py'.op = "layer" /\ py'.kind = py.kind /\ py'.l = py.l + 1
            /\ py'.b = py.b
        BY <3>4 DEF TypeInv
      <4>2. \A l \in Layers : l < py.l + 1 => l < py.l \/ l = py.l
        BY <3>1 DEF Layers
      <4> QED BY <3>1, <3>4, <4>1, <4>2 DEF EntryInv, Newest, Holds, Cell
    <3>5. CASE /\ py.kind \in {"train", "eval"} /\ ~(py.l < NumLayers) /\ py' = Idle
               /\ graphs' = IF py.kind = "train" THEN graphs \cup {py.b} ELSE graphs
      <4>1. py'.op = "idle" /\ py'.kind = "none"
        BY <3>5 DEF Idle
      <4>2. CASE py.kind = "eval"
        BY <3>1, <3>5, <4>1, <4>2 DEF EntryInv, Newest, Holds, Cell
      <4>3. CASE py.kind = "train"
        <5>1. \A l \in Layers : l < py.l \/ l = py.l
          BY <3>1, <3>5 DEF Layers
        <5>2. \A b \in graphs' : Newest(b)' => b = py.b
          <6> SUFFICES ASSUME NEW b \in graphs', Newest(b)' PROVE b = py.b
            OBVIOUS
          <6>1. py.b \in graphs' /\ py.b <= b
            BY <3>5, <4>3 DEF Newest
          <6>2. CASE b \in graphs
            BY <4>3, <6>1, <6>2 DEF PassInv, TypeInv
          <6> QED BY <3>5, <4>3, <6>2
        <5>3. ~mode.ckpt => \A l \in Layers : top[l] = 1 => Holds(l, py.b)
          BY <3>1, <4>3, <5>1 DEF EntryInv
        <5> QED BY <3>1, <4>1, <5>2, <5>3 DEF EntryInv, Holds, Cell
      <4> QED BY <3>5, <4>2, <4>3
    <3> QED BY <3>2, <3>3, <3>4, <3>5
  <2>4. WorkInv'
    <3>1. /\ py.op = "sync" /\ task = NoTask /\ UNCHANGED <<task, mode, batch>>
          /\ UNCHANGED <<top, slot, mem>> /\ py.l \in Layers
          /\ py.kind \in {"train", "eval", "recompute"}
      BY <1>6 DEF SyncForward, Control
    <3>2. \/ /\ py.kind = "recompute"
             /\ py' = [py EXCEPT !.op = "bwd", !.kind = "backward"]
             /\ graphs' = graphs
          \/ /\ py.kind /= "recompute" /\ py.l < NumLayers
             /\ py' = [py EXCEPT !.op = "layer", !.l = py.l + 1]
             /\ graphs' = graphs
          \/ /\ py.kind \in {"train", "eval"} /\ ~(py.l < NumLayers) /\ py' = Idle
             /\ graphs' = IF py.kind = "train" THEN graphs \cup {py.b} ELSE graphs
      BY <1>6, <3>1 DEF SyncForward, Layers
    <3>3. CASE /\ py.kind = "recompute"
               /\ py' = [py EXCEPT !.op = "bwd", !.kind = "backward"]
               /\ graphs' = graphs
      <4>1. py'.op = "bwd" /\ py'.kind = "backward" /\ py'.l = py.l /\ py'.b = py.b
        BY <3>3 DEF TypeInv
      <4> QED BY <3>1, <3>3, <4>1 DEF WorkInv, Holds, Cell, NoTask
    <3>4. CASE /\ py.kind /= "recompute" /\ py.l < NumLayers
               /\ py' = [py EXCEPT !.op = "layer", !.l = py.l + 1]
               /\ graphs' = graphs
      <4>1. /\ py'.op = "layer" /\ py'.kind = py.kind /\ py'.l = py.l + 1
            /\ py'.b = py.b
        BY <3>4 DEF TypeInv
      <4> QED BY <3>1, <4>1 DEF WorkInv, NoTask
    <3>5. CASE /\ py.kind \in {"train", "eval"} /\ ~(py.l < NumLayers) /\ py' = Idle
               /\ graphs' = IF py.kind = "train" THEN graphs \cup {py.b} ELSE graphs
      <4>1. py'.op = "idle" /\ py'.kind = "none"
        BY <3>5 DEF Idle
      <4> QED BY <3>1, <4>1 DEF WorkInv, NoTask
    <3> QED BY <3>2, <3>3, <3>4, <3>5
  <2>5. BufferInv'
    BY <1>6 DEF SyncForward, BufferInv, Repacked, TypeInv, NoTask, Control
  <2> QED BY <2>1, <2>2, <2>3, <2>4, <2>5
<1>7. CASE EnterBackward
  <2>1. CacheType'
    BY <1>7 DEF EnterBackward, WaitRepack, CacheType
  <2>2. PassInv'
    BY <1>7 DEF EnterBackward, WaitRepack, PassInv, Newest, TypeInv, Control, NoTask
  <2>3. EntryInv'
    BY <1>7 DEF EnterBackward, WaitRepack, EntryInv, Newest, Holds, Cell, TypeInv, Control, NoTask
  <2>4. WorkInv'
    BY <1>7 DEF EnterBackward, WaitRepack, WorkInv, Holds, Cell, TypeInv, Control, NoTask
  <2>5. BufferInv'
    <3>1. task = NoTask /\ UNCHANGED <<task, bb, mode>> /\ py.l \in Layers
      BY <1>7 DEF EnterBackward, WaitRepack, Control, TypeInv
    <3>2. \A l \in Layers : repack'[l] /= "running" => repack[l] /= "running"
      BY <1>7, <3>1 DEF EnterBackward, WaitRepack, Joined, TypeInv
    <3>3. task.kind = "none"
      BY <3>1 DEF NoTask
    <3>4. (\A l \in Layers : repack'[l] /= "running") => bb.owner = bb.content
      BY <3>2 DEF BufferInv
    <3> QED BY <3>1, <3>3, <3>4 DEF BufferInv
  <2> QED BY <2>1, <2>2, <2>3, <2>4, <2>5
<1>8. CASE RaiseNoCache
  <2>1. CacheType'
    BY <1>8 DEF RaiseNoCache, CacheType
  <2>2. PassInv'
    BY <1>8 DEF RaiseNoCache, PassInv, Newest, TypeInv, Control, NoTask
  <2>3. EntryInv'
    BY <1>8 DEF RaiseNoCache, EntryInv, Newest, Holds, Cell, TypeInv, Control, NoTask
  <2>4. WorkInv'
    BY <1>8 DEF RaiseNoCache, WorkInv, Holds, Cell, TypeInv, Control, NoTask
  <2>5. BufferInv'
    BY <1>8 DEF RaiseNoCache, BufferInv, Repacked, TypeInv, NoTask, Control
  <2> QED BY <2>1, <2>2, <2>3, <2>4, <2>5
<1>9. CASE SubmitBackward
  <2>1. CacheType'
    BY <1>9 DEF SubmitBackward, CacheType
  <2>2. PassInv'
    BY <1>9 DEF SubmitBackward, PassInv, Newest, TypeInv, Control, NoTask
  <2>3. EntryInv'
    BY <1>9 DEF SubmitBackward, EntryInv, Newest, Holds, Cell, TypeInv, Control, NoTask
  <2>4. WorkInv'
    BY <1>9 DEF SubmitBackward, WorkInv, Holds, Cell, TypeInv, Control, NoTask
  <2>5. BufferInv'
    BY <1>9 DEF SubmitBackward, BufferInv, Repacked, TypeInv, NoTask, Control
  <2> QED BY <2>1, <2>2, <2>3, <2>4, <2>5
<1>10. CASE SyncBackward
  <2>1. CacheType'
    BY <1>10 DEF SyncBackward, CacheType
  <2>2. PassInv'
    <3>1. /\ py.op = "bwdsync" /\ task = NoTask /\ UNCHANGED <<task, mode, batch>>
          /\ UNCHANGED <<top, slot, mem, bb>> /\ py.l \in Layers /\ py.kind = "backward"
      BY <1>10 DEF SyncBackward, Control
    <3>2. \/ /\ py.l > 1 /\ py' = [py EXCEPT !.op = "unpack", !.l = py.l - 1]
             /\ graphs' = graphs
          \/ ~(py.l > 1) /\ py' = Idle /\ graphs' = graphs \ {py.b}
      BY <1>10 DEF SyncBackward
    <3>3. CASE /\ py.l > 1 /\ py' = [py EXCEPT !.op = "unpack", !.l = py.l - 1]
               /\ graphs' = graphs
      <4>1. /\ py'.op = "unpack" /\ py'.kind = "backward" /\ py'.l = py.l - 1
            /\ py'.b = py.b
        BY <3>1, <3>3 DEF TypeInv
      <4> QED BY <3>1, <3>3, <4>1 DEF PassInv, Newest
    <3>4. CASE ~(py.l > 1) /\ py' = Idle /\ graphs' = graphs \ {py.b}
      <4>1. py'.op = "idle" /\ py'.kind = "none"
        BY <3>4 DEF Idle
      <4> QED BY <3>1, <3>4, <4>1 DEF PassInv
    <3> QED BY <3>2, <3>3, <3>4
  <2>3. EntryInv'
    <3>1. /\ py.op = "bwdsync" /\ task = NoTask /\ UNCHANGED <<task, mode, batch>>
          /\ UNCHANGED <<top, slot, mem, bb>> /\ py.l \in Layers /\ py.kind = "backward"
      BY <1>10 DEF SyncBackward, Control
    <3>2. \/ /\ py.l > 1 /\ py' = [py EXCEPT !.op = "unpack", !.l = py.l - 1]
             /\ graphs' = graphs
          \/ ~(py.l > 1) /\ py' = Idle /\ graphs' = graphs \ {py.b}
      BY <1>10 DEF SyncBackward
    <3>5. top[py.l] = 0
      BY <3>1 DEF WorkInv
    <3>6. ~mode.ckpt => \A l \in Layers : l > py.l - 1 => top[l] = 0
      <4> SUFFICES ASSUME ~mode.ckpt, NEW l \in Layers, l > py.l - 1
                   PROVE  top[l] = 0
        OBVIOUS
      <4>1. l = py.l \/ l > py.l
        BY <3>1 DEF Layers
      <4> QED BY <3>1, <3>5, <4>1 DEF EntryInv
    <3>3. CASE /\ py.l > 1 /\ py' = [py EXCEPT !.op = "unpack", !.l = py.l - 1]
               /\ graphs' = graphs
      <4>1. /\ py'.op = "unpack" /\ py'.kind = "backward" /\ py'.l = py.l - 1
            /\ py'.b = py.b
        BY <3>1, <3>3 DEF TypeInv
      <4> QED BY <3>1, <3>3, <3>6, <4>1 DEF EntryInv, Newest, Holds, Cell
    <3>4. CASE ~(py.l > 1) /\ py' = Idle /\ graphs' = graphs \ {py.b}
      <4>1. py'.op = "idle" /\ py'.kind = "none"
        BY <3>4 DEF Idle
      <4>2. ~mode.ckpt => \A l \in Layers : top[l] = 0
        BY <3>1, <3>4, <3>6 DEF Layers
      <4> QED BY <3>1, <4>1, <4>2 DEF EntryInv
    <3> QED BY <3>2, <3>3, <3>4
  <2>4. WorkInv'
    <3>1. /\ py.op = "bwdsync" /\ task = NoTask /\ UNCHANGED <<task, mode, batch>>
          /\ UNCHANGED <<top, slot, mem, bb>> /\ py.l \in Layers /\ py.kind = "backward"
      BY <1>10 DEF SyncBackward, Control
    <3>2. \/ /\ py.l > 1 /\ py' = [py EXCEPT !.op = "unpack", !.l = py.l - 1]
             /\ graphs' = graphs
          \/ ~(py.l > 1) /\ py' = Idle /\ graphs' = graphs \ {py.b}
      BY <1>10 DEF SyncBackward
    <3>3. CASE /\ py.l > 1 /\ py' = [py EXCEPT !.op = "unpack", !.l = py.l - 1]
               /\ graphs' = graphs
      <4>1. /\ py'.op = "unpack" /\ py'.kind = "backward" /\ py'.l = py.l - 1
            /\ py'.b = py.b
        BY <3>1, <3>3 DEF TypeInv
      <4> QED BY <3>1, <4>1 DEF WorkInv, NoTask
    <3>4. CASE ~(py.l > 1) /\ py' = Idle /\ graphs' = graphs \ {py.b}
      <4>1. py'.op = "idle" /\ py'.kind = "none"
        BY <3>4 DEF Idle
      <4> QED BY <3>1, <4>1 DEF WorkInv, NoTask
    <3> QED BY <3>2, <3>3, <3>4
  <2>5. BufferInv'
    <3>1. task = NoTask /\ UNCHANGED <<task, bb, mode>> /\ py.l \in Layers
      BY <1>10 DEF SyncBackward, Control
    <3>2. \A l \in Layers : repack[l] /= "running"
      BY <1>10 DEF SyncBackward, RepackAwaited
    <3> QED BY <3>1, <3>2 DEF BufferInv, NoTask
  <2> QED BY <2>1, <2>2, <2>3, <2>4, <2>5
<1>11. CASE StartForward
  <2>1. CacheType'
    BY <1>11 DEF StartForward, CacheType
  <2>2. PassInv'
    BY <1>11 DEF StartForward, PassInv, Newest, TypeInv, Control, NoTask
  <2>3. EntryInv'
    BY <1>11 DEF StartForward, EntryInv, Newest, Holds, Cell, TypeInv, Control, NoTask
  <2>4. WorkInv'
    BY <1>11 DEF StartForward, WorkInv, Holds, Cell, TypeInv, Control, NoTask
  <2>5. BufferInv'
    BY <1>11 DEF StartForward, BufferInv, Repacked, TypeInv, NoTask, Control
  <2> QED BY <2>1, <2>2, <2>3, <2>4, <2>5
<1>12. CASE FinishForward
  <2>1. CacheType'
    <3>1. /\ task.kind = "forward" /\ task /= NoTask /\ task.l = py.l
          /\ py.l \in Layers /\ py.op = "sync" /\ task.save = Saves(py.kind)
          /\ py.kind \in {"train", "eval", "recompute"} /\ task.b = py.b
      BY <1>12 DEF FinishForward, Control, NoTask, PassInv
    <3>2. UNCHANGED <<py, mode, graphs, batch>> /\ task' = NoTask
      BY <1>12 DEF FinishForward
    <3>3. SaveSlot(top[py.l]) = 1
      <4>1. top[py.l] \in {0, 1}
        BY <3>1 DEF CacheType
      <4> QED BY <4>1 DEF SaveSlot, PushedTop
    <3>4. IF Saves(py.kind)
            THEN /\ top' = [top EXCEPT ![py.l] = 1]
                 /\ slot' = [slot EXCEPT ![py.l][1] = py.b]
                 /\ mem' = [mem EXCEPT ![Cell(py.l, 1)] = <<py.l, py.b>>]
            ELSE UNCHANGED <<top, slot, mem>>
      BY <1>12, <3>1, <3>3 DEF FinishForward
    <3>5. Cell(py.l, 1) \in Layers \X (1 .. MaxDepth)
      BY <3>1 DEF Cell, Layers
    <3>6. py.b \in Nat /\ <<py.l, py.b>> \in (0 .. NumLayers) \X Nat
      BY <3>1 DEF TypeInv, Layers
    <3>7. CASE Saves(py.kind)
      <4>1. slot' \in [Layers -> [1 .. MaxDepth -> Nat]]
        <5>1. slot \in [Layers -> [1 .. MaxDepth -> Nat]]
          BY DEF CacheType
        <5>2. [slot[py.l] EXCEPT ![1] = py.b] \in [1 .. MaxDepth -> Nat]
          BY <3>1, <3>6, <5>1
        <5>3. slot' = [slot EXCEPT ![py.l] = [slot[py.l] EXCEPT ![1] = py.b]]
          BY <3>4, <3>7
        <5> QED BY <5>1, <5>2, <5>3
      <4>2. mem' \in [Layers \X (1 .. MaxDepth) -> (0 .. NumLayers) \X Nat]
        BY <3>4, <3>5, <3>6, <3>7 DEF CacheType
      <4>3. \A l \in Layers : top'[l] \in {0, 1}
        <5>1. top' = [top EXCEPT ![py.l] = 1] /\ DOMAIN top = Layers
          BY <3>4, <3>7 DEF TypeInv
        <5> QED BY <5>1 DEF CacheType
      <4> QED BY <3>2, <4>1, <4>2, <4>3 DEF CacheType
    <3>8. CASE ~Saves(py.kind)
      BY <3>2, <3>4, <3>8 DEF CacheType
    <3> QED BY <3>7, <3>8
  <2>2. PassInv'
    BY <1>12 DEF FinishForward, PassInv, Newest, TypeInv, Control, NoTask
  <2>3. EntryInv'
    <3>1. /\ task.kind = "forward" /\ task /= NoTask /\ task.l = py.l
          /\ py.l \in Layers /\ py.op = "sync" /\ task.save = Saves(py.kind)
          /\ py.kind \in {"train", "eval", "recompute"} /\ task.b = py.b
      BY <1>12 DEF FinishForward, Control, NoTask, PassInv
    <3>2. UNCHANGED <<py, mode, graphs, batch>> /\ task' = NoTask
      BY <1>12 DEF FinishForward
    <3>3. SaveSlot(top[py.l]) = 1
      <4>1. top[py.l] \in {0, 1}
        BY <3>1 DEF CacheType
      <4> QED BY <4>1 DEF SaveSlot, PushedTop
    <3>4. IF Saves(py.kind)
            THEN /\ top' = [top EXCEPT ![py.l] = 1]
                 /\ slot' = [slot EXCEPT ![py.l][1] = py.b]
                 /\ mem' = [mem EXCEPT ![Cell(py.l, 1)] = <<py.l, py.b>>]
            ELSE UNCHANGED <<top, slot, mem>>
      BY <1>12, <3>1, <3>3 DEF FinishForward
    <3>5. Cell(py.l, 1) \in Layers \X (1 .. MaxDepth)
      BY <3>1 DEF Cell, Layers
    <3>6. Saves(py.kind) => Holds(py.l, py.b)'
      <4>1. slot \in [Layers -> [1 .. MaxDepth -> Nat]] /\ 1 \in 1 .. MaxDepth
        BY DEF CacheType
      <4>2. Saves(py.kind) => slot'[py.l][1] = py.b
        BY <3>1, <3>4, <4>1
      <4>3. mem \in [Layers \X (1 .. MaxDepth) -> (0 .. NumLayers) \X Nat]
        BY DEF CacheType
      <4>4. Saves(py.kind) => mem'[Cell(py.l, 1)] = <<py.l, py.b>>
        BY <3>4, <3>5, <4>3
      <4> QED BY <3>2, <4>2, <4>4 DEF Holds, Cell
    <3> SUFFICES ASSUME ~mode.ckpt PROVE EntryInv'
      BY <3>2 DEF EntryInv
    <3>7. CASE py.kind = "train"
      <4>1. Saves(py.kind)
        BY <3>7 DEF Saves
      <4>2. ASSUME NEW l \in Layers, l < py.l, Holds(l, py.b), top'[l] = 1
            PROVE  Holds(l, py.b)'
        <5>1. l /= py.l
          BY <3>1, <4>2 DEF Layers
        <5>2. slot'[l] = slot[l]
          BY <3>4, <4>1, <5>1 DEF CacheType
        <5>3. /\ Cell(l, 1) = <<l, 1>> /\ Cell(py.l, 1) = <<py.l, 1>>
              /\ <<l, 1>> \in Layers \X (1 .. MaxDepth)
          BY DEF Cell, CacheType
        <5>4. mem'[<<l, 1>>] = mem[<<l, 1>>]
          BY <3>4, <4>1, <5>1, <5>3 DEF CacheType
        <5>5. Cell(l, 1)' = Cell(l, 1)
          BY <3>2 DEF Cell
        <5> QED BY <3>2, <4>2, <5>2, <5>3, <5>4, <5>5 DEF Holds
      <4>3. ASSUME NEW l \in Layers, l < py.l, top'[l] = 1
            PROVE  Holds(l, py.b)
        <5>1. l /= py.l
          BY <3>1, <4>3 DEF Layers
        <5>2. top' = [top EXCEPT ![py.l] = 1] /\ DOMAIN top = Layers
          BY <3>4, <4>1 DEF TypeInv
        <5>3. top[l] = 1
          BY <4>3, <5>1, <5>2
        <5> QED BY <3>7, <4>3, <5>3 DEF EntryInv
      <4> QED BY <3>2, <3>6, <3>7, <4>1, <4>2, <4>3 DEF EntryInv
    <3>8. CASE py.kind = "eval"
      <4>1. UNCHANGED <<top, slot, mem>>
        BY <3>4, <3>8 DEF Saves
      <4> QED BY <3>2, <3>8, <4>1 DEF EntryInv, Newest, Holds, Cell
    <3> QED BY <3>1, <3>7, <3>8 DEF PassInv
  <2>4. WorkInv'
    <3>1. /\ task.kind = "forward" /\ task /= NoTask /\ task.l = py.l
          /\ py.l \in Layers /\ py.op = "sync" /\ task.save = Saves(py.kind)
          /\ py.kind \in {"train", "eval", "recompute"} /\ task.b = py.b
      BY <1>12 DEF FinishForward, Control, NoTask, PassInv
    <3>2. UNCHANGED <<py, mode, graphs, batch>> /\ task' = NoTask
      BY <1>12 DEF FinishForward
    <3>3. SaveSlot(top[py.l]) = 1
      <4>1. top[py.l] \in {0, 1}
        BY <3>1 DEF CacheType
      <4> QED BY <4>1 DEF SaveSlot, PushedTop
    <3>4. IF Saves(py.kind)
            THEN /\ top' = [top EXCEPT ![py.l] = 1]
                 /\ slot' = [slot EXCEPT ![py.l][1] = py.b]
                 /\ mem' = [mem EXCEPT ![Cell(py.l, 1)] = <<py.l, py.b>>]
            ELSE UNCHANGED <<top, slot, mem>>
      BY <1>12, <3>1, <3>3 DEF FinishForward
    <3>5. Cell(py.l, 1) \in Layers \X (1 .. MaxDepth)
      BY <3>1 DEF Cell, Layers
    <3>6. Saves(py.kind) => Holds(py.l, py.b)'
      <4>1. slot \in [Layers -> [1 .. MaxDepth -> Nat]] /\ 1 \in 1 .. MaxDepth
        BY DEF CacheType
      <4>2. Saves(py.kind) => slot'[py.l][1] = py.b
        BY <3>1, <3>4, <4>1
      <4>3. mem \in [Layers \X (1 .. MaxDepth) -> (0 .. NumLayers) \X Nat]
        BY DEF CacheType
      <4>4. Saves(py.kind) => mem'[Cell(py.l, 1)] = <<py.l, py.b>>
        BY <3>4, <3>5, <4>3
      <4> QED BY <3>2, <4>2, <4>4 DEF Holds, Cell
    <3> QED BY <3>1, <3>2, <3>6 DEF WorkInv, Saves, NoTask
  <2>5. BufferInv'
    BY <1>12 DEF FinishForward, BufferInv, Repacked, TypeInv, NoTask, Control
  <2> QED BY <2>1, <2>2, <2>3, <2>4, <2>5
<1>13. CASE StartBackward
  <2>1. CacheType'
    BY <1>13 DEF StartBackward, CacheType
  <2>2. PassInv'
    BY <1>13 DEF StartBackward, PassInv, Newest, TypeInv, Control, NoTask
  <2>3. EntryInv'
    <3>1. /\ task.kind = "backward" /\ task /= NoTask /\ task.l = py.l /\ ~task.run
          /\ py.l \in Layers /\ py.op = "bwdsync" /\ py.kind = "backward"
          /\ task.b = py.b /\ depth[py.l] > 0
      BY <1>13 DEF StartBackward, Control, NoTask, PassInv, DepthInv
    <3>2. UNCHANGED <<py, mode, graphs, batch, slot, mem, repack>>
      BY <1>13 DEF StartBackward
    <3>3. top[py.l] = 1
      BY <3>1 DEF DepthInv, Height, CacheType
    <3>4. top' = [top EXCEPT ![py.l] = 0]
      BY <1>13, <3>1, <3>3 DEF StartBackward
    <3>5. task'.run /\ task'.kind = "backward" /\ task'.slot = 1 /\ task'.b = py.b
      BY <1>13, <3>1, <3>3 DEF StartBackward, TypeInv
    <3>6. \A l \in Layers : top'[l] = IF l = py.l THEN 0 ELSE top[l]
      BY <3>4 DEF TypeInv
    <3> QED BY <3>1, <3>2, <3>6 DEF EntryInv, Newest, Holds, Cell
  <2>4. WorkInv'
    <3>1. /\ task.kind = "backward" /\ task /= NoTask /\ task.l = py.l /\ ~task.run
          /\ py.l \in Layers /\ py.op = "bwdsync" /\ py.kind = "backward"
          /\ task.b = py.b /\ depth[py.l] > 0
      BY <1>13 DEF StartBackward, Control, NoTask, PassInv, DepthInv
    <3>2. UNCHANGED <<py, mode, graphs, batch, slot, mem, repack>>
      BY <1>13 DEF StartBackward
    <3>3. top[py.l] = 1
      BY <3>1 DEF DepthInv, Height, CacheType
    <3>4. top' = [top EXCEPT ![py.l] = 0]
      BY <1>13, <3>1, <3>3 DEF StartBackward
    <3>5. task'.run /\ task'.kind = "backward" /\ task'.slot = 1 /\ task'.b = py.b
      BY <1>13, <3>1, <3>3 DEF StartBackward, TypeInv
    <3>6. Holds(py.l, py.b)
      <4>1. CASE mode.ckpt
        BY <3>1, <4>1 DEF WorkInv
      <4>2. CASE ~mode.ckpt
        BY <3>1, <3>3, <4>2 DEF EntryInv, PassInv
      <4> QED BY <4>1, <4>2
    <3>7. top'[py.l] = 0
      BY <3>1, <3>4 DEF TypeInv
    <3> QED BY <3>1, <3>2, <3>5, <3>6, <3>7 DEF WorkInv, Holds, Cell
  <2>5. BufferInv'
    <3>1. /\ task.kind = "backward" /\ task /= NoTask /\ task.l = py.l /\ ~task.run
          /\ py.l \in Layers /\ py.op = "bwdsync" /\ py.kind = "backward"
          /\ task.b = py.b /\ depth[py.l] > 0
      BY <1>13 DEF StartBackward, Control, NoTask, PassInv, DepthInv
    <3>2. UNCHANGED <<py, mode, graphs, batch, slot, mem, repack>>
      BY <1>13 DEF StartBackward
    <3>3. top[py.l] = 1
      BY <3>1 DEF DepthInv, Height, CacheType
    <3>4. top' = [top EXCEPT ![py.l] = 0]
      BY <1>13, <3>1, <3>3 DEF StartBackward
    <3>5. task'.run /\ task'.kind = "backward" /\ task'.slot = 1 /\ task'.b = py.b
      BY <1>13, <3>1, <3>3 DEF StartBackward, TypeInv
    <3>6. \A l \in Layers : repack[l] /= "running"
      BY <3>1 DEF RepackAwaited
    <3>7. bb' = BackwardBB(py.l)
      BY <1>13, <3>1 DEF StartBackward
    <3>8. /\ bb \in [owner : 0 .. NumLayers, content : 0 .. NumLayers]
          /\ bb.owner = bb.content
      BY <3>6 DEF BufferInv
    <3>9. Repacked(py.l) \in [owner : 0 .. NumLayers, content : 0 .. NumLayers]
      BY <3>1 DEF Repacked, Layers
    <3>10. CASE mode.shareBB /\ bb.owner /= py.l
      BY <3>2, <3>7, <3>9, <3>10 DEF BackwardBB, BufferInv, Repacked
    <3>11. CASE mode.shareBB /\ bb.owner = py.l
      <4>1. bb = Repacked(py.l) /\ bb' = bb
        BY <3>7, <3>8, <3>11 DEF BackwardBB, Repacked
      <4> QED BY <3>2, <3>8, <4>1 DEF BufferInv, Repacked
    <3>12. CASE ~mode.shareBB
      BY <3>2, <3>7, <3>8, <3>12 DEF BackwardBB, BufferInv
    <3> QED BY <3>10, <3>11, <3>12
  <2> QED BY <2>1, <2>2, <2>3, <2>4, <2>5
<1>14. CASE FinishBackward
  <2>1. CacheType'
    BY <1>14 DEF FinishBackward, CacheType
  <2>2. PassInv'
    BY <1>14 DEF FinishBackward, PassInv, Newest, TypeInv, Control, NoTask
  <2>3. EntryInv'
    BY <1>14 DEF FinishBackward, EntryInv, Newest, Holds, Cell, TypeInv, Control, NoTask
  <2>4. WorkInv'
    BY <1>14 DEF FinishBackward, WorkInv, Holds, Cell, TypeInv, Control, NoTask
  <2>5. BufferInv'
    BY <1>14 DEF FinishBackward, BufferInv, Repacked, TypeInv, NoTask, Control
  <2> QED BY <2>1, <2>2, <2>3, <2>4, <2>5
<1>15. ASSUME NEW k \in Layers, Repack(k) PROVE OInv'
  <2>1. CacheType'
    BY <1>15 DEF Repack, StartRepack, FinishRepack, CacheType
  <2>2. PassInv'
    BY <1>15 DEF Repack, StartRepack, FinishRepack, PassInv, Newest, TypeInv, Control, NoTask
  <2>3. EntryInv'
    BY <1>15 DEF Repack, StartRepack, FinishRepack, EntryInv, Newest, Holds, Cell, TypeInv, Control, NoTask
  <2>4. WorkInv'
    BY <1>15 DEF Repack, StartRepack, FinishRepack, WorkInv, Holds, Cell, TypeInv, Control, NoTask
  <2>5. BufferInv'
    <3>1. /\ repack[k] \in {"spawned", "running"} /\ UNCHANGED <<task, mode, py>>
          /\ repack'[k] = "running" \/ bb' = Repacked(k)
          /\ bb' = Repacked(k) \/ bb' = [bb EXCEPT !.content = 0]
      BY <1>15 DEF Repack, StartRepack, FinishRepack, TypeInv
    <3>2. py.op = "unpack"
      BY <1>15, <3>1 DEF RepackAwaited
    <3>3. task.kind /= "backward"
      BY <3>2 DEF Control
    <3>4. bb' \in [owner : 0 .. NumLayers, content : 0 .. NumLayers]
      BY <1>15, <3>1 DEF BufferInv, Repacked, Layers
    <3> QED BY <1>15, <3>1, <3>3, <3>4 DEF BufferInv, Repacked
  <2> QED BY <2>1, <2>2, <2>3, <2>4, <2>5
<1>16. CASE UNCHANGED vars
  BY <1>16 DEF vars, CacheType, PassInv, EntryInv, WorkInv, BufferInv, Newest,
    Holds, Cell, Repacked
<1> QED
  BY <1>1, <1>2, <1>3, <1>4, <1>5, <1>6, <1>7, <1>8, <1>9, <1>10, <1>11, <1>12, <1>13, <1>14, <1>15, <1>16
  DEF Next, Python, Worker, Finished

\* The initial states satisfy it.
LEMMA OwnInitial == Init => OInv
<1> SUFFICES ASSUME Init PROVE OInv
  OBVIOUS
<1> USE SFTAssumption
<1>1. CacheType
  <2>1. 0 \in Nat /\ <<0, 0>> \in (0 .. NumLayers) \X Nat
    OBVIOUS
  <2>2. /\ slot = [l \in Layers |-> [i \in 1 .. MaxDepth |-> 0]]
        /\ mem = [c \in Layers \X (1 .. MaxDepth) |-> <<0, 0>>]
        /\ top = [l \in Layers |-> 0] /\ mode \in Modes
    BY DEF Init
  <2>3. mode.shareCache => mode.ckpt
    BY <2>2 DEF Modes
  <2> QED BY <2>1, <2>2, <2>3 DEF CacheType
<1>2. PassInv /\ EntryInv
  BY DEF Init, Idle, NoTask, PassInv, EntryInv
<1>3. WorkInv
  BY DEF Init, Idle, NoTask, WorkInv
<1>4. BufferInv
  BY DEF Init, NoTask, BufferInv
<1> QED BY <1>1, <1>2, <1>3, <1>4 DEF OInv

\* A running backward reads the activations its own layer saved for its own
\* batch and a weight buffer that holds its own layer: the stack holds one
\* entry at most, of the newest graph or of the recomputation just made, and
\* the recorded owner of the buffer is never ahead of its contents while a
\* task runs.
THEOREM BackwardOwnDataSafe == Spec => []BackwardOwnData
<1>1. IInv /\ OInv => BackwardOwnData
  <2> SUFFICES ASSUME IInv, OInv, task.kind = "backward", task.run
               PROVE  /\ task.slot > 0
                      /\ slot[task.l][task.slot] = task.b
                      /\ mem[Cell(task.l, task.slot)] = <<task.l, task.b>>
                      /\ mode.shareBB => bb = Repacked(task.l)
    BY DEF BackwardOwnData
  <2>1. task.l = py.l /\ task.b = py.b
    BY DEF IInv, OInv, Control, PassInv, NoTask
  <2>2. task.slot = 1 /\ Holds(py.l, py.b)
    BY DEF OInv, WorkInv
  <2>3. mode.shareBB => bb = Repacked(py.l)
    BY DEF OInv, BufferInv
  <2> QED BY <2>1, <2>2, <2>3 DEF Holds
<1>2. Spec => []OInv
  <2>1. Init => OInv
    BY OwnInitial
  <2>2. IInv /\ OInv /\ [Next]_vars => OInv'
    BY OwnInductive
  <2> QED BY <2>1, <2>2, Invariance, PTL DEF Spec
<1> QED BY <1>1, <1>2, Invariance, PTL

-----------------------------------------------------------------------------
(* The data-parallel layer: module DistMoE *)


(* Every nonempty set of natural numbers has a least element. *)
LEMMA LeastNat ==
  ASSUME NEW T \in SUBSET Nat, T # {}
  PROVE  \E x \in T : \A y \in T : x <= y
<1> DEFINE Less == {ss \in Nat \X Nat : ss[1] < ss[2]}
<1>1. IsWellFoundedOn(Less, Nat)
  BY Zenon, NatLessThanWellFounded DEF OpToRel
<1>2. \A x, y \in Nat : x < y => <<x, y>> \in Less
  OBVIOUS
<1> HIDE DEF Less
<1>3. PICK x \in T : \A y \in T : ~ (<<y, x>> \in Less)
  BY <1>1, WFMin
<1>4. \A y \in T : x \in Nat /\ y \in Nat /\ ~ (y < x)
  BY <1>2, <1>3
<1>5. QED BY <1>4

(* Induction up to n, stated for a set: its first element outside would be *)
(* the least one.                                                          *)
LEMMA UpTo ==
  ASSUME NEW n \in Nat, NEW S, 0 \in S, \A k \in 1..n : k - 1 \in S => k \in S
  PROVE  \A k \in 0..n : k \in S
<1> DEFINE Out == (0..n) \ S
<1>1. ASSUME Out # {} PROVE FALSE
  <2>1. Out \in SUBSET Nat
    OBVIOUS
  <2>2. PICK m \in Out : \A y \in Out : m <= y
    <3> HIDE DEF Out
    <3>1. QED BY <1>1, <2>1, LeastNat
  <2>3. m \in 1..n /\ m - 1 \in 0..n
    BY <2>2
  <2>4. m - 1 \notin Out
    BY <2>2, <2>3
  <2>5. QED BY <2>2, <2>3, <2>4
<1>2. QED BY <1>1

-----------------------------------------------------------------------------
(* Concatenation by parts *)

LEMMA OffsetDef ==
  ASSUME NEW q \in [Ranks -> Nat]
  PROVE  /\ Offset(q) \in [0..WorldSize -> Nat]
         /\ Offset(q)[0] = 0
         /\ \A k \in 1..WorldSize : Offset(q)[k] = Offset(q)[k - 1] + q[k - 1]
<1> DEFINE n == WorldSize
           Sum(m, f) == f \in [0..m -> Nat] /\ f[0] = 0 /\ \A k \in 1..m : f[k] = f[k - 1] + q[k - 1]
           Done == {m \in 0..n : \E f : Sum(m, f)}
           P(f) == f = [k \in 0..n |-> IF k = 0 THEN 0 ELSE f[k - 1] + q[k - 1]]
<1>1. n \in Nat /\ \A k \in 1..n : q[k - 1] \in Nat
  BY DistAssumption DEF Ranks
<1>2. 0 \in Done
  <2>1. Sum(0, [k \in 0..0 |-> 0])
    OBVIOUS
  <2>2. \E f : Sum(0, f)
    BY <2>1
  <2>3. QED BY ONLY <1>1, <2>2
<1>3. ASSUME NEW m \in 1..n, m - 1 \in Done PROVE m \in Done
  <2>1. PICK f : Sum(m - 1, f)
    BY <1>3
  <2> DEFINE g == [k \in 0..m |-> IF k = m THEN f[m - 1] + q[m - 1] ELSE f[k]]
  <2>2. m \in Nat /\ m - 1 \in 0..(m - 1) /\ m \in 0..n /\ 0 \in 0..(m - 1) /\ m # 0
    BY <1>1
  <2>3. g \in [0..m -> Nat] /\ g[0] = 0
    BY <1>1, <2>1, <2>2
  <2>4. ASSUME NEW k \in 1..m PROVE g[k] = g[k - 1] + q[k - 1]
    <3>1. k \in 0..m /\ k - 1 \in 0..m /\ k - 1 # m /\ (k # m => k \in 1..(m - 1))
      BY <2>2
    <3>2. /\ g[k - 1] = f[k - 1]
          /\ k = m => g[k] = f[k - 1] + q[k - 1]
          /\ k # m => g[k] = f[k]
      BY <3>1
    <3>3. k # m => f[k] = f[k - 1] + q[k - 1]
      BY <2>1, <3>1
    <3>4. QED BY ONLY <3>2, <3>3
  <2> HIDE DEF g
  <2>5. Sum(m, g)
    BY <2>3, <2>4
  <2>6. \E f1 : Sum(m, f1)
    BY <2>5
  <2>7. QED BY ONLY <2>2, <2>6
<1>4. n \in Done
  <2> HIDE DEF Done
  <2>1. \A m \in 0..n : m \in Done
    BY ONLY <1>1, <1>2, <1>3, UpTo
  <2>2. QED BY ONLY <1>1, <2>1
<1>5. PICK f : Sum(n, f)
  BY <1>4
<1>6. P(f)
  BY <1>1, <1>5
<1>7. Offset(q) = CHOOSE h : P(h)
  BY DEF Offset
<1>8. P(Offset(q))
  <2> HIDE DEF P
  <2>1. QED BY <1>6, <1>7
<1>9. \A k \in 0..n : Offset(q)[k] = f[k]
  <2> DEFINE off == Offset(q)
             Same == {k \in 0..n : off[k] = f[k]}
  <2>1. /\ off[0] = 0 /\ f[0] = 0
        /\ \A k \in 1..n : off[k] = off[k - 1] + q[k - 1] /\ f[k] = f[k - 1] + q[k - 1]
    BY <1>1, <1>5, <1>8
  <2> HIDE DEF off
  <2>2. 0 \in Same
    BY <1>1, <2>1
  <2>3. ASSUME NEW k \in 1..n, k - 1 \in Same PROVE k \in Same
    <3>1. off[k - 1] = f[k - 1]
      BY <2>3
    <3>2. off[k] = f[k] /\ k \in 0..n
      BY ONLY <1>1, <2>1, <3>1, k \in 1..n
    <3>3. QED BY ONLY <3>2
  <2> HIDE DEF Same
  <2>4. \A k \in 0..n : k \in Same
    BY ONLY <1>1, <2>2, <2>3, UpTo
  <2>5. QED BY ONLY <2>4 DEF Same, off
<1>10. Offset(q) = f
  BY <1>5, <1>8, <1>9
<1>11. QED BY <1>5, <1>10

(* f[k] is the concatenation of the first k sequences of s, that is, the one *)
(* of the first k - 1 followed by the k-th.                                 *)
Cumulated(T, n, s, f) ==
  /\ f \in [1..n -> Seq(T)] /\ f[1] = s[1]
  /\ \A k \in 2..n : f[k] = f[k - 1] \o s[k]
  /\ FlattenSeq(s) = f[n]

LEMMA FlattenDef ==
  ASSUME NEW T, NEW n \in Nat \ {0}, NEW s, s \in [1..n -> Seq(T)]
  PROVE  \E f : Cumulated(T, n, s, f)
<1> DEFINE Cats(m, f) == f \in [1..m -> Seq(T)] /\ f[1] = s[1] /\ \A k \in 2..m : f[k] = f[k - 1] \o s[k]
           Done == {m \in 0..n : m = 0 \/ \E f : Cats(m, f)}
           P(f) == f = [k \in 1..n |-> IF k = 1 THEN s[k] ELSE f[k - 1] \o s[k]]
<1>1. n \in Nat /\ n # 0 /\ Len(s) = n /\ \A k \in 1..n : s[k] \in Seq(T)
  OBVIOUS
<1>2. 0 \in Done
  OBVIOUS
<1>3. ASSUME NEW m \in 1..n, m - 1 \in Done PROVE m \in Done
  <2>1. CASE m = 1
    <3>1. Cats(1, [k \in 1..1 |-> s[1]])
      BY <1>1
    <3>2. \E f : Cats(1, f)
      BY <3>1
    <3> HIDE DEF Cats
    <3>3. \E f : Cats(m, f)
      BY ONLY <2>1, <3>2
    <3>4. QED BY ONLY <1>1, <2>1, <3>3, m \in 1..n
  <2>2. CASE m # 1
    <3>1. PICK f : Cats(m - 1, f)
      <4> HIDE DEF Cats
      <4>1. m - 1 # 0
        BY <1>1, <2>2
      <4>2. QED BY ONLY <1>3, <4>1
    <3> DEFINE g == [k \in 1..m |-> IF k = m THEN f[m - 1] \o s[m] ELSE f[k]]
    <3>2. m \in Nat /\ m - 1 \in 1..(m - 1) /\ m \in 1..n /\ m \in 0..n /\ 1 \in 1..(m - 1) /\ m # 0
      BY <1>1, <2>2
    <3>3. f[m - 1] \in Seq(T) /\ s[m] \in Seq(T) /\ f[m - 1] \o s[m] \in Seq(T)
      BY <1>1, <3>1, <3>2
    <3>4. g \in [1..m -> Seq(T)] /\ g[1] = s[1]
      BY <3>1, <3>2, <3>3
    <3>5. ASSUME NEW k \in 2..m PROVE g[k] = g[k - 1] \o s[k]
      <4>1. k \in 1..m /\ k - 1 \in 1..m /\ k - 1 # m /\ (k # m => k \in 2..(m - 1))
        BY <3>2
      <4>2. /\ g[k - 1] = f[k - 1]
            /\ k = m => g[k] = f[k - 1] \o s[k]
            /\ k # m => g[k] = f[k]
        BY <4>1
      <4>3. k # m => f[k] = f[k - 1] \o s[k]
        BY <3>1, <4>1
      <4>4. QED BY ONLY <4>2, <4>3
    <3> HIDE DEF g
    <3>6. Cats(m, g)
      BY <3>4, <3>5
    <3>7. \E f1 : Cats(m, f1)
      BY <3>6
    <3>8. QED BY ONLY <3>2, <3>7
  <2>3. QED BY <2>1, <2>2
<1>4. n \in Done
  <2> HIDE DEF Done
  <2>1. \A m \in 0..n : m \in Done
    BY ONLY <1>1, <1>2, <1>3, UpTo
  <2>2. QED BY ONLY <1>1, <2>1
<1>5. PICK f : Cats(n, f)
  BY ONLY <1>1, <1>4
<1>6. P(f)
  <2>1. \A k \in 1..n : f[k] = IF k = 1 THEN s[k] ELSE f[k - 1] \o s[k]
    <3>1. \A k \in 1..n : k # 1 => k \in 2..n
      BY <1>1
    <3>2. QED BY ONLY <1>5, <3>1, Zenon
  <2>2. f = [k \in 1..n |-> f[k]]
    BY <1>5
  <2>3. QED BY <2>1, <2>2
<1>7. FlattenSeq(s) = (CHOOSE h : P(h))[n]
  BY <1>1 DEF FlattenSeq
<1> DEFINE h == CHOOSE h1 : P(h1)
<1>8. P(h)
  <2> HIDE DEF P
  <2>1. QED BY <1>6
<1> HIDE DEF h
<1>9. \A k \in 1..n : h[k] = f[k]
  <2> DEFINE Same == {k \in 0..n : k = 0 \/ h[k] = f[k]}
  <2>1. \A k \in 1..n : h[k] = IF k = 1 THEN s[k] ELSE h[k - 1] \o s[k]
    BY <1>8
  <2>2. \A k \in 1..n : f[k] = IF k = 1 THEN s[k] ELSE f[k - 1] \o s[k]
    BY <1>6
  <2>3. 0 \in Same
    BY <1>1
  <2>4. ASSUME NEW k \in 1..n, k - 1 \in Same PROVE k \in Same
    <3>1. k = 1 \/ h[k - 1] = f[k - 1]
      BY <2>4
    <3>2. h[k] = f[k] /\ k \in 0..n
      BY ONLY <1>1, <2>1, <2>2, <3>1, k \in 1..n
    <3>3. QED BY ONLY <3>2
  <2> HIDE DEF Same
  <2>5. \A k \in 0..n : k \in Same
    BY ONLY <1>1, <2>3, <2>4, UpTo
  <2>6. QED BY ONLY <1>1, <2>5 DEF Same
<1>10. FlattenSeq(s) = f[n]
  <2>1. n \in 1..n
    OBVIOUS
  <2>2. QED BY <1>7, <1>9, <2>1 DEF h
<1>11. QED BY <1>5, <1>10 DEF Cumulated

(* off[k] is the length of the first k sequences of s together. *)
Summed(T, n, s, off) ==
  /\ s \in [1..n -> Seq(T)] /\ off \in [0..n -> Nat] /\ off[0] = 0
  /\ \A k \in 1..n : off[k] = off[k - 1] + Len(s[k])

(* Each of the sequences is found in t at the sum of the lengths before it. *)
Parted(T, n, s, off, t) ==
  /\ t \in Seq(T) /\ Len(t) = off[n]
  /\ \A k \in 1..n : off[k] <= off[n]
  /\ \A k \in 1..n : \A i \in 1..Len(s[k]) : t[off[k - 1] + i] = s[k][i]

LEMMA FlattenParts ==
  ASSUME NEW T, NEW n \in Nat \ {0}, NEW s, NEW off, Summed(T, n, s, off)
  PROVE  Parted(T, n, s, off, FlattenSeq(s))
<1>0. /\ s \in [1..n -> Seq(T)] /\ off \in [0..n -> Nat] /\ off[0] = 0
      /\ \A k \in 1..n : off[k] = off[k - 1] + Len(s[k])
  BY DEF Summed
<1>1. PICK f : Cumulated(T, n, s, f)
  BY <1>0, FlattenDef
<1>2. /\ f \in [1..n -> Seq(T)] /\ f[1] = s[1]
      /\ \A k \in 2..n : f[k] = f[k - 1] \o s[k]
      /\ FlattenSeq(s) = f[n]
  BY <1>1 DEF Cumulated
<1> DEFINE Part(m, k) == /\ off[k] <= off[m]
                         /\ \A i \in 1..Len(s[k]) : f[m][off[k - 1] + i] = s[k][i]
           Fine(m) == Len(f[m]) = off[m] /\ \A k \in 1..m : Part(m, k)
           Good == {m \in 0..n : m = 0 \/ Fine(m)}
<1>3. /\ n \in Nat /\ n # 0
      /\ \A k \in 1..n : /\ s[k] \in Seq(T) /\ Len(s[k]) \in Nat /\ f[k] \in Seq(T)
                         /\ off[k] \in Nat /\ off[k - 1] \in Nat
  BY <1>0, <1>2
<1>4. 0 \in Good
  OBVIOUS
<1>5. ASSUME NEW m \in 1..n, m - 1 \in Good PROVE m \in Good
  <2>1. CASE m = 1
    <3>1. Len(f[1]) = off[1] /\ off[1] = Len(s[1]) /\ off[0] = 0 /\ f[1] = s[1]
      BY <1>0, <1>2, <1>3
    <3>2. Part(1, 1)
      <4>1. 1 - 1 = 0 /\ \A i \in 1..Len(s[1]) : 0 + i = i
        OBVIOUS
      <4>2. off[1] <= off[1]
        BY <1>3
      <4>3. QED BY ONLY <3>1, <4>1, <4>2
    <3> HIDE DEF Part
    <3>3. \A k \in 1..1 : k = 1
      OBVIOUS
    <3>4. Fine(1)
      BY ONLY <3>1, <3>2, <3>3
    <3> HIDE DEF Fine
    <3>5. QED BY ONLY <2>1, <3>4, m \in 1..n, <1>3
  <2>2. CASE m # 1
    <3>1. m - 1 \in 1..n /\ m \in 2..n /\ m - 1 # 0 /\ m \in 0..n
      BY <1>3, <2>2
    <3>2. Fine(m - 1)
      <4> HIDE DEF Fine
      <4>1. QED BY ONLY <1>5, <3>1
    <3> DEFINE x == f[m - 1]
               y == s[m]
               z == f[m]
               a == off[m - 1]
               b == off[m]
    <3>3. x \in Seq(T) /\ y \in Seq(T) /\ a \in Nat /\ b \in Nat
      BY ONLY <1>3, <3>1
    <3>4. Len(x) = a /\ z = x \o y /\ b = a + Len(y)
      <4>1. \A k \in 1..n : off[k] = off[k - 1] + Len(s[k])
        BY <1>0
      <4>2. QED BY ONLY <1>2, <3>1, <3>2, <4>1, m \in 1..n
    <3> HIDE DEF x, y, z, a, b
    <3>5. /\ Len(z) = b /\ a <= b
          /\ \A i \in 1..a : z[i] = x[i]
          /\ \A i \in 1..Len(y) : z[a + i] = y[i]
      <4>1. Len(y) \in Nat
        BY <3>3
      <4>2. /\ Len(x \o y) = Len(x) + Len(y)
            /\ \A i \in 1..Len(x) : (x \o y)[i] = x[i]
            /\ \A i \in 1..Len(y) : (x \o y)[Len(x) + i] = y[i]
        BY ONLY <3>3
      <4>3. a <= a + Len(y)
        BY ONLY <3>3, <4>1
      <4>4. QED BY ONLY <3>4, <4>2, <4>3, Zenon
    <3>6. ASSUME NEW k \in 1..m PROVE Part(m, k)
      <4>1. CASE k = m
        <5>1. off[k] = b /\ off[k - 1] = a /\ s[k] = y /\ off[m] = b /\ f[m] = z
          BY ONLY <4>1 DEF a, b, y, z
        <5>2. b <= b
          BY ONLY <3>3
        <5>3. QED BY ONLY <3>5, <5>1, <5>2
      <4>2. CASE k # m
        <5> DEFINE c == off[k - 1]
                   d == off[k]
                   w == s[k]
        <5>1. k \in 1..(m - 1) /\ k \in 1..n
          BY <1>3, <4>2
        <5>2. d <= a /\ \A i \in 1..Len(w) : x[c + i] = w[i]
          BY ONLY <3>2, <5>1 DEF a, x
        <5>3. c \in Nat /\ d \in Nat /\ Len(w) \in Nat
          BY ONLY <1>3, <5>1
        <5>4. d = c + Len(w)
          <6>1. \A j \in 1..n : off[j] = off[j - 1] + Len(s[j])
            BY <1>0
          <6>2. QED BY ONLY <5>1, <6>1
        <5> HIDE DEF c, d, w
        <5>5. d <= b
          BY ONLY <3>3, <3>5, <5>2, <5>3
        <5>6. \A i \in 1..Len(w) : c + i \in 1..a
          BY ONLY <3>3, <5>2, <5>3, <5>4
        <5>7. \A i \in 1..Len(w) : z[c + i] = w[i]
          BY ONLY <3>5, <5>2, <5>6
        <5>8. off[m] = b /\ f[m] = z /\ off[k] = d /\ off[k - 1] = c /\ s[k] = w
          BY ONLY DEF b, z, c, d, w
        <5>9. QED BY ONLY <5>5, <5>7, <5>8
      <4>3. QED BY <4>1, <4>2
    <3>7. Len(f[m]) = off[m]
      BY ONLY <3>5 DEF z, b
    <3> HIDE DEF Part
    <3>8. Fine(m)
      BY ONLY <3>6, <3>7
    <3> HIDE DEF Fine
    <3>9. QED BY ONLY <3>1, <3>8
  <2>3. QED BY <2>1, <2>2
<1>6. Fine(n)
  <2> HIDE DEF Good
  <2>1. \A m \in 0..n : m \in Good
    BY ONLY <1>3, <1>4, <1>5, UpTo
  <2>2. n \in Good
    BY ONLY <1>3, <2>1
  <2> HIDE DEF Fine
  <2>3. QED BY ONLY <1>3, <2>2 DEF Good
<1>7. n \in 1..n
  OBVIOUS
<1>8. FlattenSeq(s) \in Seq(T)
  BY <1>2, <1>3, <1>7
<1>9. QED BY ONLY <1>2, <1>3, <1>6, <1>7, <1>8 DEF Parted

-----------------------------------------------------------------------------
(* The programs *)

DistCalls == [kind : {"fwd", "bwd"}, l : MoELayers, pass : 1..2, save : BOOLEAN]

\* Call j is the forward whose saved input the backward k goes by: the last
\* forward of the layer before k, and the only saving one in its pass.
SavesFor(pr, j, k) ==
  /\ pr[j].kind = "fwd" /\ pr[j].save /\ pr[j].l = pr[k].l /\ pr[j].pass = pr[k].pass
  /\ \A m \in (j + 1)..(k - 1) : pr[m].kind = "fwd" => pr[m].l # pr[k].l
  /\ \A m \in 1..(k - 1) :
       pr[m].save /\ pr[m].l = pr[k].l /\ pr[m].pass = pr[k].pass => m = j

\* What the proofs use of a program: each backward has its forward, and a
\* pass begins with a forward.
Shape(pr) ==
  /\ pr \in Seq(DistCalls)
  /\ \A k \in 1..Len(pr) :
       pr[k].kind = "bwd" => ~pr[k].save /\ \E j \in 1..(k - 1) : SavesFor(pr, j, k)
  /\ \A j, k \in 1..Len(pr) :
       j < k /\ pr[j].pass # pr[k].pass => \E m \in (j + 1)..k : pr[m].kind = "fwd"

\* The forwards of the programs.
Plain(l, p)  == Fwd(l, p, FALSE)
Saving(l, p) == Fwd(l, p, TRUE)

LEMMA CallTyping ==
  ASSUME NEW l \in MoELayers, NEW p \in 1..2
  PROVE  Plain(l, p) \in DistCalls /\ Saving(l, p) \in DistCalls /\ Bwd(l, p) \in DistCalls
BY DEF Plain, Saving, Fwd, Bwd, DistCalls

LEMMA PlainFields ==
  ASSUME NEW c, NEW l, NEW p, c = Plain(l, p)
  PROVE  c.kind = "fwd" /\ c.l = l /\ c.pass = p /\ ~c.save
BY DEF Plain, Fwd

LEMMA SavingFields ==
  ASSUME NEW c, NEW l, NEW p, c = Saving(l, p)
  PROVE  c.kind = "fwd" /\ c.l = l /\ c.pass = p /\ c.save
BY DEF Saving, Fwd

LEMMA BwdFields ==
  ASSUME NEW c, NEW l, NEW p, c = Bwd(l, p)
  PROVE  c.kind = "bwd" /\ c.l = l /\ c.pass = p /\ ~c.save
BY DEF Bwd

LEMMA EvalEntries ==
  ASSUME NEW p \in 1..2
  PROVE  /\ EvalPass(p) \in Seq(DistCalls) /\ Len(EvalPass(p)) = LayerCount
         /\ \A i \in 1..LayerCount : EvalPass(p)[i] = Plain(i, p)
<1>1. EvalPass(p) = [l \in MoELayers |-> Plain(l, p)]
  BY DEF EvalPass, Up, Plain
<1>2. LayerCount \in Nat /\ MoELayers = 1..LayerCount
  BY DistAssumption DEF MoELayers
<1>3. \A l \in MoELayers : Plain(l, p) \in DistCalls
  BY CallTyping
<1>4. EvalPass(p) \in [1..LayerCount -> DistCalls]
  BY <1>1, <1>2, <1>3
<1>5. EvalPass(p) \in Seq(DistCalls) /\ Len(EvalPass(p)) = LayerCount
  BY ONLY <1>2, <1>4
<1>6. \A i \in 1..LayerCount : EvalPass(p)[i] = Plain(i, p)
  BY ONLY <1>1, <1>2
<1>7. QED BY <1>5, <1>6

LEMMA TrainEntries ==
  ASSUME NEW p \in 1..2
  PROVE  /\ TrainPass(p) \in Seq(DistCalls) /\ Len(TrainPass(p)) = 2 * LayerCount
         /\ \A i \in 1..LayerCount : /\ TrainPass(p)[i] = Saving(i, p)
                                     /\ TrainPass(p)[LayerCount + i] = Bwd(LayerCount + 1 - i, p)
<1> DEFINE a == [l \in MoELayers |-> Saving(l, p)]
           b == [l \in MoELayers |-> Bwd(LayerCount + 1 - l, p)]
<1>1. TrainPass(p) = a \o b
  BY DEF TrainPass, Up, Down, Saving
<1>2. LayerCount \in Nat /\ MoELayers = 1..LayerCount
  BY DistAssumption DEF MoELayers
<1>3. \A l \in MoELayers : Saving(l, p) \in DistCalls /\ Bwd(LayerCount + 1 - l, p) \in DistCalls
  <2>1. \A l \in MoELayers : LayerCount + 1 - l \in MoELayers
    BY <1>2
  <2>2. QED BY <2>1, CallTyping
<1>4. a \in [1..LayerCount -> DistCalls] /\ b \in [1..LayerCount -> DistCalls]
  BY <1>2, <1>3
<1>5. \A i \in 1..LayerCount : a[i] = Saving(i, p) /\ b[i] = Bwd(LayerCount + 1 - i, p)
  BY <1>2
<1> HIDE DEF a, b
<1>6. /\ a \in Seq(DistCalls) /\ Len(a) = LayerCount
      /\ b \in Seq(DistCalls) /\ Len(b) = LayerCount
  BY ONLY <1>2, <1>4
<1>7. /\ a \o b \in Seq(DistCalls) /\ Len(a \o b) = LayerCount + LayerCount
      /\ \A i \in 1..LayerCount : (a \o b)[i] = a[i] /\ (a \o b)[LayerCount + i] = b[i]
  BY ONLY <1>2, <1>6
<1>8. LayerCount + LayerCount = 2 * LayerCount
  BY <1>2
<1>9. QED BY ONLY <1>1, <1>5, <1>7, <1>8, Zenon

LEMMA CheckpointEntries ==
  ASSUME NEW p \in 1..2
  PROVE  /\ CheckpointPass(p) \in Seq(DistCalls) /\ Len(CheckpointPass(p)) = 3 * LayerCount
         /\ \A i \in 1..LayerCount :
              /\ CheckpointPass(p)[i] = Plain(i, p)
              /\ CheckpointPass(p)[LayerCount + 2 * i - 1] = Saving(LayerCount + 1 - i, p)
              /\ CheckpointPass(p)[LayerCount + 2 * i] = Bwd(LayerCount + 1 - i, p)
<1> DEFINE N == LayerCount
           a == EvalPass(p)
           s == [l \in MoELayers |-> <<Saving(N + 1 - l, p), Bwd(N + 1 - l, p)>>]
           b == FlattenSeq(s)
           off == [k \in 0..N |-> 2 * k]
<1>1. CheckpointPass(p) = a \o b
  BY DEF CheckpointPass, EvalPass, Down, Saving
<1>2. N \in Nat \ {0} /\ MoELayers = 1..N
  BY DistAssumption DEF MoELayers
<1>3. ASSUME NEW l \in 1..N
      PROVE  /\ s[l] \in Seq(DistCalls) /\ Len(s[l]) = 2
             /\ s[l][1] = Saving(N + 1 - l, p) /\ s[l][2] = Bwd(N + 1 - l, p)
  <2>1. N + 1 - l \in MoELayers
    BY <1>2
  <2> DEFINE x == Saving(N + 1 - l, p)
             y == Bwd(N + 1 - l, p)
  <2>2. x \in DistCalls /\ y \in DistCalls
    BY <2>1, CallTyping
  <2>3. s[l] = <<x, y>>
    BY <1>2
  <2> HIDE DEF s, x, y
  <2>4. /\ <<x, y>> \in Seq(DistCalls) /\ Len(<<x, y>>) = 2
        /\ <<x, y>>[1] = x /\ <<x, y>>[2] = y
    BY ONLY <2>2
  <2>5. /\ s[l] \in Seq(DistCalls) /\ Len(s[l]) = 2 /\ s[l][1] = x /\ s[l][2] = y
    BY ONLY <2>3, <2>4
  <2>6. QED BY ONLY <2>5 DEF x, y
<1>4. Summed(DistCalls, N, s, off)
  <2>1. s = [l \in 1..N |-> s[l]]
    BY <1>2
  <2>2. off \in [0..N -> Nat] /\ off[0] = 0
    BY <1>2
  <2>3. \A k \in 1..N : off[k] = 2 * k /\ off[k - 1] = 2 * (k - 1)
    BY <1>2
  <2>4. \A k \in 1..N : 2 * k = 2 * (k - 1) + 2
    BY <1>2
  <2> HIDE DEF s, off
  <2>5. \A k \in 1..N : off[k] = off[k - 1] + Len(s[k])
    BY ONLY <1>3, <2>3, <2>4, Zenon
  <2>6. s \in [1..N -> Seq(DistCalls)]
    BY ONLY <1>3, <2>1
  <2>7. QED BY ONLY <2>2, <2>5, <2>6 DEF Summed
<1>5. off[N] = 2 * N /\ \A k \in 1..N : off[k - 1] = 2 * (k - 1)
  BY <1>2
<1> HIDE DEF s, off
<1>6. Parted(DistCalls, N, s, off, b)
  BY ONLY <1>2, <1>4, FlattenParts DEF b
<1> HIDE DEF b
<1>7. b \in Seq(DistCalls) /\ Len(b) = 2 * N
  BY ONLY <1>5, <1>6 DEF Parted
<1>8. ASSUME NEW k \in 1..N
      PROVE  b[2 * k - 1] = Saving(N + 1 - k, p) /\ b[2 * k] = Bwd(N + 1 - k, p)
  <2>1. \A i \in 1..Len(s[k]) : b[off[k - 1] + i] = s[k][i]
    BY ONLY <1>6, k \in 1..N DEF Parted
  <2>2. 1 \in 1..Len(s[k]) /\ 2 \in 1..Len(s[k])
    <3>1. Len(s[k]) = 2
      BY ONLY <1>3, k \in 1..N
    <3>2. QED BY ONLY <3>1
  <2>3. off[k - 1] + 1 = 2 * k - 1 /\ off[k - 1] + 2 = 2 * k
    BY ONLY <1>2, <1>5, k \in 1..N
  <2>4. b[2 * k - 1] = s[k][1] /\ b[2 * k] = s[k][2]
    BY ONLY <2>1, <2>2, <2>3, Zenon
  <2>5. QED BY ONLY <1>3, <2>4, k \in 1..N, Zenon
<1>9. a \in Seq(DistCalls) /\ Len(a) = N
  BY EvalEntries
<1>10. \A i \in 1..N : a[i] = Plain(i, p)
  BY EvalEntries
<1> HIDE DEF a
<1>11. a \o b \in Seq(DistCalls) /\ Len(a \o b) = 3 * N
  BY ONLY <1>2, <1>7, <1>9
<1>12. ASSUME NEW i \in 1..N
       PROVE  /\ (a \o b)[i] = a[i]
              /\ (a \o b)[N + 2 * i - 1] = b[2 * i - 1]
              /\ (a \o b)[N + 2 * i] = b[2 * i]
  <2>1. i \in 1..Len(a) /\ 2 * i - 1 \in 1..Len(b) /\ 2 * i \in 1..Len(b)
    BY ONLY <1>2, <1>7, <1>9, i \in 1..N
  <2>2. /\ \A k \in 1..Len(a) : (a \o b)[k] = a[k]
        /\ \A k \in 1..Len(b) : (a \o b)[Len(a) + k] = b[k]
    BY ONLY <1>7, <1>9
  <2>3. Len(a) + (2 * i - 1) = N + 2 * i - 1 /\ Len(a) + 2 * i = N + 2 * i
    BY ONLY <1>2, <1>9, i \in 1..N
  <2>4. QED BY ONLY <2>1, <2>2, <2>3, Zenon
<1>13. ASSUME NEW i \in 1..N
       PROVE  /\ (a \o b)[i] = Plain(i, p)
              /\ (a \o b)[N + 2 * i - 1] = Saving(N + 1 - i, p)
              /\ (a \o b)[N + 2 * i] = Bwd(N + 1 - i, p)
  BY ONLY <1>8, <1>10, <1>12, i \in 1..N, Zenon
<1>14. QED BY ONLY <1>1, <1>11, <1>13, Zenon

(* EvalPass(1) \o TrainPass(2) *)
LEMMA EvalTrainShape == Shape(EvalPass(1) \o TrainPass(2))
<1> DEFINE N == LayerCount
           a == EvalPass(1)
           b == TrainPass(2)
           pr == a \o b
<1>1. N \in Nat \ {0}
  BY DistAssumption
<1>2. 1 \in 1..2 /\ 2 \in 1..2
  OBVIOUS
<1>3. a \in Seq(DistCalls) /\ Len(a) = N /\ \A i \in 1..N : a[i] = Plain(i, 1)
  BY ONLY <1>2, EvalEntries, Zenon
<1>4. /\ b \in Seq(DistCalls) /\ Len(b) = 2 * N
      /\ \A i \in 1..N : b[i] = Saving(i, 2) /\ b[N + i] = Bwd(N + 1 - i, 2)
  BY ONLY <1>2, TrainEntries, Zenon
<1> HIDE DEF a, b
<1>5. /\ pr \in Seq(DistCalls) /\ Len(pr) = 3 * N
      /\ \A k \in 1..N : pr[k] = a[k]
      /\ \A k \in 1..(2 * N) : pr[N + k] = b[k]
  <2>1. a \in Seq(DistCalls) /\ Len(a) = N /\ b \in Seq(DistCalls) /\ Len(b) = 2 * N
    BY <1>3, <1>4
  <2>2. QED BY ONLY <1>1, <2>1
<1> HIDE DEF pr
<1>6. ASSUME NEW i \in 1..N
      PROVE  /\ pr[i].kind = "fwd" /\ pr[i].pass = 1 /\ ~pr[i].save
             /\ pr[N + i].kind = "fwd" /\ pr[N + i].l = i /\ pr[N + i].pass = 2
             /\ pr[2 * N + i].kind = "bwd" /\ pr[2 * N + i].l = N + 1 - i
             /\ pr[2 * N + i].pass = 2 /\ ~pr[2 * N + i].save
             /\ pr[N + i].save
  <2>1. i \in 1..(2 * N) /\ N + i \in 1..(2 * N) /\ N + (N + i) = 2 * N + i
    BY <1>1
  <2>2. /\ pr[i] = Plain(i, 1) /\ pr[N + i] = Saving(i, 2)
        /\ pr[2 * N + i] = Bwd(N + 1 - i, 2)
    BY ONLY <1>3, <1>4, <1>5, <2>1, i \in 1..N, Zenon
  <2>3. pr[i].kind = "fwd" /\ pr[i].pass = 1 /\ ~pr[i].save
    BY ONLY <2>2, PlainFields
  <2>4. /\ pr[N + i].kind = "fwd" /\ pr[N + i].l = i /\ pr[N + i].pass = 2
        /\ pr[N + i].save
    BY ONLY <2>2, SavingFields
  <2>5. /\ pr[2 * N + i].kind = "bwd" /\ pr[2 * N + i].l = N + 1 - i
        /\ pr[2 * N + i].pass = 2 /\ ~pr[2 * N + i].save
    BY ONLY <2>2, BwdFields
  <2>6. QED BY ONLY <2>3, <2>4, <2>5
<1>7. ASSUME NEW k \in 1..(3 * N)
      PROVE  \E i \in 1..N : k = i \/ k = N + i \/ k = 2 * N + i
  <2>1. k \in 1..N \/ k - N \in 1..N \/ k - 2 * N \in 1..N
    BY <1>1
  <2>2. k = N + (k - N) /\ k = 2 * N + (k - 2 * N)
    BY <1>1
  <2>3. QED BY <2>1, <2>2
<1>8. ASSUME NEW k \in 1..(3 * N), pr[k].kind = "bwd"
      PROVE  ~pr[k].save /\ \E j \in 1..(k - 1) : SavesFor(pr, j, k)
  <2>1. PICK i \in 1..N : k = 2 * N + i
    <3>1. PICK i \in 1..N : k = i \/ k = N + i \/ k = 2 * N + i
      BY <1>7
    <3>2. k # i /\ k # N + i
      BY ONLY <1>6, <1>8, i \in 1..N, Zenon
    <3>3. QED BY <3>1, <3>2
  <2> DEFINE x == N + 1 - i
             j == N + x
  <2>2. x \in 1..N /\ j \in 1..(k - 1)
    BY <1>1, <2>1
  <2>3. /\ pr[k].l = x /\ pr[k].pass = 2 /\ ~pr[k].save
        /\ pr[j].kind = "fwd" /\ pr[j].l = x /\ pr[j].pass = 2 /\ pr[j].save
    BY <1>6, <2>1, <2>2
  <2>4. ASSUME NEW m \in 1..(k - 1), pr[m].kind = "fwd", pr[m].l = x, m > N
        PROVE  m = j
    <3>1. PICK y \in 1..N : m = y \/ m = N + y \/ m = 2 * N + y
      <4>1. m \in 1..(3 * N)
        BY <1>1
      <4>2. QED BY ONLY <1>7, <4>1
    <3>2. m # y /\ m # 2 * N + y
      <4>1. m # 2 * N + y
        BY ONLY <1>6, <2>4, y \in 1..N, Zenon
      <4>2. QED BY <1>1, <2>4, <4>1
    <3>3. m = N + y
      BY <3>1, <3>2
    <3>4. pr[N + y].l = y
      BY <1>6
    <3>5. pr[m].l = y
      BY ONLY <3>3, <3>4
    <3>6. QED BY <2>4, <3>3, <3>5
  <2>5. ASSUME NEW m \in 1..(k - 1), pr[m].save PROVE pr[m].kind = "fwd" /\ m > N
    <3>1. PICK y \in 1..N : m = y \/ m = N + y \/ m = 2 * N + y
      <4>1. m \in 1..(3 * N)
        BY <1>1
      <4>2. QED BY ONLY <1>7, <4>1
    <3>2. m = N + y /\ pr[m].kind = "fwd"
      <4>1. /\ ~pr[y].save /\ ~pr[2 * N + y].save
            /\ pr[N + y].kind = "fwd"
        BY <1>6
      <4>2. QED BY ONLY <2>5, <3>1, <4>1
    <3>3. QED BY <1>1, <3>2
  <2>6. \A m \in (j + 1)..(k - 1) : m \in 1..(k - 1) /\ m > N /\ m # j
    BY <1>1, <2>2
  <2> HIDE DEF j, x
  <2>7. SavesFor(pr, j, k)
    <3>1. \A m \in (j + 1)..(k - 1) : pr[m].kind = "fwd" => pr[m].l # pr[k].l
      BY ONLY <2>3, <2>4, <2>6, Zenon
    <3>2. \A m \in 1..(k - 1) : pr[m].save /\ pr[m].l = pr[k].l => m = j
      BY ONLY <2>3, <2>4, <2>5, Zenon
    <3>3. QED BY ONLY <2>3, <3>1, <3>2 DEF SavesFor
  <2>8. QED BY <2>2, <2>3, <2>7
<1>9. ASSUME NEW j \in 1..(3 * N), NEW k \in 1..(3 * N), j < k, pr[j].pass # pr[k].pass
      PROVE  \E m \in (j + 1)..k : pr[m].kind = "fwd"
  <2>1. ASSUME NEW m \in 1..(3 * N), m > N PROVE pr[m].pass = 2
    <3>1. PICK y \in 1..N : m = y \/ m = N + y \/ m = 2 * N + y
      BY <1>7
    <3>2. m # y
      BY <1>1, <2>1
    <3>3. pr[N + y].pass = 2 /\ pr[2 * N + y].pass = 2
      BY <1>6
    <3>4. QED BY ONLY <3>1, <3>2, <3>3
  <2>2. ASSUME NEW m \in 1..(3 * N), m <= N PROVE pr[m].pass = 1
    <3>1. m \in 1..N
      BY <1>1, <2>2
    <3>2. QED BY <1>6, <3>1
  <2>3. j <= N /\ k > N
    <3>1. ~(j > N /\ k > N) /\ ~(j <= N /\ k <= N)
      BY ONLY <1>9, <2>1, <2>2, j \in 1..(3 * N), k \in 1..(3 * N), Zenon
    <3>2. QED BY <1>1, <1>9, <3>1
  <2>4. N + 1 \in (j + 1)..k /\ 1 \in 1..N
    BY <1>1, <2>3
  <2>5. pr[N + 1].kind = "fwd"
    BY ONLY <1>6, <2>4, Zenon
  <2>6. QED BY ONLY <2>4, <2>5, Zenon
<1>10. Shape(pr)
  BY ONLY <1>5, <1>8, <1>9, Zenon DEF Shape
<1>11. QED BY <1>10 DEF pr, a, b

(* CheckpointPass(1) \o EvalPass(2) *)
LEMMA CheckpointEvalShape == Shape(CheckpointPass(1) \o EvalPass(2))
<1> DEFINE N == LayerCount
           a == CheckpointPass(1)
           b == EvalPass(2)
           pr == a \o b
<1>1. N \in Nat \ {0}
  BY DistAssumption
<1>2. 1 \in 1..2 /\ 2 \in 1..2
  OBVIOUS
<1>3. /\ a \in Seq(DistCalls) /\ Len(a) = 3 * N
      /\ \A i \in 1..N : /\ a[i] = Plain(i, 1)
                         /\ a[N + 2 * i - 1] = Saving(N + 1 - i, 1)
                         /\ a[N + 2 * i] = Bwd(N + 1 - i, 1)
  BY ONLY <1>2, CheckpointEntries, Zenon
<1>4. b \in Seq(DistCalls) /\ Len(b) = N /\ \A i \in 1..N : b[i] = Plain(i, 2)
  BY ONLY <1>2, EvalEntries, Zenon
<1> HIDE DEF a, b
<1>5. /\ pr \in Seq(DistCalls) /\ Len(pr) = 4 * N
      /\ \A k \in 1..(3 * N) : pr[k] = a[k]
      /\ \A k \in 1..N : pr[3 * N + k] = b[k]
  <2>1. a \in Seq(DistCalls) /\ Len(a) = 3 * N /\ b \in Seq(DistCalls) /\ Len(b) = N
    BY <1>3, <1>4
  <2>2. QED BY ONLY <1>1, <2>1
<1> HIDE DEF pr
<1>6. ASSUME NEW i \in 1..N
      PROVE  /\ pr[i].kind = "fwd" /\ pr[i].pass = 1 /\ ~pr[i].save
             /\ pr[N + 2 * i - 1].kind = "fwd" /\ pr[N + 2 * i - 1].l = N + 1 - i
             /\ pr[N + 2 * i - 1].pass = 1 /\ pr[N + 2 * i - 1].save
             /\ pr[N + 2 * i].kind = "bwd" /\ pr[N + 2 * i].l = N + 1 - i
             /\ pr[N + 2 * i].pass = 1 /\ ~pr[N + 2 * i].save
             /\ pr[3 * N + i].kind = "fwd" /\ pr[3 * N + i].pass = 2
             /\ ~pr[3 * N + i].save
  <2>1. i \in 1..(3 * N) /\ N + 2 * i - 1 \in 1..(3 * N) /\ N + 2 * i \in 1..(3 * N)
    BY <1>1
  <2>2. /\ pr[i] = Plain(i, 1)
        /\ pr[N + 2 * i - 1] = Saving(N + 1 - i, 1)
        /\ pr[N + 2 * i] = Bwd(N + 1 - i, 1)
        /\ pr[3 * N + i] = Plain(i, 2)
    BY ONLY <1>3, <1>4, <1>5, <2>1, i \in 1..N, Zenon
  <2>3. pr[i].kind = "fwd" /\ pr[i].pass = 1 /\ ~pr[i].save
    BY ONLY <2>2, PlainFields
  <2>4. /\ pr[N + 2 * i - 1].kind = "fwd" /\ pr[N + 2 * i - 1].l = N + 1 - i
        /\ pr[N + 2 * i - 1].pass = 1 /\ pr[N + 2 * i - 1].save
    BY ONLY <2>2, SavingFields
  <2>5. /\ pr[N + 2 * i].kind = "bwd" /\ pr[N + 2 * i].l = N + 1 - i
        /\ pr[N + 2 * i].pass = 1 /\ ~pr[N + 2 * i].save
    BY ONLY <2>2, BwdFields
  <2>6. pr[3 * N + i].kind = "fwd" /\ pr[3 * N + i].pass = 2 /\ ~pr[3 * N + i].save
    BY ONLY <2>2, PlainFields
  <2>7. QED BY ONLY <2>3, <2>4, <2>5, <2>6
<1>7. ASSUME NEW k \in 1..(4 * N)
      PROVE  \E i \in 1..N : k = i \/ k = N + 2 * i - 1 \/ k = N + 2 * i \/ k = 3 * N + i
  <2>1. CASE k <= N
    BY <1>1, <2>1
  <2>2. CASE k > N /\ k <= 3 * N
    <3> DEFINE i == (k - N + 1) \div 2
    <3>1. k - N + 1 \in Nat /\ k - N >= 1 /\ k - N <= 2 * N
      BY <1>1, <2>2
    <3>2. i \in Int /\ (k - N + 1 = 2 * i \/ k - N + 1 = 2 * i + 1)
      BY <3>1
    <3> HIDE DEF i
    <3>3. i \in 1..N /\ (k = N + 2 * i - 1 \/ k = N + 2 * i)
      BY <1>1, <3>1, <3>2
    <3>4. QED BY <3>3
  <2>3. CASE k > 3 * N
    <3>1. k - 3 * N \in 1..N /\ k = 3 * N + (k - 3 * N)
      BY <1>1, <2>3
    <3>2. QED BY <3>1
  <2>4. QED BY <1>1, <2>1, <2>2, <2>3
<1>8. ASSUME NEW k \in 1..(4 * N), pr[k].kind = "bwd"
      PROVE  ~pr[k].save /\ \E j \in 1..(k - 1) : SavesFor(pr, j, k)
  <2>1. PICK i \in 1..N : k = N + 2 * i
    <3>1. PICK i \in 1..N : k = i \/ k = N + 2 * i - 1 \/ k = N + 2 * i \/ k = 3 * N + i
      BY <1>7
    <3>2. k # i /\ k # N + 2 * i - 1 /\ k # 3 * N + i
      BY ONLY <1>6, <1>8, i \in 1..N, Zenon
    <3>3. QED BY <3>1, <3>2
  <2> DEFINE j == N + 2 * i - 1
             x == N + 1 - i
  <2>2. /\ pr[k].l = x /\ pr[k].pass = 1 /\ ~pr[k].save
        /\ pr[j].kind = "fwd" /\ pr[j].l = x /\ pr[j].pass = 1 /\ pr[j].save
    BY ONLY <1>6, <2>1, i \in 1..N, Zenon
  <2>3. j \in 1..(k - 1) /\ (j + 1)..(k - 1) = {}
    BY <1>1, <2>1
  <2>4. ASSUME NEW m \in 1..(k - 1), pr[m].save, pr[m].l = x PROVE m = j
    <3>1. PICK y \in 1..N : m = y \/ m = N + 2 * y - 1 \/ m = N + 2 * y \/ m = 3 * N + y
      <4>1. m \in 1..(4 * N)
        BY <1>1
      <4>2. QED BY ONLY <1>7, <4>1
    <3>2. m = N + 2 * y - 1 /\ pr[m].l = N + 1 - y
      <4>1. /\ ~pr[y].save /\ ~pr[N + 2 * y].save
            /\ ~pr[3 * N + y].save /\ pr[N + 2 * y - 1].l = N + 1 - y
        BY <1>6
      <4>2. QED BY ONLY <2>4, <3>1, <4>1
    <3>3. y = i
      BY ONLY <1>1, <2>4, <3>2, y \in 1..N, i \in 1..N DEF x
    <3>4. QED BY <3>2, <3>3
  <2> HIDE DEF j, x
  <2>5. SavesFor(pr, j, k)
    <3>1. \A m \in (j + 1)..(k - 1) : FALSE
      BY ONLY <2>3, Zenon
    <3>2. QED BY ONLY <2>2, <2>4, <3>1, Zenon DEF SavesFor
  <2>6. QED BY ONLY <2>2, <2>3, <2>5, Zenon
<1>9. ASSUME NEW j \in 1..(4 * N), NEW k \in 1..(4 * N), j < k, pr[j].pass # pr[k].pass
      PROVE  \E m \in (j + 1)..k : pr[m].kind = "fwd"
  <2>1. ASSUME NEW m \in 1..(4 * N), m <= 3 * N PROVE pr[m].pass = 1
    <3>1. PICK y \in 1..N : m = y \/ m = N + 2 * y - 1 \/ m = N + 2 * y \/ m = 3 * N + y
      BY <1>7
    <3>2. m # 3 * N + y
      BY <1>1, <2>1
    <3>3. pr[y].pass = 1 /\ pr[N + 2 * y - 1].pass = 1 /\ pr[N + 2 * y].pass = 1
      BY <1>6
    <3>4. QED BY ONLY <3>1, <3>2, <3>3
  <2>2. ASSUME NEW m \in 1..(4 * N), m > 3 * N PROVE pr[m].pass = 2
    <3>1. m - 3 * N \in 1..N /\ m = 3 * N + (m - 3 * N)
      BY <1>1, <2>2
    <3>2. QED BY ONLY <1>6, <3>1, Zenon
  <2>3. j <= 3 * N /\ k > 3 * N
    <3>1. ~(j > 3 * N /\ k > 3 * N) /\ ~(j <= 3 * N /\ k <= 3 * N)
      BY ONLY <1>9, <2>1, <2>2, j \in 1..(4 * N), k \in 1..(4 * N), Zenon
    <3>2. QED BY <1>1, <1>9, <3>1
  <2>4. 3 * N + 1 \in (j + 1)..k /\ 1 \in 1..N
    BY <1>1, <2>3
  <2>5. pr[3 * N + 1].kind = "fwd"
    BY ONLY <1>6, <2>4, Zenon
  <2>6. QED BY ONLY <2>4, <2>5, Zenon
<1>10. Shape(pr)
  BY ONLY <1>5, <1>8, <1>9, Zenon DEF Shape
<1>11. QED BY <1>10 DEF pr, a, b

LEMMA ProgramShape == \A pr \in Programs : Shape(pr)
BY EvalTrainShape, CheckpointEvalShape DEF Programs

-----------------------------------------------------------------------------
(* Calls and steps *)

GatherAt(kd)  == IF kd = "fwd" THEN 2 ELSE 1
ScatterAt(kd) == IF kd = "fwd" THEN 5 ELSE 2
EndAt(kd)     == IF kd = "fwd" THEN 6 ELSE 4

Kind(k) == prog[k].kind
IsFwd(k) == Kind(k) = "fwd"
Qlen(k) == qlen[prog[k].pass]

LEMMA StepFacts ==
  ASSUME NEW kd \in {"fwd", "bwd"}
  PROVE  /\ Len(Steps(kd)) = EndAt(kd) - 1
         /\ \A s \in 1..(EndAt(kd) - 1) :
              /\ Steps(kd)[s] = "qlens" <=> kd = "fwd" /\ s = 1
              /\ Steps(kd)[s] \in Gathers <=> s >= GatherAt(kd) /\ s < ScatterAt(kd)
              /\ Steps(kd)[s] \in Scatters <=> s >= ScatterAt(kd)
<1>1. CASE kd = "fwd"
  <2>1. /\ Len(Steps(kd)) = 5 /\ EndAt(kd) = 6 /\ GatherAt(kd) = 2 /\ ScatterAt(kd) = 5
        /\ Steps(kd)[1] = "qlens" /\ Steps(kd)[2] = "hs" /\ Steps(kd)[3] = "ids" /\ Steps(kd)[4] = "wts" /\ Steps(kd)[5] = "out"
    BY <1>1 DEF Steps, EndAt, GatherAt, ScatterAt
  <2>2. ASSUME NEW s \in 1..5
        PROVE  /\ Steps(kd)[s] = "qlens" <=> kd = "fwd" /\ s = 1
               /\ Steps(kd)[s] \in Gathers <=> s >= GatherAt(kd) /\ s < ScatterAt(kd)
               /\ Steps(kd)[s] \in Scatters <=> s >= ScatterAt(kd)
    <3>1. CASE s = 1
      BY ONLY <1>1, <2>1, <3>1 DEF Gathers, Scatters
    <3>2. CASE s = 2
      BY ONLY <1>1, <2>1, <3>2 DEF Gathers, Scatters
    <3>3. CASE s = 3
      BY ONLY <1>1, <2>1, <3>3 DEF Gathers, Scatters
    <3>4. CASE s = 4
      BY ONLY <1>1, <2>1, <3>4 DEF Gathers, Scatters
    <3>5. CASE s = 5
      BY ONLY <1>1, <2>1, <3>5 DEF Gathers, Scatters
    <3>6. QED BY <3>1, <3>2, <3>3, <3>4, <3>5
  <2>3. EndAt(kd) - 1 = 5
    BY ONLY <2>1
  <2>4. QED BY ONLY <2>1, <2>2, <2>3
<1>2. CASE kd = "bwd"
  <2>1. /\ Len(Steps(kd)) = 3 /\ EndAt(kd) = 4 /\ GatherAt(kd) = 1 /\ ScatterAt(kd) = 2
        /\ Steps(kd)[1] = "go" /\ Steps(kd)[2] = "gi" /\ Steps(kd)[3] = "gw"
    BY <1>2 DEF Steps, EndAt, GatherAt, ScatterAt
  <2>2. ASSUME NEW s \in 1..3
        PROVE  /\ Steps(kd)[s] = "qlens" <=> kd = "fwd" /\ s = 1
               /\ Steps(kd)[s] \in Gathers <=> s >= GatherAt(kd) /\ s < ScatterAt(kd)
               /\ Steps(kd)[s] \in Scatters <=> s >= ScatterAt(kd)
    <3>1. CASE s = 1
      BY ONLY <1>2, <2>1, <3>1 DEF Gathers, Scatters
    <3>2. CASE s = 2
      BY ONLY <1>2, <2>1, <3>2 DEF Gathers, Scatters
    <3>3. CASE s = 3
      BY ONLY <1>2, <2>1, <3>3 DEF Gathers, Scatters
    <3>4. QED BY <3>1, <3>2, <3>3
  <2>3. EndAt(kd) - 1 = 3
    BY ONLY <2>1
  <2>4. QED BY ONLY <2>1, <2>2, <2>3
<1>3. QED BY <1>1, <1>2

-----------------------------------------------------------------------------
(* The lengths *)

LenTypeInv ==
  /\ prog \in Programs /\ qlen \in [1..2 -> Lengths]
  /\ at \in [Ranks -> 1..(Len(prog) + 1)] /\ step \in [Ranks -> 1..5]
  /\ waiting \in [Ranks -> BOOLEAN]
  /\ \A r \in Ranks : IF Active(r) THEN step[r] < EndAt(Kind(at[r]))
                                   ELSE step[r] = 1 /\ ~waiting[r]
  /\ posted \in [Ranks -> Seq(Nat)]
  /\ known \in [Ranks -> [Ranks -> Nat]]
  /\ ctx \in [Ranks -> [MoELayers -> [Ranks -> Nat]]]

\* The forwards for which a rank has given its length, and those it has the
\* lengths of.
PostedFor(r) == {k \in 1..Len(prog) : IsFwd(k) /\ \/ k < at[r]
                                                  \/ k = at[r] /\ (step[r] > 1 \/ waiting[r])}
Past(r, k) == k < at[r] \/ (k = at[r] /\ step[r] > 1)
FwdsTo(k) == {j \in 1..Len(prog) : j <= k /\ IsFwd(j)}

PostedInv ==
  \A r \in Ranks :
    /\ Len(posted[r]) = Cardinality(PostedFor(r))
    /\ \A k \in PostedFor(r) : posted[r][Cardinality(FwdsTo(k))] = Qlen(k)[r]

\* Nobody is past a collective that somebody has not come to.
BarrierInv ==
  \A x, y \in Ranks : \A k \in 1..Len(prog) : IsFwd(k) /\ Past(y, k) => k \in PostedFor(x)

KnownInv ==
  \A r \in Ranks : Active(r) /\ IsFwd(at[r]) /\ step[r] > 1 => known[r] = Qlen(at[r])

\* ctx of a layer is that of its last forward.
CtxInv ==
  \A r \in Ranks : \A k \in 1..Len(prog) :
    /\ IsFwd(k) /\ Past(r, k)
    /\ \A m \in (k + 1)..Len(prog) : IsFwd(m) /\ prog[m].l = prog[k].l => ~Past(r, m)
    => ctx[r][prog[k].l] = Qlen(k)

LenInv == LenTypeInv /\ PostedInv /\ BarrierInv /\ KnownInv /\ CtxInv

AtQlens(r) == IsFwd(at[r]) /\ step[r] = 1

\* What the proofs use of the program and the lengths.
LEMMA ProgFacts ==
  ASSUME LenTypeInv
  PROVE  /\ Shape(prog) /\ Len(prog) \in Nat
         /\ \A k \in 1..Len(prog) :
              /\ Kind(k) \in {"fwd", "bwd"} /\ prog[k].l \in MoELayers
              /\ prog[k].pass \in 1..2 /\ Qlen(k) \in [Ranks -> Nat]
              /\ Qlen(k) \in Lengths
              /\ prog[k] \in DistCalls
<1>1. Shape(prog) /\ prog \in Seq(DistCalls)
  BY ProgramShape DEF LenTypeInv, Shape
<1>2. \A k \in 1..Len(prog) : prog[k] \in DistCalls
  BY <1>1
<1>3. \A k \in 1..Len(prog) : Qlen(k) \in Lengths
  BY <1>2 DEF LenTypeInv, DistCalls, Qlen
<1>4. Lengths \subseteq [Ranks -> Nat]
  BY DistAssumption DEF Ranks
<1>5. QED BY <1>1, <1>2, <1>3, <1>4 DEF DistCalls, Kind

\* The step a rank is at.
LEMMA WhatFacts ==
  ASSUME LenTypeInv, NEW r \in Ranks, Active(r)
  PROVE  /\ at[r] \in 1..Len(prog) /\ step[r] \in 1..(EndAt(Kind(at[r])) - 1)
         /\ What(r) = Steps(Kind(at[r]))[step[r]]
         /\ Kind(at[r]) \in {"fwd", "bwd"}
         /\ What(r) = "qlens" <=> AtQlens(r)
         /\ What(r) \in Gathers <=> step[r] >= GatherAt(Kind(at[r])) /\ step[r] < ScatterAt(Kind(at[r]))
         /\ What(r) \in Scatters <=> step[r] >= ScatterAt(Kind(at[r]))
         /\ Len(Steps(Call(r).kind)) = EndAt(Kind(at[r])) - 1
<1>1. /\ Len(prog) \in Nat /\ at[r] \in 1..(Len(prog) + 1) /\ step[r] \in 1..5
      /\ step[r] < EndAt(Kind(at[r]))
  BY ProgFacts DEF LenTypeInv
<1>2. at[r] \in 1..Len(prog)
  BY <1>1 DEF Active
<1>3. Kind(at[r]) \in {"fwd", "bwd"}
  BY <1>2, ProgFacts
<1>4. EndAt(Kind(at[r])) \in Int
  BY DEF EndAt
<1>5. step[r] \in 1..(EndAt(Kind(at[r])) - 1)
  BY <1>1, <1>4
<1>6. What(r) = Steps(Kind(at[r]))[step[r]] /\ Call(r).kind = Kind(at[r])
  BY DEF What, Call, Kind
<1>7. QED BY <1>2, <1>3, <1>5, <1>6, StepFacts DEF AtQlens, IsFwd

\* Where Advance leads.
LEMMA AdvanceFacts ==
  ASSUME LenTypeInv, NEW r \in Ranks, Active(r), Advance(r), UNCHANGED <<prog, qlen>>
  PROVE  /\ waiting' = [waiting EXCEPT ![r] = FALSE]
         /\ step[r] = EndAt(Kind(at[r])) - 1
              => at' = [at EXCEPT ![r] = @ + 1] /\ step' = [step EXCEPT ![r] = 1]
         /\ step[r] # EndAt(Kind(at[r])) - 1
              => at' = at /\ step' = [step EXCEPT ![r] = @ + 1]
         /\ at' \in [Ranks -> 1..(Len(prog) + 1)] /\ step' \in [Ranks -> 1..5]
         /\ waiting' \in [Ranks -> BOOLEAN]
         /\ \A x \in Ranks : IF at'[x] <= Len(prog) THEN step'[x] < EndAt(Kind(at'[x]))
                                                    ELSE step'[x] = 1 /\ ~waiting'[x]
<1>1. /\ at[r] \in 1..Len(prog) /\ step[r] \in 1..(EndAt(Kind(at[r])) - 1)
      /\ Len(Steps(Call(r).kind)) = EndAt(Kind(at[r])) - 1
      /\ Kind(at[r]) \in {"fwd", "bwd"} /\ Len(prog) \in Nat
  BY WhatFacts, ProgFacts
<1>2. /\ waiting' = [waiting EXCEPT ![r] = FALSE]
      /\ step[r] = EndAt(Kind(at[r])) - 1
           => at' = [at EXCEPT ![r] = @ + 1] /\ step' = [step EXCEPT ![r] = 1]
      /\ step[r] # EndAt(Kind(at[r])) - 1
           => at' = [at EXCEPT ![r] = @] /\ step' = [step EXCEPT ![r] = @ + 1]
  BY ONLY <1>1, Advance(r) DEF Advance
<1>3. /\ at \in [Ranks -> 1..(Len(prog) + 1)] /\ step \in [Ranks -> 1..5]
      /\ waiting \in [Ranks -> BOOLEAN]
      /\ \A x \in Ranks : IF at[x] <= Len(prog) THEN step[x] < EndAt(Kind(at[x]))
                                                ELSE step[x] = 1 /\ ~waiting[x]
  BY DEF LenTypeInv, Active
<1>4. \A k : EndAt(Kind(k)) \in {4, 6}
  BY DEF EndAt
<1>5. CASE step[r] = EndAt(Kind(at[r])) - 1
  BY ONLY <1>1, <1>2, <1>3, <1>4, <1>5, r \in Ranks
<1>6. CASE step[r] # EndAt(Kind(at[r])) - 1
  <2>1. at' = at /\ step' = [step EXCEPT ![r] = @ + 1]
    BY ONLY <1>2, <1>3, <1>6, r \in Ranks
  <2>2. step[r] + 1 < EndAt(Kind(at[r])) /\ step[r] + 1 \in 1..5
    <3>1. EndAt(Kind(at[r])) = 4 \/ EndAt(Kind(at[r])) = 6
      BY ONLY <1>4
    <3>2. QED BY ONLY <1>1, <1>6, <3>1
  <2>3. step' \in [Ranks -> 1..5] /\ waiting' \in [Ranks -> BOOLEAN]
    BY ONLY <1>2, <1>3, <2>1, <2>2
  <2>4. ASSUME NEW x \in Ranks
        PROVE  IF at'[x] <= Len(prog) THEN step'[x] < EndAt(Kind(at'[x]))
                                      ELSE step'[x] = 1 /\ ~waiting'[x]
    <3>1. CASE x = r
      <4>1. at[r] <= Len(prog) /\ at'[x] = at[r] /\ step'[x] = step[r] + 1
        BY ONLY <1>1, <1>3, <2>1, <3>1, r \in Ranks
      <4>2. QED BY ONLY <2>2, <4>1
    <3>2. CASE x # r
      <4>1. at'[x] = at[x] /\ step'[x] = step[x] /\ waiting'[x] = waiting[x]
        BY ONLY <1>2, <1>3, <2>1, <3>2, r \in Ranks, x \in Ranks
      <4>2. IF at[x] <= Len(prog) THEN step[x] < EndAt(Kind(at[x]))
                                  ELSE step[x] = 1 /\ ~waiting[x]
        BY ONLY <1>3, x \in Ranks
      <4>3. QED BY ONLY <4>1, <4>2
    <3>3. QED BY <3>1, <3>2
  <2>5. QED BY ONLY <1>2, <1>3, <1>6, <2>1, <2>3, <2>4
<1>7. QED BY <1>5, <1>6

\* The lengths a rank goes by are those of its pass.
LEMMA LensRight ==
  ASSUME LenInv, NEW r \in Ranks, Active(r), ~AtQlens(r)
  PROVE  Lens(r) = Qlen(at[r]) /\ Local(r) = Qlen(at[r])[r] /\ Checked(r)
<1> DEFINE k == at[r]
<1>1. k \in 1..Len(prog) /\ Kind(k) \in {"fwd", "bwd"} /\ step[r] \in Nat /\ step[r] >= 1 /\ Len(prog) \in Nat
  BY WhatFacts, ProgFacts DEF LenInv
<1>2. Local(r) = Qlen(k)[r]
  BY DEF Local, Qlen, Call
<1>3. CASE IsFwd(k)
  <2>1. step[r] > 1
    BY <1>1, <1>3 DEF AtQlens
  <2>2. known[r] = Qlen(k)
    BY <1>3, <2>1 DEF LenInv, KnownInv
  <2>3. QED BY <1>2, <1>3, <2>2 DEF Lens, Call, IsFwd, Kind, Checked
<1>4. CASE ~IsFwd(k)
  <2>1. Kind(k) = "bwd"
    BY <1>1, <1>4 DEF IsFwd
  <2>2. PICK j \in 1..(k - 1) : SavesFor(prog, j, k)
    <3>1. Shape(prog)
      BY ProgFacts DEF LenInv
    <3>2. QED BY <1>1, <2>1, <3>1 DEF Shape, Kind
  <2>3. /\ IsFwd(j) /\ prog[j].l = prog[k].l /\ prog[j].pass = prog[k].pass
        /\ \A m \in (j + 1)..(k - 1) : IsFwd(m) => prog[m].l # prog[k].l
    BY <2>2 DEF SavesFor, IsFwd, Kind
  <2>4. j \in 1..Len(prog) /\ Past(r, j)
    BY <1>1 DEF Past
  <2>5. ASSUME NEW m \in (j + 1)..Len(prog), IsFwd(m), prog[m].l = prog[j].l
        PROVE  ~Past(r, m)
    <3>1. m \notin (j + 1)..(k - 1) /\ m # k
      BY <1>4, <2>3, <2>5
    <3>2. m > k
      BY <1>1, <3>1
    <3>3. QED BY <1>1, <3>2 DEF Past
  <2>6. ctx[r][prog[j].l] = Qlen(j)
    BY <2>3, <2>4, <2>5 DEF LenInv, CtxInv
  <2>7. ctx[r][prog[k].l] = Qlen(k)
    BY <2>3, <2>6 DEF Qlen
  <2>8. QED BY <1>2, <1>4, <2>7 DEF Lens, Call, IsFwd, Kind, Checked
<1>5. QED BY <1>3, <1>4

\* A step that is not about lengths
LEMMA LenMove ==
  ASSUME LenInv, NEW r \in Ranks, Active(r), ~AtQlens(r),
         UNCHANGED <<prog, qlen, posted, known, ctx>>,
         \/ Advance(r)
         \/ UNCHANGED <<at, step>> /\ waiting' = [waiting EXCEPT ![r] = TRUE]
         \/ UNCHANGED <<at, step, waiting>>
  PROVE  LenInv'
<1>1. /\ LenTypeInv /\ at[r] \in 1..Len(prog) /\ Len(prog) \in Nat
      /\ at \in [Ranks -> 1..(Len(prog) + 1)] /\ step \in [Ranks -> 1..5]
      /\ waiting \in [Ranks -> BOOLEAN]
  BY WhatFacts, ProgFacts DEF LenInv, LenTypeInv
<1>2. LenTypeInv'
  <2>1. CASE Advance(r)
    <3>1. /\ at' \in [Ranks -> 1..(Len(prog) + 1)] /\ step' \in [Ranks -> 1..5]
          /\ waiting' \in [Ranks -> BOOLEAN]
          /\ \A x \in Ranks : IF at'[x] <= Len(prog) THEN step'[x] < EndAt(Kind(at'[x]))
                                                     ELSE step'[x] = 1 /\ ~waiting'[x]
      BY <1>1, <2>1, AdvanceFacts
    <3>2. QED BY <1>1, <3>1 DEF LenTypeInv, Active, Kind
  <2>2. CASE UNCHANGED <<at, step>> /\ waiting' = [waiting EXCEPT ![r] = TRUE]
    BY <1>1, <2>2 DEF LenTypeInv, Active, Kind
  <2>3. CASE UNCHANGED <<at, step, waiting>>
    BY <1>1, <2>3 DEF LenTypeInv, Active, Kind
  <2>4. QED BY <2>1, <2>2, <2>3
<1>3. /\ \A k : IsFwd(k)' = IsFwd(k) /\ Kind(k)' = Kind(k) /\ Qlen(k)' = Qlen(k)
      /\ \A k : FwdsTo(k)' = FwdsTo(k)
  BY DEF IsFwd, Kind, Qlen, FwdsTo
<1>4. ASSUME NEW x \in Ranks, NEW k \in 1..Len(prog), IsFwd(k)
      PROVE  /\ Past(x, k)' <=> Past(x, k)
             /\ (k < at'[x] \/ (k = at'[x] /\ (step'[x] > 1 \/ waiting'[x])))
                  <=> (k < at[x] \/ (k = at[x] /\ (step[x] > 1 \/ waiting[x])))
  <2>1. CASE Advance(r)
    <3>1. /\ waiting' = [waiting EXCEPT ![r] = FALSE]
          /\ step[r] = EndAt(Kind(at[r])) - 1
               => at' = [at EXCEPT ![r] = @ + 1] /\ step' = [step EXCEPT ![r] = 1]
          /\ step[r] # EndAt(Kind(at[r])) - 1
               => at' = at /\ step' = [step EXCEPT ![r] = @ + 1]
      BY <1>1, <2>1, AdvanceFacts
    <3>2. CASE x # r
      <4>1. at'[x] = at[x] /\ step'[x] = step[x] /\ waiting'[x] = waiting[x]
        BY ONLY <1>1, <3>1, <3>2, r \in Ranks, x \in Ranks
      <4>2. QED BY <4>1 DEF Past
    <3>3. CASE x = r
      <4>1. k = at[r] => step[r] > 1
        BY <1>1, <1>4 DEF AtQlens
      <4>2. ~waiting'[r] /\ step[r] \in Nat /\ step[r] >= 1
        <5>1. ~waiting'[r]
          BY ONLY <1>1, <3>1, r \in Ranks
        <5>2. step[r] \in 1..5
          BY ONLY <1>1, r \in Ranks
        <5>3. QED BY ONLY <5>1, <5>2
      <4>3. CASE step[r] = EndAt(Kind(at[r])) - 1
        <5>1. at'[r] = at[r] + 1 /\ step'[r] = 1
          BY <1>1, <3>1, <4>3
        <5>2. QED BY <1>1, <3>3, <4>1, <4>2, <5>1 DEF Past
      <4>4. CASE step[r] # EndAt(Kind(at[r])) - 1
        <5>1. at'[r] = at[r] /\ step'[r] = step[r] + 1
          BY <1>1, <3>1, <4>4
        <5>2. QED BY <1>1, <3>3, <4>1, <4>2, <5>1 DEF Past
      <4>5. QED BY <4>3, <4>4
    <3>4. QED BY <3>2, <3>3
  <2>2. CASE UNCHANGED <<at, step>> /\ waiting' = [waiting EXCEPT ![r] = TRUE]
    <3>1. x = r /\ k = at[r] => step[r] > 1
      BY <1>1, <1>4 DEF AtQlens
    <3>2. x # r => waiting'[x] = waiting[x]
      BY <1>1, <2>2
    <3>3. QED BY <1>1, <2>2, <3>1, <3>2 DEF Past
  <2>3. CASE UNCHANGED <<at, step, waiting>>
    BY <2>3 DEF Past
  <2>4. QED BY <2>1, <2>2, <2>3
<1>5. \A x \in Ranks : PostedFor(x)' = PostedFor(x)
  <2> SUFFICES ASSUME NEW x \in Ranks PROVE PostedFor(x)' = PostedFor(x)
    OBVIOUS
  <2>1. prog' = prog
    OBVIOUS
  <2>2. QED BY <1>3, <1>4, <2>1 DEF PostedFor
<1>6. PostedInv'
  BY <1>3, <1>5 DEF LenInv, PostedInv
<1>7. BarrierInv'
  BY <1>3, <1>4, <1>5 DEF LenInv, BarrierInv
<1>8. KnownInv'
  <2> SUFFICES ASSUME NEW x \in Ranks, at'[x] <= Len(prog), IsFwd(at'[x]), step'[x] > 1
               PROVE  known[x] = Qlen(at'[x])
    BY <1>3 DEF KnownInv, Active
  <2>1. at'[x] = at[x] /\ step[x] > 1
    <3>1. CASE x # r \/ ~Advance(r)
      BY <1>1, <3>1 DEF Advance
    <3>2. CASE x = r /\ Advance(r)
      <4>1. /\ step[r] = EndAt(Kind(at[r])) - 1
                 => at' = [at EXCEPT ![r] = @ + 1] /\ step' = [step EXCEPT ![r] = 1]
            /\ step[r] # EndAt(Kind(at[r])) - 1
                 => at' = at /\ step' = [step EXCEPT ![r] = @ + 1]
        BY <1>1, <3>2, AdvanceFacts
      <4>2. step[r] # EndAt(Kind(at[r])) - 1
        BY <1>1, <3>2, <4>1
      <4>3. at'[r] = at[r] /\ IsFwd(at[r])
        BY <3>2, <4>1, <4>2
      <4>4. step[r] # 1 /\ step[r] \in 1..5
        BY <1>1, <4>3 DEF AtQlens
      <4>5. QED BY <3>2, <4>3, <4>4
    <3>3. QED BY <3>1, <3>2
  <2>2. at[x] <= Len(prog) /\ IsFwd(at[x])
    BY <2>1
  <2>3. QED BY <2>1, <2>2 DEF LenInv, KnownInv, Active
<1>9. CtxInv'
  <2> SUFFICES ASSUME NEW x \in Ranks, NEW k \in 1..Len(prog), IsFwd(k), Past(x, k)',
                      \A m \in (k + 1)..Len(prog) : IsFwd(m) /\ prog[m].l = prog[k].l => ~Past(x, m)'
               PROVE  ctx[x][prog[k].l] = Qlen(k)
    BY <1>3 DEF CtxInv
  <2>1. Past(x, k)
    BY <1>4
  <2>2. \A m \in (k + 1)..Len(prog) : IsFwd(m) /\ prog[m].l = prog[k].l => ~Past(x, m)
    <3>1. \A m \in (k + 1)..Len(prog) : m \in 1..Len(prog)
      BY <1>1
    <3>2. QED BY <1>4, <3>1
  <2>3. QED BY <2>1, <2>2 DEF LenInv, CtxInv
<1>10. QED BY <1>2, <1>6, <1>7, <1>8, <1>9 DEF LenInv

LEMMA LenInit == DistInit => LenInv
<1> SUFFICES ASSUME DistInit PROVE LenInv
  OBVIOUS
<1>1. /\ at = [r \in Ranks |-> 1] /\ step = [r \in Ranks |-> 1]
      /\ waiting = [r \in Ranks |-> FALSE] /\ posted = [r \in Ranks |-> <<>>]
      /\ known = [r \in Ranks |-> [x \in Ranks |-> 0]]
      /\ ctx = [r \in Ranks |-> [l \in MoELayers |-> [x \in Ranks |-> 0]]]
      /\ prog \in Programs /\ qlen \in [1..2 -> Lengths]
  BY DEF DistInit
<1>2. Len(prog) \in Nat
  BY <1>1, ProgramShape DEF Shape
<1>3. \A k : EndAt(Kind(k)) = 4 \/ EndAt(Kind(k)) = 6
  BY DEF EndAt
<1>4. \A r \in Ranks : at[r] = 1 /\ step[r] = 1 /\ waiting[r] = FALSE /\ posted[r] = <<>>
  BY ONLY <1>1
<1>5. LenTypeInv
  <2>1. at \in [Ranks -> 1..(Len(prog) + 1)] /\ step \in [Ranks -> 1..5]
        /\ waiting \in [Ranks -> BOOLEAN]
    BY ONLY <1>1, <1>2
  <2>2. /\ posted \in [Ranks -> Seq(Nat)] /\ known \in [Ranks -> [Ranks -> Nat]]
        /\ ctx \in [Ranks -> [MoELayers -> [Ranks -> Nat]]]
    BY ONLY <1>1
  <2>3. \A r \in Ranks : IF Active(r) THEN step[r] < EndAt(Kind(at[r]))
                                      ELSE step[r] = 1 /\ ~waiting[r]
    <3> SUFFICES ASSUME NEW r \in Ranks
                 PROVE  step[r] < EndAt(Kind(at[r])) /\ step[r] = 1 /\ ~waiting[r]
      OBVIOUS
    <3>1. EndAt(Kind(at[r])) = 4 \/ EndAt(Kind(at[r])) = 6
      BY ONLY <1>3
    <3>2. QED BY ONLY <1>4, <3>1, r \in Ranks
  <2>4. QED BY <1>1, <2>1, <2>2, <2>3 DEF LenTypeInv
<1>6. \A r \in Ranks : PostedFor(r) = {} /\ \A k \in 1..Len(prog) : ~Past(r, k)
  <2> SUFFICES ASSUME NEW r \in Ranks, NEW k \in 1..Len(prog)
               PROVE  k \notin PostedFor(r) /\ ~Past(r, k)
    BY DEF PostedFor
  <2>1. at[r] = 1 /\ step[r] = 1 /\ ~waiting[r]
    BY ONLY <1>4, r \in Ranks
  <2>2. QED BY <1>2, <2>1 DEF PostedFor, Past
<1>7. PostedInv
  <2>1. Cardinality({}) = 0
    BY FS_EmptySet
  <2>2. \A r \in Ranks : Len(posted[r]) = 0
    BY <1>4
  <2>3. QED BY ONLY <1>6, <2>1, <2>2 DEF PostedInv
<1>8. BarrierInv /\ CtxInv
  BY <1>6 DEF BarrierInv, CtxInv
<1>9. KnownInv
  BY <1>4 DEF KnownInv
<1>10. QED BY <1>5, <1>7, <1>8, <1>9 DEF LenInv

\* The forwards up to a call are finitely many, and one more than those before.
LEMMA FwdsFacts ==
  ASSUME LenTypeInv, NEW k \in 1..Len(prog), IsFwd(k)
  PROVE  /\ IsFiniteSet(FwdsTo(k)) /\ k \in FwdsTo(k)
         /\ IsFiniteSet(FwdsTo(k) \ {k})
         /\ Cardinality(FwdsTo(k)) = Cardinality(FwdsTo(k) \ {k}) + 1
         /\ Cardinality(FwdsTo(k) \ {k}) \in Nat
<1>1. Len(prog) \in Nat
  BY ProgFacts
<1>2. IsFiniteSet(1..Len(prog))
  BY <1>1, FS_Interval
<1>3. FwdsTo(k) \subseteq 1..Len(prog) /\ k \in FwdsTo(k)
  BY <1>1 DEF FwdsTo
<1>4. IsFiniteSet(FwdsTo(k))
  BY <1>2, <1>3, FS_Subset
<1>5. IsFiniteSet(FwdsTo(k) \ {k}) /\ Cardinality(FwdsTo(k) \ {k}) = Cardinality(FwdsTo(k)) - 1
  BY <1>3, <1>4, FS_RemoveElement
<1>6. Cardinality(FwdsTo(k)) \in Nat /\ Cardinality(FwdsTo(k) \ {k}) \in Nat
  BY <1>4, <1>5, FS_CardinalityType
<1>7. QED BY <1>3, <1>4, <1>5, <1>6

\* Who has given its length for a call has given it for the forwards before.
LEMMA PostedFacts ==
  ASSUME LenTypeInv, NEW r \in Ranks
  PROVE  /\ IsFiniteSet(PostedFor(r)) /\ PostedFor(r) \subseteq 1..Len(prog)
         /\ \A k \in PostedFor(r) : IsFwd(k) /\ FwdsTo(k) \subseteq PostedFor(r)
         /\ \A k \in 1..Len(prog) : IsFwd(k) /\ k \notin PostedFor(r) =>
              PostedFor(r) \subseteq FwdsTo(k) \ {k}
<1>1. Len(prog) \in Nat /\ at[r] \in 1..(Len(prog) + 1)
  BY ProgFacts DEF LenTypeInv
<1>2. PostedFor(r) \subseteq 1..Len(prog)
  BY DEF PostedFor
<1>3. IsFiniteSet(PostedFor(r))
  <2>1. Len(prog) \in Int /\ 1 \in Int
    BY ONLY <1>1
  <2>2. IsFiniteSet(1..Len(prog))
    BY ONLY <2>1, FS_Interval
  <2>3. QED BY ONLY <1>2, <2>2, FS_Subset
<1>4. ASSUME NEW k \in PostedFor(r) PROVE IsFwd(k) /\ FwdsTo(k) \subseteq PostedFor(r)
  BY <1>1 DEF PostedFor, FwdsTo
<1>5. ASSUME NEW k \in 1..Len(prog), IsFwd(k), k \notin PostedFor(r)
      PROVE  PostedFor(r) \subseteq FwdsTo(k) \ {k}
  <2> SUFFICES ASSUME NEW j \in PostedFor(r) PROVE j \in FwdsTo(k) \ {k}
    OBVIOUS
  <2>1. j \in 1..Len(prog) /\ IsFwd(j) /\ j # k
    BY <1>5 DEF PostedFor
  <2>2. j < k
    BY <1>1, <1>5, <2>1 DEF PostedFor
  <2>3. QED BY <2>1, <2>2 DEF FwdsTo
<1>6. QED BY <1>2, <1>3, <1>4, <1>5

LEMMA PostQlenLen == ASSUME LenInv, NEW r \in Ranks, PostQlen(r) PROVE LenInv'
<1> DEFINE k == at[r]
<1>1. /\ LenTypeInv /\ PostedInv /\ BarrierInv /\ KnownInv /\ CtxInv
      /\ Active(r) /\ ~waiting[r]
      /\ posted' = [posted EXCEPT ![r] = Append(@, Local(r))]
      /\ waiting' = [waiting EXCEPT ![r] = TRUE]
      /\ UNCHANGED <<prog, qlen, at, step, known, ctx>>
  BY DEF LenInv, PostQlen, Stay
<1>2. /\ k \in 1..Len(prog) /\ IsFwd(k) /\ step[r] = 1 /\ Len(prog) \in Nat
      /\ Local(r) = Qlen(k)[r] /\ Qlen(k) \in [Ranks -> Nat]
  <2>1. AtQlens(r)
    BY <1>1, WhatFacts DEF PostQlen
  <2>2. QED BY <1>1, <2>1, WhatFacts, ProgFacts DEF AtQlens, Local, Call, Qlen
<1>3. /\ \A j : IsFwd(j)' = IsFwd(j) /\ Kind(j)' = Kind(j) /\ Qlen(j)' = Qlen(j)
      /\ \A j : FwdsTo(j)' = FwdsTo(j)
      /\ \A x, j : Past(x, j)' = Past(x, j)
      /\ \A x : Active(x)' = Active(x)
  BY <1>1 DEF IsFwd, Kind, Qlen, FwdsTo, Past, Active
<1>4. /\ at \in [Ranks -> 1..(Len(prog) + 1)] /\ step \in [Ranks -> 1..5]
      /\ waiting \in [Ranks -> BOOLEAN] /\ posted \in [Ranks -> Seq(Nat)]
  BY <1>1 DEF LenTypeInv
<1>5. /\ \A x \in Ranks : x # r => waiting'[x] = waiting[x] /\ posted'[x] = posted[x]
      /\ waiting'[r] /\ waiting' \in [Ranks -> BOOLEAN]
      /\ posted'[r] = Append(posted[r], Local(r)) /\ Local(r) \in Nat
  <2>1. Local(r) \in Nat
    BY <1>2
  <2>2. QED BY ONLY <1>1, <1>4, <2>1, r \in Ranks
<1>6. posted' \in [Ranks -> Seq(Nat)]
  <2>1. Append(posted[r], Local(r)) \in Seq(Nat)
    BY ONLY <1>4, <1>5, r \in Ranks
  <2>2. QED BY ONLY <1>1, <1>4, <2>1
<1>7. LenTypeInv'
  <2>1. \A x \in Ranks : IF Active(x) THEN step[x] < EndAt(Kind(at[x]))
                                      ELSE step[x] = 1 /\ ~waiting'[x]
    <3> SUFFICES ASSUME NEW x \in Ranks
                 PROVE  IF Active(x) THEN step[x] < EndAt(Kind(at[x]))
                                     ELSE step[x] = 1 /\ ~waiting'[x]
      OBVIOUS
    <3>1. IF Active(x) THEN step[x] < EndAt(Kind(at[x])) ELSE step[x] = 1 /\ ~waiting[x]
      BY <1>1 DEF LenTypeInv
    <3>2. CASE x = r
      BY <1>1, <3>1, <3>2
    <3>3. CASE x # r
      BY ONLY <1>5, <3>1, <3>3, x \in Ranks
    <3>4. QED BY <3>2, <3>3
  <2>2. QED BY <1>1, <1>3, <1>5, <1>6, <2>1 DEF LenTypeInv
<1>8. PostedFor(r) = FwdsTo(k) \ {k} /\ PostedFor(r)' = FwdsTo(k)
  BY <1>1, <1>2, <1>3, <1>5 DEF PostedFor, FwdsTo
<1>9. \A x \in Ranks : x # r => PostedFor(x)' = PostedFor(x)
  BY <1>1, <1>3, <1>5 DEF PostedFor
<1>10. PostedInv'
  <2>1. Len(posted'[r]) = Len(posted[r]) + 1 /\ posted'[r][Len(posted[r]) + 1] = Local(r)
        /\ \A i \in 1..Len(posted[r]) : posted'[r][i] = posted[r][i]
    <3>1. posted[r] \in Seq(Nat)
      BY <1>4
    <3>2. QED BY ONLY <1>5, <3>1
  <2>2. Len(posted[r]) = Cardinality(FwdsTo(k) \ {k})
    BY <1>1, <1>8 DEF PostedInv
  <2>3. Cardinality(FwdsTo(k)) = Len(posted[r]) + 1
    BY <1>1, <1>2, <2>2, FwdsFacts
  <2>4. ASSUME NEW j \in FwdsTo(k) \ {k}
        PROVE  /\ Cardinality(FwdsTo(j)) \in 1..Len(posted[r])
               /\ posted[r][Cardinality(FwdsTo(j))] = Qlen(j)[r]
    <3>1. j \in PostedFor(r) /\ j \in 1..Len(prog) /\ IsFwd(j) /\ FwdsTo(j) \subseteq PostedFor(r)
      <4>1. j \in PostedFor(r)
        BY <1>8
      <4>2. QED BY <1>1, <4>1, PostedFacts
    <3>2. posted[r][Cardinality(FwdsTo(j))] = Qlen(j)[r]
      BY <1>1, <3>1 DEF PostedInv
    <3>3. Cardinality(FwdsTo(j)) <= Cardinality(PostedFor(r))
      BY <1>1, <3>1, PostedFacts, FS_Subset
    <3>4. Cardinality(FwdsTo(j)) = Cardinality(FwdsTo(j) \ {j}) + 1
          /\ Cardinality(FwdsTo(j) \ {j}) \in Nat
      BY <1>1, <3>1, FwdsFacts
    <3>5. Len(posted[r]) = Cardinality(PostedFor(r)) /\ Len(posted[r]) \in Nat
      <4>1. posted[r] \in Seq(Nat)
        BY <1>4
      <4>2. QED BY <1>1, <4>1 DEF PostedInv
    <3>6. QED BY ONLY <3>2, <3>3, <3>4, <3>5
  <2>5. ASSUME NEW j \in FwdsTo(k) PROVE posted'[r][Cardinality(FwdsTo(j))] = Qlen(j)[r]
    <3>1. CASE j = k
      BY ONLY <1>2, <2>1, <2>3, <3>1
    <3>2. CASE j # k
      BY ONLY <2>1, <2>4, <3>2, j \in FwdsTo(k)
    <3>3. QED BY <3>1, <3>2
  <2>6. ASSUME NEW x \in Ranks
        PROVE  /\ Len(posted'[x]) = Cardinality(PostedFor(x)')
               /\ \A j \in PostedFor(x)' : posted'[x][Cardinality(FwdsTo(j))] = Qlen(j)[x]
    <3>1. CASE x = r
      BY ONLY <1>8, <2>1, <2>3, <2>5, <3>1
    <3>2. CASE x # r
      <4>1. posted'[x] = posted[x] /\ PostedFor(x)' = PostedFor(x)
        BY <1>5, <1>9, <3>2
      <4>2. QED BY <1>1, <4>1 DEF PostedInv
    <3>3. QED BY <3>1, <3>2
  <2>7. QED BY ONLY <1>3, <2>6 DEF PostedInv
<1>11. BarrierInv'
  <2>1. \A x \in Ranks : PostedFor(x) \subseteq PostedFor(x)'
    BY <1>8, <1>9
  <2>2. prog' = prog
    BY <1>1
  <2>3. QED BY ONLY <1>1, <1>3, <2>1, <2>2 DEF BarrierInv
<1>12. KnownInv'
  BY <1>1, <1>3 DEF KnownInv
<1>13. CtxInv'
  BY <1>1, <1>3 DEF CtxInv
<1>14. QED BY <1>7, <1>10, <1>11, <1>12, <1>13 DEF LenInv

\* What all_gather returns.
LEMMA Gathered ==
  ASSUME LenInv, NEW r \in Ranks, Active(r), AtQlens(r), waiting[r],
         \A x \in Ranks : Len(posted[x]) >= Len(posted[r])
  PROVE  /\ \A x \in Ranks : at[r] \in PostedFor(x)
         /\ [x \in Ranks |-> posted[x][Len(posted[r])]] = Qlen(at[r])
<1> DEFINE k == at[r]
<1>1. LenTypeInv /\ PostedInv
  BY DEF LenInv
<1>2. k \in 1..Len(prog) /\ IsFwd(k) /\ Len(prog) \in Nat /\ Qlen(k) \in [Ranks -> Nat]
  BY <1>1, WhatFacts, ProgFacts DEF AtQlens
<1>3. PostedFor(r) = FwdsTo(k)
  BY <1>2 DEF PostedFor, FwdsTo
<1>4. Len(posted[r]) = Cardinality(FwdsTo(k))
  BY <1>1, <1>3 DEF PostedInv
<1>5. ASSUME NEW x \in Ranks PROVE k \in PostedFor(x)
  <2>1. SUFFICES ASSUME k \notin PostedFor(x) PROVE FALSE
    OBVIOUS
  <2>2. PostedFor(x) \subseteq FwdsTo(k) \ {k}
    BY <1>1, <1>2, <2>1, PostedFacts
  <2>3. /\ IsFiniteSet(FwdsTo(k) \ {k}) /\ Cardinality(FwdsTo(k) \ {k}) \in Nat
        /\ Cardinality(FwdsTo(k)) = Cardinality(FwdsTo(k) \ {k}) + 1
    BY <1>1, <1>2, FwdsFacts
  <2>4. Cardinality(PostedFor(x)) <= Cardinality(FwdsTo(k) \ {k})
    BY ONLY <2>2, <2>3, FS_Subset
  <2>5. Cardinality(PostedFor(x)) \in Nat
    BY ONLY <2>2, <2>3, FS_Subset, FS_CardinalityType
  <2>6. Len(posted[x]) = Cardinality(PostedFor(x))
    BY <1>1 DEF PostedInv
  <2>7. Len(posted[x]) >= Len(posted[r])
    OBVIOUS
  <2>8. QED BY ONLY <1>4, <2>3, <2>4, <2>5, <2>6, <2>7
<1>6. \A x \in Ranks : posted[x][Len(posted[r])] = Qlen(k)[x]
  BY <1>1, <1>4, <1>5 DEF PostedInv
<1>7. QED BY <1>2, <1>5, <1>6

LEMMA AwaitQlensLen == ASSUME LenInv, NEW r \in Ranks, AwaitQlens(r) PROVE LenInv'
<1> DEFINE k == at[r]
<1>1. /\ LenTypeInv /\ PostedInv /\ BarrierInv /\ KnownInv /\ CtxInv
      /\ Active(r) /\ waiting[r] /\ Advance(r)
      /\ \A x \in Ranks : Len(posted[x]) >= Len(posted[r])
      /\ known' = [known EXCEPT ![r] = [x \in Ranks |-> posted[x][Len(posted[r])]]]
      /\ ctx' = [ctx EXCEPT ![r][Call(r).l] = known'[r]]
      /\ UNCHANGED <<prog, qlen, posted>>
  BY DEF LenInv, AwaitQlens, Stay
<1>2. AtQlens(r) /\ step[r] = 1 /\ IsFwd(k)
  <2>1. AtQlens(r)
    BY <1>1, WhatFacts DEF AwaitQlens
  <2>2. QED BY <2>1 DEF AtQlens
<1>3. /\ k \in 1..Len(prog) /\ Len(prog) \in Nat /\ Qlen(k) \in [Ranks -> Nat]
      /\ Call(r).l = prog[k].l /\ prog[k].l \in MoELayers
  BY <1>1, WhatFacts, ProgFacts DEF Call
<1>4. /\ \A x \in Ranks : k \in PostedFor(x)
      /\ [x \in Ranks |-> posted[x][Len(posted[r])]] = Qlen(k)
  BY <1>1, <1>2, Gathered
<1>5. /\ at \in [Ranks -> 1..(Len(prog) + 1)] /\ step \in [Ranks -> 1..5]
      /\ waiting \in [Ranks -> BOOLEAN] /\ known \in [Ranks -> [Ranks -> Nat]]
      /\ ctx \in [Ranks -> [MoELayers -> [Ranks -> Nat]]]
  BY <1>1 DEF LenTypeInv
<1>6. /\ at' = at /\ step' = [step EXCEPT ![r] = 2]
      /\ waiting' = [waiting EXCEPT ![r] = FALSE]
      /\ step' \in [Ranks -> 1..5] /\ waiting' \in [Ranks -> BOOLEAN]
      /\ \A x \in Ranks : IF at'[x] <= Len(prog) THEN step'[x] < EndAt(Kind(at'[x]))
                                                 ELSE step'[x] = 1 /\ ~waiting'[x]
  <2>1. EndAt(Kind(k)) = 6
    BY <1>2 DEF IsFwd, EndAt
  <2>2. step[r] # EndAt(Kind(k)) - 1 /\ step[r] + 1 = 2
    BY <1>2, <2>1
  <2>3. /\ waiting' = [waiting EXCEPT ![r] = FALSE]
        /\ at' = at /\ step' = [step EXCEPT ![r] = @ + 1]
        /\ step' \in [Ranks -> 1..5] /\ waiting' \in [Ranks -> BOOLEAN]
        /\ \A x \in Ranks : IF at'[x] <= Len(prog) THEN step'[x] < EndAt(Kind(at'[x]))
                                                   ELSE step'[x] = 1 /\ ~waiting'[x]
    BY <1>1, <2>2, AdvanceFacts
  <2>4. step' = [step EXCEPT ![r] = 2]
    BY ONLY <2>2, <2>3
  <2>5. QED BY <2>3, <2>4
<1>7. /\ known' = [known EXCEPT ![r] = Qlen(k)] /\ known'[r] = Qlen(k)
      /\ ctx' = [ctx EXCEPT ![r][prog[k].l] = Qlen(k)]
  <2>1. known' = [known EXCEPT ![r] = Qlen(k)]
    BY ONLY <1>1, <1>4
  <2>2. known'[r] = Qlen(k)
    BY ONLY <1>5, <2>1, r \in Ranks
  <2>3. QED BY ONLY <1>1, <1>3, <2>1, <2>2
<1>8. /\ \A j : IsFwd(j)' = IsFwd(j) /\ Kind(j)' = Kind(j) /\ Qlen(j)' = Qlen(j)
      /\ \A j : FwdsTo(j)' = FwdsTo(j)
  BY <1>1 DEF IsFwd, Kind, Qlen, FwdsTo
<1>9. LenTypeInv'
  <2>1. known' \in [Ranks -> [Ranks -> Nat]]
    BY ONLY <1>3, <1>5, <1>7
  <2>2. ctx' \in [Ranks -> [MoELayers -> [Ranks -> Nat]]]
    BY ONLY <1>3, <1>5, <1>7, r \in Ranks
  <2>3. QED BY <1>1, <1>5, <1>6, <1>8, <2>1, <2>2 DEF LenTypeInv, Active
(* Only the rank's own step of its own call changes. *)
<1>10. /\ \A x \in Ranks : x # r => step'[x] = step[x] /\ waiting'[x] = waiting[x]
       /\ step'[r] = 2 /\ ~waiting'[r]
  BY ONLY <1>5, <1>6, r \in Ranks
<1>11. \A x \in Ranks : PostedFor(x)' = PostedFor(x)
  <2> SUFFICES ASSUME NEW x \in Ranks, NEW j \in 1..Len(prog), IsFwd(j)
               PROVE  (j < at'[x] \/ (j = at'[x] /\ (step'[x] > 1 \/ waiting'[x])))
                        <=> (j < at[x] \/ (j = at[x] /\ (step[x] > 1 \/ waiting[x])))
    BY <1>1, <1>8 DEF PostedFor
  <2>1. CASE x = r
    BY ONLY <1>1, <1>6, <1>10, <2>1
  <2>2. CASE x # r
    BY ONLY <1>6, <1>10, <2>2, x \in Ranks
  <2>3. QED BY <2>1, <2>2
<1>12. \A x \in Ranks : \A j \in 1..Len(prog) :
         Past(x, j)' <=> Past(x, j) \/ (x = r /\ j = k)
  <2> SUFFICES ASSUME NEW x \in Ranks, NEW j \in 1..Len(prog)
               PROVE  Past(x, j)' <=> Past(x, j) \/ (x = r /\ j = k)
    OBVIOUS
  <2>1. CASE x = r
    BY ONLY <1>2, <1>6, <1>10, <2>1 DEF Past
  <2>2. CASE x # r
    BY ONLY <1>6, <1>10, <2>2, x \in Ranks DEF Past
  <2>3. QED BY <2>1, <2>2
<1>13. PostedInv'
  BY <1>1, <1>8, <1>11 DEF PostedInv
<1>14. BarrierInv'
  <2> SUFFICES ASSUME NEW x \in Ranks, NEW y \in Ranks, NEW j \in 1..Len(prog), IsFwd(j),
                      Past(y, j)'
               PROVE  j \in PostedFor(x)
    BY <1>1, <1>8, <1>11 DEF BarrierInv
  <2>1. CASE Past(y, j)
    BY <1>1, <2>1 DEF BarrierInv
  <2>2. CASE y = r /\ j = k
    BY <1>4, <2>2
  <2>3. QED BY <1>12, <2>1, <2>2
<1>15. KnownInv'
  <2> SUFFICES ASSUME NEW x \in Ranks, at[x] <= Len(prog), IsFwd(at[x]), step'[x] > 1
               PROVE  known'[x] = Qlen(at[x])
    BY <1>1, <1>6, <1>8 DEF KnownInv, Active
  <2>1. CASE x = r
    BY <1>7, <2>1
  <2>2. CASE x # r
    <3>1. known'[x] = known[x] /\ step[x] > 1
      BY <1>5, <1>7, <1>10, <2>2
    <3>2. QED BY <1>1, <3>1 DEF KnownInv, Active
  <2>3. QED BY <2>1, <2>2
<1>16. CtxInv'
  <2> SUFFICES ASSUME NEW x \in Ranks, NEW j \in 1..Len(prog), IsFwd(j), Past(x, j)',
                      \A m \in (j + 1)..Len(prog) : IsFwd(m) /\ prog[m].l = prog[j].l => ~Past(x, m)'
               PROVE  ctx'[x][prog[j].l] = Qlen(j)
    BY <1>1, <1>8 DEF CtxInv
  <2>1. prog[j].l \in MoELayers
    BY <1>1, ProgFacts
  <2>2. CASE x = r /\ j = k
    BY ONLY <1>3, <1>5, <1>7, <2>2, r \in Ranks
  <2>3. CASE ~(x = r /\ j = k)
    <3>1. Past(x, j)
      BY <1>12, <2>3
    <3>2. \A m \in (j + 1)..Len(prog) : IsFwd(m) /\ prog[m].l = prog[j].l => ~Past(x, m)
      <4>1. \A m \in (j + 1)..Len(prog) : m \in 1..Len(prog)
        BY <1>3
      <4>2. QED BY <1>12, <4>1
    <3>3. ctx[x][prog[j].l] = Qlen(j)
      BY <1>1, <3>1, <3>2 DEF CtxInv
    <3>4. CASE x # r
      <4>1. ctx'[x] = ctx[x]
        BY ONLY <1>5, <1>7, <3>4, x \in Ranks
      <4>2. QED BY <3>3, <4>1
    <3>5. CASE x = r
      <4>1. j < k
        BY <1>3, <2>3, <3>1, <3>5 DEF Past
      <4>2. PICK m \in 1..Len(prog) : m = k
        BY <1>3
      <4>3. m \in (j + 1)..Len(prog) /\ IsFwd(m)
        BY ONLY <1>2, <1>3, <4>1, <4>2, j \in 1..Len(prog)
      <4>4. Past(r, m)'
        BY <1>12, <4>2
      <4>5. prog[k].l # prog[j].l
        BY <3>5, <4>2, <4>3, <4>4
      <4>6. ctx'[r][prog[j].l] = ctx[r][prog[j].l]
        BY ONLY <1>5, <1>7, <2>1, <4>5, r \in Ranks
      <4>7. QED BY <3>3, <3>5, <4>6
    <3>6. QED BY <3>4, <3>5
  <2>4. QED BY <2>2, <2>3
<1>17. QED BY <1>9, <1>13, <1>14, <1>15, <1>16 DEF LenInv

-----------------------------------------------------------------------------
(* The transfers *)

NetTypeInv ==
  /\ eager \in BOOLEAN
  /\ DOMAIN chan = Ranks \X Ranks
  /\ DOMAIN inp = Gathers /\ DOMAIN cache = MoELayers
  /\ DOMAIN res = Ranks
  /\ DOMAIN got \in SUBSET (Ranks \ {0})

\* The rows of all ranks in rank order, in the call k.
AllOf(q, k) == FlattenSeq([x \in 1..WorldSize |-> Rows(x - 1, k, q[x - 1])])
AllRows(k)  == AllOf(Qlen(k), k)

\* The rows that are to come back to a rank from the call k.
SavedIn(pr, k) == CHOOSE j \in 1..(k - 1) :
                    /\ pr[j].save /\ pr[j].l = pr[k].l
                    /\ pr[j].pass = pr[k].pass
OwnOf(pr, ql, r, k) ==
  [i \in 1..ql[pr[k].pass][r] |-> IF pr[k].kind = "fwd" THEN <<r, k, i>>
                                  ELSE <<<<r, k, i>>, <<r, SavedIn(pr, k), i>>>>]
Own(r, k) == OwnOf(prog, qlen, r, k)

Gathering(s, k)  == s >= GatherAt(Kind(k)) /\ s < ScatterAt(Kind(k))
Scattering(s, k) == s >= ScatterAt(Kind(k))

\* In the call k, the step of the next tensor a rank has to send, of the next
\* that rank 0 has to take from it, of the next that rank 0 has to send back,
\* and of the next the rank has to receive.
Sent(r, k) ==
  IF step[r] < GatherAt(Kind(k)) THEN GatherAt(Kind(k))
  ELSE IF step[r] >= ScatterAt(Kind(k)) THEN ScatterAt(Kind(k))
  ELSE IF waiting[r] THEN step[r] + 1 ELSE step[r]
Taken(r, k) ==
  IF at[0] < k THEN GatherAt(Kind(k))
  ELSE IF at[0] > k THEN ScatterAt(Kind(k))
  ELSE IF step[0] < GatherAt(Kind(k)) THEN GatherAt(Kind(k))
  ELSE IF step[0] >= ScatterAt(Kind(k)) THEN ScatterAt(Kind(k))
  ELSE IF r \in DOMAIN got THEN step[0] + 1 ELSE step[0]
Issued(k) ==
  IF at[0] < k THEN ScatterAt(Kind(k))
  ELSE IF at[0] > k THEN EndAt(Kind(k))
  ELSE IF step[0] < ScatterAt(Kind(k)) THEN ScatterAt(Kind(k))
  ELSE IF waiting[0] THEN step[0] + 1 ELSE step[0]
Read(r, k) == IF step[r] < ScatterAt(Kind(k)) THEN ScatterAt(Kind(k)) ELSE step[r]

\* The tensors of the steps from..to-1.
Queue(kd, from, to, rows) ==
  [i \in 1..(to - from) |-> [what |-> Steps(kd)[from + i - 1], rows |-> rows]]

Involved(r, k) == k \in 1..Len(prog) /\ Qlen(k)[r] > 0

\* What is under way between rank 0 and a rank in the call k.
LinkAt(r, k) ==
  /\ Involved(r, k) =>
       /\ Taken(r, k) <= Sent(r, k) /\ Read(r, k) <= Issued(k)
       /\ chan[<<r, 0>>] = Queue(Kind(k), Taken(r, k), Sent(r, k), Rows(r, k, Qlen(k)[r]))
       /\ chan[<<0, r>>] = Queue(Kind(k), Read(r, k), Issued(k), Own(r, k))
  /\ ~Involved(r, k) => chan[<<r, 0>>] = <<>> /\ chan[<<0, r>>] = <<>>

\* A rank that has rows in the call rank 0 is in, or in its own, is at most one
\* call away from rank 0.
BehindAt(r, k) == at[0] < k /\ Involved(r, at[0]) =>
  k = at[0] + 1 /\ step[0] = EndAt(Kind(at[0])) - 1 /\ waiting[0]
AheadAt(r, k) == k < at[0] /\ Involved(r, k) =>
  at[0] = k + 1 /\ step[0] = 1 /\ r \notin DOMAIN got

RankAt(r, k) == LinkAt(r, k) /\ BehindAt(r, k) /\ AheadAt(r, k)

RankInv == \A r \in Ranks \ {0}, k \in 1..(Len(prog) + 1) : at[r] = k => RankAt(r, k)

GotInv ==
  \A r \in DOMAIN got :
    /\ Active(0) /\ Gathering(step[0], at[0]) /\ Involved(r, at[0])
    /\ got[r] = Rows(r, at[0], Qlen(at[0])[r])

InpInv ==
  Active(0) => \A s \in 1..5 : Gathering(s, at[0]) /\ s < step[0] =>
    inp[Steps(Kind(at[0]))[s]] = AllRows(at[0])

\* Rank 0 has run the experts of the call k.
Ran(k) == k < at[0] \/ (k = at[0] /\ Scattering(step[0], k) /\ (step[0] > ScatterAt(Kind(k)) \/ waiting[0]))
CacheInv ==
  \A k \in 1..Len(prog) :
    /\ prog[k].save /\ Ran(k)
    /\ \A m \in (k + 1)..Len(prog) : IsFwd(m) /\ prog[m].l = prog[k].l => ~Ran(m)
    => cache[prog[k].l] = AllRows(k)

ResInv ==
  \A r \in Ranks : res[r].what # "none" =>
    res[r].at \in 1..Len(prog) /\ res[r].rows = Own(r, res[r].at)

NetInv == /\ NetTypeInv /\ RankInv /\ GotInv /\ InpInv /\ CacheInv /\ ResInv
DistInv == LenInv /\ NetInv

\* A queue grows at its end and shrinks at its head.
LEMMA QueueFacts ==
  ASSUME NEW kd, NEW from \in Nat, NEW to \in Nat, NEW rows
  PROVE  /\ to <= from => Queue(kd, from, to, rows) = <<>>
         /\ from < to => /\ Queue(kd, from, to, rows) # <<>>
                         /\ Head(Queue(kd, from, to, rows)).what = Steps(kd)[from]
                         /\ Head(Queue(kd, from, to, rows)).rows = rows
                         /\ Tail(Queue(kd, from, to, rows)) = Queue(kd, from + 1, to, rows)
         /\ from <= to => Append(Queue(kd, from, to, rows), [what |-> Steps(kd)[to], rows |-> rows])
                            = Queue(kd, from, to + 1, rows)
<1> DEFINE E(i) == [what |-> Steps(kd)[from + i - 1], rows |-> rows]
           X == {E(i) : i \in 1..(to + 1 - from)}
           q == Queue(kd, from, to, rows)
<1>1. q = [i \in 1..(to - from) |-> E(i)]
  BY DEF Queue
<1>2. ASSUME to <= from PROVE q = <<>>
  <2> HIDE DEF E
  <2>1. 1..(to - from) = {}
    BY ONLY <1>2, from \in Nat, to \in Nat
  <2>2. QED BY ONLY <1>1, <2>1
<1>3. ASSUME from < to
      PROVE  q # <<>> /\ Head(q) = E(1) /\ Tail(q) = Queue(kd, from + 1, to, rows)
  <2> DEFINE n == to - from
  <2>1. n \in Nat /\ n >= 1
    BY <1>3
  <2>2. /\ q = [i \in 1..n |-> E(i)]
        /\ Queue(kd, from + 1, to, rows) = [i \in 1..(n - 1) |-> E(i + 1)]
    <3>1. to - (from + 1) = n - 1
      OBVIOUS
    <3>2. \A i \in 1..(n - 1) : from + 1 + i - 1 = from + (i + 1) - 1
      BY <2>1
    <3> HIDE DEF n
    <3>3. Queue(kd, from + 1, to, rows) = [i \in 1..(n - 1) |-> E(i + 1)]
      BY ONLY <3>1, <3>2 DEF Queue
    <3>4. QED BY <1>1, <3>3 DEF n
  <2> HIDE DEF n, E, q
  <2>3. q # <<>> /\ Head(q) = E(1) /\ Tail(q) = [i \in 1..(n - 1) |-> E(i + 1)]
    BY ONLY <2>1, <2>2
  <2>4. QED BY ONLY <2>2, <2>3
<1>4. ASSUME from <= to
      PROVE  Append(q, [what |-> Steps(kd)[to], rows |-> rows]) = Queue(kd, from, to + 1, rows)
  <2> DEFINE n == to - from
             e == [what |-> Steps(kd)[to], rows |-> rows]
  <2>1. n \in Nat /\ to + 1 - from = n + 1 /\ from + (n + 1) - 1 = to
    BY <1>4
  <2>2. e = E(n + 1)
    BY ONLY <2>1
  <2>3. /\ q = [i \in 1..n |-> E(i)]
        /\ Queue(kd, from, to + 1, rows) = [i \in 1..(n + 1) |-> E(i)]
    <3> HIDE DEF n
    <3>1. Queue(kd, from, to + 1, rows) = [i \in 1..(n + 1) |-> E(i)]
      BY ONLY <2>1 DEF Queue
    <3>2. QED BY <1>1, <3>1 DEF n
  <2> HIDE DEF n, E, q, e
  <2>4. Append(q, e) = [i \in 1..(n + 1) |-> E(i)]
    <3> DEFINE S == {E(i) : i \in 1..(n + 1)}
    <3>1. \A i \in 1..(n + 1) : E(i) \in S
      OBVIOUS
    <3> HIDE DEF S
    <3>2. q \in Seq(S) /\ Len(q) = n /\ \A i \in 1..n : q[i] = E(i)
      BY ONLY <2>1, <2>3, <3>1
    <3>3. Append(q, e) \in Seq(S) /\ Len(Append(q, e)) = n + 1
          /\ \A i \in 1..(n + 1) : Append(q, e)[i] = E(i)
      BY ONLY <2>1, <2>2, <3>1, <3>2
    <3> DEFINE a == Append(q, e)
    <3> HIDE DEF a
    <3>4. a \in Seq(S) /\ Len(a) = n + 1
      BY ONLY <3>3 DEF a
    <3>5. a = [i \in 1..(n + 1) |-> a[i]]
      BY ONLY <3>4
    <3>6. \A i \in 1..(n + 1) : a[i] = E(i)
      BY ONLY <3>3 DEF a
    <3>7. a = [i \in 1..(n + 1) |-> E(i)]
      BY ONLY <3>5, <3>6
    <3>8. QED BY ONLY <3>7 DEF a
  <2>5. QED BY ONLY <2>3, <2>4 DEF e
<1>5. E(1).what = Steps(kd)[from] /\ E(1).rows = rows
  <2>1. from + 1 - 1 = from
    OBVIOUS
  <2>2. QED BY ONLY <2>1
<1> HIDE DEF E, q
<1>6. QED BY ONLY <1>2, <1>3, <1>4, <1>5 DEF q

LEMMA QueueEmpty ==
  ASSUME NEW kd, NEW from, NEW rows, from \in Nat
  PROVE  Queue(kd, from, from, rows) = <<>>
<1>1. from <= from
  OBVIOUS
<1>2. QED BY ONLY <1>1, from \in Nat, QueueFacts, Zenon

LEMMA QueueAppend ==
  ASSUME NEW kd, NEW from, NEW to, NEW rows, from \in Nat, to \in Nat, from <= to
  PROVE  Append(Queue(kd, from, to, rows), [what |-> Steps(kd)[to], rows |-> rows])
           = Queue(kd, from, to + 1, rows)
BY QueueFacts

LEMMA QueueHead ==
  ASSUME NEW kd, NEW from, NEW to, NEW rows, from \in Nat, to \in Nat,
         Queue(kd, from, to, rows) # <<>>
  PROVE  /\ from < to
         /\ Head(Queue(kd, from, to, rows)).what = Steps(kd)[from]
         /\ Head(Queue(kd, from, to, rows)).rows = rows
         /\ Tail(Queue(kd, from, to, rows)) = Queue(kd, from + 1, to, rows)
<1>1. ASSUME to <= from PROVE FALSE
  <2>1. Queue(kd, from, to, rows) = <<>>
    BY ONLY <1>1, from \in Nat, to \in Nat, QueueFacts, Zenon
  <2>2. QED BY <2>1
<1>2. from < to
  BY ONLY <1>1, from \in Nat, to \in Nat
<1>3. QED BY ONLY <1>2, from \in Nat, to \in Nat, QueueFacts, Zenon

\* Where the transfers of a call begin and end.
LEMMA StepBounds ==
  ASSUME NEW kd
  PROVE  /\ kd = "fwd" => GatherAt(kd) = 2 /\ ScatterAt(kd) = 5 /\ EndAt(kd) = 6
         /\ kd # "fwd" => GatherAt(kd) = 1 /\ ScatterAt(kd) = 2 /\ EndAt(kd) = 4
BY DEF GatherAt, ScatterAt, EndAt

\* Where a rank can be.
LEMMA PlaceFacts ==
  ASSUME LenTypeInv, NEW r \in Ranks
  PROVE  /\ 0 \in Ranks /\ at[r] \in Nat /\ at[r] >= 1 /\ step[r] \in Nat /\ step[r] >= 1
         /\ waiting[r] \in BOOLEAN /\ Len(prog) \in Nat
         /\ at[r] <= Len(prog) => at[r] \in 1..Len(prog) /\ step[r] < EndAt(Kind(at[r]))
         /\ ~(at[r] <= Len(prog)) => at[r] = Len(prog) + 1 /\ step[r] = 1 /\ ~waiting[r]
<1>1. /\ at[r] \in 1..(Len(prog) + 1) /\ step[r] \in 1..5 /\ waiting[r] \in BOOLEAN
      /\ IF Active(r) THEN step[r] < EndAt(Kind(at[r])) ELSE step[r] = 1 /\ ~waiting[r]
  BY DEF LenTypeInv
<1>2. Len(prog) \in Nat
  BY ProgFacts
<1>3. 0 \in Ranks
  BY DistAssumption DEF Ranks
<1>4. QED BY ONLY <1>1, <1>2, <1>3 DEF Active

\* Lengths that differ are of two passes, and a forward lies between.
LEMMA PassBegins ==
  ASSUME LenTypeInv, NEW r, NEW j, NEW k, j \in 1..Len(prog), k \in 1..Len(prog), j < k,
         Qlen(j)[r] # Qlen(k)[r]
  PROVE  \E m \in (j + 1)..k : IsFwd(m)
<1>1. prog[j].pass # prog[k].pass
  BY DEF Qlen
<1>2. QED BY <1>1, ProgFacts DEF Shape, IsFwd, Kind

\* Two ranks with no collective between them have nobody's length change
\* between their calls.
LEMMA SamePass ==
  ASSUME LenInv, NEW x \in Ranks, NEW y \in Ranks, NEW r \in Ranks, NEW k, k \in Int,
         at[x] < k, k <= Len(prog), k < at[y] \/ (k = at[y] /\ ~AtQlens(y))
  PROVE  Qlen(at[x])[r] = Qlen(k)[r] /\ (Involved(r, at[x]) <=> Involved(r, k))
<1>1. LenTypeInv /\ BarrierInv
  BY DEF LenInv
<1>2. /\ at[x] \in Nat /\ at[x] >= 1 /\ at[y] \in Nat /\ step[y] \in Nat /\ step[y] >= 1
      /\ Len(prog) \in Nat
  BY <1>1, PlaceFacts
<1>4. at[x] \in 1..Len(prog) /\ k \in 1..Len(prog)
  BY ONLY <1>2, k \in Int, at[x] < k, k <= Len(prog)
<1>3. ASSUME Qlen(at[x])[r] # Qlen(k)[r] PROVE FALSE
  <2>1. PICK m \in (at[x] + 1)..k : IsFwd(m)
    BY <1>1, <1>3, <1>4, PassBegins
  <2>2. m \in 1..Len(prog) /\ m > at[x] /\ m <= k
    BY <1>2, <1>4
  <2>3. Past(y, m)
    BY <1>2, <1>4, <2>1, <2>2 DEF Past, AtQlens
  <2>4. m \in PostedFor(x)
    BY <1>1, <2>1, <2>2, <2>3 DEF BarrierInv
  <2>5. QED BY <1>2, <2>2, <2>4 DEF PostedFor
<1>5. QED BY <1>3, <1>4 DEF Involved

LEMMA Unmoved ==
  ASSUME UNCHANGED <<prog, qlen>>
  PROVE  /\ \A k : Kind(k)' = Kind(k) /\ IsFwd(k)' = IsFwd(k) /\ Qlen(k)' = Qlen(k)
                   /\ AllRows(k)' = AllRows(k)
         /\ \A r, k : Own(r, k)' = Own(r, k)
         /\ \A r, k : Involved(r, k)' <=> Involved(r, k)
<1>1. \A k : Kind(k)' = Kind(k) /\ IsFwd(k)' = IsFwd(k) /\ Qlen(k)' = Qlen(k)
  BY DEF Kind, IsFwd, Qlen
<1>2. \A k : AllRows(k)' = AllRows(k)
  BY ONLY <1>1 DEF AllRows
<1>3. \A r, k : Own(r, k)' = Own(r, k)
  BY DEF Own
<1>4. \A r, k : Involved(r, k)' <=> Involved(r, k)
  BY <1>1 DEF Involved
<1>5. QED BY <1>1, <1>2, <1>3, <1>4

\* Nothing changes between rank 0 and a rank that neither moves.
LEMMA LinkFrame ==
  ASSUME UNCHANGED <<prog, qlen>>, NEW r, NEW k, LinkAt(r, k),
         Involved(r, k) => /\ Taken(r, k)' = Taken(r, k) /\ Sent(r, k)' = Sent(r, k)
                           /\ Read(r, k)' = Read(r, k) /\ Issued(k)' = Issued(k),
         chan'[<<r, 0>>] = chan[<<r, 0>>], chan'[<<0, r>>] = chan[<<0, r>>]
  PROVE  LinkAt(r, k)'
<1>1. /\ Kind(k)' = Kind(k) /\ Qlen(k)' = Qlen(k) /\ Own(r, k)' = Own(r, k)
      /\ Involved(r, k)' <=> Involved(r, k)
  BY Unmoved
<1>2. QED BY <1>1 DEF LinkAt

\* The counters of a rank that does not move, and of those rank 0 keeps when
\* it does not.
LEMMA RankStill ==
  ASSUME UNCHANGED <<prog, qlen>>, NEW r, step'[r] = step[r], waiting'[r] = waiting[r]
  PROVE  \A k : Sent(r, k)' = Sent(r, k) /\ Read(r, k)' = Read(r, k)
<1>1. \A k : Kind(k)' = Kind(k)
  BY Unmoved
<1>2. QED BY <1>1 DEF Sent, Read, GatherAt, ScatterAt

LEMMA Rank0Still ==
  ASSUME UNCHANGED <<prog, qlen, got>>, at'[0] = at[0], step'[0] = step[0], waiting'[0] = waiting[0]
  PROVE  /\ \A r, k : Taken(r, k)' = Taken(r, k)
         /\ \A k : Issued(k)' = Issued(k) /\ (Ran(k)' <=> Ran(k))
<1>1. \A k : Kind(k)' = Kind(k)
  BY Unmoved
<1>2. QED BY <1>1 DEF Taken, Issued, Ran, Scattering, GatherAt, ScatterAt, EndAt

LEMMA RankMove ==
  ASSUME NetInv, NEW r, r \in Ranks \ {0}, UNCHANGED <<prog, qlen, eager, got, inp, cache>>,
         0 \in Ranks,
         \A x \in Ranks : x # r => at'[x] = at[x] /\ step'[x] = step[x] /\ waiting'[x] = waiting[x],
         DOMAIN chan' = DOMAIN chan,
         \A x \in Ranks \ {0} : x # r => /\ chan'[<<x, 0>>] = chan[<<x, 0>>]
                                         /\ chan'[<<0, x>>] = chan[<<0, x>>],
         \A k \in 1..(Len(prog) + 1) : at'[r] = k => RankAt(r, k)',
         DOMAIN res' = DOMAIN res, ResInv'
  PROVE  NetInv'
<1>1. at'[0] = at[0] /\ step'[0] = step[0] /\ waiting'[0] = waiting[0]
  OBVIOUS
<1>2. /\ \A x, k : Taken(x, k)' = Taken(x, k)
      /\ \A k : Issued(k)' = Issued(k) /\ (Ran(k)' <=> Ran(k))
  BY <1>1, Rank0Still
<1>3. /\ \A k : Kind(k)' = Kind(k) /\ IsFwd(k)' = IsFwd(k) /\ Qlen(k)' = Qlen(k)
                /\ AllRows(k)' = AllRows(k)
      /\ \A x, k : Involved(x, k)' <=> Involved(x, k)
  BY Unmoved
<1>4. NetTypeInv'
  BY DEF NetInv, NetTypeInv
<1>5. ASSUME NEW x \in Ranks \ {0}, NEW k \in 1..(Len(prog) + 1), at'[x] = k
      PROVE  RankAt(x, k)'
  <2>1. CASE x = r
    BY <1>5, <2>1
  <2>2. CASE x # r
    <3>1. /\ at'[x] = at[x] /\ step'[x] = step[x] /\ waiting'[x] = waiting[x]
          /\ chan'[<<x, 0>>] = chan[<<x, 0>>] /\ chan'[<<0, x>>] = chan[<<0, x>>]
      BY <2>2
    <3>2. LinkAt(x, k) /\ BehindAt(x, k) /\ AheadAt(x, k)
      BY <1>5, <3>1 DEF NetInv, RankInv, RankAt
    <3>3. Sent(x, k)' = Sent(x, k) /\ Read(x, k)' = Read(x, k)
      BY <3>1, RankStill
    <3>4. LinkAt(x, k)'
      BY <1>2, <3>1, <3>2, <3>3, LinkFrame
    <3>5. BehindAt(x, k)' /\ AheadAt(x, k)'
      <4>1. EndAt(Kind(at[0]))' = EndAt(Kind(at[0]))
        BY <1>1, <1>3 DEF EndAt
      <4>2. QED BY ONLY <1>1, <1>3, <3>2, <4>1, got' = got DEF BehindAt, AheadAt
    <3>6. QED BY ONLY <3>4, <3>5 DEF RankAt
  <2>3. QED BY <2>1, <2>2
<1>6. RankInv'
  <2>1. prog' = prog
    OBVIOUS
  <2>2. QED BY ONLY <1>5, <2>1 DEF RankInv
<1>7. GotInv'
  BY <1>1, <1>3 DEF NetInv, GotInv, Active, Gathering, GatherAt, ScatterAt
<1>8. InpInv'
  BY <1>1, <1>3 DEF NetInv, InpInv, Active, Gathering, GatherAt, ScatterAt
<1>9. CacheInv'
  BY <1>2, <1>3 DEF NetInv, CacheInv
<1>10. QED BY <1>4, <1>6, <1>7, <1>8, <1>9 DEF NetInv

LEMMA CounterTypes ==
  ASSUME LenTypeInv, NEW r \in Ranks, NEW k
  PROVE  /\ Taken(r, k) \in Nat /\ Sent(r, k) \in Nat /\ Read(r, k) \in Nat /\ Issued(k) \in Nat
         /\ Sent(r, k) <= ScatterAt(Kind(k)) /\ Read(r, k) >= ScatterAt(Kind(k))
         /\ Taken(r, k) >= GatherAt(Kind(k))
<1> DEFINE kd == Kind(k)
<1>1. /\ GatherAt(kd) \in Nat /\ ScatterAt(kd) \in Nat /\ EndAt(kd) \in Nat
      /\ GatherAt(kd) < ScatterAt(kd) /\ ScatterAt(kd) < EndAt(kd)
  BY StepBounds
<1>2. step[r] \in Nat /\ step[0] \in Nat
  BY PlaceFacts
<1> HIDE DEF kd
<1>3. QED BY ONLY <1>1, <1>2 DEF Taken, Sent, Read, Issued, kd

\* A rank other than 0 moves on in its call, and nothing is sent.
LEMMA RankPause ==
  ASSUME NetInv, NEW r, r \in Ranks \ {0}, UNCHANGED <<prog, qlen, eager, netVars, res, at>>,
         0 \in Ranks, \A x \in Ranks : x # r => step'[x] = step[x] /\ waiting'[x] = waiting[x],
         \A k \in 1..Len(prog) : at[r] = k => Sent(r, k)' = Sent(r, k) /\ Read(r, k)' = Read(r, k)
  PROVE  NetInv'
<1>1. UNCHANGED <<chan, got, inp, cache>>
  BY DEF netVars
<1>2. at'[0] = at[0] /\ step'[0] = step[0] /\ waiting'[0] = waiting[0]
  OBVIOUS
<1>3. /\ \A x, k : Taken(x, k)' = Taken(x, k)
      /\ \A k : Issued(k)' = Issued(k)
  BY <1>1, <1>2, Rank0Still
<1>4. /\ \A k : Kind(k)' = Kind(k)
      /\ \A x, k : Own(x, k)' = Own(x, k) /\ (Involved(x, k)' <=> Involved(x, k))
  BY Unmoved
<1>5. ASSUME NEW k \in 1..(Len(prog) + 1), at[r] = k PROVE RankAt(r, k)'
  <2>1. LinkAt(r, k) /\ BehindAt(r, k) /\ AheadAt(r, k)
    BY <1>5 DEF NetInv, RankInv, RankAt
  <2>2. Involved(r, k) => Sent(r, k)' = Sent(r, k) /\ Read(r, k)' = Read(r, k)
    BY <1>5 DEF Involved
  <2>3. LinkAt(r, k)'
    BY <1>1, <1>3, <2>1, <2>2, LinkFrame
  <2>4. BehindAt(r, k)' /\ AheadAt(r, k)'
    <3>1. EndAt(Kind(at[0]))' = EndAt(Kind(at[0]))
      BY <1>2, <1>4 DEF EndAt
    <3>2. QED BY ONLY <1>1, <1>2, <1>4, <2>1, <3>1 DEF BehindAt, AheadAt
  <2>5. QED BY ONLY <2>3, <2>4 DEF RankAt
<1>6. \A k \in 1..(Len(prog) + 1) : at'[r] = k => RankAt(r, k)'
  BY <1>5
<1>7. ResInv'
  BY <1>4 DEF NetInv, ResInv
<1>8. QED BY <1>1, <1>6, <1>7, RankMove

\* Advance within a call.
LEMMA AdvanceIn ==
  ASSUME LenTypeInv, NEW r \in Ranks, Active(r), Advance(r), UNCHANGED <<prog, qlen>>,
         step[r] # EndAt(Kind(at[r])) - 1
  PROVE  /\ at' = at /\ step'[r] = step[r] + 1 /\ ~waiting'[r]
         /\ \A x \in Ranks : x # r => step'[x] = step[x] /\ waiting'[x] = waiting[x]
<1>1. /\ waiting' = [waiting EXCEPT ![r] = FALSE]
      /\ at' = at /\ step' = [step EXCEPT ![r] = @ + 1]
  BY AdvanceFacts
<1>2. step \in [Ranks -> 1..5] /\ waiting \in [Ranks -> BOOLEAN]
  BY DEF LenTypeInv
<1>3. QED BY ONLY <1>1, <1>2, r \in Ranks

\* ... and to the next one.
LEMMA AdvanceOn ==
  ASSUME LenTypeInv, NEW r \in Ranks, Active(r), Advance(r), UNCHANGED <<prog, qlen>>,
         step[r] = EndAt(Kind(at[r])) - 1
  PROVE  /\ at'[r] = at[r] + 1 /\ step'[r] = 1 /\ ~waiting'[r]
         /\ \A x \in Ranks : x # r => /\ at'[x] = at[x] /\ step'[x] = step[x]
                                      /\ waiting'[x] = waiting[x]
<1>1. /\ waiting' = [waiting EXCEPT ![r] = FALSE]
      /\ at' = [at EXCEPT ![r] = @ + 1] /\ step' = [step EXCEPT ![r] = 1]
  BY AdvanceFacts
<1>2. /\ step \in [Ranks -> 1..5] /\ waiting \in [Ranks -> BOOLEAN]
      /\ at \in [Ranks -> 1..(Len(prog) + 1)]
  BY DEF LenTypeInv
<1>3. QED BY ONLY <1>1, <1>2, r \in Ranks

LEMMA PostQlenRank ==
  ASSUME DistInv, NEW r \in Ranks, r # 0, PostQlen(r) PROVE NetInv'
<1>1. /\ LenTypeInv /\ NetInv /\ Active(r) /\ What(r) = "qlens"
      /\ waiting' = [waiting EXCEPT ![r] = TRUE]
      /\ UNCHANGED <<prog, qlen, eager, netVars, res, at, step>>
  BY DEF DistInv, LenInv, PostQlen, Stay
<1>2. IsFwd(at[r]) /\ step[r] = 1
  BY <1>1, WhatFacts DEF AtQlens
<1>3. 0 \in Ranks
  BY <1>1, PlaceFacts
<1>4. \A x \in Ranks : x # r => step'[x] = step[x] /\ waiting'[x] = waiting[x]
  <2>1. waiting \in [Ranks -> BOOLEAN]
    BY <1>1 DEF LenTypeInv
  <2>2. QED BY ONLY <1>1, <2>1
<1>5. ASSUME NEW k \in 1..Len(prog), at[r] = k
      PROVE  Sent(r, k)' = Sent(r, k) /\ Read(r, k)' = Read(r, k)
  <2>1. Kind(k)' = Kind(k) /\ Kind(k) = "fwd"
    BY <1>1, <1>2, <1>5, Unmoved DEF IsFwd
  <2>2. QED BY ONLY <1>1, <1>2, <2>1 DEF Sent, Read, GatherAt, ScatterAt
<1>6. r \in Ranks \ {0} /\ UNCHANGED <<prog, qlen, eager, netVars, res, at>>
  BY <1>1
<1>7. QED BY ONLY <1>1, <1>3, <1>4, <1>5, <1>6, RankPause, Zenon

LEMMA AwaitQlensRank ==
  ASSUME DistInv, NEW r \in Ranks, r # 0, AwaitQlens(r) PROVE NetInv'
<1>1. /\ LenTypeInv /\ NetInv /\ Active(r) /\ What(r) = "qlens" /\ Advance(r)
      /\ UNCHANGED <<prog, qlen, eager, netVars, res>>
  BY DEF DistInv, LenInv, AwaitQlens, Stay
<1>2. IsFwd(at[r]) /\ step[r] = 1
  BY <1>1, WhatFacts DEF AtQlens
<1>3. 0 \in Ranks
  BY <1>1, PlaceFacts
<1>4. /\ at' = at /\ step'[r] = 2 /\ ~waiting'[r]
      /\ \A x \in Ranks : x # r => step'[x] = step[x] /\ waiting'[x] = waiting[x]
  <2>1. step[r] # EndAt(Kind(at[r])) - 1
    BY <1>2 DEF IsFwd, EndAt
  <2>2. /\ at' = at /\ step'[r] = step[r] + 1 /\ ~waiting'[r]
        /\ \A x \in Ranks : x # r => step'[x] = step[x] /\ waiting'[x] = waiting[x]
    BY <1>1, <2>1, AdvanceIn
  <2>3. QED BY <1>2, <2>2
<1>5. ASSUME NEW k \in 1..Len(prog), at[r] = k
      PROVE  Sent(r, k)' = Sent(r, k) /\ Read(r, k)' = Read(r, k)
  <2>1. Kind(k)' = Kind(k) /\ Kind(k) = "fwd"
    BY <1>1, <1>2, <1>5, Unmoved DEF IsFwd
  <2>2. QED BY ONLY <1>2, <1>4, <2>1 DEF Sent, Read, GatherAt, ScatterAt
<1>6. QED BY <1>1, <1>3, <1>4, <1>5, RankPause

LEMMA SendWaitedNet ==
  ASSUME DistInv, NEW r \in Ranks, SendWaited(r) PROVE NetInv'
<1>1. /\ LenTypeInv /\ NetInv /\ Active(r) /\ What(r) \in Gathers /\ Advance(r)
      /\ waiting[r] /\ r # 0
      /\ UNCHANGED <<prog, qlen, eager, netVars, res>>
  BY DEF DistInv, LenInv, SendWaited, Stay
<1>2. /\ step[r] >= GatherAt(Kind(at[r])) /\ step[r] < ScatterAt(Kind(at[r])) /\ step[r] \in Nat
      /\ 0 \in Ranks
  BY <1>1, WhatFacts, PlaceFacts
<1>3. ScatterAt(Kind(at[r])) < EndAt(Kind(at[r])) /\ EndAt(Kind(at[r])) \in Nat
      /\ ScatterAt(Kind(at[r])) \in Nat /\ GatherAt(Kind(at[r])) \in Nat
  BY StepBounds
<1>4. /\ at' = at /\ step'[r] = step[r] + 1 /\ ~waiting'[r]
      /\ \A x \in Ranks : x # r => step'[x] = step[x] /\ waiting'[x] = waiting[x]
  <2>1. step[r] # EndAt(Kind(at[r])) - 1
    BY ONLY <1>2, <1>3
  <2>2. QED BY <1>1, <2>1, AdvanceIn
<1>5. ASSUME NEW k \in 1..Len(prog), at[r] = k
      PROVE  Sent(r, k)' = Sent(r, k) /\ Read(r, k)' = Read(r, k)
  <2>1. Kind(k)' = Kind(k)
    BY <1>1, Unmoved
  <2>2. GatherAt(Kind(k))' = GatherAt(Kind(k)) /\ ScatterAt(Kind(k))' = ScatterAt(Kind(k))
    BY ONLY <2>1 DEF GatherAt, ScatterAt
  <2>3. QED BY ONLY <1>1, <1>2, <1>3, <1>4, <1>5, <2>2 DEF Sent, Read
<1>6. QED BY <1>1, <1>2, <1>4, <1>5, RankPause

\* Rank 0 does not move, and another rank stays in its call.
LEMMA NearFrame ==
  ASSUME UNCHANGED <<prog, qlen, got>>, at'[0] = at[0], step'[0] = step[0], waiting'[0] = waiting[0],
         NEW r, NEW k, BehindAt(r, k), AheadAt(r, k)
  PROVE  BehindAt(r, k)' /\ AheadAt(r, k)'
<1>1. /\ \A j : Kind(j)' = Kind(j)
      /\ \A x, j : Involved(x, j)' <=> Involved(x, j)
  BY Unmoved
<1>2. EndAt(Kind(at[0]))' = EndAt(Kind(at[0]))
  BY <1>1 DEF EndAt
<1>3. QED BY <1>1, <1>2 DEF BehindAt, AheadAt

\* What a rank's call is about, when it is not at the collective.
LEMMA CallFacts ==
  ASSUME LenInv, NEW r \in Ranks, Active(r), What(r) \in Gathers \cup Scatters, NEW k, k = at[r]
  PROVE  /\ k \in 1..Len(prog) /\ Qlen(k) \in [Ranks -> Nat] /\ Qlen(k)[r] \in Nat
         /\ Lens(r) = Qlen(k) /\ Local(r) = Qlen(k)[r] /\ ~AtQlens(r)
         /\ What(r) = Steps(Kind(k))[step[r]]
         /\ What(r) \in Gathers <=> step[r] >= GatherAt(Kind(k)) /\ step[r] < ScatterAt(Kind(k))
         /\ What(r) \in Scatters <=> step[r] >= ScatterAt(Kind(k))
         /\ step[r] \in Nat /\ step[r] >= 1 /\ step[r] < EndAt(Kind(k))
         /\ 0 \in Ranks
<1>1. LenTypeInv
  BY DEF LenInv
<1>2. What(r) # "qlens"
  BY DEF Gathers, Scatters
<1>3. ~AtQlens(r)
  BY <1>1, <1>2, WhatFacts
<1>4. Lens(r) = Qlen(k) /\ Local(r) = Qlen(k)[r]
  BY <1>3, LensRight
<1>5. k \in 1..Len(prog) /\ Qlen(k) \in [Ranks -> Nat]
  BY <1>1, WhatFacts, ProgFacts
<1>6. /\ What(r) = Steps(Kind(k))[step[r]]
      /\ What(r) \in Gathers <=> step[r] >= GatherAt(Kind(k)) /\ step[r] < ScatterAt(Kind(k))
      /\ What(r) \in Scatters <=> step[r] >= ScatterAt(Kind(k))
  BY <1>1, WhatFacts
<1>7. step[r] \in Nat /\ step[r] >= 1 /\ step[r] < EndAt(Kind(k)) /\ 0 \in Ranks
  BY <1>1, PlaceFacts DEF Active
<1>8. Qlen(k)[r] \in Nat
  BY ONLY <1>5, r \in Ranks
<1>9. QED BY ONLY <1>3, <1>4, <1>5, <1>6, <1>7, <1>8

LEMMA SendRowsNet ==
  ASSUME DistInv, NEW r \in Ranks, SendRows(r) PROVE NetInv'
<1>1. /\ LenInv /\ LenTypeInv /\ NetInv /\ Active(r) /\ What(r) \in Gathers /\ r # 0
      /\ ~waiting[r] /\ Sends(Lens(r)[r])
      /\ chan' = [chan EXCEPT ![<<r, 0>>] =
                    Append(@, [what |-> What(r), rows |-> Rows(r, at[r], Local(r))])]
      /\ waiting' = [waiting EXCEPT ![r] = TRUE]
      /\ UNCHANGED <<prog, qlen, eager, at, step, got, inp, cache, res>>
  BY DEF DistInv, LenInv, SendRows, Stay
<1>2. PICK k : k = at[r]
  OBVIOUS
<1>3. What(r) \in Gathers \cup Scatters
  BY <1>1
<1>4. /\ k \in 1..Len(prog) /\ Qlen(k)[r] \in Nat
      /\ Lens(r) = Qlen(k) /\ Local(r) = Qlen(k)[r]
      /\ What(r) = Steps(Kind(k))[step[r]]
      /\ step[r] >= GatherAt(Kind(k)) /\ step[r] < ScatterAt(Kind(k)) /\ step[r] \in Nat
      /\ 0 \in Ranks
  BY <1>1, <1>2, <1>3, CallFacts
<1>5. Involved(r, k)
  BY <1>1, <1>4 DEF Involved, Sends
<1>6. LinkAt(r, k) /\ BehindAt(r, k) /\ AheadAt(r, k)
  <2>1. k \in 1..(Len(prog) + 1)
    BY <1>1, <1>2, <1>4, ProgFacts
  <2>2. QED BY <1>1, <1>2, <2>1 DEF NetInv, RankInv, RankAt
<1>7. /\ Taken(r, k) <= Sent(r, k) /\ Read(r, k) <= Issued(k)
      /\ chan[<<r, 0>>] = Queue(Kind(k), Taken(r, k), Sent(r, k), Rows(r, k, Qlen(k)[r]))
      /\ chan[<<0, r>>] = Queue(Kind(k), Read(r, k), Issued(k), Own(r, k))
  BY <1>5, <1>6 DEF LinkAt
<1>8. /\ waiting'[r] /\ step'[r] = step[r] /\ at'[r] = k
      /\ \A x \in Ranks : x # r => /\ at'[x] = at[x] /\ step'[x] = step[x]
                                   /\ waiting'[x] = waiting[x]
  <2>1. waiting \in [Ranks -> BOOLEAN]
    BY <1>1 DEF LenTypeInv
  <2>2. QED BY ONLY <1>1, <1>2, <2>1, r \in Ranks
<1>9. /\ \A j : Kind(j)' = Kind(j) /\ Qlen(j)' = Qlen(j)
      /\ \A x, j : Own(x, j)' = Own(x, j) /\ (Involved(x, j)' <=> Involved(x, j))
  BY <1>1, Unmoved
<1>10. /\ Sent(r, k) = step[r] /\ Sent(r, k)' = step[r] + 1
       /\ Read(r, k)' = Read(r, k)
  <2>1. GatherAt(Kind(k))' = GatherAt(Kind(k)) /\ ScatterAt(Kind(k))' = ScatterAt(Kind(k))
    BY ONLY <1>9 DEF GatherAt, ScatterAt
  <2>2. GatherAt(Kind(k)) \in Nat /\ ScatterAt(Kind(k)) \in Nat
    BY StepBounds
  <2>3. QED BY ONLY <1>1, <1>4, <1>8, <2>1, <2>2 DEF Sent, Read
<1>11. Taken(r, k)' = Taken(r, k) /\ Issued(k)' = Issued(k)
  <2>1. at'[0] = at[0] /\ step'[0] = step[0] /\ waiting'[0] = waiting[0]
    BY <1>1, <1>4, <1>8
  <2>2. QED BY <1>1, <2>1, Rank0Still
<1>12. /\ chan'[<<r, 0>>] = Append(chan[<<r, 0>>], [what |-> Steps(Kind(k))[step[r]],
                                                    rows |-> Rows(r, k, Qlen(k)[r])])
       /\ DOMAIN chan' = DOMAIN chan
       /\ chan'[<<0, r>>] = chan[<<0, r>>]
       /\ \A x \in Ranks \ {0} : x # r => /\ chan'[<<x, 0>>] = chan[<<x, 0>>]
                                          /\ chan'[<<0, x>>] = chan[<<0, x>>]
  <2>1. DOMAIN chan = Ranks \X Ranks
    BY <1>1 DEF NetInv, NetTypeInv
  <2>2. /\ <<r, 0>> \in DOMAIN chan /\ <<0, r>> # <<r, 0>>
        /\ \A x \in Ranks \ {0} : x # r => <<x, 0>> # <<r, 0>> /\ <<0, x>> # <<r, 0>>
        /\ \A x \in Ranks : <<x, 0>> \in DOMAIN chan /\ <<0, x>> \in DOMAIN chan
    BY <1>1, <1>4, <2>1
  <2>3. chan' = [chan EXCEPT ![<<r, 0>>] =
                    Append(@, [what |-> Steps(Kind(k))[step[r]], rows |-> Rows(r, k, Qlen(k)[r])])]
    BY ONLY <1>1, <1>2, <1>4
  <2>4. QED BY ONLY <2>2, <2>3, r \in Ranks
<1>13. LinkAt(r, k)'
  <2>1. chan'[<<r, 0>>] = Queue(Kind(k), Taken(r, k), step[r] + 1, Rows(r, k, Qlen(k)[r]))
    <3>1. Taken(r, k) \in Nat
      BY <1>1, CounterTypes
    <3>2. Taken(r, k) <= step[r]
      BY ONLY <1>7, <1>10
    <3>3. Append(Queue(Kind(k), Taken(r, k), step[r], Rows(r, k, Qlen(k)[r])),
                 [what |-> Steps(Kind(k))[step[r]], rows |-> Rows(r, k, Qlen(k)[r])])
            = Queue(Kind(k), Taken(r, k), step[r] + 1, Rows(r, k, Qlen(k)[r]))
      BY ONLY <1>4, <3>1, <3>2, QueueAppend, Zenon
    <3>4. QED BY ONLY <1>7, <1>10, <1>12, <3>3
  <2>2. Taken(r, k) <= step[r] + 1
    <3>1. Taken(r, k) \in Nat
      BY <1>1, CounterTypes
    <3>2. QED BY ONLY <1>4, <1>7, <1>10, <3>1
  <2>3. QED BY ONLY <1>5, <1>7, <1>9, <1>10, <1>11, <1>12, <2>1, <2>2 DEF LinkAt
<1>14. BehindAt(r, k)' /\ AheadAt(r, k)'
  <2>1. at'[0] = at[0] /\ step'[0] = step[0] /\ waiting'[0] = waiting[0]
    BY <1>1, <1>4, <1>8
  <2>2. QED BY <1>1, <1>6, <2>1, NearFrame
<1>15. \A j \in 1..(Len(prog) + 1) : at'[r] = j => RankAt(r, j)'
  BY ONLY <1>8, <1>13, <1>14 DEF RankAt
<1>16. ResInv'
  BY <1>1, <1>9 DEF NetInv, ResInv
<1>17. r \in Ranks \ {0} /\ UNCHANGED <<prog, qlen, eager, got, inp, cache>> /\ DOMAIN res' = DOMAIN res
  BY <1>1
<1>18. QED BY ONLY <1>1, <1>4, <1>8, <1>12, <1>15, <1>16, <1>17, RankMove, Zenon

\* A rank comes to its next call with nothing under way: rank 0 has neither
\* taken nor issued anything in that call, and is no further behind than the
\* last step of the call before.
LEMMA NextCall ==
  ASSUME DistInv, NEW r \in Ranks, r # 0, NEW k, k = at[r], Active(r),
         step[r] = EndAt(Kind(k)) - 1,
         UNCHANGED <<prog, qlen, got>>,
         at'[r] = k + 1, step'[r] = 1, ~waiting'[r],
         at'[0] = at[0], step'[0] = step[0], waiting'[0] = waiting[0],
         chan'[<<r, 0>>] = <<>>, chan'[<<0, r>>] = <<>>,
         Involved(r, k) => Issued(k) = EndAt(Kind(k))
  PROVE  RankAt(r, k + 1)'
<1>1. LenInv /\ LenTypeInv /\ NetInv
  BY DEF DistInv, LenInv
<1>2. /\ k \in Nat /\ k >= 1 /\ at[0] \in Nat /\ at[0] >= 1 /\ step[0] \in Nat /\ step[0] >= 1
      /\ Len(prog) \in Nat /\ k \in 1..Len(prog) /\ k + 1 \in Int
      /\ at[0] <= Len(prog) => step[0] < EndAt(Kind(at[0]))
      /\ 0 \in Ranks /\ step[r] \in Nat
  BY <1>1, PlaceFacts DEF Active
<1>3. LinkAt(r, k) /\ BehindAt(r, k) /\ AheadAt(r, k)
  <2>1. k \in 1..(Len(prog) + 1)
    BY <1>2
  <2>2. QED BY <1>1, <2>1 DEF NetInv, RankInv, RankAt
<1>4. /\ \A j : Kind(j)' = Kind(j)
      /\ \A x, j : Own(x, j)' = Own(x, j) /\ (Involved(x, j)' <=> Involved(x, j))
  BY Unmoved
<1>5. ASSUME Involved(r, k + 1)
      PROVE  /\ at[0] <= k + 1
             /\ at[0] = k + 1 => step[0] = 1 /\ (r \notin DOMAIN got \/ IsFwd(k + 1))
  <2>1. CASE Involved(r, k)
    BY ONLY <1>2, <1>3, <2>1 DEF AheadAt
  <2>2. CASE ~Involved(r, k)
    <3>1. k + 1 <= Len(prog) /\ at[r] < k + 1
      BY <1>2, <1>5 DEF Involved
    <3>2. ~(k + 1 < at[0] \/ (k + 1 = at[0] /\ ~AtQlens(0)))
      BY ONLY <1>1, <1>2, <1>5, <2>2, <3>1, SamePass, k = at[r], r \in Ranks, Zenon
    <3>3. at[0] = k + 1 => step[0] = 1 /\ IsFwd(k + 1)
      BY <3>2 DEF AtQlens
    <3>4. QED BY ONLY <1>2, <3>2, <3>3
  <2>3. QED BY <2>1, <2>2
<1>6. LinkAt(r, k + 1)'
  <2>1. CASE Involved(r, k + 1)
    <3> DEFINE kd == Kind(k + 1)
    <3>1. /\ at[0] <= k + 1
          /\ at[0] = k + 1 => step[0] = 1 /\ (r \notin DOMAIN got \/ IsFwd(k + 1))
      BY <1>5, <2>1
    <3>2. /\ IsFwd(k + 1) => GatherAt(kd) = 2 /\ ScatterAt(kd) = 5
          /\ ~IsFwd(k + 1) => GatherAt(kd) = 1 /\ ScatterAt(kd) = 2
      BY StepBounds DEF IsFwd
    <3>3. Kind(k + 1)' = kd
      BY <1>4
    <3>4. GatherAt(Kind(k + 1))' = GatherAt(kd) /\ ScatterAt(Kind(k + 1))' = ScatterAt(kd)
      BY ONLY <3>3 DEF GatherAt, ScatterAt
    <3> HIDE DEF kd
    <3>5. /\ Taken(r, k + 1)' = GatherAt(kd) /\ Sent(r, k + 1)' = GatherAt(kd)
          /\ Read(r, k + 1)' = ScatterAt(kd) /\ Issued(k + 1)' = ScatterAt(kd)
      BY ONLY <1>2, <3>1, <3>2, <3>4, step'[r] = 1, ~waiting'[r], got' = got,
              at'[0] = at[0], step'[0] = step[0], waiting'[0] = waiting[0]
         DEF Taken, Sent, Read, Issued
    <3>6. GatherAt(kd) \in Nat /\ ScatterAt(kd) \in Nat
      BY ONLY <3>2
    <3>7. \A rows : /\ Queue(kd, GatherAt(kd), GatherAt(kd), rows) = <<>>
                    /\ Queue(kd, ScatterAt(kd), ScatterAt(kd), rows) = <<>>
      BY ONLY <3>6, QueueEmpty, Zenon
    <3>8. GatherAt(kd) <= GatherAt(kd) /\ ScatterAt(kd) <= ScatterAt(kd)
      BY ONLY <3>6
    <3>9. Involved(r, k + 1)'
      BY <1>4, <2>1
    <3>10. QED BY ONLY <3>3, <3>5, <3>7, <3>8, <3>9, chan'[<<r, 0>>] = <<>>, chan'[<<0, r>>] = <<>>
               DEF LinkAt
  <2>2. CASE ~Involved(r, k + 1)
    BY <1>4, <2>2 DEF LinkAt
  <2>3. QED BY <2>1, <2>2
<1>7. BehindAt(r, k + 1)'
  <2> SUFFICES ASSUME at[0] < k + 1, Involved(r, at[0])
               PROVE  k + 1 = at[0] + 1 /\ step[0] = EndAt(Kind(at[0])) - 1 /\ waiting[0]
    <3>1. EndAt(Kind(at[0]))' = EndAt(Kind(at[0]))
      BY <1>4 DEF EndAt
    <3>2. QED BY <1>4, <3>1 DEF BehindAt
  <2>1. ScatterAt(Kind(k)) < EndAt(Kind(k)) /\ ScatterAt(Kind(k)) \in Nat /\ EndAt(Kind(k)) \in Nat
        /\ (IsFwd(k) => EndAt(Kind(k)) = 6)
    BY StepBounds DEF IsFwd
  <2>2. CASE at[0] = k
    <3>1. Issued(k) = EndAt(Kind(k)) /\ step[0] < EndAt(Kind(k))
      BY <1>2, <2>2
    <3>2. QED BY ONLY <1>2, <2>1, <2>2, <3>1 DEF Issued
  <2>3. CASE at[0] < k
    <3>1. ~AtQlens(r)
      BY <2>1 DEF AtQlens
    <3>2. Involved(r, at[0]) <=> Involved(r, k)
      <4>1. k \in Int /\ k <= Len(prog) /\ at[0] < k /\ k = at[r]
        BY <1>2, <2>3
      <4>2. QED BY ONLY <1>1, <1>2, <3>1, <4>1, SamePass, r \in Ranks, Zenon
    <3>3. Issued(k) = EndAt(Kind(k))
      BY <3>2
    <3>4. Issued(k) = ScatterAt(Kind(k))
      BY ONLY <2>3 DEF Issued
    <3>5. QED BY ONLY <2>1, <3>3, <3>4
  <2>4. QED BY ONLY <1>2, <2>2, <2>3, at[0] < k + 1
<1>8. AheadAt(r, k + 1)'
  <2> SUFFICES ASSUME k + 1 < at[0], Involved(r, k + 1) PROVE FALSE
    BY <1>4 DEF AheadAt
  <2>1. QED BY ONLY <1>2, <1>5, k + 1 < at[0], Involved(r, k + 1)
<1>9. QED BY ONLY <1>6, <1>7, <1>8 DEF RankAt

LEMMA SkipTransferNet ==
  ASSUME DistInv, NEW r \in Ranks, SkipTransfer(r) PROVE NetInv'
<1>1. /\ LenInv /\ LenTypeInv /\ NetInv /\ Active(r) /\ What(r) \in Gathers \cup Scatters /\ r # 0
      /\ ~waiting[r] /\ Advance(r) /\ ~(Lens(r)[r] > 0)
      /\ What(r) \in Gathers \/ What(r) \in Scatters
      /\ res' = IF What(r) \in Scatters
                  THEN [res EXCEPT ![r] = [at |-> at[r], what |-> What(r), rows |-> <<>>]]
                  ELSE res
      /\ UNCHANGED <<prog, qlen, eager, chan, got, inp, cache>>
  BY DEF DistInv, LenInv, SkipTransfer, Stay, Sends, Receives, netVars
<1>2. PICK k : k = at[r]
  OBVIOUS
<1>3. /\ k \in 1..Len(prog) /\ Qlen(k)[r] \in Nat /\ Lens(r) = Qlen(k)
      /\ What(r) = Steps(Kind(k))[step[r]]
      /\ step[r] \in Nat /\ step[r] >= 1 /\ step[r] < EndAt(Kind(k)) /\ 0 \in Ranks
  BY <1>1, <1>2, CallFacts
<1>4. Qlen(k)[r] = 0 /\ ~Involved(r, k)
  BY <1>1, <1>3 DEF Involved
<1>5. LinkAt(r, k) /\ BehindAt(r, k) /\ AheadAt(r, k)
  <2>1. k \in 1..(Len(prog) + 1)
    BY <1>1, <1>3, ProgFacts
  <2>2. QED BY <1>1, <1>2, <2>1 DEF NetInv, RankInv, RankAt
<1>6. chan'[<<r, 0>>] = <<>> /\ chan'[<<0, r>>] = <<>>
  BY <1>1, <1>4, <1>5 DEF LinkAt
<1>7. /\ at'[0] = at[0] /\ step'[0] = step[0] /\ waiting'[0] = waiting[0]
      /\ \A x \in Ranks : x # r => /\ at'[x] = at[x] /\ step'[x] = step[x]
                                   /\ waiting'[x] = waiting[x]
      /\ step[r] # EndAt(Kind(k)) - 1 => at'[r] = k
      /\ step[r] = EndAt(Kind(k)) - 1 => at'[r] = k + 1 /\ step'[r] = 1 /\ ~waiting'[r]
  <2>1. CASE step[r] = EndAt(Kind(k)) - 1
    BY <1>1, <1>2, <1>3, <2>1, AdvanceOn
  <2>2. CASE step[r] # EndAt(Kind(k)) - 1
    BY <1>1, <1>2, <1>3, <2>2, AdvanceIn
  <2>3. QED BY <2>1, <2>2
<1>8. /\ \A j : Kind(j)' = Kind(j) /\ Qlen(j)' = Qlen(j)
      /\ \A x, j : Own(x, j)' = Own(x, j) /\ (Involved(x, j)' <=> Involved(x, j))
  BY <1>1, Unmoved
<1>9. \A j \in 1..(Len(prog) + 1) : at'[r] = j => RankAt(r, j)'
  <2>1. CASE step[r] # EndAt(Kind(k)) - 1
    <3>1. LinkAt(r, k)'
      BY <1>4, <1>6, <1>8 DEF LinkAt
    <3>2. BehindAt(r, k)' /\ AheadAt(r, k)'
      BY <1>1, <1>5, <1>7, NearFrame
    <3>3. QED BY <1>7, <2>1, <3>1, <3>2 DEF RankAt
  <2>2. CASE step[r] = EndAt(Kind(k)) - 1
    <3>1. RankAt(r, k + 1)'
      BY <1>1, <1>2, <1>4, <1>6, <1>7, <2>2, NextCall
    <3>2. at'[r] = k + 1
      BY <1>7, <2>2
    <3>3. QED BY ONLY <3>1, <3>2
  <2>3. QED BY <2>1, <2>2
<1>10. DOMAIN res' = DOMAIN res
  BY <1>1
<1>11. ResInv'
  <2> SUFFICES ASSUME NEW x \in Ranks, res'[x].what # "none"
               PROVE  res'[x].at \in 1..Len(prog) /\ res'[x].rows = Own(x, res'[x].at)
    BY <1>1, <1>8 DEF ResInv
  <2>1. CASE x = r /\ What(r) \in Scatters
    <3>1. res'[x] = [at |-> k, what |-> What(r), rows |-> <<>>]
      BY <1>1, <1>2, <2>1 DEF NetInv, NetTypeInv
    <3>2. Own(r, k) = <<>>
      BY <1>4 DEF Own, OwnOf, Qlen
    <3>3. QED BY <1>3, <2>1, <3>1, <3>2
  <2>2. CASE ~(x = r /\ What(r) \in Scatters)
    <3>1. res'[x] = res[x]
      BY <1>1, <2>2
    <3>2. QED BY <1>1, <3>1 DEF NetInv, ResInv
  <2>3. QED BY <2>1, <2>2
<1>12. r \in Ranks \ {0} /\ UNCHANGED <<prog, qlen, eager, got, inp, cache>> /\ DOMAIN chan' = DOMAIN chan
       /\ \A x \in Ranks \ {0} : x # r => /\ chan'[<<x, 0>>] = chan[<<x, 0>>]
                                          /\ chan'[<<0, x>>] = chan[<<0, x>>]
  BY <1>1
<1>13. QED BY ONLY <1>1, <1>3, <1>7, <1>9, <1>10, <1>11, <1>12, RankMove, Zenon

LEMMA RecvChunkNet ==
  ASSUME DistInv, NEW r \in Ranks, RecvChunk(r) PROVE NetInv'
<1>1. /\ LenInv /\ LenTypeInv /\ NetInv /\ Active(r) /\ What(r) \in Scatters /\ r # 0
      /\ What(r) \in Gathers \cup Scatters
      /\ Advance(r) /\ Lens(r)[r] > 0 /\ chan[<<0, r>>] # <<>>
      /\ res' = [res EXCEPT ![r] = [at |-> at[r], what |-> What(r),
                                    rows |-> Head(chan[<<0, r>>]).rows]]
      /\ chan' = [chan EXCEPT ![<<0, r>>] = Tail(@)]
      /\ UNCHANGED <<prog, qlen, eager, got, inp, cache>>
  BY DEF DistInv, LenInv, RecvChunk, Stay, Receives
<1>2. PICK k : k = at[r]
  OBVIOUS
<1>3. /\ k \in 1..Len(prog) /\ Qlen(k)[r] \in Nat /\ Lens(r) = Qlen(k)
      /\ What(r) = Steps(Kind(k))[step[r]] /\ step[r] >= ScatterAt(Kind(k))
      /\ step[r] \in Nat /\ step[r] >= 1 /\ step[r] < EndAt(Kind(k)) /\ 0 \in Ranks
  BY <1>1, <1>2, CallFacts
<1>4. Involved(r, k)
  BY <1>1, <1>3 DEF Involved
<1>5. LinkAt(r, k) /\ BehindAt(r, k) /\ AheadAt(r, k)
  <2>1. k \in 1..(Len(prog) + 1)
    BY <1>1, <1>3, ProgFacts
  <2>2. QED BY <1>1, <1>2, <2>1 DEF NetInv, RankInv, RankAt
<1>6. /\ Taken(r, k) <= Sent(r, k) /\ Read(r, k) <= Issued(k)
      /\ chan[<<r, 0>>] = Queue(Kind(k), Taken(r, k), Sent(r, k), Rows(r, k, Qlen(k)[r]))
      /\ chan[<<0, r>>] = Queue(Kind(k), Read(r, k), Issued(k), Own(r, k))
  BY <1>4, <1>5 DEF LinkAt
<1>7. /\ GatherAt(Kind(k)) \in Nat /\ ScatterAt(Kind(k)) \in Nat /\ EndAt(Kind(k)) \in Nat
      /\ GatherAt(Kind(k)) < ScatterAt(Kind(k))
  BY StepBounds
<1>8. /\ Taken(r, k) \in Nat /\ Issued(k) \in Nat
      /\ Sent(r, k) = ScatterAt(Kind(k)) /\ Read(r, k) = step[r] /\ Issued(k) <= EndAt(Kind(k))
  <2>1. Taken(r, k) \in Nat /\ Issued(k) \in Nat
    BY <1>1, CounterTypes
  <2>2. Sent(r, k) = ScatterAt(Kind(k)) /\ Read(r, k) = step[r]
    BY ONLY <1>3, <1>7 DEF Sent, Read
  <2>3. /\ at[0] = k => step[0] < EndAt(Kind(k))
        /\ step[0] \in Nat /\ at[0] \in Nat /\ k \in Nat
    BY <1>1, <1>3, PlaceFacts
  <2>4. ScatterAt(Kind(k)) < EndAt(Kind(k))
    BY StepBounds
  <2>5. Issued(k) <= EndAt(Kind(k))
    BY ONLY <1>7, <2>3, <2>4 DEF Issued
  <2>6. QED BY <2>1, <2>2, <2>5
<1>9. /\ step[r] < Issued(k) /\ Head(chan[<<0, r>>]).rows = Own(r, k)
      /\ Tail(chan[<<0, r>>]) = Queue(Kind(k), step[r] + 1, Issued(k), Own(r, k))
  <2>1. chan[<<0, r>>] = Queue(Kind(k), step[r], Issued(k), Own(r, k))
    BY ONLY <1>6, <1>8
  <2>2. Queue(Kind(k), step[r], Issued(k), Own(r, k)) # <<>>
    BY ONLY <1>1, <2>1
  <2>3. step[r] \in Nat /\ Issued(k) \in Nat
    BY ONLY <1>3, <1>8
  <2>4. /\ step[r] < Issued(k)
        /\ Head(Queue(Kind(k), step[r], Issued(k), Own(r, k))).rows = Own(r, k)
        /\ Tail(Queue(Kind(k), step[r], Issued(k), Own(r, k)))
             = Queue(Kind(k), step[r] + 1, Issued(k), Own(r, k))
    BY ONLY <2>2, <2>3, QueueHead
  <2>5. QED BY ONLY <2>1, <2>4
<1>10. /\ at'[0] = at[0] /\ step'[0] = step[0] /\ waiting'[0] = waiting[0]
       /\ \A x \in Ranks : x # r => /\ at'[x] = at[x] /\ step'[x] = step[x]
                                    /\ waiting'[x] = waiting[x]
       /\ step[r] # EndAt(Kind(k)) - 1 => at'[r] = k /\ step'[r] = step[r] + 1
       /\ step[r] = EndAt(Kind(k)) - 1 => at'[r] = k + 1 /\ step'[r] = 1 /\ ~waiting'[r]
  <2>1. CASE step[r] = EndAt(Kind(k)) - 1
    BY <1>1, <1>2, <1>3, <2>1, AdvanceOn
  <2>2. CASE step[r] # EndAt(Kind(k)) - 1
    BY <1>1, <1>2, <1>3, <2>2, AdvanceIn
  <2>3. QED BY <2>1, <2>2
<1>11. /\ \A j : Kind(j)' = Kind(j) /\ Qlen(j)' = Qlen(j)
       /\ \A x, j : Own(x, j)' = Own(x, j) /\ (Involved(x, j)' <=> Involved(x, j))
  BY <1>1, Unmoved
<1>12. /\ chan'[<<0, r>>] = Queue(Kind(k), step[r] + 1, Issued(k), Own(r, k))
       /\ DOMAIN chan' = DOMAIN chan
       /\ chan'[<<r, 0>>] = chan[<<r, 0>>]
       /\ \A x \in Ranks \ {0} : x # r => /\ chan'[<<x, 0>>] = chan[<<x, 0>>]
                                          /\ chan'[<<0, x>>] = chan[<<0, x>>]
  <2>1. DOMAIN chan = Ranks \X Ranks
    BY <1>1 DEF NetInv, NetTypeInv
  <2>2. /\ <<0, r>> \in DOMAIN chan /\ <<0, r>> # <<r, 0>>
        /\ \A x \in Ranks \ {0} : x # r => <<x, 0>> # <<0, r>> /\ <<0, x>> # <<0, r>>
        /\ \A x \in Ranks : <<x, 0>> \in DOMAIN chan /\ <<0, x>> \in DOMAIN chan
    BY <1>1, <1>3, <2>1
  <2>3. chan' = [chan EXCEPT ![<<0, r>>] = Tail(@)]
    BY ONLY <1>1
  <2>4. QED BY ONLY <1>9, <2>2, <2>3, r \in Ranks
<1>13. \A j \in 1..(Len(prog) + 1) : at'[r] = j => RankAt(r, j)'
  <2>1. CASE step[r] # EndAt(Kind(k)) - 1
    <3>1. GatherAt(Kind(k))' = GatherAt(Kind(k)) /\ ScatterAt(Kind(k))' = ScatterAt(Kind(k))
      BY ONLY <1>11 DEF GatherAt, ScatterAt
    <3>2. step'[r] = step[r] + 1
      BY <1>10, <2>1
    <3>3. Sent(r, k)' = Sent(r, k) /\ Read(r, k)' = step[r] + 1
      BY ONLY <1>3, <1>7, <1>8, <3>1, <3>2 DEF Sent, Read
    <3>4. Taken(r, k)' = Taken(r, k) /\ Issued(k)' = Issued(k)
      BY <1>1, <1>10, Rank0Still
    <3>5. step[r] + 1 <= Issued(k)
      BY ONLY <1>3, <1>8, <1>9
    <3>6. LinkAt(r, k)'
      BY ONLY <1>4, <1>6, <1>11, <1>12, <3>3, <3>4, <3>5 DEF LinkAt
    <3>7. BehindAt(r, k)' /\ AheadAt(r, k)'
      BY <1>1, <1>5, <1>10, NearFrame
    <3>8. at'[r] = k
      BY <1>10, <2>1
    <3>9. QED BY ONLY <3>6, <3>7, <3>8 DEF RankAt
  <2>2. CASE step[r] = EndAt(Kind(k)) - 1
    <3>1. Issued(k) = EndAt(Kind(k)) /\ step[r] + 1 = EndAt(Kind(k))
      BY ONLY <1>3, <1>7, <1>8, <1>9, <2>2
    <3>2. chan'[<<0, r>>] = <<>>
      BY ONLY <1>7, <1>12, <3>1, QueueEmpty
    (* The last tensor is read only after rank 0 has taken everything. *)
    <3>3. Taken(r, k) = ScatterAt(Kind(k))
      <4>1. ScatterAt(Kind(k)) < EndAt(Kind(k))
        BY StepBounds
      <4>2. at[0] \in Nat /\ step[0] \in Nat /\ k \in Nat
        BY <1>1, <1>3, PlaceFacts
      <4>3. at[0] > k \/ (at[0] = k /\ step[0] >= ScatterAt(Kind(k)))
        BY ONLY <1>7, <3>1, <4>1, <4>2 DEF Issued
      <4>4. QED BY ONLY <1>7, <4>2, <4>3 DEF Taken
    <3>4. chan'[<<r, 0>>] = <<>>
      BY ONLY <1>6, <1>7, <1>8, <1>12, <3>3, QueueEmpty
    <3>5. UNCHANGED <<prog, qlen, got>>
      BY <1>1
    <3>6. RankAt(r, k + 1)'
      BY <1>1, <1>2, <1>10, <2>2, <3>1, <3>2, <3>4, <3>5, NextCall
    <3>7. at'[r] = k + 1
      BY <1>10, <2>2
    <3>8. QED BY ONLY <3>6, <3>7
  <2>3. QED BY <2>1, <2>2
<1>14. DOMAIN res' = DOMAIN res
  BY <1>1
<1>15. ResInv'
  <2> SUFFICES ASSUME NEW x \in Ranks, res'[x].what # "none"
               PROVE  res'[x].at \in 1..Len(prog) /\ res'[x].rows = Own(x, res'[x].at)
    BY <1>1, <1>11 DEF ResInv
  <2>1. CASE x = r
    <3>1. res'[x] = [at |-> k, what |-> What(r), rows |-> Own(r, k)]
      BY <1>1, <1>2, <1>9, <2>1 DEF NetInv, NetTypeInv
    <3>2. QED BY <1>3, <2>1, <3>1
  <2>2. CASE x # r
    <3>1. res'[x] = res[x]
      BY <1>1, <2>2
    <3>2. QED BY <1>1, <3>1 DEF NetInv, ResInv
  <2>3. QED BY <2>1, <2>2
<1>16. r \in Ranks \ {0} /\ UNCHANGED <<prog, qlen, eager, got, inp, cache>>
  BY <1>1
<1>17. QED BY ONLY <1>1, <1>3, <1>10, <1>12, <1>13, <1>14, <1>15, <1>16, RankMove, Zenon

LEMMA Rank0Move ==
  ASSUME NetInv, UNCHANGED <<prog, qlen>>,
         \A r \in Ranks \ {0} : at'[r] = at[r],
         \A r \in Ranks \ {0}, k \in 1..(Len(prog) + 1) :
           at[r] = k /\ LinkAt(r, k) /\ BehindAt(r, k) /\ AheadAt(r, k)
             => LinkAt(r, k)' /\ BehindAt(r, k)' /\ AheadAt(r, k)'
  PROVE  RankInv'
<1>1. ASSUME NEW r \in Ranks \ {0}, NEW k \in 1..(Len(prog) + 1), at'[r] = k PROVE RankAt(r, k)'
  <2>1. at[r] = k
    BY <1>1
  <2>2. LinkAt(r, k) /\ BehindAt(r, k) /\ AheadAt(r, k)
    BY <2>1 DEF NetInv, RankInv, RankAt
  <2>3. LinkAt(r, k)' /\ BehindAt(r, k)' /\ AheadAt(r, k)'
    BY <2>1, <2>2
  <2>4. QED BY ONLY <2>3 DEF RankAt
<1>2. prog' = prog
  OBVIOUS
<1>3. QED BY ONLY <1>1, <1>2 DEF RankInv

\* The counters of the other calls, while rank 0 stays in its own.
LEMMA Elsewhere ==
  ASSUME UNCHANGED <<prog, qlen>>, at'[0] = at[0], at[0] \in Nat, NEW k, k \in Nat, k # at[0]
  PROVE  /\ \A x : Taken(x, k)' = Taken(x, k)
         /\ Issued(k)' = Issued(k) /\ (Ran(k)' <=> Ran(k))
<1>1. Kind(k)' = Kind(k)
  BY Unmoved
<1>2. /\ GatherAt(Kind(k))' = GatherAt(Kind(k)) /\ ScatterAt(Kind(k))' = ScatterAt(Kind(k))
      /\ EndAt(Kind(k))' = EndAt(Kind(k))
  BY ONLY <1>1 DEF GatherAt, ScatterAt, EndAt
<1>3. at[0] < k \/ (at[0] > k /\ ~(at[0] < k))
  OBVIOUS
<1>4. QED BY ONLY <1>2, <1>3, at'[0] = at[0], k # at[0] DEF Taken, Issued, Ran

LEMMA PostQlen0 == ASSUME DistInv, 0 \in Ranks, PostQlen(0) PROVE NetInv'
<1>1. /\ LenTypeInv /\ NetInv /\ Active(0) /\ What(0) = "qlens" /\ ~waiting[0]
      /\ waiting' = [waiting EXCEPT ![0] = TRUE]
      /\ UNCHANGED <<prog, qlen, eager, chan, got, inp, cache, res, at, step>>
  BY DEF DistInv, LenInv, PostQlen, Stay, netVars
<1>2. IsFwd(at[0]) /\ step[0] = 1
  BY <1>1, WhatFacts DEF AtQlens
<1>3. \A x \in Ranks \ {0} : waiting'[x] = waiting[x]
  BY <1>1
<1>4. /\ \A j : Kind(j)' = Kind(j) /\ IsFwd(j)' = IsFwd(j) /\ Qlen(j)' = Qlen(j)
                /\ AllRows(j)' = AllRows(j)
      /\ \A x, j : Own(x, j)' = Own(x, j) /\ (Involved(x, j)' <=> Involved(x, j))
  BY <1>1, Unmoved
<1>5. \A j : /\ GatherAt(Kind(j))' = GatherAt(Kind(j)) /\ ScatterAt(Kind(j))' = ScatterAt(Kind(j))
             /\ EndAt(Kind(j))' = EndAt(Kind(j)) /\ 1 < ScatterAt(Kind(j))
  BY ONLY <1>4 DEF GatherAt, ScatterAt, EndAt
<1>6. \A x, k : Taken(x, k)' = Taken(x, k)
  BY ONLY <1>1, <1>5 DEF Taken
<1>7. ASSUME NEW k \in Nat PROVE Issued(k)' = Issued(k) /\ (Ran(k)' <=> Ran(k))
  <2>1. at[0] \in Nat
    BY <1>1, PlaceFacts
  <2>2. CASE k # at[0]
    BY <1>1, <2>1, <2>2, Elsewhere
  <2>3. CASE k = at[0]
    <3>1. ScatterAt(Kind(k))' = ScatterAt(Kind(k)) /\ 1 < ScatterAt(Kind(k)) /\ ScatterAt(Kind(k)) \in Nat
      BY <1>5, StepBounds
    <3>2. at[0] = k /\ at'[0] = k /\ step[0] = 1 /\ step'[0] = 1
      BY <1>1, <1>2, <2>3
    <3>3. QED BY ONLY <2>1, <3>1, <3>2 DEF Issued, Ran, Scattering
  <2>4. QED BY <2>2, <2>3
<1>8. ASSUME NEW r \in Ranks \ {0}, NEW k \in 1..(Len(prog) + 1),
             at[r] = k, LinkAt(r, k), BehindAt(r, k), AheadAt(r, k)
      PROVE  LinkAt(r, k)' /\ BehindAt(r, k)' /\ AheadAt(r, k)'
  <2>1. Sent(r, k)' = Sent(r, k) /\ Read(r, k)' = Read(r, k)
    BY <1>1, <1>3, RankStill
  <2>2. LinkAt(r, k)'
    <3>1. k \in Nat
      OBVIOUS
    <3>2. QED BY <1>1, <1>6, <1>7, <1>8, <2>1, <3>1, LinkFrame
  <2>3. BehindAt(r, k)' /\ AheadAt(r, k)'
    BY ONLY <1>1, <1>4, <1>8 DEF BehindAt, AheadAt
  <2>4. QED BY <2>2, <2>3
<1>9. RankInv'
  BY <1>1, <1>8, Rank0Move
<1>10. NetTypeInv'
  BY <1>1 DEF NetInv, NetTypeInv
<1>11. GotInv' /\ InpInv'
  BY <1>1, <1>4, <1>5 DEF NetInv, GotInv, InpInv, Active, Gathering
<1>12. CacheInv'
  <2>1. \A k \in 1..Len(prog) : k \in Nat /\ \A m \in (k + 1)..Len(prog) : m \in Nat
    OBVIOUS
  <2>2. QED BY <1>1, <1>4, <1>7, <2>1 DEF NetInv, CacheInv
<1>13. ResInv'
  BY <1>1, <1>4 DEF NetInv, ResInv
<1>14. QED BY <1>9, <1>10, <1>11, <1>12, <1>13 DEF NetInv

LEMMA AwaitQlens0 == ASSUME DistInv, 0 \in Ranks, AwaitQlens(0) PROVE NetInv'
<1>1. /\ LenInv /\ LenTypeInv /\ NetInv /\ Active(0) /\ What(0) = "qlens" /\ waiting[0] /\ Advance(0)
      /\ \A x \in Ranks : Len(posted[x]) >= Len(posted[0])
      /\ UNCHANGED <<prog, qlen, eager, chan, got, inp, cache, res>>
  BY DEF DistInv, LenInv, AwaitQlens, Stay, netVars
<1>2. IsFwd(at[0]) /\ step[0] = 1 /\ AtQlens(0)
  BY <1>1, WhatFacts DEF AtQlens
<1>3. /\ at' = at /\ step'[0] = 2 /\ ~waiting'[0]
      /\ \A x \in Ranks : x # 0 => step'[x] = step[x] /\ waiting'[x] = waiting[x]
  <2>1. step[0] # EndAt(Kind(at[0])) - 1
    BY <1>2 DEF IsFwd, EndAt
  <2>2. /\ at' = at /\ step'[0] = step[0] + 1 /\ ~waiting'[0]
        /\ \A x \in Ranks : x # 0 => step'[x] = step[x] /\ waiting'[x] = waiting[x]
    BY <1>1, <2>1, AdvanceIn
  <2>3. QED BY <1>2, <2>2
<1>4. /\ \A j : Kind(j)' = Kind(j) /\ IsFwd(j)' = IsFwd(j) /\ Qlen(j)' = Qlen(j)
                /\ AllRows(j)' = AllRows(j)
      /\ \A x, j : Own(x, j)' = Own(x, j) /\ (Involved(x, j)' <=> Involved(x, j))
  BY <1>1, Unmoved
<1>5. /\ \A j : /\ GatherAt(Kind(j))' = GatherAt(Kind(j)) /\ ScatterAt(Kind(j))' = ScatterAt(Kind(j))
                /\ EndAt(Kind(j))' = EndAt(Kind(j)) /\ 1 < ScatterAt(Kind(j))
      /\ GatherAt(Kind(at[0])) = 2 /\ ScatterAt(Kind(at[0])) = 5 /\ EndAt(Kind(at[0])) = 6
  BY ONLY <1>2, <1>4 DEF GatherAt, ScatterAt, EndAt, IsFwd
(* Nothing has been taken, and everyone has come to the call. *)
<1>6. DOMAIN got = {}
  <2>1. ~Gathering(step[0], at[0])
    BY ONLY <1>2, <1>5 DEF Gathering
  <2>2. QED BY <1>1, <2>1 DEF NetInv, GotInv
<1>7. ASSUME NEW r \in Ranks PROVE ~(at[r] < at[0])
  <2>1. at[0] \in PostedFor(r)
    BY <1>1, <1>2, Gathered
  <2>2. at[r] \in Nat /\ at[0] \in Nat
    BY <1>1, PlaceFacts
  <2>3. QED BY ONLY <2>1, <2>2 DEF PostedFor
<1>8. ASSUME NEW k \in Nat
      PROVE  /\ \A x : Taken(x, k)' = Taken(x, k)
             /\ Issued(k)' = Issued(k) /\ (Ran(k)' <=> Ran(k))
  <2>1. at[0] \in Nat
    BY <1>1, PlaceFacts
  <2>2. CASE k # at[0]
    BY <1>1, <1>3, <2>1, <2>2, Elsewhere
  <2>3. CASE k = at[0]
    <3>1. /\ GatherAt(Kind(k))' = 2 /\ ScatterAt(Kind(k))' = 5
          /\ GatherAt(Kind(k)) = 2 /\ ScatterAt(Kind(k)) = 5
      BY <1>5, <2>3
    <3>2. at[0] = k /\ at'[0] = k /\ step[0] = 1 /\ step'[0] = 2 /\ got' = got
      BY <1>1, <1>2, <1>3, <2>3
    <3>3. QED BY ONLY <1>6, <2>1, <3>1, <3>2 DEF Taken, Issued, Ran, Scattering
  <2>4. QED BY <2>2, <2>3
<1>9. ASSUME NEW r \in Ranks \ {0}, NEW k \in 1..(Len(prog) + 1),
              at[r] = k, LinkAt(r, k), BehindAt(r, k), AheadAt(r, k)
       PROVE  LinkAt(r, k)' /\ BehindAt(r, k)' /\ AheadAt(r, k)'
  <2>1. Sent(r, k)' = Sent(r, k) /\ Read(r, k)' = Read(r, k)
    BY <1>1, <1>3, RankStill
  <2>2. LinkAt(r, k)'
    <3>1. k \in Nat
      OBVIOUS
    <3>2. QED BY <1>1, <1>8, <1>9, <2>1, <3>1, LinkFrame
  <2>3. BehindAt(r, k)'
    BY ONLY <1>1, <1>2, <1>3, <1>4, <1>5, <1>9 DEF BehindAt
  <2>4. AheadAt(r, k)'
    BY ONLY <1>3, <1>7, <1>9 DEF AheadAt
  <2>5. QED BY <2>2, <2>3, <2>4
<1>10. RankInv'
  BY <1>1, <1>3, <1>9, Rank0Move
<1>11. NetTypeInv'
  BY <1>1 DEF NetInv, NetTypeInv
<1>12. GotInv'
  BY <1>1, <1>6 DEF GotInv
<1>13. InpInv'
  BY ONLY <1>3, <1>5 DEF InpInv, Gathering
<1>14. CacheInv'
  <2>1. \A k \in 1..Len(prog) : k \in Nat /\ \A m \in (k + 1)..Len(prog) : m \in Nat
    OBVIOUS
  <2>2. QED BY <1>1, <1>4, <1>8, <2>1 DEF NetInv, CacheInv
<1>15. ResInv'
  BY <1>1, <1>4 DEF NetInv, ResInv
<1>16. QED BY <1>10, <1>11, <1>12, <1>13, <1>14, <1>15 DEF NetInv

LEMMA CacheKept ==
  ASSUME LenTypeInv, CacheInv, UNCHANGED <<prog, qlen, cache>>,
         \A k \in Nat : Ran(k)' <=> Ran(k)
  PROVE  CacheInv'
<1>1. \A j : IsFwd(j)' = IsFwd(j) /\ AllRows(j)' = AllRows(j)
  BY Unmoved
<1>2. \A k \in 1..Len(prog) : k \in Nat /\ \A m \in (k + 1)..Len(prog) : m \in Nat
  OBVIOUS
<1>3. QED BY <1>1, <1>2 DEF CacheInv

LEMMA ChunksWaitedNet == ASSUME DistInv, 0 \in Ranks, ChunksWaited PROVE NetInv'
<1>1. /\ LenInv /\ LenTypeInv /\ NetInv /\ Active(0) /\ What(0) \in Scatters /\ waiting[0] /\ Advance(0)
      /\ What(0) \in Gathers \cup Scatters
      /\ UNCHANGED <<prog, qlen, eager, chan, got, inp, cache, res>>
  BY DEF DistInv, LenInv, ChunksWaited, Stay, netVars
<1>2. PICK c : c = at[0]
  OBVIOUS
<1> DEFINE s == step[0]
           G == GatherAt(Kind(c))
           S == ScatterAt(Kind(c))
           E == EndAt(Kind(c))
<1>3. /\ c \in 1..Len(prog) /\ s \in Nat /\ s >= S /\ s < E
      /\ Len(prog) \in Nat /\ c \in Nat /\ c >= 1
  BY <1>1, <1>2, CallFacts, PlaceFacts
<1>4. G \in Nat /\ S \in Nat /\ E \in Nat /\ S > 1 /\ G < S
  BY StepBounds
<1>5. /\ \A j : Kind(j)' = Kind(j) /\ IsFwd(j)' = IsFwd(j) /\ Qlen(j)' = Qlen(j)
                /\ AllRows(j)' = AllRows(j)
      /\ \A x, j : Own(x, j)' = Own(x, j) /\ (Involved(x, j)' <=> Involved(x, j))
  BY <1>1, Unmoved
<1>6. \A j : /\ GatherAt(Kind(j))' = GatherAt(Kind(j)) /\ ScatterAt(Kind(j))' = ScatterAt(Kind(j))
             /\ EndAt(Kind(j))' = EndAt(Kind(j))
  BY ONLY <1>5 DEF GatherAt, ScatterAt, EndAt
<1>7. DOMAIN got = {}
  <2>1. ~Gathering(step[0], at[0])
    BY ONLY <1>2, <1>3, <1>4 DEF Gathering
  <2>2. QED BY <1>1, <2>1 DEF NetInv, GotInv
<1>8. /\ s # E - 1 => at'[0] = c /\ step'[0] = s + 1
      /\ s = E - 1 => at'[0] = c + 1 /\ step'[0] = 1
      /\ ~waiting'[0]
      /\ \A x \in Ranks \ {0} : at'[x] = at[x] /\ step'[x] = step[x] /\ waiting'[x] = waiting[x]
  <2>1. CASE s = E - 1
    BY <1>1, <1>2, <2>1, AdvanceOn
  <2>2. CASE s # E - 1
    BY <1>1, <1>2, <2>2, AdvanceIn
  <2>3. QED BY <2>1, <2>2
(* What rank 0 has taken, sent and run stays the same. *)
<1>9. ASSUME NEW k \in Nat
      PROVE  /\ \A x : Taken(x, k)' = Taken(x, k)
             /\ Issued(k)' = Issued(k) /\ (Ran(k)' <=> Ran(k))
  <2>1. CASE k = c
    <3>1. /\ GatherAt(Kind(k)) = G /\ GatherAt(Kind(k))' = G
          /\ ScatterAt(Kind(k)) = S /\ ScatterAt(Kind(k))' = S
          /\ EndAt(Kind(k)) = E /\ EndAt(Kind(k))' = E
      BY <1>6, <2>1
    <3> HIDE DEF G, S, E, s
    <3>2. /\ \A x : Taken(x, k) = S
          /\ Issued(k) = s + 1 /\ Ran(k)
      BY ONLY <1>1, <1>2, <1>3, <1>4, <2>1, <3>1 DEF Taken, Issued, Ran, Scattering, s
    <3>3. CASE s = E - 1
      <4>1. at'[0] = c + 1 /\ ~(at'[0] < k) /\ at'[0] > k /\ k < at'[0]
        BY ONLY <1>3, <1>8, <2>1, <3>3
      <4>2. (\A x : Taken(x, k)' = S) /\ Issued(k)' = E /\ Ran(k)'
        BY ONLY <3>1, <4>1 DEF Taken, Issued, Ran
      <4>3. QED BY ONLY <1>3, <1>4, <3>2, <3>3, <4>2
    <3>4. CASE s # E - 1
      <4>1. at'[0] = k /\ step'[0] = s + 1 /\ ~waiting'[0]
        BY ONLY <1>8, <2>1, <3>4
      <4>2. (\A x : Taken(x, k)' = S) /\ Issued(k)' = s + 1 /\ Ran(k)'
        BY ONLY <1>3, <1>4, <3>1, <4>1, k \in Nat DEF Taken, Issued, Ran, Scattering
      <4>3. QED BY ONLY <3>2, <4>2
    <3>5. QED BY <3>3, <3>4
  <2>2. CASE k # c /\ s # E - 1
    <3>1. at'[0] = at[0] /\ at[0] \in Nat /\ k # at[0]
      BY <1>2, <1>3, <1>8, <2>2
    <3>2. QED BY <1>1, <3>1, Elsewhere
  <2>3. CASE k # c /\ k # c + 1 /\ s = E - 1
    <3>1. at[0] = c /\ at'[0] = c + 1
      BY <1>2, <1>8, <2>3
    <3>2. CASE k < c
      <4>1. ~(at[0] < k) /\ at[0] > k /\ ~(at'[0] < k) /\ at'[0] > k /\ k < at[0] /\ k < at'[0]
        BY ONLY <1>3, <3>1, <3>2, k \in Nat
      <4>2. QED BY ONLY <1>6, <4>1 DEF Taken, Issued, Ran
    <3>3. CASE k > c + 1
      <4>1. at[0] < k /\ at'[0] < k /\ ~(k < at[0]) /\ ~(k < at'[0]) /\ k # at[0] /\ k # at'[0]
        BY ONLY <1>3, <3>1, <3>3, k \in Nat
      <4>2. QED BY ONLY <1>6, <4>1 DEF Taken, Issued, Ran
    <3>4. QED BY ONLY <1>3, <2>3, <3>2, <3>3, k \in Nat
  <2>4. CASE k = c + 1 /\ s = E - 1
    <3>1. at[0] < k /\ at'[0] = k /\ step'[0] = 1 /\ ~(k < at[0]) /\ k # at[0] /\ ~waiting'[0]
      BY <1>2, <1>3, <1>8, <2>4
    <3>2. /\ GatherAt(Kind(k)) \in {1, 2} /\ ScatterAt(Kind(k)) \in Nat /\ ScatterAt(Kind(k)) > 1
      BY StepBounds
    <3>3. \A x : x \notin DOMAIN got'
      BY <1>1, <1>7
    <3>4. (\A x : Taken(x, k)' = Taken(x, k)) /\ Issued(k)' = Issued(k)
      BY ONLY <1>6, <3>1, <3>2, <3>3, k \in Nat DEF Taken, Issued
    <3>5. ~Ran(k) /\ ~Ran(k)'
      BY ONLY <1>6, <3>1, <3>2, k \in Nat DEF Ran, Scattering
    <3>6. QED BY <3>4, <3>5
  <2>5. QED BY <2>1, <2>2, <2>3, <2>4
<1>10. ASSUME NEW r \in Ranks \ {0}, NEW k \in 1..(Len(prog) + 1),
              at[r] = k, LinkAt(r, k), BehindAt(r, k), AheadAt(r, k)
       PROVE  LinkAt(r, k)' /\ BehindAt(r, k)' /\ AheadAt(r, k)'
  <2>1. k \in Nat
    OBVIOUS
  <2>2. Sent(r, k)' = Sent(r, k) /\ Read(r, k)' = Read(r, k)
    BY <1>1, <1>8, RankStill
  <2>3. LinkAt(r, k)'
    BY <1>1, <1>9, <1>10, <2>1, <2>2, LinkFrame
  <2>4. k < c /\ Involved(r, k) => FALSE
    <3> HIDE DEF G, S, E, s
    <3>1. QED BY ONLY <1>2, <1>3, <1>4, <1>10 DEF AheadAt, s
  <2>5. c < k /\ Involved(r, c) => k = c + 1 /\ s = E - 1
    BY ONLY <1>2, <1>10 DEF BehindAt
  <2>6. BehindAt(r, k)'
    <3> SUFFICES ASSUME at'[0] < k, Involved(r, at'[0]) PROVE FALSE
      BY <1>5 DEF BehindAt
    <3>1. CASE s # E - 1
      <4>1. at'[0] = c
        BY <1>8, <3>1
      <4>2. QED BY ONLY <2>5, <3>1, <4>1, at'[0] < k, Involved(r, at'[0])
    <3>2. CASE s = E - 1
      <4>1. at'[0] = c + 1 /\ c + 1 < k /\ Involved(r, c + 1)
        BY <1>8, <3>2
      <4>2. ~Involved(r, c)
        BY ONLY <1>3, <2>1, <2>5, <4>1
      <4>3. c + 1 \in Int /\ at[0] < c + 1 /\ c + 1 <= Len(prog) /\ c + 1 < at[r]
        BY <1>2, <1>3, <1>10, <4>1 DEF Involved
      <4>4. Involved(r, at[0]) <=> Involved(r, c + 1)
        BY ONLY <1>1, <4>3, SamePass, r \in Ranks \ {0}, 0 \in Ranks
      <4>5. QED BY <1>2, <4>1, <4>2, <4>4
    <3>3. QED BY <3>1, <3>2
  <2>7. AheadAt(r, k)'
    <3> SUFFICES ASSUME k < at'[0], Involved(r, k)
                 PROVE  at'[0] = k + 1 /\ step'[0] = 1 /\ r \notin DOMAIN got'
      BY <1>5 DEF AheadAt
    <3>1. ~(k < c)
      BY <2>4
    <3>2. s = E - 1 /\ k = c
      BY ONLY <1>3, <1>8, <2>1, <3>1, k < at'[0]
    <3>3. QED BY <1>1, <1>7, <1>8, <3>2
  <2>8. QED BY <2>3, <2>6, <2>7
<1>11. RankInv'
  BY <1>1, <1>8, <1>10, Rank0Move
<1>12. NetTypeInv'
  BY <1>1 DEF NetInv, NetTypeInv
<1>13. GotInv'
  BY <1>1, <1>7 DEF GotInv
<1>14. InpInv'
  <2> SUFFICES ASSUME at'[0] <= Len(prog), NEW j \in 1..5, Gathering(j, at'[0]), j < step'[0]
               PROVE  inp[Steps(Kind(at'[0]))[j]] = AllRows(at'[0])
    <3>1. \A i, x : Gathering(i, x)' <=> Gathering(i, x)
      BY ONLY <1>6 DEF Gathering
    <3>2. QED BY <1>1, <1>5, <3>1 DEF InpInv, Active
  <2>1. CASE s = E - 1
    BY <1>8, <2>1
  <2>2. CASE s # E - 1
    <3>1. at'[0] = c /\ j < S
      BY <1>8, <2>2 DEF Gathering
    <3>2. Gathering(j, at[0]) /\ j < step[0]
      BY <1>2, <1>3, <1>4, <3>1
    <3>3. QED BY <1>1, <1>2, <3>1, <3>2 DEF NetInv, InpInv
  <2>3. QED BY <2>1, <2>2
<1>15. CacheInv'
  BY <1>1, <1>9, CacheKept DEF NetInv
<1>16. ResInv'
  BY <1>1, <1>5 DEF NetInv, ResInv
<1>17. QED BY <1>11, <1>12, <1>13, <1>14, <1>15, <1>16 DEF NetInv

\* What rank 0 can receive from a rank is the tensor it gathers.
LEMMA FromHere ==
  ASSUME DistInv, NEW r \in Ranks, r # 0, Active(0), What(0) \in Gathers, r \notin DOMAIN got,
         chan[<<r, 0>>] # <<>>, NEW c, c = at[0]
  PROVE  /\ at[r] = c /\ Involved(r, c)
         /\ LinkAt(r, c) /\ BehindAt(r, c) /\ AheadAt(r, c)
         /\ Taken(r, c) = step[0] /\ step[0] < Sent(r, c)
         /\ Head(chan[<<r, 0>>]).what = Steps(Kind(c))[step[0]]
         /\ Head(chan[<<r, 0>>]).rows = Rows(r, c, Qlen(c)[r])
         /\ Tail(chan[<<r, 0>>]) = Queue(Kind(c), step[0] + 1, Sent(r, c), Rows(r, c, Qlen(c)[r]))
<1>1. LenInv /\ LenTypeInv /\ NetInv /\ 0 \in Ranks
  BY PlaceFacts DEF DistInv, LenInv
<1>2. /\ c \in 1..Len(prog) /\ c \in Nat /\ Len(prog) \in Nat
      /\ step[0] \in Nat /\ step[0] >= GatherAt(Kind(c)) /\ step[0] < ScatterAt(Kind(c))
  <2>1. What(0) \in Gathers \cup Scatters
    OBVIOUS
  <2>2. QED BY <1>1, <2>1, CallFacts, PlaceFacts
<1>3. PICK k : k = at[r]
  OBVIOUS
<1>4. k \in Nat /\ k <= Len(prog) + 1 /\ k >= 1 /\ step[r] \in Nat
  BY <1>1, <1>3, PlaceFacts
<1>5. LinkAt(r, k) /\ BehindAt(r, k) /\ AheadAt(r, k)
  <2>1. k \in 1..(Len(prog) + 1)
    BY ONLY <1>2, <1>4
  <2>2. QED BY <1>1, <1>3, <2>1 DEF NetInv, RankInv, RankAt
<1>6. /\ Involved(r, k)
      /\ chan[<<r, 0>>] = Queue(Kind(k), Taken(r, k), Sent(r, k), Rows(r, k, Qlen(k)[r]))
  BY <1>5 DEF LinkAt
<1>7. /\ Taken(r, k) \in Nat /\ Sent(r, k) \in Nat /\ Sent(r, k) <= ScatterAt(Kind(k))
      /\ Taken(r, k) >= GatherAt(Kind(k))
  BY <1>1, CounterTypes
<1>8. /\ Taken(r, k) < Sent(r, k)
      /\ Head(chan[<<r, 0>>]).what = Steps(Kind(k))[Taken(r, k)]
      /\ Head(chan[<<r, 0>>]).rows = Rows(r, k, Qlen(k)[r])
      /\ Tail(chan[<<r, 0>>]) = Queue(Kind(k), Taken(r, k) + 1, Sent(r, k), Rows(r, k, Qlen(k)[r]))
  <2>1. Queue(Kind(k), Taken(r, k), Sent(r, k), Rows(r, k, Qlen(k)[r])) # <<>>
    BY <1>6
  <2>2. Taken(r, k) \in Nat /\ Sent(r, k) \in Nat
    BY <1>7
  <2>3. /\ Taken(r, k) < Sent(r, k)
        /\ Head(Queue(Kind(k), Taken(r, k), Sent(r, k), Rows(r, k, Qlen(k)[r]))).what
             = Steps(Kind(k))[Taken(r, k)]
        /\ Head(Queue(Kind(k), Taken(r, k), Sent(r, k), Rows(r, k, Qlen(k)[r]))).rows
             = Rows(r, k, Qlen(k)[r])
        /\ Tail(Queue(Kind(k), Taken(r, k), Sent(r, k), Rows(r, k, Qlen(k)[r])))
             = Queue(Kind(k), Taken(r, k) + 1, Sent(r, k), Rows(r, k, Qlen(k)[r]))
    BY ONLY <2>1, <2>2, QueueHead
  <2>4. QED BY ONLY <1>6, <2>3
<1>9. ~(k < c)
  <2> SUFFICES ASSUME k < c PROVE FALSE
    OBVIOUS
  <2>1. ~(at[0] < k) /\ at[0] > k
    BY ONLY <1>2, <1>4, k < c, c = at[0]
  <2>2. Taken(r, k) = ScatterAt(Kind(k))
    BY ONLY <2>1 DEF Taken
  <2>3. ScatterAt(Kind(k)) \in Nat
    BY StepBounds
  <2>4. QED BY ONLY <1>7, <1>8, <2>2, <2>3
<1>10. ~(c < k)
  <2> SUFFICES ASSUME c < k PROVE FALSE
    OBVIOUS
  <2>1. CASE Involved(r, c)
    <3>1. ScatterAt(Kind(c)) < EndAt(Kind(c)) /\ ScatterAt(Kind(c)) \in Nat /\ EndAt(Kind(c)) \in Nat
      BY StepBounds
    <3>2. step[0] = EndAt(Kind(c)) - 1
      BY <1>5, <2>1 DEF BehindAt
    <3>3. QED BY ONLY <1>2, <3>1, <3>2
  <2>2. CASE ~Involved(r, c)
    <3>1. ~AtQlens(r)
      <4> SUFFICES ASSUME AtQlens(r) PROVE FALSE
        OBVIOUS
      <4>1. GatherAt(Kind(k)) = 2 /\ step[r] = 1
        BY <1>3, StepBounds DEF AtQlens, IsFwd
      <4>2. Sent(r, k) = 2
        BY ONLY <4>1 DEF Sent
      <4>3. QED BY ONLY <1>7, <1>8, <4>1, <4>2
    <3>2. k \in Int /\ at[0] < k /\ k <= Len(prog) /\ k = at[r]
      BY <1>3, <1>4, <1>6 DEF Involved
    <3>3. Involved(r, at[0]) <=> Involved(r, k)
      BY ONLY <1>1, <3>1, <3>2, SamePass, r \in Ranks
    <3>4. QED BY <1>6, <2>2, <3>3
  <2>3. QED BY <2>1, <2>2
<1>11. k = c
  BY ONLY <1>2, <1>4, <1>9, <1>10
<1>12. Taken(r, c) = step[0]
  <2>1. GatherAt(Kind(c)) \in Nat /\ ScatterAt(Kind(c)) \in Nat
    BY StepBounds
  <2>2. QED BY ONLY <1>2, <2>1, c = at[0], r \notin DOMAIN got DEF Taken
<1>13. QED BY <1>3, <1>5, <1>6, <1>8, <1>11, <1>12

LEMMA RecvRowsNet == ASSUME DistInv, NEW src \in Ranks, RecvRows(src) PROVE NetInv'
<1>1. /\ LenInv /\ LenTypeInv /\ NetInv /\ Active(0) /\ What(0) \in Gathers
      /\ src # 0 /\ src \notin DOMAIN got /\ chan[<<src, 0>>] # <<>>
      /\ got' = [x \in DOMAIN got \cup {src} |->
                   IF x = src THEN Head(chan[<<src, 0>>]).rows ELSE got[x]]
      /\ chan' = [chan EXCEPT ![<<src, 0>>] = Tail(@)]
      /\ UNCHANGED <<prog, qlen, eager, at, step, waiting, inp, cache, res>>
  BY DEF DistInv, LenInv, RecvRows, Stay
<1>2. PICK c : c = at[0]
  OBVIOUS
<1>3. /\ at[src] = c /\ Involved(src, c)
      /\ LinkAt(src, c) /\ BehindAt(src, c) /\ AheadAt(src, c)
      /\ Taken(src, c) = step[0] /\ step[0] < Sent(src, c)
      /\ Head(chan[<<src, 0>>]).rows = Rows(src, c, Qlen(c)[src])
      /\ Tail(chan[<<src, 0>>])
           = Queue(Kind(c), step[0] + 1, Sent(src, c), Rows(src, c, Qlen(c)[src]))
  BY <1>1, <1>2, FromHere
<1>4. /\ c \in 1..Len(prog) /\ c \in Nat /\ Len(prog) \in Nat /\ 0 \in Ranks
      /\ step[0] \in Nat /\ step[0] >= GatherAt(Kind(c)) /\ step[0] < ScatterAt(Kind(c))
  <2>1. What(0) \in Gathers \cup Scatters /\ 0 \in Ranks
    BY <1>1, PlaceFacts
  <2>2. QED BY <1>1, <1>2, <2>1, CallFacts, PlaceFacts
<1>5. /\ \A j : Kind(j)' = Kind(j) /\ IsFwd(j)' = IsFwd(j) /\ Qlen(j)' = Qlen(j)
                /\ AllRows(j)' = AllRows(j)
      /\ \A x, j : Own(x, j)' = Own(x, j) /\ (Involved(x, j)' <=> Involved(x, j))
  BY <1>1, Unmoved
<1>6. \A j : /\ GatherAt(Kind(j))' = GatherAt(Kind(j)) /\ ScatterAt(Kind(j))' = ScatterAt(Kind(j))
             /\ EndAt(Kind(j))' = EndAt(Kind(j))
  BY ONLY <1>5 DEF GatherAt, ScatterAt, EndAt
<1>7. /\ DOMAIN got' = DOMAIN got \cup {src}
      /\ got'[src] = Rows(src, c, Qlen(c)[src])
      /\ \A x \in DOMAIN got : got'[x] = got[x]
  BY <1>1, <1>3
<1>8. /\ chan'[<<src, 0>>]
           = Queue(Kind(c), step[0] + 1, Sent(src, c), Rows(src, c, Qlen(c)[src]))
      /\ DOMAIN chan' = DOMAIN chan
      /\ chan'[<<0, src>>] = chan[<<0, src>>]
      /\ \A x \in Ranks \ {0} : x # src => /\ chan'[<<x, 0>>] = chan[<<x, 0>>]
                                           /\ chan'[<<0, x>>] = chan[<<0, x>>]
  <2>1. DOMAIN chan = Ranks \X Ranks
    BY <1>1 DEF NetInv, NetTypeInv
  <2>2. /\ <<src, 0>> \in DOMAIN chan /\ <<0, src>> # <<src, 0>>
        /\ \A x \in Ranks \ {0} : x # src => <<x, 0>> # <<src, 0>> /\ <<0, x>> # <<src, 0>>
        /\ \A x \in Ranks : <<x, 0>> \in DOMAIN chan /\ <<0, x>> \in DOMAIN chan
    BY <1>1, <1>4, <2>1
  <2>3. chan' = [chan EXCEPT ![<<src, 0>>] = Tail(@)]
    BY ONLY <1>1
  <2>4. QED BY ONLY <1>3, <2>2, <2>3, src \in Ranks
<1>9. \A k : Issued(k)' = Issued(k) /\ (Ran(k)' <=> Ran(k))
  BY ONLY <1>1, <1>6 DEF Issued, Ran, Scattering
<1>10. \A x, k : Sent(x, k)' = Sent(x, k) /\ Read(x, k)' = Read(x, k)
  BY ONLY <1>1, <1>6 DEF Sent, Read
<1>11. ASSUME NEW r \in Ranks \ {0}, NEW k \in 1..(Len(prog) + 1),
              at[r] = k, LinkAt(r, k), BehindAt(r, k), AheadAt(r, k)
       PROVE  LinkAt(r, k)' /\ BehindAt(r, k)' /\ AheadAt(r, k)'
  <2>1. BehindAt(r, k)'
    BY ONLY <1>1, <1>5, <1>6, <1>11 DEF BehindAt
  <2>2. CASE r # src
    <3>1. r \in DOMAIN got' <=> r \in DOMAIN got
      BY <1>7, <2>2
    <3>2. Taken(r, k)' = Taken(r, k)
      BY ONLY <1>1, <1>6, <3>1 DEF Taken
    <3>3. LinkAt(r, k)'
      BY <1>1, <1>8, <1>9, <1>10, <1>11, <2>2, <3>2, LinkFrame
    <3>4. AheadAt(r, k)'
      BY ONLY <1>1, <1>5, <1>11, <3>1 DEF AheadAt
    <3>5. QED BY <2>1, <3>3, <3>4
  <2>3. CASE r = src
    <3>1. k = c
      BY <1>3, <1>11, <2>3
    <3>2. AheadAt(src, c)'
      BY <1>1, <1>2, <1>4 DEF AheadAt
    <3>3. Taken(src, c)' = step[0] + 1
      <4>1. src \in DOMAIN got'
        BY <1>7
      <4>2. GatherAt(Kind(c)) \in Nat /\ ScatterAt(Kind(c)) \in Nat
        BY StepBounds
      <4>3. QED BY ONLY <1>1, <1>2, <1>4, <1>6, <4>1, <4>2 DEF Taken
    <3>4. step[0] + 1 <= Sent(src, c)
      <4>1. Sent(src, c) \in Nat
        BY <1>1, CounterTypes
      <4>2. QED BY ONLY <1>3, <1>4, <4>1
    <3>5. LinkAt(src, c)'
      <4>1. /\ Read(src, c) <= Issued(c)
            /\ chan[<<0, src>>] = Queue(Kind(c), Read(src, c), Issued(c), Own(src, c))
        BY <1>3 DEF LinkAt
      <4>2. QED BY ONLY <1>3, <1>5, <1>8, <1>9, <1>10, <3>3, <3>4, <4>1 DEF LinkAt
    <3>6. QED BY ONLY <2>1, <2>3, <3>1, <3>2, <3>5
  <2>4. QED BY <2>2, <2>3
<1>12. RankInv'
  BY <1>1, <1>11, Rank0Move
<1>13. NetTypeInv'
  BY <1>1, <1>7, <1>8 DEF NetInv, NetTypeInv
<1>14. GotInv'
  <2> SUFFICES ASSUME NEW x \in DOMAIN got'
               PROVE  /\ at[0] <= Len(prog) /\ Gathering(step[0], at[0]) /\ Involved(x, at[0])
                      /\ got'[x] = Rows(x, at[0], Qlen(at[0])[x])
    <3>1. \A i, j : Gathering(i, j)' <=> Gathering(i, j)
      BY ONLY <1>6 DEF Gathering
    <3>2. QED BY <1>1, <1>5, <3>1 DEF GotInv, Active
  <2>1. CASE x = src
    <3>1. Gathering(step[0], at[0]) /\ at[0] <= Len(prog)
      BY <1>2, <1>4 DEF Gathering
    <3>2. QED BY <1>2, <1>3, <1>7, <2>1, <3>1
  <2>2. CASE x # src
    <3>1. x \in DOMAIN got /\ got'[x] = got[x]
      BY <1>7, <2>2
    <3>2. QED BY <1>1, <3>1 DEF NetInv, GotInv, Active
  <2>3. QED BY <2>1, <2>2
<1>15. InpInv'
  <2>1. \A i, j : Gathering(i, j)' <=> Gathering(i, j)
    BY ONLY <1>6 DEF Gathering
  <2>2. QED BY <1>1, <1>5, <2>1 DEF NetInv, InpInv, Active
<1>16. CacheInv'
  BY <1>1, <1>9, CacheKept DEF NetInv
<1>17. ResInv'
  BY <1>1, <1>5 DEF NetInv, ResInv
<1>18. QED BY <1>12, <1>13, <1>14, <1>15, <1>16, <1>17 DEF NetInv

LEMMA ZeroRank == 0 \in Ranks
BY DistAssumption DEF Ranks

\* The tensors a call gathers are distinct.
LEMMA GatherSteps ==
  ASSUME NEW kd \in {"fwd", "bwd"}, NEW i \in Nat, NEW j \in Nat,
         i >= GatherAt(kd), i < ScatterAt(kd), j >= GatherAt(kd), j < i
  PROVE  Steps(kd)[j] # Steps(kd)[i]
<1>1. CASE kd = "fwd"
  <2>1. /\ Steps(kd)[2] = "hs" /\ Steps(kd)[3] = "ids" /\ Steps(kd)[4] = "wts"
        /\ GatherAt(kd) = 2 /\ ScatterAt(kd) = 5
    BY <1>1 DEF Steps, GatherAt, ScatterAt
  <2>2. i \in {2, 3, 4} /\ j \in {2, 3, 4} /\ j < i
    BY ONLY <2>1, i \in Nat, j \in Nat, i >= GatherAt(kd), i < ScatterAt(kd), j >= GatherAt(kd), j < i
  <2>3. QED BY ONLY <2>1, <2>2
<1>2. CASE kd = "bwd"
  <2>1. GatherAt(kd) = 1 /\ ScatterAt(kd) = 2
    BY <1>2 DEF GatherAt, ScatterAt
  <2>2. QED BY ONLY <2>1, i \in Nat, j \in Nat, i >= GatherAt(kd), i < ScatterAt(kd), j >= GatherAt(kd), j < i
<1>3. QED BY <1>1, <1>2

\* What rank 0 has gathered, its own rows first, are the rows of all ranks.
LEMMA CatRows ==
  ASSUME DistInv, Active(0), What(0) \in Gathers, NEW c, c = at[0],
         \A src \in Ranks \ {0} : Expects(Lens(0)[src]) => src \in DOMAIN got
  PROVE  Cat(Rows(0, at[0], Local(0))) = AllRows(c)
<1>1. LenInv /\ LenTypeInv /\ NetInv /\ 0 \in Ranks /\ What(0) \in Gathers \cup Scatters
  BY ZeroRank DEF DistInv, LenInv
<1>2. Lens(0) = Qlen(c) /\ Local(0) = Qlen(c)[0] /\ Qlen(c) \in [Ranks -> Nat]
  BY <1>1, CallFacts
<1> DEFINE q == Qlen(c)
<1>3. ASSUME NEW x \in 1..WorldSize
      PROVE  (IF x = 1 THEN Rows(0, c, q[0]) ELSE From(x - 1)) = Rows(x - 1, c, q[x - 1])
  <2>1. CASE x = 1
    BY <2>1
  <2>2. CASE x # 1
    <3>1. x - 1 \in Ranks \ {0}
      BY <2>2, DistAssumption DEF Ranks
    <3>2. PICK r \in Ranks \ {0} : r = x - 1
      BY <3>1
    <3>3. From(r) = Rows(r, c, q[r])
      <4>1. CASE r \in DOMAIN got
        BY <1>1, <4>1 DEF From, NetInv, GotInv
      <4>2. CASE r \notin DOMAIN got
        <5>1. q[r] \in Nat /\ ~(q[r] > 0)
          BY <1>2, <4>2 DEF Expects
        <5>2. q[r] = 0
          BY ONLY <5>1
        <5>3. Rows(r, c, q[r]) = <<>>
          BY <5>2 DEF Rows
        <5>4. QED BY <4>2, <5>3 DEF From
      <4>3. QED BY <4>1, <4>2
    <3>4. QED BY <2>2, <3>2, <3>3
  <2>3. QED BY <2>1, <2>2
<1>4. [k \in 1..WorldSize |-> IF k = 1 THEN Rows(0, c, q[0]) ELSE From(k - 1)]
        = [x \in 1..WorldSize |-> Rows(x - 1, c, q[x - 1])]
  BY ONLY <1>3
<1>5. Cat(Rows(0, at[0], Local(0))) =
        FlattenSeq([k \in 1..WorldSize |-> IF k = 1 THEN Rows(0, c, q[0]) ELSE From(k - 1)])
  BY <1>2 DEF Cat
<1>6. AllRows(c) = FlattenSeq([x \in 1..WorldSize |-> Rows(x - 1, c, q[x - 1])])
  BY DEF AllRows, AllOf
<1>7. QED BY ONLY <1>4, <1>5, <1>6

LEMMA GatherDoneNet == ASSUME DistInv, GatherDone PROVE NetInv'
<1>1. /\ LenInv /\ LenTypeInv /\ NetInv /\ Active(0) /\ What(0) \in Gathers /\ Advance(0)
      /\ What(0) \in Gathers \cup Scatters
      /\ \A src \in Ranks \ {0} : Expects(Lens(0)[src]) => src \in DOMAIN got
      /\ inp' = [inp EXCEPT ![What(0)] = Cat(Rows(0, at[0], Local(0)))]
      /\ got' = [r \in {} |-> <<>>]
      /\ UNCHANGED <<prog, qlen, eager, chan, cache, res>>
      /\ 0 \in Ranks
  BY ZeroRank DEF DistInv, LenInv, GatherDone, Stay
<1>2. PICK c : c = at[0]
  OBVIOUS
<1> DEFINE s == step[0]
           G == GatherAt(Kind(c))
           S == ScatterAt(Kind(c))
           E == EndAt(Kind(c))
<1>3. /\ c \in 1..Len(prog) /\ s \in Nat /\ s >= G /\ s < S
      /\ Len(prog) \in Nat /\ c \in Nat /\ c >= 1
      /\ Lens(0) = Qlen(c) /\ Qlen(c) \in [Ranks -> Nat] /\ What(0) = Steps(Kind(c))[s]
      /\ Kind(c) \in {"fwd", "bwd"}
  BY <1>1, <1>2, CallFacts, PlaceFacts, ProgFacts
<1>4. G \in Nat /\ S \in Nat /\ E \in Nat /\ S > 1 /\ G < S /\ S < E /\ (IsFwd(c) => G = 2)
  BY StepBounds DEF IsFwd
<1>5. /\ \A j : Kind(j)' = Kind(j) /\ IsFwd(j)' = IsFwd(j) /\ Qlen(j)' = Qlen(j)
                /\ AllRows(j)' = AllRows(j)
      /\ \A x, j : Own(x, j)' = Own(x, j) /\ (Involved(x, j)' <=> Involved(x, j))
  BY <1>1, Unmoved
<1>6. \A j : /\ GatherAt(Kind(j))' = GatherAt(Kind(j)) /\ ScatterAt(Kind(j))' = ScatterAt(Kind(j))
             /\ EndAt(Kind(j))' = EndAt(Kind(j))
  BY ONLY <1>5 DEF GatherAt, ScatterAt, EndAt
<1>7. /\ at' = at /\ at'[0] = c /\ step'[0] = s + 1 /\ ~waiting'[0]
      /\ \A x \in Ranks \ {0} : step'[x] = step[x] /\ waiting'[x] = waiting[x]
  <2>1. s # E - 1
    BY ONLY <1>3, <1>4
  <2>2. QED BY <1>1, <1>2, <2>1, AdvanceIn
<1>8. \A x : x \notin DOMAIN got'
  BY <1>1
<1> HIDE DEF s, G, S, E
<1>9. ASSUME NEW k \in Nat
      PROVE  /\ \A x \in Ranks \ {0} : Involved(x, k) => Taken(x, k)' = Taken(x, k)
             /\ Issued(k)' = Issued(k) /\ (Ran(k)' <=> Ran(k))
  <2>1. CASE k # c
    <3>1. at'[0] = at[0] /\ at[0] \in Nat /\ k # at[0]
      BY ONLY <1>2, <1>3, <1>7, <2>1
    <3>2. QED BY <1>1, <3>1, Elsewhere
  <2>2. CASE k = c
    <3>1. /\ GatherAt(Kind(k)) = G /\ GatherAt(Kind(k))' = G
          /\ ScatterAt(Kind(k)) = S /\ ScatterAt(Kind(k))' = S
      BY <1>6, <2>2 DEF G, S
    <3>2. ASSUME NEW x \in Ranks \ {0}, Involved(x, k) PROVE Taken(x, k)' = Taken(x, k)
      <4>1. x \in DOMAIN got
        BY <1>1, <1>3, <2>2, <3>2 DEF Involved, Expects
      <4>2. Taken(x, k) = s + 1
        BY ONLY <1>2, <1>3, <1>4, <2>2, <3>1, <4>1 DEF Taken, s
      <4>3. Taken(x, k)' = s + 1
        BY ONLY <1>3, <1>4, <1>7, <1>8, <2>2, <3>1 DEF Taken
      <4>4. QED BY <4>2, <4>3
    <3>3. Issued(k)' = Issued(k) /\ ~Ran(k) /\ ~Ran(k)'
      <4>1. at[0] = k /\ step[0] = s
        BY <1>2, <2>2 DEF s
      <4>2. Issued(k) = S /\ ~Ran(k)
        BY ONLY <1>3, <1>4, <3>1, <4>1, k \in Nat DEF Issued, Ran, Scattering
      <4>3. Issued(k)' = S /\ ~Ran(k)'
        BY ONLY <1>3, <1>4, <1>7, <2>2, <3>1, k \in Nat DEF Issued, Ran, Scattering
      <4>4. QED BY <4>2, <4>3
    <3>4. QED BY <3>2, <3>3
  <2>3. QED BY <2>1, <2>2
<1>10. ASSUME NEW r \in Ranks \ {0}, NEW k \in 1..(Len(prog) + 1),
              at[r] = k, LinkAt(r, k), BehindAt(r, k), AheadAt(r, k)
       PROVE  LinkAt(r, k)' /\ BehindAt(r, k)' /\ AheadAt(r, k)'
  <2>1. k \in Nat
    OBVIOUS
  <2>2. Sent(r, k)' = Sent(r, k) /\ Read(r, k)' = Read(r, k)
    BY <1>1, <1>7, RankStill
  <2>3. LinkAt(r, k)'
    BY <1>1, <1>9, <1>10, <2>1, <2>2, LinkFrame
  <2>4. ~(c < k /\ Involved(r, c))
    BY ONLY <1>2, <1>3, <1>4, <1>10 DEF BehindAt, s, E
  (* A rank still in the call before has nothing to send in this one, which *)
  (* is then the first of a pass.                                           *)
  <2>5. ASSUME k < c, Involved(r, k) PROVE FALSE
    <3>1. c = k + 1 /\ s = 1 /\ r \notin DOMAIN got
      BY ONLY <1>2, <1>10, <2>5 DEF AheadAt, s
    <3>2. ~(Qlen(c)[r] > 0)
      BY <1>1, <1>3, <3>1 DEF Expects
    <3>3. Qlen(k)[r] # Qlen(c)[r] /\ k \in 1..Len(prog)
      BY <2>5, <3>2 DEF Involved
    <3>4. PICK m \in (k + 1)..c : IsFwd(m)
      BY <1>1, <1>3, <2>5, <3>3, PassBegins
    <3>5. m = c
      BY ONLY <1>3, <2>1, <3>1, m \in (k + 1)..c
    <3>6. QED BY ONLY <1>3, <1>4, <3>1, <3>4, <3>5
  <2>6. BehindAt(r, k)' /\ AheadAt(r, k)'
    BY ONLY <1>5, <1>7, <2>4, <2>5 DEF BehindAt, AheadAt
  <2>7. QED BY <2>3, <2>6
<1>11. RankInv'
  BY <1>1, <1>7, <1>10, Rank0Move
<1>12. NetTypeInv'
  BY <1>1, <1>8 DEF NetInv, NetTypeInv
<1>13. GotInv'
  BY <1>8 DEF GotInv
<1>14. InpInv'
  <2> SUFFICES ASSUME NEW j \in 1..5, Gathering(j, c), j < s + 1
               PROVE  inp'[Steps(Kind(c))[j]] = AllRows(c)
    <3>1. \A i, x : Gathering(i, x)' <=> Gathering(i, x)
      BY ONLY <1>6 DEF Gathering
    <3>2. QED BY <1>1, <1>2, <1>5, <1>7, <3>1 DEF InpInv, Active
  <2>1. Steps(Kind(c))[s] \in DOMAIN inp /\ DOMAIN inp = Gathers
    BY <1>1, <1>3 DEF NetInv, NetTypeInv
  <2>2. CASE j = s
    <3>1. Cat(Rows(0, at[0], Local(0))) = AllRows(c)
      BY <1>1, <1>2, CatRows
    <3>2. QED BY <1>1, <1>3, <2>1, <2>2, <3>1
  <2>3. CASE j # s
    <3>1. j < s /\ j \in Nat /\ j >= G
      BY <1>3, <2>3 DEF Gathering, G
    <3>2. Steps(Kind(c))[j] # Steps(Kind(c))[s]
      BY <1>3, <3>1, GatherSteps DEF G, S
    <3>3. inp'[Steps(Kind(c))[j]] = inp[Steps(Kind(c))[j]]
      <4>1. Steps(Kind(c))[j] \in Gathers
        <5>1. j < EndAt(Kind(c)) /\ j < ScatterAt(Kind(c)) /\ j >= GatherAt(Kind(c))
          BY <1>3, <1>4, <3>1 DEF G, S, E
        <5>2. j \in 1..(EndAt(Kind(c)) - 1)
          BY ONLY <5>1, <1>4, j \in 1..5 DEF E
        <5>3. QED BY <1>3, <5>1, <5>2, StepFacts
      <4>2. QED BY <1>1, <1>3, <2>1, <3>2, <4>1
    <3>4. QED BY <1>1, <1>2, <3>1, <3>3 DEF NetInv, InpInv, s
  <2>4. QED BY <2>2, <2>3
<1>15. CacheInv'
  BY <1>1, <1>9, CacheKept DEF NetInv
<1>16. ResInv'
  BY <1>1, <1>5 DEF NetInv, ResInv
<1>17. QED BY <1>11, <1>12, <1>13, <1>14, <1>15, <1>16 DEF NetInv

\* The saving forward of a backward is the one its ctx comes from.
LEMMA SavedInFacts ==
  ASSUME LenTypeInv, NEW k \in 1..Len(prog), ~IsFwd(k)
  PROVE  SavedIn(prog, k) \in 1..(k - 1) /\ SavesFor(prog, SavedIn(prog, k), k)
<1>1. PICK j \in 1..(k - 1) : SavesFor(prog, j, k)
  <2>1. Kind(k) = "bwd"
    BY ProgFacts DEF IsFwd
  <2>2. QED BY <2>1, ProgFacts DEF Shape, Kind
<1> DEFINE P(i) == prog[i].save /\ prog[i].l = prog[k].l /\ prog[i].pass = prog[k].pass
<1>2. P(j)
  BY <1>1 DEF SavesFor
<1>3. SavedIn(prog, k) = CHOOSE i \in 1..(k - 1) : P(i)
  BY DEF SavedIn
<1>4. SavedIn(prog, k) \in 1..(k - 1) /\ P(SavedIn(prog, k))
  <2> HIDE DEF P
  <2>1. QED BY ONLY <1>2, <1>3, j \in 1..(k - 1)
<1>5. \A m \in 1..(k - 1) : P(m) => m = j
  BY <1>1 DEF SavesFor
<1>6. SavedIn(prog, k) = j
  <2> HIDE DEF P
  <2>1. QED BY ONLY <1>4, <1>5
<1>7. QED BY <1>1, <1>6

\* The rows of each rank are found in those of all at its offset.
LEMMA AllParts ==
  ASSUME NEW q, q \in [Ranks -> Nat], NEW k
  PROVE  /\ AllOf(q, k) = [i \in 1..Len(AllOf(q, k)) |-> AllOf(q, k)[i]]
         /\ \A r \in Ranks :
              /\ Offset(q)[r] \in Nat
              /\ \A i \in 1..q[r] : /\ Offset(q)[r] + i \in 1..Len(AllOf(q, k))
                                    /\ AllOf(q, k)[Offset(q)[r] + i] = <<r, k, i>>
<1> DEFINE n == WorldSize
           T == Ranks \X {k} \X Nat
           s == [x \in 1..n |-> Rows(x - 1, k, q[x - 1])]
           off == Offset(q)
           A == AllOf(q, k)
<1>1. n \in Nat \ {0} /\ \A x \in 1..n : x - 1 \in Ranks
  BY DistAssumption DEF Ranks
<1>2. ASSUME NEW r \in Ranks
      PROVE  /\ r + 1 \in 1..n /\ q[r] \in Nat /\ Rows(r, k, q[r]) \in Seq(T)
             /\ Len(Rows(r, k, q[r])) = q[r]
             /\ \A i \in 1..q[r] : Rows(r, k, q[r])[i] = <<r, k, i>>
  <2>1. r + 1 \in 1..n
    BY DistAssumption DEF Ranks
  <2>2. PICK m \in Nat : m = q[r]
    OBVIOUS
  <2>3. \A i \in 1..m : <<r, k, i>> \in T
    OBVIOUS
  <2>4. Rows(r, k, m) = [i \in 1..m |-> <<r, k, i>>]
    BY DEF Rows
  <2> HIDE DEF T
  <2>5. /\ Rows(r, k, m) \in Seq(T) /\ Len(Rows(r, k, m)) = m
        /\ \A i \in 1..m : Rows(r, k, m)[i] = <<r, k, i>>
    BY ONLY <2>3, <2>4, m \in Nat
  <2>6. QED BY ONLY <2>1, <2>2, <2>5
<1>3. Summed(T, n, s, off)
  <2> HIDE DEF T
  <2>1. /\ off \in [0..n -> Nat] /\ off[0] = 0
        /\ \A x \in 1..n : off[x] = off[x - 1] + q[x - 1]
    BY OffsetDef
  <2>2. ASSUME NEW x \in 1..n PROVE s[x] \in Seq(T) /\ Len(s[x]) = q[x - 1]
    <3>1. PICK r \in Ranks : r = x - 1
      BY <1>1
    <3>2. s[x] = Rows(r, k, q[r])
      BY <3>1
    <3>3. Rows(r, k, q[r]) \in Seq(T) /\ Len(Rows(r, k, q[r])) = q[r]
      BY <1>2
    <3>4. QED BY ONLY <3>1, <3>2, <3>3
  <2>3. s \in [1..n -> Seq(T)]
    BY <2>2
  <2> HIDE DEF s, off
  <2>4. QED BY ONLY <2>1, <2>2, <2>3 DEF Summed
<1>4. Parted(T, n, s, off, A)
  <2>1. A = FlattenSeq(s)
    BY DEF AllOf
  <2> HIDE DEF A, s, off, T
  <2>2. Parted(T, n, s, off, FlattenSeq(s))
    BY ONLY <1>1, <1>3, FlattenParts
  <2>3. QED BY ONLY <2>1, <2>2
<1>5. /\ A \in Seq(T) /\ Len(A) = off[n]
      /\ \A x \in 1..n : off[x] <= off[n]
      /\ \A x \in 1..n : \A i \in 1..Len(s[x]) : A[off[x - 1] + i] = s[x][i]
  <2> HIDE DEF A, s, off, T
  <2>1. QED BY ONLY <1>4 DEF Parted
<1>6. A = [i \in 1..Len(A) |-> A[i]]
  <2> HIDE DEF A, T
  <2>1. QED BY ONLY <1>5
<1>7. ASSUME NEW r \in Ranks
      PROVE  /\ off[r] \in Nat
             /\ \A i \in 1..q[r] : off[r] + i \in 1..Len(A) /\ A[off[r] + i] = <<r, k, i>>
  <2>1. PICK x \in 1..n : x = r + 1
    BY <1>2
  <2>2. x - 1 = r /\ s[x] = Rows(r, k, q[r])
    BY <2>1 DEF Ranks
  <2>3. off[x - 1] = off[r] /\ off[x] = off[r] + q[r]
    BY <2>2, OffsetDef
  <2>4. off[r] \in Nat /\ off[n] \in Nat
    <3>1. off \in [0..n -> Nat]
      BY OffsetDef
    <3>2. r \in 0..n /\ n \in 0..n
      BY <1>1, <2>2
    <3> HIDE DEF off
    <3>3. QED BY ONLY <3>1, <3>2
  <2>5. ASSUME NEW i \in 1..q[r] PROVE off[r] + i \in 1..Len(A) /\ A[off[r] + i] = <<r, k, i>>
    <3>1. Len(s[x]) = q[r] /\ s[x][i] = <<r, k, i>> /\ q[r] \in Nat
      BY <1>2, <2>2
    <3> HIDE DEF A, s, off, T
    <3>2. A[off[r] + i] = s[x][i]
      BY ONLY <1>5, <2>3, <3>1, i \in 1..q[r], x \in 1..n
    <3>3. off[x] <= off[n] /\ Len(A) = off[n]
      BY ONLY <1>5, x \in 1..n
    <3>4. off[r] + i \in 1..Len(A)
      BY ONLY <2>3, <2>4, <3>1, <3>3, i \in 1..q[r]
    <3>5. QED BY <3>1, <3>2, <3>4
  <2>6. QED BY <2>4, <2>5
<1>8. QED BY <1>6, <1>7

LEMMA SubSeqIs ==
  ASSUME NEW t, NEW a \in Nat, NEW n \in Nat, NEW X, NEW g, g \in [1..n -> X],
         \A i \in 1..n : t[a + i] = g[i]
  PROVE  SubSeq(t, a + 1, a + n) = g
<1> DEFINE T == {g[i] : i \in 1..n}
           lo == a + 1
           hi == a + n
           u == SubSeq(t, lo, hi)
<1>1. lo \in Int /\ hi \in Int /\ hi - lo + 1 = n /\ (lo <= hi <=> n > 0)
      /\ \A i \in 1..n : lo + i - 1 = a + i
  OBVIOUS
<1>2. \A i \in lo..hi : t[i] \in T
  <2> SUFFICES ASSUME NEW i \in lo..hi PROVE t[i] \in T
    OBVIOUS
  <2>1. i - a \in 1..n /\ a + (i - a) = i
    OBVIOUS
  <2>2. QED BY <2>1
<1> HIDE DEF T, lo, hi, u
<1>3. /\ SubSeq(t, lo, hi) \in Seq(T)
      /\ Len(SubSeq(t, lo, hi)) = IF lo <= hi THEN hi - lo + 1 ELSE 0
      /\ \A i \in 1..(hi - lo + 1) : SubSeq(t, lo, hi)[i] = t[lo + i - 1]
  BY ONLY <1>1, <1>2, SubSeqProperties
<1>4. u \in Seq(T)
  BY ONLY <1>3 DEF u
<1>5. Len(u) = n
  BY ONLY <1>1, <1>3, n \in Nat DEF u
<1>6. \A i \in 1..n : u[i] = g[i]
  <2>1. \A i \in 1..n : u[i] = t[a + i]
    BY ONLY <1>1, <1>3 DEF u
  <2>2. QED BY <2>1
<1>7. u = [i \in 1..n |-> u[i]]
  BY ONLY <1>4, <1>5
<1>8. u = g
  BY ONLY <1>6, <1>7, g \in [1..n -> X]
<1>9. QED BY ONLY <1>8 DEF u, lo, hi

\* When rank 0 comes to the scatters of a call, it has gathered all its inputs.
LEMMA InputsGathered ==
  ASSUME DistInv, Active(0), What(0) \in Scatters, NEW c, c = at[0]
  PROVE  /\ IsFwd(c) => /\ inp["hs"] = AllRows(c) /\ inp["ids"] = AllRows(c)
                        /\ inp["wts"] = AllRows(c)
         /\ ~IsFwd(c) => inp["go"] = AllRows(c)
<1>1. LenInv /\ LenTypeInv /\ InpInv /\ 0 \in Ranks /\ What(0) \in Gathers \cup Scatters
  BY ZeroRank DEF DistInv, LenInv, NetInv
<1>2. /\ c \in 1..Len(prog) /\ step[0] \in Nat /\ step[0] >= ScatterAt(Kind(c))
      /\ Kind(c) \in {"fwd", "bwd"}
  BY <1>1, CallFacts, ProgFacts
<1>3. ASSUME NEW s \in 1..5, Gathering(s, c) PROVE inp[Steps(Kind(c))[s]] = AllRows(c)
  <2>1. s < step[0]
    <3>1. ScatterAt(Kind(c)) \in Nat /\ s < ScatterAt(Kind(c))
      BY <1>3, StepBounds DEF Gathering
    <3>2. QED BY ONLY <1>2, <3>1, s \in 1..5
  <2>2. QED BY <1>1, <1>3, <2>1 DEF InpInv
<1>4. CASE IsFwd(c)
  <2>1. /\ Steps(Kind(c))[2] = "hs" /\ Steps(Kind(c))[3] = "ids" /\ Steps(Kind(c))[4] = "wts"
        /\ Gathering(2, c) /\ Gathering(3, c) /\ Gathering(4, c)
    BY ONLY <1>4 DEF IsFwd, Steps, Gathering, GatherAt, ScatterAt
  <2>2. 2 \in 1..5 /\ 3 \in 1..5 /\ 4 \in 1..5
    OBVIOUS
  <2>3. QED BY ONLY <1>3, <1>4, <2>1, <2>2
<1>5. CASE ~IsFwd(c)
  <2>1. Kind(c) = "bwd"
    BY <1>2, <1>5 DEF IsFwd
  <2>2. Steps(Kind(c))[1] = "go" /\ Gathering(1, c)
    BY ONLY <2>1 DEF Steps, Gathering, GatherAt, ScatterAt
  <2>3. 1 \in 1..5
    OBVIOUS
  <2>4. QED BY ONLY <1>3, <1>5, <2>2, <2>3
<1>6. QED BY <1>4, <1>5

\* The experts' output, row by row the input.
LEMMA ForwardIs ==
  ASSUME DistInv, Active(0), What(0) \in Scatters, NEW c, c = at[0], IsFwd(c)
  PROVE  Forward = AllRows(c)
<1>1. inp["hs"] = AllRows(c) /\ inp["ids"] = AllRows(c) /\ inp["wts"] = AllRows(c)
  BY InputsGathered
<1>2. AllRows(c) = [i \in 1..Len(AllRows(c)) |-> AllRows(c)[i]]
  <2>1. c \in 1..Len(prog) /\ Qlen(c) \in [Ranks -> Nat]
    <3>1. LenInv /\ 0 \in Ranks /\ What(0) \in Gathers \cup Scatters
      BY ZeroRank DEF DistInv
    <3>2. QED BY <3>1, CallFacts
  <2>2. QED BY <2>1, AllParts DEF AllRows
<1>3. QED BY ONLY <1>1, <1>2 DEF Forward

\* What a backward finds in the cache are the rows of its own forward.
LEMMA CacheIs ==
  ASSUME DistInv, Active(0), NEW c, c = at[0], c \in 1..Len(prog), ~IsFwd(c)
  PROVE  /\ SavedIn(prog, c) \in 1..(c - 1)
         /\ cache[prog[c].l] = AllOf(Qlen(c), SavedIn(prog, c))
<1>1. LenInv /\ LenTypeInv /\ CacheInv /\ Len(prog) \in Nat
  BY ProgFacts DEF DistInv, LenInv, NetInv
<1>2. PICK j \in 1..(c - 1) : j = SavedIn(prog, c) /\ SavesFor(prog, j, c)
  BY <1>1, SavedInFacts
<1>3. /\ IsFwd(j) /\ prog[j].save /\ prog[j].l = prog[c].l /\ prog[j].pass = prog[c].pass
      /\ \A m \in (j + 1)..(c - 1) : IsFwd(m) => prog[m].l # prog[c].l
  BY <1>2 DEF SavesFor, IsFwd, Kind
<1>4. Ran(j)
  BY DEF Ran
<1>5. ASSUME NEW m \in (j + 1)..Len(prog), IsFwd(m), prog[m].l = prog[j].l PROVE ~Ran(m)
  <2>1. m # c /\ m \notin (j + 1)..(c - 1)
    BY <1>3, <1>5
  <2>2. m > c
    BY <1>1, <2>1
  <2>3. QED BY <1>1, <2>2 DEF Ran
<1>6. j \in 1..Len(prog)
  BY <1>1
<1>7. cache[prog[j].l] = AllRows(j)
  BY <1>1, <1>3, <1>4, <1>5, <1>6 DEF CacheInv
<1>8. Qlen(j) = Qlen(c)
  BY <1>3 DEF Qlen
<1>9. QED BY <1>2, <1>3, <1>7, <1>8 DEF AllRows

\* The chunk of a rank are its own rows.
LEMMA ChunkOwn ==
  ASSUME DistInv, Active(0), What(0) \in Scatters, NEW c, c = at[0], NEW r \in Ranks
  PROVE  Chunk(Result, Lens(0), r) = Own(r, c)
<1>1. /\ c \in 1..Len(prog) /\ Lens(0) = Qlen(c) /\ Qlen(c) \in [Ranks -> Nat]
      /\ LenTypeInv
  <2>1. LenInv /\ LenTypeInv /\ 0 \in Ranks /\ What(0) \in Gathers \cup Scatters
    BY ZeroRank DEF DistInv, LenInv
  <2>2. QED BY <2>1, CallFacts
<1> DEFINE q == Qlen(c)
           A == AllOf(q, c)
           j == SavedIn(prog, c)
           B == AllOf(q, j)
           t == Result
           n == q[r]
           a == Offset(q)[r]
           g == Own(r, c)
<1>2. n \in Nat /\ a \in Nat
  BY <1>1, AllParts
<1>3. g = [i \in 1..n |-> IF IsFwd(c) THEN <<r, c, i>> ELSE <<<<r, c, i>>, <<r, j, i>>>>]
  BY DEF Own, OwnOf, Qlen, IsFwd, Kind
<1>4. \A i \in 1..n : a + i \in 1..Len(A) /\ A[a + i] = <<r, c, i>>
  BY <1>1, AllParts
<1>5. ASSUME NEW i \in 1..n PROVE t[a + i] = g[i]
  <2>1. CASE IsFwd(c)
    <3>1. t = A
      BY <2>1, ForwardIs DEF Result, Call, IsFwd, Kind, AllRows
    <3>2. g[i] = <<r, c, i>>
      BY <1>3, <2>1
    <3>3. QED BY <1>4, <3>1, <3>2
  <2>2. CASE ~IsFwd(c)
    <3>1. inp["go"] = A
      BY <2>2, InputsGathered DEF AllRows
    <3>2. cache[prog[c].l] = B
      BY <1>1, <2>2, CacheIs
    <3>3. t = Backward(prog[c].l)
      BY <2>2 DEF Result, Call, IsFwd, Kind
    <3>4. t = [x \in 1..Len(A) |-> <<A[x], B[x]>>]
      BY ONLY <3>1, <3>2, <3>3 DEF Backward
    <3>5. B[a + i] = <<r, j, i>>
      BY <1>1, AllParts
    <3>6. g[i] = <<<<r, c, i>>, <<r, j, i>>>>
      BY <1>3, <2>2
    <3> HIDE DEF t, A, B, g, j, a, n
    <3>7. A[a + i] = <<r, c, i>> /\ a + i \in 1..Len(A)
      BY ONLY <1>4, i \in 1..n
    <3>8. t[a + i] = <<A[a + i], B[a + i]>>
      BY ONLY <3>4, <3>7
    <3>9. QED BY ONLY <3>5, <3>6, <3>7, <3>8
  <2>3. QED BY <2>1, <2>2
<1>6. g = [i \in 1..n |-> g[i]]
  BY <1>3
<1> DEFINE X == {g[i] : i \in 1..n}
<1>7. g \in [1..n -> X]
  <2> HIDE DEF g, n
  <2>1. \A i \in 1..n : g[i] \in X
    OBVIOUS
  <2>2. QED BY ONLY <1>6, <2>1
<1> HIDE DEF t, g, n, a, X
<1>8. SubSeq(t, a + 1, a + n) = g
  <2>1. \A i \in 1..n : t[a + i] = g[i]
    BY ONLY <1>5
  <2>2. QED BY ONLY <1>2, <1>7, <2>1, SubSeqIs
<1>9. QED BY <1>1, <1>8 DEF Chunk, t, g, n, a

\* Rank 0 keeps the rows of a saving forward; what it kept before for another
\* layer stays.
LEMMA CacheSaved ==
  ASSUME DistInv, Active(0), What(0) \in Scatters, UNCHANGED <<prog, qlen>>, NEW c, c = at[0],
         cache' = IF Call(0).save THEN [cache EXCEPT ![Call(0).l] = Forward] ELSE cache,
         Ran(c)', \A k \in Nat : k # c => (Ran(k)' <=> Ran(k))
  PROVE  CacheInv' /\ DOMAIN cache' = DOMAIN cache
<1>1. /\ LenInv /\ LenTypeInv /\ CacheInv /\ DOMAIN cache = MoELayers /\ Len(prog) \in Nat
      /\ What(0) \in Gathers \cup Scatters /\ 0 \in Ranks
  BY ProgFacts, ZeroRank DEF DistInv, LenInv, NetInv, NetTypeInv
<1>2. c \in 1..Len(prog) /\ Call(0) = prog[c] /\ prog[c].l \in MoELayers
  BY <1>1, CallFacts, ProgFacts DEF Call
<1>3. prog[c].save => IsFwd(c)
  BY <1>1, <1>2, ProgFacts DEF Shape, IsFwd, Kind
<1>4. prog[c].save => Forward = AllRows(c)
  BY <1>3, ForwardIs
<1>5. \A j : IsFwd(j)' = IsFwd(j) /\ AllRows(j)' = AllRows(j)
  BY Unmoved
<1>6. DOMAIN cache' = DOMAIN cache
  BY <1>1, <1>2
<1>7. ASSUME NEW k \in 1..Len(prog), prog[k].save, Ran(k)',
             \A m \in (k + 1)..Len(prog) : IsFwd(m) /\ prog[m].l = prog[k].l => ~Ran(m)'
      PROVE  cache'[prog[k].l] = AllRows(k)
  <2>1. CASE k = c
    BY <1>1, <1>2, <1>4, <1>7, <2>1
  <2>2. CASE k # c
    <3>1. Ran(k) /\ k < c
      BY <1>1, <1>2, <1>7, <2>2 DEF Ran
    <3>2. prog[c].save => prog[k].l # prog[c].l
      <4>1. c \in (k + 1)..Len(prog)
        BY <1>2, <3>1
      <4>2. QED BY <1>3, <1>7, <4>1
    <3>3. \A m \in (k + 1)..Len(prog) : IsFwd(m) /\ prog[m].l = prog[k].l => ~Ran(m)
      <4>1. \A m \in (k + 1)..Len(prog) : m \in Nat
        OBVIOUS
      <4>2. QED BY <1>7, <4>1
    <3>4. cache[prog[k].l] = AllRows(k)
      BY <1>1, <1>7, <3>1, <3>3 DEF CacheInv
    <3>5. prog[k].l \in MoELayers
      BY <1>1, ProgFacts
    <3>6. cache'[prog[k].l] = cache[prog[k].l]
      BY <1>1, <1>2, <3>2, <3>5
    <3>7. QED BY <3>4, <3>6
  <2>3. QED BY <2>1, <2>2
<1>8. CacheInv'
  BY <1>5, <1>7 DEF CacheInv
<1>9. QED BY <1>6, <1>8

LEMMA SendChunksNet == ASSUME DistInv, SendChunks PROVE NetInv'
<1> DEFINE q == Lens(0)
<1>1. /\ LenInv /\ LenTypeInv /\ NetInv /\ Active(0) /\ What(0) \in Scatters /\ ~waiting[0]
      /\ What(0) \in Gathers \cup Scatters
      /\ res' = [res EXCEPT ![0] = [at |-> at[0], what |-> What(0), rows |-> Chunk(Result, q, 0)]]
      /\ chan' = [d \in Ranks \X Ranks |->
                    IF d[1] = 0 /\ d[2] # 0 /\ SendsTo(q[d[2]])
                      THEN Append(chan[d], [what |-> What(0), rows |-> Chunk(Result, q, d[2])])
                      ELSE chan[d]]
      /\ cache' = IF Call(0).save THEN [cache EXCEPT ![Call(0).l] = Forward] ELSE cache
      /\ waiting' = [waiting EXCEPT ![0] = TRUE]
      /\ UNCHANGED <<prog, qlen, eager, at, step, got, inp>>
      /\ 0 \in Ranks
  BY ZeroRank DEF DistInv, LenInv, SendChunks, Stay
<1>2. PICK c : c = at[0]
  OBVIOUS
<1> DEFINE s == step[0]
           G == GatherAt(Kind(c))
           S == ScatterAt(Kind(c))
           E == EndAt(Kind(c))
<1>3. /\ c \in 1..Len(prog) /\ s \in Nat /\ s >= S /\ s < E
      /\ Len(prog) \in Nat /\ c \in Nat /\ c >= 1
      /\ Lens(0) = Qlen(c) /\ Qlen(c) \in [Ranks -> Nat] /\ What(0) = Steps(Kind(c))[s]
      /\ ~AtQlens(0)
  BY <1>1, <1>2, CallFacts, PlaceFacts
<1>4. G \in Nat /\ S \in Nat /\ E \in Nat /\ S > 1 /\ G < S /\ S < E
  BY StepBounds
<1>5. /\ \A j : Kind(j)' = Kind(j) /\ IsFwd(j)' = IsFwd(j) /\ Qlen(j)' = Qlen(j)
                /\ AllRows(j)' = AllRows(j)
      /\ \A x, j : Own(x, j)' = Own(x, j) /\ (Involved(x, j)' <=> Involved(x, j))
  BY <1>1, Unmoved
<1>6. \A j : /\ GatherAt(Kind(j))' = GatherAt(Kind(j)) /\ ScatterAt(Kind(j))' = ScatterAt(Kind(j))
             /\ EndAt(Kind(j))' = EndAt(Kind(j))
  BY ONLY <1>5 DEF GatherAt, ScatterAt, EndAt
<1>7. /\ waiting'[0] = TRUE
      /\ \A x \in Ranks \ {0} : waiting'[x] = waiting[x]
  <2>1. waiting \in [Ranks -> BOOLEAN]
    BY <1>1 DEF LenTypeInv
  <2>2. QED BY ONLY <1>1, <2>1
<1>8. \A r \in Ranks : Chunk(Result, q, r) = Own(r, c)
  BY <1>1, <1>2, ChunkOwn
<1>9. ASSUME NEW r \in Ranks \ {0}
      PROVE  /\ chan'[<<r, 0>>] = chan[<<r, 0>>]
             /\ ~Involved(r, c) => chan'[<<0, r>>] = chan[<<0, r>>]
             /\ Involved(r, c) =>
                  chan'[<<0, r>>] = Append(chan[<<0, r>>],
                                           [what |-> Steps(Kind(c))[s], rows |-> Own(r, c)])
  <2>1. SendsTo(q[r]) <=> Involved(r, c)
    BY <1>3 DEF SendsTo, Involved
  <2>2. PICK d : d = <<0, r>>
    OBVIOUS
  <2>3. PICK b : b = <<r, 0>>
    OBVIOUS
  <2>4. /\ d \in Ranks \X Ranks /\ d[1] = 0 /\ d[2] = r
        /\ b \in Ranks \X Ranks /\ b[1] # 0
    BY <1>1, <2>2, <2>3
  <2>5. /\ chan'[b] = chan[b]
        /\ ~SendsTo(q[r]) => chan'[d] = chan[d]
        /\ SendsTo(q[r]) => chan'[d] = Append(chan[d], [what |-> What(0), rows |-> Chunk(Result, q, r)])
    <3> HIDE DEF q
    <3>1. QED BY ONLY <1>1, <2>4, r \in Ranks \ {0}
  <2>6. QED BY <1>3, <1>8, <2>1, <2>2, <2>3, <2>5
<1> HIDE DEF s, G, S, E, q
<1>10. ASSUME NEW k \in Nat, k # c
       PROVE  /\ \A x : Taken(x, k)' = Taken(x, k)
              /\ Issued(k)' = Issued(k) /\ (Ran(k)' <=> Ran(k))
  <2>1. at'[0] = at[0] /\ at[0] \in Nat /\ k # at[0]
    BY <1>1, <1>2, <1>3, <1>10
  <2>2. QED BY <1>1, <2>1, Elsewhere
<1>11. /\ \A x : Taken(x, c)' = Taken(x, c)
       /\ Issued(c) = s /\ Issued(c)' = s + 1 /\ Ran(c)'
  <2>1. /\ GatherAt(Kind(c)) = G /\ GatherAt(Kind(c))' = G
        /\ ScatterAt(Kind(c)) = S /\ ScatterAt(Kind(c))' = S
    BY <1>6 DEF G, S
  <2>2. at[0] = c /\ at'[0] = c /\ step[0] = s /\ step'[0] = s
    BY <1>1, <1>2 DEF s
  <2>3. \A x : Taken(x, c)' = Taken(x, c)
    BY ONLY <1>1, <2>1, <2>2 DEF Taken
  <2>4. Issued(c) = s /\ Issued(c)' = s + 1
    BY ONLY <1>1, <1>3, <1>4, <1>7, <2>1, <2>2 DEF Issued
  <2>5. Ran(c)'
    BY ONLY <1>3, <1>4, <1>7, <2>1, <2>2 DEF Ran, Scattering
  <2>6. QED BY <2>3, <2>4, <2>5
<1>12. \A x, k : x \in Ranks \ {0} => Sent(x, k)' = Sent(x, k) /\ Read(x, k)' = Read(x, k)
  BY <1>1, <1>7, RankStill
<1>13. ASSUME NEW r \in Ranks \ {0}, NEW k \in 1..(Len(prog) + 1),
              at[r] = k, LinkAt(r, k), BehindAt(r, k), AheadAt(r, k)
       PROVE  LinkAt(r, k)' /\ BehindAt(r, k)' /\ AheadAt(r, k)'
  <2>1. k \in Nat
    OBVIOUS
  <2>2. BehindAt(r, k)' /\ AheadAt(r, k)'
    BY ONLY <1>1, <1>5, <1>13 DEF BehindAt, AheadAt
  <2>3. CASE ~Involved(r, c)
    <3>1. Involved(r, k) => k # c
      BY <2>3
    <3>2. LinkAt(r, k)'
      BY <1>1, <1>9, <1>10, <1>12, <1>13, <2>1, <2>3, <3>1, LinkFrame
    <3>3. QED BY <2>2, <3>2
  (* A rank with rows in the call is in that call itself. *)
  <2>4. CASE Involved(r, c)
    <3>1. ~(c < k)
      BY ONLY <1>1, <1>2, <1>13, <2>4 DEF BehindAt
    <3>2. ASSUME k < c PROVE FALSE
      <4>1. CASE Involved(r, k)
        BY ONLY <1>2, <1>3, <1>4, <1>13, <3>2, <4>1 DEF AheadAt, s
      <4>2. CASE ~Involved(r, k)
        <5>1. c \in Int /\ at[r] < c /\ c <= Len(prog) /\ c = at[0]
          BY <1>2, <1>3, <1>13, <3>2
        <5>2. Involved(r, at[r]) <=> Involved(r, c)
          BY ONLY <1>1, <1>3, <5>1, SamePass, r \in Ranks \ {0}
        <5>3. QED BY <1>13, <2>4, <4>2, <5>2
      <4>3. QED BY <4>1, <4>2
    <3>3. k = c
      BY ONLY <1>3, <2>1, <3>1, <3>2
    <3>4. /\ Taken(r, c) <= Sent(r, c) /\ Read(r, c) <= s
          /\ chan[<<r, 0>>] = Queue(Kind(c), Taken(r, c), Sent(r, c), Rows(r, c, Qlen(c)[r]))
          /\ chan[<<0, r>>] = Queue(Kind(c), Read(r, c), s, Own(r, c))
      BY ONLY <1>11, <1>13, <2>4, <3>3 DEF LinkAt
    <3>5. Read(r, c) \in Nat /\ s \in Nat
      BY <1>1, <1>3, CounterTypes
    <3>6. chan'[<<0, r>>] = Queue(Kind(c), Read(r, c), s + 1, Own(r, c))
      <4>1. chan'[<<0, r>>] = Append(chan[<<0, r>>],
                                     [what |-> Steps(Kind(c))[s], rows |-> Own(r, c)])
        BY <1>9, <2>4
      <4>2. Append(Queue(Kind(c), Read(r, c), s, Own(r, c)),
                   [what |-> Steps(Kind(c))[s], rows |-> Own(r, c)])
              = Queue(Kind(c), Read(r, c), s + 1, Own(r, c))
        BY ONLY <3>4, <3>5, QueueAppend
      <4>3. QED BY ONLY <3>4, <4>1, <4>2
    <3>7. Read(r, c) <= s + 1
      BY ONLY <3>4, <3>5
    <3>8. /\ Taken(r, c)' = Taken(r, c) /\ Sent(r, c)' = Sent(r, c)
          /\ Read(r, c)' = Read(r, c) /\ Issued(c)' = s + 1
          /\ chan'[<<r, 0>>] = chan[<<r, 0>>]
      BY <1>9, <1>11, <1>12
    <3>9. LinkAt(r, c)'
      BY ONLY <1>5, <2>4, <3>4, <3>6, <3>7, <3>8 DEF LinkAt
    <3>10. QED BY <2>2, <3>3, <3>9
  <2>5. QED BY <2>3, <2>4
<1>14. RankInv'
  BY <1>1, <1>13, Rank0Move
<1>15. CacheInv' /\ DOMAIN cache' = DOMAIN cache
  BY <1>1, <1>2, <1>10, <1>11, CacheSaved
<1>16. NetTypeInv'
  <2>1. DOMAIN chan' = Ranks \X Ranks /\ DOMAIN res' = DOMAIN res
    BY ONLY <1>1
  <2>2. QED BY <1>1, <1>15, <2>1 DEF NetInv, NetTypeInv
<1>17. GotInv'
  <2>1. \A i, j : Gathering(i, j)' <=> Gathering(i, j)
    BY ONLY <1>6 DEF Gathering
  <2>2. QED BY <1>1, <1>5, <2>1 DEF NetInv, GotInv, Active
<1>18. InpInv'
  <2>1. \A i, j : Gathering(i, j)' <=> Gathering(i, j)
    BY ONLY <1>6 DEF Gathering
  <2>2. QED BY <1>1, <1>5, <2>1 DEF NetInv, InpInv, Active
<1>19. ResInv'
  <2>1. DOMAIN res = Ranks
    BY <1>1 DEF NetInv, NetTypeInv
  <2>2. /\ res'[0].at = c /\ res'[0].rows = Own(0, c)
        /\ \A r \in Ranks : r # 0 => res'[r] = res[r]
    <3>1. res' = [res EXCEPT ![0] = [at |-> c, what |-> What(0), rows |-> Own(0, c)]]
      BY <1>1, <1>2, <1>8
    <3>2. QED BY ONLY <1>1, <2>1, <3>1
  <2>3. QED BY <1>1, <1>3, <1>5, <2>2 DEF NetInv, ResInv
<1>20. QED BY <1>14, <1>15, <1>16, <1>17, <1>18, <1>19 DEF NetInv

LEMMA NetInit == DistInit => NetInv
<1> SUFFICES ASSUME DistInit PROVE NetInv
  OBVIOUS
<1>1. LenInv /\ LenTypeInv /\ 0 \in Ranks
  BY LenInit, ZeroRank DEF LenInv
<1>2. /\ \A r \in Ranks : at[r] = 1 /\ step[r] = 1 /\ ~waiting[r]
      /\ got = [r \in {} |-> <<>>] /\ eager \in BOOLEAN
      /\ chan = [d \in Ranks \X Ranks |-> <<>>]
      /\ DOMAIN inp = Gathers /\ DOMAIN cache = MoELayers /\ DOMAIN res = Ranks
      /\ \A r \in Ranks : res[r].what = "none"
  BY DEF DistInit
<1>3. \A x : x \notin DOMAIN got
  BY <1>2
<1>4. NetTypeInv
  BY <1>2, <1>3 DEF NetTypeInv
<1> DEFINE G == GatherAt(Kind(1))
           S == ScatterAt(Kind(1))
<1>5. G \in {1, 2} /\ S \in Nat /\ S > 1
  BY StepBounds
<1>6. ASSUME NEW r \in Ranks \ {0}, NEW k \in 1..(Len(prog) + 1), at[r] = k PROVE RankAt(r, k)
  <2>1. k = 1 /\ at[0] = 1 /\ step[0] = 1 /\ step[r] = 1 /\ ~waiting[r] /\ ~waiting[0]
    BY <1>1, <1>2, <1>6
  <2>2. /\ Taken(r, 1) = G /\ Sent(r, 1) = G /\ Read(r, 1) = S /\ Issued(1) = S
    <3>1. GatherAt(Kind(1)) = G /\ ScatterAt(Kind(1)) = S
      OBVIOUS
    <3> HIDE DEF G, S
    <3>2. QED BY ONLY <1>3, <1>5, <2>1, <3>1 DEF Taken, Sent, Read, Issued
  <2>3. chan[<<r, 0>>] = <<>> /\ chan[<<0, r>>] = <<>>
    BY <1>1, <1>2
  <2>4. \A rows : Queue(Kind(1), G, G, rows) = <<>> /\ Queue(Kind(1), S, S, rows) = <<>>
    BY <1>5, QueueEmpty
  <2>5. LinkAt(r, 1)
    <3> HIDE DEF G, S
    <3>1. G <= G /\ S <= S
      BY ONLY <1>5
    <3>2. QED BY ONLY <2>2, <2>3, <2>4, <3>1 DEF LinkAt
  <2>6. BehindAt(r, 1) /\ AheadAt(r, 1)
    BY <2>1 DEF BehindAt, AheadAt
  <2>7. QED BY <2>1, <2>5, <2>6 DEF RankAt
<1>7. RankInv
  BY <1>6 DEF RankInv
<1>8. GotInv
  BY <1>3 DEF GotInv
<1>9. InpInv
  BY <1>1, <1>2 DEF InpInv
<1>10. CacheInv
  <2> SUFFICES ASSUME NEW k \in 1..Len(prog) PROVE ~Ran(k)
    BY DEF CacheInv
  <2>1. at[0] = 1 /\ step[0] = 1 /\ ~(k < 1)
    BY <1>1, <1>2
  <2>2. k = 1 => ~(1 >= ScatterAt(Kind(k)))
    BY <1>5
  <2>3. QED BY ONLY <2>1, <2>2 DEF Ran, Scattering
<1>11. ResInv
  BY <1>2 DEF ResInv
<1>12. QED BY <1>4, <1>7, <1>8, <1>9, <1>10, <1>11 DEF NetInv

\* Every step but those of the collective leaves the lengths as they are.
LEMMA LenNext == ASSUME LenInv, NEW r \in Ranks, RankStep(r) PROVE LenInv'
<1>1. LenTypeInv /\ 0 \in Ranks
  BY ZeroRank DEF LenInv
<1>2. CASE PostQlen(r)
  BY <1>2, PostQlenLen
<1>3. CASE AwaitQlens(r)
  BY <1>3, AwaitQlensLen
<1>4. ASSUME NEW x \in Ranks, Active(x), What(x) \in Gathers \cup Scatters,
             UNCHANGED <<prog, qlen, posted, known, ctx>>,
             \/ Advance(x)
             \/ UNCHANGED <<at, step>> /\ waiting' = [waiting EXCEPT ![x] = TRUE]
             \/ UNCHANGED <<at, step, waiting>>
      PROVE  LenInv'
  <2>1. ~AtQlens(x)
    BY <1>4, CallFacts
  <2>2. QED BY <1>4, <2>1, LenMove
<1>5. CASE SendRows(r)
  BY <1>4, <1>5 DEF SendRows, Stay, lenVars
<1>6. CASE SendWaited(r)
  BY <1>4, <1>6 DEF SendWaited, Stay, lenVars
<1>7. CASE SkipTransfer(r)
  BY <1>4, <1>7 DEF SkipTransfer, Stay, lenVars
<1>8. CASE RecvChunk(r)
  BY <1>4, <1>8 DEF RecvChunk, Stay, lenVars
<1>9. CASE GatherDone
  BY <1>1, <1>4, <1>9 DEF GatherDone, Stay, lenVars
<1>10. CASE SendChunks
  BY <1>1, <1>4, <1>10 DEF SendChunks, Stay, lenVars
<1>11. CASE ChunksWaited
  BY <1>1, <1>4, <1>11 DEF ChunksWaited, Stay, lenVars
<1>12. ASSUME NEW src \in Ranks, RecvRows(src) PROVE LenInv'
  BY <1>1, <1>4, <1>12 DEF RecvRows, Stay, lenVars
<1>13. QED BY <1>2, <1>3, <1>5, <1>6, <1>7, <1>8, <1>9, <1>10, <1>11, <1>12 DEF RankStep, Rank0Step

LEMMA NetNext == ASSUME DistInv, NEW r \in Ranks, RankStep(r) PROVE NetInv'
<1>1. 0 \in Ranks
  BY ZeroRank
<1>2. CASE PostQlen(r)
  BY <1>1, <1>2, PostQlenRank, PostQlen0
<1>3. CASE AwaitQlens(r)
  BY <1>1, <1>3, AwaitQlensRank, AwaitQlens0
<1>4. CASE SendRows(r)
  BY <1>4, SendRowsNet
<1>5. CASE SendWaited(r)
  BY <1>5, SendWaitedNet
<1>6. CASE SkipTransfer(r)
  BY <1>6, SkipTransferNet
<1>7. CASE RecvChunk(r)
  BY <1>7, RecvChunkNet
<1>8. CASE GatherDone
  BY <1>8, GatherDoneNet
<1>9. CASE SendChunks
  BY <1>9, SendChunksNet
<1>10. CASE ChunksWaited
  BY <1>1, <1>10, ChunksWaitedNet
<1>11. ASSUME NEW src \in Ranks, RecvRows(src) PROVE NetInv'
  BY <1>11, RecvRowsNet
<1>12. QED BY <1>2, <1>3, <1>4, <1>5, <1>6, <1>7, <1>8, <1>9, <1>10, <1>11 DEF RankStep, Rank0Step

LEMMA DistStutter == ASSUME DistInv, UNCHANGED distVars PROVE DistInv'
<1>1. /\ UNCHANGED <<prog, eager, qlen, at, step, waiting, posted, known, ctx>>
      /\ UNCHANGED <<chan, got, inp, cache, res>>
  BY DEF distVars, lenVars, netVars
<1>2. LenInv'
  <2>1. /\ \A k : IsFwd(k)' = IsFwd(k) /\ Kind(k)' = Kind(k) /\ Qlen(k)' = Qlen(k)
        /\ \A k : FwdsTo(k)' = FwdsTo(k)
        /\ \A r : PostedFor(r)' = PostedFor(r)
        /\ \A r, k : Past(r, k)' <=> Past(r, k)
        /\ \A r : Active(r)' <=> Active(r)
    BY ONLY <1>1 DEF IsFwd, Kind, Qlen, FwdsTo, PostedFor, Past, Active
  <2>2. LenTypeInv'
    BY <1>1, <2>1 DEF DistInv, LenInv, LenTypeInv, EndAt
  <2>3. PostedInv'
    BY <1>1, <2>1 DEF DistInv, LenInv, PostedInv
  <2>4. BarrierInv'
    BY <1>1, <2>1 DEF DistInv, LenInv, BarrierInv
  <2>5. KnownInv'
    BY <1>1, <2>1 DEF DistInv, LenInv, KnownInv
  <2>6. CtxInv'
    BY <1>1, <2>1 DEF DistInv, LenInv, CtxInv
  <2>7. QED BY <2>2, <2>3, <2>4, <2>5, <2>6 DEF LenInv
<1>3. /\ \A k : Kind(k)' = Kind(k) /\ IsFwd(k)' = IsFwd(k) /\ Qlen(k)' = Qlen(k)
                /\ AllRows(k)' = AllRows(k)
      /\ \A r, k : Own(r, k)' = Own(r, k)
      /\ \A r, k : Involved(r, k)' <=> Involved(r, k)
  BY <1>1, Unmoved
<1>4. \A k : /\ GatherAt(Kind(k))' = GatherAt(Kind(k)) /\ ScatterAt(Kind(k))' = ScatterAt(Kind(k))
             /\ EndAt(Kind(k))' = EndAt(Kind(k))
  BY ONLY <1>3 DEF GatherAt, ScatterAt, EndAt
<1>5. /\ \A r, k : Taken(r, k)' = Taken(r, k) /\ Sent(r, k)' = Sent(r, k) /\ Read(r, k)' = Read(r, k)
      /\ \A k : Issued(k)' = Issued(k) /\ (Ran(k)' <=> Ran(k))
  BY ONLY <1>1, <1>4 DEF Taken, Sent, Read, Issued, Ran, Scattering
<1>6. \A r, k : RankAt(r, k) => RankAt(r, k)'
  <2> SUFFICES ASSUME NEW r, NEW k, LinkAt(r, k), BehindAt(r, k), AheadAt(r, k) PROVE RankAt(r, k)'
    BY DEF RankAt
  <2>1. LinkAt(r, k)'
    BY <1>1, <1>5, LinkFrame
  <2>2. BehindAt(r, k)' /\ AheadAt(r, k)'
    BY <1>1, NearFrame
  <2>3. QED BY <2>1, <2>2 DEF RankAt
<1>7. RankInv'
  BY <1>1, <1>6 DEF DistInv, NetInv, RankInv
<1>8. NetTypeInv' /\ ResInv'
  BY <1>1, <1>3 DEF DistInv, NetInv, NetTypeInv, ResInv
<1>9. GotInv' /\ InpInv'
  <2>1. \A i, j : Gathering(i, j)' <=> Gathering(i, j)
    BY ONLY <1>4 DEF Gathering
  <2>2. QED BY <1>1, <1>3, <2>1 DEF DistInv, NetInv, GotInv, InpInv, Active
<1>10. CacheInv'
  BY <1>1, <1>5, CacheKept DEF DistInv, LenInv, NetInv
<1>11. QED BY <1>2, <1>7, <1>8, <1>9, <1>10 DEF DistInv, NetInv

LEMMA DistInvariance == DistSpec => []DistInv
<1>1. DistInit => DistInv
  BY LenInit, NetInit DEF DistInv
<1>2. DistInv /\ [DistNext]_distVars => DistInv'
  <2> SUFFICES ASSUME DistInv, [DistNext]_distVars PROVE DistInv'
    OBVIOUS
  <2>1. ASSUME NEW r \in Ranks, RankStep(r) PROVE DistInv'
    <3>1. LenInv'
      BY <2>1, LenNext DEF DistInv
    <3>2. NetInv'
      BY <2>1, NetNext
    <3>3. QED BY <3>1, <3>2 DEF DistInv
  <2>2. CASE UNCHANGED distVars
    BY <2>2, DistStutter
  <2>3. QED BY <2>1, <2>2 DEF DistNext
<1>3. QED BY <1>1, <1>2, PTL DEF DistSpec

-----------------------------------------------------------------------------
(* The theorems *)

LEMMA RowCounts ==
  ASSUME NEW r, NEW k, NEW n \in Nat
  PROVE  /\ Len(Rows(r, k, n)) = n
         /\ Qlen(k)[r] = n => Len(Own(r, k)) = n
<1>1. Len(Rows(r, k, n)) = n
  BY DEF Rows
<1>2. ASSUME Qlen(k)[r] = n PROVE Len(Own(r, k)) = n
  <2> DEFINE F(i) == IF prog[k].kind = "fwd" THEN <<r, k, i>>
                     ELSE <<<<r, k, i>>, <<r, SavedIn(prog, k), i>>>>
  <2>1. Own(r, k) = [i \in 1..n |-> F(i)]
    BY <1>2 DEF Own, OwnOf, Qlen
  <2> HIDE DEF F
  <2>2. Len([i \in 1..n |-> F(i)]) = n
    OBVIOUS
  <2>3. QED BY ONLY <2>1, <2>2
<1>3. QED BY <1>1, <1>2

LEMMA DistMatched == ASSUME DistInv PROVE Matched
<1>1. LenInv /\ LenTypeInv /\ NetInv
  BY DEF DistInv, LenInv
<1>2. ASSUME NEW r \in Ranks \ {0}, chan[<<0, r>>] # <<>>, Active(r), What(r) \in Scatters
      PROVE  Head(chan[<<0, r>>]).what = What(r) /\ Len(Head(chan[<<0, r>>]).rows) = Lens(r)[r]
  <2>1. PICK k : k = at[r]
    OBVIOUS
  <2>2. /\ k \in 1..Len(prog) /\ Qlen(k)[r] \in Nat /\ Lens(r) = Qlen(k)
        /\ What(r) = Steps(Kind(k))[step[r]]
        /\ step[r] \in Nat /\ step[r] >= ScatterAt(Kind(k))
    <3>1. What(r) \in Gathers \cup Scatters
      BY <1>2
    <3>2. QED BY <1>1, <1>2, <2>1, <3>1, CallFacts
  <2>3. LinkAt(r, k)
    <3>1. k \in 1..(Len(prog) + 1)
      BY <1>1, <2>2, ProgFacts
    <3>2. QED BY <1>1, <2>1, <3>1 DEF NetInv, RankInv, RankAt
  <2>4. chan[<<0, r>>] = Queue(Kind(k), Read(r, k), Issued(k), Own(r, k))
    BY <1>2, <2>3 DEF LinkAt
  <2>5. Read(r, k) = step[r] /\ Read(r, k) \in Nat /\ Issued(k) \in Nat
    <3>1. ScatterAt(Kind(k)) \in Nat
      BY StepBounds
    <3>2. Read(r, k) = step[r]
      BY ONLY <2>2, <3>1 DEF Read
    <3>3. QED BY <1>1, <3>2, CounterTypes
  <2>6. /\ Head(chan[<<0, r>>]).what = Steps(Kind(k))[step[r]]
        /\ Head(chan[<<0, r>>]).rows = Own(r, k)
    BY ONLY <1>2, <2>4, <2>5, QueueHead
  <2>7. Len(Own(r, k)) = Qlen(k)[r]
    BY <2>2, RowCounts
  <2>8. QED BY <2>2, <2>6, <2>7
<1>3. ASSUME NEW r \in Ranks \ {0}, chan[<<r, 0>>] # <<>>, Active(0), What(0) \in Gathers,
             r \notin DOMAIN got
      PROVE  Head(chan[<<r, 0>>]).what = What(0) /\ Len(Head(chan[<<r, 0>>]).rows) = Lens(0)[r]
  <2>1. PICK c : c = at[0]
    OBVIOUS
  <2>2. /\ Qlen(c) \in [Ranks -> Nat] /\ Lens(0) = Qlen(c)
        /\ What(0) = Steps(Kind(c))[step[0]]
    <3>1. What(0) \in Gathers \cup Scatters /\ 0 \in Ranks
      BY <1>3, ZeroRank
    <3>2. QED BY <1>1, <1>3, <2>1, <3>1, CallFacts
  <2>3. /\ Head(chan[<<r, 0>>]).what = Steps(Kind(c))[step[0]]
        /\ Head(chan[<<r, 0>>]).rows = Rows(r, c, Qlen(c)[r])
    BY <1>3, <2>1, FromHere
  <2>4. Len(Rows(r, c, Qlen(c)[r])) = Qlen(c)[r]
    BY <2>2, RowCounts
  <2>5. QED BY <2>2, <2>3, <2>4
<1>4. QED BY <1>2, <1>3 DEF Matched

\* Ranks and layers in any number, with any lengths: transfers are matched by
\* the order of issue alone, and still each is taken for the tensor it was sent
\* as, with the number of rows the receiver made room for.  The lengths each
\* side goes by are its own copies, gathered at another time.
THEOREM MatchedSafe == DistSpec => []Matched
<1>1. DistInv => Matched
  BY DistMatched
<1>2. QED BY <1>1, DistInvariance, PTL

\* A rank gets back the rows of its own tokens, in their order and for the call
\* it made; in a backward, paired with the activations of the forward that saved
\* for it, although the cache is overwritten by every saving forward of the layer.
THEOREM OwnRowsSafe == DistSpec => []OwnRows
<1>1. DistInv => OwnRows
  <2> SUFFICES ASSUME DistInv, NEW r \in Ranks, res[r].what # "none", NEW k, k = res[r].at
               PROVE  res[r].rows =
                        [i \in 1..qlen[prog[k].pass][r] |->
                           IF prog[k].kind = "fwd" THEN <<r, k, i>>
                           ELSE <<<<r, k, i>>, <<r, SavedBy(k), i>>>>]
    BY DEF OwnRows
  <2>1. res[r].rows = Own(r, k)
    BY DEF DistInv, NetInv, ResInv
  <2>2. SavedBy(k) = SavedIn(prog, k)
    BY DEF SavedBy, SavedIn
  <2>3. QED BY <2>1, <2>2 DEF Own, OwnOf
<1>2. QED BY <1>1, DistInvariance, PTL

=============================================================================
