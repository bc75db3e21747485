-------------------------------- MODULE TPMoE -------------------------------
(***************************************************************************)
(* One forward pass of a layer's experts on the CPU: TP_MOE                *)
(* (operators/moe-tp.hpp) over the AMX parts of AMX_MOE_BASE               *)
(* (operators/amx/moe_base.hpp), one part per NUMA node.                   *)
(*                                                                         *)
(* Each part sorts the rows of the tokens by expert, lays them out in      *)
(* scratch memory that all layers of its node share, and runs a chain of   *)
(* jobs over it on its own pool; the partial outputs are then merged.      *)
(*                                                                         *)
(* Numbers are terms: what a kernel computes from a row is a term over     *)
(* what it read, and a sum is the bag of its summands.  A pool is used     *)
(* through what ParallelFor promises, with tasks claimed in ascending      *)
(* order; the participants hold at most Threads of them at a time.         *)
(***************************************************************************)
EXTENDS Integers, Sequences, FiniteSets, Bags

Fn == INSTANCE Functions

CONSTANTS NumaCount,    \* tp_count
          Threads,      \* threads of each node's pool
          ExpertNum,    \* config.expert_num
          GpuExperts,   \* gpu_experts_mask
          MaxLen,       \* config.max_len
          TopK,         \* config.num_experts_per_tok, and k of every call
          MStep,        \* T::M_STEP
          GateUpNth,    \* recommended_nth(intermediate_size)
          DownNth,      \* recommended_nth(hidden_size)
          DirectBelow,  \* calls of fewer tokens run their short jobs directly
          RowBytes,     \* bytes of a buffer row
          Line,         \* the 64 of align64
          Routes        \* the rows expert_ids[i] that calls may contain

ASSUME SizeAssumption ==
  /\ {NumaCount, Threads, ExpertNum, MaxLen, TopK} \subseteq Nat \ {0}
  /\ {MStep, GateUpNth, DownNth, RowBytes, Line} \subseteq Nat \ {0}
  /\ DirectBelow \in Nat
  /\ MaxLen % MStep = 0           \* BufferAImpl throws otherwise

Numa == 0..(NumaCount - 1)
Expert == 0..(ExpertNum - 1)

(* -1 stands for every id out of range: an expert that was deferred, or    *)
(* that the caller masked.                                                 *)
ShouldSkip(e) == e \notin Expert \/ e \in GpuExperts

(* A row of topk ids names no expert twice. *)
ASSUME RouteAssumption ==
  /\ GpuExperts \subseteq Expert
  /\ \A r \in Routes : /\ r \in [1..TopK -> Expert \cup {-1}]
                       /\ \A i, j \in 1..TopK : r[i] = r[j] /\ i # j => ShouldSkip(r[i])

VARIABLES cpc,     \* the thread that called forward
          call,    \* its arguments
          plan,    \* [n]: m_local_num_, m_local_pos_, m_expert_id_map_, pointers
          job,     \* [n]: the job in progress, its counter and the tasks held
          mem,     \* [n]: the arena of shared_mem_buffer_numa for part n
          local,   \* local_output_numa
          output   \* the caller's buffer

passVars == <<cpc, call, plan, job, mem, local, output>>

Row == 0..(MaxLen * TopK - 1)

(* pool_count_; mutant: no room for the padding of each expert. *)
NoPadding == MaxLen * TopK
PoolCount == MaxLen * TopK + ExpertNum * MStep

Junk == <<"junk">>       \* left by an earlier call or another layer
Before == <<"before">>   \* what the caller's buffer held

Leftover == [in   |-> [r \in Row |-> Junk],
             gate |-> [r \in Row |-> [s \in 0..(GateUpNth - 1) |-> Junk]],
             up   |-> [r \in Row |-> [s \in 0..(GateUpNth - 1) |-> Junk]],
             down |-> [r \in Row |-> [s \in 0..(DownNth - 1) |-> Junk]],
             gate_up_ba |-> [r \in 0..(PoolCount - 1) |-> Junk],
             down_ba    |-> [r \in 0..(PoolCount - 1) |-> Junk]]

NoJob == [phase |-> "none", next |-> 0, held |-> {}]
NoPlan == [num |-> [e \in Expert |-> 0], pos |-> <<>>, map |-> <<>>,
           row |-> <<>>, ba |-> <<>>]
NoCall == [qlen |-> 0, ids |-> <<>>, incremental |-> FALSE]

PassInit ==
        /\ cpc = "idle" /\ call = NoCall
        /\ plan = [n \in Numa |-> NoPlan]
        /\ job = [n \in Numa |-> NoJob]
        /\ mem = [n \in Numa |-> Leftover]
        /\ local = [n \in Numa |-> [i \in 0..(MaxLen - 1) |-> SetToBag({Junk})]]
        /\ output = [i \in 0..(MaxLen - 1) |-> SetToBag({Before})]

-----------------------------------------------------------------------------
(* The layout *)

MaxM(m) == ((m + MStep - 1) \div MStep) * MStep

(* A running offset: before the first entry, and after each *)
Offsets(size) ==
  LET at[k \in 0..Len(size)] == IF k = 0 THEN 0 ELSE at[k - 1] + size[k]
  IN  at

(* Where the entries of the experts with rows begin, in the order of order *)
SizesIn(order, size) ==
  [k \in 1..Len(order) |-> IF ShouldSkip(order[k]) THEN 0 ELSE size[order[k]]]
Place(order, size) ==
  [e \in {d \in Expert \ GpuExperts : size[d] > 0} |->
     Offsets(SizesIn(order, size))[(CHOOSE k \in 1..Len(order) : order[k] = e) - 1]]

(* The experts with rows: m_expert_id_map_[activated_expert++] = id *)
Activated(order, num) ==
  LET to[k \in 0..Len(order)] ==
        IF k = 0 THEN <<>>
        ELSE IF ~ShouldSkip(order[k]) /\ num[order[k]] > 0
          THEN Append(to[k - 1], order[k])
          ELSE to[k - 1]
  IN  to[Len(order)]

Layout(num, pos, order) ==
  [num |-> num, pos |-> pos, map |-> Activated(order, num),
   row |-> Place(order, num),
   ba  |-> Place(order, [e \in Expert |-> MaxM(num[e])])]

(* Positions <<i, j>> of expert_ids that are not skipped *)
Routed(ids) == {x \in (DOMAIN ids) \X (1..TopK) : ~ShouldSkip(ids[x[1]][x[2]])}
Id(ids, x) == ids[x[1]][x[2]]
RoutedTo(ids, e) == {x \in Routed(ids) : Id(ids, x) = e}

(* forward_prefill: the counts start from 0, and each routed position      *)
(* takes m_local_pos_[i][j] = m_local_num_[id]++.  The experts come in the *)
(* order of their ids.                                                     *)
PrefillPlan(ids) ==
  LET Earlier(x) == {y \in RoutedTo(ids, Id(ids, x)) :
                       y[1] < x[1] \/ (y[1] = x[1] /\ y[2] < x[2])}
  IN  Layout([e \in Expert |-> Cardinality(RoutedTo(ids, e))],
             [x \in Routed(ids) |-> Cardinality(Earlier(x))],
             [k \in 1..ExpertNum |-> k - 1])

(* forward_decode: one row for each expert, in the order of the ids *)
DecodePlan(ids) ==
  Layout([e \in Expert |-> IF RoutedTo(ids, e) # {} THEN 1 ELSE 0],
         [x \in Routed(ids) |-> 0], ids[0])

-----------------------------------------------------------------------------
(* The jobs of a part *)
After(phase) ==
  CASE phase = "copy"   -> "gate_up_ba"
    [] phase = "gate_up_ba" -> "gate_up"
    [] phase = "gate_up" -> "act"
    [] phase = "act"    -> "down_ba"
    [] phase = "down_ba" -> "down"
    [] phase = "down"   -> "sum"
    [] phase = "sum"    -> "done"

TaskCount(n) ==
  LET active == Len(plan[n].map)
  IN  CASE job[n].phase \in {"copy", "sum", "merge"} -> call.qlen
        [] job[n].phase \in {"gate_up_ba", "down_ba"} -> active
        [] job[n].phase = "gate_up" -> GateUpNth * active * 2
        [] job[n].phase = "act"  -> GateUpNth * active
        [] job[n].phase = "down" -> DownNth * active
        [] job[n].phase \in {"none", "done"} -> 0

(* direct_or_pool: a short job of a short call is a loop of the caller. *)
Participants(n) ==
  IF job[n].phase \in {"copy", "gate_up_ba", "act", "merge"} /\ call.qlen < DirectBelow
    THEN 1 ELSE Threads

(* What the kernels compute, on node n's slice of expert e's weights *)
Gate(n, e, x) == <<"gate", n, e, x>>
Up(n, e, x) == <<"up", n, e, x>>
Act(g, u) == <<"act", g, u>>
Down(n, e, x) == <<"down", n, e, x>>

(* A kernel that reads a whole row needs all of its slices. *)
Whole(slices) == LET V == {slices[s] : s \in DOMAIN slices}
                 IN  IF Cardinality(V) = 1 THEN CHOOSE v \in V : TRUE ELSE Junk

(* buf with val[r] in row first + r, for each r of val *)
Put(buf, first, val) ==
  [x \in DOMAIN buf |-> IF x - first \in DOMAIN val THEN val[x - first] ELSE buf[x]]
PutSlice(buf, first, s, val) ==
  [x \in DOMAIN buf |->
     IF x - first \in DOMAIN val THEN [buf[x] EXCEPT ![s] = val[x - first]] ELSE buf[x]]

(* What task k of a part's job leaves in the arena m *)
CopyInput(n, m, k) ==
  LET mine == {x \in Routed(call.ids) : x[1] = k}
      to(x) == plan[n].row[Id(call.ids, x)] + plan[n].pos[x]
  IN  [m EXCEPT !.in = [r \in Row |-> IF \E x \in mine : to(x) = r
                                        THEN <<"token", k>> ELSE m.in[r]]]

(* One token needs no sorting: its row is read where it is. *)
QuantizeInput(n, m, k) ==
  LET e == plan[n].map[k + 1]
  IN  [m EXCEPT !.gate_up_ba =
         Put(@, plan[n].ba[e], [r \in 0..(plan[n].num[e] - 1) |->
               IF call.qlen > 1 THEN m.in[plan[n].row[e] + r] ELSE <<"token", 0>>])]

GateUp(n, m, k) ==
  LET e == plan[n].map[(k \div 2) \div GateUpNth + 1]
      s == (k \div 2) % GateUpNth
      x == [r \in 0..(plan[n].num[e] - 1) |-> m.gate_up_ba[plan[n].ba[e] + r]]
  IN  IF k % 2 = 1
        THEN [m EXCEPT !.up = PutSlice(@, plan[n].row[e], s,
                                       [r \in DOMAIN x |-> Up(n, e, x[r])])]
        ELSE [m EXCEPT !.gate = PutSlice(@, plan[n].row[e], s,
                                         [r \in DOMAIN x |-> Gate(n, e, x[r])])]

(* apply_activation, in place *)
Activate(n, m, k) ==
  LET e == plan[n].map[k \div GateUpNth + 1]
      s == k % GateUpNth
      first == plan[n].row[e]
  IN  [m EXCEPT !.gate = PutSlice(@, first, s,
         [r \in 0..(plan[n].num[e] - 1) |-> Act(m.gate[first + r][s], m.up[first + r][s])])]

QuantizeDown(n, m, k) ==
  LET e == plan[n].map[k + 1]
  IN  [m EXCEPT !.down_ba = Put(@, plan[n].ba[e], [r \in 0..(plan[n].num[e] - 1) |->
                                  Whole(m.gate[plan[n].row[e] + r])])]

DownGemm(n, m, k) ==
  LET e == plan[n].map[k \div DownNth + 1]
  IN  [m EXCEPT !.down = PutSlice(@, plan[n].row[e], k % DownNth,
         [r \in 0..(plan[n].num[e] - 1) |-> Down(n, e, m.down_ba[plan[n].ba[e] + r])])]

(* The weighted sum of token i; the weight is named by its place j. *)
Weighted(n, m, i) ==
  SetToBag({<<x[2], Whole(m.down[plan[n].row[Id(call.ids, x)] + plan[n].pos[x]])>> :
              x \in {y \in Routed(call.ids) : y[1] = i}})

(* merge_results for token i: everything is added up in the first part's   *)
(* buffer.                                                                 *)
Merged(i) ==
  Fn!FoldFunctionOnSet(LAMBDA a, b : a (+) b,
                       local[0][i] (+) (IF call.incremental THEN output[i] ELSE EmptyBag),
                       [n \in Numa |-> local[n][i]], 1..(NumaCount - 1))

-----------------------------------------------------------------------------
(* forward, and the start of do_numa_job: each part prepares its tables,   *)
(* which touches nothing that another part sees.                           *)
Forward ==
  /\ cpc = "idle"
  /\ \E qlen \in 1..MaxLen : \E ids \in [0..(qlen - 1) -> Routes] :
       /\ call' = [qlen |-> qlen, ids |-> ids, incremental |-> FALSE]
       /\ plan' = [n \in Numa |-> IF qlen > 1 THEN PrefillPlan(ids) ELSE DecodePlan(ids)]
       /\ job' = [n \in Numa |-> [NoJob EXCEPT !.phase = IF qlen > 1 THEN "copy" ELSE "gate_up_ba"]]
  /\ cpc' = "parts"
  /\ UNCHANGED <<mem, local, output>>

Claim(n) ==
  /\ job[n].next < TaskCount(n)
  /\ Cardinality(job[n].held) < Participants(n)
  /\ job' = [job EXCEPT ![n].next = @ + 1, ![n].held = @ \cup {job[n].next}]
  /\ UNCHANGED <<cpc, call, plan, mem, local, output>>

(* compute_func(k) *)
Work(n) ==
  \E k \in job[n].held :
    /\ job' = [job EXCEPT ![n].held = @ \ {k}]
    /\ LET f(m) == CASE job[n].phase = "copy" -> CopyInput(n, m, k)
                     [] job[n].phase = "gate_up_ba" -> QuantizeInput(n, m, k)
                     [] job[n].phase = "gate_up" -> GateUp(n, m, k)
                     [] job[n].phase = "act" -> Activate(n, m, k)
                     [] job[n].phase = "down_ba" -> QuantizeDown(n, m, k)
                     [] job[n].phase = "down" -> DownGemm(n, m, k)
                     [] OTHER -> m
       IN  mem' = [mem EXCEPT ![n] = f(@)]
    /\ local' = CASE job[n].phase = "sum" ->
                       [local EXCEPT ![n][k] = Weighted(n, mem[n], k)]
                  [] job[n].phase = "merge" -> [local EXCEPT ![0][k] = Merged(k)]
                  [] OTHER -> local
    /\ output' = IF job[n].phase = "merge" THEN [output EXCEPT ![k] = Merged(k)] ELSE output
    /\ UNCHANGED <<cpc, call, plan>>

(* Mutant of JobOver: the part goes on while other threads still work. *)
AllClaimed(n) == job[n].next >= TaskCount(n)
JobOver(n) == job[n].next >= TaskCount(n) /\ job[n].held = {}

Advance(n) ==
  /\ job[n].phase \notin {"none", "done", "merge"} /\ JobOver(n)
  /\ job' = [job EXCEPT ![n] = [NoJob EXCEPT !.phase = After(job[n].phase)]]
  /\ UNCHANGED <<cpc, call, plan, mem, local, output>>

(* do_numa_job returns; merge_results begins, on the pool of node 0.  The  *)
(* argument incremental, which is first looked at here, is chosen here.    *)
StartMerge ==
  /\ cpc = "parts" /\ \A n \in Numa : job[n].phase = "done"
  /\ cpc' = "merge"
  /\ \E inc \in BOOLEAN : call' = [call EXCEPT !.incremental = inc]
  /\ job' = [n \in Numa |-> IF n = 0 THEN [NoJob EXCEPT !.phase = "merge"] ELSE NoJob]
  /\ UNCHANGED <<plan, mem, local, output>>

EndMerge ==
  /\ cpc = "merge" /\ JobOver(0)
  /\ cpc' = "return"
  /\ job' = [n \in Numa |-> NoJob]
  /\ UNCHANGED <<call, plan, mem, local, output>>

(* Then other layers use the arenas, and the caller takes the output.      *)
(* The next call clears the counts; entries it does not set are not read.  *)
Return ==
  /\ cpc = "return"
  /\ cpc' = "idle" /\ call' = NoCall
  /\ plan' = [n \in Numa |-> NoPlan]
  /\ mem' = [n \in Numa |-> Leftover]
  /\ local' = [n \in Numa |-> [i \in 0..(MaxLen - 1) |-> SetToBag({Junk})]]
  /\ output' = [i \in 0..(MaxLen - 1) |-> SetToBag({Before})]
  /\ UNCHANGED job

PartStep(n) == Claim(n) \/ Work(n) \/ Advance(n)
CallStep == StartMerge \/ EndMerge \/ Return

PassNext == Forward \/ CallStep \/ \E n \in Numa : PartStep(n)

PassSpec == PassInit /\ [][PassNext]_passVars

-----------------------------------------------------------------------------
(* Each token's output is the weighted sum of what its own experts compute *)
(* from its own input, each part of the intermediate dimension counted     *)
(* once, over the previous content only for an incremental call; rows past *)
(* the batch are not touched.  Jobs that share memory without a lock, the  *)
(* arenas of the nodes and the leftovers in them do not show.              *)
Term(n, e, i) == LET x == <<"token", i>> IN Down(n, e, Act(Gate(n, e, x), Up(n, e, x)))
Expected(i) ==
  SetToBag({<<x[2], Term(n, Id(call.ids, x), i)>> :
              x \in {y \in Routed(call.ids) : y[1] = i}, n \in Numa})
    (+) (IF call.incremental THEN SetToBag({Before}) ELSE EmptyBag)

OutputWhole ==
  cpc = "return" => \A i \in 0..(MaxLen - 1) :
                      output[i] = IF i < call.qlen THEN Expected(i) ELSE SetToBag({Before})

(* The assertions of forward_prefill and forward_decode: what the experts  *)
(* of any batch take from the pools is there, with the padding of each to  *)
(* whole blocks of M_STEP rows and its alignment.  Moreover rows of        *)
(* different experts are apart, and so are the blocks their kernels read   *)
(* and write; none leaves the buffers.                                     *)
Need(m) == m * RowBytes
Align(v) == ((v + Line - 1) \div Line) * Line
PoolBytes == Need(PoolCount) + PoolCount * Line
Bytes(n) ==
  Offsets([k \in 1..ExpertNum |-> Align(Need(MaxM(plan[n].num[k - 1])))])[ExpertNum]

Apart(at, size, bound) ==
  \A e, f \in DOMAIN at :
    /\ at[e] + size[e] <= bound
    /\ e # f => at[e] + size[e] <= at[f] \/ at[f] + size[f] <= at[e]
Blocks(m) == CHOOSE b \in m..(m + MStep - 1) : b % MStep = 0
RegionsApart ==
  cpc = "parts" => \A n \in Numa :
    LET num == plan[n].num
    IN  /\ Bytes(n) <= PoolBytes
        /\ Apart(plan[n].row, num, MaxLen * TopK)
        /\ Apart(plan[n].ba, [e \in Expert |-> Blocks(num[e])], PoolCount)
=============================================================================
