---------------------------- MODULE ExpertsProofs ---------------------------
(***************************************************************************)
(* Machine-checked theorems about the parts of Experts: the shared arena   *)
(* (SharedMemBuffer), for any addresses, any sizes and any number of       *)
(* objects; the pools of threads (WorkerPool), for any machine and any     *)
(* configuration; and a forward pass (TPMoE): the layout of its buffers    *)
(* and what it leaves in the caller's output, for any batch, any routing,  *)
(* any sizes and any number of nodes and threads.                          *)
(***************************************************************************)
EXTENDS SharedMemBuffer, WorkerPool, TPMoE, FiniteSetTheorems, WellFoundedInduction, TLAPS

-----------------------------------------------------------------------------
(* The arena *)

TypeInv ==
  /\ buffer \in Nat /\ size \in Nat
  /\ object_requests \in Seq([at : Address, req : Request])
  /\ live \in [Address -> Request \cup {Nothing}]
  /\ DOMAIN pointers = Address

(* The last request made for the address of an object is the object's own. *)
LastIsOwn ==
  \A a \in Address : live[a] # Nothing =>
    \E k \in DOMAIN object_requests :
      IsLast(object_requests, a, k) /\ object_requests[k].req = live[a]

IInv == TypeInv /\ LastIsOwn /\ PointersCurrent

LEMMA InvInit == Init => IInv
BY RequestAssumption DEF Init, IInv, TypeInv, LastIsOwn, PointersCurrent

(* There is at most one last request. *)
LEMMA UniqueLast ==
  ASSUME NEW reqs \in Seq([at : Address, req : Request]), NEW a \in Address,
         NEW k \in DOMAIN reqs, IsLast(reqs, a, k)
  PROVE  (CHOOSE j \in DOMAIN reqs : IsLast(reqs, a, j)) = k
<1>1. \A j \in DOMAIN reqs : IsLast(reqs, a, j) => j = k
  BY DEF IsLast
<1>2. QED BY <1>1

LEMMA InvNext == IInv /\ [Next]_vars => IInv'
<1> SUFFICES ASSUME IInv, [Next]_vars PROVE IInv'
  OBVIOUS
<1> USE RequestAssumption DEF IInv, TypeInv
<1>1. ASSUME NEW a \in Address, NEW r \in Request, Construct(a, r)
      PROVE IInv'
  <2> DEFINE reqs == Append(object_requests, [at |-> a, req |-> r])
             n == Len(object_requests)
  <2>1. /\ reqs \in Seq([at : Address, req : Request])
        /\ DOMAIN reqs = 1..(n + 1) /\ DOMAIN object_requests = 1..n /\ n \in Nat
        /\ reqs[n + 1] = [at |-> a, req |-> r]
        /\ \A k \in 1..n : reqs[k] = object_requests[k]
    OBVIOUS
  <2>2. /\ object_requests' = reqs
        /\ live' = [live EXCEPT ![a] = r]
    BY <1>1 DEF Construct
  <2>3. TypeInv'
    BY <1>1, <2>1, <2>2 DEF Construct, UpdateAll
  <2>4. \A b \in Address : live'[b] # Nothing =>
          \E k \in DOMAIN reqs : IsLast(reqs, b, k) /\ reqs[k].req = live'[b]
    <3> SUFFICES ASSUME NEW b \in Address, live'[b] # Nothing
                 PROVE  \E k \in DOMAIN reqs : IsLast(reqs, b, k) /\ reqs[k].req = live'[b]
      OBVIOUS
    <3>1. CASE b = a
      <4>1. IsLast(reqs, b, n + 1)
        BY <2>1, <3>1 DEF IsLast
      <4>2. reqs[n + 1].req = live'[b]
        BY <2>1, <2>2, <3>1
      <4>3. QED BY <2>1, <4>1, <4>2
    <3>2. CASE b # a
      <4>1. live[b] = live'[b] /\ live[b] # Nothing
        BY <2>2, <3>2
      <4>2. PICK k \in 1..n : /\ IsLast(object_requests, b, k)
                              /\ object_requests[k].req = live[b]
        BY <2>1, <4>1 DEF LastIsOwn
      <4>3. IsLast(reqs, b, k)
        BY <2>1, <3>2, <4>2 DEF IsLast
      <4>4. QED BY <2>1, <4>1, <4>2, <4>3
    <3>3. QED BY <3>1, <3>2
  <2>5. LastIsOwn'
    BY <2>2, <2>4 DEF LastIsOwn
  <2>6. PointersCurrent'
    <3>1. CASE TotalSize[r] > size
      <4>1. /\ buffer' = buffer + 1 /\ size' = TotalSize[r]
            /\ pointers' = UpdateAll(reqs, buffer')
        BY <1>1, <3>1 DEF Construct
      <4>2. ASSUME NEW b \in Address, live'[b] # Nothing
            PROVE  pointers'[b] = <<buffer', live'[b]>> /\ TotalSize[live'[b]] <= size'
        <5>1. PICK k \in DOMAIN reqs : IsLast(reqs, b, k) /\ reqs[k].req = live'[b]
          BY <2>4, <4>2
        <5>2. pointers'[b] = <<buffer', reqs[CHOOSE j \in DOMAIN reqs : IsLast(reqs, b, j)].req>>
          BY <4>1, <5>1 DEF UpdateAll, IsLast
        <5>3. pointers'[b] = <<buffer', live'[b]>>
          BY <2>1, <5>1, <5>2, UniqueLast
        <5>4. TotalSize[live'[b]] <= size'
          BY <2>2, <3>1, <4>1, <4>2 DEF PointersCurrent
        <5>5. QED BY <5>3, <5>4
      <4>3. QED BY <4>2 DEF PointersCurrent
    <3>2. CASE TotalSize[r] <= size
      <4>1. buffer' = buffer /\ size' = size /\ pointers' = [pointers EXCEPT ![a] = <<buffer, r>>]
        BY <1>1, <3>2 DEF Construct
      <4>2. QED BY <2>2, <3>2, <4>1 DEF PointersCurrent
    <3>3. QED BY <3>1, <3>2
  <2>7. QED BY <2>3, <2>5, <2>6
<1>2. ASSUME NEW a \in Address, Destroy(a)
      PROVE IInv'
  BY <1>2 DEF Destroy, LastIsOwn, PointersCurrent
<1>3. CASE UNCHANGED vars
  BY <1>3 DEF vars, LastIsOwn, PointersCurrent
<1>4. QED BY <1>1, <1>2, <1>3 DEF Next

(* The pointers of every live object lead into the current block, whatever *)
(* was built and destroyed before, and at whichever addresses.             *)
THEOREM PointersAlwaysCurrent == Spec => []PointersCurrent
<1>1. IInv => PointersCurrent
  BY DEF IInv
<1>2. QED BY <1>1, InvInit, InvNext, PTL DEF Spec

-----------------------------------------------------------------------------
(* The pools *)

(* Start[k][n] is the number of threads that the sub-pools before k have   *)
(* on node n, for k up to `last': what both loops want to find in their    *)
(* vector at index k.  It never falls, and rises by the threads of k.      *)
Tiles(c, Start, last) ==
  /\ Start \in [Nat -> [0..(Len(c.map) - 1) -> Nat]]
  /\ \A j, k \in 0..last : \A n \in 0..(Len(c.map) - 1) :
       j <= k => Start[j][n] <= Start[k][n]
  /\ \A j \in 0..(last - 1) : \A n \in 0..(Len(c.map) - 1) :
       Start[j + 1][n] = Start[j][n] + (IF n = c.map[j + 1] THEN c.threads[j + 1] ELSE 0)
  /\ \A j \in 0..(last - 1) : c.map[j + 1] \in 0..(Len(c.map) - 1)

(* The place of thread x of a sub-pool is what Start says; `from' is the   *)
(* sub-pool that has no worker yet, `main' the one that has no thread 0.   *)
Placed(c, Start, x, from, main) ==
  /\ x = <<x[1], x[2], x[3], x[4]>>
  /\ x[1] \in 0..(from - 1) /\ x[2] \in Nat
  /\ x[3] = c.map[x[1] + 1]
  /\ x[2] < c.threads[x[1] + 1]
  /\ x[4] = Start[x[1]][x[3]] + x[2]
  /\ x[2] = 0 => x[1] < main

(* Once a main thread has found no core, no later one of its node does.    *)
Follows(Start, k) ==
  \A n \in DOMAIN numa_threads_count :
    \/ numa_threads_count[n] = Start[k][n]
    \/ n \notin Nodes
    \/ numa_threads_count[n] >= Cores /\ Start[k][n] >= Cores

PoolTypeInv ==
  /\ config \in Configs /\ phase \in {"pools", "mains", "ready"}
  /\ i \in 0..subpool_count /\ outside \in BOOLEAN
  /\ numa_threads_count \in [0..(subpool_count - 1) -> Nat]

PoolsBefore(Start) ==
  /\ Tiles(config, Start, i)
  /\ numa_threads_count = Start[i]
  /\ \A x \in bound : Placed(config, Start, x, i, 0)

MainsBefore(Start) ==
  /\ Tiles(config, Start, subpool_count)
  /\ Start[0] = Zeros(config)
  /\ Follows(Start, i)
  /\ \A x \in bound : Placed(config, Start, x, subpool_count, i)

PlacedInv ==
  /\ phase = "pools" => \E Start : Start[0] = Zeros(config) /\ PoolsBefore(Start)
  /\ phase # "pools" => \E Start : MainsBefore(Start)

PoolInv == PoolTypeInv /\ PlacedInv

(* What a configuration is *)
LEMMA ConfigTyping ==
  ASSUME NEW c \in Configs
  PROVE  /\ Len(c.map) \in Nat /\ Len(c.threads) = Len(c.map)
         /\ \A j \in 0..(Len(c.map) - 1) : c.map[j + 1] \in Nat /\ c.threads[j + 1] \in Nat \ {0}
<1>1. c.map \in Seq(Nat) /\ c.threads \in Seq(Nat \ {0}) /\ Len(c.map) = Len(c.threads)
  BY ConfigAssumption
<1>2. \A j \in 0..(Len(c.map) - 1) : j + 1 \in 1..Len(c.map)
  BY <1>1
<1>3. QED BY <1>1, <1>2

(* Threads of different sub-pools on one node, and those of one sub-pool,  *)
(* are on different cores.                                                 *)
LEMMA CoresApart ==
  ASSUME NEW u \in Nat, NEW v \in Nat, NEW s \in Nat, NEW t \in Nat, NEW h \in Nat,
         u + h <= v, s < h
  PROVE  u + s # v + t
OBVIOUS

LEMMA SameThread ==
  ASSUME NEW u \in Nat, NEW s \in Nat, NEW t \in Nat, u + s = u + t
  PROVE  s = t
OBVIOUS

LEMMA PlacesApart ==
  ASSUME NEW c \in Configs, NEW Start, NEW from \in 0..Len(c.map), NEW main, NEW x, NEW y,
         Tiles(c, Start, from),
         Placed(c, Start, x, from, main), Placed(c, Start, y, from, main),
         x[3] = y[3], x[4] = y[4]
  PROVE  x = y
<1> DEFINE p == x[1]  q == y[1]  s == x[2]  t == y[2]  n == x[3]
<1>1. /\ p \in 0..(from - 1) /\ q \in 0..(from - 1) /\ s \in Nat /\ t \in Nat
      /\ n = c.map[p + 1] /\ n = c.map[q + 1]
      /\ s < c.threads[p + 1] /\ t < c.threads[q + 1]
      /\ Start[p][n] + s = Start[q][n] + t
      /\ x = <<p, s, n, x[4]>> /\ y = <<q, t, n, x[4]>>
  BY DEF Placed
<1> HIDE DEF p, q, s, t, n
<1>2. Len(c.map) \in Nat
  BY ConfigTyping
<1>3. \A j \in 0..(from - 1) : j \in Nat /\ j \in 0..from /\ j + 1 \in 0..from /\ j \in 0..(Len(c.map) - 1)
  BY <1>2
<1>4. c.threads[p + 1] \in Nat /\ c.threads[q + 1] \in Nat
  BY <1>1, <1>3, ConfigTyping
<1>5. n \in 0..(Len(c.map) - 1)
  BY <1>1 DEF Tiles
<1>6. Start[p][n] \in Nat /\ Start[q][n] \in Nat
  <2>1. \A j \in Nat : Start[j][n] \in Nat
    BY <1>5 DEF Tiles
  <2>2. QED BY <1>1, <1>3, <2>1
<1>7. \A a, b \in 0..(from - 1) :
        a < b /\ n = c.map[a + 1] =>
          Start[a][n] + c.threads[a + 1] <= Start[b][n]
  <2> SUFFICES ASSUME NEW a \in 0..(from - 1), NEW b \in 0..(from - 1), a < b, n = c.map[a + 1]
               PROVE  Start[a][n] + c.threads[a + 1] <= Start[b][n]
    OBVIOUS
  <2>1. a + 1 \in 0..from /\ b \in 0..from /\ a + 1 <= b
    BY <1>2
  <2>2. Start[a + 1][n] <= Start[b][n]
    BY <2>1, <1>5 DEF Tiles
  <2>3. Start[a + 1][n] = Start[a][n] + c.threads[a + 1]
    BY <1>5 DEF Tiles
  <2>4. QED BY <2>2, <2>3
<1>8. ~ (p < q)
  <2>1. p < q => Start[p][n] + c.threads[p + 1] <= Start[q][n]
    BY <1>1, <1>7
  <2>2. QED BY <1>1, <1>4, <1>6, <2>1, CoresApart
<1>9. ~ (q < p)
  <2>1. q < p => Start[q][n] + c.threads[q + 1] <= Start[p][n]
    BY <1>1, <1>7
  <2>2. QED BY <1>1, <1>4, <1>6, <2>1, CoresApart
<1>10. p = q
  BY <1>1, <1>3, <1>8, <1>9
<1>11. s = t
  <2>1. s \in Nat /\ t \in Nat /\ Start[p][n] \in Nat /\ Start[p][n] + s = Start[p][n] + t
    BY <1>1, <1>6, <1>10
  <2>2. QED BY ONLY <2>1, SameThread
<1>12. QED BY <1>1, <1>10, <1>11

LEMMA PlacedApart == PoolInv => OneThreadPerCore
<1> SUFFICES ASSUME PoolInv, NEW x \in bound, NEW y \in bound, x[3] = y[3], x[4] = y[4]
             PROVE  x = y
  BY DEF OneThreadPerCore
<1>1. config \in Configs /\ i \in 0..Len(config.map) /\ Len(config.map) \in 0..Len(config.map)
  BY ConfigTyping DEF PoolInv, PoolTypeInv, subpool_count
<1>2. CASE phase = "pools"
  <2>1. PICK Start : PoolsBefore(Start)
    BY <1>2 DEF PoolInv, PlacedInv
  <2>2. QED BY <1>1, <2>1, PlacesApart DEF PoolsBefore
<1>3. CASE phase # "pools"
  <2>1. PICK Start : MainsBefore(Start)
    BY <1>3 DEF PoolInv, PlacedInv
  <2>2. QED BY <1>1, <2>1, PlacesApart DEF MainsBefore, subpool_count
<1>4. QED BY <1>2, <1>3

LEMMA PoolInvInit == PoolInit => PoolInv
<1> SUFFICES ASSUME PoolInit PROVE PoolInv
  OBVIOUS
<1>1. config \in Configs /\ Len(config.map) \in Nat
  BY ConfigTyping DEF PoolInit
<1>2. PoolTypeInv
  <2>1. Zeros(config) \in [0..(Len(config.map) - 1) -> Nat]
    BY DEF Zeros
  <2>2. phase = "pools" /\ i = 0 /\ outside = FALSE /\ numa_threads_count = Zeros(config)
    BY DEF PoolInit
  <2>3. i \in 0..Len(config.map)
    BY <1>1, <2>2
  <2>4. QED BY <1>1, <2>1, <2>2, <2>3 DEF PoolTypeInv, subpool_count
<1>3. /\ [k \in Nat |-> Zeros(config)][0] = Zeros(config)
      /\ PoolsBefore([k \in Nat |-> Zeros(config)])
  BY <1>1 DEF PoolInit, PoolsBefore, Tiles, Zeros
<1>4. QED BY <1>2, <1>3 DEF PoolInv, PlacedInv, PoolInit

(* One more sub-pool: Start is extended by its threads. *)
LEMMA Extend ==
  ASSUME NEW c \in Configs, NEW Start, NEW k \in Nat, Tiles(c, Start, k),
         k < Len(c.map), c.map[k + 1] < Len(c.map)
  PROVE  \E Longer :
           /\ Tiles(c, Longer, k + 1)
           /\ \A j \in 0..k : Longer[j] = Start[j]
<1> DEFINE m == c.map[k + 1]
           N == 0..(Len(c.map) - 1)
           row == [Start[k] EXCEPT ![m] = @ + c.threads[k + 1]]
           Longer == [Start EXCEPT ![k + 1] = row]
<1>1. /\ Len(c.map) \in Nat /\ k \in N /\ m \in N /\ c.threads[k + 1] \in Nat /\ m \in Nat
  BY ConfigTyping
<1>2. /\ Start \in [Nat -> [N -> Nat]] /\ Start[k] \in [N -> Nat]
  BY DEF Tiles
<1>3. /\ row \in [N -> Nat]
      /\ \A n \in N : row[n] = Start[k][n] + (IF n = m THEN c.threads[k + 1] ELSE 0)
      /\ \A j \in Nat : \A n \in N : Start[j][n] \in Nat
  <2>1. \A j \in Nat : \A n \in N : Start[j][n] \in Nat
    BY <1>2
  <2>2. Start[k][m] + c.threads[k + 1] \in Nat
    <3>1. Start[k][m] \in Nat
      BY <1>1, <2>1
    <3>2. c.threads[k + 1] \in Nat
      BY <1>1
    <3>3. \A u, h \in Nat : u + h \in Nat
      OBVIOUS
    <3>4. QED BY <3>1, <3>2, <3>3
  <2>3. row \in [N -> Nat]
    BY <1>2, <2>2
  <2>4. \A n \in N : row[n] = IF n = m THEN Start[k][m] + c.threads[k + 1] ELSE Start[k][n]
    BY <1>2
  <2>5. \A n \in N : row[n] = Start[k][n] + (IF n = m THEN c.threads[k + 1] ELSE 0)
    BY <2>1, <2>4
  <2>6. QED BY <2>1, <2>3, <2>5
<1> HIDE DEF row
<1>4. /\ Longer \in [Nat -> [N -> Nat]]
      /\ Longer[k + 1] = row
      /\ \A j \in 0..k : j # k + 1 /\ j \in Nat /\ Longer[j] = Start[j]
  BY <1>2, <1>3
<1> HIDE DEF Longer
<1>5. ASSUME NEW j \in 0..(k + 1), NEW l \in 0..(k + 1), NEW n \in N, j <= l
      PROVE  Longer[j][n] <= Longer[l][n]
  <2>1. CASE l = k + 1 /\ j = k + 1
    <3>1. Longer[j] = row /\ Longer[l] = row /\ row[n] \in Nat
      BY <1>3, <1>4, <2>1
    <3>2. QED BY <3>1
  <2>2. CASE l = k + 1 /\ j # k + 1
    <3>1. j \in 0..k /\ k \in 0..k /\ j <= k
      BY <2>2
    <3>2. Start[j][n] <= Start[k][n] /\ Longer[j][n] = Start[j][n]
      BY <1>4, <3>1 DEF Tiles
    <3>3. Start[k][n] <= row[n] /\ Start[k][n] \in Nat /\ row[n] \in Nat
      <4>1. Start[k][n] \in Nat /\ row[n] \in Nat /\ c.threads[k + 1] \in Nat
        BY <1>1, <1>3
      <4>2. row[n] = Start[k][n] + c.threads[k + 1] \/ row[n] = Start[k][n] + 0
        BY <1>3
      <4>3. QED BY <4>1, <4>2
    <3>4. Start[j][n] \in Nat
      BY <1>3, <3>1
    <3>5. QED BY <1>4, <2>2, <3>2, <3>3, <3>4
  <2>3. CASE l # k + 1
    <3>1. j \in 0..k /\ l \in 0..k
      BY <1>5, <2>3
    <3>2. QED BY <1>4, <1>5, <3>1 DEF Tiles
  <2>4. QED BY <2>1, <2>2, <2>3
<1>6. ASSUME NEW j \in 0..k, NEW n \in N
      PROVE  /\ Longer[j + 1][n] = Longer[j][n] + (IF n = c.map[j + 1] THEN c.threads[j + 1] ELSE 0)
             /\ c.map[j + 1] \in N
  <2>1. CASE j = k
    BY <1>1, <1>3, <1>4, <2>1
  <2>2. CASE j # k
    <3>1. j \in 0..(k - 1) /\ j + 1 \in 0..k /\ j \in 0..k
      BY <2>2
    <3>2. /\ Start[j + 1][n] = Start[j][n] + (IF n = c.map[j + 1] THEN c.threads[j + 1] ELSE 0)
          /\ c.map[j + 1] \in N
      BY <3>1 DEF Tiles
    <3>3. Longer[j + 1] = Start[j + 1] /\ Longer[j] = Start[j]
      BY <1>4, <3>1
    <3>4. QED BY <3>2, <3>3
  <2>3. QED BY <2>1, <2>2
<1>7. 0..((k + 1) - 1) = 0..k /\ 0 \in N
  BY <1>1
<1>8. Tiles(c, Longer, k + 1)
  BY <1>4, <1>5, <1>6, <1>7 DEF Tiles
<1>9. QED BY <1>4, <1>8

LEMMA BuildPoolStep == PoolInv /\ BuildPool => PoolInv'
<1> SUFFICES ASSUME PoolInv, BuildPool PROVE PoolInv'
  OBVIOUS
<1> DEFINE c == config  m == this_numa  th == config.threads[i + 1]
<1>1. /\ phase = "pools" /\ phase' = "pools" /\ config' = config /\ outside' = outside
      /\ i < Len(c.map) /\ i' = i + 1 /\ m < Len(c.map) /\ m = c.map[i + 1]
      /\ numa_threads_count' = [numa_threads_count EXCEPT ![m] = @ + th]
      /\ bound' = bound \cup Bind(1..(th - 1), numa_threads_count[m])
  BY DEF BuildPool, Count, InVector, subpool_count, this_numa
<1>2. /\ c \in Configs /\ i \in Nat /\ Len(c.map) \in Nat /\ th \in Nat \ {0}
      /\ numa_threads_count \in [0..(Len(c.map) - 1) -> Nat]
      /\ outside \in BOOLEAN
  BY <1>1, ConfigTyping DEF PoolInv, PoolTypeInv, subpool_count
<1>3. PICK Start : Start[0] = Zeros(c) /\ PoolsBefore(Start)
  BY <1>1 DEF PoolInv, PlacedInv
<1>4. Tiles(c, Start, i) /\ numa_threads_count = Start[i]
  BY <1>3 DEF PoolsBefore
<1>5. PICK Longer : /\ Tiles(c, Longer, i + 1)
                   /\ \A j \in 0..i : Longer[j] = Start[j]
  <2>1. c.map[i + 1] < Len(c.map)
    BY <1>1
  <2>2. QED BY <1>1, <1>2, <1>4, <2>1, Extend
<1>6. 0 \in 0..i /\ i \in 0..i /\ i' \in 0..Len(c.map) /\ (i + 1) - 1 = i
  BY <1>1, <1>2
<1>7. /\ Longer[i + 1] \in [0..(Len(c.map) - 1) -> Nat]
      /\ \A n \in 0..(Len(c.map) - 1) :
           Longer[i + 1][n] = numa_threads_count[n] + (IF n = m THEN th ELSE 0)
  <2>1. i + 1 \in Nat /\ i \in 0..((i + 1) - 1)
    BY <1>2
  <2>2. Longer[i + 1] \in [0..(Len(c.map) - 1) -> Nat]
    BY <1>5, <2>1 DEF Tiles
  <2>3. \A n \in 0..(Len(c.map) - 1) :
          Longer[i + 1][n] = Longer[i][n] + (IF n = c.map[i + 1] THEN th ELSE 0)
    BY <1>5, <2>1 DEF Tiles
  <2>4. Longer[i] = numa_threads_count
    BY <1>4, <1>5, <1>6
  <2>5. QED BY <1>1, <2>2, <2>3, <2>4
<1>8. numa_threads_count' = Longer[i + 1]
  <2>1. \A n \in 0..(Len(c.map) - 1) : numa_threads_count[n] \in Nat
    BY <1>2
  <2>2. numa_threads_count' = [n \in 0..(Len(c.map) - 1) |->
                                 IF n = m THEN numa_threads_count[m] + th ELSE numa_threads_count[n]]
    BY <1>1, <1>2
  <2>3. \A n \in 0..(Len(c.map) - 1) : numa_threads_count'[n] = Longer[i + 1][n]
    BY <1>2, <1>7, <2>1, <2>2
  <2>4. QED BY <1>7, <2>2, <2>3
<1>9. PoolTypeInv'
  BY <1>1, <1>2, <1>6, <1>7, <1>8 DEF PoolTypeInv, subpool_count
<1>10. ASSUME NEW x \in bound' PROVE Placed(c, Longer, x, i + 1, 0)
  <2>1. CASE x \in bound
    <3>1. Placed(c, Start, x, i, 0)
      BY <1>3, <2>1 DEF PoolsBefore
    <3>2. x[1] \in 0..(i - 1) => x[1] \in 0..i
      BY <1>2
    <3>3. QED BY <1>5, <1>6, <3>1, <3>2 DEF Placed
  <2>2. CASE x \in Bind(1..(th - 1), numa_threads_count[m])
    <3>1. PICK t \in 1..(th - 1) : x = <<i, t, m, t + numa_threads_count[m]>>
      BY <2>2 DEF Bind
    <3>2. t \in Nat /\ t < th /\ t # 0
      BY <1>2
    <3>3. /\ x = <<x[1], x[2], x[3], x[4]>>
          /\ x[1] = i /\ x[2] = t /\ x[3] = m /\ x[4] = t + numa_threads_count[m]
      BY <3>1
    <3>4. numa_threads_count[m] = Longer[i][m] /\ numa_threads_count[m] \in Nat
      <4>1. m \in 0..(Len(c.map) - 1)
        BY <1>1, <1>2, ConfigTyping
      <4>2. QED BY <1>2, <1>4, <1>5, <1>6, <4>1
    <3>5. x[4] = Longer[x[1]][x[3]] + x[2]
      BY <3>2, <3>3, <3>4
    <3>6. QED BY <1>1, <1>6, <3>2, <3>3, <3>5 DEF Placed
  <2>3. QED BY <1>1, <2>1, <2>2
<1>11. Longer[0] = Zeros(c)
  BY <1>3, <1>5, <1>6
<1>12. PoolsBefore(Longer)'
  BY <1>1, <1>5, <1>8, <1>10 DEF PoolsBefore
<1>13. PlacedInv'
  BY <1>1, <1>11, <1>12 DEF PlacedInv
<1>14. QED BY <1>9, <1>13 DEF PoolInv

LEMMA StartMainsStep == PoolInv /\ StartMains => PoolInv'
<1> SUFFICES ASSUME PoolInv, StartMains PROVE PoolInv'
  OBVIOUS
<1>1. /\ phase = "pools" /\ phase' = "mains" /\ config' = config /\ outside' = outside
      /\ i >= Len(config.map) /\ i' = 0 /\ bound' = bound
      /\ numa_threads_count' = Zeros(config)
  BY DEF StartMains, subpool_count
<1>2. /\ config \in Configs /\ Len(config.map) \in Nat /\ i = Len(config.map)
      /\ outside \in BOOLEAN
  BY <1>1, ConfigTyping DEF PoolInv, PoolTypeInv, subpool_count
<1>3. PICK Start : Start[0] = Zeros(config) /\ PoolsBefore(Start)
  BY <1>1 DEF PoolInv, PlacedInv
<1>4. Zeros(config) \in [0..(Len(config.map) - 1) -> Nat] /\ 0 \in 0..Len(config.map)
  BY <1>2 DEF Zeros
<1>5. PoolTypeInv'
  BY <1>1, <1>2, <1>4 DEF PoolTypeInv, subpool_count
<1>6. Follows(Start, 0)'
  BY <1>1, <1>3 DEF Follows
<1>7. MainsBefore(Start)'
  BY <1>1, <1>2, <1>3, <1>6 DEF MainsBefore, PoolsBefore, subpool_count
<1>8. PlacedInv'
  BY <1>1, <1>7 DEF PlacedInv
<1>9. QED BY <1>5, <1>8 DEF PoolInv

LEMMA MainStep == PoolInv /\ Main => PoolInv'
<1> SUFFICES ASSUME PoolInv, Main PROVE PoolInv'
  OBVIOUS
<1> DEFINE c == config  m == this_numa  th == config.threads[i + 1]
           N == 0..(Len(config.map) - 1)  new == Bind({0}, numa_threads_count[m])
<1>1. /\ phase = "mains" /\ phase' = "mains" /\ config' = config /\ outside' = outside
      /\ i < Len(c.map) /\ i' = i + 1 /\ m < Len(c.map) /\ m = c.map[i + 1]
      /\ bound' = bound \cup new
      /\ new # {} => numa_threads_count' = [numa_threads_count EXCEPT ![m] = @ + th]
      /\ new = {} => numa_threads_count' = numa_threads_count
  BY DEF Main, Count, InVector, subpool_count, this_numa
<1>2. /\ c \in Configs /\ i \in Nat /\ Len(c.map) \in Nat /\ th \in Nat \ {0}
      /\ numa_threads_count \in [N -> Nat] /\ i \in N /\ m \in N
      /\ outside \in BOOLEAN
  BY <1>1, ConfigTyping DEF PoolInv, PoolTypeInv, subpool_count
<1>3. /\ new \subseteq {<<i, 0, m, numa_threads_count[m]>>}
      /\ new # {} => m \in Nodes /\ numa_threads_count[m] < Cores
      /\ new = {} => m \notin Nodes \/ ~ (numa_threads_count[m] < Cores)
  <2>1. numa_threads_count[m] \in Nat /\ 0 + numa_threads_count[m] = numa_threads_count[m]
    BY <1>2
  <2>2. QED BY <2>1 DEF Bind
<1> HIDE DEF new
<1>4. PICK Start : MainsBefore(Start)
  BY <1>1 DEF PoolInv, PlacedInv
<1>5. /\ Tiles(c, Start, Len(c.map)) /\ Start[0] = Zeros(c) /\ Follows(Start, i)
      /\ \A x \in bound : Placed(c, Start, x, Len(c.map), i)
  BY <1>4 DEF MainsBefore, subpool_count
<1>6. /\ \A n \in N : /\ Start[i][n] \in Nat /\ Start[i + 1][n] \in Nat
                      /\ Start[i + 1][n] = Start[i][n] + (IF n = m THEN th ELSE 0)
  <2>1. i + 1 \in Nat /\ 0..(Len(c.map) - 1) = N
    BY <1>2
  <2>2. \A j \in Nat : Start[j] \in [N -> Nat]
    BY <1>5 DEF Tiles
  <2>3. \A n \in N : Start[i + 1][n] = Start[i][n] + (IF n = m THEN th ELSE 0)
    BY <1>1, <1>2, <1>5 DEF Tiles
  <2>4. QED BY <1>2, <2>1, <2>2, <2>3
<1>7. DOMAIN numa_threads_count = N /\ \A n \in N : numa_threads_count[n] \in Nat
  BY <1>2
<1>8. new # {} => numa_threads_count[m] = Start[i][m]
  <2>1. \/ numa_threads_count[m] = Start[i][m]
        \/ m \notin Nodes
        \/ numa_threads_count[m] >= Cores
    BY <1>2, <1>5, <1>7 DEF Follows
  <2>2. numa_threads_count[m] \in Nat /\ Cores \in Nat
    BY <1>2, <1>7, ConfigAssumption
  <2>3. QED BY <1>3, <2>1, <2>2
<1>9. /\ numa_threads_count' \in [N -> Nat]
      /\ \A n \in N : numa_threads_count'[n] =
                        IF n = m /\ new # {} THEN numa_threads_count[n] + th ELSE numa_threads_count[n]
  <2>1. numa_threads_count[m] + th \in Nat
    <3>1. numa_threads_count[m] \in Nat
      BY <1>2, <1>7
    <3>2. QED BY <1>2, <3>1
  <2>2. QED BY <1>1, <1>2, <2>1
<1>10. PoolTypeInv'
  <2>1. i' \in 0..Len(c.map)
    BY <1>1, <1>2
  <2>2. QED BY <1>1, <1>2, <1>9, <2>1 DEF PoolTypeInv, subpool_count
<1>11. ASSUME NEW n \in N
       PROVE  \/ numa_threads_count'[n] = Start[i + 1][n]
              \/ n \notin Nodes
              \/ numa_threads_count'[n] >= Cores /\ Start[i + 1][n] >= Cores
  <2>1. \/ numa_threads_count[n] = Start[i][n]
        \/ n \notin Nodes
        \/ numa_threads_count[n] >= Cores /\ Start[i][n] >= Cores
    BY <1>5, <1>7 DEF Follows
  <2>2. /\ numa_threads_count[n] \in Nat /\ Start[i][n] \in Nat /\ Start[i + 1][n] \in Nat
        /\ Cores \in Nat /\ th \in Nat
    BY <1>2, <1>6, <1>7, ConfigAssumption
  <2>3. CASE n # m
    <3>1. Start[i + 1][n] = Start[i][n] /\ numa_threads_count'[n] = numa_threads_count[n]
      BY <1>6, <1>9, <2>2, <2>3
    <3>2. QED BY <2>1, <3>1
  <2>4. CASE n = m /\ new # {}
    <3>1. Start[i + 1][n] = Start[i][n] + th /\ numa_threads_count'[n] = numa_threads_count[n] + th
      BY <1>6, <1>9, <2>4
    <3>2. QED BY <1>8, <2>4, <3>1
  <2>5. CASE n = m /\ new = {}
    <3>1. Start[i + 1][n] = Start[i][n] + th /\ numa_threads_count'[n] = numa_threads_count[n]
      BY <1>6, <1>9, <2>5
    <3>2. n \notin Nodes \/ numa_threads_count[n] >= Cores
      BY <1>3, <2>2, <2>5
    <3>3. n \notin Nodes \/ Start[i][n] >= Cores
      BY <2>1, <3>2
    <3>4. QED BY <2>2, <3>1, <3>2, <3>3
  <2>6. QED BY <2>3, <2>4, <2>5
<1>12. Follows(Start, i)'
  <2>1. DOMAIN numa_threads_count' = N
    BY <1>9
  <2>2. QED BY <1>1, <1>11, <2>1 DEF Follows
<1>13. ASSUME NEW x \in bound' PROVE Placed(c, Start, x, Len(c.map), i + 1)
  <2>1. CASE x \in bound
    <3>1. Placed(c, Start, x, Len(c.map), i)
      BY <1>5, <2>1
    <3>2. x[1] \in 0..(Len(c.map) - 1) /\ x[1] < i => x[1] < i + 1
      BY <1>2
    <3>3. QED BY <3>1, <3>2 DEF Placed
  <2>2. CASE x \in new
    <3>1. x = <<i, 0, m, Start[i][m]>>
      BY <1>3, <1>8, <2>2
    <3>2. Start[i][m] = Start[i][m] + 0 /\ i < i + 1 /\ 0 \in Nat /\ 0 < th
      BY <1>2, <1>6
    <3>3. QED BY <1>1, <1>2, <3>1, <3>2 DEF Placed
  <2>3. QED BY <1>1, <2>1, <2>2
<1>14. MainsBefore(Start)'
  BY <1>1, <1>5, <1>12, <1>13 DEF MainsBefore, subpool_count
<1>15. PlacedInv'
  BY <1>1, <1>14 DEF PlacedInv
<1>16. QED BY <1>10, <1>15 DEF PoolInv

LEMMA PoolInvNext == PoolInv /\ [PoolNext]_poolVars => PoolInv'
<1> SUFFICES ASSUME PoolInv, [PoolNext]_poolVars PROVE PoolInv'
  OBVIOUS
<1>1. CASE IndexOutside
  BY <1>1 DEF IndexOutside, PoolInv, PoolTypeInv, PlacedInv, PoolsBefore, MainsBefore, Follows, subpool_count
<1>2. CASE Ready
  BY <1>2 DEF Ready, PoolInv, PoolTypeInv, PlacedInv, PoolsBefore, MainsBefore, Follows, subpool_count
<1>3. CASE UNCHANGED poolVars
  BY <1>3 DEF poolVars, PoolInv, PoolTypeInv, PlacedInv, PoolsBefore, MainsBefore, Follows, subpool_count
<1>4. QED BY <1>1, <1>2, <1>3, BuildPoolStep, StartMainsStep, MainStep DEF PoolNext

(* Whatever the sub-pools and their nodes, no core of the machine has two  *)
(* threads, although the two loops count separately and the second one     *)
(* skips the threads that found no core.                                   *)
THEOREM OneThreadPerCoreSafe == PoolSpec => []OneThreadPerCore
<1>1. QED BY PoolInvInit, PoolInvNext, PlacedApart, PTL DEF PoolSpec

-----------------------------------------------------------------------------
(* Running offsets *)

(* Every nonempty set of natural numbers has a least element. *)
LEMMA LeastNat ==
  ASSUME NEW T \in SUBSET Nat, T # {}
  PROVE  \E x \in T : \A y \in T : x <= y
<1> DEFINE Less == {ss \in Nat \X Nat : ss[1] < ss[2]}
<1>1. IsWellFoundedOn(Less, Nat)
  BY Zenon, NatLessThanWellFounded DEF OpToRel
<1>2. \A x, y \in Nat : x < y => <<x, y>> \in Less
  OBVIOUS
<1> HIDE DEF Less
<1>3. PICK x \in T : \A y \in T : ~ (<<y, x>> \in Less)
  BY <1>1, WFMin
<1>4. \A y \in T : x \in Nat /\ y \in Nat /\ ~ (y < x)
  BY <1>2, <1>3
<1>5. QED BY <1>4

(* Induction up to n, stated for a set: its first element outside would be *)
(* the least one.                                                          *)
LEMMA UpTo ==
  ASSUME NEW n \in Nat, NEW S, 0 \in S, \A k \in 1..n : k - 1 \in S => k \in S
  PROVE  \A k \in 0..n : k \in S
<1> DEFINE Out == (0..n) \ S
<1>1. ASSUME Out # {} PROVE FALSE
  <2>1. Out \in SUBSET Nat
    OBVIOUS
  <2>2. PICK m \in Out : \A y \in Out : m <= y
    <3> HIDE DEF Out
    <3>1. QED BY <1>1, <2>1, LeastNat
  <2>3. m \in 1..n /\ m - 1 \in 0..n
    BY <2>2
  <2>4. m - 1 \notin Out
    BY <2>2, <2>3
  <2>5. QED BY <2>2, <2>3, <2>4
<1>2. QED BY <1>1

(* The recursive function of Offsets exists: by induction there is one up  *)
(* to every m, and so the one that Offsets chooses has its equations.      *)
LEMMA OffsetsDef ==
  ASSUME NEW s \in Seq(Nat)
  PROVE  /\ Offsets(s) \in [0..Len(s) -> Nat]
         /\ Offsets(s)[0] = 0
         /\ \A k \in 1..Len(s) : Offsets(s)[k] = Offsets(s)[k - 1] + s[k]
<1> DEFINE n == Len(s)
           Sum(m, f) == f \in [0..m -> Nat] /\ f[0] = 0 /\ \A k \in 1..m : f[k] = f[k - 1] + s[k]
           Done == {m \in 0..n : \E f : Sum(m, f)}
           P(f) == f = [k \in 0..n |-> IF k = 0 THEN 0 ELSE f[k - 1] + s[k]]
<1>1. n \in Nat /\ \A k \in 1..n : s[k] \in Nat
  OBVIOUS
<1>2. 0 \in Done
  <2>1. Sum(0, [k \in 0..0 |-> 0])
    OBVIOUS
  <2>2. \E f : Sum(0, f)
    BY <2>1
  <2>3. QED BY ONLY <1>1, <2>2
<1>3. ASSUME NEW m \in 1..n, m - 1 \in Done PROVE m \in Done
  <2>1. PICK f : Sum(m - 1, f)
    BY <1>3
  <2> DEFINE g == [k \in 0..m |-> IF k = m THEN f[m - 1] + s[m] ELSE f[k]]
  <2>2. m \in Nat /\ m - 1 \in 0..(m - 1) /\ m \in 0..n /\ 0 \in 0..(m - 1) /\ m # 0
    BY <1>1
  <2>3. g \in [0..m -> Nat] /\ g[0] = 0
    BY <1>1, <2>1, <2>2
  <2>4. ASSUME NEW k \in 1..m PROVE g[k] = g[k - 1] + s[k]
    <3>1. k \in 0..m /\ k - 1 \in 0..m /\ k - 1 # m /\ (k # m => k \in 1..(m - 1))
      BY <2>2
    <3>2. /\ g[k - 1] = f[k - 1]
          /\ k = m => g[k] = f[k - 1] + s[k]
          /\ k # m => g[k] = f[k]
      BY <3>1
    <3>3. k # m => f[k] = f[k - 1] + s[k]
      BY <2>1, <3>1
    <3>4. QED BY ONLY <3>2, <3>3
  <2> HIDE DEF g
  <2>5. Sum(m, g)
    BY <2>3, <2>4
  <2>6. \E f1 : Sum(m, f1)
    BY <2>5
  <2>7. QED BY ONLY <2>2, <2>6
<1>4. n \in Done
  <2> HIDE DEF Done
  <2>1. \A m \in 0..n : m \in Done
    BY ONLY <1>1, <1>2, <1>3, UpTo
  <2>2. QED BY ONLY <1>1, <2>1
<1>5. PICK f : Sum(n, f)
  BY <1>4
<1>6. P(f)
  BY <1>1, <1>5
<1>7. Offsets(s) = CHOOSE h : P(h)
  BY DEF Offsets
<1>8. P(Offsets(s))
  <2> HIDE DEF P
  <2>1. QED BY <1>6, <1>7
<1>9. \A k \in 0..n : Offsets(s)[k] = f[k]
  <2> DEFINE at == Offsets(s)
             Same == {k \in 0..n : at[k] = f[k]}
  <2>1. /\ at[0] = 0 /\ f[0] = 0
        /\ \A k \in 1..n : at[k] = at[k - 1] + s[k] /\ f[k] = f[k - 1] + s[k]
    BY <1>1, <1>5, <1>8
  <2> HIDE DEF at
  <2>2. 0 \in Same
    BY <1>1, <2>1
  <2>3. ASSUME NEW k \in 1..n, k - 1 \in Same PROVE k \in Same
    <3>1. at[k - 1] = f[k - 1]
      BY <2>3
    <3>2. at[k] = f[k] /\ k \in 0..n
      BY ONLY <1>1, <2>1, <3>1, k \in 1..n
    <3>3. QED BY ONLY <3>2
  <2> HIDE DEF Same
  <2>4. \A k \in 0..n : k \in Same
    BY ONLY <1>1, <2>2, <2>3, UpTo
  <2>5. QED BY ONLY <2>4 DEF Same, at
<1>10. Offsets(s) = f
  BY <1>5, <1>8, <1>9
<1>11. QED BY <1>5, <1>10

(* A running offset never falls. *)
LEMMA OffsetsMono ==
  ASSUME NEW n \in Nat, NEW s \in [1..n -> Nat], NEW j \in 0..n, NEW k \in j..n
  PROVE  Offsets(s)[j] <= Offsets(s)[k]
<1> DEFINE at == Offsets(s)
           S == {m \in 0..n : m >= j => at[j] <= at[m]}
<1>1. /\ \A m \in 0..n : at[m] \in Nat
      /\ \A m \in 1..n : s[m] \in Nat /\ at[m] = at[m - 1] + s[m]
  <2>1. s \in Seq(Nat) /\ Len(s) = n
    OBVIOUS
  <2>2. QED BY <2>1, OffsetsDef
<1> HIDE DEF at
<1>2. 0 \in S
  BY <1>1
<1>3. ASSUME NEW m \in 1..n, m - 1 \in S PROVE m \in S
  <2>1. m - 1 >= j => at[j] <= at[m - 1]
    BY <1>3
  <2>2. /\ at[m] = at[m - 1] + s[m] /\ s[m] \in Nat
        /\ at[m] \in Nat /\ at[m - 1] \in Nat /\ at[j] \in Nat
    BY <1>1
  <2>3. m \in 0..n /\ (m >= j => at[j] <= at[m])
    BY <2>1, <2>2
  <2>4. QED BY <2>3
<1> HIDE DEF S
<1>4. \A m \in 0..n : m \in S
  BY ONLY n \in Nat, <1>2, <1>3, UpTo
<1>5. k \in S /\ k >= j
  BY <1>4
<1>6. QED BY <1>5 DEF S, at

LEMMA BoundsAdd ==
  ASSUME NEW a \in Nat, NEW b \in Nat, NEW x \in Nat, NEW y \in Nat, NEW u \in Nat, NEW v \in Nat,
         NEW p \in Nat, NEW q \in Nat, p <= a * x + b * y, q <= a * u + b * v
  PROVE  p + q <= a * (x + u) + b * (y + v)
<1>1. a * (x + u) = a * x + a * u /\ b * (y + v) = b * y + b * v
  OBVIOUS
<1>2. a * x \in Nat /\ a * u \in Nat /\ b * y \in Nat /\ b * v \in Nat
  OBVIOUS
<1>3. QED BY <1>1, <1>2

(* What holds of the entries holds of their sums. *)
LEMMA OffsetsBound ==
  ASSUME NEW n \in Nat, NEW r \in [1..n -> Nat], NEW s \in [1..n -> Nat], NEW t \in [1..n -> Nat],
         NEW a \in Nat, NEW b \in Nat, \A k \in 1..n : r[k] <= a * s[k] + b * t[k]
  PROVE  /\ Offsets(r)[n] \in Nat /\ Offsets(s)[n] \in Nat /\ Offsets(t)[n] \in Nat
         /\ Offsets(r)[n] <= a * Offsets(s)[n] + b * Offsets(t)[n]
<1> DEFINE R == Offsets(r)
           S == Offsets(s)
           T == Offsets(t)
           Ok == {m \in 0..n : R[m] <= a * S[m] + b * T[m]}
<1>1. \A f \in [1..n -> Nat] : f \in Seq(Nat) /\ Len(f) = n
  OBVIOUS
<1>2. /\ \A m \in 0..n : R[m] \in Nat /\ S[m] \in Nat /\ T[m] \in Nat
      /\ R[0] = 0 /\ S[0] = 0 /\ T[0] = 0
      /\ \A m \in 1..n : /\ R[m] = R[m - 1] + r[m] /\ S[m] = S[m - 1] + s[m]
                         /\ T[m] = T[m - 1] + t[m]
  BY <1>1, OffsetsDef
<1> HIDE DEF R, S, T
<1>3. 0 \in Ok
  BY <1>2
<1>4. ASSUME NEW m \in 1..n, m - 1 \in Ok PROVE m \in Ok
  <2>1. /\ R[m - 1] \in Nat /\ S[m - 1] \in Nat /\ T[m - 1] \in Nat
        /\ r[m] \in Nat /\ s[m] \in Nat /\ t[m] \in Nat /\ R[m] \in Nat
    <3>1. m \in 0..n /\ m - 1 \in 0..n
      OBVIOUS
    <3>2. QED BY <1>2, <3>1
  <2>3. R[m - 1] <= a * S[m - 1] + b * T[m - 1]
    BY <1>4
  <2>4. r[m] <= a * s[m] + b * t[m]
    OBVIOUS
  <2>5. R[m] = R[m - 1] + r[m] /\ S[m] = S[m - 1] + s[m] /\ T[m] = T[m - 1] + t[m]
    BY <1>2
  <2>6. R[m - 1] + r[m] <= a * (S[m - 1] + s[m]) + b * (T[m - 1] + t[m])
    BY ONLY a \in Nat, b \in Nat, <2>1, <2>3, <2>4, BoundsAdd
  <2>7. R[m] <= a * S[m] + b * T[m]
    BY ONLY <2>5, <2>6
  <2>8. m \in 0..n
    OBVIOUS
  <2>9. QED BY <2>7, <2>8
<1>5. n \in Ok
  <2> HIDE DEF Ok
  <2>1. \A m \in 0..n : m \in Ok
    BY ONLY n \in Nat, <1>3, <1>4, UpTo
  <2>2. QED BY <2>1
<1>6. n \in 0..n
  OBVIOUS
<1>7. QED BY <1>2, <1>5, <1>6 DEF R, S, T

(* The sizes of disjoint sets add up to that of their union. *)
LEMMA OffsetsCount ==
  ASSUME NEW n \in Nat, NEW s \in [1..n -> Nat], NEW F,
         \A k \in 1..n : IsFiniteSet(F[k]) /\ Cardinality(F[k]) = s[k],
         \A j, k \in 1..n : j # k => F[j] \cap F[k] = {}
  PROVE  LET U == UNION {F[k] : k \in 1..n}
         IN  IsFiniteSet(U) /\ Cardinality(U) = Offsets(s)[n]
<1> DEFINE U(m) == UNION {F[k] : k \in 1..m}
           at == Offsets(s)
           Ok == {m \in 0..n : IsFiniteSet(U(m)) /\ Cardinality(U(m)) = at[m]}
<1>1. /\ at[0] = 0 /\ \A m \in 0..n : at[m] \in Nat
      /\ \A m \in 1..n : at[m] = at[m - 1] + s[m]
  <2>1. s \in Seq(Nat) /\ Len(s) = n
    OBVIOUS
  <2>2. QED BY <2>1, OffsetsDef
<1> HIDE DEF at
<1>2. 0 \in Ok
  <2>1. U(0) = {}
    OBVIOUS
  <2> HIDE DEF U
  <2>2. IsFiniteSet(U(0)) /\ Cardinality(U(0)) = at[0]
    BY <1>1, <2>1, FS_EmptySet
  <2>3. 0 \in 0..n
    OBVIOUS
  <2>4. QED BY <2>2, <2>3
<1>3. ASSUME NEW m \in 1..n, m - 1 \in Ok PROVE m \in Ok
  <2>1. U(m) = U(m - 1) \cup F[m]
    OBVIOUS
  <2>2. U(m - 1) \cap F[m] = {}
    OBVIOUS
  <2>3. IsFiniteSet(U(m - 1)) /\ Cardinality(U(m - 1)) = at[m - 1]
    BY <1>3
  <2> HIDE DEF U
  <2>4. IsFiniteSet(U(m)) /\ Cardinality(U(m)) = at[m - 1] + s[m]
    <3>1. Cardinality(U(m - 1) \cap F[m]) = 0
      BY <2>2, FS_EmptySet
    <3>2. IsFiniteSet(F[m]) /\ Cardinality(F[m]) = s[m] /\ s[m] \in Nat /\ at[m - 1] \in Nat
      BY <1>1
    <3>3. /\ IsFiniteSet(U(m - 1) \cup F[m])
          /\ Cardinality(U(m - 1) \cup F[m])
               = Cardinality(U(m - 1)) + Cardinality(F[m]) - Cardinality(U(m - 1) \cap F[m])
      BY <2>3, <3>2, FS_Union
    <3>4. QED BY <2>1, <2>3, <3>1, <3>2, <3>3
  <2>5. QED BY <1>1, <2>4
<1>4. n \in Ok
  <2> HIDE DEF Ok, U
  <2>1. \A m \in 0..n : m \in Ok
    BY ONLY n \in Nat, <1>2, <1>3, UpTo
  <2>2. QED BY <2>1
<1>5. QED BY <1>4 DEF at

-----------------------------------------------------------------------------
(* Whole blocks *)

(* Rounding up to a multiple of h adds less than h. *)
LEMMA RoundUp ==
  ASSUME NEW v \in Nat, NEW h \in Nat \ {0}
  PROVE  LET r == ((v + h - 1) \div h) * h
         IN  /\ r \in Nat /\ v <= r /\ r <= v + h - 1 /\ r % h = 0
             /\ v = 0 => r = 0
<1> DEFINE x == (v + h - 1) \div h
           y == (v + h - 1) % h
<1>1. x \in Nat /\ y \in 0..(h - 1) /\ v + h - 1 = h * x + y
  OBVIOUS
<1>2. h * x = x * h /\ h * x \in Nat
  BY <1>1
<1> HIDE DEF x, y
<1>3. x * h \in Nat /\ v <= x * h /\ x * h <= v + h - 1
  BY ONLY v \in Nat, h \in Nat \ {0}, <1>1, <1>2
<1>4. (x * h) % h = 0
  BY ONLY h \in Nat \ {0}, <1>1, SMTT(30)
<1>5. v = 0 => x * h = 0
  <2>1. v = 0 => x = 0
    BY DEF x
  <2>2. QED BY <2>1
<1>6. QED BY <1>3, <1>4, <1>5 DEF x

(* There is one multiple of h within h of a number. *)
LEMMA OneMultiple ==
  ASSUME NEW v \in Nat, NEW h \in Nat \ {0}, NEW p \in v..(v + h - 1), NEW q \in v..(v + h - 1),
         p % h = 0, q % h = 0
  PROVE  p = q
<1> DEFINE x == p \div h
           y == q \div h
<1>1. x \in Nat /\ y \in Nat /\ p = h * x /\ q = h * y
  OBVIOUS
<1> HIDE DEF x, y
<1>2. ASSUME x < y PROVE FALSE
  <2>1. h * (x + 1) <= h * y
    BY <1>1, <1>2
  <2>2. h * (x + 1) = h * x + h
    BY <1>1
  <2>3. QED BY <1>1, <2>1, <2>2
<1>3. ASSUME y < x PROVE FALSE
  <2>1. h * (y + 1) <= h * x
    BY <1>1, <1>3
  <2>2. h * (y + 1) = h * y + h
    BY <1>1
  <2>3. QED BY <1>1, <2>1, <2>2
<1>4. QED BY <1>1, <1>2, <1>3

(* What the layout takes for m rows is what the kernels use for them. *)
LEMMA WholeBlocks ==
  ASSUME NEW m \in Nat
  PROVE  /\ MaxM(m) \in Nat /\ MaxM(m) <= m + MStep /\ MaxM(0) = 0
         /\ m > 0 => MaxM(m) > 0
         /\ Blocks(m) = MaxM(m)
<1>1. MStep \in Nat \ {0}
  BY SizeAssumption
<1>2. /\ MaxM(m) \in Nat /\ m <= MaxM(m) /\ MaxM(m) <= m + MStep - 1 /\ MaxM(m) % MStep = 0
      /\ MaxM(0) = 0
  BY <1>1, RoundUp DEF MaxM
<1>3. MaxM(m) \in m..(m + MStep - 1)
  BY <1>1, <1>2
<1>4. Blocks(m) \in m..(m + MStep - 1) /\ Blocks(m) % MStep = 0
  BY <1>2, <1>3 DEF Blocks
<1>5. Blocks(m) = MaxM(m)
  BY <1>1, <1>2, <1>3, <1>4, OneMultiple
<1>6. QED BY <1>1, <1>2, <1>5

(* What an expert of m rows takes of a pool *)
LEMMA AlignedBytes ==
  ASSUME NEW m \in Nat
  PROVE  /\ Align(Need(MaxM(m))) \in Nat
         /\ m = 0 => Align(Need(MaxM(m))) = 0
         /\ Align(Need(MaxM(m))) <= RowBytes * m + (RowBytes * MStep + Line)
<1>1. RowBytes \in Nat \ {0} /\ Line \in Nat \ {0} /\ MStep \in Nat \ {0}
  BY SizeAssumption
<1>2. MaxM(m) \in Nat /\ MaxM(m) <= m + MStep /\ (m = 0 => MaxM(m) = 0)
  BY WholeBlocks
<1>3. Need(MaxM(m)) \in Nat /\ (m = 0 => Need(MaxM(m)) = 0)
  BY <1>1, <1>2 DEF Need
<1>4. Need(MaxM(m)) <= RowBytes * m + RowBytes * MStep
  <2>1. MaxM(m) * RowBytes <= (m + MStep) * RowBytes
    BY <1>1, <1>2
  <2>2. (m + MStep) * RowBytes = RowBytes * m + RowBytes * MStep
    BY <1>1
  <2>3. QED BY <2>1, <2>2 DEF Need
<1>5. /\ Align(Need(MaxM(m))) \in Nat /\ Align(Need(MaxM(m))) <= Need(MaxM(m)) + Line - 1
      /\ Need(MaxM(m)) = 0 => Align(Need(MaxM(m))) = 0
  BY <1>1, <1>3, RoundUp DEF Align
<1>6. RowBytes * m \in Nat /\ RowBytes * MStep \in Nat
  BY <1>1
<1>7. QED BY ONLY <1>1, <1>3, <1>4, <1>5, <1>6

-----------------------------------------------------------------------------
(* The layout *)

(* The order in which experts are placed names each expert with rows once. *)
Complete(order, num) ==
  /\ order \in Seq(Int)
  /\ \A j, k \in 1..Len(order) : order[j] = order[k] /\ j # k => ShouldSkip(order[j])
  /\ \A e \in Expert : num[e] > 0 => ~ShouldSkip(e) /\ \E k \in 1..Len(order) : order[k] = e

LEMMA SizesTyping ==
  ASSUME NEW order \in Seq(Int), NEW w \in [Expert -> Nat]
  PROVE  /\ SizesIn(order, w) \in [1..Len(order) -> Nat]
         /\ \A k \in 1..Len(order) :
              SizesIn(order, w)[k] = IF ShouldSkip(order[k]) THEN 0 ELSE w[order[k]]
BY DEF SizesIn, ShouldSkip

(* Experts placed one after another are apart. *)
LEMMA PlaceApart ==
  ASSUME NEW order, NEW w \in [Expert -> Nat], Complete(order, w), NEW most \in Int,
         Offsets(SizesIn(order, w))[Len(order)] <= most
  PROVE  Apart(Place(order, w), w, most)
<1> DEFINE n == Len(order)
           s == SizesIn(order, w)
           at == Offsets(s)
           D == {d \in Expert \ GpuExperts : w[d] > 0}
           K(e) == CHOOSE k \in 1..Len(order) : order[k] = e
<1>1. order \in Seq(Int) /\ n \in Nat
  BY DEF Complete
<1>2. s \in [1..n -> Nat] /\ \A k \in 1..n : s[k] = IF ShouldSkip(order[k]) THEN 0 ELSE w[order[k]]
  BY <1>1, SizesTyping
<1>3. Place(order, w) = [e \in D |-> at[K(e) - 1]]
  BY DEF Place
<1>4. \A e \in D : K(e) \in 1..n /\ order[K(e)] = e /\ ~ShouldSkip(e)
  BY DEF Complete
<1>5. /\ \A k \in 0..n : at[k] \in Nat
      /\ \A k \in 1..n : at[k] = at[k - 1] + s[k]
  <2>1. s \in Seq(Nat) /\ Len(s) = n
    BY <1>1, <1>2
  <2>2. QED BY <2>1, OffsetsDef
<1>6. \A j \in 0..n, k \in 0..n : j <= k => at[j] <= at[k]
  <2> SUFFICES ASSUME NEW j \in 0..n, NEW k \in 0..n, j <= k PROVE at[j] <= at[k]
    OBVIOUS
  <2>1. k \in j..n
    BY <1>1
  <2> HIDE DEF s
  <2>2. QED BY ONLY <1>1, <1>2, <2>1, j \in 0..n, OffsetsMono
<1> HIDE DEF n, s, at, K
<1>7. ASSUME NEW e \in D
      PROVE  at[K(e) - 1] + w[e] = at[K(e)] /\ K(e) \in 1..n
  BY <1>2, <1>4, <1>5
<1>8. at[n] <= most
  BY DEF at, s, n
<1>9. ASSUME NEW e \in D PROVE at[K(e) - 1] + w[e] <= most
  <2>1. K(e) \in 0..n /\ n \in 0..n /\ K(e) <= n
    BY <1>1, <1>7
  <2>2. at[K(e)] <= at[n] /\ at[K(e)] \in Nat /\ at[n] \in Nat
    BY <1>5, <1>6, <2>1
  <2>3. QED BY <1>7, <1>8, <2>2
<1>10. ASSUME NEW e \in D, NEW f \in D, K(e) < K(f)
       PROVE  at[K(e) - 1] + w[e] <= at[K(f) - 1]
  <2>1. K(e) \in 0..n /\ K(f) - 1 \in 0..n /\ K(e) <= K(f) - 1
    BY <1>1, <1>7, <1>10
  <2>2. QED BY <1>6, <1>7, <2>1
<1>11. ASSUME NEW e \in D, NEW f \in D, e # f
       PROVE  \/ at[K(e) - 1] + w[e] <= at[K(f) - 1]
              \/ at[K(f) - 1] + w[f] <= at[K(e) - 1]
  <2>1. K(e) # K(f) /\ K(e) \in Int /\ K(f) \in Int
    BY <1>4, <1>7, <1>11
  <2>2. K(e) < K(f) \/ K(f) < K(e)
    BY <2>1
  <2>3. QED BY <1>10, <2>2
<1>12. QED BY <1>3, <1>9, <1>11 DEF Apart

LEMMA Counted ==
  ASSUME NEW n \in Nat
  PROVE  /\ IsFiniteSet(1..n) /\ Cardinality(1..n) = n
         /\ IsFiniteSet(0..(n - 1)) /\ Cardinality(0..(n - 1)) = n
<1>1. IsFiniteSet(1..n) /\ Cardinality(1..n) = n
  BY FS_Interval
<1>2. IsFiniteSet(0..(n - 1)) /\ Cardinality(0..(n - 1)) = n
  BY FS_Interval
<1>3. QED BY <1>1, <1>2

(* The rows of a batch, and the experts that have rows *)
Used(num) == [e \in Expert |-> IF num[e] > 0 THEN 1 ELSE 0]

(* Each routed position takes one row. *)
LEMMA RowsFit ==
  ASSUME NEW qlen \in 1..MaxLen, NEW ids \in [0..(qlen - 1) -> Routes],
         NEW order, NEW num \in [Expert -> Nat], Complete(order, num),
         \A e \in Expert : IsFiniteSet(RoutedTo(ids, e)) /\ Cardinality(RoutedTo(ids, e)) = num[e]
  PROVE  Offsets(SizesIn(order, num))[Len(order)] <= MaxLen * TopK
<1> DEFINE n == Len(order)
           s == SizesIn(order, num)
           F == [k \in 1..n |-> IF ShouldSkip(order[k]) THEN {} ELSE RoutedTo(ids, order[k])]
           U == UNION {F[k] : k \in 1..n}
<1>1. order \in Seq(Int) /\ n \in Nat
  BY DEF Complete
<1>2. s \in [1..n -> Nat] /\ \A k \in 1..n : s[k] = IF ShouldSkip(order[k]) THEN 0 ELSE num[order[k]]
  BY <1>1, SizesTyping
<1>3. \A k \in 1..n : IsFiniteSet(F[k]) /\ Cardinality(F[k]) = s[k]
  <2> SUFFICES ASSUME NEW k \in 1..n PROVE IsFiniteSet(F[k]) /\ Cardinality(F[k]) = s[k]
    OBVIOUS
  <2>1. CASE ShouldSkip(order[k])
    BY <1>2, <2>1, FS_EmptySet
  <2>2. CASE ~ShouldSkip(order[k])
    BY <1>2, <2>2 DEF ShouldSkip
  <2>3. QED BY <2>1, <2>2
<1>4. \A j, k \in 1..n : j # k => F[j] \cap F[k] = {}
  <2> SUFFICES ASSUME NEW j \in 1..n, NEW k \in 1..n, j # k PROVE F[j] \cap F[k] = {}
    OBVIOUS
  <2>1. CASE ShouldSkip(order[j]) \/ ShouldSkip(order[k])
    BY <2>1
  <2>2. CASE ~ShouldSkip(order[j]) /\ ~ShouldSkip(order[k])
    <3>1. order[j] # order[k]
      BY <2>2 DEF Complete
    <3>2. RoutedTo(ids, order[j]) \cap RoutedTo(ids, order[k]) = {}
      BY ONLY <3>1 DEF RoutedTo
    <3>3. QED BY <2>2, <3>2
  <2>3. QED BY <2>1, <2>2
<1>5. U \subseteq (0..(qlen - 1)) \X (1..TopK)
  BY DEF RoutedTo, Routed
<1> HIDE DEF F, s, n
<1>6. IsFiniteSet(U) /\ Cardinality(U) = Offsets(s)[n]
  BY ONLY <1>1, <1>2, <1>3, <1>4, OffsetsCount, ZenonT(30)
<1> HIDE DEF U
<1>7. qlen \in Nat /\ qlen <= MaxLen /\ MaxLen \in Nat /\ TopK \in Nat
  BY SizeAssumption
<1>8. /\ IsFiniteSet((0..(qlen - 1)) \X (1..TopK))
      /\ Cardinality((0..(qlen - 1)) \X (1..TopK)) = qlen * TopK
  <2>1. /\ IsFiniteSet(0..(qlen - 1)) /\ Cardinality(0..(qlen - 1)) = qlen
        /\ IsFiniteSet(1..TopK) /\ Cardinality(1..TopK) = TopK
    BY ONLY <1>7, Counted
  <2> DEFINE A == 0..(qlen - 1)
             B == 1..TopK
  <2> HIDE DEF A, B
  <2>2. IsFiniteSet(A \X B) /\ Cardinality(A \X B) = Cardinality(A) * Cardinality(B)
    BY <2>1, FS_Product DEF A, B
  <2>3. Cardinality(A) = qlen /\ Cardinality(B) = TopK
    BY <2>1 DEF A, B
  <2>4. IsFiniteSet(A \X B) /\ Cardinality(A \X B) = qlen * TopK
    BY ONLY <2>2, <2>3
  <2>5. QED BY <2>4 DEF A, B
<1>9. Cardinality(U) <= qlen * TopK
  BY <1>5, <1>8, FS_Subset
<1>10. qlen * TopK <= MaxLen * TopK
  BY <1>7
<1>11. Cardinality(U) \in Nat /\ qlen * TopK \in Nat /\ MaxLen * TopK \in Nat
  BY <1>6, <1>7, FS_CardinalityType
<1>12. QED BY <1>6, <1>9, <1>10, <1>11 DEF s, n

(* No expert is placed twice. *)
LEMMA ExpertsFit ==
  ASSUME NEW order, NEW num \in [Expert -> Nat], Complete(order, num)
  PROVE  Offsets(SizesIn(order, Used(num)))[Len(order)] <= ExpertNum
<1> DEFINE n == Len(order)
           s == SizesIn(order, Used(num))
           Active(k) == ~ShouldSkip(order[k]) /\ num[order[k]] > 0
           F == [k \in 1..n |-> IF Active(k) THEN {order[k]} ELSE {}]
           U == UNION {F[k] : k \in 1..n}
<1>1. order \in Seq(Int) /\ n \in Nat /\ Used(num) \in [Expert -> Nat]
  BY DEF Complete, Used
<1>2. s \in [1..n -> Nat] /\ \A k \in 1..n : s[k] = IF Active(k) THEN 1 ELSE 0
  <2>1. /\ s \in [1..n -> Nat]
        /\ \A k \in 1..n : s[k] = IF ShouldSkip(order[k]) THEN 0 ELSE Used(num)[order[k]]
    BY <1>1, SizesTyping
  <2>2. \A k \in 1..n : ~ShouldSkip(order[k]) => order[k] \in Expert
    BY DEF ShouldSkip
  <2>3. QED BY <2>1, <2>2 DEF Used
<1>3. \A k \in 1..n : IsFiniteSet(F[k]) /\ Cardinality(F[k]) = s[k]
  BY <1>2, FS_EmptySet, FS_Singleton
<1>4. \A j, k \in 1..n : j # k => F[j] \cap F[k] = {}
  <2> SUFFICES ASSUME NEW j \in 1..n, NEW k \in 1..n, j # k, Active(j), Active(k)
               PROVE  order[j] # order[k]
    OBVIOUS
  <2> QED BY DEF Complete
<1>5. U \subseteq Expert
  BY DEF ShouldSkip
<1> HIDE DEF F, s, n
<1>6. IsFiniteSet(U) /\ Cardinality(U) = Offsets(s)[n]
  BY ONLY <1>1, <1>2, <1>3, <1>4, OffsetsCount, ZenonT(30)
<1> HIDE DEF U
<1>7. IsFiniteSet(Expert) /\ Cardinality(Expert) = ExpertNum /\ ExpertNum \in Nat
  <2>1. ExpertNum \in Nat \ {0}
    BY SizeAssumption
  <2>2. QED BY <2>1, FS_Interval DEF Expert
<1>8. QED BY <1>5, <1>6, <1>7, FS_Subset DEF s, n

ById == [k \in 1..ExpertNum |-> k - 1]

(* A plan's tables leave the experts apart and fit the pools. *)
Fits(l) ==
  /\ Apart(l.row, l.num, MaxLen * TopK)
  /\ Apart(l.ba, [e \in Expert |-> Blocks(l.num[e])], PoolCount)
  /\ Offsets([k \in 1..ExpertNum |-> Align(Need(MaxM(l.num[k - 1])))])[ExpertNum] <= PoolBytes

(* Whatever the order: the rows add up to the positions of the batch, the  *)
(* padding to one block and one line for each expert that has rows.        *)
LEMMA LayoutFits ==
  ASSUME NEW qlen \in 1..MaxLen, NEW ids \in [0..(qlen - 1) -> Routes],
         NEW order, NEW num \in [Expert -> Nat], Complete(order, num), NEW pos,
         \A e \in Expert : IsFiniteSet(RoutedTo(ids, e)) /\ Cardinality(RoutedTo(ids, e)) = num[e]
  PROVE  Fits(Layout(num, pos, order))
<1> DEFINE pad == [e \in Expert |-> MaxM(num[e])]
           rows(o) == Offsets(SizesIn(o, num))[Len(o)]
           used(o) == Offsets(SizesIn(o, Used(num)))[Len(o)]
<1>1. /\ MaxLen \in Nat \ {0} /\ TopK \in Nat \ {0} /\ ExpertNum \in Nat \ {0}
      /\ MStep \in Nat \ {0} /\ RowBytes \in Nat \ {0} /\ Line \in Nat \ {0}
      /\ MaxLen * TopK \in Nat /\ ExpertNum * MStep \in Nat /\ PoolCount \in Nat
  <2>1. /\ MaxLen \in Nat \ {0} /\ TopK \in Nat \ {0} /\ ExpertNum \in Nat \ {0}
        /\ MStep \in Nat \ {0} /\ RowBytes \in Nat \ {0} /\ Line \in Nat \ {0}
    BY SizeAssumption
  <2>2. MaxLen * TopK \in Nat /\ ExpertNum * MStep \in Nat
    BY <2>1
  <2>3. QED BY <2>1, <2>2 DEF PoolCount
<1>2. /\ pad \in [Expert -> Nat] /\ Used(num) \in [Expert -> Nat]
      /\ \A e \in Expert : /\ pad[e] <= num[e] + MStep * Used(num)[e]
                           /\ pad[e] = Blocks(num[e]) /\ (pad[e] > 0 <=> num[e] > 0)
  <2> SUFFICES ASSUME NEW e \in Expert
               PROVE  /\ MaxM(num[e]) \in Nat /\ MaxM(num[e]) = Blocks(num[e])
                      /\ MaxM(num[e]) <= num[e] + MStep * (IF num[e] > 0 THEN 1 ELSE 0)
                      /\ MaxM(num[e]) > 0 <=> num[e] > 0
    BY DEF Used
  <2>1. num[e] \in Nat
    OBVIOUS
  <2>2. /\ MaxM(num[e]) \in Nat /\ MaxM(num[e]) <= num[e] + MStep /\ MaxM(0) = 0
        /\ num[e] > 0 => MaxM(num[e]) > 0
        /\ Blocks(num[e]) = MaxM(num[e])
    BY <2>1, WholeBlocks
  <2>3. MStep * 1 = MStep /\ MStep * 0 = 0
    BY <1>1
  <2>4. CASE num[e] = 0
    BY <2>1, <2>2, <2>3, <2>4
  <2>5. CASE num[e] > 0
    BY <2>1, <2>2, <2>3, <2>5
  <2>6. QED BY <2>1, <2>4, <2>5
<1>3. Complete(ById, num) /\ Len(ById) = ExpertNum
  <2>1. ById \in Seq(Int) /\ Len(ById) = ExpertNum
    BY <1>1 DEF ById
  <2>2. \A k \in 1..ExpertNum : ById[k] = k - 1
    BY DEF ById
  <2>3. \A e \in Expert : e + 1 \in 1..ExpertNum /\ ById[e + 1] = e
    BY <1>1, <2>2 DEF Expert
  <2>4. \A j, k \in 1..ExpertNum : ById[j] = ById[k] => j = k
    BY <1>1, <2>2
  <2>5. QED BY <2>1, <2>3, <2>4 DEF Complete
<1>4. ASSUME NEW o, Complete(o, num)
      PROVE  /\ rows(o) <= MaxLen * TopK /\ used(o) <= ExpertNum
             /\ o \in Seq(Int) /\ Len(o) \in Nat
             /\ SizesIn(o, num) \in [1..Len(o) -> Nat] /\ SizesIn(o, Used(num)) \in [1..Len(o) -> Nat]
             /\ \A k \in 1..Len(o) :
                  /\ SizesIn(o, num)[k] = IF ShouldSkip(o[k]) THEN 0 ELSE num[o[k]]
                  /\ SizesIn(o, Used(num))[k] = IF ShouldSkip(o[k]) THEN 0 ELSE Used(num)[o[k]]
  <2>1. o \in Seq(Int) /\ Len(o) \in Nat
    BY <1>4 DEF Complete
  <2>2. QED BY <1>2, <1>4, <2>1, RowsFit, ExpertsFit, SizesTyping
<1>5. Apart(Place(order, num), num, MaxLen * TopK)
  BY <1>1, <1>4, PlaceApart
<1>6. Offsets(SizesIn(order, pad))[Len(order)] <= PoolCount
  <2> DEFINE n == Len(order)
             r == SizesIn(order, pad)
             s == SizesIn(order, num)
             t == SizesIn(order, Used(num))
  <2>1. /\ r \in [1..n -> Nat] /\ n \in Nat
        /\ \A k \in 1..n : r[k] = IF ShouldSkip(order[k]) THEN 0 ELSE pad[order[k]]
    BY <1>2, <1>4, SizesTyping
  <2>2. s \in [1..n -> Nat] /\ t \in [1..n -> Nat] /\ rows(order) <= MaxLen * TopK /\ used(order) <= ExpertNum
    BY <1>4
  <2>3. ASSUME NEW k \in 1..n PROVE r[k] <= 1 * s[k] + MStep * t[k]
    <3>1. CASE ShouldSkip(order[k])
      <4>1. r[k] = 0 /\ s[k] = 0 /\ t[k] = 0
        BY <1>4, <2>1, <3>1
      <4>2. QED BY <1>1, <4>1
    <3>2. CASE ~ShouldSkip(order[k])
      <4>1. order[k] \in Expert
        BY <3>2 DEF ShouldSkip
      <4>2. r[k] = pad[order[k]] /\ s[k] = num[order[k]] /\ t[k] = Used(num)[order[k]]
        <5>1. r[k] = pad[order[k]]
          BY <2>1, <3>2
        <5>2. s[k] = num[order[k]] /\ t[k] = Used(num)[order[k]]
          BY <1>4, <3>2
        <5>3. QED BY ONLY <5>1, <5>2
      <4>3. 1 * s[k] = s[k]
        <5>1. s[k] \in Nat
          BY <2>2
        <5>2. QED BY ONLY <5>1
      <4>4. pad[order[k]] <= num[order[k]] + MStep * Used(num)[order[k]]
        BY ONLY <1>2, <4>1
      <4>5. QED BY ONLY <4>2, <4>3, <4>4
    <3>3. QED BY <3>1, <3>2
  <2> HIDE DEF n, r, s, t
  <2>4. /\ Offsets(r)[n] \in Nat /\ Offsets(s)[n] \in Nat /\ Offsets(t)[n] \in Nat
        /\ Offsets(r)[n] <= 1 * Offsets(s)[n] + MStep * Offsets(t)[n]
    BY <1>1, <2>1, <2>2, <2>3, OffsetsBound
  <2>5. Offsets(s)[n] <= MaxLen * TopK /\ Offsets(t)[n] <= ExpertNum
    BY <2>2 DEF s, t, n
  <2>6. MStep * Offsets(t)[n] <= ExpertNum * MStep
    <3>1. MStep \in Nat /\ ExpertNum \in Nat /\ Offsets(t)[n] \in Nat /\ Offsets(t)[n] <= ExpertNum
      BY <1>1, <2>4, <2>5
    <3>2. QED BY ONLY <3>1
  <2>7. MStep * Offsets(t)[n] \in Nat /\ 1 * Offsets(s)[n] = Offsets(s)[n]
    <3>1. MStep \in Nat /\ Offsets(t)[n] \in Nat /\ Offsets(s)[n] \in Nat
      BY <1>1, <2>4
    <3>2. QED BY ONLY <3>1
  <2>8. Offsets(r)[n] <= MaxLen * TopK + ExpertNum * MStep
    <3>1. /\ Offsets(r)[n] \in Nat /\ Offsets(s)[n] \in Nat
          /\ MaxLen * TopK \in Nat /\ ExpertNum * MStep \in Nat
      BY <1>1, <2>4
    <3>2. QED BY ONLY <3>1, <2>4, <2>5, <2>6, <2>7
  <2>9. QED BY <2>8 DEF PoolCount, n, r
<1>7. Apart(Place(order, pad), [e \in Expert |-> Blocks(num[e])], PoolCount)
  <2>1. Complete(order, pad)
    BY <1>2 DEF Complete
  <2>2. Apart(Place(order, pad), pad, PoolCount)
    BY <1>1, <1>2, <1>6, <2>1, PlaceApart
  <2>3. [e \in Expert |-> Blocks(num[e])] = pad
    BY <1>2
  <2>4. QED BY <2>2, <2>3
<1>8. Offsets([k \in 1..ExpertNum |-> Align(Need(MaxM(num[k - 1])))])[ExpertNum] <= PoolBytes
  <2> DEFINE r == [k \in 1..ExpertNum |-> Align(Need(MaxM(num[k - 1])))]
             s == SizesIn(ById, num)
             t == SizesIn(ById, Used(num))
             a == RowBytes
             b == RowBytes * MStep + Line
  <2>1. /\ s \in [1..ExpertNum -> Nat] /\ t \in [1..ExpertNum -> Nat]
        /\ Offsets(s)[ExpertNum] <= MaxLen * TopK /\ Offsets(t)[ExpertNum] <= ExpertNum
    BY <1>3, <1>4
  <2>2. a \in Nat /\ b \in Nat
    BY <1>1
  <2>3. ASSUME NEW k \in 1..ExpertNum
        PROVE  r[k] \in Nat /\ r[k] <= a * s[k] + b * t[k]
    <3>1. ById[k] = k - 1 /\ k - 1 \in Expert /\ num[k - 1] \in Nat
      BY <1>1 DEF ById, Expert
    <3>2. /\ s[k] = IF ShouldSkip(k - 1) THEN 0 ELSE num[k - 1]
          /\ t[k] = IF ShouldSkip(k - 1) THEN 0 ELSE Used(num)[k - 1]
      <4>1. k \in 1..Len(ById)
        BY <1>3
      <4>2. QED BY <1>3, <1>4, <3>1, <4>1
    <3>3. num[k - 1] > 0 => s[k] = num[k - 1] /\ t[k] = 1
      <4>1. num[k - 1] > 0 => ~ShouldSkip(k - 1) /\ Used(num)[k - 1] = 1
        BY <1>3, <3>1 DEF Complete, Used
      <4>2. QED BY ONLY <3>2, <4>1
    <3>4. /\ r[k] \in Nat /\ (num[k - 1] = 0 => r[k] = 0) /\ r[k] <= a * num[k - 1] + b
      BY <3>1, AlignedBytes
    <3>5. CASE num[k - 1] = 0
      <4>1. a * s[k] + b * t[k] >= 0
        <5>1. s[k] \in Nat /\ t[k] \in Nat
          BY <2>1
        <5>2. a * s[k] \in Nat /\ b * t[k] \in Nat
          BY ONLY <2>2, <5>1
        <5>3. QED BY <5>2
      <4>2. QED BY <3>4, <3>5, <4>1
    <3>6. CASE num[k - 1] > 0
      <4>1. b * t[k] = b
        BY <2>2, <3>3, <3>6
      <4>2. QED BY <3>3, <3>4, <3>6, <4>1
    <3>7. QED BY <3>1, <3>5, <3>6
  <2>4. r \in [1..ExpertNum -> Nat]
    BY <2>3
  <2> HIDE DEF r, s, t, a, b
  <2>5. /\ Offsets(r)[ExpertNum] \in Nat /\ Offsets(s)[ExpertNum] \in Nat /\ Offsets(t)[ExpertNum] \in Nat
        /\ Offsets(r)[ExpertNum] <= a * Offsets(s)[ExpertNum] + b * Offsets(t)[ExpertNum]
    BY <1>1, <2>1, <2>2, <2>3, <2>4, OffsetsBound
  <2>6. a * Offsets(s)[ExpertNum] + b * Offsets(t)[ExpertNum] <= a * (MaxLen * TopK) + b * ExpertNum
    <3>1. a * Offsets(s)[ExpertNum] <= a * (MaxLen * TopK)
      BY <1>1, <2>1, <2>2, <2>5
    <3>2. b * Offsets(t)[ExpertNum] <= b * ExpertNum
      BY <1>1, <2>1, <2>2, <2>5
    <3>3. /\ a * Offsets(s)[ExpertNum] \in Nat /\ b * Offsets(t)[ExpertNum] \in Nat
          /\ a * (MaxLen * TopK) \in Nat /\ b * ExpertNum \in Nat
      BY <1>1, <2>2, <2>5
    <3>4. QED BY ONLY <3>1, <3>2, <3>3
  <2>7. a * (MaxLen * TopK) + b * ExpertNum <= PoolBytes
    <3> DEFINE m == MaxLen * TopK
               x == ExpertNum * MStep
    <3>1. b * ExpertNum = RowBytes * x + Line * ExpertNum
      BY <1>1 DEF b
    <3>2. PoolBytes = RowBytes * m + RowBytes * x + (m + x) * Line
      BY <1>1 DEF PoolBytes, Need, PoolCount
    <3>3. Line * ExpertNum <= (m + x) * Line
      <4>1. ExpertNum <= x
        BY <1>1
      <4>2. ExpertNum <= m + x /\ m + x \in Nat
        BY <1>1, <4>1
      <4> HIDE DEF m, x
      <4>3. QED BY <1>1, <4>2
    <3>4. /\ RowBytes * m \in Nat /\ RowBytes * x \in Nat /\ Line * ExpertNum \in Nat
          /\ (m + x) * Line \in Nat
      BY <1>1
    <3>5. a * m = RowBytes * m
      BY DEF a
    <3> HIDE DEF m, x
    <3>6. a * m + b * ExpertNum <= PoolBytes
      BY ONLY <3>1, <3>2, <3>3, <3>4, <3>5
    <3>7. QED BY <3>6 DEF m
  <2>8. PoolBytes \in Nat
    BY <1>1 DEF PoolBytes, Need
  <2>9. a * (MaxLen * TopK) + b * ExpertNum \in Nat /\ a * Offsets(s)[ExpertNum] + b * Offsets(t)[ExpertNum] \in Nat
    <3>1. a * (MaxLen * TopK) \in Nat /\ b * ExpertNum \in Nat
      BY <1>1, <2>2
    <3>2. a * Offsets(s)[ExpertNum] \in Nat /\ b * Offsets(t)[ExpertNum] \in Nat
      BY <2>2, <2>5
    <3>3. QED BY ONLY <3>1, <3>2
  <2>10. Offsets(r)[ExpertNum] <= PoolBytes
    BY ONLY <2>5, <2>6, <2>7, <2>8, <2>9
  <2>11. QED BY <2>10 DEF r
<1>9. /\ Layout(num, pos, order).num = num
      /\ Layout(num, pos, order).row = Place(order, num)
      /\ Layout(num, pos, order).ba = Place(order, pad)
  BY DEF Layout
<1> HIDE DEF pad
<1>10. QED BY ONLY <1>5, <1>7, <1>8, <1>9 DEF Fits

(* The plans are made for a batch, and stay while its parts are computed. *)
PlanInv ==
  cpc = "parts" => \E qlen \in 1..MaxLen : \E ids \in [0..(qlen - 1) -> Routes] :
    plan = [n \in Numa |-> IF qlen > 1 THEN PrefillPlan(ids) ELSE DecodePlan(ids)]

LEMMA RoutedFinite ==
  ASSUME NEW qlen \in 1..MaxLen, NEW ids \in [0..(qlen - 1) -> Routes], NEW e \in Expert
  PROVE  /\ IsFiniteSet(RoutedTo(ids, e)) /\ Cardinality(RoutedTo(ids, e)) \in Nat
         /\ Cardinality(RoutedTo(ids, e)) > 0 => ~ShouldSkip(e)
<1> DEFINE A == 0..(qlen - 1)
           B == 1..TopK
<1>1. qlen \in Nat /\ TopK \in Nat
  BY SizeAssumption
<1>2. IsFiniteSet(A) /\ IsFiniteSet(B)
  BY <1>1, FS_Interval
<1>3. RoutedTo(ids, e) \subseteq A \X B
  BY DEF RoutedTo, Routed
<1> HIDE DEF A, B
<1>4. IsFiniteSet(RoutedTo(ids, e)) /\ Cardinality(RoutedTo(ids, e)) \in Nat
  BY <1>2, <1>3, FS_Product, FS_Subset, FS_CardinalityType
<1>5. ShouldSkip(e) => RoutedTo(ids, e) = {}
  BY DEF RoutedTo, Routed, Id
<1>6. QED BY <1>4, <1>5, FS_EmptySet

LEMMA ByIdComplete ==
  ASSUME NEW num \in [Expert -> Nat], \A e \in Expert : num[e] > 0 => ~ShouldSkip(e)
  PROVE  Complete(ById, num)
<1>1. ExpertNum \in Nat
  BY SizeAssumption
<1>2. ById \in Seq(Int) /\ Len(ById) = ExpertNum
  BY <1>1 DEF ById
<1>3. \A k \in 1..ExpertNum : ById[k] = k - 1
  BY DEF ById
<1>4. \A e \in Expert : e + 1 \in 1..ExpertNum /\ ById[e + 1] = e
  BY <1>1, <1>3 DEF Expert
<1>5. \A j, k \in 1..ExpertNum : ById[j] = ById[k] => j = k
  BY <1>1, <1>3
<1>6. QED BY <1>2, <1>4, <1>5 DEF Complete

LEMMA PrefillApart ==
  ASSUME NEW qlen \in 1..MaxLen, NEW ids \in [0..(qlen - 1) -> Routes]
  PROVE  Fits(PrefillPlan(ids))
<1> DEFINE num == [e \in Expert |-> Cardinality(RoutedTo(ids, e))]
<1>1. PICK pos : PrefillPlan(ids) = Layout(num, pos, ById)
  BY DEF PrefillPlan, ById
<1>2. /\ num \in [Expert -> Nat]
      /\ \A e \in Expert : IsFiniteSet(RoutedTo(ids, e)) /\ Cardinality(RoutedTo(ids, e)) = num[e]
  BY RoutedFinite
<1>3. Complete(ById, num)
  BY <1>2, RoutedFinite, ByIdComplete
<1> HIDE DEF num
<1>4. Fits(Layout(num, pos, ById))
  BY <1>2, <1>3, LayoutFits
<1>5. QED BY ONLY <1>1, <1>4

LEMMA DecodeComplete ==
  ASSUME NEW ids \in [0..0 -> Routes]
  PROVE  LET num == [e \in Expert |-> IF RoutedTo(ids, e) # {} THEN 1 ELSE 0]
         IN  /\ Complete(ids[0], num) /\ num \in [Expert -> Nat]
             /\ \A e \in Expert : \A x \in RoutedTo(ids, e) :
                  x = <<0, x[2]>> /\ x[2] \in 1..TopK /\ ids[0][x[2]] = e /\ ~ShouldSkip(e)
             /\ \A j, k \in 1..TopK : ids[0][j] = ids[0][k] /\ j # k => ShouldSkip(ids[0][j])
<1> DEFINE num == [e \in Expert |-> IF RoutedTo(ids, e) # {} THEN 1 ELSE 0]
           order == ids[0]
<1>1. /\ TopK \in Nat /\ 1 \in 1..MaxLen /\ 0..(1 - 1) = 0..0
      /\ order \in [1..TopK -> Expert \cup {-1}]
      /\ \A j, k \in 1..TopK : order[j] = order[k] /\ j # k => ShouldSkip(order[j])
  BY SizeAssumption, RouteAssumption
<1>2. order \in Seq(Int) /\ Len(order) = TopK
  <2>1. Expert \cup {-1} \subseteq Int
    BY SizeAssumption DEF Expert
  <2>2. order \in [1..TopK -> Int]
    BY <1>1, <2>1
  <2> HIDE DEF order
  <2>3. QED BY ONLY <1>1, <2>2
<1>3. \A e \in Expert : \A x \in RoutedTo(ids, e) :
        x = <<0, x[2]>> /\ x[2] \in 1..TopK /\ order[x[2]] = e /\ ~ShouldSkip(e)
  BY DEF RoutedTo, Routed, Id
<1>4. num \in [Expert -> Nat]
  OBVIOUS
<1>5. \A e \in Expert : num[e] > 0 => ~ShouldSkip(e) /\ \E k \in 1..TopK : order[k] = e
  BY <1>3
<1>6. Complete(order, num)
  <2> HIDE DEF num, order
  <2>1. QED BY <1>1, <1>2, <1>5 DEF Complete
<1>7. QED BY ONLY <1>1, <1>3, <1>4, <1>6

LEMMA DecodeApart ==
  ASSUME NEW ids \in [0..0 -> Routes]
  PROVE  Fits(DecodePlan(ids))
<1> DEFINE num == [e \in Expert |-> IF RoutedTo(ids, e) # {} THEN 1 ELSE 0]
           order == ids[0]
<1>1. PICK pos : DecodePlan(ids) = Layout(num, pos, order)
  BY DEF DecodePlan
<1>2. /\ 1 \in 1..MaxLen /\ 0..(1 - 1) = 0..0
      /\ \A j, k \in 1..TopK : order[j] = order[k] /\ j # k => ShouldSkip(order[j])
  <2>1. 1 \in 1..MaxLen /\ 0..(1 - 1) = 0..0
    BY SizeAssumption
  <2>2. \A j, k \in 1..TopK : order[j] = order[k] /\ j # k => ShouldSkip(order[j])
    BY DecodeComplete, Zenon
  <2>3. QED BY ONLY <2>1, <2>2
<1>4. \A e \in Expert : \A x \in RoutedTo(ids, e) :
        x = <<0, x[2]>> /\ x[2] \in 1..TopK /\ order[x[2]] = e /\ ~ShouldSkip(e)
  BY DecodeComplete
<1>5. ASSUME NEW e \in Expert
      PROVE  IsFiniteSet(RoutedTo(ids, e)) /\ Cardinality(RoutedTo(ids, e)) = num[e]
  <2>1. CASE RoutedTo(ids, e) = {}
    BY <2>1, FS_EmptySet
  <2>2. CASE RoutedTo(ids, e) # {}
    <3>1. PICK x \in RoutedTo(ids, e) : TRUE
      BY <2>2
    <3>2. \A y \in RoutedTo(ids, e) : y = x
      <4> SUFFICES ASSUME NEW y \in RoutedTo(ids, e) PROVE y = x
        OBVIOUS
      <4>1. /\ x = <<0, x[2]>> /\ x[2] \in 1..TopK /\ order[x[2]] = e /\ ~ShouldSkip(e)
            /\ y = <<0, y[2]>> /\ y[2] \in 1..TopK /\ order[y[2]] = e
        BY <1>4, <3>1
      <4> HIDE DEF order
      <4>2. x[2] = y[2]
        <5>1. order[x[2]] = order[y[2]] /\ ~ShouldSkip(order[x[2]])
          BY ONLY <4>1
        <5>2. QED BY ONLY <1>2, <4>1, <5>1
      <4>3. QED BY ONLY <4>1, <4>2
    <3>3. RoutedTo(ids, e) = {x}
      BY <3>1, <3>2
    <3>4. IsFiniteSet({x}) /\ Cardinality({x}) = 1
      BY ONLY FS_Singleton
    <3>5. num[e] = 1
      BY <2>2
    <3>6. QED BY ONLY <3>3, <3>4, <3>5
  <2>3. QED BY <2>1, <2>2
<1>6. num \in [Expert -> Nat]
  OBVIOUS
<1>8. Complete(order, num)
  BY DecodeComplete
<1> HIDE DEF num, order
<1>9. ids \in [0..(1 - 1) -> Routes]
  BY <1>2
<1>10. Fits(Layout(num, pos, order))
  BY <1>2, <1>5, <1>6, <1>8, <1>9, LayoutFits
<1>11. QED BY ONLY <1>1, <1>10

LEMMA PlanApart == PlanInv => RegionsApart
<1> SUFFICES ASSUME PlanInv, cpc = "parts", NEW n \in Numa
             PROVE  LET num == plan[n].num
                    IN  /\ Bytes(n) <= PoolBytes
                        /\ Apart(plan[n].row, num, MaxLen * TopK)
                        /\ Apart(plan[n].ba, [e \in Expert |-> Blocks(num[e])], PoolCount)
  BY DEF RegionsApart
<1>1. PICK qlen \in 1..MaxLen : \E ids \in [0..(qlen - 1) -> Routes] :
        plan = [m \in Numa |-> IF qlen > 1 THEN PrefillPlan(ids) ELSE DecodePlan(ids)]
  BY DEF PlanInv
<1>2. PICK ids \in [0..(qlen - 1) -> Routes] :
        plan = [m \in Numa |-> IF qlen > 1 THEN PrefillPlan(ids) ELSE DecodePlan(ids)]
  BY <1>1
<1>3. plan[n] = IF qlen > 1 THEN PrefillPlan(ids) ELSE DecodePlan(ids)
  BY <1>2
<1>4. CASE qlen > 1
  <2>1. plan[n] = PrefillPlan(ids)
    BY <1>3, <1>4
  <2>2. QED BY <2>1, PrefillApart DEF Bytes, Fits
<1>5. CASE ~ (qlen > 1)
  <2>1. plan[n] = DecodePlan(ids)
    BY <1>3, <1>5
  <2>2. qlen = 1 /\ 0..(qlen - 1) = 0..0
    BY <1>5
  <2>3. ids \in [0..0 -> Routes]
    BY <2>2
  <2>4. QED BY <2>1, <2>3, DecodeApart DEF Bytes, Fits
<1>6. QED BY <1>4, <1>5

(* In every batch, what the experts take from the scratch pools is there,  *)
(* padded to whole blocks and aligned, and no two of them share rows or    *)
(* blocks: the assertions at the end of the layout loops hold for any      *)
(* routing, any sizes and any placement of experts on the GPU.             *)
THEOREM RegionsApartSafe == PassSpec => []RegionsApart
<1>1. PassInit => PlanInv
  BY DEF PassInit, PlanInv
<1>2. PlanInv /\ [PassNext]_passVars => PlanInv'
  <2> SUFFICES ASSUME PlanInv, [PassNext]_passVars PROVE PlanInv'
    OBVIOUS
  <2>1. CASE Forward
    BY <2>1 DEF Forward, PlanInv
  <2>2. CASE \E n \in Numa : PartStep(n)
    <3>1. UNCHANGED <<cpc, plan>>
      BY <2>2 DEF PartStep, Claim, Work, Advance
    <3>2. QED BY <3>1 DEF PlanInv
  <2>3. CASE CallStep
    BY <2>3 DEF CallStep, StartMerge, EndMerge, Return, PlanInv
  <2>4. CASE UNCHANGED passVars
    BY <2>4 DEF passVars, PlanInv
  <2>5. QED BY <2>1, <2>2, <2>3, <2>4 DEF PassNext
<1>3. QED BY <1>1, <1>2, PlanApart, PTL DEF PassSpec

-----------------------------------------------------------------------------
(* The table of experts *)

(* The experts that have rows *)
HaveRows(num) == {d \in Expert \ GpuExperts : num[d] > 0}

(* An initial piece of the table lists, each once, the experts with rows    *)
(* that were met so far.                                                   *)
Lists(q, order, num, m) ==
  /\ q \in Seq(HaveRows(num))
  /\ \A a, b \in 1..Len(q) : q[a] = q[b] => a = b
  /\ \A a \in 1..Len(q) : \E k \in 1..m : order[k] = q[a]
  /\ \A k \in 1..m : order[k] \in HaveRows(num) => \E a \in 1..Len(q) : q[a] = order[k]

Selected(num, e) == ~ShouldSkip(e) /\ num[e] > 0

LEMMA ListsNext ==
  ASSUME NEW order, NEW num \in [Expert -> Nat], Complete(order, num),
         NEW m \in 1..Len(order), NEW q, Lists(q, order, num, m - 1)
  PROVE  Lists(IF Selected(num, order[m]) THEN Append(q, order[m]) ELSE q, order, num, m)
<1> DEFINE R == HaveRows(num)
           e == order[m]
<1>1. /\ Len(order) \in Nat /\ m \in Nat /\ order[m] \in Int /\ m \in 1..m
      /\ \A k \in 1..m : k \in 1..(m - 1) \/ k = m
      /\ \A k \in 1..(m - 1) : k \in 1..m /\ k # m
      /\ \A k \in 1..m : k \in 1..Len(order)
  BY DEF Complete
<1>2. Selected(num, e) <=> e \in R
  BY DEF ShouldSkip, Selected, HaveRows
<1>3. /\ q \in Seq(R) /\ Len(q) \in Nat
      /\ \A a, b \in 1..Len(q) : q[a] = q[b] => a = b
      /\ \A a \in 1..Len(q) : \E k \in 1..(m - 1) : order[k] = q[a]
      /\ \A k \in 1..(m - 1) : order[k] \in R => \E a \in 1..Len(q) : q[a] = order[k]
  BY DEF Lists
<1>4. CASE e \notin R
  <2>1. \A a \in 1..Len(q) : \E k \in 1..m : order[k] = q[a]
    BY <1>1, <1>3
  <2>2. \A k \in 1..m : order[k] \in R => \E a \in 1..Len(q) : q[a] = order[k]
    BY <1>1, <1>3, <1>4
  <2> HIDE DEF R
  <2>3. QED BY <1>2, <1>3, <1>4, <2>1, <2>2 DEF Lists, R
<1>5. CASE e \in R
  <2> DEFINE p == Append(q, e)
  <2> HIDE DEF R
  <2>1. /\ p \in Seq(R) /\ Len(p) = Len(q) + 1 /\ p[Len(q) + 1] = e
        /\ \A a \in 1..Len(q) : p[a] = q[a]
    BY <1>3, <1>5
  <2>2. \A a \in 1..Len(p) : a \in 1..Len(q) \/ a = Len(q) + 1
    BY <1>3, <2>1
  <2> HIDE DEF e
  <2>3. \A a \in 1..Len(q) : q[a] # e
    <3> SUFFICES ASSUME NEW a \in 1..Len(q), q[a] = e PROVE FALSE
      OBVIOUS
    <3>1. PICK k \in 1..(m - 1) : order[k] = q[a]
      BY <1>3
    <3>2. order[k] = order[m] /\ k # m /\ k \in 1..Len(order)
      BY <1>1, <3>1 DEF e
    <3>3. ShouldSkip(e)
      BY <3>2 DEF Complete, e
    <3>4. QED BY <1>2, <1>5, <3>3 DEF Selected
  <2> HIDE DEF p
  <2>4. \A a, b \in 1..Len(p) : p[a] = p[b] => a = b
    BY <1>3, <2>1, <2>2, <2>3
  <2>5. \A a \in 1..Len(p) : \E k \in 1..m : order[k] = p[a]
    <3> SUFFICES ASSUME NEW a \in 1..Len(p) PROVE \E k \in 1..m : order[k] = p[a]
      OBVIOUS
    <3>1. CASE a \in 1..Len(q)
      BY <1>1, <1>3, <2>1, <3>1
    <3>2. CASE a = Len(q) + 1
      BY <1>1, <2>1, <3>2 DEF e
    <3>3. QED BY <2>2, <3>1, <3>2
  <2>6. \A k \in 1..m : order[k] \in R => \E a \in 1..Len(p) : p[a] = order[k]
    <3> SUFFICES ASSUME NEW k \in 1..m, order[k] \in R PROVE \E a \in 1..Len(p) : p[a] = order[k]
      OBVIOUS
    <3>1. CASE k = m
      <4>1. Len(q) + 1 \in 1..Len(p)
        BY <1>3, <2>1
      <4>2. QED BY <2>1, <3>1, <4>1 DEF e
    <3>2. CASE k \in 1..(m - 1)
      <4>1. PICK a \in 1..Len(q) : q[a] = order[k]
        BY <1>3, <3>2
      <4>2. a \in 1..Len(p) /\ p[a] = order[k]
        BY <1>3, <2>1, <4>1
      <4>3. QED BY <4>2
    <3>3. QED BY <1>1, <3>1, <3>2
  <2>7. Lists(p, order, num, m)
    BY ONLY <2>1, <2>4, <2>5, <2>6 DEF Lists, R
  <2>8. QED BY ONLY <1>2, <1>5, <2>7 DEF p, e
<1>6. QED BY <1>4, <1>5

LEMMA ActivatedLists ==
  ASSUME NEW order, NEW num \in [Expert -> Nat], Complete(order, num)
  PROVE  Lists(Activated(order, num), order, num, Len(order))
<1> DEFINE n == Len(order)
           Next1(m, q) == IF Selected(num, order[m]) THEN Append(q, order[m]) ELSE q
           Upto(m, f) == /\ DOMAIN f = 0..m /\ f[0] = <<>> /\ \A k \in 1..m : f[k] = Next1(k, f[k - 1])
           P(f) == f = [k \in 0..n |-> IF k = 0 THEN <<>> ELSE Next1(k, f[k - 1])]
           Done == {m \in 0..n : \E f : f = [k \in 0..m |-> f[k]] /\ Upto(m, f)}
<1>1. n \in Nat /\ 0 \in 0..n
  BY DEF Complete
<1> HIDE DEF n, Next1
<1>2. 0 \in Done
  <2> DEFINE g == [k \in 0..0 |-> <<>>]
  <2>1. g = [k \in 0..0 |-> g[k]] /\ Upto(0, g)
    OBVIOUS
  <2> HIDE DEF g
  <2>2. QED BY <1>1, <2>1
<1>3. ASSUME NEW m \in 1..n, m - 1 \in Done PROVE m \in Done
  <2>1. PICK f : Upto(m - 1, f)
    BY <1>3
  <2> DEFINE g == [k \in 0..m |-> IF k = m THEN Next1(m, f[m - 1]) ELSE f[k]]
  <2>2. m \in Nat /\ m - 1 \in 0..(m - 1) /\ m \in 0..n /\ 0 \in 0..m /\ m # 0
    BY <1>1
  <2>3. g = [k \in 0..m |-> g[k]] /\ DOMAIN g = 0..m /\ g[0] = <<>>
    BY <2>1, <2>2
  <2>4. ASSUME NEW k \in 1..m PROVE g[k] = Next1(k, g[k - 1])
    <3>1. k \in 0..m /\ k - 1 \in 0..m /\ k - 1 # m /\ (k # m => k \in 1..(m - 1))
      BY <2>2
    <3>2. /\ g[k - 1] = f[k - 1]
          /\ k = m => g[k] = Next1(m, f[k - 1])
          /\ k # m => g[k] = f[k]
      BY <3>1
    <3>3. k # m => f[k] = Next1(k, f[k - 1])
      BY <2>1, <3>1
    <3> HIDE DEF g
    <3>4. QED BY ONLY <3>2, <3>3
  <2> HIDE DEF g
  <2>5. Upto(m, g)
    BY ONLY <2>3, <2>4
  <2>6. QED BY ONLY <2>2, <2>3, <2>5
<1>4. n \in Done
  <2> HIDE DEF Done
  <2>1. \A m \in 0..n : m \in Done
    BY ONLY <1>1, <1>2, <1>3, UpTo
  <2>2. QED BY ONLY <1>1, <2>1
<1>5. PICK f : f = [k \in 0..n |-> f[k]] /\ Upto(n, f)
  BY <1>4
<1>6. P(f)
  <2>1. ASSUME NEW k \in 0..n PROVE f[k] = IF k = 0 THEN <<>> ELSE Next1(k, f[k - 1])
    <3>1. k = 0 \/ (k # 0 /\ k \in 1..n)
      BY <1>1
    <3>2. f[0] = <<>> /\ \A j \in 1..n : f[j] = Next1(j, f[j - 1])
      BY <1>5
    <3>3. CASE k = 0
      BY ONLY <3>2, <3>3
    <3>4. CASE k # 0 /\ k \in 1..n
      BY ONLY <3>2, <3>4
    <3>5. QED BY ONLY <3>1, <3>3, <3>4
  <2>2. QED BY <1>5, <2>1
<1>7. \E h : P(h) /\ Activated(order, num) = h[n]
  <2> DEFINE h == CHOOSE h : P(h)
  <2>1. Activated(order, num) = h[n]
    BY DEF Activated, Next1, n, Selected
  <2>2. P(h)
    <3> HIDE DEF P
    <3>1. QED BY <1>6
  <2> HIDE DEF h
  <2>3. QED BY <2>1, <2>2
<1>8. PICK h : P(h) /\ Activated(order, num) = h[n]
  BY <1>7
<1>9. h[0] = <<>> /\ \A k \in 1..n : h[k] = Next1(k, h[k - 1])
  BY <1>1, <1>8
<1> DEFINE S == {m \in 0..n : Lists(h[m], order, num, m)}
<1>10. 0 \in S
  <2>1. Lists(<<>>, order, num, 0)
    BY DEF Lists
  <2>2. QED BY <1>1, <1>9, <2>1
<1>11. ASSUME NEW m \in 1..n, m - 1 \in S PROVE m \in S
  <2>1. Lists(h[m - 1], order, num, m - 1)
    BY <1>11
  <2>2. m \in 1..Len(order) /\ m \in 0..n
    BY <1>1 DEF n
  <2>3. Lists(Next1(m, h[m - 1]), order, num, m)
    BY ONLY Complete(order, num), num \in [Expert -> Nat], <2>1, <2>2, ListsNext DEF Next1
  <2>4. QED BY <1>9, <2>2, <2>3
<1>12. n \in S
  <2> HIDE DEF S
  <2>1. \A m \in 0..n : m \in S
    BY ONLY <1>1, <1>10, <1>11, UpTo
  <2>2. QED BY ONLY <1>1, <2>1
<1>13. QED BY <1>8, <1>12 DEF n

(* What the kernels rely on: each expert with rows has its own rows and its *)
(* own blocks, with room for all of them, and one entry of the table; each *)
(* routed position has a row of its own among those of its expert.         *)
Separate(at, num, most) ==
  /\ DOMAIN at = HaveRows(num)
  /\ \A e \in HaveRows(num) : at[e] \in Nat /\ at[e] + num[e] <= most
  /\ \A e, f \in HaveRows(num) : e # f => at[e] + num[e] <= at[f] \/ at[f] + num[f] <= at[e]

PlanOK(p, ids) ==
  /\ p.num \in [Expert -> Nat]
  /\ Separate(p.row, p.num, MaxLen * TopK) /\ Separate(p.ba, p.num, PoolCount)
  /\ p.map \in Seq(HaveRows(p.num))
  /\ \A a, b \in 1..Len(p.map) : p.map[a] = p.map[b] => a = b
  /\ \A e \in HaveRows(p.num) : \E a \in 1..Len(p.map) : p.map[a] = e
  /\ \A x \in Routed(ids) : Id(ids, x) \in HaveRows(p.num) /\ p.pos[x] \in 0..(p.num[Id(ids, x)] - 1)
  /\ \A x, y \in Routed(ids) : Id(ids, x) = Id(ids, y) /\ p.pos[x] = p.pos[y] => x = y

LEMMA PlaceTyping ==
  ASSUME NEW order, NEW w \in [Expert -> Nat], Complete(order, w)
  PROVE  /\ DOMAIN Place(order, w) = HaveRows(w)
         /\ \A e \in HaveRows(w) : Place(order, w)[e] \in Nat
<1> DEFINE n == Len(order)
           s == SizesIn(order, w)
           at == Offsets(s)
           K(e) == CHOOSE k \in 1..Len(order) : order[k] = e
<1>1. order \in Seq(Int) /\ n \in Nat
  BY DEF Complete
<1>2. s \in [1..n -> Nat]
  BY <1>1, SizesTyping
<1>3. Place(order, w) = [e \in HaveRows(w) |-> at[K(e) - 1]]
  BY DEF Place, HaveRows
<1>4. \A e \in HaveRows(w) : K(e) \in 1..n
  BY DEF Complete, HaveRows
<1>5. \A k \in 0..n : at[k] \in Nat
  <2>1. s \in Seq(Nat) /\ Len(s) = n
    BY <1>1, <1>2
  <2>2. QED BY <2>1, OffsetsDef
<1> HIDE DEF n, at, K
<1>6. \A e \in HaveRows(w) : K(e) - 1 \in 0..n
  BY <1>1, <1>4
<1>7. QED BY <1>3, <1>5, <1>6

LEMMA EnoughBlocks ==
  ASSUME NEW m \in Nat
  PROVE  /\ MaxM(m) \in Nat /\ Blocks(m) = MaxM(m) /\ m <= MaxM(m)
         /\ MaxM(m) > 0 <=> m > 0
<1>1. MStep \in Nat \ {0}
  BY SizeAssumption
<1>2. m <= MaxM(m)
  BY <1>1, RoundUp DEF MaxM
<1>3. MaxM(m) \in Nat /\ MaxM(0) = 0 /\ (m > 0 => MaxM(m) > 0) /\ Blocks(m) = MaxM(m)
  BY WholeBlocks
<1>4. QED BY <1>2, <1>3

LEMMA LayoutSeparate ==
  ASSUME NEW order, NEW num \in [Expert -> Nat], Complete(order, num), NEW pos,
         Fits(Layout(num, pos, order))
  PROVE  LET p == Layout(num, pos, order)
         IN  /\ p.num = num /\ p.pos = pos
             /\ Separate(p.row, num, MaxLen * TopK) /\ Separate(p.ba, num, PoolCount)
             /\ p.map \in Seq(HaveRows(num))
             /\ \A a, b \in 1..Len(p.map) : p.map[a] = p.map[b] => a = b
             /\ \A e \in HaveRows(num) : \E a \in 1..Len(p.map) : p.map[a] = e
<1> DEFINE p == Layout(num, pos, order)
           pad == [e \in Expert |-> MaxM(num[e])]
<1>1. /\ p.num = num /\ p.pos = pos /\ p.map = Activated(order, num)
      /\ p.row = Place(order, num) /\ p.ba = Place(order, pad)
  BY DEF Layout
<1> HIDE DEF p
<1>2. /\ pad \in [Expert -> Nat]
      /\ \A e \in Expert : /\ pad[e] = Blocks(num[e]) /\ num[e] <= pad[e]
                           /\ pad[e] > 0 <=> num[e] > 0
  <2> SUFFICES ASSUME NEW e \in Expert
               PROVE  /\ MaxM(num[e]) \in Nat /\ MaxM(num[e]) = Blocks(num[e])
                      /\ num[e] <= MaxM(num[e]) /\ (MaxM(num[e]) > 0 <=> num[e] > 0)
    OBVIOUS
  <2>1. num[e] \in Nat
    OBVIOUS
  <2>2. QED BY <2>1, EnoughBlocks
<1> HIDE DEF pad
<1>3. HaveRows(pad) = HaveRows(num) /\ Complete(order, pad)
  BY <1>2 DEF HaveRows, Complete
<1>4. /\ DOMAIN p.row = HaveRows(num) /\ \A e \in HaveRows(num) : p.row[e] \in Nat
      /\ DOMAIN p.ba = HaveRows(num) /\ \A e \in HaveRows(num) : p.ba[e] \in Nat
  BY <1>1, <1>2, <1>3, PlaceTyping
<1>5. Apart(p.row, num, MaxLen * TopK) /\ Apart(p.ba, [e \in Expert |-> Blocks(num[e])], PoolCount)
  BY <1>1 DEF Fits, p
<1>6. Separate(p.row, num, MaxLen * TopK)
  BY <1>4, <1>5 DEF Separate, Apart
<1>7. Separate(p.ba, num, PoolCount)
  <2>1. \A e \in HaveRows(num) : /\ e \in Expert /\ p.ba[e] \in Nat /\ num[e] \in Nat
                                 /\ Blocks(num[e]) \in Nat /\ num[e] <= Blocks(num[e])
    BY <1>2, <1>4 DEF HaveRows
  <2>2. \A e, f \in HaveRows(num) :
          /\ p.ba[e] + Blocks(num[e]) <= PoolCount
          /\ e # f => p.ba[e] + Blocks(num[e]) <= p.ba[f] \/ p.ba[f] + Blocks(num[f]) <= p.ba[e]
    BY <1>4, <1>5, <2>1 DEF Apart
  <2>3. PoolCount \in Nat
    <3>1. /\ MaxLen \in Nat /\ TopK \in Nat /\ ExpertNum \in Nat /\ MStep \in Nat
      BY SizeAssumption
    <3>2. MaxLen * TopK \in Nat /\ ExpertNum * MStep \in Nat
      BY <3>1
    <3>3. QED BY <3>2 DEF PoolCount
  <2>4. \A e \in HaveRows(num) : p.ba[e] + num[e] <= PoolCount
    BY ONLY <2>1, <2>2, <2>3
  <2>5. \A e, f \in HaveRows(num) : e # f => p.ba[e] + num[e] <= p.ba[f] \/ p.ba[f] + num[f] <= p.ba[e]
    BY ONLY <2>1, <2>2
  <2>6. QED BY ONLY <1>4, <2>4, <2>5 DEF Separate
<1>8. Lists(p.map, order, num, Len(order))
  BY <1>1, ActivatedLists
<1>9. \A e \in HaveRows(num) : \E k \in 1..Len(order) : order[k] = e
  BY DEF Complete, HaveRows
<1>10. \A e \in HaveRows(num) : \E a \in 1..Len(p.map) : p.map[a] = e
  <2> SUFFICES ASSUME NEW e \in HaveRows(num) PROVE \E a \in 1..Len(p.map) : p.map[a] = e
    OBVIOUS
  <2>1. PICK k \in 1..Len(order) : order[k] = e
    BY <1>9
  <2>2. QED BY <1>8, <2>1 DEF Lists
<1>11. p.map \in Seq(HaveRows(num)) /\ \A a, b \in 1..Len(p.map) : p.map[a] = p.map[b] => a = b
  BY <1>8 DEF Lists
<1>12. QED BY ONLY <1>1, <1>6, <1>7, <1>10, <1>11 DEF p

Position(ids, x) == x = <<x[1], x[2]>> /\ x[1] \in DOMAIN ids /\ x[2] \in 1..TopK /\ ~ShouldSkip(Id(ids, x))

LEMMA RoutedIs ==
  ASSUME NEW qlen \in 1..MaxLen, NEW ids \in [0..(qlen - 1) -> Routes]
  PROVE  /\ \A x \in Routed(ids) : /\ Position(ids, x) /\ x[1] \in 0..(qlen - 1)
                                   /\ Id(ids, x) \in Expert \ GpuExperts
                                   /\ x \in RoutedTo(ids, Id(ids, x))
         /\ \A e \in Expert : \A x \in RoutedTo(ids, e) : x \in Routed(ids) /\ Id(ids, x) = e
BY DEF Routed, RoutedTo, Position, Id, ShouldSkip

EarlierOf(ids, x) ==
  {y \in RoutedTo(ids, Id(ids, x)) : y[1] < x[1] \/ (y[1] = x[1] /\ y[2] < x[2])}

LEMMA Ranked ==
  ASSUME NEW qlen \in 1..MaxLen, NEW ids \in [0..(qlen - 1) -> Routes], NEW x \in Routed(ids)
  PROVE  /\ Cardinality(EarlierOf(ids, x)) \in 0..(Cardinality(RoutedTo(ids, Id(ids, x))) - 1)
         /\ \A y \in Routed(ids) :
              Id(ids, x) = Id(ids, y) /\ Cardinality(EarlierOf(ids, x)) = Cardinality(EarlierOf(ids, y))
                => x = y
<1> DEFINE e == Id(ids, x)
           R == RoutedTo(ids, e)
           E(y) == EarlierOf(ids, y)
<1>1. /\ e \in Expert /\ x \in R /\ IsFiniteSet(R) /\ Cardinality(R) \in Nat
      /\ \A y \in R : Position(ids, y) /\ y[1] \in 0..(qlen - 1)
  BY RoutedIs, RoutedFinite
<1>2. \A y \in R : y[1] \in Int /\ y[2] \in Int
  BY <1>1, SizeAssumption DEF Position
<1>3. ASSUME NEW y \in Routed(ids), Id(ids, y) = e
      PROVE  E(y) = {z \in R : z[1] < y[1] \/ (z[1] = y[1] /\ z[2] < y[2])}
  BY <1>3 DEF EarlierOf
<1>4. \A y \in Routed(ids) : Id(ids, y) = e => y \in R
  BY RoutedIs
<1> HIDE DEF e, R, E
<1>5. ASSUME NEW y \in Routed(ids), Id(ids, y) = e
      PROVE  /\ IsFiniteSet(E(y)) /\ Cardinality(E(y)) \in Nat
             /\ Cardinality(E(y)) < Cardinality(R)
  <2>1. E(y) \subseteq R /\ y \in R /\ y \notin E(y)
    BY <1>2, <1>3, <1>4, <1>5
  <2>2. /\ IsFiniteSet(E(y)) /\ Cardinality(E(y)) <= Cardinality(R)
        /\ Cardinality(R) = Cardinality(E(y)) => R = E(y)
    BY <1>1, <2>1, FS_Subset
  <2>3. Cardinality(E(y)) \in Nat
    BY <2>2, FS_CardinalityType
  <2>4. QED BY <1>1, <2>1, <2>2, <2>3
<1>6. ASSUME NEW y \in Routed(ids), Id(ids, y) = e, NEW z \in Routed(ids), Id(ids, z) = e,
             y[1] < z[1] \/ (y[1] = z[1] /\ y[2] < z[2])
      PROVE  Cardinality(E(y)) < Cardinality(E(z))
  <2>1. y \in R /\ z \in R
    BY <1>4, <1>6
  <2>2. E(y) = {w \in R : w[1] < y[1] \/ (w[1] = y[1] /\ w[2] < y[2])}
    BY <1>3, <1>6
  <2>3. E(z) = {w \in R : w[1] < z[1] \/ (w[1] = z[1] /\ w[2] < z[2])}
    BY <1>3, <1>6
  <2>4. E(y) \subseteq E(z) /\ y \in E(z) /\ y \notin E(y)
    BY <1>2, <1>6, <2>1, <2>2, <2>3
  <2>5. /\ IsFiniteSet(E(z)) /\ Cardinality(E(z)) \in Nat /\ Cardinality(E(y)) \in Nat
    BY <1>5, <1>6
  <2>6. /\ Cardinality(E(y)) <= Cardinality(E(z))
        /\ Cardinality(E(z)) = Cardinality(E(y)) => E(z) = E(y)
    BY <2>4, <2>5, FS_Subset
  <2>7. QED BY <2>4, <2>5, <2>6
<1>7. Cardinality(E(x)) \in Nat /\ Cardinality(E(x)) < Cardinality(R)
  BY <1>5 DEF e
<1>8. ASSUME NEW y \in Routed(ids), Id(ids, y) = e, Cardinality(E(x)) = Cardinality(E(y)) PROVE x = y
  <2>1. x \in R /\ y \in R /\ Id(ids, x) = e
    BY <1>1, <1>4, <1>8 DEF e
  <2>2. Cardinality(E(x)) \in Nat /\ Cardinality(E(y)) \in Nat
    BY <1>5, <1>8, <2>1
  <2>3. ~(x[1] < y[1] \/ (x[1] = y[1] /\ x[2] < y[2]))
    BY <1>6, <1>8, <2>1, <2>2
  <2>4. ~(y[1] < x[1] \/ (y[1] = x[1] /\ y[2] < x[2]))
    BY <1>6, <1>8, <2>1, <2>2
  <2>5. x[1] = y[1] /\ x[2] = y[2]
    BY <1>2, <2>1, <2>3, <2>4
  <2>6. x = <<x[1], x[2]>> /\ y = <<y[1], y[2]>>
    BY <1>1, <2>1 DEF Position
  <2>7. QED BY <2>5, <2>6
<1>9. Cardinality(E(x)) \in 0..(Cardinality(R) - 1)
  BY <1>1, <1>7
<1>10. QED BY <1>8, <1>9 DEF e, E, R

LEMMA PrefillOK ==
  ASSUME NEW qlen \in 1..MaxLen, NEW ids \in [0..(qlen - 1) -> Routes]
  PROVE  PlanOK(PrefillPlan(ids), ids)
<1> DEFINE num == [e \in Expert |-> Cardinality(RoutedTo(ids, e))]
           pos == [x \in Routed(ids) |-> Cardinality(EarlierOf(ids, x))]
           p == PrefillPlan(ids)
<1>1. p = Layout(num, pos, ById)
  BY DEF PrefillPlan, ById, EarlierOf
<1>2. num \in [Expert -> Nat] /\ \A e \in Expert : num[e] > 0 => ~ShouldSkip(e)
  BY RoutedFinite
<1>3. Complete(ById, num)
  BY <1>2, ByIdComplete
<1>4. Fits(p)
  BY PrefillApart
<1>5. ASSUME NEW x \in Routed(ids)
      PROVE  Id(ids, x) \in HaveRows(num) /\ pos[x] \in 0..(num[Id(ids, x)] - 1)
  <2>1. Id(ids, x) \in Expert \ GpuExperts /\ pos[x] = Cardinality(EarlierOf(ids, x))
    BY RoutedIs
  <2>2. pos[x] \in 0..(num[Id(ids, x)] - 1)
    BY <2>1, Ranked
  <2>3. num[Id(ids, x)] \in Nat
    BY <1>2, <2>1
  <2> HIDE DEF num, pos
  <2>4. QED BY <2>1, <2>2, <2>3 DEF HaveRows
<1>6. \A x, y \in Routed(ids) : Id(ids, x) = Id(ids, y) /\ pos[x] = pos[y] => x = y
  BY Ranked
<1> HIDE DEF num, pos, p
<1>7. /\ p.num = num /\ p.pos = pos
      /\ Separate(p.row, num, MaxLen * TopK) /\ Separate(p.ba, num, PoolCount)
      /\ p.map \in Seq(HaveRows(num))
      /\ \A a, b \in 1..Len(p.map) : p.map[a] = p.map[b] => a = b
      /\ \A e \in HaveRows(num) : \E a \in 1..Len(p.map) : p.map[a] = e
  <2> DEFINE q == Layout(num, pos, ById)
  <2>1. Fits(q)
    BY <1>1, <1>4
  <2>2. /\ q.num = num /\ q.pos = pos
        /\ Separate(q.row, num, MaxLen * TopK) /\ Separate(q.ba, num, PoolCount)
        /\ q.map \in Seq(HaveRows(num))
        /\ \A a, b \in 1..Len(q.map) : q.map[a] = q.map[b] => a = b
        /\ \A e \in HaveRows(num) : \E a \in 1..Len(q.map) : q.map[a] = e
    BY ONLY <1>2, <1>3, <2>1, LayoutSeparate
  <2>3. p = q
    BY <1>1
  <2> HIDE DEF q
  <2>4. QED BY ONLY <2>2, <2>3
<1>8. PlanOK(p, ids)
  BY ONLY <1>2, <1>5, <1>6, <1>7 DEF PlanOK
<1>9. QED BY <1>8 DEF p

LEMMA DecodeOK ==
  ASSUME NEW ids \in [0..(1 - 1) -> Routes]
  PROVE  PlanOK(DecodePlan(ids), ids)
<1> DEFINE num == [e \in Expert |-> IF RoutedTo(ids, e) # {} THEN 1 ELSE 0]
           pos == [x \in Routed(ids) |-> 0]
           order == ids[0]
           p == DecodePlan(ids)
<1>1. p = Layout(num, pos, order)
  BY DEF DecodePlan
<1>2. ids \in [0..0 -> Routes] /\ 1 \in 1..MaxLen
  BY SizeAssumption
<1>3. Complete(order, num)
  BY <1>2, DecodeComplete
<1>4. Fits(p)
  BY <1>2, DecodeApart
<1>5. num \in [Expert -> Nat]
  OBVIOUS
<1>6. ASSUME NEW x \in Routed(ids)
      PROVE  Id(ids, x) \in HaveRows(num) /\ pos[x] \in 0..(num[Id(ids, x)] - 1)
  <2>1. Id(ids, x) \in Expert \ GpuExperts /\ x \in RoutedTo(ids, Id(ids, x))
    BY <1>2, RoutedIs
  <2>2. num[Id(ids, x)] = 1 /\ pos[x] = 0
    BY <2>1
  <2> HIDE DEF num, pos
  <2>3. QED BY <2>1, <2>2 DEF HaveRows
<1>7. ASSUME NEW x \in Routed(ids), NEW y \in Routed(ids), Id(ids, x) = Id(ids, y)
      PROVE  x = y
  <2>1. /\ Position(ids, x) /\ Position(ids, y) /\ x[1] = 0 /\ y[1] = 0
    <3>1. x[1] \in 0..(1 - 1) /\ y[1] \in 0..(1 - 1) /\ Position(ids, x) /\ Position(ids, y)
      BY ONLY <1>2, ids \in [0..(1 - 1) -> Routes], x \in Routed(ids), y \in Routed(ids), RoutedIs
    <3>2. QED BY ONLY <3>1
  <2>2. Id(ids, x) = order[x[2]] /\ Id(ids, y) = order[y[2]] /\ order \in Routes
    BY <1>2, <2>1 DEF Id
  <2> HIDE DEF order
  <2>3. x[2] = y[2]
    BY <1>7, <2>1, <2>2, RouteAssumption DEF Position
  <2>4. x = <<x[1], x[2]>> /\ y = <<y[1], y[2]>>
    BY <2>1 DEF Position
  <2>5. QED BY <2>1, <2>3, <2>4
<1> HIDE DEF num, pos, p, order
<1>8. /\ p.num = num /\ p.pos = pos
      /\ Separate(p.row, num, MaxLen * TopK) /\ Separate(p.ba, num, PoolCount)
      /\ p.map \in Seq(HaveRows(num))
      /\ \A a, b \in 1..Len(p.map) : p.map[a] = p.map[b] => a = b
      /\ \A e \in HaveRows(num) : \E a \in 1..Len(p.map) : p.map[a] = e
  <2> DEFINE q == Layout(num, pos, order)
  <2>1. Fits(q)
    BY <1>1, <1>4
  <2>2. /\ q.num = num /\ q.pos = pos
        /\ Separate(q.row, num, MaxLen * TopK) /\ Separate(q.ba, num, PoolCount)
        /\ q.map \in Seq(HaveRows(num))
        /\ \A a, b \in 1..Len(q.map) : q.map[a] = q.map[b] => a = b
        /\ \A e \in HaveRows(num) : \E a \in 1..Len(q.map) : q.map[a] = e
    BY ONLY <1>3, <1>5, <2>1, LayoutSeparate
  <2>3. p = q
    BY <1>1
  <2> HIDE DEF q
  <2>4. QED BY ONLY <2>2, <2>3
<1>9. PlanOK(p, ids)
  BY ONLY <1>5, <1>6, <1>7, <1>8 DEF PlanOK
<1>10. QED BY <1>9 DEF p

-----------------------------------------------------------------------------
(* What a part has computed *)

Phases == {"copy", "gate_up_ba", "gate_up", "act", "down_ba", "down", "sum", "done"}

(* The jobs that come after the job ph *)
Later(ph) ==
  CASE ph = "copy" -> {"gate_up_ba", "gate_up", "act", "down_ba", "down", "sum", "done"}
    [] ph = "gate_up_ba" -> {"gate_up", "act", "down_ba", "down", "sum", "done"}
    [] ph = "gate_up" -> {"act", "down_ba", "down", "sum", "done"}
    [] ph = "act" -> {"down_ba", "down", "sum", "done"}
    [] ph = "down_ba" -> {"down", "sum", "done"}
    [] ph = "down" -> {"sum", "done"}
    [] ph = "sum" -> {"done"}
    [] ph = "done" -> {}

(* The tasks of the job ph that have been run, seen from the job j *)
Ran(j) == {k \in 0..(j.next - 1) : k \notin j.held}
Done(j, ph) == IF j.phase \in Later(ph) THEN Nat ELSE IF j.phase = ph THEN Ran(j) ELSE {}

(* Where the row of a routed position lies, and the entry of the table for *)
(* its expert *)
RowAt(p, ids, x) == p.row[Id(ids, x)] + p.pos[x]
BlockAt(p, ids, x) == p.ba[Id(ids, x)] + p.pos[x]
Entries(p) == 0..(Len(p.map) - 1)
Serves(p, ids, a, x) == p.map[a + 1] = Id(ids, x)
GateSlices == 0..(GateUpNth - 1)
DownSlices == 0..(DownNth - 1)

(* ... and what becomes of it *)
Token(x) == <<"token", x[1]>>
GateOf(n, ids, x) == Gate(n, Id(ids, x), Token(x))
UpOf(n, ids, x) == Up(n, Id(ids, x), Token(x))
ActOf(n, ids, x) == Act(GateOf(n, ids, x), UpOf(n, ids, x))
DownOf(n, ids, x) == Down(n, Id(ids, x), ActOf(n, ids, x))
Summands(n, ids, t) == {<<x[2], DownOf(n, ids, x)>> : x \in {y \in Routed(ids) : y[1] = t}}

(* The contents of each buffer when the tasks D of its job have been run *)
CopiedIn(buf, D, p, c) ==
  c.qlen > 1 => \A x \in Routed(c.ids) : x[1] \in D => buf[RowAt(p, c.ids, x)] = Token(x)
QuantizedIn(buf, D, p, c) ==
  \A x \in Routed(c.ids), a \in Entries(p) :
    Serves(p, c.ids, a, x) /\ a \in D => buf[BlockAt(p, c.ids, x)] = Token(x)
UpIn(buf, D, p, c, n) ==
  \A x \in Routed(c.ids), a \in Entries(p), s \in GateSlices :
    Serves(p, c.ids, a, x) /\ 2 * (a * GateUpNth + s) + 1 \in D =>
      buf[RowAt(p, c.ids, x)][s] = UpOf(n, c.ids, x)
GateIn(buf, D, A, p, c, n) ==
  \A x \in Routed(c.ids), a \in Entries(p), s \in GateSlices :
    Serves(p, c.ids, a, x) /\ 2 * (a * GateUpNth + s) \in D =>
      buf[RowAt(p, c.ids, x)][s] =
        IF a * GateUpNth + s \in A THEN ActOf(n, c.ids, x) ELSE GateOf(n, c.ids, x)
ActedIn(buf, D, p, c, n) ==
  \A x \in Routed(c.ids), a \in Entries(p) :
    Serves(p, c.ids, a, x) /\ a \in D => buf[BlockAt(p, c.ids, x)] = ActOf(n, c.ids, x)
DownIn(buf, D, p, c, n) ==
  \A x \in Routed(c.ids), a \in Entries(p), s \in DownSlices :
    Serves(p, c.ids, a, x) /\ a * DownNth + s \in D =>
      buf[RowAt(p, c.ids, x)][s] = DownOf(n, c.ids, x)
SumsIn(loc, D, c, n) ==
  \A t \in 0..(c.qlen - 1) : t \in D => loc[t] = SetToBag(Summands(n, c.ids, t))

MemType(m) ==
  /\ DOMAIN m = {"in", "gate", "up", "down", "gate_up_ba", "down_ba"}
  /\ DOMAIN m.in = Row /\ DOMAIN m.gate = Row /\ DOMAIN m.up = Row /\ DOMAIN m.down = Row
  /\ DOMAIN m.gate_up_ba = 0..(PoolCount - 1) /\ DOMAIN m.down_ba = 0..(PoolCount - 1)
  /\ \A r \in Row : /\ DOMAIN m.gate[r] = GateSlices /\ DOMAIN m.up[r] = GateSlices
                    /\ DOMAIN m.down[r] = DownSlices

PartAt(n, p, c, m, loc, copied, quantized, gemmed, acted, requantized, downed, summed) ==
  /\ CopiedIn(m.in, copied, p, c)
  /\ QuantizedIn(m.gate_up_ba, quantized, p, c)
  /\ UpIn(m.up, gemmed, p, c, n)
  /\ GateIn(m.gate, gemmed, acted, p, c, n)
  /\ ActedIn(m.down_ba, requantized, p, c, n)
  /\ DownIn(m.down, downed, p, c, n)
  /\ SumsIn(loc, summed, c, n)

PartIn(n, p, c, m, loc, j) ==
  PartAt(n, p, c, m, loc, Done(j, "copy"), Done(j, "gate_up_ba"), Done(j, "gate_up"),
         Done(j, "act"), Done(j, "down_ba"), Done(j, "down"), Done(j, "sum"))

CallOK ==
  /\ call.qlen \in 1..MaxLen /\ call.ids \in [0..(call.qlen - 1) -> Routes]
  /\ \A n \in Numa : PlanOK(plan[n], call.ids)

LEMMA Constants ==
  /\ GateUpNth \in Nat \ {0} /\ DownNth \in Nat \ {0}
  /\ MaxLen \in Nat \ {0} /\ TopK \in Nat \ {0} /\ NumaCount \in Nat \ {0}
  /\ MaxLen * TopK \in Nat /\ PoolCount \in Nat
<1>1. /\ GateUpNth \in Nat \ {0} /\ DownNth \in Nat \ {0} /\ NumaCount \in Nat \ {0}
      /\ MaxLen \in Nat \ {0} /\ TopK \in Nat \ {0} /\ ExpertNum \in Nat /\ MStep \in Nat
  BY SizeAssumption
<1>2. MaxLen * TopK \in Nat /\ ExpertNum * MStep \in Nat
  BY <1>1
<1>3. QED BY <1>1, <1>2 DEF PoolCount

(* Rows are told apart by their place. *)
LEMMA Places ==
  ASSUME NEW p, NEW ids, PlanOK(p, ids), NEW x \in Routed(ids)
  PROVE  /\ RowAt(p, ids, x) \in Row /\ BlockAt(p, ids, x) \in 0..(PoolCount - 1)
         /\ Id(ids, x) \in HaveRows(p.num) /\ p.pos[x] \in 0..(p.num[Id(ids, x)] - 1)
         /\ RowAt(p, ids, x) = p.row[Id(ids, x)] + p.pos[x] /\ p.row[Id(ids, x)] \in Nat
         /\ BlockAt(p, ids, x) = p.ba[Id(ids, x)] + p.pos[x] /\ p.ba[Id(ids, x)] \in Nat
         /\ \A e \in HaveRows(p.num) :
              /\ RowAt(p, ids, x) - p.row[e] \in 0..(p.num[e] - 1) => Id(ids, x) = e
              /\ BlockAt(p, ids, x) - p.ba[e] \in 0..(p.num[e] - 1) => Id(ids, x) = e
         /\ \A y \in Routed(ids) : RowAt(p, ids, x) = RowAt(p, ids, y) => x = y
<1> DEFINE e == Id(ids, x)
<1>1. /\ e \in HaveRows(p.num) /\ p.pos[x] \in 0..(p.num[e] - 1)
      /\ \A d \in HaveRows(p.num) : p.num[d] \in Nat
      /\ Separate(p.row, p.num, MaxLen * TopK) /\ Separate(p.ba, p.num, PoolCount)
  BY DEF PlanOK, HaveRows
<1>2. MaxLen * TopK \in Nat /\ PoolCount \in Nat
  BY Constants
<1> HIDE DEF e
<1>3. /\ RowAt(p, ids, x) = p.row[e] + p.pos[x] /\ p.row[e] \in Nat
      /\ BlockAt(p, ids, x) = p.ba[e] + p.pos[x] /\ p.ba[e] \in Nat
  BY <1>1 DEF RowAt, BlockAt, Separate, e
<1>4. RowAt(p, ids, x) \in Row /\ BlockAt(p, ids, x) \in 0..(PoolCount - 1)
  BY <1>1, <1>2, <1>3 DEF Row, Separate
<1>5. ASSUME NEW at, NEW most, Separate(at, p.num, most), NEW d \in HaveRows(p.num),
             (at[e] + p.pos[x]) - at[d] \in 0..(p.num[d] - 1)
      PROVE  e = d
  <2>1. /\ at[e] \in Nat /\ at[d] \in Nat /\ p.num[e] \in Nat /\ p.num[d] \in Nat
        /\ e # d => at[e] + p.num[e] <= at[d] \/ at[d] + p.num[d] <= at[e]
    BY <1>1, <1>5 DEF Separate
  <2>2. QED BY <1>1, <1>5, <2>1
<1>6. ASSUME NEW d \in HaveRows(p.num)
      PROVE  /\ RowAt(p, ids, x) - p.row[d] \in 0..(p.num[d] - 1) => e = d
             /\ BlockAt(p, ids, x) - p.ba[d] \in 0..(p.num[d] - 1) => e = d
  <2>1. ASSUME (p.row[e] + p.pos[x]) - p.row[d] \in 0..(p.num[d] - 1) PROVE e = d
    BY ONLY d \in HaveRows(p.num), <1>1, <1>5, <2>1
  <2>2. ASSUME (p.ba[e] + p.pos[x]) - p.ba[d] \in 0..(p.num[d] - 1) PROVE e = d
    BY ONLY d \in HaveRows(p.num), <1>1, <1>5, <2>2
  <2>3. /\ RowAt(p, ids, x) - p.row[d] = (p.row[e] + p.pos[x]) - p.row[d]
        /\ BlockAt(p, ids, x) - p.ba[d] = (p.ba[e] + p.pos[x]) - p.ba[d]
    BY ONLY <1>3, Zenon
  <2>4. QED BY ONLY <2>1, <2>2, <2>3, Zenon
<1>7. ASSUME NEW y \in Routed(ids), RowAt(p, ids, x) = RowAt(p, ids, y) PROVE x = y
  <2>1. /\ Id(ids, y) \in HaveRows(p.num) /\ p.pos[y] \in 0..(p.num[Id(ids, y)] - 1)
        /\ RowAt(p, ids, y) = p.row[Id(ids, y)] + p.pos[y] /\ p.row[Id(ids, y)] \in Nat
    BY <1>1 DEF PlanOK, RowAt, Separate
  <2>2. RowAt(p, ids, x) - p.row[Id(ids, y)] = p.pos[y]
    BY <1>7, <2>1
  <2>3. e = Id(ids, y)
    BY <1>6, <2>1, <2>2
  <2>4. p.pos[x] = p.pos[y]
    BY <1>1, <1>3, <1>7, <2>1, <2>3
  <2>5. QED BY <2>3, <2>4 DEF PlanOK, e
<1>8. QED BY ONLY <1>1, <1>3, <1>4, <1>6, <1>7 DEF e

LEMMA Table ==
  ASSUME NEW p, NEW ids, PlanOK(p, ids)
  PROVE  /\ Len(p.map) \in Nat
         /\ \A a \in Entries(p) : p.map[a + 1] \in HaveRows(p.num)
         /\ \A a, b \in Entries(p) : p.map[a + 1] = p.map[b + 1] => a = b
         /\ \A x \in Routed(ids) : \E a \in Entries(p) : Serves(p, ids, a, x)
<1>1. /\ p.map \in Seq(HaveRows(p.num)) /\ Len(p.map) \in Nat
      /\ \A a, b \in 1..Len(p.map) : p.map[a] = p.map[b] => a = b
      /\ \A e \in HaveRows(p.num) : \E a \in 1..Len(p.map) : p.map[a] = e
      /\ \A x \in Routed(ids) : Id(ids, x) \in HaveRows(p.num)
  BY DEF PlanOK
<1>2. \A a \in Entries(p) : a + 1 \in 1..Len(p.map) /\ a \in Int
  BY <1>1 DEF Entries
<1>3. \A a \in Entries(p) : p.map[a + 1] \in HaveRows(p.num)
  BY <1>1, <1>2
<1>4. \A a, b \in Entries(p) : p.map[a + 1] = p.map[b + 1] => a = b
  <2> SUFFICES ASSUME NEW a \in Entries(p), NEW b \in Entries(p), p.map[a + 1] = p.map[b + 1]
               PROVE  a = b
    OBVIOUS
  <2>1. a + 1 = b + 1
    BY <1>1, <1>2
  <2>2. QED BY <1>2, <2>1
<1>5. ASSUME NEW x \in Routed(ids) PROVE \E a \in Entries(p) : Serves(p, ids, a, x)
  <2>1. PICK a \in 1..Len(p.map) : p.map[a] = Id(ids, x)
    BY <1>1
  <2>2. a - 1 \in Entries(p) /\ (a - 1) + 1 = a
    BY <1>1, <2>1 DEF Entries
  <2>3. QED BY <2>1, <2>2 DEF Serves
<1>6. QED BY <1>1, <1>3, <1>4, <1>5

(* Tasks cut into slices *)
LEMMA Slices ==
  ASSUME NEW N \in Nat \ {0}, NEW A \in Nat
  PROVE  /\ \A a \in 0..(A - 1), s \in 0..(N - 1) :
              a * N + s \in 0..(N * A - 1) /\ (a * N + s) \div N = a /\ (a * N + s) % N = s
         /\ \A k \in 0..(N * A - 1) :
              k \div N \in 0..(A - 1) /\ k % N \in 0..(N - 1) /\ (k \div N) * N + (k % N) = k
<1>1. ASSUME NEW a \in 0..(A - 1), NEW s \in 0..(N - 1)
      PROVE  a * N + s \in 0..(N * A - 1) /\ (a * N + s) \div N = a /\ (a * N + s) % N = s
  <2>1. a * N \in Nat /\ (a + 1) * N = a * N + N /\ A * N \in Nat
    OBVIOUS
  <2>2. (a + 1) * N <= A * N
    OBVIOUS
  <2>3. N * A = A * N
    OBVIOUS
  <2>4. a * N + s \in 0..(N * A - 1)
    BY <2>1, <2>2, <2>3
  <2>5. (a * N + s) \div N = a /\ (a * N + s) % N = s
    <3> DEFINE v == a * N + s
               q == v \div N
               r == v % N
    <3>1. v \in Nat /\ q \in Nat /\ r \in 0..(N - 1) /\ v = N * q + r
      BY <2>1
    <3>2. N * a = a * N
      OBVIOUS
    <3> HIDE DEF q, r
    <3>3. ~(q < a)
      <4>1. SUFFICES ASSUME q < a PROVE FALSE
        OBVIOUS
      <4>2. N * (q + 1) <= N * a /\ N * (q + 1) = N * q + N
        BY <3>1, <4>1
      <4>3. QED BY <3>1, <3>2, <4>2
    <3>4. ~(a < q)
      <4>1. SUFFICES ASSUME a < q PROVE FALSE
        OBVIOUS
      <4>2. N * (a + 1) <= N * q /\ N * (a + 1) = N * a + N
        BY <3>1, <4>1
      <4>3. QED BY <3>1, <3>2, <4>2
    <3>5. q = a
      BY <3>1, <3>3, <3>4
    <3>6. r = s
      BY <3>1, <3>2, <3>5
    <3>7. QED BY <3>5, <3>6 DEF q, r
  <2>6. QED BY <2>4, <2>5
<1>2. ASSUME NEW k \in 0..(N * A - 1)
      PROVE  k \div N \in 0..(A - 1) /\ k % N \in 0..(N - 1) /\ (k \div N) * N + (k % N) = k
  <2> DEFINE q == k \div N
             r == k % N
  <2>1. N * A \in Nat /\ k \in Nat /\ k < N * A
    OBVIOUS
  <2>2. q \in Nat /\ r \in 0..(N - 1) /\ k = N * q + r /\ N * q = q * N
    BY <2>1
  <2> HIDE DEF q, r
  <2>3. q < A
    <3>1. SUFFICES ASSUME A <= q PROVE FALSE
      BY <2>2
    <3>2. N * A <= N * q
      BY <2>2, <3>1
    <3>3. QED BY <2>1, <2>2, <3>2
  <2>4. QED BY <2>2, <2>3 DEF q, r
<1>3. QED BY <1>1, <1>2

-----------------------------------------------------------------------------
(* What a task leaves *)

LEMMA PutAt ==
  ASSUME NEW buf, NEW first, NEW val
  PROVE  /\ DOMAIN Put(buf, first, val) = DOMAIN buf
         /\ \A x \in DOMAIN buf :
              Put(buf, first, val)[x] = IF x - first \in DOMAIN val THEN val[x - first] ELSE buf[x]
BY DEF Put

LEMMA PutSliceAt ==
  ASSUME NEW buf, NEW first, NEW s, NEW val
  PROVE  /\ DOMAIN PutSlice(buf, first, s, val) = DOMAIN buf
         /\ \A x \in DOMAIN buf :
              /\ DOMAIN PutSlice(buf, first, s, val)[x] = DOMAIN buf[x]
              /\ \A t \in DOMAIN buf[x] :
                   PutSlice(buf, first, s, val)[x][t] =
                     IF x - first \in DOMAIN val /\ t = s THEN val[x - first] ELSE buf[x][t]
BY DEF PutSlice

(* The task of entry a changes nothing but its expert's rows. *)
LEMMA CopyStep ==
  ASSUME NEW n \in Numa, CallOK, NEW m, MemType(m), NEW k \in 0..(call.qlen - 1),
         NEW D, CopiedIn(m.in, D, plan[n], call)
  PROVE  LET w == CopyInput(n, m, k)
         IN  /\ MemType(w) /\ CopiedIn(w.in, D \cup {k}, plan[n], call)
             /\ w.gate = m.gate /\ w.up = m.up /\ w.down = m.down
             /\ w.gate_up_ba = m.gate_up_ba /\ w.down_ba = m.down_ba
<1> DEFINE w == CopyInput(n, m, k)
           p == plan[n]
           ids == call.ids
           mine == {x \in Routed(ids) : x[1] = k}
           to(x) == RowAt(p, ids, x)
<1>1. PlanOK(p, ids)
  BY DEF CallOK
<1>2. w = [m EXCEPT !.in = [r \in Row |-> IF \E x \in mine : to(x) = r THEN <<"token", k>> ELSE m.in[r]]]
  BY DEF CopyInput, RowAt
<1> HIDE DEF w, p, ids
<1>3. /\ MemType(w) /\ w.gate = m.gate /\ w.up = m.up /\ w.down = m.down
      /\ w.gate_up_ba = m.gate_up_ba /\ w.down_ba = m.down_ba
      /\ \A r \in Row : w.in[r] = IF \E x \in mine : to(x) = r THEN <<"token", k>> ELSE m.in[r]
  <2> HIDE DEF mine, to
  <2>1. QED BY <1>2 DEF MemType
<1>4. ASSUME NEW x \in Routed(ids), x[1] \in D \cup {k}, call.qlen > 1
      PROVE  w.in[to(x)] = Token(x)
  <2>1. to(x) \in Row
    BY <1>1, Places
  <2>2. CASE x[1] = k
    <3>1. \E y \in mine : to(y) = to(x)
      BY <2>2
    <3> HIDE DEF mine, to
    <3>2. QED BY ONLY <1>3, <2>1, <2>2, <3>1 DEF Token
  <2>3. CASE x[1] # k
    <3>1. ~ \E y \in mine : to(y) = to(x)
      <4> SUFFICES ASSUME NEW y \in mine, to(y) = to(x) PROVE FALSE
        OBVIOUS
      <4>1. y \in Routed(ids) /\ y[1] = k
        OBVIOUS
      <4>2. x = y
        BY <1>1, <4>1, Places
      <4>3. QED BY <2>3, <4>1, <4>2
    <3>2. m.in[to(x)] = Token(x)
      BY <1>4, <2>3 DEF CopiedIn, ids, p
    <3> HIDE DEF mine, to
    <3>3. QED BY ONLY <1>3, <2>1, <3>1, <3>2
  <2>4. QED BY <2>2, <2>3
<1>5. CopiedIn(w.in, D \cup {k}, p, call)
  BY <1>4 DEF CopiedIn, ids
<1>6. QED BY ONLY <1>3, <1>5 DEF w, p

LEMMA QuantizeStep ==
  ASSUME NEW n \in Numa, CallOK, NEW m, MemType(m), NEW k \in Entries(plan[n]),
         NEW D, QuantizedIn(m.gate_up_ba, D, plan[n], call), CopiedIn(m.in, Nat, plan[n], call)
  PROVE  LET w == QuantizeInput(n, m, k)
         IN  /\ MemType(w) /\ QuantizedIn(w.gate_up_ba, D \cup {k}, plan[n], call)
             /\ w.in = m.in /\ w.gate = m.gate /\ w.up = m.up /\ w.down = m.down
             /\ w.down_ba = m.down_ba
<1> DEFINE w == QuantizeInput(n, m, k)
           p == plan[n]
           ids == call.ids
           e == p.map[k + 1]
           val == [r \in 0..(p.num[e] - 1) |->
                     IF call.qlen > 1 THEN m.in[p.row[e] + r] ELSE <<"token", 0>>]
<1>1. PlanOK(p, ids) /\ call.qlen \in 1..MaxLen /\ ids \in [0..(call.qlen - 1) -> Routes]
  BY DEF CallOK
<1>2. w = [m EXCEPT !.gate_up_ba = Put(m.gate_up_ba, p.ba[e], val)]
  BY DEF QuantizeInput, MemType
<1>3. e \in HaveRows(p.num)
  BY <1>1, Table
<1> HIDE DEF w, p, ids, e
<1>4. /\ MemType(w) /\ w.in = m.in /\ w.gate = m.gate /\ w.up = m.up /\ w.down = m.down
      /\ w.down_ba = m.down_ba
      /\ \A r \in 0..(PoolCount - 1) :
           w.gate_up_ba[r] = IF r - p.ba[e] \in 0..(p.num[e] - 1) THEN val[r - p.ba[e]] ELSE m.gate_up_ba[r]
  <2>1. DOMAIN val = 0..(p.num[e] - 1) /\ DOMAIN m.gate_up_ba = 0..(PoolCount - 1)
    BY DEF MemType
  <2> HIDE DEF val
  <2>2. /\ DOMAIN Put(m.gate_up_ba, p.ba[e], val) = 0..(PoolCount - 1)
        /\ \A r \in 0..(PoolCount - 1) :
             Put(m.gate_up_ba, p.ba[e], val)[r] =
               IF r - p.ba[e] \in 0..(p.num[e] - 1) THEN val[r - p.ba[e]] ELSE m.gate_up_ba[r]
    <3>1. /\ DOMAIN Put(m.gate_up_ba, p.ba[e], val) = DOMAIN m.gate_up_ba
          /\ \A r \in DOMAIN m.gate_up_ba :
               Put(m.gate_up_ba, p.ba[e], val)[r] =
                 IF r - p.ba[e] \in DOMAIN val THEN val[r - p.ba[e]] ELSE m.gate_up_ba[r]
      BY ONLY PutAt, SMT
    <3>2. QED BY ONLY <2>1, <3>1, Zenon
  <2>3. QED BY ONLY <1>2, <2>2, MemType(m) DEF MemType
<1>5. ASSUME NEW x \in Routed(ids), NEW a \in Entries(p), Serves(p, ids, a, x), a \in D \cup {k}
      PROVE  w.gate_up_ba[BlockAt(p, ids, x)] = Token(x)
  <2>1. /\ BlockAt(p, ids, x) \in 0..(PoolCount - 1) /\ p.pos[x] \in 0..(p.num[Id(ids, x)] - 1)
        /\ BlockAt(p, ids, x) = p.ba[Id(ids, x)] + p.pos[x] /\ p.ba[Id(ids, x)] \in Nat
        /\ RowAt(p, ids, x) = p.row[Id(ids, x)] + p.pos[x]
        /\ BlockAt(p, ids, x) - p.ba[e] \in 0..(p.num[e] - 1) => Id(ids, x) = e
    BY <1>1, <1>3, Places
  <2>2. CASE a = k
    <3>1. Id(ids, x) = e
      BY <1>5, <2>2 DEF Serves, e
    <3>2. BlockAt(p, ids, x) - p.ba[e] = p.pos[x]
      BY ONLY <2>1, <3>1
    <3>3. val[p.pos[x]] = Token(x)
      <4>1. val[p.pos[x]] = IF call.qlen > 1 THEN m.in[RowAt(p, ids, x)] ELSE <<"token", 0>>
        BY <2>1, <3>1
      <4>2. CASE call.qlen > 1
        <5>1. x[1] \in Nat
          BY <1>1, RoutedIs
        <5>2. m.in[RowAt(p, ids, x)] = Token(x)
          BY <4>2, <5>1 DEF CopiedIn, ids, p
        <5>3. QED BY <4>1, <4>2, <5>2
      <4>3. CASE ~(call.qlen > 1)
        <5>1. x[1] \in 0..(call.qlen - 1)
          BY <1>1, RoutedIs
        <5>2. x[1] = 0
          BY <1>1, <4>3, <5>1
        <5>3. QED BY <4>1, <4>3, <5>2 DEF Token
      <4>4. QED BY <4>2, <4>3
    <3> HIDE DEF val
    <3>4. QED BY ONLY <1>4, <2>1, <3>1, <3>2, <3>3
  <2>3. CASE a # k
    <3>1. Id(ids, x) # e
      BY <1>1, <1>5, <2>3, Table DEF Serves, e, p
    <3>2. m.gate_up_ba[BlockAt(p, ids, x)] = Token(x)
      BY <1>5, <2>3 DEF QuantizedIn, p, ids
    <3> HIDE DEF val
    <3>3. QED BY ONLY <1>4, <2>1, <3>1, <3>2
  <2>4. QED BY <2>2, <2>3
<1>6. QuantizedIn(w.gate_up_ba, D \cup {k}, p, call)
  BY <1>5 DEF QuantizedIn, ids
<1>7. QED BY ONLY <1>4, <1>6 DEF w, p

(* w is buf with val in slice s0 of the rows of entry k's expert. *)
Written(w, buf, p, ids, k, s0, val) ==
  /\ DOMAIN w = Row /\ \A r \in Row : DOMAIN w[r] = DOMAIN buf[r]
  /\ \A x \in Routed(ids), a \in Entries(p) : Serves(p, ids, a, x) =>
       \A s \in DOMAIN buf[RowAt(p, ids, x)] :
         w[RowAt(p, ids, x)][s] =
           IF a = k /\ s = s0 THEN val[p.pos[x]] ELSE buf[RowAt(p, ids, x)][s]

LEMMA SliceWritten ==
  ASSUME NEW p, NEW ids, PlanOK(p, ids), NEW k \in Entries(p), NEW s0,
         NEW buf, DOMAIN buf = Row,
         NEW val, DOMAIN val = 0..(p.num[p.map[k + 1]] - 1)
  PROVE  Written(PutSlice(buf, p.row[p.map[k + 1]], s0, val), buf, p, ids, k, s0, val)
<1> DEFINE e == p.map[k + 1]
           w == PutSlice(buf, p.row[e], s0, val)
<1>1. /\ DOMAIN w = Row
      /\ \A r \in Row :
           /\ DOMAIN w[r] = DOMAIN buf[r]
           /\ \A s \in DOMAIN buf[r] : w[r][s] = IF r - p.row[e] \in DOMAIN val /\ s = s0
                                       THEN val[r - p.row[e]] ELSE buf[r][s]
  <2>1. /\ DOMAIN w = DOMAIN buf
        /\ \A r \in DOMAIN buf :
             /\ DOMAIN w[r] = DOMAIN buf[r]
             /\ \A s \in DOMAIN buf[r] :
                  w[r][s] = IF r - p.row[e] \in DOMAIN val /\ s = s0
                              THEN val[r - p.row[e]] ELSE buf[r][s]
    BY ONLY PutSliceAt, SMT
  <2> HIDE DEF w, e
  <2>2. QED BY ONLY <2>1, DOMAIN buf = Row, Zenon
<1>2. e \in HaveRows(p.num)
  BY Table
<1> HIDE DEF w, e
<1>3. ASSUME NEW x \in Routed(ids), NEW a \in Entries(p), Serves(p, ids, a, x),
             NEW s \in DOMAIN buf[RowAt(p, ids, x)]
      PROVE  w[RowAt(p, ids, x)][s] =
               IF a = k /\ s = s0 THEN val[p.pos[x]] ELSE buf[RowAt(p, ids, x)][s]
  <2>1. /\ RowAt(p, ids, x) \in Row /\ p.pos[x] \in 0..(p.num[Id(ids, x)] - 1)
        /\ RowAt(p, ids, x) = p.row[Id(ids, x)] + p.pos[x] /\ p.row[Id(ids, x)] \in Nat
        /\ RowAt(p, ids, x) - p.row[e] \in 0..(p.num[e] - 1) => Id(ids, x) = e
    BY <1>2, Places
  <2>2. CASE a = k
    <3>1. Id(ids, x) = e
      BY <1>3, <2>2 DEF Serves, e
    <3>2. RowAt(p, ids, x) - p.row[e] = p.pos[x] /\ p.pos[x] \in DOMAIN val
      BY <2>1, <3>1 DEF e
    <3>3. QED BY ONLY <1>1, <2>1, <2>2, <3>2, s \in DOMAIN buf[RowAt(p, ids, x)]
  <2>3. CASE a # k
    <3>1. Id(ids, x) # e
      BY <1>3, <2>3, Table DEF Serves, e
    <3>2. RowAt(p, ids, x) - p.row[e] \notin DOMAIN val
      BY <2>1, <3>1 DEF e
    <3>3. QED BY ONLY <1>1, <2>1, <2>3, <3>2, s \in DOMAIN buf[RowAt(p, ids, x)]
  <2>4. QED BY <2>2, <2>3
<1>4. QED BY ONLY <1>1, <1>3 DEF Written, w, e

(* The numbers of the tasks *)
LEMMA SliceTasks ==
  ASSUME NEW p, NEW ids, PlanOK(p, ids), NEW N \in Nat \ {0}
  PROVE  /\ \A k \in 0..(N * Len(p.map) - 1) :
              /\ k \div N \in Entries(p) /\ k % N \in 0..(N - 1)
              /\ \A a \in Entries(p), s \in 0..(N - 1) :
                   a * N + s = k <=> a = k \div N /\ s = k % N
         /\ \A a \in Entries(p), s \in 0..(N - 1) : a * N + s \in 0..(N * Len(p.map) - 1)
<1>1. Len(p.map) \in Nat /\ Entries(p) = 0..(Len(p.map) - 1)
  BY Table DEF Entries
<1> DEFINE A == Len(p.map)
<1>2. /\ \A a \in 0..(A - 1), s \in 0..(N - 1) :
           a * N + s \in 0..(N * A - 1) /\ (a * N + s) \div N = a /\ (a * N + s) % N = s
      /\ \A k \in 0..(N * A - 1) :
           k \div N \in 0..(A - 1) /\ k % N \in 0..(N - 1) /\ (k \div N) * N + (k % N) = k
  BY <1>1, Slices
<1>3. Entries(p) = 0..(A - 1) /\ A \in Nat
  BY <1>1
<1> HIDE DEF A
<1>4. ASSUME NEW k \in 0..(N * A - 1)
      PROVE  /\ k \div N \in Entries(p) /\ k % N \in 0..(N - 1)
             /\ \A a \in Entries(p), s \in 0..(N - 1) :
                  a * N + s = k <=> a = k \div N /\ s = k % N
  <2>1. k \div N \in Entries(p) /\ k % N \in 0..(N - 1) /\ (k \div N) * N + (k % N) = k
    BY ONLY <1>2, <1>3, k \in 0..(N * A - 1), Zenon
  <2>2. ASSUME NEW a \in Entries(p), NEW s \in 0..(N - 1)
        PROVE  a * N + s = k <=> a = k \div N /\ s = k % N
    <3>1. (a * N + s) \div N = a /\ (a * N + s) % N = s
      BY ONLY <1>2, <1>3, a \in Entries(p), s \in 0..(N - 1), Zenon
    <3>2. QED BY ONLY <2>1, <3>1, Zenon
  <2>3. QED BY ONLY <2>1, <2>2, Zenon
<1>5. ASSUME NEW a \in Entries(p), NEW s \in 0..(N - 1) PROVE a * N + s \in 0..(N * A - 1)
  BY ONLY <1>2, <1>3, a \in Entries(p), s \in 0..(N - 1), Zenon
<1>6. QED BY ONLY <1>4, <1>5 DEF A

LEMMA HalfTasks ==
  ASSUME NEW M \in Nat, NEW k \in 0..(M * 2 - 1)
  PROVE  /\ k \div 2 \in 0..(M - 1) /\ k % 2 \in {0, 1}
         /\ \A t \in Nat : /\ 2 * t + 1 = k <=> k % 2 = 1 /\ t = k \div 2
                           /\ 2 * t = k <=> k % 2 = 0 /\ t = k \div 2
OBVIOUS

LEMMA GateUpStep ==
  ASSUME NEW n \in Numa, CallOK, NEW m, MemType(m),
         NEW k \in 0..(GateUpNth * Len(plan[n].map) * 2 - 1), NEW D,
         UpIn(m.up, D, plan[n], call, n), GateIn(m.gate, D, {}, plan[n], call, n),
         QuantizedIn(m.gate_up_ba, Nat, plan[n], call)
  PROVE  LET w == GateUp(n, m, k)
         IN  /\ MemType(w) /\ UpIn(w.up, D \cup {k}, plan[n], call, n)
             /\ GateIn(w.gate, D \cup {k}, {}, plan[n], call, n)
             /\ w.in = m.in /\ w.down = m.down
             /\ w.gate_up_ba = m.gate_up_ba /\ w.down_ba = m.down_ba
<1> DEFINE w == GateUp(n, m, k)
           p == plan[n]
           ids == call.ids
           N == GateUpNth
           b == (k \div 2) \div N
           t == (k \div 2) % N
           e == p.map[b + 1]
           x0 == [r \in 0..(p.num[e] - 1) |-> m.gate_up_ba[p.ba[e] + r]]
           up == [r \in 0..(p.num[e] - 1) |-> Up(n, e, x0[r])]
           gate == [r \in 0..(p.num[e] - 1) |-> Gate(n, e, x0[r])]
<1>1. PlanOK(p, ids) /\ N \in Nat \ {0} /\ Len(p.map) \in Nat /\ N * Len(p.map) \in Nat
  <2>1. PlanOK(p, ids) /\ N \in Nat \ {0}
    BY Constants DEF CallOK
  <2>2. Len(p.map) \in Nat
    BY <2>1, Table
  <2> HIDE DEF p, ids, N
  <2>3. QED BY <2>1, <2>2
<1>2. /\ k % 2 = 1 => w = [m EXCEPT !.up = PutSlice(m.up, p.row[e], t, up)]
      /\ k % 2 # 1 => w = [m EXCEPT !.gate = PutSlice(m.gate, p.row[e], t, gate)]
  <2> DEFINE u1 == [r \in DOMAIN x0 |-> Up(n, e, x0[r])]
             g1 == [r \in DOMAIN x0 |-> Gate(n, e, x0[r])]
  <2>1. DOMAIN x0 = 0..(p.num[e] - 1)
    OBVIOUS
  <2>2. w = IF k % 2 = 1 THEN [m EXCEPT !.up = PutSlice(@, p.row[e], t, u1)]
                         ELSE [m EXCEPT !.gate = PutSlice(@, p.row[e], t, g1)]
    BY ONLY DEF GateUp
  <2> HIDE DEF w, x0, e, t, p
  <2>3. u1 = up /\ g1 = gate
    BY ONLY <2>1
  <2> HIDE DEF u1, g1, up, gate
  <2>4. "up" \in DOMAIN m /\ "gate" \in DOMAIN m
    BY ONLY MemType(m) DEF MemType
  <2>5. QED BY ONLY <2>2, <2>3, <2>4
<1>3. /\ k \div 2 \in 0..(N * Len(p.map) - 1) /\ k % 2 \in {0, 1}
      /\ \A v \in Nat : /\ 2 * v + 1 = k <=> k % 2 = 1 /\ v = k \div 2
                        /\ 2 * v = k <=> k % 2 = 0 /\ v = k \div 2
  <2> HIDE DEF p, ids, w
  <2>1. k \in 0..((N * Len(p.map)) * 2 - 1)
    BY DEF p
  <2> HIDE DEF N
  <2>2. QED BY ONLY <1>1, <2>1, HalfTasks
<1>4. /\ b \in Entries(p) /\ t \in 0..(N - 1)
      /\ \A a \in Entries(p), s \in 0..(N - 1) :
           a * N + s \in Nat /\ (a * N + s = k \div 2 <=> a = b /\ s = t)
  <2> DEFINE q == k \div 2
  <2>1. b = q \div N /\ t = q % N
    OBVIOUS
  <2> HIDE DEF p, ids, w, N, q, b, t
  <2>2. q \in 0..(N * Len(p.map) - 1)
    BY <1>3 DEF q
  <2>6. PlanOK(p, ids) /\ N \in Nat \ {0}
    BY ONLY <1>1
  <2>7. /\ \A v \in 0..(N * Len(p.map) - 1) :
              /\ v \div N \in Entries(p) /\ v % N \in 0..(N - 1)
              /\ \A a \in Entries(p), s \in 0..(N - 1) :
                   a * N + s = v <=> a = v \div N /\ s = v % N
        /\ \A a \in Entries(p), s \in 0..(N - 1) : a * N + s \in 0..(N * Len(p.map) - 1)
    BY ONLY <2>6, SliceTasks, Zenon
  <2>3. /\ q \div N \in Entries(p) /\ q % N \in 0..(N - 1)
        /\ \A a \in Entries(p), s \in 0..(N - 1) : a * N + s = q <=> a = q \div N /\ s = q % N
        /\ \A a \in Entries(p), s \in 0..(N - 1) : a * N + s \in 0..(N * Len(p.map) - 1)
    BY ONLY <2>2, <2>7, Zenon
  <2>4. \A a \in Entries(p), s \in 0..(N - 1) : a * N + s \in Nat
    <3>1. \A v : v \in 0..(N * Len(p.map) - 1) => v \in Nat
      BY ONLY <1>1
    <3>2. QED BY ONLY <2>3, <3>1, Zenon
  <2>5. QED BY ONLY <2>1, <2>3, <2>4, Zenon DEF q
<1> HIDE DEF w, p, ids, b, t
<1>5. ASSUME NEW x \in Routed(ids), Serves(p, ids, b, x)
      PROVE  up[p.pos[x]] = UpOf(n, ids, x) /\ gate[p.pos[x]] = GateOf(n, ids, x)
  <2>1. Id(ids, x) = e
    BY <1>5 DEF Serves
  <2>2. /\ p.pos[x] \in 0..(p.num[e] - 1) /\ BlockAt(p, ids, x) = p.ba[e] + p.pos[x]
    BY <1>1, <2>1, Places
  <2>3. b \in Nat
    BY <1>1, <1>4 DEF Entries
  <2>4. m.gate_up_ba[BlockAt(p, ids, x)] = Token(x)
    BY <1>4, <1>5, <2>3 DEF QuantizedIn, p, ids
  <2>5. x0[p.pos[x]] = Token(x)
    BY <2>2, <2>4
  <2> HIDE DEF x0, e
  <2>6. up[p.pos[x]] = Up(n, e, Token(x)) /\ gate[p.pos[x]] = Gate(n, e, Token(x))
    BY <2>2, <2>5
  <2>7. QED BY <2>1, <2>6 DEF UpOf, GateOf
<1>6. DOMAIN up = 0..(p.num[e] - 1) /\ DOMAIN gate = 0..(p.num[e] - 1)
  OBVIOUS
<1>7. GateSlices = 0..(N - 1)
  BY DEF GateSlices
<1> HIDE DEF up, gate, x0, N
<1>8. CASE k % 2 = 1
  <2> DEFINE new == PutSlice(m.up, p.row[e], t, up)
  <2>1. /\ DOMAIN new = Row /\ \A r \in Row : DOMAIN new[r] = GateSlices
        /\ \A x \in Routed(ids), a \in Entries(p), s \in GateSlices : Serves(p, ids, a, x) =>
             new[RowAt(p, ids, x)][s] =
               IF a = b /\ s = t THEN up[p.pos[x]] ELSE m.up[RowAt(p, ids, x)][s]
    <3>1. DOMAIN m.up = Row /\ \A r \in Row : DOMAIN m.up[r] = GateSlices
      BY DEF MemType
    <3>2. DOMAIN up = 0..(p.num[p.map[b + 1]] - 1)
      BY ONLY <1>6 DEF e
    <3>3. Written(PutSlice(m.up, p.row[p.map[b + 1]], t, up), m.up, p, ids, b, t, up)
      BY ONLY <1>1, <1>4, <3>1, <3>2, SliceWritten, Zenon
    <3>4. \A x \in Routed(ids) : RowAt(p, ids, x) \in Row
      BY ONLY <1>1, Places
    <3>5. QED BY ONLY <3>1, <3>3, <3>4, Zenon DEF Written, new, e
  <2> HIDE DEF new
  <2>2. w = [m EXCEPT !.up = new]
    BY <1>2, <1>8 DEF new
  <2>3. /\ MemType(w) /\ w.up = new /\ w.gate = m.gate /\ w.in = m.in /\ w.down = m.down
        /\ w.gate_up_ba = m.gate_up_ba /\ w.down_ba = m.down_ba
    BY ONLY <2>1, <2>2, MemType(m) DEF MemType
  <2>4. ASSUME NEW x \in Routed(ids), NEW a \in Entries(p), NEW s \in GateSlices, Serves(p, ids, a, x),
               2 * (a * N + s) + 1 \in D \cup {k}
        PROVE  new[RowAt(p, ids, x)][s] = UpOf(n, ids, x)
    <3>1. a * N + s \in Nat /\ (a * N + s = k \div 2 <=> a = b /\ s = t)
      BY <1>4, <1>7
    <3>2. 2 * (a * N + s) + 1 = k <=> a = b /\ s = t
      BY ONLY <1>3, <1>8, <3>1
    <3>3. CASE a = b /\ s = t
      BY <1>5, <2>1, <2>4, <3>3
    <3>4. CASE ~(a = b /\ s = t)
      <4>1. 2 * (a * N + s) + 1 \in D
        BY <2>4, <3>2, <3>4
      <4>2. m.up[RowAt(p, ids, x)][s] = UpOf(n, ids, x)
        BY <2>4, <4>1 DEF UpIn, p, ids, N
      <4>3. QED BY <2>1, <2>4, <3>4, <4>2
    <3>5. QED BY <3>3, <3>4
  <2>5. UpIn(new, D \cup {k}, p, call, n)
    BY <2>4 DEF UpIn, ids, N
  <2>6. GateIn(m.gate, D \cup {k}, {}, p, call, n)
    <3>1. ASSUME NEW x \in Routed(ids), NEW a \in Entries(p), NEW s \in GateSlices, Serves(p, ids, a, x),
                 2 * (a * N + s) \in D \cup {k}
          PROVE  m.gate[RowAt(p, ids, x)][s] = GateOf(n, ids, x)
      <4>1. 2 * (a * N + s) # k
        BY <1>3, <1>4, <1>7, <1>8
      <4>2. 2 * (a * N + s) \in D
        BY <3>1, <4>1
      <4>3. QED BY <3>1, <4>2 DEF GateIn, p, ids, N
    <3>2. QED BY <3>1 DEF GateIn, ids, N
  <2>7. QED BY ONLY <2>3, <2>5, <2>6 DEF w, p
<1>9. CASE k % 2 # 1
  <2> DEFINE new == PutSlice(m.gate, p.row[e], t, gate)
  <2>1. /\ DOMAIN new = Row /\ \A r \in Row : DOMAIN new[r] = GateSlices
        /\ \A x \in Routed(ids), a \in Entries(p), s \in GateSlices : Serves(p, ids, a, x) =>
             new[RowAt(p, ids, x)][s] =
               IF a = b /\ s = t THEN gate[p.pos[x]] ELSE m.gate[RowAt(p, ids, x)][s]
    <3>1. DOMAIN m.gate = Row /\ \A r \in Row : DOMAIN m.gate[r] = GateSlices
      BY DEF MemType
    <3>2. DOMAIN gate = 0..(p.num[p.map[b + 1]] - 1)
      BY ONLY <1>6 DEF e
    <3>3. Written(PutSlice(m.gate, p.row[p.map[b + 1]], t, gate), m.gate, p, ids, b, t, gate)
      BY ONLY <1>1, <1>4, <3>1, <3>2, SliceWritten, Zenon
    <3>4. \A x \in Routed(ids) : RowAt(p, ids, x) \in Row
      BY ONLY <1>1, Places
    <3>5. QED BY ONLY <3>1, <3>3, <3>4, Zenon DEF Written, new, e
  <2> HIDE DEF new
  <2>2. w = [m EXCEPT !.gate = new]
    BY <1>2, <1>9 DEF new
  <2>3. /\ MemType(w) /\ w.gate = new /\ w.up = m.up /\ w.in = m.in /\ w.down = m.down
        /\ w.gate_up_ba = m.gate_up_ba /\ w.down_ba = m.down_ba
    BY ONLY <2>1, <2>2, MemType(m) DEF MemType
  <2>4. ASSUME NEW x \in Routed(ids), NEW a \in Entries(p), NEW s \in GateSlices, Serves(p, ids, a, x),
               2 * (a * N + s) \in D \cup {k}
        PROVE  new[RowAt(p, ids, x)][s] = GateOf(n, ids, x)
    <3>1. a * N + s \in Nat /\ (a * N + s = k \div 2 <=> a = b /\ s = t)
      BY <1>4, <1>7
    <3>2. 2 * (a * N + s) = k <=> a = b /\ s = t
      BY ONLY <1>3, <1>9, <3>1
    <3>3. CASE a = b /\ s = t
      BY <1>5, <2>1, <2>4, <3>3
    <3>4. CASE ~(a = b /\ s = t)
      <4>1. 2 * (a * N + s) \in D
        BY <2>4, <3>2, <3>4
      <4>2. m.gate[RowAt(p, ids, x)][s] = GateOf(n, ids, x)
        BY <2>4, <4>1 DEF GateIn, p, ids, N
      <4>3. QED BY <2>1, <2>4, <3>4, <4>2
    <3>5. QED BY <3>3, <3>4
  <2>5. GateIn(new, D \cup {k}, {}, p, call, n)
    BY <2>4 DEF GateIn, ids, N
  <2>6. UpIn(m.up, D \cup {k}, p, call, n)
    <3>1. ASSUME NEW x \in Routed(ids), NEW a \in Entries(p), NEW s \in GateSlices, Serves(p, ids, a, x),
                 2 * (a * N + s) + 1 \in D \cup {k}
          PROVE  m.up[RowAt(p, ids, x)][s] = UpOf(n, ids, x)
      <4>1. 2 * (a * N + s) + 1 # k
        BY <1>3, <1>4, <1>7, <1>9
      <4>2. 2 * (a * N + s) + 1 \in D
        BY <3>1, <4>1
      <4>3. QED BY <3>1, <4>2 DEF UpIn, p, ids, N
    <3>2. QED BY <3>1 DEF UpIn, ids, N
  <2>7. QED BY ONLY <2>3, <2>5, <2>6 DEF w, p
<1>10. QED BY <1>8, <1>9

(* Task q of a job over the slices of each entry writes the slice q % N of *)
(* the entry q \div N.                                                      *)
SliceAt(w, buf, p, ids, N, q, val) ==
  /\ DOMAIN w = Row /\ \A r \in Row : DOMAIN w[r] = 0..(N - 1)
  /\ \A x \in Routed(ids), a \in Entries(p), s \in 0..(N - 1) : Serves(p, ids, a, x) =>
       w[RowAt(p, ids, x)][s] = IF a * N + s = q THEN val[p.pos[x]] ELSE buf[RowAt(p, ids, x)][s]

LEMMA SliceStep ==
  ASSUME NEW p, NEW ids, PlanOK(p, ids), NEW N \in Nat \ {0}, NEW q \in 0..(N * Len(p.map) - 1),
         NEW buf, DOMAIN buf = Row, \A r \in Row : DOMAIN buf[r] = 0..(N - 1),
         NEW val, DOMAIN val = 0..(p.num[p.map[(q \div N) + 1]] - 1)
  PROVE  SliceAt(PutSlice(buf, p.row[p.map[(q \div N) + 1]], q % N, val), buf, p, ids, N, q, val)
<1> DEFINE b == q \div N
           t == q % N
           w == PutSlice(buf, p.row[p.map[b + 1]], t, val)
<1>1. /\ \A v \in 0..(N * Len(p.map) - 1) :
           /\ v \div N \in Entries(p) /\ v % N \in 0..(N - 1)
           /\ \A a \in Entries(p), s \in 0..(N - 1) :
                a * N + s = v <=> a = v \div N /\ s = v % N
      /\ \A a \in Entries(p), s \in 0..(N - 1) : a * N + s \in 0..(N * Len(p.map) - 1)
  BY ONLY PlanOK(p, ids), N \in Nat \ {0}, SliceTasks, Zenon
<1>2. /\ b \in Entries(p) /\ t \in 0..(N - 1)
      /\ \A a \in Entries(p), s \in 0..(N - 1) : a * N + s = q <=> a = b /\ s = t
  BY ONLY <1>1, q \in 0..(N * Len(p.map) - 1), Zenon
<1> HIDE DEF b, t
<1>3. DOMAIN val = 0..(p.num[p.map[b + 1]] - 1)
  BY DEF b
<1>4. Written(w, buf, p, ids, b, t, val)
  <2>1. Written(PutSlice(buf, p.row[p.map[b + 1]], t, val), buf, p, ids, b, t, val)
    BY ONLY PlanOK(p, ids), <1>2, DOMAIN buf = Row, <1>3, SliceWritten, Zenon
  <2>2. QED BY ONLY <2>1 DEF w
<1> HIDE DEF w
<1>5. \A x \in Routed(ids) : RowAt(p, ids, x) \in Row
  BY Places
<1>6. SliceAt(w, buf, p, ids, N, q, val)
  BY ONLY <1>2, <1>4, <1>5, \A r \in Row : DOMAIN buf[r] = 0..(N - 1), Zenon DEF Written, SliceAt
<1>7. QED BY ONLY <1>6 DEF w, b, t

LEMMA ActivateStep ==
  ASSUME NEW n \in Numa, CallOK, NEW m, MemType(m),
         NEW k \in 0..(GateUpNth * Len(plan[n].map) - 1), NEW A, k \notin A,
         UpIn(m.up, Nat, plan[n], call, n), GateIn(m.gate, Nat, A, plan[n], call, n)
  PROVE  LET w == Activate(n, m, k)
         IN  /\ MemType(w) /\ GateIn(w.gate, Nat, A \cup {k}, plan[n], call, n)
             /\ w.in = m.in /\ w.up = m.up /\ w.down = m.down
             /\ w.gate_up_ba = m.gate_up_ba /\ w.down_ba = m.down_ba
<1> DEFINE w == Activate(n, m, k)
           p == plan[n]
           ids == call.ids
           N == GateUpNth
           b == k \div N
           t == k % N
           e == p.map[b + 1]
           val == [r \in 0..(p.num[e] - 1) |-> Act(m.gate[p.row[e] + r][t], m.up[p.row[e] + r][t])]
           new == PutSlice(m.gate, p.row[e], t, val)
<1>1. PlanOK(p, ids) /\ N \in Nat \ {0}
  BY Constants DEF CallOK
<1>2. w = [m EXCEPT !.gate = new]
  <2>1. w = [m EXCEPT !.gate = PutSlice(@, p.row[e], t, val)]
    BY ONLY DEF Activate
  <2> HIDE DEF w, e, t, p, val
  <2>2. "gate" \in DOMAIN m
    BY ONLY MemType(m) DEF MemType
  <2>3. QED BY ONLY <2>1, <2>2
<1>3. k \in 0..(N * Len(p.map) - 1)
  OBVIOUS
<1>4. GateSlices = 0..(N - 1)
  BY DEF GateSlices
<1>5. DOMAIN val = 0..(p.num[e] - 1)
  OBVIOUS
<1> HIDE DEF w, p, ids, N
<1>6. /\ b \in Entries(p) /\ t \in GateSlices /\ b * N + t = k
      /\ \A a \in Entries(p), s \in GateSlices : a * N + s = k => a = b
  <2>1. /\ \A v \in 0..(N * Len(p.map) - 1) :
             /\ v \div N \in Entries(p) /\ v % N \in 0..(N - 1)
             /\ \A a \in Entries(p), s \in 0..(N - 1) :
                  a * N + s = v <=> a = v \div N /\ s = v % N
        /\ \A a \in Entries(p), s \in 0..(N - 1) : a * N + s \in 0..(N * Len(p.map) - 1)
    BY ONLY <1>1, SliceTasks, Zenon
  <2>2. QED BY ONLY <1>3, <1>4, <2>1, Zenon
<1>7. ASSUME NEW x \in Routed(ids), Serves(p, ids, b, x) PROVE val[p.pos[x]] = ActOf(n, ids, x)
  <2> HIDE DEF b, t
  <2>1. Id(ids, x) = e
    BY <1>7 DEF Serves
  <2>2. /\ p.pos[x] \in 0..(p.num[e] - 1) /\ RowAt(p, ids, x) = p.row[e] + p.pos[x]
    BY <1>1, <2>1, Places
  <2>3. 2 * (b * N + t) \in Nat /\ 2 * (b * N + t) + 1 \in Nat /\ b * N + t \notin A
    BY <1>6, <1>3
  <2>4. m.gate[RowAt(p, ids, x)][t] = GateOf(n, ids, x)
    BY <1>6, <1>7, <2>3 DEF GateIn, p, ids, N
  <2>5. m.up[RowAt(p, ids, x)][t] = UpOf(n, ids, x)
    BY <1>6, <1>7, <2>3 DEF UpIn, p, ids, N
  <2> HIDE DEF e
  <2>6. val[p.pos[x]] = Act(m.gate[RowAt(p, ids, x)][t], m.up[RowAt(p, ids, x)][t])
    BY ONLY <2>2 DEF val
  <2>7. QED BY ONLY <2>4, <2>5, <2>6 DEF ActOf
<1>8. SliceAt(new, m.gate, p, ids, N, k, val)
  <2> HIDE DEF val
  <2>1. DOMAIN m.gate = Row /\ \A r \in Row : DOMAIN m.gate[r] = 0..(N - 1)
    BY <1>4 DEF MemType
  <2>2. SliceAt(PutSlice(m.gate, p.row[p.map[(k \div N) + 1]], k % N, val), m.gate, p, ids, N, k, val)
    BY ONLY <1>1, <1>3, <1>5, <2>1, SliceStep, Zenon
  <2>3. QED BY ONLY <2>2
<1> HIDE DEF new, val, e
<1>9. /\ MemType(w) /\ w.gate = new /\ w.up = m.up /\ w.in = m.in /\ w.down = m.down
      /\ w.gate_up_ba = m.gate_up_ba /\ w.down_ba = m.down_ba
  <2>1. DOMAIN new = Row /\ \A r \in Row : DOMAIN new[r] = GateSlices
    BY ONLY <1>4, <1>8 DEF SliceAt
  <2>2. QED BY ONLY <1>2, <2>1, MemType(m) DEF MemType
<1>10. ASSUME NEW x \in Routed(ids), NEW a \in Entries(p), NEW s \in GateSlices, Serves(p, ids, a, x),
              2 * (a * N + s) \in Nat
       PROVE  new[RowAt(p, ids, x)][s] =
                IF a * N + s \in A \cup {k} THEN ActOf(n, ids, x) ELSE GateOf(n, ids, x)
  <2> HIDE DEF b, t
  <2>1. new[RowAt(p, ids, x)][s] =
          IF a * N + s = k THEN val[p.pos[x]] ELSE m.gate[RowAt(p, ids, x)][s]
    BY ONLY <1>4, <1>8, <1>10, Zenon DEF SliceAt
  <2>2. CASE a * N + s = k
    <3>1. a = b
      BY ONLY <1>6, <1>10, <2>2, Zenon
    <3>2. val[p.pos[x]] = ActOf(n, ids, x)
      BY <1>7, <1>10, <3>1
    <3>3. QED BY ONLY <2>1, <2>2, <3>2
  <2>3. CASE a * N + s # k
    <3>1. m.gate[RowAt(p, ids, x)][s] = IF a * N + s \in A THEN ActOf(n, ids, x) ELSE GateOf(n, ids, x)
      BY <1>10 DEF GateIn, p, ids, N
    <3>2. QED BY ONLY <2>1, <2>3, <3>1
  <2>4. QED BY <2>2, <2>3
<1>11. GateIn(new, Nat, A \cup {k}, p, call, n)
  BY ONLY <1>10, Zenon DEF GateIn, ids, N
<1>12. QED BY ONLY <1>9, <1>11 DEF w, p

LEMMA SomeSlice == 0 \in GateSlices /\ 0 \in DownSlices
BY Constants DEF GateSlices, DownSlices

LEMMA WholeOfEqual ==
  ASSUME NEW f, NEW v, DOMAIN f # {}, \A s \in DOMAIN f : f[s] = v
  PROVE  Whole(f) = v
<1>1. {f[s] : s \in DOMAIN f} = {v}
  OBVIOUS
<1>2. Cardinality({v}) = 1
  BY FS_Singleton
<1>3. QED BY <1>1, <1>2 DEF Whole

LEMMA QuantizeDownStep ==
  ASSUME NEW n \in Numa, CallOK, NEW m, MemType(m), NEW k \in Entries(plan[n]), NEW D,
         ActedIn(m.down_ba, D, plan[n], call, n), GateIn(m.gate, Nat, Nat, plan[n], call, n)
  PROVE  LET w == QuantizeDown(n, m, k)
         IN  /\ MemType(w) /\ ActedIn(w.down_ba, D \cup {k}, plan[n], call, n)
             /\ w.in = m.in /\ w.gate = m.gate /\ w.up = m.up /\ w.down = m.down
             /\ w.gate_up_ba = m.gate_up_ba
<1> DEFINE w == QuantizeDown(n, m, k)
           p == plan[n]
           ids == call.ids
           e == p.map[k + 1]
           val == [r \in 0..(p.num[e] - 1) |-> Whole(m.gate[p.row[e] + r])]
<1>1. PlanOK(p, ids)
  BY DEF CallOK
<1>2. w = [m EXCEPT !.down_ba = Put(m.down_ba, p.ba[e], val)]
  BY DEF QuantizeDown, MemType
<1>3. e \in HaveRows(p.num)
  BY <1>1, Table
<1>4. DOMAIN val = 0..(p.num[e] - 1) /\ DOMAIN m.down_ba = 0..(PoolCount - 1)
  BY DEF MemType
<1> HIDE DEF w, p, ids, e
<1>5. /\ MemType(w) /\ w.in = m.in /\ w.gate = m.gate /\ w.up = m.up /\ w.down = m.down
      /\ w.gate_up_ba = m.gate_up_ba
      /\ \A r \in 0..(PoolCount - 1) :
           w.down_ba[r] = IF r - p.ba[e] \in 0..(p.num[e] - 1) THEN val[r - p.ba[e]] ELSE m.down_ba[r]
  <2> HIDE DEF val
  <2>1. /\ DOMAIN Put(m.down_ba, p.ba[e], val) = 0..(PoolCount - 1)
        /\ \A r \in 0..(PoolCount - 1) :
             Put(m.down_ba, p.ba[e], val)[r] =
               IF r - p.ba[e] \in 0..(p.num[e] - 1) THEN val[r - p.ba[e]] ELSE m.down_ba[r]
    <3>1. /\ DOMAIN Put(m.down_ba, p.ba[e], val) = DOMAIN m.down_ba
          /\ \A r \in DOMAIN m.down_ba :
               Put(m.down_ba, p.ba[e], val)[r] =
                 IF r - p.ba[e] \in DOMAIN val THEN val[r - p.ba[e]] ELSE m.down_ba[r]
      BY ONLY PutAt, SMT
    <3>2. QED BY ONLY <1>4, <3>1, Zenon
  <2>2. QED BY ONLY <1>2, <2>1, MemType(m) DEF MemType
<1>6. ASSUME NEW x \in Routed(ids), NEW a \in Entries(p), Serves(p, ids, a, x), a \in D \cup {k}
      PROVE  w.down_ba[BlockAt(p, ids, x)] = ActOf(n, ids, x)
  <2>1. /\ BlockAt(p, ids, x) \in 0..(PoolCount - 1) /\ p.pos[x] \in 0..(p.num[Id(ids, x)] - 1)
        /\ BlockAt(p, ids, x) = p.ba[Id(ids, x)] + p.pos[x] /\ p.ba[Id(ids, x)] \in Nat
        /\ RowAt(p, ids, x) = p.row[Id(ids, x)] + p.pos[x] /\ RowAt(p, ids, x) \in Row
        /\ BlockAt(p, ids, x) - p.ba[e] \in 0..(p.num[e] - 1) => Id(ids, x) = e
    BY <1>1, <1>3, Places
  <2>2. CASE a = k
    <3>1. Id(ids, x) = e
      BY <1>6, <2>2 DEF Serves, e
    <3>2. BlockAt(p, ids, x) - p.ba[e] = p.pos[x]
      BY ONLY <2>1, <3>1
    <3>3. val[p.pos[x]] = ActOf(n, ids, x)
      <4> DEFINE f == m.gate[RowAt(p, ids, x)]
      <4>1. val[p.pos[x]] = Whole(f)
        BY <2>1, <3>1
      <4>2. DOMAIN f = GateSlices /\ GateUpNth \in Nat \ {0}
        BY <2>1, Constants DEF MemType
      <4>3. GateSlices # {}
        BY SomeSlice
      <4>4. ASSUME NEW s \in GateSlices PROVE f[s] = ActOf(n, ids, x)
        <5>1. a \in Nat /\ s \in Nat
          BY <1>1, Table, <4>2 DEF GateSlices, Entries
        <5>2. a * GateUpNth + s \in Nat /\ 2 * (a * GateUpNth + s) \in Nat
          BY <4>2, <5>1
        <5>3. QED BY <1>6, <5>2 DEF GateIn, p, ids
      <4> HIDE DEF f
      <4>5. QED BY <4>1, <4>2, <4>3, <4>4, WholeOfEqual
    <3> HIDE DEF val
    <3>4. QED BY ONLY <1>5, <2>1, <3>1, <3>2, <3>3
  <2>3. CASE a # k
    <3>1. Id(ids, x) # e
      BY <1>1, <1>6, <2>3, Table DEF Serves, e, p
    <3>2. m.down_ba[BlockAt(p, ids, x)] = ActOf(n, ids, x)
      BY <1>6, <2>3 DEF ActedIn, p, ids
    <3> HIDE DEF val
    <3>3. QED BY ONLY <1>5, <2>1, <3>1, <3>2
  <2>4. QED BY <2>2, <2>3
<1>7. ActedIn(w.down_ba, D \cup {k}, p, call, n)
  BY <1>6 DEF ActedIn, ids
<1>8. QED BY ONLY <1>5, <1>7 DEF w, p

LEMMA DownStep ==
  ASSUME NEW n \in Numa, CallOK, NEW m, MemType(m),
         NEW k \in 0..(DownNth * Len(plan[n].map) - 1), NEW D,
         DownIn(m.down, D, plan[n], call, n), ActedIn(m.down_ba, Nat, plan[n], call, n)
  PROVE  LET w == DownGemm(n, m, k)
         IN  /\ MemType(w) /\ DownIn(w.down, D \cup {k}, plan[n], call, n)
             /\ w.in = m.in /\ w.gate = m.gate /\ w.up = m.up
             /\ w.gate_up_ba = m.gate_up_ba /\ w.down_ba = m.down_ba
<1> DEFINE w == DownGemm(n, m, k)
           p == plan[n]
           ids == call.ids
           N == DownNth
           b == k \div N
           t == k % N
           e == p.map[b + 1]
           val == [r \in 0..(p.num[e] - 1) |-> Down(n, e, m.down_ba[p.ba[e] + r])]
           new == PutSlice(m.down, p.row[e], t, val)
<1>1. PlanOK(p, ids) /\ N \in Nat \ {0}
  BY Constants DEF CallOK
<1>2. w = [m EXCEPT !.down = new]
  <2>1. w = [m EXCEPT !.down = PutSlice(@, p.row[e], t, val)]
    BY ONLY DEF DownGemm
  <2> HIDE DEF w, e, t, p, val
  <2>2. "down" \in DOMAIN m
    BY ONLY MemType(m) DEF MemType
  <2>3. QED BY ONLY <2>1, <2>2
<1>3. k \in 0..(N * Len(p.map) - 1)
  OBVIOUS
<1>4. DownSlices = 0..(N - 1)
  BY DEF DownSlices
<1>5. DOMAIN val = 0..(p.num[e] - 1)
  OBVIOUS
<1> HIDE DEF w, p, ids, N
<1>6. /\ b \in Entries(p) /\ b \in Nat
      /\ \A a \in Entries(p), s \in DownSlices : a * N + s = k => a = b
  <2>1. /\ \A v \in 0..(N * Len(p.map) - 1) :
             /\ v \div N \in Entries(p) /\ v % N \in 0..(N - 1)
             /\ \A a \in Entries(p), s \in 0..(N - 1) :
                  a * N + s = v <=> a = v \div N /\ s = v % N
        /\ \A a \in Entries(p), s \in 0..(N - 1) : a * N + s \in 0..(N * Len(p.map) - 1)
    BY ONLY <1>1, SliceTasks, Zenon
  <2>2. /\ b \in Entries(p)
        /\ \A a \in Entries(p), s \in DownSlices : a * N + s = k => a = b
    BY ONLY <1>3, <1>4, <2>1, Zenon
  <2> HIDE DEF b
  <2>3. b \in Nat
    BY <1>1, <2>2, Table DEF Entries
  <2>4. QED BY ONLY <2>2, <2>3
<1>7. ASSUME NEW x \in Routed(ids), Serves(p, ids, b, x) PROVE val[p.pos[x]] = DownOf(n, ids, x)
  <2> HIDE DEF b, t
  <2>1. Id(ids, x) = e
    BY <1>7 DEF Serves
  <2>2. /\ p.pos[x] \in 0..(p.num[e] - 1) /\ BlockAt(p, ids, x) = p.ba[e] + p.pos[x]
    BY <1>1, <2>1, Places
  <2>3. m.down_ba[BlockAt(p, ids, x)] = ActOf(n, ids, x)
    BY <1>6, <1>7 DEF ActedIn, p, ids
  <2> HIDE DEF e
  <2>4. val[p.pos[x]] = Down(n, e, m.down_ba[BlockAt(p, ids, x)])
    BY ONLY <2>2 DEF val
  <2>5. QED BY ONLY <2>1, <2>3, <2>4 DEF DownOf
<1>8. SliceAt(new, m.down, p, ids, N, k, val)
  <2> HIDE DEF val
  <2>1. DOMAIN m.down = Row /\ \A r \in Row : DOMAIN m.down[r] = 0..(N - 1)
    BY <1>4 DEF MemType
  <2>2. SliceAt(PutSlice(m.down, p.row[p.map[(k \div N) + 1]], k % N, val), m.down, p, ids, N, k, val)
    BY ONLY <1>1, <1>3, <1>5, <2>1, SliceStep, Zenon
  <2>3. QED BY ONLY <2>2
<1> HIDE DEF new, val, e
<1>9. /\ MemType(w) /\ w.down = new /\ w.up = m.up /\ w.in = m.in /\ w.gate = m.gate
      /\ w.gate_up_ba = m.gate_up_ba /\ w.down_ba = m.down_ba
  <2>1. DOMAIN new = Row /\ \A r \in Row : DOMAIN new[r] = DownSlices
    BY ONLY <1>4, <1>8 DEF SliceAt
  <2>2. QED BY ONLY <1>2, <2>1, MemType(m) DEF MemType
<1>10. ASSUME NEW x \in Routed(ids), NEW a \in Entries(p), NEW s \in DownSlices, Serves(p, ids, a, x),
              a * N + s \in D \cup {k}
       PROVE  new[RowAt(p, ids, x)][s] = DownOf(n, ids, x)
  <2> HIDE DEF b, t
  <2>1. new[RowAt(p, ids, x)][s] =
          IF a * N + s = k THEN val[p.pos[x]] ELSE m.down[RowAt(p, ids, x)][s]
    BY ONLY <1>4, <1>8, <1>10, Zenon DEF SliceAt
  <2>2. CASE a * N + s = k
    <3>1. a = b
      BY ONLY <1>6, <1>10, <2>2, Zenon
    <3>2. val[p.pos[x]] = DownOf(n, ids, x)
      BY <1>7, <1>10, <3>1
    <3>3. QED BY ONLY <2>1, <2>2, <3>2
  <2>3. CASE a * N + s # k
    <3>1. m.down[RowAt(p, ids, x)][s] = DownOf(n, ids, x)
      BY <1>10, <2>3 DEF DownIn, p, ids, N
    <3>2. QED BY ONLY <2>1, <2>3, <3>1
  <2>4. QED BY <2>2, <2>3
<1>11. DownIn(new, D \cup {k}, p, call, n)
  BY ONLY <1>10, Zenon DEF DownIn, ids, N
<1>12. QED BY ONLY <1>9, <1>11 DEF w, p

LEMMA WeightedIs ==
  ASSUME NEW n \in Numa, CallOK, NEW m, MemType(m), NEW t,
         DownIn(m.down, Nat, plan[n], call, n)
  PROVE  Weighted(n, m, t) = SetToBag(Summands(n, call.ids, t))
<1> DEFINE p == plan[n]
           ids == call.ids
           T == {y \in Routed(ids) : y[1] = t}
<1>1. PlanOK(p, ids) /\ DownNth \in Nat \ {0}
  BY Constants DEF CallOK
<1>2. Weighted(n, m, t) = SetToBag({<<x[2], Whole(m.down[RowAt(p, ids, x)])>> : x \in T})
  BY DEF Weighted, RowAt
<1>3. Summands(n, ids, t) = {<<x[2], DownOf(n, ids, x)>> : x \in T}
  BY DEF Summands
<1> HIDE DEF p, ids
<1>4. ASSUME NEW x \in Routed(ids) PROVE Whole(m.down[RowAt(p, ids, x)]) = DownOf(n, ids, x)
  <2> DEFINE f == m.down[RowAt(p, ids, x)]
  <2>1. RowAt(p, ids, x) \in Row
    BY <1>1, Places
  <2>2. DOMAIN f = DownSlices /\ DownSlices # {}
    BY <2>1, SomeSlice DEF MemType
  <2>3. PICK a \in Entries(p) : Serves(p, ids, a, x)
    BY <1>1, Table
  <2>4. ASSUME NEW s \in DownSlices PROVE f[s] = DownOf(n, ids, x)
    <3>1. a \in Nat /\ s \in Nat
      BY <1>1, Table DEF DownSlices, Entries
    <3>2. a * DownNth + s \in Nat
      BY <1>1, <3>1
    <3>3. QED BY <2>3, <3>2 DEF DownIn, p, ids
  <2> HIDE DEF f
  <2>5. QED BY <2>2, <2>4, WholeOfEqual DEF f
<1>5. {<<x[2], Whole(m.down[RowAt(p, ids, x)])>> : x \in T} = {<<x[2], DownOf(n, ids, x)>> : x \in T}
  BY <1>4
<1>6. QED BY ONLY <1>2, <1>3, <1>5 DEF ids

-----------------------------------------------------------------------------
(* The sum of the parts *)

LEMMA BagOfParts ==
  ASSUME NEW A, NEW B, NEW J, A \cap B = {}
  PROVE  SetToBag(A) (+) (SetToBag(B) (+) SetToBag(J)) = SetToBag(A \cup B) (+) SetToBag(J)
BY DEF SetToBag, (+)

(* Adding up the bags f[x] of a finite set, in whatever order *)
AddedUp(base, f, S) ==
  LET g[s \in SUBSET S] ==
        IF s = {} THEN base ELSE LET x == CHOOSE x \in s : TRUE IN f[x] (+) g[s \ {x}]
  IN  g[S]

IsSum(G, base, f, S) ==
  /\ G = [s \in SUBSET S |-> G[s]] /\ G[{}] = base
  /\ \A s \in SUBSET S : \A x \in s : G[s] = f[x] (+) G[s \ {x}]

LEMMA AddedUpIs ==
  ASSUME NEW S, IsFiniteSet(S), NEW base, NEW f, NEW G, IsSum(G, base, f, S)
  PROVE  AddedUp(base, f, S) = G[S]
<1> DEFINE Some(s) == CHOOSE x \in s : TRUE
           P(g) == g = [s \in SUBSET S |-> IF s = {} THEN base ELSE f[Some(s)] (+) g[s \ {Some(s)}]]
           h == CHOOSE g : P(g)
           c == Cardinality(S)
           T == {m \in 0..c : \A s \in SUBSET S : Cardinality(s) = m => h[s] = G[s]}
<1>0. /\ G = [s \in SUBSET S |-> G[s]] /\ G[{}] = base
      /\ \A s \in SUBSET S : \A x \in s : G[s] = f[x] (+) G[s \ {x}]
  BY DEF IsSum
<1>1. AddedUp(base, f, S) = h[S]
  BY DEF AddedUp
<1>2. \A s : s # {} => Some(s) \in s
  OBVIOUS
<1> HIDE DEF Some
<1>3. P(G)
  <2>1. ASSUME NEW s \in SUBSET S
        PROVE  G[s] = IF s = {} THEN base ELSE f[Some(s)] (+) G[s \ {Some(s)}]
    BY <1>0, <1>2
  <2>2. QED BY <1>0, <2>1
<1>4. P(h)
  <2> HIDE DEF P
  <2>1. QED BY <1>3
<1> HIDE DEF h
<1>5. \A s \in SUBSET S : h[s] = IF s = {} THEN base ELSE f[Some(s)] (+) h[s \ {Some(s)}]
  BY <1>4
<1>6. c \in Nat
  BY FS_CardinalityType
<1>7. \A s \in SUBSET S : IsFiniteSet(s) /\ Cardinality(s) \in Nat
  BY FS_Subset, FS_CardinalityType
<1>8. 0 \in T
  <2>1. ASSUME NEW s \in SUBSET S, Cardinality(s) = 0 PROVE h[s] = G[s]
    <3>1. s = {}
      BY <1>7, <2>1, FS_EmptySet
    <3>2. QED BY <1>0, <1>5, <3>1
  <2>2. 0 \in 0..c
    BY <1>6
  <2> HIDE DEF c
  <2>3. QED BY ONLY <2>1, <2>2, Zenon
<1>9. ASSUME NEW m \in 1..c, m - 1 \in T PROVE m \in T
  <2>1. ASSUME NEW s \in SUBSET S, Cardinality(s) = m PROVE h[s] = G[s]
    <3>1. s # {}
      <4>1. Cardinality(s) # 0
        BY <1>6, <2>1
      <4>2. QED BY ONLY <4>1, FS_EmptySet
    <3> DEFINE x == Some(s)
    <3>2. x \in s
      BY <1>2, <3>1
    <3> HIDE DEF x
    <3>3. s \ {x} \in SUBSET S /\ Cardinality(s \ {x}) = m - 1
      BY <1>7, <2>1, <3>2, FS_RemoveElement
    <3>4. h[s \ {x}] = G[s \ {x}]
      BY <1>9, <3>3
    <3>5. h[s] = f[x] (+) h[s \ {x}]
      BY <1>5, <3>1 DEF x
    <3>6. G[s] = f[x] (+) G[s \ {x}]
      BY <1>0, <3>2
    <3>7. QED BY <3>4, <3>5, <3>6
  <2>2. m \in 0..c
    BY <1>6
  <2>3. QED BY <2>1, <2>2
<1>10. c \in T
  <2> HIDE DEF T, c
  <2>1. \A m \in 0..c : m \in T
    BY ONLY <1>6, <1>8, <1>9, UpTo
  <2>2. QED BY ONLY <1>6, <2>1
<1>11. QED BY <1>1, <1>10

LEMMA MergedAdds ==
  ASSUME NEW t
  PROVE  Merged(t) = AddedUp(local[0][t] (+) (IF call.incremental THEN output[t] ELSE EmptyBag),
                             [n \in Numa |-> local[n][t]], 1..(NumaCount - 1))
BY Zenon DEF Merged, AddedUp, Fn!FoldFunctionOnSet, Fn!MapThenFoldSet

(* The terms of different parts are different. *)
LEMMA SummandsApart ==
  ASSUME NEW ids, NEW t, NEW a, NEW b, a # b
  PROVE  Summands(a, ids, t) \cap Summands(b, ids, t) = {}
<1> SUFFICES ASSUME NEW u \in Summands(a, ids, t), u \in Summands(b, ids, t) PROVE FALSE
  OBVIOUS
<1>1. PICK x : u = <<x[2], DownOf(a, ids, x)>>
  BY DEF Summands
<1>2. PICK y : u = <<y[2], DownOf(b, ids, y)>>
  BY DEF Summands
<1>3. DownOf(a, ids, x) = DownOf(b, ids, y)
  <2> HIDE DEF DownOf
  <2>1. QED BY <1>1, <1>2
<1>4. QED BY <1>3 DEF DownOf, Down

LEMMA MergedIs ==
  ASSUME CallOK, NEW t \in 0..(MaxLen - 1), t < call.qlen,
         \A n \in Numa : local[n][t] = SetToBag(Summands(n, call.ids, t)),
         output[t] = SetToBag({Before})
  PROVE  Merged(t) = Expected(t)
<1> DEFINE S == 1..(NumaCount - 1)
           J == IF call.incremental THEN {Before} ELSE {}
           A(n) == Summands(n, call.ids, t)
           Of(s) == UNION {A(n) : n \in s \cup {0}}
           G == [s \in SUBSET S |-> SetToBag(Of(s)) (+) SetToBag(J)]
           f == [n \in Numa |-> local[n][t]]
           Z == {<<x[2], Term(n, Id(call.ids, x), t)>> :
                   x \in {y \in Routed(call.ids) : y[1] = t}, n \in Numa}
           base == local[0][t] (+) (IF call.incremental THEN output[t] ELSE EmptyBag)
<1>1. NumaCount \in Nat \ {0} /\ 0 \in Numa /\ S \subseteq Numa /\ Numa = S \cup {0} /\ 0 \notin S
  BY Constants DEF Numa
<1>2. (IF call.incremental THEN output[t] ELSE EmptyBag) = SetToBag(J)
  BY DEF EmptyBag
<1>3. base = SetToBag(A(0)) (+) SetToBag(J)
  BY <1>1, <1>2
<1>4. IsFiniteSet(S)
  <2>1. 1 \in Int /\ NumaCount - 1 \in Int
    BY <1>1
  <2>2. QED BY ONLY <2>1, FS_Interval, Zenon
<1> HIDE DEF S, J
<1>5. G[{}] = base
  <2>1. Of({}) = A(0)
    OBVIOUS
  <2> HIDE DEF A, Of, base
  <2>2. QED BY <1>3, <2>1
<1>6. ASSUME NEW s \in SUBSET S, NEW x \in s PROVE G[s] = f[x] (+) G[s \ {x}]
  <2>1. x \in Numa /\ x # 0 /\ s \ {x} \in SUBSET S
    BY <1>1
  <2>2. f[x] = SetToBag(A(x))
    BY <2>1
  <2>3. A(x) \cap Of(s \ {x}) = {}
    <3> HIDE DEF A
    <3>1. \A n \in (s \ {x}) \cup {0} : A(x) \cap A(n) = {}
      BY <2>1, SummandsApart DEF A
    <3>2. QED BY <3>1
  <2>4. Of(s) = A(x) \cup Of(s \ {x})
    <3> HIDE DEF A
    <3>1. s \cup {0} = {x} \cup ((s \ {x}) \cup {0})
      OBVIOUS
    <3>2. QED BY <3>1
  <2> HIDE DEF A, Of, f
  <2>5. SetToBag(A(x)) (+) (SetToBag(Of(s \ {x})) (+) SetToBag(J)) = SetToBag(Of(s)) (+) SetToBag(J)
    BY ONLY <2>3, <2>4, BagOfParts
  <2>6. QED BY <2>1, <2>2, <2>5
<1>7. G = [s \in SUBSET S |-> G[s]]
  BY Zenon
<1>8. Merged(t) = G[S]
  <2>1. Merged(t) = AddedUp(base, f, S)
    BY MergedAdds DEF S
  <2> HIDE DEF G, f, base
  <2>2. \A s \in SUBSET S : \A x \in s : G[s] = f[x] (+) G[s \ {x}]
    BY ONLY <1>6, Zenon
  <2>3. AddedUp(base, f, S) = G[S]
    <3>1. IsSum(G, base, f, S)
      BY ONLY <1>5, <1>7, <2>2 DEF IsSum
    <3>2. QED BY ONLY <1>4, <3>1, AddedUpIs
  <2>4. QED BY ONLY <2>1, <2>3
<1>9. G[S] = SetToBag(UNION {A(n) : n \in Numa}) (+) SetToBag(J)
  BY <1>1
<1>10. UNION {A(n) : n \in Numa} = Z
  <2>1. \A n, x : x[1] = t => DownOf(n, call.ids, x) = Term(n, Id(call.ids, x), t)
    BY DEF DownOf, Term, ActOf, GateOf, UpOf, Token
  <2> HIDE DEF Term, DownOf
  <2>2. \A n \in Numa : A(n) = {<<x[2], Term(n, Id(call.ids, x), t)>> : x \in {y \in Routed(call.ids) : y[1] = t}}
    BY <2>1 DEF Summands
  <2> HIDE DEF A
  <2>3. QED BY <2>2
<1>11. SetToBag(J) = IF call.incremental THEN SetToBag({Before}) ELSE EmptyBag
  BY DEF J, EmptyBag
<1>12. Expected(t) = SetToBag(Z) (+) IF call.incremental THEN SetToBag({Before}) ELSE EmptyBag
  BY ONLY DEF Expected
<1> HIDE DEF A, G, Z
<1>13. QED BY ONLY <1>8, <1>9, <1>10, <1>11, <1>12

-----------------------------------------------------------------------------
(* The jobs of a part *)

(* The tasks of a job ph of the call c under the plan p *)
Tasks(ph, p, c) ==
  CASE ph \in {"copy", "sum", "merge"} -> c.qlen
    [] ph \in {"gate_up_ba", "down_ba"} -> Len(p.map)
    [] ph = "gate_up" -> GateUpNth * Len(p.map) * 2
    [] ph = "act"  -> GateUpNth * Len(p.map)
    [] ph = "down" -> DownNth * Len(p.map)
    [] ph \in {"none", "done"} -> 0

LEMMA TaskCountIs == \A n : TaskCount(n) = Tasks(job[n].phase, plan[n], call)
BY DEF TaskCount, Tasks

LEMMA TaskCountNextIs == \A n : TaskCount(n)' = Tasks(job'[n].phase, plan'[n], call')
BY DEF TaskCount, Tasks

LEMMA TaskCounts ==
  ASSUME NEW ph, NEW p, NEW c
  PROVE  /\ ph \in {"copy", "sum", "merge"} => Tasks(ph, p, c) = c.qlen
         /\ ph \in {"gate_up_ba", "down_ba"} => Tasks(ph, p, c) = Len(p.map)
         /\ ph = "gate_up" => Tasks(ph, p, c) = GateUpNth * Len(p.map) * 2
         /\ ph = "act" => Tasks(ph, p, c) = GateUpNth * Len(p.map)
         /\ ph = "down" => Tasks(ph, p, c) = DownNth * Len(p.map)
         /\ ph \in {"none", "done"} => Tasks(ph, p, c) = 0
BY DEF Tasks

Ordered(p, c) ==
  /\ c.qlen \in 1..MaxLen /\ c.ids \in [0..(c.qlen - 1) -> Routes]
  /\ PlanOK(p, c.ids)

LEMMA TasksNat ==
  ASSUME NEW p, NEW c, Ordered(p, c), NEW ph \in Phases \cup {"none", "merge"}
  PROVE  Tasks(ph, p, c) \in Nat
<1>1. c.qlen \in Nat
  BY Constants DEF Ordered
<1>2. Len(p.map) \in Nat
  BY Table DEF Ordered
<1>3. GateUpNth \in Nat /\ DownNth \in Nat
  BY Constants
<1> DEFINE a == Len(p.map)
           g == GateUpNth
           d == DownNth
<1>4. g * a \in Nat /\ g * a * 2 \in Nat /\ d * a \in Nat
  <2> HIDE DEF a, g, d
  <2>1. a \in Nat /\ g \in Nat /\ d \in Nat
    BY <1>2, <1>3 DEF a, g, d
  <2>2. g * a \in Nat /\ d * a \in Nat
    BY ONLY <2>1
  <2>3. QED BY ONLY <2>2
<1>5. QED BY <1>1, <1>2, <1>4, TaskCounts DEF Phases

JobOf(j, p, c) ==
  /\ j \in [phase : Phases \cup {"none", "merge"}, next : Nat, held : SUBSET Nat]
  /\ j.next <= Tasks(j.phase, p, c)
  /\ \A k \in j.held : k < j.next

(* What has been done, job by job *)
LEMMA Progress ==
  ASSUME NEW n, NEW p, NEW c, NEW m, NEW loc, NEW j
  PROVE  /\ j.phase = "copy" =>
              (PartIn(n, p, c, m, loc, j) <=> PartAt(n, p, c, m, loc, Ran(j), {}, {}, {}, {}, {}, {}))
         /\ j.phase = "gate_up_ba" =>
              (PartIn(n, p, c, m, loc, j) <=> PartAt(n, p, c, m, loc, Nat, Ran(j), {}, {}, {}, {}, {}))
         /\ j.phase = "gate_up" =>
              (PartIn(n, p, c, m, loc, j) <=> PartAt(n, p, c, m, loc, Nat, Nat, Ran(j), {}, {}, {}, {}))
         /\ j.phase = "act" =>
              (PartIn(n, p, c, m, loc, j) <=> PartAt(n, p, c, m, loc, Nat, Nat, Nat, Ran(j), {}, {}, {}))
         /\ j.phase = "down_ba" =>
              (PartIn(n, p, c, m, loc, j) <=> PartAt(n, p, c, m, loc, Nat, Nat, Nat, Nat, Ran(j), {}, {}))
         /\ j.phase = "down" =>
              (PartIn(n, p, c, m, loc, j) <=> PartAt(n, p, c, m, loc, Nat, Nat, Nat, Nat, Nat, Ran(j), {}))
         /\ j.phase = "sum" =>
              (PartIn(n, p, c, m, loc, j) <=> PartAt(n, p, c, m, loc, Nat, Nat, Nat, Nat, Nat, Nat, Ran(j)))
         /\ j.phase = "done" =>
              (PartIn(n, p, c, m, loc, j) <=> PartAt(n, p, c, m, loc, Nat, Nat, Nat, Nat, Nat, Nat, Nat))
<1>1. CASE j.phase = "copy"
  BY <1>1 DEF Done, Later, PartIn
<1>2. CASE j.phase = "gate_up_ba"
  BY <1>2 DEF Done, Later, PartIn
<1>3. CASE j.phase = "gate_up"
  BY <1>3 DEF Done, Later, PartIn
<1>4. CASE j.phase = "act"
  BY <1>4 DEF Done, Later, PartIn
<1>5. CASE j.phase = "down_ba"
  BY <1>5 DEF Done, Later, PartIn
<1>6. CASE j.phase = "down"
  BY <1>6 DEF Done, Later, PartIn
<1>7. CASE j.phase = "sum"
  BY <1>7 DEF Done, Later, PartIn
<1>8. CASE j.phase = "done"
  BY <1>8 DEF Done, Later, PartIn
<1>9. QED BY <1>1, <1>2, <1>3, <1>4, <1>5, <1>6, <1>7, <1>8

(* When a job is over, all that it had to do is done. *)
LEMMA AllDone ==
  ASSUME NEW p, NEW c, PlanOK(p, c.ids), c.qlen \in 1..MaxLen, c.ids \in [0..(c.qlen - 1) -> Routes],
         NEW n, NEW buf, NEW D
  PROVE  /\ CopiedIn(buf, D, p, c) /\ 0..(c.qlen - 1) \subseteq D => CopiedIn(buf, Nat, p, c)
         /\ QuantizedIn(buf, D, p, c) /\ Entries(p) \subseteq D => QuantizedIn(buf, Nat, p, c)
         /\ UpIn(buf, D, p, c, n) /\ 0..(GateUpNth * Len(p.map) * 2 - 1) \subseteq D =>
              UpIn(buf, Nat, p, c, n)
         /\ GateIn(buf, D, {}, p, c, n) /\ 0..(GateUpNth * Len(p.map) * 2 - 1) \subseteq D =>
              GateIn(buf, Nat, {}, p, c, n)
         /\ GateIn(buf, Nat, D, p, c, n) /\ 0..(GateUpNth * Len(p.map) - 1) \subseteq D =>
              GateIn(buf, Nat, Nat, p, c, n)
         /\ ActedIn(buf, D, p, c, n) /\ Entries(p) \subseteq D => ActedIn(buf, Nat, p, c, n)
         /\ DownIn(buf, D, p, c, n) /\ 0..(DownNth * Len(p.map) - 1) \subseteq D =>
              DownIn(buf, Nat, p, c, n)
         /\ SumsIn(buf, D, c, n) /\ 0..(c.qlen - 1) \subseteq D => SumsIn(buf, Nat, c, n)
<1>1. GateUpNth \in Nat \ {0} /\ DownNth \in Nat \ {0} /\ Len(p.map) \in Nat
  BY Constants, Table
<1> DEFINE g == GateUpNth * Len(p.map)
<1>2. g \in Nat /\ GateUpNth * Len(p.map) * 2 = g * 2
  <2> DEFINE v == GateUpNth
             l == Len(p.map)
  <2>1. v \in Nat /\ l \in Nat
    BY <1>1
  <2> HIDE DEF v, l
  <2>2. v * l \in Nat
    BY ONLY <2>1
  <2>3. QED BY <2>2 DEF v, l
<1>3. ASSUME NEW a \in Entries(p), NEW s \in GateSlices
      PROVE  /\ a * GateUpNth + s \in 0..(g - 1) /\ a * GateUpNth + s \in Nat
             /\ 2 * (a * GateUpNth + s) \in 0..(g * 2 - 1)
             /\ 2 * (a * GateUpNth + s) + 1 \in 0..(g * 2 - 1)
  <2> DEFINE v == a * GateUpNth + s
  <2>1. \A b \in Entries(p), u \in 0..(GateUpNth - 1) : b * GateUpNth + u \in 0..(GateUpNth * Len(p.map) - 1)
    BY ONLY PlanOK(p, c.ids), <1>1, SliceTasks, Zenon
  <2>2. v \in 0..(g - 1)
    BY ONLY <2>1, a \in Entries(p), s \in GateSlices, Zenon DEF GateSlices
  <2> HIDE DEF v, g
  <2>3. /\ v \in Nat /\ 2 * v \in 0..(g * 2 - 1) /\ 2 * v + 1 \in 0..(g * 2 - 1)
    BY ONLY <1>2, <2>2
  <2>4. QED BY <2>2, <2>3 DEF v
<1>4. ASSUME NEW a \in Entries(p), NEW s \in DownSlices
      PROVE  a * DownNth + s \in 0..(DownNth * Len(p.map) - 1)
  <2>1. \A b \in Entries(p), u \in 0..(DownNth - 1) : b * DownNth + u \in 0..(DownNth * Len(p.map) - 1)
    BY ONLY PlanOK(p, c.ids), <1>1, SliceTasks, Zenon
  <2>2. QED BY ONLY <2>1, a \in Entries(p), s \in DownSlices, Zenon DEF DownSlices
<1>5. \A x \in Routed(c.ids) : x[1] \in 0..(c.qlen - 1)
  BY RoutedIs
<1> HIDE DEF g
<1>6. CopiedIn(buf, D, p, c) /\ 0..(c.qlen - 1) \subseteq D => CopiedIn(buf, Nat, p, c)
  BY ONLY <1>5, Zenon DEF CopiedIn
<1>7. QuantizedIn(buf, D, p, c) /\ Entries(p) \subseteq D => QuantizedIn(buf, Nat, p, c)
  BY ONLY Zenon DEF QuantizedIn
<1>8. UpIn(buf, D, p, c, n) /\ 0..(g * 2 - 1) \subseteq D => UpIn(buf, Nat, p, c, n)
  BY ONLY <1>3, Zenon DEF UpIn
<1>9. GateIn(buf, D, {}, p, c, n) /\ 0..(g * 2 - 1) \subseteq D => GateIn(buf, Nat, {}, p, c, n)
  BY ONLY <1>3, Zenon DEF GateIn
<1>10. GateIn(buf, Nat, D, p, c, n) /\ 0..(g - 1) \subseteq D => GateIn(buf, Nat, Nat, p, c, n)
  <2> SUFFICES ASSUME GateIn(buf, Nat, D, p, c, n), 0..(g - 1) \subseteq D
               PROVE  GateIn(buf, Nat, Nat, p, c, n)
    OBVIOUS
  <2>1. ASSUME NEW x \in Routed(c.ids), NEW a \in Entries(p), NEW s \in GateSlices, Serves(p, c.ids, a, x),
               2 * (a * GateUpNth + s) \in Nat
        PROVE  buf[RowAt(p, c.ids, x)][s] =
                 IF a * GateUpNth + s \in Nat THEN ActOf(n, c.ids, x) ELSE GateOf(n, c.ids, x)
    <3>1. a * GateUpNth + s \in Nat /\ a * GateUpNth + s \in D
      BY <1>3
    <3>2. buf[RowAt(p, c.ids, x)][s] =
            IF a * GateUpNth + s \in D THEN ActOf(n, c.ids, x) ELSE GateOf(n, c.ids, x)
      BY <2>1 DEF GateIn
    <3>3. QED BY ONLY <3>1, <3>2
  <2>2. QED BY ONLY <2>1, Zenon DEF GateIn
<1>11. ActedIn(buf, D, p, c, n) /\ Entries(p) \subseteq D => ActedIn(buf, Nat, p, c, n)
  BY ONLY Zenon DEF ActedIn
<1>12. DownIn(buf, D, p, c, n) /\ 0..(DownNth * Len(p.map) - 1) \subseteq D => DownIn(buf, Nat, p, c, n)
  BY ONLY <1>4, Zenon DEF DownIn
<1>13. SumsIn(buf, D, c, n) /\ 0..(c.qlen - 1) \subseteq D => SumsIn(buf, Nat, c, n)
  BY ONLY Zenon DEF SumsIn
<1>14. QED BY ONLY <1>2, <1>6, <1>7, <1>8, <1>9, <1>10, <1>11, <1>12, <1>13 DEF g

(* What task k of part n's job leaves in its arena and in its sums *)
Effect(n, m, k) ==
  CASE job[n].phase = "copy" -> CopyInput(n, m, k)
    [] job[n].phase = "gate_up_ba" -> QuantizeInput(n, m, k)
    [] job[n].phase = "gate_up" -> GateUp(n, m, k)
    [] job[n].phase = "act" -> Activate(n, m, k)
    [] job[n].phase = "down_ba" -> QuantizeDown(n, m, k)
    [] job[n].phase = "down" -> DownGemm(n, m, k)
    [] OTHER -> m
SumEffect(n, k) ==
  IF job[n].phase = "sum" THEN [local[n] EXCEPT ![k] = Weighted(n, mem[n], k)] ELSE local[n]

LEMMA EffectOf ==
  ASSUME NEW n, NEW m, NEW k
  PROVE  /\ job[n].phase = "copy" => Effect(n, m, k) = CopyInput(n, m, k)
         /\ job[n].phase = "gate_up_ba" => Effect(n, m, k) = QuantizeInput(n, m, k)
         /\ job[n].phase = "gate_up" => Effect(n, m, k) = GateUp(n, m, k)
         /\ job[n].phase = "act" => Effect(n, m, k) = Activate(n, m, k)
         /\ job[n].phase = "down_ba" => Effect(n, m, k) = QuantizeDown(n, m, k)
         /\ job[n].phase = "down" => Effect(n, m, k) = DownGemm(n, m, k)
         /\ job[n].phase \in {"sum", "done", "none", "merge"} => Effect(n, m, k) = m
BY DEF Effect

(* One more task of the job in progress has been run. *)
LEMMA RanOneMore ==
  ASSUME NEW n \in Numa, CallOK, JobOf(job[n], plan[n], call), NEW k \in job[n].held
  PROVE  LET j == [job[n] EXCEPT !.held = @ \ {k}]
         IN  /\ j.phase = job[n].phase /\ j.next = job[n].next /\ j.held = job[n].held \ {k}
             /\ Ran(j) = Ran(job[n]) \cup {k} /\ k \notin Ran(job[n])
             /\ k \in Nat /\ k < Tasks(job[n].phase, plan[n], call)
<1> DEFINE q == job[n]
           T == Tasks(job[n].phase, plan[n], call)
           j == [q EXCEPT !.held = @ \ {k}]
<1>1. /\ q \in [phase : Phases \cup {"none", "merge"}, next : Nat, held : SUBSET Nat]
      /\ q.next <= T /\ k < q.next
  BY DEF JobOf
<1>2. /\ j.phase = q.phase /\ j.next = q.next /\ j.held = q.held \ {k}
      /\ q.next \in Nat /\ q.held \in SUBSET Nat
  BY <1>1
<1>3. k \in q.held /\ k \in Nat
  BY <1>2
<1> HIDE DEF q, j, T
<1>4. Ran(j) = Ran(q) \cup {k} /\ k \notin Ran(q)
  BY <1>1, <1>2, <1>3 DEF Ran
<1>5. k < T
  <2>1. T \in Nat
    <3>1. Ordered(plan[n], call)
      BY DEF Ordered, CallOK
    <3>2. QED BY <1>1, <3>1, TasksNat DEF q, T
  <2>2. QED BY <1>1, <1>2, <1>3, <2>1
<1>6. QED BY <1>2, <1>3, <1>4, <1>5 DEF j, q, T

(* Running one task keeps what the part knows about its memory. *)
LEMMA RunTask ==
  ASSUME NEW n \in Numa, CallOK, JobOf(job[n], plan[n], call), job[n].phase \in Phases, NEW k \in job[n].held,
         MemType(mem[n]), DOMAIN local[n] = 0..(MaxLen - 1), PartIn(n, plan[n], call, mem[n], local[n], job[n])
  PROVE  LET w == Effect(n, mem[n], k)
             loc == SumEffect(n, k)
         IN  /\ MemType(w) /\ DOMAIN loc = 0..(MaxLen - 1)
             /\ PartIn(n, plan[n], call, w, loc, [job[n] EXCEPT !.held = @ \ {k}])
<1> DEFINE q == job[n]
           j == [job[n] EXCEPT !.held = @ \ {k}]
           m == mem[n]
           w == Effect(n, m, k)
           loc == SumEffect(n, k)
           l == local[n]
           p == plan[n]
           T == Tasks(job[n].phase, plan[n], call)
<1>1. /\ j.phase = q.phase /\ Ran(j) = Ran(q) \cup {k} /\ k \notin Ran(q)
      /\ k \in Nat /\ k < T
  BY RanOneMore
<1>2. PartIn(n, plan[n], call, m, l, q)
  OBVIOUS
<1>3. q.phase # "sum" => loc = l
  BY DEF SumEffect
<1>4. DOMAIN l = 0..(MaxLen - 1) /\ MemType(m)
  OBVIOUS
<1>5. Len(p.map) \in Nat /\ Entries(p) = 0..(Len(p.map) - 1)
  BY Table DEF CallOK, Entries
<1>6. T \in Nat
  <2>1. job[n].phase \in Phases \cup {"none", "merge"}
    OBVIOUS
  <2>2. QED BY <2>1, TasksNat DEF Ordered, CallOK
<1>7. k \in 0..(T - 1)
  BY <1>1, <1>6
<1> HIDE DEF j, w, loc
<1> HIDE DEF q, m, l, p, T
<1>9. CASE q.phase = "copy"
  <2>0. PartAt(n, plan[n], call, m, l, Ran(q), {}, {}, {}, {}, {}, {})
    BY <1>2, <1>9, Progress
  <2>1. w = CopyInput(n, m, k) /\ k \in 0..(call.qlen - 1)
    BY <1>7, <1>9, EffectOf, TaskCounts DEF T, q, w, p
  <2>2. CopiedIn(m.in, Ran(q), p, call)
    BY <2>0 DEF PartAt, p
  <2>3. /\ MemType(w) /\ CopiedIn(w.in, Ran(q) \cup {k}, p, call)
        /\ w.gate = m.gate /\ w.up = m.up /\ w.down = m.down
        /\ w.gate_up_ba = m.gate_up_ba /\ w.down_ba = m.down_ba
    BY <1>4, <2>1, <2>2, CopyStep DEF p
  <2>4. loc = l
    BY <1>3, <1>9
  <2>8. PartAt(n, plan[n], call, w, loc, Ran(q) \cup {k}, {}, {}, {}, {}, {}, {})
    BY ONLY <2>0, <2>3, <2>4 DEF PartAt, p
  <2>9. PartIn(n, plan[n], call, w, loc, j)
    BY <1>1, <1>9, <2>8, Progress
  <2>10. QED BY <1>4, <2>3, <2>4, <2>9 DEF w, loc, j, m
<1>10. CASE q.phase = "gate_up_ba"
  <2>0. PartAt(n, plan[n], call, m, l, Nat, Ran(q), {}, {}, {}, {}, {})
    BY <1>2, <1>10, Progress
  <2>1. w = QuantizeInput(n, m, k) /\ k \in Entries(p)
    BY <1>5, <1>7, <1>10, EffectOf, TaskCounts DEF T, q, w, p
  <2>2. QuantizedIn(m.gate_up_ba, Ran(q), p, call) /\ CopiedIn(m.in, Nat, p, call)
    BY <2>0 DEF PartAt, p
  <2>3. /\ MemType(w) /\ QuantizedIn(w.gate_up_ba, Ran(q) \cup {k}, p, call)
        /\ w.in = m.in /\ w.gate = m.gate /\ w.up = m.up /\ w.down = m.down
        /\ w.down_ba = m.down_ba
    BY <1>4, <2>1, <2>2, QuantizeStep DEF p
  <2>4. loc = l
    BY <1>3, <1>10
  <2>8. PartAt(n, plan[n], call, w, loc, Nat, Ran(q) \cup {k}, {}, {}, {}, {}, {})
    BY ONLY <2>0, <2>3, <2>4 DEF PartAt, p
  <2>9. PartIn(n, plan[n], call, w, loc, j)
    BY <1>1, <1>10, <2>8, Progress
  <2>10. QED BY <1>4, <2>3, <2>4, <2>9 DEF w, loc, j, m
<1>11. CASE q.phase = "gate_up"
  <2>0. PartAt(n, plan[n], call, m, l, Nat, Nat, Ran(q), {}, {}, {}, {})
    BY <1>2, <1>11, Progress
  <2>1. w = GateUp(n, m, k) /\ k \in 0..(GateUpNth * Len(p.map) * 2 - 1)
    BY <1>7, <1>11, EffectOf, TaskCounts DEF T, q, w, p
  <2>2. /\ UpIn(m.up, Ran(q), p, call, n) /\ GateIn(m.gate, Ran(q), {}, p, call, n)
        /\ QuantizedIn(m.gate_up_ba, Nat, p, call)
    BY <2>0 DEF PartAt, p
  <2>3. /\ MemType(w) /\ UpIn(w.up, Ran(q) \cup {k}, p, call, n)
        /\ GateIn(w.gate, Ran(q) \cup {k}, {}, p, call, n)
        /\ w.in = m.in /\ w.down = m.down
        /\ w.gate_up_ba = m.gate_up_ba /\ w.down_ba = m.down_ba
    BY <1>4, <2>1, <2>2, GateUpStep DEF p
  <2>4. loc = l
    BY <1>3, <1>11
  <2>8. PartAt(n, plan[n], call, w, loc, Nat, Nat, Ran(q) \cup {k}, {}, {}, {}, {})
    BY ONLY <2>0, <2>3, <2>4 DEF PartAt, p
  <2>9. PartIn(n, plan[n], call, w, loc, j)
    BY <1>1, <1>11, <2>8, Progress
  <2>10. QED BY <1>4, <2>3, <2>4, <2>9 DEF w, loc, j, m
<1>12. CASE q.phase = "act"
  <2>0. PartAt(n, plan[n], call, m, l, Nat, Nat, Nat, Ran(q), {}, {}, {})
    BY <1>2, <1>12, Progress
  <2>1. w = Activate(n, m, k) /\ k \in 0..(GateUpNth * Len(p.map) - 1)
    BY <1>7, <1>12, EffectOf, TaskCounts DEF T, q, w, p
  <2>2. UpIn(m.up, Nat, p, call, n) /\ GateIn(m.gate, Nat, Ran(q), p, call, n)
    BY <2>0 DEF PartAt, p
  <2>3. /\ MemType(w) /\ GateIn(w.gate, Nat, Ran(q) \cup {k}, p, call, n)
        /\ w.in = m.in /\ w.up = m.up /\ w.down = m.down
        /\ w.gate_up_ba = m.gate_up_ba /\ w.down_ba = m.down_ba
    BY <1>1, <1>4, <2>1, <2>2, ActivateStep DEF p
  <2>4. loc = l
    BY <1>3, <1>12
  <2>8. PartAt(n, plan[n], call, w, loc, Nat, Nat, Nat, Ran(q) \cup {k}, {}, {}, {})
    BY ONLY <2>0, <2>3, <2>4 DEF PartAt, p
  <2>9. PartIn(n, plan[n], call, w, loc, j)
    BY <1>1, <1>12, <2>8, Progress
  <2>10. QED BY <1>4, <2>3, <2>4, <2>9 DEF w, loc, j, m
<1>13. CASE q.phase = "down_ba"
  <2>0. PartAt(n, plan[n], call, m, l, Nat, Nat, Nat, Nat, Ran(q), {}, {})
    BY <1>2, <1>13, Progress
  <2>1. w = QuantizeDown(n, m, k) /\ k \in Entries(p)
    BY <1>5, <1>7, <1>13, EffectOf, TaskCounts DEF T, q, w, p
  <2>2. ActedIn(m.down_ba, Ran(q), p, call, n) /\ GateIn(m.gate, Nat, Nat, p, call, n)
    BY <2>0 DEF PartAt, p
  <2>3. /\ MemType(w) /\ ActedIn(w.down_ba, Ran(q) \cup {k}, p, call, n)
        /\ w.in = m.in /\ w.gate = m.gate /\ w.up = m.up /\ w.down = m.down
        /\ w.gate_up_ba = m.gate_up_ba
    BY <1>4, <2>1, <2>2, QuantizeDownStep DEF p
  <2>4. loc = l
    BY <1>3, <1>13
  <2>8. PartAt(n, plan[n], call, w, loc, Nat, Nat, Nat, Nat, Ran(q) \cup {k}, {}, {})
    BY ONLY <2>0, <2>3, <2>4 DEF PartAt, p
  <2>9. PartIn(n, plan[n], call, w, loc, j)
    BY <1>1, <1>13, <2>8, Progress
  <2>10. QED BY <1>4, <2>3, <2>4, <2>9 DEF w, loc, j, m
<1>14. CASE q.phase = "down"
  <2>0. PartAt(n, plan[n], call, m, l, Nat, Nat, Nat, Nat, Nat, Ran(q), {})
    BY <1>2, <1>14, Progress
  <2>1. w = DownGemm(n, m, k) /\ k \in 0..(DownNth * Len(p.map) - 1)
    BY <1>7, <1>14, EffectOf, TaskCounts DEF T, q, w, p
  <2>2. DownIn(m.down, Ran(q), p, call, n) /\ ActedIn(m.down_ba, Nat, p, call, n)
    BY <2>0 DEF PartAt, p
  <2>3. /\ MemType(w) /\ DownIn(w.down, Ran(q) \cup {k}, p, call, n)
        /\ w.in = m.in /\ w.gate = m.gate /\ w.up = m.up
        /\ w.gate_up_ba = m.gate_up_ba /\ w.down_ba = m.down_ba
    BY <1>4, <2>1, <2>2, DownStep DEF p
  <2>4. loc = l
    BY <1>3, <1>14
  <2>8. PartAt(n, plan[n], call, w, loc, Nat, Nat, Nat, Nat, Nat, Ran(q) \cup {k}, {})
    BY ONLY <2>0, <2>3, <2>4 DEF PartAt, p
  <2>9. PartIn(n, plan[n], call, w, loc, j)
    BY <1>1, <1>14, <2>8, Progress
  <2>10. QED BY <1>4, <2>3, <2>4, <2>9 DEF w, loc, j, m
<1>15. CASE q.phase = "sum"
  <2>0. PartAt(n, plan[n], call, m, l, Nat, Nat, Nat, Nat, Nat, Nat, Ran(q))
    BY <1>2, <1>15, Progress
  <2>1. w = m /\ k \in 0..(call.qlen - 1)
    BY <1>7, <1>15, EffectOf, TaskCounts DEF T, q, w, p
  <2>2. DownIn(m.down, Nat, p, call, n) /\ SumsIn(l, Ran(q), call, n)
    BY <2>0 DEF PartAt, p
  <2>3. Weighted(n, m, k) = SetToBag(Summands(n, call.ids, k))
    BY <1>4, <2>2, WeightedIs DEF p
  <2>4. loc = [l EXCEPT ![k] = Weighted(n, m, k)]
    BY <1>15 DEF SumEffect, loc, l, m, q
  <2>5. DOMAIN loc = 0..(MaxLen - 1) /\ k \in 0..(MaxLen - 1)
    <3>1. call.qlen \in 1..MaxLen /\ MaxLen \in Nat
      BY Constants DEF CallOK
    <3>2. k \in 0..(MaxLen - 1)
      BY <2>1, <3>1
    <3>3. QED BY <1>4, <2>4, <3>2
  <2>6. SumsIn(loc, Ran(q) \cup {k}, call, n)
    <3>1. ASSUME NEW t \in 0..(call.qlen - 1), t \in Ran(q) \cup {k}
          PROVE  loc[t] = SetToBag(Summands(n, call.ids, t))
      <4>1. CASE t = k
        BY <1>4, <2>3, <2>4, <2>5, <4>1
      <4>2. CASE t # k
        <5>1. loc[t] = l[t]
          <6>1. call.qlen \in 1..MaxLen /\ MaxLen \in Nat
            BY Constants DEF CallOK
          <6>2. t \in 0..(MaxLen - 1)
            BY <6>1
          <6>3. QED BY <1>4, <2>4, <4>2, <6>2
        <5>2. QED BY <2>2, <3>1, <4>2, <5>1 DEF SumsIn
      <4>3. QED BY <4>1, <4>2
    <3>2. QED BY <3>1 DEF SumsIn
  <2>8. PartAt(n, plan[n], call, w, loc, Nat, Nat, Nat, Nat, Nat, Nat, Ran(q) \cup {k})
    BY ONLY <2>0, <2>1, <2>6 DEF PartAt, p
  <2>9. PartIn(n, plan[n], call, w, loc, j)
    BY <1>1, <1>15, <2>8, Progress
  <2>10. QED BY <1>4, <2>1, <2>5, <2>9 DEF w, loc, j, m
<1>16. CASE q.phase = "done"
  <2>1. T = 0
    BY <1>16, TaskCounts DEF T, q, p
  <2>2. QED BY <1>7, <2>1
<1>17. q.phase \in Phases
  BY DEF q
<1>18. QED BY ONLY <1>9, <1>10, <1>11, <1>12, <1>13, <1>14, <1>15, <1>16, <1>17 DEF Phases

(* The next job starts from the finished work of the one before. *)
LEMMA NextJob ==
  ASSUME NEW n \in Numa, CallOK, JobOf(job[n], plan[n], call), job[n].phase \in Phases \ {"done"}, JobOver(n),
         NEW m, NEW l, PartIn(n, plan[n], call, m, l, job[n])
  PROVE  LET j == [NoJob EXCEPT !.phase = After(job[n].phase)]
         IN  /\ j.phase \in Phases \ {"copy"} /\ j.next = 0 /\ j.held = {} /\ PartIn(n, plan[n], call, m, l, j)
<1> DEFINE q == job[n]
           j == [NoJob EXCEPT !.phase = After(job[n].phase)]
           p == plan[n]
           T == Tasks(job[n].phase, plan[n], call)
<1>1. j.phase = After(q.phase) /\ j.next = 0 /\ j.held = {}
  BY DEF NoJob
<1>2. Ran(j) = {}
  BY <1>1 DEF Ran
<1>3. T \in Nat
  <2>1. job[n].phase \in Phases \cup {"none", "merge"} /\ Ordered(p, call)
    BY DEF Ordered, CallOK
  <2>2. QED BY <2>1, TasksNat
<1>4. 0..(T - 1) \subseteq Ran(q)
  <2>1. q.held = {} /\ q.next >= T /\ q.next \in Nat
    BY TaskCountIs DEF JobOver, JobOf
  <2> HIDE DEF q
  <2>2. QED BY <1>3, <2>1 DEF Ran
<1>5. /\ q.phase = "copy" => j.phase = "gate_up_ba"
      /\ q.phase = "gate_up_ba" => j.phase = "gate_up"
      /\ q.phase = "gate_up" => j.phase = "act"
      /\ q.phase = "act" => j.phase = "down_ba"
      /\ q.phase = "down_ba" => j.phase = "down"
      /\ q.phase = "down" => j.phase = "sum"
      /\ q.phase = "sum" => j.phase = "done"
  BY <1>1 DEF After
<1>6. q.phase \in Phases /\ q.phase # "done" /\ PartIn(n, plan[n], call, m, l, q)
  OBVIOUS
<1>7. /\ PlanOK(p, call.ids) /\ call.qlen \in 1..MaxLen
      /\ call.ids \in [0..(call.qlen - 1) -> Routes]
  BY DEF CallOK
<1>8. Entries(p) = 0..(Len(p.map) - 1)
  BY DEF Entries
<1>9. /\ q.phase \in {"copy", "sum"} => 0..(call.qlen - 1) \subseteq Ran(q)
      /\ q.phase \in {"gate_up_ba", "down_ba"} => Entries(p) \subseteq Ran(q)
      /\ q.phase = "gate_up" => 0..(GateUpNth * Len(p.map) * 2 - 1) \subseteq Ran(q)
      /\ q.phase = "act" => 0..(GateUpNth * Len(p.map) - 1) \subseteq Ran(q)
      /\ q.phase = "down" => 0..(DownNth * Len(p.map) - 1) \subseteq Ran(q)
  <2>1. /\ q.phase \in {"copy", "sum"} => T = call.qlen
        /\ q.phase \in {"gate_up_ba", "down_ba"} => T = Len(p.map)
        /\ q.phase = "gate_up" => T = GateUpNth * Len(p.map) * 2
        /\ q.phase = "act" => T = GateUpNth * Len(p.map)
        /\ q.phase = "down" => T = DownNth * Len(p.map)
    BY TaskCounts
  <2> HIDE DEF q, p
  <2>2. QED BY ONLY <1>4, <1>8, <2>1, Zenon
<1> HIDE DEF q, j
<1>10. CASE q.phase = "copy"
  <2>1. PartAt(n, plan[n], call, m, l, Ran(q), {}, {}, {}, {}, {}, {})
    BY <1>6, <1>10, Progress
  <2>2. CopiedIn(m.in, Ran(q), p, call) => CopiedIn(m.in, Nat, p, call)
    BY ONLY <1>7, <1>9, <1>10, AllDone, Zenon
  <2>3. PartAt(n, plan[n], call, m, l, Nat, {}, {}, {}, {}, {}, {})
    BY ONLY <2>1, <2>2 DEF PartAt, p
  <2>4. PartIn(n, plan[n], call, m, l, j) /\ j.phase = "gate_up_ba"
    BY <1>2, <1>5, <1>10, <2>3, Progress
  <2>5. QED BY <1>1, <2>4 DEF Phases, j
<1>11. CASE q.phase = "gate_up_ba"
  <2>1. PartAt(n, plan[n], call, m, l, Nat, Ran(q), {}, {}, {}, {}, {})
    BY <1>6, <1>11, Progress
  <2>2. QuantizedIn(m.gate_up_ba, Ran(q), p, call) => QuantizedIn(m.gate_up_ba, Nat, p, call)
    BY ONLY <1>7, <1>9, <1>11, AllDone, Zenon
  <2>3. PartAt(n, plan[n], call, m, l, Nat, Nat, {}, {}, {}, {}, {})
    BY ONLY <2>1, <2>2 DEF PartAt, p
  <2>4. PartIn(n, plan[n], call, m, l, j) /\ j.phase = "gate_up"
    BY <1>2, <1>5, <1>11, <2>3, Progress
  <2>5. QED BY <1>1, <2>4 DEF Phases, j
<1>12. CASE q.phase = "gate_up"
  <2>1. PartAt(n, plan[n], call, m, l, Nat, Nat, Ran(q), {}, {}, {}, {})
    BY <1>6, <1>12, Progress
  <2>2. /\ UpIn(m.up, Ran(q), p, call, n) => UpIn(m.up, Nat, p, call, n)
        /\ GateIn(m.gate, Ran(q), {}, p, call, n) => GateIn(m.gate, Nat, {}, p, call, n)
    BY ONLY <1>7, <1>9, <1>12, AllDone, Zenon
  <2>3. PartAt(n, plan[n], call, m, l, Nat, Nat, Nat, {}, {}, {}, {})
    BY ONLY <2>1, <2>2 DEF PartAt, p
  <2>4. PartIn(n, plan[n], call, m, l, j) /\ j.phase = "act"
    BY <1>2, <1>5, <1>12, <2>3, Progress
  <2>5. QED BY <1>1, <2>4 DEF Phases, j
<1>13. CASE q.phase = "act"
  <2>1. PartAt(n, plan[n], call, m, l, Nat, Nat, Nat, Ran(q), {}, {}, {})
    BY <1>6, <1>13, Progress
  <2>2. GateIn(m.gate, Nat, Ran(q), p, call, n) => GateIn(m.gate, Nat, Nat, p, call, n)
    BY ONLY <1>7, <1>9, <1>13, AllDone, Zenon
  <2>3. PartAt(n, plan[n], call, m, l, Nat, Nat, Nat, Nat, {}, {}, {})
    BY ONLY <2>1, <2>2 DEF PartAt, p
  <2>4. PartIn(n, plan[n], call, m, l, j) /\ j.phase = "down_ba"
    BY <1>2, <1>5, <1>13, <2>3, Progress
  <2>5. QED BY <1>1, <2>4 DEF Phases, j
<1>14. CASE q.phase = "down_ba"
  <2>1. PartAt(n, plan[n], call, m, l, Nat, Nat, Nat, Nat, Ran(q), {}, {})
    BY <1>6, <1>14, Progress
  <2>2. ActedIn(m.down_ba, Ran(q), p, call, n) => ActedIn(m.down_ba, Nat, p, call, n)
    BY ONLY <1>7, <1>9, <1>14, AllDone, Zenon
  <2>3. PartAt(n, plan[n], call, m, l, Nat, Nat, Nat, Nat, Nat, {}, {})
    BY ONLY <2>1, <2>2 DEF PartAt, p
  <2>4. PartIn(n, plan[n], call, m, l, j) /\ j.phase = "down"
    BY <1>2, <1>5, <1>14, <2>3, Progress
  <2>5. QED BY <1>1, <2>4 DEF Phases, j
<1>15. CASE q.phase = "down"
  <2>1. PartAt(n, plan[n], call, m, l, Nat, Nat, Nat, Nat, Nat, Ran(q), {})
    BY <1>6, <1>15, Progress
  <2>2. DownIn(m.down, Ran(q), p, call, n) => DownIn(m.down, Nat, p, call, n)
    BY ONLY <1>7, <1>9, <1>15, AllDone, Zenon
  <2>3. PartAt(n, plan[n], call, m, l, Nat, Nat, Nat, Nat, Nat, Nat, {})
    BY ONLY <2>1, <2>2 DEF PartAt, p
  <2>4. PartIn(n, plan[n], call, m, l, j) /\ j.phase = "sum"
    BY <1>2, <1>5, <1>15, <2>3, Progress
  <2>5. QED BY <1>1, <2>4 DEF Phases, j
<1>16. CASE q.phase = "sum"
  <2>1. PartAt(n, plan[n], call, m, l, Nat, Nat, Nat, Nat, Nat, Nat, Ran(q))
    BY <1>6, <1>16, Progress
  <2>2. SumsIn(l, Ran(q), call, n) => SumsIn(l, Nat, call, n)
    BY ONLY <1>7, <1>9, <1>16, AllDone, Zenon
  <2>3. PartAt(n, plan[n], call, m, l, Nat, Nat, Nat, Nat, Nat, Nat, Nat)
    BY ONLY <2>1, <2>2 DEF PartAt, p
  <2>4. PartIn(n, plan[n], call, m, l, j) /\ j.phase = "done"
    BY <1>5, <1>16, <2>3, Progress
  <2>5. QED BY <1>1, <2>4 DEF Phases, j
<1>17. QED BY <1>6, <1>10, <1>11, <1>12, <1>13, <1>14, <1>15, <1>16 DEF Phases

-----------------------------------------------------------------------------
(* The invariant of a pass *)

Shapes ==
  /\ DOMAIN job = Numa /\ DOMAIN mem = Numa /\ DOMAIN local = Numa
  /\ DOMAIN output = 0..(MaxLen - 1)
  /\ \A n \in Numa : MemType(mem[n]) /\ DOMAIN local[n] = 0..(MaxLen - 1)

Stages ==
  /\ cpc \in {"idle", "parts", "merge", "return"}
  /\ cpc = "parts" => \A n \in Numa : job[n].phase \in Phases
  /\ cpc = "merge" => \A n \in Numa : job[n].phase = IF n = 0 THEN "merge" ELSE "none"
  /\ cpc \in {"idle", "return"} => \A n \in Numa : job[n].phase = "none"

CallInv == cpc # "idle" => CallOK

JobsInv == \A n \in Numa : JobOf(job[n], plan[n], call)

PartsInv ==
  cpc = "parts" => \A n \in Numa : PartIn(n, plan[n], call, mem[n], local[n], job[n])

Untouched ==
  cpc \in {"idle", "parts"} => \A t \in 0..(MaxLen - 1) : output[t] = SetToBag({Before})

(* merge_results goes through the tokens: those it has merged hold all the *)
(* parts, and those it has not are as the parts left them.                 *)
MergeInv ==
  cpc = "merge" =>
    /\ \A t \in 0..(call.qlen - 1), n \in Numa :
         n # 0 \/ t \notin Ran(job[0]) => local[n][t] = SetToBag(Summands(n, call.ids, t))
    /\ \A t \in 0..(MaxLen - 1) :
         output[t] = IF t < call.qlen /\ t \in Ran(job[0]) THEN Expected(t)
                                                          ELSE SetToBag({Before})

PassInv ==
  /\ Shapes /\ Stages /\ CallInv /\ JobsInv /\ PartsInv /\ Untouched /\ MergeInv
  /\ OutputWhole

LEMMA EmptyJob ==
  ASSUME NEW p, NEW c PROVE JobOf(NoJob, p, c) /\ Ran(NoJob) = {}
<1>1. /\ NoJob \in [phase : Phases \cup {"none", "merge"}, next : Nat, held : SUBSET Nat]
      /\ NoJob.phase = "none" /\ NoJob.next = 0 /\ NoJob.held = {}
  BY DEF NoJob
<1>2. Tasks(NoJob.phase, p, c) = 0
  BY <1>1, TaskCounts
<1>3. QED BY <1>1, <1>2 DEF JobOf, Ran

(* A job that begins *)
LEMMA FreshJob ==
  ASSUME NEW p, NEW c, Ordered(p, c), NEW ph \in Phases \cup {"none", "merge"}
  PROVE  LET j == [NoJob EXCEPT !.phase = ph]
         IN  JobOf(j, p, c) /\ j.phase = ph /\ Ran(j) = {}
<1> DEFINE j == [NoJob EXCEPT !.phase = ph]
<1>1. /\ j \in [phase : Phases \cup {"none", "merge"}, next : Nat, held : SUBSET Nat]
      /\ j.phase = ph /\ j.next = 0 /\ j.held = {}
  BY DEF NoJob
<1> HIDE DEF j
<1>2. Tasks(j.phase, p, c) \in Nat
  BY <1>1, TasksNat
<1>3. JobOf(j, p, c) /\ Ran(j) = {}
  BY <1>1, <1>2 DEF JobOf, Ran
<1>4. QED BY <1>1, <1>3 DEF j

(* A task is claimed: no more of the job has been run. *)
LEMMA ClaimedOne ==
  ASSUME NEW p, NEW c, NEW j, JobOf(j, p, c), Tasks(j.phase, p, c) \in Nat,
         j.next < Tasks(j.phase, p, c)
  PROVE  LET w == [j EXCEPT !.next = @ + 1, !.held = @ \cup {j.next}]
         IN  JobOf(w, p, c) /\ w.phase = j.phase /\ Ran(w) = Ran(j)
<1> DEFINE w == [j EXCEPT !.next = @ + 1, !.held = @ \cup {j.next}]
<1>1. /\ j \in [phase : Phases \cup {"none", "merge"}, next : Nat, held : SUBSET Nat]
      /\ \A k \in j.held : k < j.next
  BY DEF JobOf
<1>2. /\ w \in [phase : Phases \cup {"none", "merge"}, next : Nat, held : SUBSET Nat]
      /\ w.phase = j.phase /\ w.next = j.next + 1 /\ w.held = j.held \cup {j.next}
      /\ j.next \in Nat /\ j.held \in SUBSET Nat
  <2> DEFINE a == j.next + 1
             h == j.held \cup {j.next}
             v == [[j EXCEPT !.next = a] EXCEPT !.held = h]
  <2>1. j.next \in Nat /\ j.held \in SUBSET Nat
    BY <1>1
  <2>2. a \in Nat /\ h \in SUBSET Nat
    BY <2>1
  <2> HIDE DEF a, h
  <2>3. /\ v \in [phase : Phases \cup {"none", "merge"}, next : Nat, held : SUBSET Nat]
        /\ v.phase = j.phase /\ v.next = a /\ v.held = h
    BY <1>1, <2>2
  <2>4. QED BY <2>1, <2>3 DEF a, h
<1> HIDE DEF w
<1>3. JobOf(w, p, c)
  <2>1. w.next <= Tasks(w.phase, p, c)
    BY <1>2
  <2>2. \A k \in w.held : k < w.next
    BY <1>1, <1>2
  <2>3. QED BY <1>2, <2>1, <2>2 DEF JobOf
<1>4. Ran(w) = Ran(j)
  BY <1>1, <1>2 DEF Ran
<1>5. QED BY <1>2, <1>3, <1>4 DEF w

LEMMA SameRun ==
  ASSUME NEW n, NEW p, NEW c, NEW m, NEW loc, NEW j, NEW w,
         w.phase = j.phase, Ran(w) = Ran(j), PartIn(n, p, c, m, loc, j)
  PROVE  PartIn(n, p, c, m, loc, w)
BY DEF PartIn, Done

(* A part that has done nothing yet *)
LEMMA NothingDone ==
  ASSUME NEW n, NEW p, NEW c, NEW m, NEW loc
  PROVE  /\ PartAt(n, p, c, m, loc, {}, {}, {}, {}, {}, {}, {})
         /\ c.qlen = 1 => PartAt(n, p, c, m, loc, Nat, {}, {}, {}, {}, {}, {})
<1>1. /\ CopiedIn(m.in, {}, p, c) /\ (c.qlen = 1 => CopiedIn(m.in, Nat, p, c))
  BY DEF CopiedIn
<1>2. /\ QuantizedIn(m.gate_up_ba, {}, p, c) /\ UpIn(m.up, {}, p, c, n)
      /\ GateIn(m.gate, {}, {}, p, c, n) /\ ActedIn(m.down_ba, {}, p, c, n)
      /\ DownIn(m.down, {}, p, c, n) /\ SumsIn(loc, {}, c, n)
  BY DEF QuantizedIn, UpIn, GateIn, ActedIn, DownIn, SumsIn
<1>3. QED BY <1>1, <1>2 DEF PartAt

LEMMA PassInvInit == PassInit => PassInv
<1> SUFFICES ASSUME PassInit PROVE PassInv
  OBVIOUS
<1>1. MemType(Leftover)
  BY DEF MemType, Leftover, GateSlices, DownSlices
<1>2. Shapes
  BY <1>1 DEF PassInit, Shapes
<1>3. \A n \in Numa : job[n] = NoJob
  BY DEF PassInit
<1>4. Stages
  <2>1. NoJob.phase = "none"
    BY DEF NoJob
  <2>2. QED BY <1>3, <2>1 DEF PassInit, Stages
<1>5. JobsInv
  BY <1>3, EmptyJob DEF JobsInv
<1>6. CallInv /\ PartsInv /\ MergeInv /\ OutputWhole /\ Untouched
  BY DEF PassInit, CallInv, PartsInv, MergeInv, OutputWhole, Untouched
<1>7. QED BY <1>2, <1>4, <1>5, <1>6 DEF PassInv

LEMMA ForwardKeeps == PassInv /\ Forward => PassInv'
<1> SUFFICES ASSUME PassInv, Forward PROVE PassInv'
  OBVIOUS
<1>1. PICK qlen \in 1..MaxLen : \E ids \in [0..(qlen - 1) -> Routes] :
        /\ call' = [qlen |-> qlen, ids |-> ids, incremental |-> FALSE]
        /\ plan' = [n \in Numa |-> IF qlen > 1 THEN PrefillPlan(ids) ELSE DecodePlan(ids)]
        /\ job' = [n \in Numa |-> [NoJob EXCEPT !.phase = IF qlen > 1 THEN "copy" ELSE "gate_up_ba"]]
  BY DEF Forward
<1>2. PICK ids \in [0..(qlen - 1) -> Routes] :
        /\ call' = [qlen |-> qlen, ids |-> ids, incremental |-> FALSE]
        /\ plan' = [n \in Numa |-> IF qlen > 1 THEN PrefillPlan(ids) ELSE DecodePlan(ids)]
        /\ job' = [n \in Numa |-> [NoJob EXCEPT !.phase = IF qlen > 1 THEN "copy" ELSE "gate_up_ba"]]
  BY <1>1
<1>3. /\ cpc = "idle" /\ cpc' = "parts" /\ mem' = mem /\ local' = local /\ output' = output
      /\ call'.qlen = qlen /\ call'.ids = ids
  BY <1>2 DEF Forward
<1>4. MaxLen \in Nat
  BY Constants
<1>5. \A n \in Numa : PlanOK(plan'[n], ids)
  <2>1. CASE qlen > 1
    BY <1>2, <2>1, PrefillOK
  <2>2. CASE ~(qlen > 1)
    <3>1. qlen = 1
      BY <1>4, <2>2
    <3>2. PlanOK(DecodePlan(ids), ids)
      BY ONLY <3>1, ids \in [0..(qlen - 1) -> Routes], DecodeOK
    <3>3. QED BY <1>2, <2>2, <3>2
  <2>3. QED BY <2>1, <2>2
<1>6. CallOK'
  BY <1>3, <1>5 DEF CallOK
<1>7. \A n \in Numa : Ordered(plan'[n], call')
  BY <1>3, <1>5 DEF Ordered
<1>8. \A n \in Numa : /\ JobOf(job'[n], plan'[n], call') /\ Ran(job'[n]) = {}
                      /\ job'[n].phase = IF qlen > 1 THEN "copy" ELSE "gate_up_ba"
  <2> DEFINE ph == IF qlen > 1 THEN "copy" ELSE "gate_up_ba"
  <2>1. ph \in Phases \cup {"none", "merge"}
    BY DEF Phases
  <2>2. \A n \in Numa : job'[n] = [NoJob EXCEPT !.phase = ph]
    BY <1>2
  <2> HIDE DEF ph
  <2>3. \A n \in Numa : JobOf(job'[n], plan'[n], call') /\ Ran(job'[n]) = {} /\ job'[n].phase = ph
    <3> DEFINE j == [NoJob EXCEPT !.phase = ph]
    <3>1. ASSUME NEW n \in Numa
          PROVE  JobOf(j, plan'[n], call') /\ Ran(j) = {} /\ j.phase = ph
      <4>1. Ordered(plan'[n], call')
        BY <1>7
      <4>2. QED BY ONLY <2>1, <4>1, FreshJob, Zenon
    <3> HIDE DEF j
    <3>2. \A n \in Numa : job'[n] = j
      BY <2>2 DEF j
    <3>3. QED BY ONLY <3>1, <3>2
  <2>4. QED BY <2>3 DEF ph
<1>9. ASSUME NEW n \in Numa
      PROVE  PartIn(n, plan'[n], call', mem'[n], local'[n], job'[n])
  <2>1. CASE qlen > 1
    BY <1>8, <2>1, NothingDone, Progress
  <2>2. CASE ~(qlen > 1)
    <3>1. call'.qlen = 1
      BY <1>3, <1>4, <2>2
    <3>2. PartAt(n, plan'[n], call', mem'[n], local'[n], Nat, {}, {}, {}, {}, {}, {})
      BY <3>1, NothingDone
    <3>3. QED BY <1>8, <2>2, <3>2, Progress
  <2>3. QED BY <2>1, <2>2
<1>10. Shapes'
  <2>1. DOMAIN job' = Numa
    BY <1>2
  <2>2. QED BY <1>3, <2>1 DEF PassInv, Shapes
<1>11. Stages'
  BY <1>3, <1>8 DEF Stages, Phases
<1>12. JobsInv' /\ PartsInv'
  BY <1>8, <1>9 DEF JobsInv, PartsInv
<1>13. Untouched'
  BY <1>3 DEF PassInv, Untouched
<1>14. CallInv' /\ MergeInv' /\ OutputWhole'
  BY <1>3, <1>6 DEF CallInv, MergeInv, OutputWhole
<1>15. QED BY <1>10, <1>11, <1>12, <1>13, <1>14 DEF PassInv

LEMMA SameCall ==
  ASSUME call' = call
  PROVE  \A t : Expected(t)' = Expected(t)
BY DEF Expected

LEMMA TaskCountNat ==
  ASSUME CallOK, NEW n \in Numa, JobOf(job[n], plan[n], call)
  PROVE  TaskCount(n) = Tasks(job[n].phase, plan[n], call) /\ TaskCount(n) \in Nat
<1>1. Ordered(plan[n], call)
  BY DEF CallOK, Ordered
<1>2. job[n].phase \in Phases \cup {"none", "merge"}
  BY DEF JobOf
<1>3. QED BY <1>1, <1>2, TasksNat, TaskCountIs

LEMMA ClaimKeeps == \A n \in Numa : PassInv /\ Claim(n) => PassInv'
<1> SUFFICES ASSUME NEW n \in Numa, PassInv, Claim(n) PROVE PassInv'
  OBVIOUS
<1>1. /\ job' = [job EXCEPT ![n].next = @ + 1, ![n].held = @ \cup {job[n].next}]
      /\ cpc' = cpc /\ call' = call /\ plan' = plan /\ mem' = mem
      /\ local' = local /\ output' = output /\ job[n].next < TaskCount(n)
  BY DEF Claim
<1>2. /\ DOMAIN job = Numa /\ JobOf(job[n], plan[n], call)
      /\ \A m \in Numa : JobOf(job[m], plan[m], call)
  BY DEF PassInv, Shapes, JobsInv
<1>3. /\ DOMAIN job' = Numa /\ \A m \in Numa \ {n} : job'[m] = job[m]
      /\ job'[n] = [job[n] EXCEPT !.next = @ + 1, !.held = @ \cup {job[n].next}]
  BY <1>1, <1>2
<1>4. cpc # "idle" /\ CallOK
  <2>1. CASE cpc = "idle"
    <3>1. job[n].phase = "none"
      BY <2>1 DEF PassInv, Stages
    <3>2. TaskCount(n) = 0 /\ job[n].next \in Nat
      BY <1>2, <3>1 DEF TaskCount, JobOf
    <3>3. QED BY <1>1, <3>2
  <2>2. QED BY <2>1 DEF PassInv, CallInv
<1>5. /\ Tasks(job[n].phase, plan[n], call) \in Nat
      /\ job[n].next < Tasks(job[n].phase, plan[n], call)
  BY <1>1, <1>2, <1>4, TaskCountNat
<1>6. JobOf(job'[n], plan[n], call) /\ job'[n].phase = job[n].phase /\ Ran(job'[n]) = Ran(job[n])
  <2> DEFINE j == job[n]
             w == [j EXCEPT !.next = @ + 1, !.held = @ \cup {j.next}]
  <2>1. JobOf(w, plan[n], call) /\ w.phase = j.phase /\ Ran(w) = Ran(j)
    BY ONLY <1>2, <1>5, ClaimedOne, Zenon
  <2>2. job'[n] = w
    BY <1>3
  <2> HIDE DEF j, w
  <2>3. QED BY <2>1, <2>2 DEF j
<1>7. \A m \in Numa : /\ JobOf(job'[m], plan[m], call) /\ job'[m].phase = job[m].phase
                      /\ Ran(job'[m]) = Ran(job[m])
  BY <1>2, <1>3, <1>6
<1>8. Shapes'
  BY <1>1, <1>3 DEF PassInv, Shapes
<1>9. Stages'
  BY <1>1, <1>7 DEF PassInv, Stages
<1>10. CallInv' /\ JobsInv' /\ Untouched'
  BY <1>1, <1>7 DEF PassInv, CallInv, CallOK, JobsInv, Untouched
<1>11. PartsInv'
  <2>1. SUFFICES ASSUME cpc = "parts", NEW m \in Numa
                 PROVE  PartIn(m, plan[m], call, mem[m], local[m], job'[m])
    BY <1>1 DEF PartsInv
  <2>2. PartIn(m, plan[m], call, mem[m], local[m], job[m])
    BY <2>1 DEF PassInv, PartsInv
  <2>3. QED BY <1>7, <2>2, SameRun
<1>12. MergeInv'
  <2>1. Ran(job'[0]) = Ran(job[0])
    BY <1>7, Constants DEF Numa
  <2>2. \A t : Expected(t)' = Expected(t)
    BY <1>1, SameCall
  <2>3. QED BY <1>1, <2>1, <2>2 DEF PassInv, MergeInv
<1>13. OutputWhole'
  BY <1>1, SameCall DEF PassInv, OutputWhole
<1>14. QED BY <1>8, <1>9, <1>10, <1>11, <1>12, <1>13 DEF PassInv

LEMMA AdvanceKeeps == \A n \in Numa : PassInv /\ Advance(n) => PassInv'
<1> SUFFICES ASSUME NEW n \in Numa, PassInv, Advance(n) PROVE PassInv'
  OBVIOUS
<1> DEFINE j == [NoJob EXCEPT !.phase = After(job[n].phase)]
<1>1. /\ job' = [job EXCEPT ![n] = j] /\ JobOver(n)
      /\ job[n].phase \notin {"none", "done", "merge"}
      /\ cpc' = cpc /\ call' = call /\ plan' = plan /\ mem' = mem
      /\ local' = local /\ output' = output
  BY DEF Advance
<1>2. DOMAIN job = Numa /\ \A m \in Numa : JobOf(job[m], plan[m], call)
  BY DEF PassInv, Shapes, JobsInv
<1>3. /\ DOMAIN job' = Numa /\ job'[n] = j
      /\ \A m \in Numa \ {n} : job'[m] = job[m]
  BY <1>1, <1>2
<1>4. cpc = "parts" /\ job[n].phase \in Phases \ {"done"}
  BY <1>1 DEF PassInv, Stages
<1>5. CallOK /\ PartIn(n, plan[n], call, mem[n], local[n], job[n])
  BY <1>4 DEF PassInv, CallInv, PartsInv
<1>6. j.phase \in Phases /\ PartIn(n, plan[n], call, mem[n], local[n], j)
  BY <1>1, <1>2, <1>4, <1>5, NextJob
<1>7. JobOf(j, plan[n], call)
  <2>1. Ordered(plan[n], call)
    BY <1>5 DEF CallOK, Ordered
  <2>2. After(job[n].phase) \in Phases \cup {"none", "merge"}
    BY <1>4 DEF Phases, After
  <2>3. QED BY <2>1, <2>2, FreshJob
<1> HIDE DEF j
<1>8. Shapes'
  BY <1>1, <1>3 DEF PassInv, Shapes
<1>9. Stages'
  BY <1>1, <1>3, <1>4, <1>6 DEF PassInv, Stages
<1>10. CallInv' /\ JobsInv' /\ Untouched'
  BY <1>1, <1>2, <1>3, <1>7 DEF PassInv, CallInv, CallOK, JobsInv, Untouched
<1>11. PartsInv'
  BY <1>1, <1>3, <1>6 DEF PassInv, PartsInv
<1>12. MergeInv' /\ OutputWhole'
  BY <1>1, <1>4 DEF MergeInv, OutputWhole
<1>13. QED BY <1>8, <1>9, <1>10, <1>11, <1>12 DEF PassInv

LEMMA NodeZero == 0 \in Numa
BY Constants DEF Numa

(* The parts are done, whichever way they are merged. *)
LEMMA StartMergeKeeps == PassInv /\ StartMerge => PassInv'
<1> SUFFICES ASSUME PassInv, StartMerge PROVE PassInv'
  OBVIOUS
<1> DEFINE j == [NoJob EXCEPT !.phase = "merge"]
<1>1. /\ cpc = "parts" /\ \A n \in Numa : job[n].phase = "done"
      /\ cpc' = "merge" /\ plan' = plan /\ mem' = mem /\ local' = local /\ output' = output
      /\ job' = [n \in Numa |-> IF n = 0 THEN j ELSE NoJob]
  BY DEF StartMerge
<1>2. CallOK
  BY <1>1 DEF PassInv, CallInv
<1>3. call'.qlen = call.qlen /\ call'.ids = call.ids
  <2>1. PICK inc \in BOOLEAN : call' = [call EXCEPT !.incremental = inc]
    BY DEF StartMerge
  <2>2. QED BY <2>1
<1>4. CallOK' /\ \A n \in Numa : Ordered(plan'[n], call')
  BY <1>1, <1>2, <1>3 DEF CallOK, Ordered
<1>5. j.phase = "merge" /\ Ran(j) = {} /\ \A n \in Numa : JobOf(j, plan'[n], call')
  <2>1. ASSUME NEW n \in Numa
        PROVE  JobOf(j, plan'[n], call') /\ Ran(j) = {} /\ j.phase = "merge"
    <3>1. Ordered(plan'[n], call') /\ "merge" \in Phases \cup {"none", "merge"}
      BY <1>4
    <3>2. QED BY ONLY <3>1, FreshJob, Zenon
  <2>2. QED BY <2>1, NodeZero
<1> HIDE DEF j
<1>6. /\ DOMAIN job' = Numa /\ job'[0] = j /\ \A n \in Numa \ {0} : job'[n] = NoJob
      /\ NoJob.phase = "none"
  BY <1>1, NodeZero DEF NoJob
<1>7. Shapes'
  BY <1>1, <1>6 DEF PassInv, Shapes
<1>8. Stages'
  BY <1>1, <1>5, <1>6 DEF Stages
<1>9. JobsInv'
  BY <1>5, <1>6, EmptyJob DEF JobsInv
<1>10. CallInv' /\ PartsInv' /\ Untouched' /\ OutputWhole'
  BY <1>1, <1>4 DEF CallInv, PartsInv, Untouched, OutputWhole
<1>11. MergeInv'
  <2>1. ASSUME NEW t \in 0..(call.qlen - 1), NEW n \in Numa
        PROVE  local[n][t] = SetToBag(Summands(n, call.ids, t))
    <3>1. PartIn(n, plan[n], call, mem[n], local[n], job[n]) /\ job[n].phase = "done"
      BY <1>1 DEF PassInv, PartsInv
    <3>2. SumsIn(local[n], Nat, call, n)
      BY <3>1, Progress DEF PartAt
    <3>3. t \in Nat
      OBVIOUS
    <3>4. QED BY <3>2, <3>3 DEF SumsIn
  <2>2. \A t \in 0..(MaxLen - 1) : output[t] = SetToBag({Before})
    BY <1>1 DEF PassInv, Untouched
  <2>3. QED BY <1>1, <1>3, <1>5, <1>6, <2>1, <2>2 DEF MergeInv
<1>12. QED BY <1>7, <1>8, <1>9, <1>10, <1>11 DEF PassInv

(* When the merging is over, every token has been merged. *)
LEMMA EndMergeKeeps == PassInv /\ EndMerge => PassInv'
<1> SUFFICES ASSUME PassInv, EndMerge PROVE PassInv'
  OBVIOUS
<1>1. /\ cpc = "merge" /\ JobOver(0) /\ cpc' = "return"
      /\ job' = [n \in Numa |-> NoJob]
      /\ call' = call /\ plan' = plan /\ mem' = mem /\ local' = local /\ output' = output
  BY DEF EndMerge
<1>2. CallOK /\ JobOf(job[0], plan[0], call) /\ job[0].phase = "merge"
  BY <1>1, NodeZero DEF PassInv, CallInv, JobsInv, Stages
<1>3. call.qlen \in Nat /\ MaxLen \in Nat
  BY <1>2, Constants DEF CallOK
<1>4. 0..(call.qlen - 1) \subseteq Ran(job[0])
  <2>1. TaskCount(0) = call.qlen
    BY <1>2 DEF TaskCount
  <2>2. job[0].held = {} /\ job[0].next >= call.qlen /\ job[0].next \in Nat
    BY <1>1, <1>2, <2>1 DEF JobOver, JobOf
  <2>3. QED BY <1>3, <2>2 DEF Ran
<1>5. Shapes'
  BY <1>1 DEF PassInv, Shapes
<1>6. Stages' /\ JobsInv'
  <2>1. NoJob.phase = "none" /\ \A n \in Numa : job'[n] = NoJob
    BY <1>1 DEF NoJob
  <2>2. QED BY <1>1, <2>1, EmptyJob DEF Stages, JobsInv
<1>7. CallInv' /\ PartsInv' /\ Untouched' /\ MergeInv'
  BY <1>1, <1>2 DEF CallInv, CallOK, PartsInv, Untouched, MergeInv
<1>8. OutputWhole'
  <2>1. ASSUME NEW t \in 0..(MaxLen - 1)
        PROVE  output[t] = IF t < call.qlen THEN Expected(t) ELSE SetToBag({Before})
    <3>1. output[t] = IF t < call.qlen /\ t \in Ran(job[0]) THEN Expected(t) ELSE SetToBag({Before})
      BY <1>1 DEF PassInv, MergeInv
    <3>2. t < call.qlen => t \in Ran(job[0])
      BY <1>3, <1>4
    <3>3. QED BY <3>1, <3>2
  <2>2. \A t : Expected(t)' = Expected(t)
    BY <1>1, SameCall
  <2>3. QED BY <1>1, <2>1, <2>2 DEF OutputWhole
<1>9. QED BY <1>5, <1>6, <1>7, <1>8 DEF PassInv

LEMMA ReturnKeeps == PassInv /\ Return => PassInv'
<1> SUFFICES ASSUME PassInv, Return PROVE PassInv'
  OBVIOUS
<1>1. /\ cpc = "return" /\ cpc' = "idle" /\ job' = job
      /\ mem' = [n \in Numa |-> Leftover]
      /\ local' = [n \in Numa |-> [t \in 0..(MaxLen - 1) |-> SetToBag({Junk})]]
      /\ output' = [t \in 0..(MaxLen - 1) |-> SetToBag({Before})]
  BY DEF Return
<1>2. MemType(Leftover)
  BY DEF MemType, Leftover, GateSlices, DownSlices
<1>3. Shapes'
  BY <1>1, <1>2 DEF PassInv, Shapes
<1>4. \A n \in Numa : job[n].phase = "none" /\ JobOf(job[n], plan[n], call)
  BY <1>1 DEF PassInv, Stages, JobsInv
<1>5. Stages'
  BY <1>1, <1>4 DEF Stages
<1>6. JobsInv'
  <2>1. \A n \in Numa : Tasks(job[n].phase, plan'[n], call') = 0
                        /\ Tasks(job[n].phase, plan[n], call) = 0
    BY <1>4, TaskCounts
  <2>2. QED BY <1>1, <1>4, <2>1 DEF JobsInv, JobOf
<1>7. CallInv' /\ PartsInv' /\ Untouched' /\ MergeInv' /\ OutputWhole'
  BY <1>1 DEF CallInv, PartsInv, Untouched, MergeInv, OutputWhole
<1>8. QED BY <1>3, <1>5, <1>6, <1>7 DEF PassInv

LEMMA PassStutters == PassInv /\ UNCHANGED passVars => PassInv'
<1> SUFFICES ASSUME PassInv, UNCHANGED passVars PROVE PassInv'
  OBVIOUS
<1>1. /\ cpc' = cpc /\ call' = call /\ plan' = plan /\ job' = job
      /\ mem' = mem /\ local' = local /\ output' = output
  BY DEF passVars
<1>2. Shapes' /\ Stages' /\ CallInv' /\ JobsInv' /\ PartsInv' /\ Untouched'
  BY <1>1 DEF PassInv, Shapes, Stages, CallInv, CallOK, JobsInv, PartsInv, Untouched
<1>3. MergeInv' /\ OutputWhole'
  BY <1>1, SameCall DEF PassInv, MergeInv, OutputWhole
<1>4. QED BY <1>2, <1>3 DEF PassInv

LEMMA WorkIs ==
  ASSUME NEW n \in Numa, Work(n)
  PROVE  \E k \in job[n].held :
           /\ job' = [job EXCEPT ![n] = [job[n] EXCEPT !.held = @ \ {k}]]
           /\ mem' = [mem EXCEPT ![n] = Effect(n, mem[n], k)]
           /\ job[n].phase = "merge" =>
                /\ local' = [local EXCEPT ![0] = [local[0] EXCEPT ![k] = Merged(k)]]
                /\ output' = [output EXCEPT ![k] = Merged(k)]
           /\ job[n].phase # "merge" =>
                /\ \/ local' = [local EXCEPT ![n] = SumEffect(n, k)]
                   \/ local' = local /\ SumEffect(n, k) = local[n]
                /\ output' = output
           /\ cpc' = cpc /\ call' = call /\ plan' = plan
<1>1. PICK k \in job[n].held :
        /\ job' = [job EXCEPT ![n].held = @ \ {k}]
        /\ mem' = [mem EXCEPT ![n] =
             CASE job[n].phase = "copy" -> CopyInput(n, mem[n], k)
               [] job[n].phase = "gate_up_ba" -> QuantizeInput(n, mem[n], k)
               [] job[n].phase = "gate_up" -> GateUp(n, mem[n], k)
               [] job[n].phase = "act" -> Activate(n, mem[n], k)
               [] job[n].phase = "down_ba" -> QuantizeDown(n, mem[n], k)
               [] job[n].phase = "down" -> DownGemm(n, mem[n], k)
               [] OTHER -> mem[n]]
        /\ local' = CASE job[n].phase = "sum" -> [local EXCEPT ![n][k] = Weighted(n, mem[n], k)]
                      [] job[n].phase = "merge" -> [local EXCEPT ![0][k] = Merged(k)]
                      [] OTHER -> local
        /\ output' = IF job[n].phase = "merge" THEN [output EXCEPT ![k] = Merged(k)] ELSE output
        /\ UNCHANGED <<cpc, call, plan>>
  BY DEF Work
<1>2. job' = [job EXCEPT ![n] = [job[n] EXCEPT !.held = @ \ {k}]]
  BY <1>1
<1>3. mem' = [mem EXCEPT ![n] = Effect(n, mem[n], k)]
  BY <1>1 DEF Effect
<1>4. job[n].phase = "merge" =>
        /\ local' = [local EXCEPT ![0] = [local[0] EXCEPT ![k] = Merged(k)]]
        /\ output' = [output EXCEPT ![k] = Merged(k)]
  BY <1>1
<1>5. job[n].phase # "merge" =>
        /\ \/ local' = [local EXCEPT ![n] = SumEffect(n, k)]
           \/ local' = local /\ SumEffect(n, k) = local[n]
        /\ output' = output
  BY <1>1 DEF SumEffect
<1>6. cpc' = cpc /\ call' = call /\ plan' = plan
  BY <1>1
<1>7. QED BY <1>1, <1>2, <1>3, <1>4, <1>5, <1>6

LEMMA WorkKeeps == \A n \in Numa : PassInv /\ Work(n) => PassInv'
<1> SUFFICES ASSUME NEW n \in Numa, PassInv, Work(n) PROVE PassInv'
  OBVIOUS
<1>1. PICK k \in job[n].held :
           /\ job' = [job EXCEPT ![n] = [job[n] EXCEPT !.held = @ \ {k}]]
           /\ mem' = [mem EXCEPT ![n] = Effect(n, mem[n], k)]
           /\ job[n].phase = "merge" =>
                /\ local' = [local EXCEPT ![0] = [local[0] EXCEPT ![k] = Merged(k)]]
                /\ output' = [output EXCEPT ![k] = Merged(k)]
           /\ job[n].phase # "merge" =>
                /\ \/ local' = [local EXCEPT ![n] = SumEffect(n, k)]
                   \/ local' = local /\ SumEffect(n, k) = local[n]
                /\ output' = output
           /\ cpc' = cpc /\ call' = call /\ plan' = plan
  BY WorkIs
<1> DEFINE q == job[n]
           j == [q EXCEPT !.held = @ \ {k}]
           w == Effect(n, mem[n], k)
           loc == SumEffect(n, k)
<1>2. /\ DOMAIN job = Numa /\ DOMAIN mem = Numa /\ DOMAIN local = Numa
      /\ DOMAIN output = 0..(MaxLen - 1)
      /\ \A m \in Numa : MemType(mem[m]) /\ DOMAIN local[m] = 0..(MaxLen - 1)
      /\ \A m \in Numa : JobOf(job[m], plan[m], call)
  BY DEF PassInv, Shapes, JobsInv
<1>3. /\ DOMAIN job' = Numa /\ job'[n] = j /\ \A m \in Numa \ {n} : job'[m] = job[m]
      /\ DOMAIN mem' = Numa /\ mem'[n] = w /\ \A m \in Numa \ {n} : mem'[m] = mem[m]
      /\ cpc' = cpc /\ call' = call /\ plan' = plan
  BY <1>1, <1>2
<1>4. cpc \in {"parts", "merge"} /\ CallOK
  <2>1. q.phase # "none"
    <3>1. SUFFICES ASSUME q.phase = "none" PROVE FALSE
      OBVIOUS
    <3>2. Tasks(q.phase, plan[n], call) = 0
      BY <3>1, TaskCounts
    <3>3. JobOf(q, plan[n], call) /\ k \in q.held
      BY <1>2
    <3> HIDE DEF q
    <3>4. k < q.next /\ k \in Nat /\ q.next \in Nat /\ q.next <= 0
      BY <3>2, <3>3 DEF JobOf
    <3>5. QED BY <3>4
  <2>2. QED BY <2>1 DEF PassInv, Stages, CallInv
<1>5. /\ j.phase = q.phase /\ j.next = q.next /\ j.held = q.held \ {k}
      /\ Ran(j) = Ran(q) \cup {k} /\ k \notin Ran(q)
      /\ k \in Nat /\ k < Tasks(q.phase, plan[n], call)
  <2>1. JobOf(job[n], plan[n], call)
    BY <1>2
  <2>2. QED BY ONLY <1>4, <2>1, n \in Numa, k \in job[n].held, RanOneMore, Zenon
<1>6. JobOf(j, plan[n], call)
  <2>1. JobOf(q, plan[n], call) /\ j \in [phase : Phases \cup {"none", "merge"}, next : Nat, held : SUBSET Nat]
    BY <1>2 DEF JobOf
  <2> HIDE DEF q, j
  <2>2. QED BY <1>5, <2>1 DEF JobOf
<1>7. JobsInv'
  <2> HIDE DEF j
  <2>1. QED BY <1>2, <1>3, <1>6 DEF JobsInv
<1>8. CallInv'
  BY <1>3, <1>4 DEF CallInv, CallOK
<1>9. \A t : Expected(t)' = Expected(t)
  BY <1>3, SameCall
<1>10. Stages'
  <2>1. \A m \in Numa : job'[m].phase = job[m].phase
    BY <1>3, <1>5
  <2>2. QED BY <1>3, <2>1 DEF PassInv, Stages
<1>11. CASE cpc = "parts"
  <2>1. q.phase \in Phases /\ PartIn(n, plan[n], call, mem[n], local[n], q)
    BY <1>11 DEF PassInv, Stages, PartsInv
  <2>2. /\ MemType(w) /\ DOMAIN loc = 0..(MaxLen - 1)
        /\ PartIn(n, plan[n], call, w, loc, j)
    <3>1. /\ JobOf(job[n], plan[n], call) /\ MemType(mem[n])
          /\ DOMAIN local[n] = 0..(MaxLen - 1)
      BY <1>2
    <3>2. QED BY ONLY <1>4, <2>1, <3>1, n \in Numa, k \in job[n].held, RunTask, Zenon
  <2>3. q.phase # "merge"
    BY <2>1 DEF Phases
  <2>4. /\ DOMAIN local' = Numa /\ local'[n] = loc /\ \A m \in Numa \ {n} : local'[m] = local[m]
        /\ output' = output
    <3> HIDE DEF loc
    <3>1. /\ \/ local' = [local EXCEPT ![n] = loc]
             \/ local' = local /\ loc = local[n]
          /\ output' = output
      BY <1>1, <2>3 DEF loc
    <3>2. QED BY <1>2, <3>1
  <2> HIDE DEF j, w, loc
  <2>5. Shapes'
    BY <1>2, <1>3, <2>2, <2>4 DEF Shapes
  <2>6. PartsInv'
    BY <1>3, <2>2, <2>4 DEF PassInv, PartsInv
  <2>7. Untouched' /\ MergeInv' /\ OutputWhole'
    BY <1>3, <1>11, <2>4 DEF PassInv, Untouched, MergeInv, OutputWhole
  <2>8. QED BY <1>7, <1>8, <1>10, <2>5, <2>6, <2>7 DEF PassInv
<1>12. CASE cpc = "merge"
  <2>1. q.phase = IF n = 0 THEN "merge" ELSE "none"
    BY <1>12 DEF PassInv, Stages
  <2>2. n = 0 /\ q.phase = "merge"
    <3>1. q.phase # "none"
      <4>1. q.phase = "none" => Tasks(q.phase, plan[n], call) = 0
        BY TaskCounts
      <4> HIDE DEF q
      <4>2. QED BY <1>5, <4>1
    <3>2. QED BY <2>1, <3>1
  <2>3. k \in Nat /\ k < call.qlen /\ k \in 0..(MaxLen - 1) /\ k \in 0..(call.qlen - 1)
    <3>1. Tasks(q.phase, plan[n], call) = call.qlen
      BY <2>2, TaskCounts
    <3>2. call.qlen \in 1..MaxLen /\ MaxLen \in Nat
      BY <1>4, Constants DEF CallOK
    <3> HIDE DEF q
    <3>3. QED BY <1>5, <3>1, <3>2
  <2>4. /\ \A t \in 0..(call.qlen - 1), m \in Numa :
             m # 0 \/ t \notin Ran(q) => local[m][t] = SetToBag(Summands(m, call.ids, t))
        /\ \A t \in 0..(MaxLen - 1) :
             output[t] = IF t < call.qlen /\ t \in Ran(q) THEN Expected(t) ELSE SetToBag({Before})
    BY <1>12, <2>2 DEF PassInv, MergeInv
  <2> HIDE DEF q, j
  <2>5. Merged(k) = Expected(k)
    <3>1. /\ \A m \in Numa : local[m][k] = SetToBag(Summands(m, call.ids, k))
          /\ output[k] = SetToBag({Before})
      BY <1>5, <2>3, <2>4
    <3>2. QED BY ONLY <1>4, <2>3, <3>1, MergedIs, Zenon
  <2>6. w = mem[n]
    BY <2>2, EffectOf DEF q
  <2> HIDE DEF w
  <2>7. /\ local' = [local EXCEPT ![0] = [local[0] EXCEPT ![k] = Merged(k)]]
        /\ output' = [output EXCEPT ![k] = Merged(k)]
    BY <1>1, <2>2 DEF q
  <2>8. /\ DOMAIN local' = Numa /\ \A m \in Numa \ {0} : local'[m] = local[m]
        /\ DOMAIN local'[0] = 0..(MaxLen - 1)
        /\ \A t \in 0..(MaxLen - 1) : t # k => local'[0][t] = local[0][t]
        /\ DOMAIN output' = 0..(MaxLen - 1) /\ output'[k] = Merged(k)
        /\ \A t \in 0..(MaxLen - 1) : t # k => output'[t] = output[t]
    BY <1>2, <2>3, <2>7, NodeZero
  <2>9. Shapes'
    <3>1. \A m \in Numa : DOMAIN local'[m] = 0..(MaxLen - 1)
      BY <1>2, <2>8
    <3>2. \A m \in Numa : mem'[m] = mem[m]
      BY <1>3, <2>6
    <3>3. QED BY <1>2, <1>3, <2>8, <3>1, <3>2 DEF Shapes
  <2>10. MergeInv'
    <3>1. Ran(job'[0]) = Ran(q) \cup {k}
      BY <1>3, <1>5, <2>2
    <3>2. call.qlen \in 1..MaxLen /\ MaxLen \in Nat
      BY <1>4, Constants DEF CallOK
    <3>3. ASSUME NEW t \in 0..(call.qlen - 1), NEW m \in Numa, m # 0 \/ t \notin Ran(q) \cup {k}
          PROVE  local'[m][t] = SetToBag(Summands(m, call.ids, t))
      <4>1. local[m][t] = SetToBag(Summands(m, call.ids, t))
        BY <2>4, <3>3
      <4>2. CASE m = 0
        <5>1. t # k /\ t \in 0..(MaxLen - 1)
          BY <3>2, <3>3, <4>2
        <5>2. QED BY <2>8, <4>1, <4>2, <5>1
      <4>3. CASE m # 0
        BY <2>8, <4>1, <4>3
      <4>4. QED BY <4>2, <4>3
    <3>4. ASSUME NEW t \in 0..(MaxLen - 1)
          PROVE  output'[t] = IF t < call.qlen /\ t \in Ran(q) \cup {k} THEN Expected(t)
                                                                        ELSE SetToBag({Before})
      <4>1. CASE t = k
        BY <2>3, <2>5, <2>8, <4>1
      <4>2. CASE t # k
        BY <2>4, <2>8, <4>2
      <4>3. QED BY <4>1, <4>2
    <3>5. QED BY <1>3, <1>9, <3>1, <3>3, <3>4 DEF MergeInv
  <2>11. PartsInv' /\ Untouched' /\ OutputWhole'
    BY <1>3, <1>12 DEF PartsInv, Untouched, OutputWhole
  <2>12. QED BY <1>7, <1>8, <1>10, <2>9, <2>10, <2>11 DEF PassInv
<1>13. QED BY <1>4, <1>11, <1>12

LEMMA PassInvNext == PassInv /\ [PassNext]_passVars => PassInv'
<1> SUFFICES ASSUME PassInv, [PassNext]_passVars PROVE PassInv'
  OBVIOUS
<1>1. CASE Forward
  BY <1>1, ForwardKeeps
<1>2. CASE StartMerge
  BY <1>2, StartMergeKeeps
<1>3. CASE EndMerge
  BY <1>3, EndMergeKeeps
<1>4. CASE Return
  BY <1>4, ReturnKeeps
<1>5. ASSUME NEW n \in Numa, PartStep(n) PROVE PassInv'
  BY <1>5, ClaimKeeps, WorkKeeps, AdvanceKeeps DEF PartStep
<1>6. CASE UNCHANGED passVars
  BY <1>6, PassStutters
<1>7. QED BY <1>1, <1>2, <1>3, <1>4, <1>5, <1>6 DEF PassNext, CallStep

(* Each token's output is the sum over the parts of the weighted sum of     *)
(* what its own experts compute from its own input, and the rows past the  *)
(* batch keep what they held: the jobs that share memory without a lock,   *)
(* the leftovers in the arenas and the order of the tasks do not show.     *)
THEOREM OutputWholeSafe == PassSpec => []OutputWhole
<1>1. PassInv => OutputWhole
  BY DEF PassInv
<1>2. QED BY <1>1, PassInvInit, PassInvNext, PTL DEF PassSpec
=============================================================================
