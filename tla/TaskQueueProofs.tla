-------------------------- MODULE TaskQueueProofs ---------------------------
(***************************************************************************)
(* Machine-checked theorems about TaskQueue, for every set of clients and  *)
(* every heap.                                                             *)
(***************************************************************************)
EXTENDS TaskQueue, FiniteSetTheorems, TLAPS

(* The node that precedes the oldest unfinished one, and in general the    *)
(* one that precedes queue[k].                                             *)
First == IF wpc = "advance" THEN wnext ELSE head
Pred(k) == IF k = 1 THEN First ELSE queue[k - 1]

(* The list is linked in exchange order, except where an enqueue has       *)
(* swapped the tail and has not yet stored prev->next.                     *)
LinkInv ==
  /\ \A k \in 1..Len(queue) :
       \/ next[Pred(k)] = queue[k]
       \/ next[Pred(k)] = Null
  /\ tail = Pred(Len(queue) + 1)
  /\ next[tail] = Null
  /\ \A c \in Client : cpc[c] = "link" =>
       /\ \E k \in 1..Len(queue) : cprev[c] = Pred(k) /\ cnode[c] = queue[k]
       /\ next[cprev[c]] = Null
  /\ \A c, d \in Client :
       cpc[c] = "link" /\ cpc[d] = "link" /\ c # d => cprev[c] # cprev[d]

DistinctInv ==
  /\ \A k, l \in 1..Len(queue) : k # l => queue[k] # queue[l]
  /\ \A k \in 1..Len(queue) : queue[k] \in live /\ queue[k] # head
  /\ \A k \in 1..Len(queue) : queue[k] # First
  /\ head \in live /\ First \in live

WorkerInv ==
  /\ wpc = "run" => queue # <<>> /\ wnext = queue[1] /\ next[head] = wnext
  /\ wpc = "advance" => wnext # head /\ next[head] = wnext /\ wnext \in Node

ListInv == LinkInv /\ DistinctInv /\ WorkerInv

(* Once the destructor has begun every client is outside, and once it has  *)
(* ended the worker is gone.                                               *)
DtorInv == /\ dpc # "none" => \A c \in Client : cpc[c] = "idle"
           /\ dpc = "gone" => wpc = "exit"

IInv == /\ TypeOK /\ PendingExact /\ DtorInv
        /\ dpc # "gone" => ListInv

USE ClientAssumption, NodeAssumption, AllowAssumption, WorkerAssumption
USE DEF list, cvars, ClientPC, WorkerPC, InSync

-----------------------------------------------------------------------------
LEMMA TypeInit == Init => TypeOK
<1> SUFFICES ASSUME Init PROVE TypeOK
  OBVIOUS
<1>1. PICK d \in Node : head = d /\ tail = d /\ live = {d}
  BY DEF Init
<1>2. queue \in Seq(Node)
  BY DEF Init
<1>3. QED BY <1>1, <1>2 DEF Init, TypeOK

(* Appending to and removing from the front of a sequence of nodes *)
LEMMA SeqFacts ==
  ASSUME NEW q \in Seq(Node), NEW n \in Node
  PROVE /\ Append(q, n) \in Seq(Node) /\ Len(Append(q, n)) = Len(q) + 1
        /\ Append(q, n)[Len(q) + 1] = n
        /\ \A k \in 1..Len(q) : Append(q, n)[k] = q[k]
        /\ Len(q) \in Nat
        /\ q # <<>> => /\ Tail(q) \in Seq(Node) /\ Len(Tail(q)) = Len(q) - 1
                       /\ Head(q) = q[1] /\ Len(q) >= 1
                       /\ \A k \in 1..(Len(q) - 1) : Tail(q)[k] = q[k + 1]
        /\ q = <<>> <=> Len(q) = 0
        /\ \A k \in 1..Len(q) : q[k] \in Node
OBVIOUS

LEMMA TypeNext == IInv /\ [Next]_vars => TypeOK'
<1> SUFFICES ASSUME IInv, [Next]_vars PROVE TypeOK'
  OBVIOUS
<1> USE DEF TypeOK
<1>t. TypeOK
  BY DEF IInv
<1>1. ASSUME NEW c \in Client, EnqueueCount(c) PROVE TypeOK'
  BY <1>t, <1>1 DEF EnqueueCount
<1>2. ASSUME NEW c \in Client, EnqueueExchange(c) PROVE TypeOK'
  <2>1. PICK n \in Node \ live :
          /\ live' = live \cup {n} /\ next' = [next EXCEPT ![n] = Null]
          /\ cnode' = [cnode EXCEPT ![c] = n] /\ tail' = n /\ queue' = Append(queue, n)
    BY <1>2 DEF EnqueueExchange
  <2>2. queue' \in Seq(Node)
    BY <1>t, <2>1, SeqFacts
  <2>3. QED BY <1>t, <1>2, <2>1, <2>2 DEF EnqueueExchange
<1>3. ASSUME NEW c \in Client, EnqueueLink(c) PROVE TypeOK'
  BY <1>t, <1>3 DEF EnqueueLink
<1>4. ASSUME NEW c \in Client, EnqueueFence(c) PROVE TypeOK'
  BY <1>t, <1>4 DEF EnqueueFence
<1>5. ASSUME NEW c \in Client, EnqueueNotify(c) PROVE TypeOK'
  BY <1>t, <1>5 DEF EnqueueNotify
<1>6. ASSUME NEW c \in Client, SyncCall(c) PROVE TypeOK'
  BY <1>t, <1>6 DEF SyncCall
<1>7. ASSUME NEW c \in Client, SyncLock(c) PROVE TypeOK'
  BY <1>t, <1>7 DEF SyncLock
<1>8. ASSUME NEW c \in Client, SyncReturn(c) \/ SyncBlock(c) \/ SyncSleep(c) PROVE TypeOK'
  BY <1>t, <1>8 DEF SyncReturn, SyncBlock, SyncSleep
<1>9. CASE WorkerLoop
  BY <1>t, <1>9 DEF WorkerLoop
<1>10. CASE WorkerRead
  BY <1>t, <1>10 DEF WorkerRead
<1>11. CASE WorkerFinish
  <2>1. queue # <<>>
    BY <1>11 DEF WorkerFinish, IInv, DtorInv, ListInv, WorkerInv
  <2>2. queue' \in Seq(Node)
    BY <1>t, <1>11, <2>1, SeqFacts DEF WorkerFinish
  <2>3. QED BY <1>t, <1>11, <2>2 DEF WorkerFinish
<1>12. CASE WorkerAdvance
  <2>1. wnext \in Node
    BY <1>12 DEF WorkerAdvance, IInv, DtorInv, ListInv, WorkerInv
  <2>2. QED BY <1>t, <1>12, <2>1 DEF WorkerAdvance
<1>13. CASE WorkerDecrement
  <2>1. IsFiniteSet(Counted)
    BY FS_Subset DEF Counted
  <2>2. Cardinality(Counted) \in Nat /\ Len(queue) \in Nat
    BY <1>t, <2>1, FS_CardinalityType
  <2>3. pending >= 1
    BY <1>13, <2>2 DEF WorkerDecrement, IInv, PendingExact
  <2>4. QED BY <1>t, <1>13, <2>3 DEF WorkerDecrement
<1>14. CASE WorkerBroadcast
  BY <1>t, <1>14 DEF WorkerBroadcast, WakeAllClients
<1>15. CASE WorkerLock \/ WorkerCheck \/ WorkerSleep
  BY <1>t, <1>15 DEF WorkerLock, WorkerCheck, WorkerSleep
<1>16. CASE SpuriousWakeup
  BY <1>t, <1>16 DEF SpuriousWakeup
<1>17. CASE DtorSetDone \/ DtorFree
  BY <1>t, <1>17 DEF DtorSetDone, DtorFree
<1>18. CASE DtorNotify
  BY <1>t, <1>18 DEF DtorNotify, WakeAllClients
<1>19. CASE UNCHANGED vars
  BY <1>t, <1>19 DEF vars
<1>20. QED
  BY <1>1, <1>2, <1>3, <1>4, <1>5, <1>6, <1>7, <1>8, <1>9, <1>10, <1>11,
     <1>12, <1>13, <1>14, <1>15, <1>16, <1>17, <1>18, <1>19
     DEF Next, ClientCall, ClientStep, WorkerStep, DtorStep, Destroyed

-----------------------------------------------------------------------------
(* pending: the set of clients that have counted and not yet accepted      *)
LEMMA CountedFinite ==
  /\ IsFiniteSet(Counted) /\ Cardinality(Counted) \in Nat
  /\ IsFiniteSet(Counted') /\ Cardinality(Counted') \in Nat
BY FS_Subset, FS_CardinalityType DEF Counted

LEMMA CountNext == IInv /\ [Next]_vars => PendingExact'
<1> SUFFICES ASSUME IInv, [Next]_vars PROVE PendingExact'
  OBVIOUS
<1>t. TypeOK /\ TypeOK' /\ PendingExact
  BY TypeNext DEF IInv
<1>l. Len(queue) \in Nat /\ pending \in Nat
  BY <1>t DEF TypeOK
<1>1. ASSUME NEW c \in Client, EnqueueCount(c) PROVE PendingExact'
  <2>1. Counted' = Counted \cup {c} /\ c \notin Counted
    BY <1>t, <1>1 DEF EnqueueCount, Counted, TypeOK
  <2>2. Cardinality(Counted') = Cardinality(Counted) + 1
    BY <2>1, CountedFinite, FS_AddElement
  <2>3. QED BY <1>t, <1>l, <1>1, <2>2, CountedFinite DEF EnqueueCount, PendingExact
<1>2. ASSUME NEW c \in Client, EnqueueExchange(c) PROVE PendingExact'
  <2>1. Counted' = Counted \ {c} /\ c \in Counted
    BY <1>t, <1>2 DEF EnqueueExchange, Counted, TypeOK
  <2>2. Cardinality(Counted') = Cardinality(Counted) - 1
    BY <2>1, CountedFinite, FS_RemoveElement
  <2>3. Len(queue') = Len(queue) + 1
    <3>1. PICK n \in Node : queue' = Append(queue, n)
      BY <1>2 DEF EnqueueExchange
    <3>2. QED BY <1>t, <3>1, SeqFacts DEF TypeOK
  <2>4. QED BY <1>t, <1>l, <1>2, <2>2, <2>3, CountedFinite DEF EnqueueExchange, PendingExact
<1>3. ASSUME Counted' = Counted, pending' = pending, queue' = queue,
             wpc' \in {"advance", "dec"} <=> wpc \in {"advance", "dec"}
      PROVE PendingExact'
  BY <1>t, <1>3 DEF PendingExact
<1>4. ASSUME NEW c \in Client, EnqueueLink(c) \/ EnqueueFence(c) PROVE PendingExact'
  BY <1>t, <1>3, <1>4 DEF EnqueueLink, EnqueueFence, Counted, TypeOK
<1>5. ASSUME NEW c \in Client, EnqueueNotify(c) PROVE PendingExact'
  <2>1. Counted' = Counted
    BY <1>t, <1>5 DEF EnqueueNotify, Counted, TypeOK
  <2>2. QED BY <1>3, <1>5, <2>1 DEF EnqueueNotify
<1>6. ASSUME NEW c \in Client,
             SyncCall(c) \/ SyncLock(c) \/ SyncReturn(c) \/ SyncBlock(c) \/ SyncSleep(c)
      PROVE PendingExact'
  <2>1. Counted' = Counted
    BY <1>t, <1>6 DEF SyncCall, SyncLock, SyncReturn, SyncBlock, SyncSleep, Counted, TypeOK
  <2>2. QED BY <1>3, <1>6, <2>1 DEF SyncCall, SyncLock, SyncReturn, SyncBlock, SyncSleep
<1>7. CASE WorkerLoop \/ WorkerRead \/ WorkerAdvance \/ WorkerLock \/ WorkerCheck \/ WorkerSleep
  BY <1>3, <1>7 DEF WorkerLoop, WorkerRead, WorkerAdvance, WorkerLock, WorkerCheck,
                    WorkerSleep, Counted
<1>8. CASE WorkerFinish
  <2>1. queue # <<>>
    BY <1>8 DEF WorkerFinish, IInv, DtorInv, ListInv, WorkerInv
  <2>2. Len(queue') = Len(queue) - 1
    BY <1>t, <1>8, <2>1, SeqFacts DEF WorkerFinish, TypeOK
  <2>3. Counted' = Counted
    BY <1>8 DEF WorkerFinish, Counted
  <2>4. QED BY <1>t, <1>l, <1>8, <2>2, <2>3, CountedFinite DEF WorkerFinish, PendingExact
<1>9. CASE WorkerDecrement
  <2>1. Counted' = Counted
    BY <1>9 DEF WorkerDecrement, Counted
  <2>2. QED BY <1>t, <1>l, <1>9, <2>1, CountedFinite DEF WorkerDecrement, PendingExact
<1>10. CASE WorkerBroadcast \/ SpuriousWakeup \/ DtorNotify
  <2>1. Counted' = Counted
    BY <1>t, <1>10 DEF WorkerBroadcast, SpuriousWakeup, DtorNotify, WakeAllClients,
                       Counted, TypeOK
  <2>2. QED BY <1>3, <1>10, <2>1 DEF WorkerBroadcast, SpuriousWakeup, DtorNotify
<1>11. CASE DtorSetDone \/ DtorFree \/ UNCHANGED vars
  BY <1>3, <1>11 DEF DtorSetDone, DtorFree, vars, Counted
<1>12. QED
  BY <1>1, <1>2, <1>4, <1>5, <1>6, <1>7, <1>8, <1>9, <1>10, <1>11
     DEF Next, ClientCall, ClientStep, WorkerStep, DtorStep, Destroyed

-----------------------------------------------------------------------------
LEMMA DtorNext == IInv /\ [Next]_vars => DtorInv'
<1> SUFFICES ASSUME IInv, [Next]_vars PROVE DtorInv'
  OBVIOUS
<1> USE DEF IInv, TypeOK, DtorInv
<1>1. ASSUME NEW c \in Client, ClientCall(c) \/ ClientStep(c) PROVE DtorInv'
  <2>1. dpc' = dpc /\ dpc = "none"
    BY <1>1 DEF ClientCall, ClientStep, EnqueueCount, EnqueueExchange, EnqueueLink,
                EnqueueFence, EnqueueNotify, SyncCall, SyncLock, SyncReturn,
                SyncBlock, SyncSleep
  <2>2. QED BY <2>1
<1>2. CASE WorkerStep
  <2>1. dpc' = dpc /\ wpc # "exit" /\ (cpc' = cpc \/ cpc' = WakeAllClients)
    BY <1>2 DEF WorkerStep, WorkerLoop, WorkerRead, WorkerFinish, WorkerAdvance,
                WorkerDecrement, WorkerBroadcast, WorkerLock, WorkerCheck, WorkerSleep
  <2>2. QED BY <2>1 DEF WakeAllClients
<1>3. CASE SpuriousWakeup
  BY <1>3 DEF SpuriousWakeup
<1>4. CASE DtorStep
  BY <1>4 DEF DtorStep, DtorSetDone, DtorNotify, DtorFree, WakeAllClients
<1>5. CASE UNCHANGED vars
  BY <1>5 DEF vars
<1>6. QED BY <1>1, <1>2, <1>3, <1>4, <1>5 DEF Next, Destroyed

-----------------------------------------------------------------------------
(* The list.  Most steps leave it, the queue and the pointers into it      *)
(* alone.                                                                  *)
LEMMA ListFrame ==
  ASSUME TypeOK, TypeOK', ListInv,
         UNCHANGED <<next, live, head, tail, queue, cprev, cnode, wnext>>,
         \A c \in Client : cpc'[c] = "link" => cpc[c] = "link",
         wpc' = "advance" <=> wpc = "advance",
         wpc' = "run" => wpc = "run"
  PROVE  ListInv'
<1>1. First' = First /\ \A k : Pred(k)' = Pred(k)
  BY DEF First, Pred
<1>2. Pred(Len(queue) + 1)' = Pred(Len(queue) + 1)
  BY <1>1
<1>3. LinkInv'
  BY <1>1, <1>2 DEF ListInv, LinkInv
<1>4. DistinctInv'
  BY <1>1 DEF ListInv, DistinctInv
<1>5. WorkerInv'
  BY DEF ListInv, WorkerInv
<1>6. QED BY <1>3, <1>4, <1>5 DEF ListInv

(* Predecessors are distinct and allocated. *)
LEMMA PredFacts ==
  ASSUME TypeOK, DistinctInv
  PROVE  /\ Len(queue) \in Nat
         /\ \A k \in 1..(Len(queue) + 1) : Pred(k) \in live
         /\ \A k, l \in 1..(Len(queue) + 1) : k # l => Pred(k) # Pred(l)
         /\ \A k \in 1..Len(queue) : Pred(k + 1) = queue[k]
<1>1. Len(queue) \in Nat
  BY DEF TypeOK
<1>2. \A k \in 1..(Len(queue) + 1) : k # 1 =>
        Pred(k) = queue[k - 1] /\ k - 1 \in 1..Len(queue)
  BY <1>1 DEF Pred
<1>3. Pred(1) = First
  BY DEF Pred
<1>4. \A k \in 1..(Len(queue) + 1) : Pred(k) \in live
  BY <1>1, <1>2, <1>3 DEF DistinctInv
<1>5. ASSUME NEW k \in 1..(Len(queue) + 1), NEW l \in 1..(Len(queue) + 1), k # l
      PROVE Pred(k) # Pred(l)
  BY <1>1, <1>2, <1>3, <1>5 DEF DistinctInv
<1>6. \A k \in 1..Len(queue) : Pred(k + 1) = queue[k]
  BY <1>1, <1>2 DEF Pred
<1>7. QED BY <1>1, <1>4, <1>5, <1>6

LEMMA ListExchange ==
  ASSUME TypeOK, TypeOK', ListInv, NEW c \in Client, EnqueueExchange(c)
  PROVE  ListInv'
<1> DEFINE L == Len(queue)
<1>1. PICK n \in Node \ live :
        /\ live' = live \cup {n} /\ next' = [next EXCEPT ![n] = Null]
        /\ cnode' = [cnode EXCEPT ![c] = n] /\ tail' = n /\ queue' = Append(queue, n)
  BY DEF EnqueueExchange
<1>2. /\ head' = head /\ wpc' = wpc /\ wnext' = wnext
      /\ cprev' = [cprev EXCEPT ![c] = tail] /\ cpc' = [cpc EXCEPT ![c] = "link"]
      /\ cpc[c] = "exchange"
  BY DEF EnqueueExchange
<1>3. /\ L \in Nat /\ Len(queue') = L + 1
      /\ queue'[L + 1] = n /\ \A k \in 1..L : queue'[k] = queue[k]
  BY <1>1, SeqFacts DEF TypeOK
<1>4. First' = First
  BY <1>2 DEF First
<1>5. \A k \in 1..(L + 1) : Pred(k)' = Pred(k)
  <2>1. \A k \in 1..(L + 1) : k # 1 => queue'[k - 1] = queue[k - 1]
    <3>1. \A k \in 1..(L + 1) : k # 1 => k - 1 \in 1..L
      BY <1>3
    <3>2. QED BY <1>3, <3>1
  <2>2. QED BY <1>4, <2>1 DEF Pred
<1>7. /\ \A k \in 1..(L + 1) : Pred(k) \in live
      /\ \A k, l \in 1..(L + 1) : k # l => Pred(k) # Pred(l)
  BY PredFacts DEF ListInv
<1>8. \A k \in 1..(L + 1) : next'[Pred(k)] = next[Pred(k)]
  BY <1>1, <1>7 DEF TypeOK
<1>9. tail = Pred(L + 1) /\ next[tail] = Null
  BY DEF ListInv, LinkInv
<1>10. LinkInv'
  <2>1. ASSUME NEW k \in 1..(L + 1)
        PROVE next'[Pred(k)'] = queue'[k] \/ next'[Pred(k)'] = Null
    <3>1. CASE k = L + 1
      BY <1>3, <1>5, <1>8, <1>9, <3>1
    <3>2. CASE k # L + 1
      <4>1. k \in 1..L /\ queue'[k] = queue[k] /\ next'[Pred(k)'] = next[Pred(k)]
        BY <1>3, <1>5, <1>8, <3>2
      <4>2. QED BY <4>1 DEF ListInv, LinkInv
    <3>3. QED BY <3>1, <3>2
  <2>2. tail' = Pred(Len(queue) + 1)' /\ next'[tail'] = Null
    <3>1. Len(queue') + 1 = L + 2
      BY <1>3
    <3>2. Pred(Len(queue) + 1)' = n
      BY <1>3, <3>1 DEF Pred
    <3>3. QED BY <1>1, <3>2 DEF TypeOK
  <2>3. ASSUME NEW d \in Client, cpc'[d] = "link"
        PROVE /\ \E k \in 1..(L + 1) : cprev'[d] = Pred(k)' /\ cnode'[d] = queue'[k]
              /\ next'[cprev'[d]] = Null
    <3>1. CASE d = c
      <4>1. cprev'[d] = tail /\ cnode'[d] = n
        BY <1>1, <1>2, <3>1 DEF TypeOK
      <4>2. PICK k \in 1..(L + 1) : k = L + 1
        BY <1>3
      <4>3. Pred(k)' = Pred(k) /\ next'[Pred(k)] = next[Pred(k)] /\ queue'[k] = n
        BY <1>3, <1>5, <1>8, <4>2
      <4>4. cprev'[d] = Pred(k)' /\ next'[cprev'[d]] = Null
        BY <1>9, <4>1, <4>2, <4>3
      <4>5. QED BY <4>1, <4>3, <4>4
    <3>2. CASE d # c
      <4>1. cprev'[d] = cprev[d] /\ cnode'[d] = cnode[d] /\ cpc[d] = "link"
        BY <1>1, <1>2, <2>3, <3>2 DEF TypeOK
      <4>2. PICK k \in 1..L : cprev[d] = Pred(k) /\ cnode[d] = queue[k]
        BY <4>1 DEF ListInv, LinkInv
      <4>3. next[cprev[d]] = Null
        BY <4>1 DEF ListInv, LinkInv
      <4>4. k \in 1..(L + 1) /\ Pred(k)' = Pred(k) /\ queue'[k] = queue[k]
        BY <1>3, <1>5, <4>2
      <4>5. next'[cprev'[d]] = Null
        BY <1>8, <4>1, <4>2, <4>3, <4>4
      <4>6. QED BY <4>1, <4>2, <4>4, <4>5
    <3>3. QED BY <3>1, <3>2
  <2>4. ASSUME NEW d \in Client, cpc[d] = "link" PROVE cprev[d] # tail
    <3>1. PICK k \in 1..L : cprev[d] = Pred(k)
      BY <2>4 DEF ListInv, LinkInv
    <3>2. k \in 1..(L + 1) /\ L + 1 \in 1..(L + 1) /\ k # L + 1
      BY <1>3
    <3>3. QED BY <1>7, <1>9, <3>1, <3>2
  <2>5. ASSUME NEW d \in Client, NEW e \in Client,
               cpc'[d] = "link", cpc'[e] = "link", d # e
        PROVE cprev'[d] # cprev'[e]
    <3>1. \A f \in Client : cprev'[f] = IF f = c THEN tail ELSE cprev[f]
      BY <1>2 DEF TypeOK
    <3>2. \A f \in Client : f # c => cpc'[f] = cpc[f]
      BY <1>2 DEF TypeOK
    <3>3. CASE d = c
      BY <2>4, <2>5, <3>1, <3>2, <3>3
    <3>4. CASE e = c
      BY <2>4, <2>5, <3>1, <3>2, <3>4
    <3>5. CASE d # c /\ e # c
      BY <2>5, <3>1, <3>2, <3>5 DEF ListInv, LinkInv
    <3>6. QED BY <3>3, <3>4, <3>5
  <2>6. QED BY <1>3, <2>1, <2>2, <2>3, <2>5 DEF LinkInv
<1>11. DistinctInv'
  <2>1. n # head /\ n # First /\ \A k \in 1..L : queue[k] # n
    BY <1>1 DEF ListInv, DistinctInv
  <2>2. \A k \in 1..(L + 1) : k # L + 1 => k \in 1..L
    BY <1>3
  <2>3. \A k \in 1..(L + 1) : queue'[k] = IF k = L + 1 THEN n ELSE queue[k]
    BY <1>3, <2>2
  <2>4. QED BY <1>1, <1>2, <1>3, <1>4, <2>1, <2>2, <2>3 DEF ListInv, DistinctInv
<1>12. WorkerInv'
  <2>1. head # n
    BY <1>1 DEF ListInv, DistinctInv
  <2>2. next'[head'] = next[head]
    BY <1>1, <1>2, <2>1 DEF TypeOK
  <2>3. queue # <<>> => queue' # <<>> /\ queue'[1] = queue[1]
    BY <1>3, SeqFacts DEF TypeOK
  <2>4. QED BY <1>2, <2>2, <2>3 DEF ListInv, WorkerInv
<1>13. QED BY <1>10, <1>11, <1>12 DEF ListInv

(* Storing prev->next turns exactly the gap this enqueue left into a link. *)
LEMMA ListLink ==
  ASSUME TypeOK, TypeOK', ListInv, NEW c \in Client, EnqueueLink(c)
  PROVE  ListInv'
<1>1. /\ cpc[c] = "link" /\ next' = [next EXCEPT ![cprev[c]] = cnode[c]]
      /\ cpc' = [cpc EXCEPT ![c] = "fence"]
      /\ UNCHANGED <<live, head, tail, wpc, wnext, cprev, cnode, queue>>
  BY DEF EnqueueLink
<1>2. First' = First /\ \A k : Pred(k)' = Pred(k)
  BY <1>1 DEF First, Pred
<1>3. PICK i \in 1..Len(queue) : cprev[c] = Pred(i) /\ cnode[c] = queue[i]
  BY <1>1 DEF ListInv, LinkInv
<1>4. /\ Len(queue) \in Nat
      /\ \A k \in 1..(Len(queue) + 1) : Pred(k) \in live
      /\ \A k, l \in 1..(Len(queue) + 1) : k # l => Pred(k) # Pred(l)
  BY PredFacts DEF ListInv
<1>5. next'[Pred(i)] = queue[i] /\ \A n \in Node : n # Pred(i) => next'[n] = next[n]
  <2>1. Pred(i) \in Node
    BY <1>3, <1>4 DEF TypeOK
  <2>2. QED BY <1>1, <1>3, <2>1 DEF TypeOK
<1>6. tail = Pred(Len(queue) + 1) /\ tail \in Node /\ tail # Pred(i)
  BY <1>3, <1>4 DEF ListInv, LinkInv, TypeOK
<1>7. LinkInv'
  <2>1. ASSUME NEW k \in 1..Len(queue)
        PROVE next'[Pred(k)] = queue[k] \/ next'[Pred(k)] = Null
    <3>1. CASE k = i
      BY <1>5, <3>1
    <3>2. CASE k # i
      <4>1. Pred(k) # Pred(i) /\ Pred(k) \in Node
        BY <1>4, <3>2 DEF TypeOK
      <4>2. QED BY <1>5, <4>1 DEF ListInv, LinkInv
    <3>3. QED BY <3>1, <3>2
  <2>2. next'[tail] = Null
    BY <1>5, <1>6 DEF ListInv, LinkInv
  <2>3. \A d \in Client : cpc'[d] = "link" => d # c /\ cpc[d] = "link"
    BY <1>1 DEF TypeOK
  <2>4. ASSUME NEW d \in Client, cpc'[d] = "link"
        PROVE /\ \E k \in 1..Len(queue) : cprev[d] = Pred(k) /\ cnode[d] = queue[k]
              /\ next'[cprev[d]] = Null
    <3>1. PICK k \in 1..Len(queue) : cprev[d] = Pred(k) /\ cnode[d] = queue[k]
      BY <2>3, <2>4 DEF ListInv, LinkInv
    <3>2. cprev[d] # cprev[c] /\ next[cprev[d]] = Null
      BY <1>1, <2>3, <2>4 DEF ListInv, LinkInv
    <3>3. cprev[d] \in Node
      BY <1>4, <3>1 DEF TypeOK
    <3>4. QED BY <1>3, <1>5, <3>1, <3>2, <3>3
  <2>5. \A d, e \in Client :
          cpc'[d] = "link" /\ cpc'[e] = "link" /\ d # e => cprev[d] # cprev[e]
    BY <2>3 DEF ListInv, LinkInv
  <2>6. Pred(Len(queue) + 1)' = Pred(Len(queue) + 1)
    BY <1>1, <1>2
  <2>7. QED BY <1>1, <1>2, <1>6, <2>1, <2>2, <2>4, <2>5, <2>6 DEF LinkInv
<1>8. DistinctInv'
  BY <1>1, <1>2 DEF ListInv, DistinctInv
<1>9. WorkerInv'
  <2>1. wpc \in {"run", "advance"} => next[head] = wnext /\ wnext \in Node
    BY DEF ListInv, WorkerInv, TypeOK
  <2>2. next[Pred(i)] = Null
    BY <1>1, <1>3 DEF ListInv, LinkInv
  <2>3. wpc \in {"run", "advance"} => next'[head] = next[head]
    BY <1>5, <2>1, <2>2 DEF TypeOK
  <2>4. QED BY <1>1, <2>1, <2>3 DEF ListInv, WorkerInv
<1>10. QED BY <1>7, <1>8, <1>9 DEF ListInv

(* A successor the worker sees is the oldest unfinished task. *)
LEMMA ReadOldest ==
  ASSUME TypeOK, ListInv, wpc # "advance", next[head] # Null
  PROVE  queue # <<>> /\ next[head] = queue[1]
<1>1. First = head /\ Pred(1) = head /\ Len(queue) \in Nat
  BY DEF First, Pred, TypeOK
<1>2. Len(queue) # 0
  <2>1. SUFFICES ASSUME Len(queue) = 0 PROVE FALSE
    OBVIOUS
  <2>2. tail = Pred(1)
    BY <2>1 DEF ListInv, LinkInv
  <2>3. QED BY <1>1, <2>2 DEF ListInv, LinkInv
<1>3. 1 \in 1..Len(queue) /\ queue # <<>>
  BY <1>1, <1>2
<1>4. QED BY <1>1, <1>3 DEF ListInv, LinkInv

LEMMA ListRead ==
  ASSUME TypeOK, TypeOK', ListInv, WorkerRead
  PROVE  ListInv'
<1>1. /\ wpc = "read" /\ wnext' = next[head]
      /\ wpc' = IF next[head] # Null THEN "run" ELSE "lock"
      /\ UNCHANGED <<next, live, head, tail, queue, cpc, cprev, cnode>>
  BY DEF WorkerRead
<1>2. First' = First /\ \A k : Pred(k)' = Pred(k)
  BY <1>1 DEF First, Pred
<1>3. Pred(Len(queue) + 1)' = Pred(Len(queue) + 1)
  BY <1>1, <1>2
<1>4. LinkInv' /\ DistinctInv'
  BY <1>1, <1>2, <1>3 DEF ListInv, LinkInv, DistinctInv
<1>5. WorkerInv'
  BY <1>1, ReadOldest DEF WorkerInv
<1>6. QED BY <1>4, <1>5 DEF ListInv

LEMMA ListFinish ==
  ASSUME TypeOK, TypeOK', ListInv, WorkerFinish
  PROVE  ListInv'
<1> DEFINE L == Len(queue)
<1>1. /\ wpc = "run" /\ wpc' = "advance" /\ queue' = Tail(queue)
      /\ UNCHANGED <<next, live, head, tail, wnext, cpc, cprev, cnode>>
  BY DEF WorkerFinish
<1>2. queue # <<>> /\ wnext = queue[1] /\ next[head] = wnext
  BY <1>1 DEF ListInv, WorkerInv
<1>3. /\ L \in Nat /\ L >= 1 /\ Len(queue') = L - 1
      /\ \A k \in 1..(L - 1) : queue'[k] = queue[k + 1]
  BY <1>1, <1>2, SeqFacts DEF TypeOK
<1>4. First = head /\ First' = queue[1] /\ Pred(1) = head
  BY <1>1, <1>2 DEF First, Pred
<1>5. ASSUME NEW k \in 1..L PROVE Pred(k)' = Pred(k + 1)
  <2>1. CASE k = 1
    BY <1>4, <2>1 DEF Pred
  <2>2. CASE k # 1
    <3>1. k - 1 \in 1..(L - 1) /\ (k - 1) + 1 = k /\ (k + 1) - 1 = k /\ k + 1 # 1
      BY <1>3, <2>2
    <3>2. queue'[k - 1] = queue[k]
      BY <1>3, <3>1
    <3>3. QED BY <2>2, <3>1, <3>2 DEF Pred
  <2>3. QED BY <2>1, <2>2
<1>6. \A k \in 1..(L - 1) : k \in 1..L /\ k + 1 \in 1..L
  BY <1>3
<1>7. tail = Pred(L + 1) /\ next[tail] = Null
  BY DEF ListInv, LinkInv
<1>8. LinkInv'
  <2>1. ASSUME NEW k \in 1..(L - 1)
        PROVE next[Pred(k)'] = queue'[k] \/ next[Pred(k)'] = Null
    BY <1>3, <1>5, <1>6 DEF ListInv, LinkInv
  <2>2. tail = Pred(Len(queue) + 1)'
    <3>1. PICK k \in 1..L : k = L
      BY <1>3
    <3>2. Len(queue') + 1 = k
      BY <1>3, <3>1
    <3>3. Pred(Len(queue) + 1)' = Pred(k)'
      BY <3>2 DEF Pred
    <3>4. QED BY <1>5, <1>7, <3>1, <3>3
  <2>3. ASSUME NEW d \in Client, cpc[d] = "link"
        PROVE \E k \in 1..(L - 1) : cprev[d] = Pred(k)' /\ cnode[d] = queue'[k]
    <3>1. PICK k \in 1..L : cprev[d] = Pred(k) /\ cnode[d] = queue[k]
      BY <2>3 DEF ListInv, LinkInv
    <3>2. next[cprev[d]] = Null
      BY <2>3 DEF ListInv, LinkInv
    <3>3. wnext # Null
      BY <1>2, <1>3 DEF TypeOK
    <3>4. k # 1
      BY <1>2, <1>4, <3>1, <3>2, <3>3
    <3>5. PICK j \in 1..(L - 1) : j + 1 = k
      <4>1. k - 1 \in 1..(L - 1) /\ (k - 1) + 1 = k
        BY <1>3, <3>4
      <4>2. QED BY <4>1
    <3>6. QED BY <1>3, <1>5, <1>6, <3>1, <3>5
  <2>4. QED BY <1>1, <1>3, <1>7, <2>1, <2>2, <2>3 DEF ListInv, LinkInv
<1>9. DistinctInv'
  <2>1. \A k \in 1..(L - 1) : k + 1 # 1 /\ 1 \in 1..L
    BY <1>3
  <2>2. \A k, l \in 1..(L - 1) : k # l => k + 1 # l + 1
    OBVIOUS
  <2>3. \A k, l \in 1..(L - 1) : k # l => queue'[k] # queue'[l]
    BY <1>3, <1>6, <2>2 DEF ListInv, DistinctInv
  <2>4. \A k \in 1..(L - 1) :
          queue'[k] \in live /\ queue'[k] # head /\ queue'[k] # queue[1]
    BY <1>3, <1>6, <2>1 DEF ListInv, DistinctInv
  <2>5. queue[1] \in live
    BY <1>3 DEF ListInv, DistinctInv
  <2>6. QED BY <1>1, <1>3, <1>4, <2>3, <2>4, <2>5 DEF ListInv, DistinctInv
<1>10. WorkerInv'
  <2>1. queue[1] # head /\ queue[1] \in Node
    BY <1>3 DEF ListInv, DistinctInv, TypeOK
  <2>2. QED BY <1>1, <1>2, <2>1 DEF WorkerInv
<1>11. QED BY <1>8, <1>9, <1>10 DEF ListInv

LEMMA ListAdvance ==
  ASSUME TypeOK, TypeOK', ListInv, WorkerAdvance
  PROVE  ListInv'
<1>1. /\ wpc = "advance" /\ wpc' = "dec" /\ head' = wnext /\ live' = live \ {head}
      /\ UNCHANGED <<next, tail, wnext, queue, cpc, cprev, cnode>>
  BY DEF WorkerAdvance
<1>2. First = wnext /\ First' = First /\ wnext # head
  BY <1>1 DEF First, ListInv, WorkerInv
<1>3. \A k : Pred(k)' = Pred(k)
  BY <1>1, <1>2 DEF Pred
<1>4. Pred(Len(queue) + 1)' = Pred(Len(queue) + 1)
  BY <1>1, <1>3
<1>5. LinkInv'
  BY <1>1, <1>3, <1>4 DEF ListInv, LinkInv
<1>6. DistinctInv'
  BY <1>1, <1>2 DEF ListInv, DistinctInv
<1>7. WorkerInv'
  BY <1>1 DEF WorkerInv
<1>8. QED BY <1>5, <1>6, <1>7 DEF ListInv

LEMMA ListNext == TypeOK' /\ IInv /\ [Next]_vars => (dpc # "gone" => ListInv)'
<1> SUFFICES ASSUME TypeOK', IInv, [Next]_vars, dpc' # "gone" PROVE ListInv'
  OBVIOUS
<1>d. dpc # "gone"
  <2>1. CASE DtorStep
    BY <2>1 DEF DtorStep, DtorSetDone, DtorNotify, DtorFree
  <2>2. CASE ~DtorStep
    BY <2>2 DEF Next, ClientCall, ClientStep, EnqueueCount, EnqueueExchange,
       EnqueueLink, EnqueueFence, EnqueueNotify, SyncCall, SyncLock, SyncReturn,
       SyncBlock, SyncSleep, WorkerStep, WorkerLoop, WorkerRead, WorkerFinish,
       WorkerAdvance, WorkerDecrement, WorkerBroadcast, WorkerLock, WorkerCheck,
       WorkerSleep, SpuriousWakeup, Destroyed, vars
  <2>3. QED BY <2>1, <2>2
<1>t. TypeOK /\ ListInv
  BY <1>d DEF IInv
<1>f. ASSUME UNCHANGED <<next, live, head, tail, queue, cprev, cnode, wnext>>,
             \A c \in Client : cpc'[c] = "link" => cpc[c] = "link",
             wpc' = "advance" <=> wpc = "advance",
             wpc' = "run" => wpc = "run"
      PROVE  ListInv'
  BY <1>t, <1>f, ListFrame
<1>1. ASSUME NEW c \in Client, EnqueueCount(c) \/ EnqueueFence(c) PROVE ListInv'
  <2>1. \A d \in Client : cpc'[d] = "link" => cpc[d] = "link"
    BY <1>t, <1>1 DEF EnqueueCount, EnqueueFence, TypeOK
  <2>2. QED BY <1>f, <1>1, <2>1 DEF EnqueueCount, EnqueueFence
<1>2. ASSUME NEW c \in Client, EnqueueExchange(c) PROVE ListInv'
  BY <1>t, <1>2, ListExchange
<1>3. ASSUME NEW c \in Client, EnqueueLink(c) PROVE ListInv'
  BY <1>t, <1>3, ListLink
<1>4. ASSUME NEW c \in Client, EnqueueNotify(c) PROVE ListInv'
  <2>1. \A d \in Client : cpc'[d] = "link" => cpc[d] = "link"
    BY <1>t, <1>4 DEF EnqueueNotify, TypeOK
  <2>2. QED BY <1>f, <1>4, <2>1 DEF EnqueueNotify
<1>5. ASSUME NEW c \in Client,
             SyncCall(c) \/ SyncLock(c) \/ SyncReturn(c) \/ SyncBlock(c) \/ SyncSleep(c)
      PROVE ListInv'
  <2>1. \A d \in Client : cpc'[d] = "link" => cpc[d] = "link"
    BY <1>t, <1>5 DEF SyncCall, SyncLock, SyncReturn, SyncBlock, SyncSleep, TypeOK
  <2>2. QED BY <1>f, <1>5, <2>1 DEF SyncCall, SyncLock, SyncReturn, SyncBlock, SyncSleep
<1>6. CASE WorkerLoop \/ WorkerDecrement \/ WorkerLock \/ WorkerCheck \/ WorkerSleep
  BY <1>f, <1>6 DEF WorkerLoop, WorkerDecrement, WorkerLock, WorkerCheck, WorkerSleep
<1>7. CASE WorkerBroadcast \/ SpuriousWakeup \/ DtorNotify
  <2>1. \A d \in Client : cpc'[d] = "link" => cpc[d] = "link"
    BY <1>t, <1>7 DEF WorkerBroadcast, SpuriousWakeup, DtorNotify, WakeAllClients, TypeOK
  <2>2. QED BY <1>f, <1>7, <2>1 DEF WorkerBroadcast, SpuriousWakeup, DtorNotify
<1>8. CASE WorkerRead
  BY <1>t, <1>8, ListRead
<1>9. CASE WorkerFinish
  BY <1>t, <1>9, ListFinish
<1>10. CASE WorkerAdvance
  BY <1>t, <1>10, ListAdvance
<1>11. CASE DtorSetDone \/ UNCHANGED vars
  BY <1>f, <1>11 DEF DtorSetDone, vars
<1>12. CASE DtorFree
  BY <1>12 DEF DtorFree
<1>13. QED
  BY <1>1, <1>2, <1>3, <1>4, <1>5, <1>6, <1>7, <1>8, <1>9, <1>10, <1>11, <1>12
     DEF Next, ClientCall, ClientStep, WorkerStep, DtorStep, Destroyed

-----------------------------------------------------------------------------
LEMMA InvInit == Init => IInv
<1> SUFFICES ASSUME Init PROVE IInv
  OBVIOUS
<1>1. TypeOK
  BY TypeInit
<1>2. PICK d \in Node : head = d /\ tail = d /\ live = {d}
  BY DEF Init
<1>3. Len(queue) = 0 /\ Counted = {} /\ Cardinality({}) = 0
  BY FS_EmptySet DEF Init, Counted
<1>4. PendingExact
  BY <1>3 DEF Init, PendingExact
<1>5. DtorInv
  BY DEF Init, DtorInv
<1>6. First = head /\ Pred(Len(queue) + 1) = head /\ 1..Len(queue) = {}
  BY <1>3 DEF Init, First, Pred
<1>7. ListInv
  BY <1>2, <1>6 DEF Init, ListInv, LinkInv, DistinctInv, WorkerInv
<1>8. QED BY <1>1, <1>4, <1>5, <1>7 DEF IInv

LEMMA InvNext == IInv /\ [Next]_vars => IInv'
BY TypeNext, CountNext, DtorNext, ListNext DEF IInv

LEMMA Invariance == Spec => []IInv
BY InvInit, InvNext, PTL DEF Spec

(* Every variable keeps its type: in particular pending never goes below   *)
(* zero, although the worker's fetch_sub is unconditional.                 *)
THEOREM TypeCorrect == Spec => []TypeOK
<1>1. IInv => TypeOK
  BY DEF IInv
<1>2. QED BY Invariance, <1>1, PTL

(* pending counts exactly what sync is entitled to wait for, at every      *)
(* interleaving of any number of clients with the worker.                  *)
THEOREM PendingAlwaysExact == Spec => []PendingExact
<1>1. IInv => PendingExact
  BY DEF IInv
<1>2. QED BY Invariance, <1>1, PTL

(* No thread dereferences a freed node, however many clients are between   *)
(* the exchange and the store, and however addresses are reused.           *)
THEOREM NeverUsedAfterFree == Spec => []NoUseAfterFree
<1>1. IInv => NoUseAfterFree
  <2> SUFFICES ASSUME IInv, dpc # "gone" PROVE
        /\ {head, tail} \subseteq live
        /\ \A c \in Client : cpc[c] = "link" => {cprev[c], cnode[c]} \subseteq live
        /\ wpc \in {"run", "advance"} => wnext \in live
    BY DEF NoUseAfterFree
  <2>1. TypeOK /\ LinkInv /\ DistinctInv /\ WorkerInv /\ Len(queue) \in Nat
    BY DEF IInv, ListInv, TypeOK
  <2>2. \A k \in 1..(Len(queue) + 1) : Pred(k) \in live
    BY <2>1, PredFacts
  <2>3. head \in live /\ tail \in live
    BY <2>1, <2>2 DEF LinkInv, DistinctInv
  <2>4. ASSUME NEW c \in Client, cpc[c] = "link"
        PROVE cprev[c] \in live /\ cnode[c] \in live
    <3>1. PICK k \in 1..Len(queue) : cprev[c] = Pred(k) /\ cnode[c] = queue[k]
      BY <2>1, <2>4 DEF LinkInv
    <3>2. k \in 1..(Len(queue) + 1)
      BY <2>1
    <3>3. QED BY <2>1, <2>2, <3>1, <3>2 DEF DistinctInv
  <2>5. wpc = "advance" => wnext \in live
    BY <2>1 DEF First, DistinctInv
  <2>6. wpc = "run" => wnext \in live
    <3>1. wpc = "run" => 1 \in 1..Len(queue) /\ wnext = queue[1]
      BY <2>1, SeqFacts DEF WorkerInv, TypeOK
    <3>2. QED BY <2>1, <3>1 DEF DistinctInv
  <2>7. QED BY <2>3, <2>4, <2>5, <2>6
<1>2. QED BY Invariance, <1>1, PTL

-----------------------------------------------------------------------------
(* The refinement of TaskFifo, with its variables under shorter names *)
Running == IF wpc = "run" THEN wnext ELSE Null
Waiting == [c \in Client |-> IF cpc[c] \in InSync THEN callow[c] ELSE Null]

LEMMA RefinesInit == Init => Fifo!Init
BY DEF Init, Fifo!Init

(* Steps the abstract queue does not see *)
LEMMA Stutter ==
  ASSUME queue' = queue, done' = done, callow' = callow,
         \A c \in Client : cpc'[c] \in InSync <=> cpc[c] \in InSync,
         wpc' = "run" <=> wpc = "run", wpc = "run" => wnext' = wnext
  PROVE  UNCHANGED Fifo!vars
<1>1. Waiting' = Waiting
  BY DEF Waiting
<1>2. Running' = Running
  BY DEF Running
<1>3. QED BY <1>1, <1>2 DEF Fifo!vars, Waiting, Running

LEMMA RefinesNext == IInv /\ [Next]_vars => [Fifo!Next]_Fifo!vars
<1> SUFFICES ASSUME IInv, [Next]_vars PROVE [Fifo!Next]_Fifo!vars
  OBVIOUS
<1>t. TypeOK /\ PendingExact
  BY DEF IInv
<1>s. ASSUME queue' = queue, done' = done, callow' = callow,
             \A c \in Client : cpc'[c] \in InSync <=> cpc[c] \in InSync,
             wpc' = "run" <=> wpc = "run", wnext' = wnext
      PROVE  UNCHANGED Fifo!vars
  BY <1>s, Stutter
<1>w. ASSUME \A c \in Client : cpc'[c] \in InSync <=> cpc[c] \in InSync,
             callow' = callow
      PROVE  Waiting' = Waiting
  BY <1>w DEF Waiting
<1>1. ASSUME NEW c \in Client, EnqueueCount(c) \/ EnqueueLink(c) \/ EnqueueFence(c)
      PROVE UNCHANGED Fifo!vars
  <2>1. \A d \in Client : cpc'[d] \in InSync <=> cpc[d] \in InSync
    BY <1>t, <1>1 DEF EnqueueCount, EnqueueLink, EnqueueFence, TypeOK
  <2>2. QED BY <1>s, <1>1, <2>1 DEF EnqueueCount, EnqueueLink, EnqueueFence
<1>2. ASSUME NEW c \in Client, EnqueueExchange(c) PROVE Fifo!Next
  <2>1. PICK n \in Node \ live : queue' = Append(queue, n)
    BY <1>2 DEF EnqueueExchange
  <2>2. \A d \in Client : cpc'[d] \in InSync <=> cpc[d] \in InSync
    BY <1>t, <1>2 DEF EnqueueExchange, TypeOK
  <2>3. Waiting' = Waiting /\ Running' = Running /\ done' = done
    BY <1>2, <1>w, <2>2 DEF EnqueueExchange, Running
  <2>4. Fifo!Accept(n)
    BY <2>1, <2>3 DEF Fifo!Accept, Waiting, Running
  <2>5. QED BY <2>4 DEF Fifo!Next
<1>3. ASSUME NEW c \in Client, EnqueueNotify(c) PROVE UNCHANGED Fifo!vars
  <2>1. \A d \in Client : cpc'[d] \in InSync <=> cpc[d] \in InSync
    BY <1>t, <1>3 DEF EnqueueNotify, TypeOK
  <2>2. QED BY <1>s, <1>3, <2>1 DEF EnqueueNotify
<1>4. ASSUME NEW c \in Client, SyncCall(c) PROVE Fifo!Next
  <2>1. PICK n \in Allow : callow' = [callow EXCEPT ![c] = n]
    BY <1>4 DEF SyncCall
  <2>2. /\ cpc[c] = "idle" /\ cpc' = [cpc EXCEPT ![c] = "lock"]
        /\ queue' = queue /\ done' = done /\ Running' = Running
    BY <1>4 DEF SyncCall, Running
  <2>3. Waiting[c] = Null /\ Waiting' = [Waiting EXCEPT ![c] = n]
    BY <1>t, <2>1, <2>2 DEF Waiting, TypeOK
  <2>4. Fifo!SyncCall(c, n)
    BY <2>2, <2>3 DEF Fifo!SyncCall, Waiting, Running
  <2>5. QED BY <2>4 DEF Fifo!Next
<1>5. ASSUME NEW c \in Client, SyncReturn(c) PROVE Fifo!Next
  <2>1. /\ cpc[c] = "check" /\ cpc' = [cpc EXCEPT ![c] = "idle"]
        /\ (pending <= callow[c] \/ done) /\ callow' = callow
        /\ queue' = queue /\ done' = done /\ Running' = Running
    BY <1>5 DEF SyncReturn, SyncPredicate, Running
  <2>2. callow[c] \in Nat /\ callow[c] # Null
    <3>1. callow[c] \in Allow \cup {0}
      BY <1>t DEF TypeOK
    <3>2. Allow \cup {0} \subseteq Nat
      OBVIOUS
    <3>3. callow[c] \in Nat
      BY <3>1, <3>2
    <3>4. QED BY <3>3, AllowAssumption
  <2>3. Waiting[c] = callow[c] /\ Waiting' = [Waiting EXCEPT ![c] = Null]
    BY <1>t, <2>1 DEF Waiting, TypeOK
  <2>4. Len(queue) <= pending
    BY <1>t, CountedFinite DEF PendingExact, TypeOK
  <2>5. Len(queue) <= callow[c] \/ done
    BY <1>t, <2>1, <2>2, <2>4 DEF TypeOK
  <2>6. Fifo!SyncReturn(c)
    BY <2>1, <2>2, <2>3, <2>5 DEF Fifo!SyncReturn, Waiting, Running
  <2>7. QED BY <2>6 DEF Fifo!Next
<1>6. ASSUME NEW c \in Client, SyncLock(c) \/ SyncBlock(c) \/ SyncSleep(c)
      PROVE UNCHANGED Fifo!vars
  <2>1. \A d \in Client : cpc'[d] \in InSync <=> cpc[d] \in InSync
    BY <1>t, <1>6 DEF SyncLock, SyncBlock, SyncSleep, TypeOK
  <2>2. QED BY <1>s, <1>6, <2>1 DEF SyncLock, SyncBlock, SyncSleep
<1>7. CASE WorkerLoop \/ WorkerAdvance \/ WorkerDecrement \/ WorkerLock
           \/ WorkerCheck \/ WorkerSleep
  BY <1>s, <1>7 DEF WorkerLoop, WorkerAdvance, WorkerDecrement, WorkerLock,
                    WorkerCheck, WorkerSleep
<1>8. CASE WorkerRead
  <2>1. /\ wpc = "read" /\ wnext' = next[head]
        /\ wpc' = IF next[head] # Null THEN "run" ELSE "lock"
        /\ UNCHANGED <<queue, done, cpc, callow>>
    BY <1>8 DEF WorkerRead
  <2>2. CASE next[head] = Null
    BY <2>1, <2>2, Stutter
  <2>3. CASE next[head] # Null
    <3>1. wpc # "exit" /\ ListInv
      <4>1. dpc # "gone"
        BY <2>1 DEF IInv, DtorInv
      <4>2. QED BY <2>1, <4>1 DEF IInv
    <3>2. queue # <<>> /\ next[head] = Head(queue)
      <4>1. queue # <<>> /\ next[head] = queue[1]
        BY <1>t, <2>1, <2>3, <3>1, ReadOldest
      <4>2. QED BY <1>t, <4>1, SeqFacts DEF TypeOK
    <3>3. Waiting' = Waiting /\ Running = Null /\ Running' = Head(queue)
      BY <2>1, <2>3, <3>2 DEF Waiting, Running
    <3>4. Fifo!Start
      BY <2>1, <3>2, <3>3 DEF Fifo!Start, Waiting, Running
    <3>5. QED BY <3>4 DEF Fifo!Next
  <2>4. QED BY <2>2, <2>3
<1>9. CASE WorkerFinish
  <2>1. /\ wpc = "run" /\ wpc' = "advance" /\ queue' = Tail(queue)
        /\ UNCHANGED <<done, cpc, callow>>
    BY <1>9 DEF WorkerFinish
  <2>2. queue # <<>> /\ wnext = queue[1]
    BY <2>1 DEF IInv, DtorInv, ListInv, WorkerInv
  <2>3. Running = Head(queue) /\ Running' = Null /\ Waiting' = Waiting
    BY <1>t, <2>1, <2>2, SeqFacts DEF Running, Waiting, TypeOK
  <2>4. Fifo!Finish
    BY <2>1, <2>2, <2>3 DEF Fifo!Finish, Waiting, Running
  <2>5. QED BY <2>4 DEF Fifo!Next
<1>10. CASE WorkerBroadcast \/ SpuriousWakeup \/ DtorNotify
  <2>1. \A d \in Client : cpc'[d] \in InSync <=> cpc[d] \in InSync
    BY <1>t, <1>10 DEF WorkerBroadcast, SpuriousWakeup, DtorNotify, WakeAllClients, TypeOK
  <2>2. QED BY <1>s, <1>10, <2>1 DEF WorkerBroadcast, SpuriousWakeup, DtorNotify
<1>11. CASE DtorSetDone
  <2>1. Waiting' = Waiting /\ Running' = Running /\ queue' = queue /\ done' = TRUE
    BY <1>11 DEF DtorSetDone, Waiting, Running
  <2>2. Fifo!Close
    BY <2>1 DEF Fifo!Close, Waiting, Running
  <2>3. QED BY <2>2 DEF Fifo!Next
<1>12. CASE DtorFree \/ UNCHANGED vars
  BY <1>s, <1>12 DEF DtorFree, vars
<1>13. QED
  BY <1>1, <1>2, <1>3, <1>4, <1>5, <1>6, <1>7, <1>8, <1>9, <1>10, <1>11, <1>12
     DEF Next, ClientCall, ClientStep, WorkerStep, DtorStep, Destroyed

(* The lock-free list implements the queue its callers see: tasks run one  *)
(* at a time in the order of acceptance, and sync(n) returns only when at  *)
(* most n are unfinished or the queue is being destroyed.                  *)
THEOREM IsFifo == Spec => ImplementsFifo
<1>1. QED BY Invariance, RefinesInit, RefinesNext, PTL DEF Spec, ImplementsFifo, Fifo!Spec
=============================================================================
