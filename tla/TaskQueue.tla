----------------------------- MODULE TaskQueue ------------------------------
(***************************************************************************)
(* cpu_backend/task_queue.{h,cpp}: a linked queue with many producers and  *)
(* one worker thread.  A task is a heap node; `head' is the node the       *)
(* worker has finished with (at first the dummy), `tail' the node enqueue  *)
(* swapped in last.  One mutex and one condition variable serve both the   *)
(* worker, which sleeps while head has no successor, and the callers of    *)
(* sync, who sleep while too many tasks are pending.                       *)
(*                                                                         *)
(* Each action is one atomic access of the code, or a run of accesses of   *)
(* which at most one is visible to another thread.  A thread asleep in     *)
(* cv.wait is one whose program counter is "asleep"; waking it sends it    *)
(* back to compete for the mutex.                                          *)
(***************************************************************************)
EXTENDS Naturals, Sequences, FiniteSets

CONSTANTS Client,   \* threads that call enqueue, sync: Python, CUDA callbacks
          Node,     \* heap addresses of nodes; a freed one may be reused
          Null,     \* nullptr
          Allow     \* values of allow_n_pending the callers use

ASSUME ClientAssumption == IsFiniteSet(Client)
ASSUME NodeAssumption == Node # {} /\ Null \notin Node
ASSUME AllowAssumption == Allow \subseteq Nat /\ Null \notin Nat
ASSUME WorkerAssumption == "worker" \notin Client /\ "free" \notin Client

VARIABLES next,     \* Node::next of every address
          live,     \* addresses currently allocated
          head, tail, pending, done,
          mtx,      \* the thread inside a critical section, or "free"
          wpc, wnext,          \* the worker, and its local variable next
          cpc, cprev, cnode, callow,  \* the clients and their locals
          dpc,      \* the destructor
          queue     \* history: accepted unfinished tasks, in exchange order

list == <<next, live, head, tail>>
cvars == <<cpc, cprev, cnode, callow>>
vars == <<next, live, head, tail, pending, done, mtx, wpc, wnext,
          cpc, cprev, cnode, callow, dpc, queue>>

ClientPC == {"idle", "exchange", "link", "fence", "notify",
             "lock", "check", "presleep", "asleep"}
WorkerPC == {"loop", "read", "run", "advance", "dec", "broadcast",
             "lock", "check", "presleep", "asleep", "exit"}

-----------------------------------------------------------------------------
(* The constructor: one dummy node, nothing pending, the worker started. *)
Init == /\ \E d \in Node : head = d /\ tail = d /\ live = {d}
        /\ next = [n \in Node |-> Null]
        /\ pending = 0 /\ done = FALSE /\ mtx = "free"
        /\ wpc = "loop" /\ wnext = Null
        /\ cpc = [c \in Client |-> "idle"]
        /\ cprev = [c \in Client |-> Null]
        /\ cnode = [c \in Client |-> Null]
        /\ callow = [c \in Client |-> 0]
        /\ dpc = "none"
        /\ queue = <<>>

-----------------------------------------------------------------------------
(* enqueue(task), run by client c.  The task is counted before it is in    *)
(* the list.                                                               *)
EnqueueCount(c) ==
  /\ dpc = "none" /\ cpc[c] = "idle"
  /\ pending' = pending + 1
  /\ cpc' = [cpc EXCEPT ![c] = "exchange"]
  /\ UNCHANGED <<list, done, mtx, wpc, wnext, cprev, cnode, callow, dpc, queue>>

(* new Node(task); prev = tail.exchange(node).  Allocation may hand out an *)
(* address the worker has freed.  The size of Node bounds the queue.       *)
EnqueueExchange(c) ==
  /\ cpc[c] = "exchange"
  /\ \E n \in Node \ live :
       /\ live' = live \cup {n}
       /\ next' = [next EXCEPT ![n] = Null]
       /\ cnode' = [cnode EXCEPT ![c] = n]
       /\ tail' = n
       /\ queue' = Append(queue, n)
  /\ cprev' = [cprev EXCEPT ![c] = tail]
  /\ cpc' = [cpc EXCEPT ![c] = "link"]
  /\ UNCHANGED <<head, pending, done, mtx, wpc, wnext, callow, dpc>>

(* prev->next.store(node) *)
EnqueueLink(c) ==
  /\ cpc[c] = "link"
  /\ next' = [next EXCEPT ![cprev[c]] = cnode[c]]
  /\ cpc' = [cpc EXCEPT ![c] = "fence"]
  /\ UNCHANGED <<live, head, tail, pending, done, mtx, wpc, wnext,
                 cprev, cnode, callow, dpc, queue>>

(* Mutant of EnqueueFence: no critical section between link and notify. *)
EnqueueUnfenced(c) ==
  /\ cpc[c] = "fence"
  /\ cpc' = [cpc EXCEPT ![c] = "notify"]
  /\ UNCHANGED <<list, pending, done, mtx, wpc, wnext, cprev, cnode, callow,
                 dpc, queue>>

(* The empty critical section: it waits out a worker that has evaluated    *)
(* its predicate and is about to sleep.                                    *)
EnqueueFence(c) ==
  /\ cpc[c] = "fence" /\ mtx = "free"
  /\ cpc' = [cpc EXCEPT ![c] = "notify"]
  /\ UNCHANGED <<list, pending, done, mtx, wpc, wnext, cprev, cnode, callow,
                 dpc, queue>>

(* cv.notify_one() wakes any one sleeper, worker or caller of sync. *)
EnqueueNotify(c) ==
  /\ cpc[c] = "notify"
  /\ \/ /\ wpc = "asleep"
        /\ wpc' = "lock"
        /\ cpc' = [cpc EXCEPT ![c] = "idle"]
     \/ \E d \in Client :
          /\ cpc[d] = "asleep"
          /\ cpc' = [cpc EXCEPT ![c] = "idle", ![d] = "lock"]
          /\ wpc' = wpc
     \/ /\ wpc # "asleep" /\ \A d \in Client : cpc[d] # "asleep"
        /\ cpc' = [cpc EXCEPT ![c] = "idle"]
        /\ wpc' = wpc
  /\ UNCHANGED <<list, pending, done, mtx, wnext, cprev, cnode, callow,
                 dpc, queue>>

-----------------------------------------------------------------------------
(* sync(allow_n_pending), run by client c *)
SyncCall(c) ==
  /\ dpc = "none" /\ cpc[c] = "idle"
  /\ \E n \in Allow : callow' = [callow EXCEPT ![c] = n]
  /\ cpc' = [cpc EXCEPT ![c] = "lock"]
  /\ UNCHANGED <<list, pending, done, mtx, wpc, wnext, cprev, cnode, dpc, queue>>

(* The mutex is taken on entry, and again after every wake-up. *)
SyncLock(c) ==
  /\ cpc[c] = "lock" /\ mtx = "free"
  /\ mtx' = c
  /\ cpc' = [cpc EXCEPT ![c] = "check"]
  /\ UNCHANGED <<list, pending, done, wpc, wnext, cprev, cnode, callow,
                 dpc, queue>>

(* Mutant of SyncPredicate: one task too many is tolerated. *)
SyncPredicateLax(c) == pending <= callow[c] + 1 \/ done

SyncPredicate(c) == pending <= callow[c] \/ done

SyncReturn(c) ==
  /\ cpc[c] = "check" /\ SyncPredicate(c)
  /\ mtx' = "free"
  /\ cpc' = [cpc EXCEPT ![c] = "idle"]
  /\ UNCHANGED <<list, pending, done, wpc, wnext, cprev, cnode, callow,
                 dpc, queue>>

SyncBlock(c) ==
  /\ cpc[c] = "check" /\ ~SyncPredicate(c)
  /\ cpc' = [cpc EXCEPT ![c] = "presleep"]
  /\ UNCHANGED <<list, pending, done, mtx, wpc, wnext, cprev, cnode, callow,
                 dpc, queue>>

(* cv.wait releases the mutex and goes to sleep in one step. *)
SyncSleep(c) ==
  /\ cpc[c] = "presleep"
  /\ mtx' = "free"
  /\ cpc' = [cpc EXCEPT ![c] = "asleep"]
  /\ UNCHANGED <<list, pending, done, wpc, wnext, cprev, cnode, callow,
                 dpc, queue>>

-----------------------------------------------------------------------------
(* worker() *)
WorkerLoop ==
  /\ wpc = "loop"
  /\ wpc' = IF done THEN "exit" ELSE "read"
  /\ UNCHANGED <<list, pending, done, mtx, wnext, cvars, dpc, queue>>

(* next = curr->next: start the task, or prepare to sleep *)
WorkerRead ==
  /\ wpc = "read"
  /\ wnext' = next[head]
  /\ wpc' = IF next[head] # Null THEN "run" ELSE "lock"
  /\ UNCHANGED <<list, pending, done, mtx, cvars, dpc, queue>>

(* next->task() has returned *)
WorkerFinish ==
  /\ wpc = "run"
  /\ wpc' = "advance"
  /\ queue' = Tail(queue)
  /\ UNCHANGED <<list, pending, done, mtx, wnext, cvars, dpc>>

(* Mutant of WorkerAdvance: it deletes the node it has just executed, not  *)
(* the one before it.                                                      *)
WorkerAdvanceEager ==
  /\ wpc = "advance"
  /\ live' = live \ {wnext}
  /\ head' = wnext
  /\ wpc' = "dec"
  /\ UNCHANGED <<next, tail, pending, done, mtx, wnext, cvars, dpc, queue>>

(* delete curr; curr = next; head.store(curr) *)
WorkerAdvance ==
  /\ wpc = "advance"
  /\ live' = live \ {head}
  /\ head' = wnext
  /\ wpc' = "dec"
  /\ UNCHANGED <<next, tail, pending, done, mtx, wnext, cvars, dpc, queue>>

(* Mutants of WorkerDecrement: the task stays counted; the subtraction     *)
(* does not take the mutex.                                                *)
WorkerNoDecrement ==
  /\ wpc = "dec" /\ mtx = "free"
  /\ wpc' = "broadcast"
  /\ UNCHANGED <<list, pending, done, mtx, wnext, cvars, dpc, queue>>

WorkerDecrementUnlocked ==
  /\ wpc = "dec"
  /\ pending' = pending - 1
  /\ wpc' = "broadcast"
  /\ UNCHANGED <<list, done, mtx, wnext, cvars, dpc, queue>>

(* { lock; pending.fetch_sub(1) } *)
WorkerDecrement ==
  /\ wpc = "dec" /\ mtx = "free"
  /\ pending' = pending - 1
  /\ wpc' = "broadcast"
  /\ UNCHANGED <<list, done, mtx, wnext, cvars, dpc, queue>>

WakeAllClients ==
  [c \in Client |-> IF cpc[c] = "asleep" THEN "lock" ELSE cpc[c]]

(* cv.notify_all() *)
WorkerBroadcast ==
  /\ wpc = "broadcast"
  /\ cpc' = WakeAllClients
  /\ wpc' = "loop"
  /\ UNCHANGED <<list, pending, done, mtx, wnext, cprev, cnode, callow,
                 dpc, queue>>

WorkerLock ==
  /\ wpc = "lock" /\ mtx = "free"
  /\ mtx' = "worker"
  /\ wpc' = "check"
  /\ UNCHANGED <<list, pending, done, wnext, cvars, dpc, queue>>

WorkerPredicate == next[head] # Null \/ done

WorkerCheck ==
  /\ wpc = "check"
  /\ IF WorkerPredicate THEN wpc' = "loop" /\ mtx' = "free"
                        ELSE wpc' = "presleep" /\ mtx' = mtx
  /\ UNCHANGED <<list, pending, done, wnext, cvars, dpc, queue>>

WorkerSleep ==
  /\ wpc = "presleep"
  /\ mtx' = "free"
  /\ wpc' = "asleep"
  /\ UNCHANGED <<list, pending, done, wnext, cvars, dpc, queue>>

-----------------------------------------------------------------------------
(* A condition variable may wake a sleeper for no reason. *)
SpuriousWakeup ==
  /\ \/ \E c \in Client : /\ cpc[c] = "asleep"
                          /\ cpc' = [cpc EXCEPT ![c] = "lock"]
                          /\ wpc' = wpc
     \/ wpc = "asleep" /\ wpc' = "lock" /\ cpc' = cpc
  /\ UNCHANGED <<list, pending, done, mtx, wnext, cprev, cnode, callow,
                 dpc, queue>>

-----------------------------------------------------------------------------
(* Mutant of DtorSetDone: done is set without the mutex. *)
DtorSetDoneUnlocked ==
  /\ dpc = "none" /\ \A c \in Client : cpc[c] = "idle"
  /\ done' = TRUE
  /\ dpc' = "notify"
  /\ UNCHANGED <<list, pending, mtx, wpc, wnext, cvars, queue>>

(* ~TaskQueue().  Its owner calls it when no other call is in progress;    *)
(* tasks may still be queued, and are dropped.                             *)
DtorSetDone ==
  /\ dpc = "none" /\ \A c \in Client : cpc[c] = "idle"
  /\ mtx = "free"
  /\ done' = TRUE
  /\ dpc' = "notify"
  /\ UNCHANGED <<list, pending, mtx, wpc, wnext, cvars, queue>>

DtorNotify ==
  /\ dpc = "notify"
  /\ wpc' = IF wpc = "asleep" THEN "lock" ELSE wpc
  /\ cpc' = WakeAllClients
  /\ dpc' = "join"
  /\ UNCHANGED <<list, pending, done, mtx, wnext, cprev, cnode, callow, queue>>

(* The nodes a walk along next from n visits. *)
Reachable(n) ==
  {m \in Node : \A S \in SUBSET Node :
     (n \in S /\ \A k \in S : next[k] # Null => next[k] \in S) => m \in S}

(* join() has returned; every node from head on is deleted. *)
DtorFree ==
  /\ dpc = "join" /\ wpc = "exit"
  /\ live' = live \ Reachable(head)
  /\ dpc' = "gone"
  /\ UNCHANGED <<next, head, tail, pending, done, mtx, wpc, wnext, cvars, queue>>

Destroyed == dpc = "gone" /\ UNCHANGED vars

-----------------------------------------------------------------------------
ClientCall(c) == EnqueueCount(c) \/ SyncCall(c)

ClientStep(c) ==
  \/ EnqueueExchange(c) \/ EnqueueLink(c) \/ EnqueueFence(c) \/ EnqueueNotify(c)
  \/ SyncLock(c) \/ SyncReturn(c) \/ SyncBlock(c) \/ SyncSleep(c)

WorkerStep ==
  \/ WorkerLoop \/ WorkerRead \/ WorkerFinish \/ WorkerAdvance
  \/ WorkerDecrement \/ WorkerBroadcast
  \/ WorkerLock \/ WorkerCheck \/ WorkerSleep

DtorStep == DtorSetDone \/ DtorNotify \/ DtorFree

Next == \/ \E c \in Client : ClientCall(c) \/ ClientStep(c)
        \/ WorkerStep
        \/ SpuriousWakeup
        \/ DtorStep
        \/ Destroyed

Spec == Init /\ [][Next]_vars

(* A thread that can step does, tasks return, and a thread blocked on the  *)
(* mutex gets it if the mutex keeps becoming free.  Nobody is obliged to   *)
(* call enqueue, sync or the destructor.                                   *)
Fairness == /\ \A c \in Client : /\ WF_vars(ClientStep(c))
                                 /\ SF_vars(SyncLock(c))
                                 /\ SF_vars(EnqueueFence(c))
            /\ WF_vars(WorkerStep)
            /\ SF_vars(WorkerLock)
            /\ SF_vars(WorkerDecrement)
            /\ WF_vars(DtorNotify \/ DtorFree)

FairSpec == Spec /\ Fairness

-----------------------------------------------------------------------------
InSync == {"lock", "check", "presleep", "asleep"}

(* Every variable of task_queue.h, and the locals of enqueue, sync and     *)
(* worker, have the type their declarations give them.                     *)
TypeOK ==
  /\ next \in [Node -> Node \cup {Null}] /\ live \subseteq Node
  /\ head \in Node /\ tail \in Node
  /\ pending \in Nat /\ done \in BOOLEAN
  /\ mtx \in Client \cup {"worker", "free"}
  /\ wpc \in WorkerPC /\ wnext \in Node \cup {Null}
  /\ cpc \in [Client -> ClientPC]
  /\ cprev \in [Client -> Node \cup {Null}]
  /\ cnode \in [Client -> Node \cup {Null}]
  /\ callow \in [Client -> Allow \cup {0}]
  /\ dpc \in {"none", "notify", "join", "gone"}
  /\ queue \in Seq(Node)

(* pending, which sync trusts, counts exactly the accepted unfinished      *)
(* tasks, plus the enqueues that have counted but not swapped the tail,    *)
(* plus the finished task the worker has yet to subtract.                  *)
Counted == {c \in Client : cpc[c] = "exchange"}
PendingExact ==
  pending = Cardinality(Counted) + Len(queue)
            + (IF wpc \in {"advance", "dec"} THEN 1 ELSE 0)

(* No thread holds a pointer to a freed node it is still going to use: not *)
(* enqueue's prev before prev->next.store, not the worker's curr and next, *)
(* not the shared tail.                                                    *)
NoUseAfterFree ==
  dpc # "gone" =>
    /\ {head, tail} \subseteq live
    /\ \A c \in Client : cpc[c] = "link" => {cprev[c], cnode[c]} \subseteq live
    /\ wpc \in {"run", "advance"} => wnext \in live

(* The queue is a first-in first-out executor whose sync(n) returns only   *)
(* when at most n accepted tasks are unfinished (TaskFifo).                *)
Fifo == INSTANCE TaskFifo WITH
          Task <- Node,
          running <- IF wpc = "run" THEN wnext ELSE Null,
          waiting <- [c \in Client |-> IF cpc[c] \in InSync
                                      THEN callow[c] ELSE Null],
          closed <- done
ImplementsFifo == Fifo!Spec

(* Every call of sync returns: "The CPUInfer.sync() call blocks until      *)
(* pending tasks complete" (python/utils/amx.py:964), and they do.         *)
SyncReturns == \A c \in Client : cpc[c] \in InSync ~> cpc[c] = "idle"

(* Every accepted task is executed, unless the queue is destroyed first:   *)
(* no wake-up of the worker is lost.                                       *)
TasksFinish == \A n \in Node : (\E i \in DOMAIN queue : queue[i] = n)
                 ~> (done \/ \A i \in DOMAIN queue : queue[i] # n)

(* The destructor's join returns, whatever the worker was doing when done  *)
(* was set.                                                                *)
DtorCompletes == dpc = "notify" ~> dpc = "gone"
=============================================================================
