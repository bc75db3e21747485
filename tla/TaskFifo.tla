------------------------------ MODULE TaskFifo ------------------------------
(***************************************************************************)
(* What cpu_backend/task_queue.h promises its callers, without saying how: *)
(* tasks run one at a time in the order in which they were accepted, and   *)
(* sync(n) gives control back only at a moment when at most n accepted     *)
(* tasks are unfinished, or after the queue has been closed.  TaskQueue    *)
(* implements this specification.                                          *)
(***************************************************************************)
EXTENDS Naturals, Sequences

CONSTANTS Client,   \* threads that call enqueue and sync
          Task,     \* identities of the tasks in flight
          Null,     \* no task
          Allow     \* values of allow_n_pending the callers use

VARIABLES queue,    \* accepted tasks that have not finished, oldest first
          running,  \* the task being executed, or Null
          waiting,  \* allow_n_pending of the client inside sync, or Null
          closed    \* the destructor has begun

vars == <<queue, running, waiting, closed>>

Init == /\ queue = <<>>
        /\ running = Null
        /\ waiting = [c \in Client |-> Null]
        /\ closed = FALSE

(* A task is accepted when enqueue swaps the tail pointer. *)
Accept(t) == /\ queue' = Append(queue, t)
             /\ UNCHANGED <<running, waiting, closed>>

(* The oldest unfinished task, and only that one, may be executed. *)
Start == /\ queue # <<>>
         /\ running = Null
         /\ running' = Head(queue)
         /\ UNCHANGED <<queue, waiting, closed>>

Finish == /\ queue # <<>>
          /\ running = Head(queue)
          /\ queue' = Tail(queue)
          /\ running' = Null
          /\ UNCHANGED <<waiting, closed>>

SyncCall(c, n) == /\ waiting[c] = Null
                  /\ waiting' = [waiting EXCEPT ![c] = n]
                  /\ UNCHANGED <<queue, running, closed>>

SyncReturn(c) == /\ waiting[c] # Null
                 /\ Len(queue) <= waiting[c] \/ closed
                 /\ waiting' = [waiting EXCEPT ![c] = Null]
                 /\ UNCHANGED <<queue, running, closed>>

Close == /\ closed' = TRUE
         /\ UNCHANGED <<queue, running, waiting>>

Next == \/ \E t \in Task : Accept(t)
        \/ Start \/ Finish
        \/ \E c \in Client : SyncReturn(c) \/ \E n \in Allow : SyncCall(c, n)
        \/ Close

Spec == Init /\ [][Next]_vars
=============================================================================
