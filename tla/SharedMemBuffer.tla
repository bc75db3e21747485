--------------------------- MODULE SharedMemBuffer --------------------------
(***************************************************************************)
(* cpu_backend/shared_mem_buffer.{h,cpp}: the arena that the layers of a   *)
(* NUMA node lay their scratch buffers over.  A constructor asks for a     *)
(* list of sizes, with the addresses of the pointers to set; an object     *)
(* that needs more than there is replaces the arena, and the pointers of   *)
(* all earlier ones are set again.  SharedMemBufferNuma is one of these    *)
(* for each node, behind a mutex held for the whole call.                  *)
(*                                                                         *)
(* Nothing tells the arena that an object is gone, and the allocator may   *)
(* put the next object where the last one was.                             *)
(***************************************************************************)
EXTENDS Integers, Sequences

CONSTANTS Address,    \* where objects live
          Request,    \* the lists of sizes that constructors ask for
          Nothing,    \* no object lives there
          TotalSize,  \* MemoryRequest::total_size
          MaxAllocs   \* bound on the number of constructor calls

ASSUME RequestAssumption ==
  /\ TotalSize \in [Request -> Nat]
  /\ Nothing \notin Request
  /\ MaxAllocs \in Nat

VARIABLES buffer,           \* the current block; older numbers are freed
          size,             \* its size
          object_requests,  \* every request ever made, with its address
          live,             \* the request of the object at each address
          pointers          \* block and request the pointers there are set for

vars == <<buffer, size, object_requests, live, pointers>>

Init == /\ buffer = 0 /\ size = 0              \* nullptr
        /\ object_requests = <<>>
        /\ live = [a \in Address |-> Nothing]
        /\ pointers = [a \in Address |-> <<0, Nothing>>]

(* update_base_ptr of each request in turn: the last one for an address is *)
(* the one that stays.  Mutant: the loop runs the other way.               *)
IsFirst(reqs, a, k) == reqs[k].at = a /\ \A j \in DOMAIN reqs : reqs[j].at = a => k <= j
IsLast(reqs, a, k) == reqs[k].at = a /\ \A j \in DOMAIN reqs : reqs[j].at = a => j <= k

UpdateAll(reqs, block) ==
  [a \in Address |->
     IF \E k \in DOMAIN reqs : reqs[k].at = a
       THEN <<block, reqs[CHOOSE k \in DOMAIN reqs : IsLast(reqs, a, k)].req>>
       ELSE pointers[a]]

(* A constructor calls alloc(this, r). *)
Construct(a, r) ==
  LET reqs == Append(object_requests, [at |-> a, req |-> r])
  IN  /\ live[a] = Nothing
      /\ Len(object_requests) < MaxAllocs
      /\ live' = [live EXCEPT ![a] = r]
      /\ object_requests' = reqs
      /\ \/ /\ TotalSize[r] > size
            /\ buffer' = buffer + 1
            /\ size' = TotalSize[r]
            /\ pointers' = UpdateAll(reqs, buffer + 1)
         \/ /\ TotalSize[r] <= size
            /\ pointers' = [pointers EXCEPT ![a] = <<buffer, r>>]
            /\ UNCHANGED <<buffer, size>>

Destroy(a) ==
  /\ live[a] # Nothing
  /\ live' = [live EXCEPT ![a] = Nothing]
  /\ UNCHANGED <<buffer, size, object_requests, pointers>>

Next == \E a \in Address : Destroy(a) \/ \E r \in Request : Construct(a, r)

Spec == Init /\ [][Next]_vars

-----------------------------------------------------------------------------
(* The pointers of every object that still exists lead into the block in   *)
(* use, are laid out for its own sizes, and fit: growth for another        *)
(* object, and requests left behind by an object that was at the same      *)
(* address, do not spoil them.                                             *)
PointersCurrent ==
  \A a \in Address : live[a] # Nothing =>
    pointers[a] = <<buffer, live[a]>> /\ TotalSize[live[a]] <= size
=============================================================================
