--------------------------- MODULE SchedulerProofs --------------------------
(***************************************************************************)
(* Machine-checked theorems about Scheduler, for any number of queries,    *)
(* any requests, any sizes of chunks, batches, pages and of the cache.     *)
(***************************************************************************)
EXTENDS Scheduler, Integers, SequenceTheorems, FiniteSetTheorems, TLAPS

-----------------------------------------------------------------------------
(* The types, as far as the argument needs them.  A plan position and the  *)
(* length of a chunk are known to be integers only.                        *)
Task == [id : Queries, start : Int, length : Int]
Batch == [prefills : SUBSET Task, decodes : SUBSET Queries]
Update == [id : Queries, position : Int, done : BOOLEAN]
Events == [kind : {"Schedule", "QueryStatus"}]
            \cup [kind : {"AddQuery", "Prepared"}, q : Queries]
            \cup [kind : {"Prepare"}, q : Queries, firstTry : BOOLEAN]
            \cup [kind : {"Update"}, updates : SUBSET Update]
            \cup [kind : {"TakenBatch"}, batch : Batch]
Early == {"None", "Received", "Preparing"}

TypeInv ==
  /\ requests \in Seq(Requests) /\ Len(requests) <= NumQueries
  /\ events \in Seq(Events)
  /\ status \in [Queries -> Early \cup {"Prefill", "Decode", "Done"}]
  /\ plan \in [Queries -> Int] /\ DOMAIN handle = Queries
  /\ waitQueue \in Seq(Queries) /\ readyQueue \in Seq(Queries)
  /\ waitDone \in Queries \cup {0} /\ active \in SUBSET Queries
  /\ slot \in [batch : Batch, isNew : BOOLEAN]
  /\ engine \in {"run", "poll", "announce"}
  /\ running \in Batch /\ taken \in Batch
  /\ position \in [Queries -> Int]

(* Before its prefill a query is in one place: an event, a queue, or the   *)
(* preparation that waits for pages.                                       *)
Queued(e) == e.kind \in {"AddQuery", "Prepare", "Prepared"}
QueuedIn(es, q) == \E j \in DOMAIN es : Queued(es[j]) /\ es[j].q = q
OnceQueued(es) ==
  \A i, j \in DOMAIN es : Queued(es[i]) /\ Queued(es[j]) /\ es[i].q = es[j].q => i = j
In(s, q) == \E j \in DOMAIN s : s[j] = q
Once(s) == \A i, j \in DOMAIN s : s[i] = s[j] => i = j

PlaceInv ==
  /\ OnceQueued(events) /\ Once(waitQueue) /\ Once(readyQueue)
  /\ \A q \in Queries :
       /\ ~ (QueuedIn(events, q) /\ In(waitQueue, q))
       /\ ~ (QueuedIn(events, q) /\ In(readyQueue, q))
       /\ ~ (In(waitQueue, q) /\ In(readyQueue, q))
       /\ waitDone = q => ~ (QueuedIn(events, q) \/ In(waitQueue, q) \/ In(readyQueue, q))
       /\ QueuedIn(events, q) \/ In(waitQueue, q) \/ In(readyQueue, q) \/ waitDone = q =>
            q \in DOMAIN requests /\ status[q] \in Early
       /\ status[q] # "None" => q \in DOMAIN requests

(* What is ready owns pages. *)
ReadyInv ==
  /\ \A j \in DOMAIN events : events[j].kind = "Prepared" => handle[events[j].q] # << >>
  /\ \A j \in DOMAIN readyQueue : handle[readyQueue[j]] # << >>

(* A batch holds a query once, and no chunk goes past the prompt. *)
Chunked(b, q) == \E t \in b.prefills : t.id = q
BatchInv(reqs, b) ==
  /\ \A t \in b.prefills : /\ t.id \in DOMAIN reqs /\ t.id \notin b.decodes
                           /\ t.start + t.length <= reqs[t.id].prompt
  /\ \A t, u \in b.prefills : t.id = u.id => t = u
  /\ b.decodes \subseteq DOMAIN reqs

(* ... and the updates are those of such batches. *)
EventInv(reqs, e) ==
  /\ e.kind = "TakenBatch" => BatchInv(reqs, e.batch)
  /\ e.kind = "Update" => \A u \in e.updates : u.id \in DOMAIN reqs

BatchesInv ==
  /\ BatchInv(requests, slot.batch) /\ BatchInv(requests, taken) /\ BatchInv(requests, running)
  /\ \A j \in DOMAIN events : EventInv(requests, events[j])

(* The batches are announced, and their updates handed in, in the order in *)
(* which they are taken, and a query is in no prefill after a decode: when *)
(* an update ends a query, all its prefill chunks have been announced.     *)
TakesChunk(j, q) == events[j].kind = "TakenBatch" /\ Chunked(events[j].batch, q)
Ends(j, q) ==
  /\ events[j].kind = "Update"
  /\ \E u \in events[j].updates :
       u.id = q /\ (u.done \/ u.position = requests[q].estimated - 1)
ChunkToCome(q) == \/ engine = "announce" /\ Chunked(taken, q)
                  \/ slot.isNew /\ Chunked(slot.batch, q)
EndToCome(q) == q \in running.decodes \/ \E j \in DOMAIN events : Ends(j, q)
DecodeToCome(q) == \/ EndToCome(q) \/ q \in taken.decodes
                   \/ slot.isNew /\ q \in slot.batch.decodes

OrderInv ==
  \A q \in Queries \ skewed :
    /\ \A i, j \in DOMAIN events : TakesChunk(i, q) /\ Ends(j, q) => i < j
    /\ EndToCome(q) \/ status[q] = "Done" => ~ChunkToCome(q)
    /\ status[q] = "Done" => \A i \in DOMAIN events : ~TakesChunk(i, q)
    /\ q \in taken.decodes => ~ (slot.isNew /\ Chunked(slot.batch, q))
    /\ DecodeToCome(q) => status[q] \in {"Decode", "Done"}

(* A prefill chunk is one of a query that has been started. *)
StartedInv ==
  \A q \in Queries :
    ChunkToCome(q) \/ (\E i \in DOMAIN events : TakesChunk(i, q)) => status[q] \notin Early

(* A query has ended when the scheduler knows or will be told so.  From    *)
(* then on it is planned at most once more: there is one Schedule event at *)
(* most, and one that comes after the end plans nothing for the query.     *)
Ended(q) == status[q] = "Done" \/ \E j \in DOMAIN events : Ends(j, q)
IsSchedule(j) == events[j].kind = "Schedule"
MayPlan(q) == /\ status[q] # "Done"
              /\ \E i \in DOMAIN events :
                   IsSchedule(i) /\ \A j \in DOMAIN events : Ends(j, q) => i < j

OneScheduleInv ==
  /\ \A i, j \in DOMAIN events : IsSchedule(i) /\ IsSchedule(j) => i = j
  /\ loop = "enqueue" => \A i \in DOMAIN events : ~ IsSchedule(i)

(* The engine holds no prefill chunk of a query that has ended or decodes. *)
(* (While it polls, the taken batch is the running one.)                   *)
ChunkInv ==
  \A q \in Queries \ skewed :
    /\ Ended(q) \/ q \in running.decodes => ~ (engine # "poll" /\ Chunked(taken, q))
    /\ Ended(q) => ~ Chunked(running, q)

(* The decodes to come of a query that has ended: running, taken,          *)
(* published, and to be planned                                            *)
Count(p) == IF p THEN 1 ELSE 0
Left(q) == Count(q \in running.decodes) + Count(engine # "poll" /\ q \in taken.decodes)
             + Count(slot.isNew /\ q \in slot.batch.decodes) + Count(MayPlan(q))
CountInv ==
  \A q \in Queries \ skewed :
    /\ q \notin DOMAIN requests => position[q] = 0
    /\ q \in DOMAIN requests /\ requests[q].estimated >= requests[q].prompt + 4 =>
         /\ ~ Ended(q) => position[q] <= requests[q].estimated - 4
         /\ Ended(q) => position[q] + Left(q) <= requests[q].estimated

EstimateInv == OneScheduleInv /\ ChunkInv /\ CountInv

IInv ==
  /\ TypeInv /\ PlaceInv /\ ReadyInv /\ BatchesInv /\ StartedInv /\ OrderInv
  /\ EstimateInv /\ LiveHandles

-----------------------------------------------------------------------------
(* Sequences *)

(* A turn of the event loop: the first event goes, `more' comes. *)
Turned(es, next, more) ==
  /\ next \in Seq(Events)
  /\ DOMAIN next \subseteq Nat \ {0}
  /\ \A j \in DOMAIN next :
       \/ j + 1 \in DOMAIN es /\ next[j] = es[j + 1]
       \/ \E k \in DOMAIN more : j = Len(es) - 1 + k /\ next[j] = more[k]

LEMMA TurnOf ==
  ASSUME NEW es \in Seq(Events), es # << >>, NEW more \in Seq(Events),
         NEW next, next = Tail(es) \o more
  PROVE  Turned(es, next, more) /\ Len(es) \in Nat \ {0} /\ es[1] = Head(es) /\ DOMAIN es = 1 .. Len(es)
<1>1. /\ Len(es) \in Nat \ {0} /\ Len(more) \in Nat /\ Tail(es) \in Seq(Events)
      /\ Len(Tail(es)) = Len(es) - 1 /\ DOMAIN es = 1 .. Len(es) /\ DOMAIN more = 1 .. Len(more)
      /\ \A j \in 1 .. (Len(es) - 1) : Tail(es)[j] = es[j + 1]
      /\ es[1] = Head(es)
  BY HeadTailProperties
<1>2. /\ next \in Seq(Events) /\ Len(next) = Len(es) - 1 + Len(more)
      /\ \A j \in 1 .. Len(next) : next[j] = IF j <= Len(es) - 1 THEN Tail(es)[j]
                                                ELSE more[j - (Len(es) - 1)]
      /\ DOMAIN next = 1 .. Len(next)
  BY <1>1, ConcatProperties
<1>3. ASSUME NEW j \in DOMAIN next
      PROVE  /\ j \in Nat \ {0}
             /\ \/ j + 1 \in DOMAIN es /\ next[j] = es[j + 1]
                \/ \E k \in DOMAIN more : j = Len(es) - 1 + k /\ next[j] = more[k]
  <2>1. j \in 1 .. Len(next) /\ j \in Nat \ {0}
    BY <1>1, <1>2
  <2>2. CASE j <= Len(es) - 1
    <3>1. j \in 1 .. (Len(es) - 1) /\ j + 1 \in 1 .. Len(es)
      BY <1>1, <2>1, <2>2
    <3>2. QED BY <1>1, <1>2, <2>1, <2>2, <3>1
  <2>3. CASE ~ (j <= Len(es) - 1)
    <3>1. j - (Len(es) - 1) \in 1 .. Len(more) /\ j = Len(es) - 1 + (j - (Len(es) - 1))
      BY <1>1, <1>2, <2>1, <2>3
    <3>2. next[j] = more[j - (Len(es) - 1)]
      BY <1>2, <2>1, <2>3
    <3>3. QED BY <1>1, <2>1, <3>1, <3>2
  <2>4. QED BY <2>2, <2>3
<1>4. QED BY <1>1, <1>2, <1>3 DEF Turned

(* Where the queries of the events are after a turn that brings at most    *)
(* one event.                                                              *)
LEMMA TurnQueued ==
  ASSUME NEW es \in Seq(Events), es # << >>, NEW next, NEW more,
         Turned(es, next, more), OnceQueued(es),
         DOMAIN more \subseteq {1} \/ \A k \in DOMAIN more : ~ Queued(more[k]),
         \A k \in DOMAIN more : Queued(more[k]) =>
            ~ QueuedIn(es, more[k].q) \/ (Queued(es[1]) /\ es[1].q = more[k].q)
  PROVE  /\ OnceQueued(next)
         /\ \A q : QueuedIn(next, q) =>
              \/ QueuedIn(es, q) /\ ~ (Queued(es[1]) /\ es[1].q = q)
              \/ \E k \in DOMAIN more : Queued(more[k]) /\ more[k].q = q
<1>1. Len(es) \in Nat \ {0} /\ DOMAIN es = 1 .. Len(es) /\ 1 \in DOMAIN es
  BY EmptySeq
<1>2. ASSUME NEW j \in DOMAIN next, j + 1 \in DOMAIN es, next[j] = es[j + 1], Queued(next[j])
      PROVE  /\ QueuedIn(es, next[j].q) /\ ~ (Queued(es[1]) /\ es[1].q = next[j].q)
             /\ \A k \in DOMAIN more : Queued(more[k]) => more[k].q # next[j].q
  <2>1. j + 1 # 1
    BY DEF Turned
  <2>2. QueuedIn(es, next[j].q)
    BY <1>2 DEF QueuedIn
  <2>3. ~ (Queued(es[1]) /\ es[1].q = next[j].q)
    BY <1>1, <1>2, <2>1 DEF OnceQueued
  <2>4. QED BY <2>2, <2>3
<1>3. ASSUME NEW i \in DOMAIN next, NEW j \in DOMAIN next,
             Queued(next[i]), Queued(next[j]), next[i].q = next[j].q
      PROVE  i = j
  <2>1. CASE (i + 1 \in DOMAIN es /\ next[i] = es[i + 1]) /\ (j + 1 \in DOMAIN es /\ next[j] = es[j + 1])
    <3>1. i + 1 = j + 1
      BY <1>3, <2>1 DEF OnceQueued
    <3>2. QED BY <3>1 DEF Turned
  <2>2. CASE /\ \E k \in DOMAIN more : i = Len(es) - 1 + k /\ next[i] = more[k]
             /\ \E k \in DOMAIN more : j = Len(es) - 1 + k /\ next[j] = more[k]
    BY <1>3, <2>2
  <2>3. CASE /\ i + 1 \in DOMAIN es /\ next[i] = es[i + 1]
             /\ \E k \in DOMAIN more : next[j] = more[k]
    BY <1>2, <1>3, <2>3
  <2>4. CASE /\ j + 1 \in DOMAIN es /\ next[j] = es[j + 1]
             /\ \E k \in DOMAIN more : next[i] = more[k]
    BY <1>2, <1>3, <2>4
  <2>5. QED BY <2>1, <2>2, <2>3, <2>4 DEF Turned
<1>4. ASSUME NEW q, QueuedIn(next, q)
      PROVE  \/ QueuedIn(es, q) /\ ~ (Queued(es[1]) /\ es[1].q = q)
             \/ \E k \in DOMAIN more : Queued(more[k]) /\ more[k].q = q
  BY <1>2, <1>4 DEF QueuedIn, Turned
<1>5. QED BY <1>3, <1>4 DEF OnceQueued

LEMMA OnceAppend ==
  ASSUME NEW s \in Seq(Queries), Once(s), NEW q \in Queries, ~ In(s, q), NEW t, t = Append(s, q)
  PROVE  t \in Seq(Queries) /\ Once(t) /\ \A r : In(t, r) <=> In(s, r) \/ r = q
<1>1. /\ t \in Seq(Queries) /\ Len(s) \in Nat /\ DOMAIN t = 1 .. (Len(s) + 1) /\ DOMAIN s = 1 .. Len(s)
      /\ t[Len(s) + 1] = q /\ \A j \in 1 .. Len(s) : t[j] = s[j]
  BY AppendProperties
<1>2. \A j \in DOMAIN t : j \in DOMAIN s \/ j = Len(s) + 1
  BY <1>1
<1>3. DOMAIN s \subseteq DOMAIN t /\ Len(s) + 1 \in DOMAIN t
  BY <1>1
<1>4. Once(t)
  BY <1>1, <1>2 DEF Once, In
<1>5. \A r : In(t, r) <=> In(s, r) \/ r = q
  BY <1>1, <1>2, <1>3 DEF In
<1>6. QED BY <1>1, <1>4, <1>5

(* What is left of a queue without its first k elements *)
LEMMA OnceRest ==
  ASSUME NEW s \in Seq(Queries), Once(s), NEW k \in 0 .. Len(s), NEW t, t = SubSeq(s, k + 1, Len(s))
  PROVE  /\ t \in Seq(Queries) /\ Once(t)
         /\ \A r : In(t, r) => In(s, r) /\ \A j \in 1 .. k : s[j] # r
<1>1. Len(s) \in Nat /\ DOMAIN s = 1 .. Len(s) /\ k \in Nat
  OBVIOUS
<1>2. /\ t \in Seq(Queries) /\ DOMAIN t = 1 .. (Len(s) - k)
      /\ \A j \in 1 .. (Len(s) - k) : t[j] = s[j + k]
  <2>1. k + 1 \in 1 .. (Len(s) + 1) /\ Len(s) \in (k + 1) - 1 .. Len(s) /\ Len(s) - (k + 1) + 1 = Len(s) - k
    BY <1>1
  <2>2. /\ t \in Seq(Queries) /\ Len(t) = Len(s) - k
        /\ \A j \in 1 .. (Len(s) - k) : t[j] = s[(k + 1) + j - 1]
    <3>1. k + 1 \in Int /\ Len(s) \in Int /\ \A j \in (k + 1) .. Len(s) : s[j] \in Queries
      BY <1>1
    <3>2. /\ t \in Seq(Queries)
          /\ Len(t) = IF k + 1 <= Len(s) THEN Len(s) - (k + 1) + 1 ELSE 0
          /\ \A j \in 1 .. Len(s) - (k + 1) + 1 : t[j] = s[(k + 1) + j - 1]
      BY ONLY <3>1, t = SubSeq(s, k + 1, Len(s)), SubSeqProperties
    <3>3. /\ (IF k + 1 <= Len(s) THEN Len(s) - (k + 1) + 1 ELSE 0) = Len(s) - k
          /\ Len(s) - (k + 1) + 1 = Len(s) - k
      BY ONLY Len(s) \in Nat, k \in 0 .. Len(s)
    <3>4. QED BY ONLY <3>2, <3>3, Zenon
  <2>3. \A j \in 1 .. (Len(s) - k) : (k + 1) + j - 1 = j + k
    BY <1>1
  <2>4. QED BY <2>2, <2>3
<1>3. \A j \in DOMAIN t : j + k \in DOMAIN s /\ t[j] = s[j + k] /\ j + k \notin 1 .. k /\ j \in Nat
  BY <1>1, <1>2
<1>4. 1 .. k \subseteq DOMAIN s
  BY <1>1
<1>5. Once(t)
  <2>1. \A i, j \in DOMAIN t : i + k = j + k => i = j
    BY <1>1, <1>3
  <2>2. QED BY <1>3, <2>1 DEF Once
<1>6. \A r : In(t, r) => In(s, r) /\ \A j \in 1 .. k : s[j] # r
  BY <1>3, <1>4 DEF Once, In
<1>7. QED BY <1>2, <1>5, <1>6

LEMMA OnceTail ==
  ASSUME NEW s \in Seq(Queries), Once(s), s # << >>, NEW t, t = Tail(s)
  PROVE  /\ t \in Seq(Queries) /\ Once(t) /\ Head(s) \in Queries /\ In(s, Head(s))
         /\ \A r : In(t, r) => In(s, r) /\ r # Head(s)
<1>1. /\ Len(s) \in Nat \ {0} /\ t \in Seq(Queries) /\ Len(t) = Len(s) - 1
      /\ \A j \in 1 .. Len(t) : t[j] = s[j + 1]
      /\ Head(s) = s[1] /\ DOMAIN s = 1 .. Len(s) /\ Head(s) \in Queries
  BY HeadTailProperties
<1>2. \A j \in DOMAIN t : j + 1 \in DOMAIN s /\ t[j] = s[j + 1] /\ j \in Nat /\ j + 1 # 1
  BY <1>1
<1>3. 1 \in DOMAIN s
  BY <1>1
<1>4. Once(t)
  BY <1>2 DEF Once
<1>5. QED BY <1>1, <1>2, <1>3, <1>4 DEF Once, In

-----------------------------------------------------------------------------
(* What a turn of the event loop leaves as it was *)

Quiet(e) == e.kind \notin {"TakenBatch", "Update"}

LEMMA TurnShifts ==
  ASSUME NEW more, Turned(events, events', more), \A k \in DOMAIN more : Quiet(more[k]),
         requests' = requests
  PROVE  \A q : \A j \in DOMAIN events' : TakesChunk(j, q)' \/ Ends(j, q)' =>
           /\ j \in Nat /\ j + 1 \in DOMAIN events /\ j + 1 # 1
           /\ TakesChunk(j, q)' => TakesChunk(j + 1, q)
           /\ Ends(j, q)' => Ends(j + 1, q)
<1> SUFFICES ASSUME NEW q, NEW j \in DOMAIN events', TakesChunk(j, q)' \/ Ends(j, q)'
             PROVE  /\ j \in Nat /\ j + 1 \in DOMAIN events /\ j + 1 # 1
                    /\ TakesChunk(j, q)' => TakesChunk(j + 1, q)
                    /\ Ends(j, q)' => Ends(j + 1, q)
  OBVIOUS
<1>1. events'[j].kind \in {"TakenBatch", "Update"}
  BY DEF TakesChunk, Ends
<1>2. j \in Nat \ {0} /\ j + 1 \in DOMAIN events /\ events'[j] = events[j + 1]
  BY <1>1 DEF Turned, Quiet
<1>3. TakesChunk(j, q)' => TakesChunk(j + 1, q)
  BY <1>2 DEF TakesChunk, Chunked
<1>4. Ends(j, q)' => Ends(j + 1, q)
  BY <1>2 DEF Ends
<1>5. QED BY <1>2, <1>3, <1>4

(* A turn that publishes nothing, enqueues no batch and no update, ends    *)
(* queries by updates only, and takes none back to its beginning.          *)
LEMMA OrderTurn ==
  ASSUME TypeInv, StartedInv, OrderInv, events # << >>, NEW more,
         Turned(events, events', more), \A k \in DOMAIN more : Quiet(more[k]),
         UNCHANGED <<requests, slot, engineVars>>,
         \A q \in Queries :
           /\ status'[q] = "Done" => status[q] = "Done" \/ Ends(1, q)
           /\ status[q] \in {"Decode", "Done"} => status'[q] \in {"Decode", "Done"}
           /\ status'[q] \in Early => status[q] \in Early
  PROVE  StartedInv' /\ OrderInv'
<1>1. /\ requests' = requests /\ slot' = slot /\ engine' = engine /\ running' = running
      /\ taken' = taken /\ skewed' = skewed
  BY DEF engineVars
<1>2. Len(events) \in Nat \ {0} /\ DOMAIN events = 1 .. Len(events) /\ 1 \in DOMAIN events
  BY EmptySeq DEF TypeInv
<1>3. \A q : \A j \in DOMAIN events' : TakesChunk(j, q)' \/ Ends(j, q)' =>
        /\ j \in Nat /\ j + 1 \in DOMAIN events /\ j + 1 # 1
        /\ TakesChunk(j, q)' => TakesChunk(j + 1, q)
        /\ Ends(j, q)' => Ends(j + 1, q)
  BY <1>1, TurnShifts
<1>4. ASSUME NEW q
      PROVE  /\ EndToCome(q)' => EndToCome(q)
             /\ ChunkToCome(q)' <=> ChunkToCome(q)
  <2>1. EndToCome(q)' => EndToCome(q)
    BY <1>1, <1>3 DEF EndToCome
  <2>2. ChunkToCome(q)' <=> ChunkToCome(q)
    BY <1>1 DEF ChunkToCome, Chunked
  <2>3. QED BY <2>1, <2>2
<1>5. ASSUME NEW q \in Queries \ skewed, NEW i \in DOMAIN events', NEW j \in DOMAIN events',
             TakesChunk(i, q)', Ends(j, q)'
      PROVE  i < j
  <2>1. /\ i \in Nat /\ j \in Nat /\ i + 1 \in DOMAIN events /\ j + 1 \in DOMAIN events
        /\ TakesChunk(i + 1, q) /\ Ends(j + 1, q)
    BY <1>3, <1>5
  <2>2. i + 1 < j + 1
    BY <2>1 DEF OrderInv
  <2>3. QED BY <2>1, <2>2
<1>6. ASSUME NEW q \in Queries \ skewed, Ends(1, q)
      PROVE  EndToCome(q) /\ \A i \in DOMAIN events : i # 1 => ~TakesChunk(i, q)
  <2>1. EndToCome(q)
    BY <1>2, <1>6 DEF EndToCome
  <2>2. \A i \in DOMAIN events : TakesChunk(i, q) => i < 1
    BY <1>2, <1>6 DEF OrderInv
  <2>3. \A i \in DOMAIN events : ~ (i < 1)
    BY <1>2
  <2>4. QED BY <2>1, <2>2, <2>3
<1>7. ASSUME NEW q \in Queries \ skewed
      PROVE  /\ EndToCome(q)' \/ status'[q] = "Done" => ~ChunkToCome(q)'
             /\ status'[q] = "Done" => \A i \in DOMAIN events' : ~TakesChunk(i, q)'
             /\ DecodeToCome(q)' => status'[q] \in {"Decode", "Done"}
  <2>1. EndToCome(q)' \/ status'[q] = "Done" => ~ChunkToCome(q)'
    BY <1>4, <1>6 DEF OrderInv
  <2>2. status'[q] = "Done" => \A i \in DOMAIN events' : ~TakesChunk(i, q)'
    BY <1>3, <1>6 DEF OrderInv
  <2>3. DecodeToCome(q)' => status'[q] \in {"Decode", "Done"}
    BY <1>1, <1>4 DEF OrderInv, DecodeToCome
  <2>4. QED BY <2>1, <2>2, <2>3
<1>8. ASSUME NEW q \in Queries \ skewed
      PROVE  q \in taken'.decodes => ~ (slot'.isNew /\ Chunked(slot'.batch, q))
  BY <1>1 DEF OrderInv
<1>9. ASSUME NEW q \in Queries
      PROVE  ChunkToCome(q)' \/ (\E i \in DOMAIN events' : TakesChunk(i, q)') => status'[q] \notin Early
  BY <1>3, <1>4 DEF StartedInv
<1>10. OrderInv'
  BY <1>1, <1>5, <1>7, <1>8 DEF OrderInv, Chunked
<1>11. QED BY <1>9, <1>10 DEF StartedInv

LEMMA BatchesTurn ==
  ASSUME BatchesInv, NEW more, Turned(events, events', more),
         \A k \in DOMAIN more : Quiet(more[k]),
         UNCHANGED <<requests, slot, engineVars>>
  PROVE  BatchesInv'
<1>1. requests' = requests /\ slot' = slot /\ running' = running /\ taken' = taken
  BY DEF engineVars
<1>2. ASSUME NEW j \in DOMAIN events'
      PROVE  EventInv(requests, events'[j])
  BY DEF BatchesInv, Turned, EventInv, Quiet
<1>3. QED BY <1>1, <1>2 DEF BatchesInv, BatchInv, EventInv

LEMMA ReadyTurn ==
  ASSUME NEW more, Turned(events, events', more),
         \A k \in DOMAIN more : more[k].kind = "Prepared" => handle'[more[k].q] # << >>,
         \A j \in DOMAIN events :
           j # 1 /\ events[j].kind = "Prepared" => handle'[events[j].q] # << >>,
         \A r : In(readyQueue', r) => handle'[r] # << >>
  PROVE  ReadyInv'
<1>1. ASSUME NEW j \in DOMAIN events', events'[j].kind = "Prepared"
      PROVE  handle'[events'[j].q] # << >>
  <2>1. CASE j + 1 \in DOMAIN events /\ events'[j] = events[j + 1]
    <3>1. j + 1 # 1
      BY DEF Turned
    <3>2. QED BY <1>1, <2>1, <3>1
  <2>2. CASE \E k \in DOMAIN more : events'[j] = more[k]
    BY <1>1, <2>2
  <2>3. QED BY <2>1, <2>2 DEF Turned
<1>2. \A j \in DOMAIN readyQueue' : handle'[readyQueue'[j]] # << >>
  BY DEF In
<1>3. QED BY <1>1, <1>2 DEF ReadyInv

-----------------------------------------------------------------------------
(* The handlers *)

LEMMA EventTyping ==
  ASSUME NEW e \in Events
  PROVE  /\ e.kind \in {"AddQuery", "Prepared", "Prepare"} => e.q \in Queries
         /\ e.kind = "Update" => e.updates \in SUBSET Update
         /\ e.kind = "TakenBatch" => e.batch \in Batch
BY DEF Events

LEMMA MakeEvents ==
  ASSUME NEW q \in Queries
  PROVE  /\ Event("Schedule") \in Events /\ Event("QueryStatus") \in Events
         /\ QueryEvent("AddQuery", q) \in Events /\ QueryEvent("Prepared", q) \in Events
         /\ PrepareEvent(q, TRUE) \in Events /\ PrepareEvent(q, FALSE) \in Events
         /\ Event("Schedule").kind = "Schedule" /\ Event("QueryStatus").kind = "QueryStatus"
         /\ QueryEvent("AddQuery", q).kind = "AddQuery" /\ QueryEvent("AddQuery", q).q = q
         /\ QueryEvent("Prepared", q).kind = "Prepared" /\ QueryEvent("Prepared", q).q = q
         /\ \A b \in BOOLEAN : PrepareEvent(q, b).kind = "Prepare" /\ PrepareEvent(q, b).q = q
BY DEF Events, Event, QueryEvent, PrepareEvent

LEMMA AtMostOne ==
  ASSUME NEW e \in Events
  PROVE  /\ <<e>> \in Seq(Events) /\ DOMAIN <<e>> = {1} /\ <<e>>[1] = e
         /\ << >> \in Seq(Events) /\ DOMAIN << >> = {}
OBVIOUS

LEMMA TackleTurn ==
  ASSUME TypeInv, NEW kind, NEW more \in Seq(Events), Tackle(kind, more)
  PROVE  /\ events \in Seq(Events) /\ events # << >> /\ events[1] = Head(events)
         /\ events[1] \in Events /\ events[1].kind = kind /\ 1 \in DOMAIN events
         /\ DOMAIN events = 1 .. Len(events) /\ Len(events) \in Nat \ {0}
         /\ Turned(events, events', more) /\ events' \in Seq(Events)
<1>1. /\ events # << >> /\ Head(events).kind = kind /\ events' = Tail(events) \o more
      /\ events \in Seq(Events)
  BY DEF Tackle, TypeInv
<1>2. /\ Turned(events, events', more) /\ Len(events) \in Nat \ {0} /\ events[1] = Head(events)
      /\ DOMAIN events = 1 .. Len(events)
  BY <1>1, TurnOf
<1>3. 1 \in DOMAIN events
  BY <1>2
<1>4. QED BY <1>1, <1>2, <1>3 DEF Turned

(* Every event but the first keeps its place in the order. *)
LEMMA TurnKept ==
  ASSUME NEW es \in Seq(Events), es # << >>, NEW more \in Seq(Events),
         NEW next, next = Tail(es) \o more
  PROVE  \A j \in DOMAIN es : j # 1 =>
            j \in Nat /\ j - 1 \in DOMAIN next /\ next[j - 1] = es[j]
<1>1. /\ Len(es) \in Nat \ {0} /\ Len(more) \in Nat /\ Tail(es) \in Seq(Events)
      /\ Len(Tail(es)) = Len(es) - 1 /\ DOMAIN es = 1 .. Len(es)
      /\ \A j \in 1 .. (Len(es) - 1) : Tail(es)[j] = es[j + 1]
  BY HeadTailProperties
<1>2. /\ Len(next) = Len(es) - 1 + Len(more) /\ DOMAIN next = 1 .. Len(next)
      /\ \A j \in 1 .. Len(next) : next[j] = IF j <= Len(es) - 1 THEN Tail(es)[j]
                                                ELSE more[j - (Len(es) - 1)]
  BY <1>1, ConcatProperties
<1>3. ASSUME NEW j \in DOMAIN es, j # 1
      PROVE  j \in Nat /\ j - 1 \in DOMAIN next /\ next[j - 1] = es[j]
  <2>1. /\ j \in Nat /\ j - 1 \in 1 .. (Len(es) - 1) /\ j - 1 \in 1 .. Len(next)
        /\ j - 1 <= Len(es) - 1 /\ (j - 1) + 1 = j
    BY <1>1, <1>2, <1>3
  <2>2. QED BY <1>1, <1>2, <2>1
<1>4. QED BY <1>3

(* What is left to decode does not grow with facts that do not. *)
LEMMA LeftShrinks ==
  ASSUME NEW q, q \in running'.decodes => q \in running.decodes,
         engine' # "poll" /\ q \in taken'.decodes => engine # "poll" /\ q \in taken.decodes,
         slot'.isNew /\ q \in slot'.batch.decodes => slot.isNew /\ q \in slot.batch.decodes,
         MayPlan(q)' => MayPlan(q)
  PROVE  Left(q) \in Nat /\ Left(q)' \in Nat /\ Left(q)' <= Left(q)
BY DEF Left, Count

(* A turn that does not plan *)
LEMMA EstimateTurn ==
  ASSUME TypeInv, EstimateInv, NEW kind, kind # "Schedule", NEW more \in Seq(Events),
         Tackle(kind, more),
         \A k \in DOMAIN more : Quiet(more[k]) /\ more[k].kind # "Schedule",
         UNCHANGED <<requests, slot, engineVars>>,
         \A q \in Queries \ skewed :
           status'[q] = "Done" <=> status[q] = "Done" \/ (kind = "Update" /\ Ends(1, q))
  PROVE  EstimateInv'
<1>1. /\ requests' = requests /\ slot' = slot /\ engine' = engine /\ running' = running
      /\ taken' = taken /\ skewed' = skewed /\ position' = position
  BY DEF engineVars
<1>2. /\ events # << >> /\ events \in Seq(Events) /\ Turned(events, events', more)
      /\ events' \in Seq(Events) /\ DOMAIN events = 1 .. Len(events) /\ Len(events) \in Nat \ {0}
      /\ events' = Tail(events) \o more
      /\ loop' = "enqueue" => events' = << >>
  <2>1. events' = Tail(events) \o more /\ (loop' = "enqueue" => events' = << >>)
    BY DEF Tackle
  <2>2. QED BY <2>1, TackleTurn
<1>3. \A j \in DOMAIN events : j # 1 =>
         j \in Nat /\ j - 1 \in DOMAIN events' /\ events'[j - 1] = events[j]
  BY <1>2, TurnKept
<1>4. \A q : \A j \in DOMAIN events' : TakesChunk(j, q)' \/ Ends(j, q)' =>
        /\ j \in Nat /\ j + 1 \in DOMAIN events /\ j + 1 # 1
        /\ TakesChunk(j, q)' => TakesChunk(j + 1, q)
        /\ Ends(j, q)' => Ends(j + 1, q)
  BY <1>1, <1>2, TurnShifts
<1> \A q \in Queries \ skewed : status'[q] = "Done" <=> status[q] = "Done" \/ Ends(1, q)
  BY TackleTurn DEF Ends
<1>5. ASSUME NEW j \in DOMAIN events', IsSchedule(j)'
      PROVE  j \in Nat /\ j + 1 \in DOMAIN events /\ IsSchedule(j + 1)
  BY <1>2, <1>5 DEF Turned, IsSchedule
<1>6. ASSUME NEW q, NEW j \in DOMAIN events, j # 1, Ends(j, q)
      PROVE  j \in Nat /\ j - 1 \in DOMAIN events' /\ Ends(j - 1, q)'
  <2>1. j \in Nat /\ j - 1 \in DOMAIN events' /\ events'[j - 1] = events[j]
    BY <1>3, <1>6
  <2>2. QED BY <1>1, <1>6, <2>1 DEF Ends
<1>7. OneScheduleInv'
  <2>1. ASSUME NEW i \in DOMAIN events', NEW j \in DOMAIN events', IsSchedule(i)', IsSchedule(j)'
        PROVE  i = j
    <3>1. i \in Nat /\ j \in Nat /\ i + 1 = j + 1
      BY <1>5, <2>1 DEF EstimateInv, OneScheduleInv
    <3>2. QED BY <3>1
  <2>2. loop' = "enqueue" => DOMAIN events' = {}
    BY <1>2
  <2>3. QED BY <2>1, <2>2 DEF OneScheduleInv
<1>8. ASSUME NEW q \in Queries \ skewed
      PROVE  /\ Ended(q)' <=> Ended(q)
             /\ MayPlan(q)' => MayPlan(q)
  <2>1. Ended(q)' => Ended(q)
    <3>1. 1 \in DOMAIN events
      BY <1>2
    <3>2. (\E j \in DOMAIN events' : Ends(j, q)') => \E j \in DOMAIN events : Ends(j, q)
      BY <1>4
    <3>3. QED BY <3>1, <3>2 DEF Ended
  <2>2. Ended(q) => Ended(q)'
    BY <1>6 DEF Ended
  <2>3. ASSUME MayPlan(q)' PROVE MayPlan(q)
    <3>1. PICK i \in DOMAIN events' :
             IsSchedule(i)' /\ \A j \in DOMAIN events' : Ends(j, q)' => i < j
      BY <2>3 DEF MayPlan
    <3>2. i \in Nat /\ i + 1 \in DOMAIN events /\ IsSchedule(i + 1)
      BY <1>5, <3>1
    <3>3. status[q] # "Done" /\ ~ Ends(1, q)
      BY <2>3 DEF MayPlan
    <3>4. ASSUME NEW j \in DOMAIN events, Ends(j, q)
          PROVE  i + 1 < j
      <4>1. j \in Nat /\ j - 1 \in DOMAIN events' /\ Ends(j - 1, q)'
        BY <1>6, <3>3, <3>4
      <4>2. i < j - 1
        BY <3>1, <4>1
      <4>3. QED BY <3>2, <4>1, <4>2
    <3>5. QED BY <3>2, <3>3, <3>4 DEF MayPlan
  <2>4. QED BY <2>1, <2>2, <2>3
<1>9. ChunkInv'
  BY <1>1, <1>8 DEF EstimateInv, ChunkInv, Chunked
<1>10. CountInv'
  <2>1. ASSUME NEW q \in Queries \ skewed,
               q \in DOMAIN requests, requests[q].estimated >= requests[q].prompt + 4
        PROVE  /\ ~ Ended(q)' => position[q] <= requests[q].estimated - 4
               /\ Ended(q)' => position[q] + Left(q)' <= requests[q].estimated
    <3>1. Left(q) \in Nat /\ Left(q)' \in Nat /\ Left(q)' <= Left(q)
      BY <1>1, <1>8, LeftShrinks
    <3>2. /\ ~ Ended(q) => position[q] <= requests[q].estimated - 4
          /\ Ended(q) => position[q] + Left(q) <= requests[q].estimated
      BY <2>1 DEF EstimateInv, CountInv
    <3>3. position[q] \in Int /\ requests[q].estimated \in Int
      BY <2>1, SchedulerAssumption DEF TypeInv
    <3>4. QED BY <1>8, <3>1, <3>2, <3>3
  <2>2. QED BY <1>1, <2>1 DEF EstimateInv, CountInv
<1>11. QED BY <1>7, <1>9, <1>10 DEF EstimateInv

LEMMA AddQueryHandled == IInv /\ TackleAddQuery => IInv'
<1> SUFFICES ASSUME IInv, TackleAddQuery PROVE IInv'
  OBVIOUS
<1> DEFINE q == Head(events).q
           all == Append(waitQueue, q)
           more == IF preparing THEN << >> ELSE <<PrepareEvent(Head(all), TRUE)>>
<1>1. /\ events # << >> /\ Tackle("AddQuery", more)
      /\ waitQueue' = IF preparing THEN all ELSE Tail(all)
      /\ status' = [status EXCEPT ![q] = "Received"]
      /\ UNCHANGED <<requests, plan, handle, readyQueue, waitDone, active, slot, engineVars>>
  BY DEF TackleAddQuery
<1>2. /\ TypeInv /\ PlaceInv /\ ReadyInv /\ BatchesInv /\ StartedInv /\ OrderInv
      /\ EstimateInv /\ LiveHandles
  BY DEF IInv
<1>3. /\ events \in Seq(Events) /\ Head(events) \in Events /\ Head(events).kind = "AddQuery"
      /\ q \in Queries
  <2>1. events \in Seq(Events)
    BY <1>2 DEF TypeInv
  <2>2. Head(events) \in Events /\ Head(events).kind = "AddQuery"
    BY <1>1, <2>1, HeadTailProperties DEF Tackle
  <2>3. QED BY <2>1, <2>2, EventTyping
<1> HIDE DEF q
<1>4. QueuedIn(events, q) /\ Queued(events[1]) /\ events[1].q = q
  <2>1. events[1] = Head(events) /\ 1 \in DOMAIN events
    BY <1>1, <1>3
  <2>2. QED BY <1>3, <2>1 DEF QueuedIn, Queued, q
<1>5. /\ ~ In(waitQueue, q) /\ ~ In(readyQueue, q) /\ waitDone # q
      /\ q \in DOMAIN requests /\ status[q] \in Early
  BY <1>2, <1>3, <1>4 DEF PlaceInv
<1>6. /\ all \in Seq(Queries) /\ Once(all) /\ all # << >>
      /\ \A r : In(all, r) <=> In(waitQueue, r) \/ r = q
  <2>1. waitQueue \in Seq(Queries) /\ Once(waitQueue)
    BY <1>2 DEF TypeInv, PlaceInv
  <2>2. /\ all \in Seq(Queries) /\ Once(all)
        /\ \A r : In(all, r) <=> In(waitQueue, r) \/ r = q
    BY <1>3, <1>5, <2>1, OnceAppend
  <2>3. all # << >>
    BY <1>3, <2>1, AppendProperties
  <2>4. QED BY <2>2, <2>3
<1>7. /\ Tail(all) \in Seq(Queries) /\ Once(Tail(all)) /\ Head(all) \in Queries /\ In(all, Head(all))
      /\ \A r : In(Tail(all), r) => In(all, r) /\ r # Head(all)
  BY <1>6, OnceTail
<1> DEFINE w == Head(all)
<1>8. /\ w \in Queries /\ (In(waitQueue, w) \/ w = q)
      /\ \A r : In(waitQueue', r) => (In(waitQueue, r) \/ r = q) /\ (preparing \/ r # w)
      /\ waitQueue' \in Seq(Queries) /\ Once(waitQueue')
  BY <1>1, <1>6, <1>7
<1>9. /\ more \in Seq(Events) /\ DOMAIN more \subseteq {1}
      /\ \A k \in DOMAIN more : more[k].kind = "Prepare" /\ more[k].q = w /\ ~preparing
  <2>1. PrepareEvent(w, TRUE) \in Events /\ PrepareEvent(w, TRUE).kind = "Prepare" /\ PrepareEvent(w, TRUE).q = w
    BY <1>8, MakeEvents
  <2>2. more = IF preparing THEN << >> ELSE <<PrepareEvent(w, TRUE)>>
    OBVIOUS
  <2> HIDE DEF w, more
  <2>3. CASE preparing
    BY <2>2, <2>3
  <2>4. CASE ~preparing
    <3>1. more = <<PrepareEvent(w, TRUE)>>
      BY <2>2, <2>4
    <3>2. more \in Seq(Events) /\ DOMAIN more = {1} /\ more[1] = PrepareEvent(w, TRUE)
      BY <2>1, <3>1, AtMostOne
    <3>3. QED BY <2>1, <2>4, <3>2
  <2>5. QED BY <2>3, <2>4
<1> HIDE DEF all, w, more
<1>10. Turned(events, events', more) /\ events' \in Seq(Events)
  BY <1>1, <1>2, <1>9, TackleTurn
<1>11. /\ OnceQueued(events')
       /\ \A r : QueuedIn(events', r) =>
             (QueuedIn(events, r) /\ r # q) \/ (~preparing /\ r = w)
  <2>1. w = q \/ ~ QueuedIn(events, w)
    BY <1>2, <1>8 DEF PlaceInv
  <2>2. \A k \in DOMAIN more : Queued(more[k]) =>
            ~ QueuedIn(events, more[k].q) \/ (Queued(events[1]) /\ events[1].q = more[k].q)
    BY <1>4, <1>9, <2>1
  <2>3. OnceQueued(events)
    BY <1>2 DEF PlaceInv
  <2>4. QED BY <1>1, <1>3, <1>4, <1>9, <1>10, <2>2, <2>3, TurnQueued
<1>12. \A r \in Queries : status'[r] = IF r = q THEN "Received" ELSE status[r]
  BY <1>1, <1>2 DEF TypeInv
<1>13. TypeInv'
  <2>1. status' \in [Queries -> Early \cup {"Prefill", "Decode", "Done"}]
    BY <1>1, <1>2 DEF TypeInv, Early
  <2>2. QED BY <1>1, <1>2, <1>8, <1>10, <2>1 DEF TypeInv, engineVars
<1>14. PlaceInv'
  <2>1. ASSUME NEW r \in Queries
        PROVE  /\ ~ (QueuedIn(events, r)' /\ In(waitQueue, r)')
               /\ ~ (QueuedIn(events, r)' /\ In(readyQueue, r)')
               /\ ~ (In(waitQueue, r)' /\ In(readyQueue, r)')
               /\ waitDone' = r => ~ (QueuedIn(events, r)' \/ In(waitQueue, r)' \/ In(readyQueue, r)')
               /\ QueuedIn(events, r)' \/ In(waitQueue, r)' \/ In(readyQueue, r)' \/ waitDone' = r =>
                    r \in DOMAIN requests' /\ status'[r] \in Early
               /\ status'[r] # "None" => r \in DOMAIN requests'
    <3>1. /\ QueuedIn(events', r) => (QueuedIn(events, r) /\ r # q) \/ (~preparing /\ r = w)
          /\ In(waitQueue', r) => (In(waitQueue, r) \/ r = q) /\ (preparing \/ r # w)
          /\ In(waitQueue, w) \/ w = q
      BY <1>8, <1>11
    <3>2. /\ ~ (QueuedIn(events, r) /\ In(waitQueue, r))
          /\ ~ (QueuedIn(events, r) /\ In(readyQueue, r))
          /\ ~ (In(waitQueue, r) /\ In(readyQueue, r))
          /\ waitDone = r => ~ (QueuedIn(events, r) \/ In(waitQueue, r) \/ In(readyQueue, r))
          /\ QueuedIn(events, r) \/ In(waitQueue, r) \/ In(readyQueue, r) \/ waitDone = r =>
               r \in DOMAIN requests /\ status[r] \in Early
          /\ status[r] # "None" => r \in DOMAIN requests
      BY <1>2 DEF PlaceInv
    <3>3. /\ In(readyQueue', r) = In(readyQueue, r) /\ waitDone' = waitDone /\ requests' = requests
          /\ status'[r] = IF r = q THEN "Received" ELSE status[r]
      BY <1>1, <1>12
    <3>4. QED BY <1>5, <3>1, <3>2, <3>3 DEF Early
  <2>2. QED BY <1>1, <1>2, <1>8, <1>11, <2>1 DEF PlaceInv
<1>15. \A k \in DOMAIN more : Quiet(more[k]) /\ more[k].kind # "Prepared"
  BY <1>9 DEF Quiet
<1>16. ReadyInv'
  <2>1. \A r : In(readyQueue', r) => handle'[r] # << >>
    BY <1>1, <1>2 DEF ReadyInv, In
  <2>2. QED BY <1>1, <1>2, <1>10, <1>15, <2>1, ReadyTurn DEF ReadyInv
<1>17. BatchesInv'
  BY <1>1, <1>2, <1>10, <1>15, BatchesTurn
<1>18. StartedInv' /\ OrderInv'
  <2>1. \A r \in Queries :
           /\ status'[r] = "Done" => status[r] = "Done" \/ Ends(1, r)
           /\ status[r] \in {"Decode", "Done"} => status'[r] \in {"Decode", "Done"}
           /\ status'[r] \in Early => status[r] \in Early
    BY <1>5, <1>12 DEF Early
  <2>2. QED BY <1>1, <1>2, <1>10, <1>15, <2>1, OrderTurn
<1>19. LiveHandles'
  BY <1>1, <1>2, <1>12 DEF LiveHandles, engineVars
<1>20. EstimateInv'
  <2>1. \A k \in DOMAIN more : Quiet(more[k]) /\ more[k].kind # "Schedule"
    BY <1>9 DEF Quiet
  <2>2. \A r \in Queries \ skewed : status'[r] = "Done" <=> status[r] = "Done"
    BY <1>5, <1>12 DEF Early
  <2>3. QED BY <1>1, <1>2, <1>9, <2>1, <2>2, EstimateTurn
<1>21. QED BY <1>13, <1>14, <1>16, <1>17, <1>18, <1>19, <1>20 DEF IInv

(* The places of one query, when the query of the first event moves on *)
Place(q, inEvents, inWait, inReady, waits, reqs, st) ==
  /\ ~ (inEvents /\ inWait) /\ ~ (inEvents /\ inReady) /\ ~ (inWait /\ inReady)
  /\ waits => ~ (inEvents \/ inWait \/ inReady)
  /\ inEvents \/ inWait \/ inReady \/ waits => q \in DOMAIN reqs /\ st[q] \in Early
  /\ st[q] # "None" => q \in DOMAIN reqs

LEMMA Places ==
  PlaceInv <=>
    /\ OnceQueued(events) /\ Once(waitQueue) /\ Once(readyQueue)
    /\ \A q \in Queries : Place(q, QueuedIn(events, q), In(waitQueue, q), In(readyQueue, q),
                                waitDone = q, requests, status)
BY DEF PlaceInv, Place

LEMMA PrepareHandled == IInv /\ TacklePrepare => IInv'
<1> SUFFICES ASSUME IInv, TacklePrepare PROVE IInv'
  OBVIOUS
<1> DEFINE q == Head(events).q
           pages == Alloc(PagesNeeded(requests[q]))
           more == IF Head(events).firstTry THEN <<AfterLoad(q, pages)>> ELSE << >>
<1>1. /\ events # << >> /\ Head(events).kind = "Prepare" /\ Tackle("Prepare", more)
      /\ \/ /\ more = <<AfterLoad(q, pages)>>
            /\ status' = [status EXCEPT ![q] = "Preparing"]
            /\ handle' = [handle EXCEPT ![q] = pages]
            /\ waitDone' = waitDone
         \/ more = << >> /\ waitDone' = q /\ status' = status /\ handle' = handle
      /\ UNCHANGED <<requests, plan, waitQueue, readyQueue, active, slot, engineVars>>
  BY DEF TacklePrepare
<1>2. /\ TypeInv /\ PlaceInv /\ ReadyInv /\ BatchesInv /\ StartedInv /\ OrderInv
      /\ EstimateInv /\ LiveHandles
  BY DEF IInv
<1>3. events \in Seq(Events) /\ Head(events) \in Events /\ q \in Queries
  <2>1. events \in Seq(Events)
    BY <1>2 DEF TypeInv
  <2>2. Head(events) \in Events
    BY <1>1, <2>1, HeadTailProperties
  <2>3. QED BY <1>1, <2>1, <2>2, EventTyping
<1> HIDE DEF q, pages
<1>4. QueuedIn(events, q) /\ Queued(events[1]) /\ events[1].q = q
  <2>1. events[1] = Head(events) /\ 1 \in DOMAIN events
    BY <1>1, <1>3
  <2>2. QED BY <1>1, <1>3, <2>1 DEF QueuedIn, Queued, q
<1>5. /\ ~ In(waitQueue, q) /\ ~ In(readyQueue, q) /\ waitDone # q
      /\ q \in DOMAIN requests /\ status[q] \in Early
  BY <1>2, <1>3, <1>4 DEF PlaceInv
<1>6. /\ AfterLoad(q, pages) \in Events /\ Queued(AfterLoad(q, pages)) /\ AfterLoad(q, pages).q = q
      /\ Quiet(AfterLoad(q, pages))
      /\ AfterLoad(q, pages).kind = "Prepared" => pages # << >>
  <2>1. CASE pages # << >>
    BY <1>3, <2>1, MakeEvents DEF AfterLoad, Queued, Quiet
  <2>2. CASE pages = << >>
    <3>1. AfterLoad(q, pages) = PrepareEvent(q, FALSE)
      BY <2>2 DEF AfterLoad
    <3>2. /\ PrepareEvent(q, FALSE) \in Events
          /\ PrepareEvent(q, FALSE).kind = "Prepare" /\ PrepareEvent(q, FALSE).q = q
      BY <1>3, MakeEvents
    <3>3. QED BY <3>1, <3>2 DEF Queued, Quiet
  <2>3. QED BY <2>1, <2>2
<1>7. /\ more \in Seq(Events) /\ DOMAIN more \subseteq {1}
      /\ \A k \in DOMAIN more : more[k] = AfterLoad(q, pages)
  BY <1>1, <1>6, AtMostOne
<1> HIDE DEF more
<1>8. Turned(events, events', more) /\ events' \in Seq(Events)
  BY <1>1, <1>2, <1>7, TackleTurn
<1>9. /\ OnceQueued(events')
      /\ \A r : QueuedIn(events', r) =>
            (QueuedIn(events, r) /\ r # q) \/ (more # << >> /\ r = q)
  <2>1. \A k \in DOMAIN more : Queued(more[k]) =>
            ~ QueuedIn(events, more[k].q) \/ (Queued(events[1]) /\ events[1].q = more[k].q)
    BY <1>4, <1>6, <1>7
  <2>2. OnceQueued(events)
    BY <1>2 DEF PlaceInv
  <2>3. \A k \in DOMAIN more : more # << >> /\ more[k].q = q
    BY <1>6, <1>7
  <2>4. QED BY <1>1, <1>3, <1>4, <1>7, <1>8, <2>1, <2>2, <2>3, TurnQueued
<1>10. \A r \in Queries :
          status'[r] = status[r] \/ (r = q /\ status'[r] = "Preparing" /\ more # << >>)
  <2>1. CASE status' = [status EXCEPT ![q] = "Preparing"] /\ more = <<AfterLoad(q, pages)>>
    <3>1. more # << >>
      BY <1>6, <2>1, AtMostOne
    <3>2. QED BY <1>2, <2>1, <3>1 DEF TypeInv
  <2>2. CASE status' = status
    BY <2>2
  <2>3. QED BY <1>1, <2>1, <2>2
<1>11. TypeInv'
  <2>1. status' \in [Queries -> Early \cup {"Prefill", "Decode", "Done"}]
    BY <1>1, <1>2 DEF TypeInv, Early
  <2>2. DOMAIN handle' = Queries /\ waitDone' \in Queries \cup {0}
    BY <1>1, <1>2, <1>3 DEF TypeInv
  <2>3. QED BY <1>1, <1>2, <1>8, <2>1, <2>2 DEF TypeInv, engineVars
<1>12. PlaceInv'
  <2>1. ASSUME NEW r \in Queries
        PROVE  Place(r, QueuedIn(events, r)', In(waitQueue, r)', In(readyQueue, r)',
                     waitDone' = r, requests', status')
    <3>1. Place(r, QueuedIn(events, r), In(waitQueue, r), In(readyQueue, r), waitDone = r, requests, status)
      BY <1>2, Places
    <3>2. QueuedIn(events', r) => (QueuedIn(events, r) /\ r # q) \/ (more # << >> /\ r = q)
      BY <1>9
    <3>3. /\ In(waitQueue', r) = In(waitQueue, r) /\ In(readyQueue', r) = In(readyQueue, r)
          /\ requests' = requests
      BY <1>1
    <3>4. waitDone' = r => (waitDone = r \/ (r = q /\ more = << >>))
      BY <1>1
    <3>5. waitDone' = q => more = << >>
      BY <1>1, <1>5
    <3>6. status'[r] = status[r] \/ (r = q /\ status'[r] = "Preparing")
      BY <1>10
    <3>7. CASE r = q
      BY <1>4, <1>5, <3>2, <3>3, <3>4, <3>5, <3>6, <3>7 DEF Early, Place
    <3>8. CASE r # q
      BY <3>1, <3>2, <3>3, <3>4, <3>6, <3>8 DEF Early, Place
    <3>9. QED BY <3>7, <3>8
  <2>2. /\ OnceQueued(events)' /\ Once(waitQueue)' /\ Once(readyQueue)'
        /\ \A r \in Queries : Place(r, QueuedIn(events, r)', In(waitQueue, r)', In(readyQueue, r)',
                                    waitDone' = r, requests', status')
    BY <1>1, <1>2, <1>9, <2>1 DEF PlaceInv
  <2>3. QED BY <2>2 DEF PlaceInv, Place
<1>13. \A k \in DOMAIN more : Quiet(more[k])
  BY <1>6, <1>7
<1>14. \A r \in Queries : r # q => handle'[r] = handle[r]
  BY <1>1, <1>2 DEF TypeInv
<1>15. ReadyInv'
  <2>1. \A k \in DOMAIN more : more[k].kind = "Prepared" => handle'[more[k].q] # << >>
    BY <1>1, <1>2, <1>3, <1>6, <1>7 DEF TypeInv
  <2>2. ASSUME NEW j \in DOMAIN events, j # 1, events[j].kind = "Prepared"
        PROVE  handle'[events[j].q] # << >>
    <3>1. events[j].q # q
      BY <1>1, <1>2, <1>3, <1>4, <2>2 DEF PlaceInv, OnceQueued, Queued
    <3>2. events[j].q \in Queries
      BY <1>3, <2>2, EventTyping
    <3>3. QED BY <1>2, <1>14, <2>2, <3>1, <3>2 DEF ReadyInv
  <2>3. ASSUME NEW j \in DOMAIN readyQueue PROVE handle'[readyQueue[j]] # << >>
    <3>1. readyQueue[j] # q /\ readyQueue[j] \in Queries
      BY <1>2, <1>5 DEF In, TypeInv
    <3>2. QED BY <1>2, <1>14, <3>1 DEF ReadyInv
  <2>4. \A r : In(readyQueue', r) => handle'[r] # << >>
    BY <1>1, <2>3 DEF In
  <2>5. QED BY <1>8, <2>1, <2>2, <2>4, ReadyTurn
<1>16. BatchesInv'
  BY <1>1, <1>2, <1>8, <1>13, BatchesTurn
<1>17. StartedInv' /\ OrderInv'
  <2>1. \A r \in Queries :
           /\ status'[r] = "Done" => status[r] = "Done" \/ Ends(1, r)
           /\ status[r] \in {"Decode", "Done"} => status'[r] \in {"Decode", "Done"}
           /\ status'[r] \in Early => status[r] \in Early
    BY <1>5, <1>10 DEF Early
  <2>2. QED BY <1>1, <1>2, <1>8, <1>13, <2>1, OrderTurn
<1>18. LiveHandles'
  <2>1. \A r \in Queries : status'[r] \in {"Prefill", "Decode"} =>
            status[r] \in {"Prefill", "Decode"} /\ r # q
    BY <1>5, <1>10 DEF Early
  <2>2. QED BY <1>1, <1>2, <1>14, <2>1 DEF LiveHandles, engineVars
<1>19. EstimateInv'
  <2>1. \A k \in DOMAIN more : Quiet(more[k]) /\ more[k].kind # "Schedule"
    BY <1>6, <1>7, <1>13 DEF Queued
  <2>2. \A r \in Queries \ skewed : status'[r] = "Done" <=> status[r] = "Done"
    BY <1>5, <1>10 DEF Early
  <2>3. QED BY <1>1, <1>2, <1>7, <2>1, <2>2, EstimateTurn
<1>20. QED BY <1>11, <1>12, <1>15, <1>16, <1>17, <1>18, <1>19 DEF IInv

LEMMA PreparedHandled == IInv /\ TacklePrepared => IInv'
<1> SUFFICES ASSUME IInv, TacklePrepared PROVE IInv'
  OBVIOUS
<1> DEFINE q == Head(events).q
           w == Head(waitQueue)
           more == IF waitQueue = << >> THEN << >> ELSE <<PrepareEvent(w, TRUE)>>
<1>1. /\ Tackle("Prepared", more)
      /\ readyQueue' = Append(readyQueue, q)
      /\ waitQueue' = IF waitQueue = << >> THEN << >> ELSE Tail(waitQueue)
      /\ UNCHANGED <<requests, status, plan, handle, waitDone, active, slot, engineVars>>
  BY DEF TacklePrepared
<1>2. /\ TypeInv /\ PlaceInv /\ ReadyInv /\ BatchesInv /\ StartedInv /\ OrderInv
      /\ EstimateInv /\ LiveHandles
  BY DEF IInv
<1>3. /\ events # << >> /\ Head(events).kind = "Prepared"
      /\ events \in Seq(Events) /\ Head(events) \in Events /\ q \in Queries
  <2>1. events \in Seq(Events) /\ events # << >> /\ Head(events).kind = "Prepared"
    BY <1>1, <1>2 DEF TypeInv, Tackle
  <2>2. Head(events) \in Events
    BY <2>1, HeadTailProperties
  <2>3. QED BY <2>1, <2>2, EventTyping
<1> HIDE DEF q, w
<1>4. /\ QueuedIn(events, q) /\ Queued(events[1]) /\ events[1].q = q /\ handle[q] # << >>
  <2>1. events[1] = Head(events) /\ 1 \in DOMAIN events
    BY <1>3
  <2>2. QED BY <1>2, <1>3, <2>1 DEF QueuedIn, Queued, ReadyInv, q
<1>5. /\ ~ In(waitQueue, q) /\ ~ In(readyQueue, q) /\ waitDone # q
      /\ q \in DOMAIN requests /\ status[q] \in Early
  BY <1>2, <1>3, <1>4 DEF PlaceInv
<1>6. /\ readyQueue' \in Seq(Queries) /\ Once(readyQueue')
      /\ \A r : In(readyQueue', r) <=> In(readyQueue, r) \/ r = q
  <2>1. readyQueue \in Seq(Queries) /\ Once(readyQueue)
    BY <1>2 DEF TypeInv, PlaceInv
  <2>2. QED BY <1>1, <1>3, <1>5, <2>1, OnceAppend
<1>7. /\ waitQueue' \in Seq(Queries) /\ Once(waitQueue')
      /\ \A r : In(waitQueue', r) => In(waitQueue, r) /\ r # w
      /\ waitQueue # << >> => w \in Queries /\ In(waitQueue, w)
  <2>1. waitQueue \in Seq(Queries) /\ Once(waitQueue)
    BY <1>2 DEF TypeInv, PlaceInv
  <2>2. CASE waitQueue = << >>
    BY <1>1, <2>2 DEF Once, In
  <2>3. CASE waitQueue # << >>
    BY <1>1, <2>1, <2>3, OnceTail DEF w
  <2>4. QED BY <2>2, <2>3
<1>8. /\ more \in Seq(Events) /\ DOMAIN more \subseteq {1}
      /\ \A k \in DOMAIN more : /\ more[k].kind = "Prepare" /\ more[k].q = w
                                /\ w \in Queries /\ In(waitQueue, w)
  <2>1. CASE waitQueue = << >>
    BY <2>1
  <2>2. CASE waitQueue # << >>
    <3>1. /\ PrepareEvent(w, TRUE) \in Events
          /\ PrepareEvent(w, TRUE).kind = "Prepare" /\ PrepareEvent(w, TRUE).q = w
      BY <1>7, <2>2, MakeEvents
    <3>2. more = <<PrepareEvent(w, TRUE)>>
      BY <2>2
    <3>3. more \in Seq(Events) /\ DOMAIN more = {1} /\ more[1] = PrepareEvent(w, TRUE)
      BY <3>1, <3>2, AtMostOne
    <3>4. QED BY <1>7, <2>2, <3>1, <3>3
  <2>3. QED BY <2>1, <2>2
<1> HIDE DEF more
<1>9. Turned(events, events', more) /\ events' \in Seq(Events)
  BY <1>1, <1>2, <1>8, TackleTurn
<1>10. /\ OnceQueued(events')
       /\ \A r : QueuedIn(events', r) =>
             (QueuedIn(events, r) /\ r # q) \/ (In(waitQueue, r) /\ r = w /\ r \in Queries)
  <2>1. \A k \in DOMAIN more : Queued(more[k]) =>
            ~ QueuedIn(events, more[k].q) \/ (Queued(events[1]) /\ events[1].q = more[k].q)
    BY <1>2, <1>8 DEF PlaceInv
  <2>2. OnceQueued(events)
    BY <1>2 DEF PlaceInv
  <2>3. /\ OnceQueued(events')
        /\ \A r : QueuedIn(events', r) =>
              \/ QueuedIn(events, r) /\ ~ (Queued(events[1]) /\ events[1].q = r)
              \/ \E k \in DOMAIN more : Queued(more[k]) /\ more[k].q = r
    BY <1>3, <1>8, <1>9, <2>1, <2>2, TurnQueued
  <2>4. QED BY <1>4, <1>8, <2>3
<1>11. TypeInv'
  BY <1>1, <1>2, <1>6, <1>7, <1>9 DEF TypeInv, engineVars
<1>12. PlaceInv'
  <2>1. ASSUME NEW r \in Queries
        PROVE  Place(r, QueuedIn(events, r)', In(waitQueue, r)', In(readyQueue, r)',
                     waitDone' = r, requests', status')
    <3>1. Place(r, QueuedIn(events, r), In(waitQueue, r), In(readyQueue, r), waitDone = r, requests, status)
      BY <1>2, Places
    <3>2. /\ QueuedIn(events', r) => (QueuedIn(events, r) /\ r # q) \/ (In(waitQueue, r) /\ r = w)
          /\ In(readyQueue', r) <=> In(readyQueue, r) \/ r = q
          /\ In(waitQueue', r) => In(waitQueue, r) /\ r # w
      BY <1>6, <1>7, <1>10
    <3>3. requests' = requests /\ waitDone' = waitDone /\ status' = status
      BY <1>1
    <3>4. QED BY <1>4, <1>5, <3>1, <3>2, <3>3 DEF Place
  <2>2. /\ OnceQueued(events)' /\ Once(waitQueue)' /\ Once(readyQueue)'
        /\ \A r \in Queries : Place(r, QueuedIn(events, r)', In(waitQueue, r)', In(readyQueue, r)',
                                    waitDone' = r, requests', status')
    BY <1>6, <1>7, <1>10, <2>1
  <2>3. QED BY <2>2 DEF PlaceInv, Place
<1>13. \A k \in DOMAIN more : Quiet(more[k]) /\ more[k].kind # "Prepared"
  BY <1>8 DEF Quiet
<1>14. ReadyInv'
  <2>1. \A r : In(readyQueue', r) => handle'[r] # << >>
    BY <1>1, <1>2, <1>4, <1>6 DEF ReadyInv, In
  <2>2. QED BY <1>1, <1>2, <1>9, <1>13, <2>1, ReadyTurn DEF ReadyInv
<1>15. BatchesInv'
  BY <1>1, <1>2, <1>9, <1>13, BatchesTurn
<1>16. StartedInv' /\ OrderInv'
  BY <1>1, <1>2, <1>3, <1>9, <1>13, OrderTurn
<1>17. LiveHandles'
  BY <1>1, <1>2 DEF LiveHandles, engineVars
<1>18. EstimateInv'
  <2>1. \A k \in DOMAIN more : Quiet(more[k]) /\ more[k].kind # "Schedule"
    BY <1>8 DEF Quiet
  <2>2. \A r \in Queries \ skewed : status'[r] = "Done" <=> status[r] = "Done"
    BY <1>1 DEF Early
  <2>3. QED BY <1>1, <1>2, <1>8, <2>1, <2>2, EstimateTurn
<1>19. QED BY <1>11, <1>12, <1>14, <1>15, <1>16, <1>17, <1>18 DEF IInv

LEMMA QueryStatusHandled == IInv /\ TackleQueryStatus => IInv'
<1> SUFFICES ASSUME IInv, TackleQueryStatus PROVE IInv'
  OBVIOUS
<1> DEFINE more == IF waitDone = 0 THEN << >> ELSE <<Retry>>
<1>1. /\ Tackle("QueryStatus", more) /\ waitDone' = 0
      /\ UNCHANGED <<requests, status, plan, handle, waitQueue, readyQueue, active, slot, engineVars>>
  BY DEF TackleQueryStatus
<1>2. /\ TypeInv /\ PlaceInv /\ ReadyInv /\ BatchesInv /\ StartedInv /\ OrderInv
      /\ EstimateInv /\ LiveHandles
  BY DEF IInv
<1>3. events \in Seq(Events) /\ events # << >> /\ events[1].kind = "QueryStatus" /\ ~ Queued(events[1])
  <2>1. events \in Seq(Events) /\ events # << >> /\ Head(events).kind = "QueryStatus"
    BY <1>1, <1>2 DEF TypeInv, Tackle
  <2>2. events[1] = Head(events)
    BY <2>1
  <2>3. QED BY <2>1, <2>2 DEF Queued
<1>4. waitDone = 0 \/ waitDone \in Queries
  BY <1>2 DEF TypeInv
<1>5. /\ more \in Seq(Events) /\ DOMAIN more \subseteq {1}
      /\ \A k \in DOMAIN more : /\ more[k].kind = "Prepare" /\ more[k].q = waitDone
                                /\ waitDone \in Queries
  <2>1. CASE waitDone = 0
    BY <2>1
  <2>2. CASE waitDone # 0
    <3>1. Retry \in Events /\ Retry.kind = "Prepare" /\ Retry.q = waitDone
      BY <1>4, <2>2, MakeEvents DEF Retry
    <3>2. more = <<Retry>>
      BY <2>2
    <3>3. more \in Seq(Events) /\ DOMAIN more = {1} /\ more[1] = Retry
      BY <3>1, <3>2, AtMostOne
    <3>4. QED BY <1>4, <2>2, <3>1, <3>3
  <2>3. QED BY <2>1, <2>2
<1> HIDE DEF more
<1>6. Turned(events, events', more) /\ events' \in Seq(Events)
  BY <1>1, <1>2, <1>5, TackleTurn
<1>7. /\ OnceQueued(events')
      /\ \A r : QueuedIn(events', r) => QueuedIn(events, r) \/ (waitDone = r /\ r \in Queries)
  <2>1. \A k \in DOMAIN more : Queued(more[k]) =>
            ~ QueuedIn(events, more[k].q) \/ (Queued(events[1]) /\ events[1].q = more[k].q)
    BY <1>2, <1>5 DEF PlaceInv
  <2>2. OnceQueued(events)
    BY <1>2 DEF PlaceInv
  <2>3. QED BY <1>3, <1>5, <1>6, <2>1, <2>2, TurnQueued
<1>8. TypeInv'
  BY <1>1, <1>2, <1>6 DEF TypeInv, engineVars
<1>9. PlaceInv'
  <2>1. ASSUME NEW r \in Queries
        PROVE  Place(r, QueuedIn(events, r)', In(waitQueue, r)', In(readyQueue, r)',
                     waitDone' = r, requests', status')
    <3>1. Place(r, QueuedIn(events, r), In(waitQueue, r), In(readyQueue, r), waitDone = r, requests, status)
      BY <1>2, Places
    <3>2. QueuedIn(events', r) => QueuedIn(events, r) \/ waitDone = r
      BY <1>7
    <3>3. /\ requests' = requests /\ status' = status
          /\ In(waitQueue', r) = In(waitQueue, r) /\ In(readyQueue', r) = In(readyQueue, r)
      BY <1>1
    <3>4. waitDone' # r
      BY <1>1 DEF Queries
    <3>5. QED BY <3>1, <3>2, <3>3, <3>4 DEF Place
  <2>2. /\ OnceQueued(events)' /\ Once(waitQueue)' /\ Once(readyQueue)'
        /\ \A r \in Queries : Place(r, QueuedIn(events, r)', In(waitQueue, r)', In(readyQueue, r)',
                                    waitDone' = r, requests', status')
    BY <1>1, <1>2, <1>7, <2>1 DEF PlaceInv
  <2>3. QED BY <2>2 DEF PlaceInv, Place
<1>10. \A k \in DOMAIN more : Quiet(more[k]) /\ more[k].kind # "Prepared"
  BY <1>5 DEF Quiet
<1>11. ReadyInv'
  <2>1. \A r : In(readyQueue', r) => handle'[r] # << >>
    BY <1>1, <1>2 DEF ReadyInv, In
  <2>2. QED BY <1>1, <1>2, <1>6, <1>10, <2>1, ReadyTurn DEF ReadyInv
<1>12. BatchesInv'
  BY <1>1, <1>2, <1>6, <1>10, BatchesTurn
<1>13. StartedInv' /\ OrderInv'
  BY <1>1, <1>2, <1>3, <1>6, <1>10, OrderTurn
<1>14. LiveHandles'
  BY <1>1, <1>2 DEF LiveHandles, engineVars
<1>15. EstimateInv'
  <2>1. \A k \in DOMAIN more : Quiet(more[k]) /\ more[k].kind # "Schedule"
    BY <1>5 DEF Quiet
  <2>2. \A r \in Queries \ skewed : status'[r] = "Done" <=> status[r] = "Done"
    BY <1>1 DEF Early
  <2>3. QED BY <1>1, <1>2, <1>5, <2>1, <2>2, EstimateTurn
<1>16. QED BY <1>8, <1>9, <1>11, <1>12, <1>13, <1>14, <1>15 DEF IInv

(* A handler that moves no query between the places: what it enqueues      *)
(* names none, and no status becomes or leaves one of the beginning while  *)
(* the query has a place.                                                  *)
LEMMA PlacesStay ==
  ASSUME TypeInv, PlaceInv, NEW more, Turned(events, events', more), events # << >>,
         \A k \in DOMAIN more : ~ Queued(more[k]),
         UNCHANGED <<requests, waitQueue, readyQueue, waitDone>>,
         \A r \in Queries : /\ QueuedIn(events', r) \/ In(waitQueue, r) \/ In(readyQueue, r) \/ waitDone = r =>
                                (status[r] \in Early => status'[r] \in Early)
                            /\ status'[r] # status[r] => r \in DOMAIN requests
  PROVE  PlaceInv'
<1>1. /\ OnceQueued(events')
      /\ \A r : QueuedIn(events', r) => QueuedIn(events, r)
  <2>1. events \in Seq(Events) /\ OnceQueued(events)
    BY DEF TypeInv, PlaceInv
  <2>2. /\ OnceQueued(events')
        /\ \A r : QueuedIn(events', r) =>
              \/ QueuedIn(events, r) /\ ~ (Queued(events[1]) /\ events[1].q = r)
              \/ \E k \in DOMAIN more : Queued(more[k]) /\ more[k].q = r
    BY <2>1, TurnQueued
  <2>3. QED BY <2>2
<1>2. ASSUME NEW r \in Queries
      PROVE  Place(r, QueuedIn(events, r)', In(waitQueue, r)', In(readyQueue, r)',
                   waitDone' = r, requests', status')
  <2>1. Place(r, QueuedIn(events, r), In(waitQueue, r), In(readyQueue, r), waitDone = r, requests, status)
    BY Places
  <2>2. /\ QueuedIn(events', r) => QueuedIn(events, r)
        /\ In(waitQueue', r) = In(waitQueue, r) /\ In(readyQueue', r) = In(readyQueue, r)
        /\ requests' = requests /\ waitDone' = waitDone
    BY <1>1
  <2>3. QED BY <2>1, <2>2 DEF Place
<1>3. OnceQueued(events)' /\ Once(waitQueue)' /\ Once(readyQueue)'
  BY <1>1 DEF PlaceInv
<1>4. QED BY <1>2, <1>3 DEF PlaceInv, Place

LEMMA UpdateHandled == IInv /\ TackleUpdate => IInv'
<1> SUFFICES ASSUME IInv, TackleUpdate PROVE IInv'
  OBVIOUS
<1> DEFINE us == Head(events).updates
           done == Finished(us)
           more == [k \in 1 .. Cardinality(done) |-> Event("QueryStatus")]
<1>1. /\ events # << >> /\ Head(events).kind = "Update" /\ Tackle("Update", more)
      /\ status' = [q \in Queries |-> IF q \in done THEN "Done" ELSE status[q]]
      /\ handle' = [q \in Queries |-> IF q \in done THEN << >> ELSE handle[q]]
      /\ active' = active \ {u.id : u \in {v \in us : status'[v.id] = "Done"}}
      /\ UNCHANGED <<requests, plan, waitQueue, readyQueue, waitDone, slot, engineVars>>
  BY DEF TackleUpdate
<1>2. /\ TypeInv /\ PlaceInv /\ ReadyInv /\ BatchesInv /\ StartedInv /\ OrderInv
      /\ EstimateInv /\ LiveHandles
  BY DEF IInv
<1>3. /\ events \in Seq(Events) /\ Head(events) \in Events /\ us \in SUBSET Update
      /\ events[1] = Head(events) /\ 1 \in DOMAIN events
  <2>1. events \in Seq(Events)
    BY <1>2 DEF TypeInv
  <2>2. Head(events) \in Events
    BY <1>1, <2>1, HeadTailProperties
  <2>3. QED BY <1>1, <2>1, <2>2, EventTyping
<1> HIDE DEF us
<1>4. ASSUME NEW q \in done
      PROVE  q \in Queries /\ status[q] \in {"Prefill", "Decode"} /\ Ends(1, q)
  <2>1. PICK u \in us : /\ u.id = q /\ status[u.id] \in {"Prefill", "Decode"}
                        /\ u.done \/ u.position = requests[u.id].estimated - 1
    BY DEF Finished
  <2>2. u.id \in Queries
    BY <1>3 DEF Update
  <2>3. Ends(1, q)
    BY <1>1, <1>3, <2>1 DEF Ends, us
  <2>4. QED BY <2>1, <2>2, <2>3
<1> HIDE DEF done
<1>5. Cardinality(done) \in Nat
  <2>1. done \subseteq 1 .. NumQueries
    BY <1>4 DEF Queries
  <2>2. IsFiniteSet(1 .. NumQueries)
    BY SchedulerAssumption, FS_Interval
  <2>3. IsFiniteSet(done)
    BY <2>1, <2>2, FS_Subset
  <2>4. QED BY <2>3, FS_CardinalityType
<1>6. /\ more \in Seq(Events) /\ \A k \in DOMAIN more : more[k].kind = "QueryStatus"
  <2>1. Event("QueryStatus") \in Events /\ Event("QueryStatus").kind = "QueryStatus"
    BY DEF Events, Event
  <2>2. more \in Seq(Events)
    BY <1>5, <2>1
  <2>3. QED BY <2>1, <2>2
<1> HIDE DEF more
<1>7. Turned(events, events', more) /\ events' \in Seq(Events)
  BY <1>1, <1>2, <1>6, TackleTurn
<1>8. \A r \in Queries : status'[r] = IF r \in done THEN "Done" ELSE status[r]
  BY <1>1
<1>9. \A r \in Queries : r \notin done => handle'[r] = handle[r]
  BY <1>1
<1>10. TypeInv'
  <2>1. status' \in [Queries -> Early \cup {"Prefill", "Decode", "Done"}]
    BY <1>1, <1>2 DEF TypeInv
  <2>2. active' \in SUBSET Queries /\ DOMAIN handle' = Queries
    BY <1>1, <1>2 DEF TypeInv
  <2>3. QED BY <1>1, <1>2, <1>7, <2>1, <2>2 DEF TypeInv, engineVars
<1>11. PlaceInv'
  <2>1. \A k \in DOMAIN more : ~ Queued(more[k])
    BY <1>6 DEF Queued
  <2>2. ASSUME NEW r \in Queries
        PROVE  /\ status[r] \in Early => status'[r] \in Early
               /\ status'[r] # status[r] => r \in DOMAIN requests
    BY <1>2, <1>4, <1>8 DEF Early, PlaceInv
  <2>3. QED BY <1>1, <1>2, <1>7, <2>1, <2>2, PlacesStay
<1>12. \A k \in DOMAIN more : Quiet(more[k]) /\ more[k].kind # "Prepared"
  BY <1>6 DEF Quiet
<1>13. ReadyInv'
  <2>1. ASSUME NEW j \in DOMAIN events, events[j].kind = "Prepared"
        PROVE  handle'[events[j].q] # << >>
    <3>1. events[j].q \in Queries
      BY <1>3, <2>1, EventTyping
    <3>2. QueuedIn(events, events[j].q)
      BY <2>1 DEF QueuedIn, Queued
    <3>3. events[j].q \notin done
      BY <1>2, <1>4, <3>1, <3>2 DEF PlaceInv, Early
    <3>4. QED BY <1>2, <1>9, <2>1, <3>1, <3>3 DEF ReadyInv
  <2>2. ASSUME NEW j \in DOMAIN readyQueue PROVE handle'[readyQueue[j]] # << >>
    <3>1. readyQueue[j] \in Queries /\ In(readyQueue, readyQueue[j])
      BY <1>2 DEF In, TypeInv
    <3>2. readyQueue[j] \notin done
      BY <1>2, <1>4, <3>1 DEF PlaceInv, Early
    <3>3. QED BY <1>2, <1>9, <3>1, <3>2 DEF ReadyInv
  <2>3. \A r : In(readyQueue', r) => handle'[r] # << >>
    BY <1>1, <2>2 DEF In
  <2>4. QED BY <1>7, <1>12, <2>1, <2>3, ReadyTurn
<1>14. BatchesInv'
  BY <1>1, <1>2, <1>7, <1>12, BatchesTurn
<1>15. StartedInv' /\ OrderInv'
  <2>1. \A r \in Queries :
           /\ status'[r] = "Done" => status[r] = "Done" \/ Ends(1, r)
           /\ status[r] \in {"Decode", "Done"} => status'[r] \in {"Decode", "Done"}
           /\ status'[r] \in Early => status[r] \in Early
    BY <1>4, <1>8 DEF Early
  <2>2. QED BY <1>1, <1>2, <1>7, <1>12, <2>1, OrderTurn
<1>16. LiveHandles'
  BY <1>1, <1>2, <1>8, <1>9 DEF LiveHandles, engineVars
<1>17. EstimateInv'
  <2>1. \A k \in DOMAIN more : Quiet(more[k]) /\ more[k].kind # "Schedule"
    BY <1>6 DEF Quiet
  <2>2. ASSUME NEW r \in Queries \ skewed, Ends(1, r)
        PROVE  status[r] = "Done" \/ r \in done
    <3>1. status[r] \in {"Decode", "Done"}
      BY <1>2, <1>3, <2>2 DEF OrderInv, DecodeToCome, EndToCome
    <3>2. \E u \in us : u.id = r /\ (u.done \/ u.position = requests[r].estimated - 1)
      BY <1>3, <2>2 DEF Ends, us
    <3>3. QED BY <3>1, <3>2 DEF Finished, done
  <2>3. \A r \in Queries \ skewed : status'[r] = "Done" <=> status[r] = "Done" \/ Ends(1, r)
    BY <1>4, <1>8, <2>2
  <2>4. QED BY <1>1, <1>2, <1>6, <2>1, <2>3, EstimateTurn
<1>18. QED BY <1>10, <1>11, <1>13, <1>14, <1>15, <1>16, <1>17 DEF IInv

LEMMA TakenHandled == IInv /\ TackleTaken => IInv'
<1> SUFFICES ASSUME IInv, TackleTaken PROVE IInv'
  OBVIOUS
<1> DEFINE b == Head(events).batch
           EndsOf(q) == {t.start + t.length : t \in ChunkOf(b, q)}
           After(q) == IF EndsOf(q) # {} THEN CHOOSE n \in EndsOf(q) : TRUE
                       ELSE IF q \in b.decodes THEN plan[q] + 1 ELSE plan[q]
<1>1. /\ events # << >> /\ Head(events).kind = "TakenBatch" /\ Tackle("TakenBatch", << >>)
      /\ plan' = [q \in Queries |-> After(q)]
      /\ status' = [q \in Queries |-> IF EntersDecode(b, q, After(q)) THEN "Decode" ELSE status[q]]
      /\ active' = active \union {q \in QueryIds(b) : status'[q] # "Done"}
      /\ UNCHANGED <<requests, handle, waitQueue, readyQueue, waitDone, slot, engineVars>>
  BY DEF TackleTaken
<1>2. /\ TypeInv /\ PlaceInv /\ ReadyInv /\ BatchesInv /\ StartedInv /\ OrderInv
      /\ EstimateInv /\ LiveHandles
  BY DEF IInv
<1>3. /\ events \in Seq(Events) /\ Head(events) \in Events /\ b \in Batch
      /\ events[1] = Head(events) /\ 1 \in DOMAIN events
  <2>1. events \in Seq(Events)
    BY <1>2 DEF TypeInv
  <2>2. Head(events) \in Events
    BY <1>1, <2>1, HeadTailProperties
  <2>3. QED BY <1>1, <2>1, <2>2, EventTyping
<1>4. plan' \in [Queries -> Int]
  <2>1. ASSUME NEW q \in Queries PROVE After(q) \in Int
    <3>1. \A t \in b.prefills : t.start \in Int /\ t.length \in Int
      BY <1>3 DEF Batch, Task
    <3>2. EndsOf(q) \subseteq Int
      BY <3>1 DEF ChunkOf
    <3>3. plan[q] \in Int
      BY <1>2 DEF TypeInv
    <3>4. QED BY <3>2, <3>3
  <2>2. QED BY <1>1, <2>1
<1> HIDE DEF After, b
<1>5. \A r \in Queries : \/ status'[r] = status[r]
                         \/ status'[r] = "Decode" /\ TakesChunk(1, r)
  <2>1. ASSUME NEW r \in Queries, EntersDecode(b, r, After(r))
        PROVE  TakesChunk(1, r)
    <3>1. ChunkOf(b, r) # {}
      BY <2>1 DEF EntersDecode
    <3>2. QED BY <1>1, <1>3, <3>1 DEF TakesChunk, Chunked, ChunkOf, b
  <2>2. QED BY <1>1, <2>1
<1>6. \A r \in Queries : TakesChunk(1, r) => status[r] \notin Early
  BY <1>2, <1>3 DEF StartedInv
<1>7. /\ << >> \in Seq(Events) /\ \A k \in DOMAIN << >> : FALSE
  OBVIOUS
<1>8. Turned(events, events', << >>) /\ events' \in Seq(Events)
  BY <1>1, <1>2, <1>7, TackleTurn
<1>9. TypeInv'
  <2>1. status' \in [Queries -> Early \cup {"Prefill", "Decode", "Done"}]
    BY <1>1, <1>2 DEF TypeInv
  <2>2. active' \in SUBSET Queries
    <3>1. QueryIds(b) \subseteq Queries
      BY <1>3 DEF QueryIds, Batch, Task
    <3>2. QED BY <1>1, <1>2, <3>1 DEF TypeInv
  <2>3. QED BY <1>1, <1>2, <1>4, <1>8, <2>1, <2>2 DEF TypeInv, engineVars
<1>10. PlaceInv'
  <2>1. ASSUME NEW r \in Queries
        PROVE  /\ status[r] \in Early => status'[r] \in Early
               /\ status'[r] # status[r] => r \in DOMAIN requests
    <3>1. status[r] \in Early => status'[r] \in Early
      BY <1>5, <1>6
    <3>2. status[r] \notin Early => r \in DOMAIN requests
      BY <1>2 DEF PlaceInv, Early
    <3>3. QED BY <1>5, <1>6, <3>1, <3>2
  <2>2. QED BY <1>1, <1>2, <1>7, <1>8, <2>1, PlacesStay
<1>11. ReadyInv'
  <2>1. \A r : In(readyQueue', r) => handle'[r] # << >>
    BY <1>1, <1>2 DEF ReadyInv, In
  <2>2. QED BY <1>1, <1>2, <1>7, <1>8, <2>1, ReadyTurn DEF ReadyInv
<1>12. BatchesInv'
  BY <1>1, <1>2, <1>7, <1>8, BatchesTurn
<1>13. StartedInv' /\ OrderInv'
  <2>1. \A r \in Queries :
           /\ status'[r] = "Done" => status[r] = "Done" \/ Ends(1, r)
           /\ status[r] \in {"Decode", "Done"} => status'[r] \in {"Decode", "Done"}
           /\ status'[r] \in Early => status[r] \in Early
    BY <1>5 DEF Early
  <2>2. QED BY <1>1, <1>2, <1>7, <1>8, <2>1, OrderTurn
<1>14. LiveHandles'
  <2>1. ASSUME NEW r \in Queries \ skewed, TakesChunk(1, r)
        PROVE  status[r] \in {"Prefill", "Decode"}
    <3>1. status[r] # "Done"
      BY <1>2, <1>3, <2>1 DEF OrderInv
    <3>2. status[r] \in Early \cup {"Prefill", "Decode", "Done"}
      BY <1>2 DEF TypeInv
    <3>3. QED BY <1>6, <2>1, <3>1, <3>2
  <2>2. QED BY <1>1, <1>2, <1>5, <2>1 DEF LiveHandles, engineVars
<1>15. EstimateInv'
  <2>1. \A r \in Queries \ skewed : status'[r] = "Done" <=> status[r] = "Done"
    BY <1>2, <1>3, <1>5 DEF OrderInv
  <2>2. QED BY <1>1, <1>2, <1>7, <2>1, EstimateTurn
<1>16. QED BY <1>9, <1>10, <1>11, <1>12, <1>13, <1>14, <1>15 DEF IInv

LEMMA SmallestIs ==
  ASSUME NEW S \in SUBSET Int, NEW m \in S, \A y \in S : m <= y
  PROVE  Smallest(S) = m
<1>1. Smallest(S) \in S /\ \A y \in S : Smallest(S) <= y
  BY DEF Smallest
<1> DEFINE s == Smallest(S)
<1>2. s \in Int /\ m \in Int /\ s <= m /\ m <= s
  BY <1>1
<1> HIDE DEF s
<1>3. s = m
  BY <1>2
<1>4. QED BY <1>3 DEF s

LEMMA SmallestOfThree ==
  ASSUME NEW x \in Int, NEW y \in Int, NEW z \in Int
  PROVE  \/ x <= x /\ x <= y /\ x <= z
         \/ y <= x /\ y <= y /\ y <= z
         \/ z <= x /\ z <= y /\ z <= z
OBVIOUS

LEMMA SmallestOfTwo ==
  ASSUME NEW x \in Int, NEW y \in Int
  PROVE  Smallest({x, y}) \in Int /\ Smallest({x, y}) <= y
<1>1. CASE x <= y
  <2>1. Smallest({x, y}) = x
    BY <1>1, SmallestIs
  <2>2. QED BY <1>1, <2>1
<1>2. CASE ~ (x <= y)
  <2>1. Smallest({x, y}) = y
    BY <1>2, SmallestIs
  <2>2. QED BY <2>1
<1>3. QED BY <1>1, <1>2

LEMMA ActivatedIsReady ==
  ASSUME TypeInv
  PROVE  Activated \in 0 .. Len(readyQueue)
<1> DEFINE prefilling == Cardinality({q \in active : status[q] = "Prefill"})
           room == MaxBatch - Cardinality(active)
           S == {2 - prefilling, Len(readyQueue), room}
<1>1. prefilling \in Nat /\ Cardinality(active) \in Nat
  <2>1. IsFiniteSet(1 .. NumQueries) /\ active \subseteq 1 .. NumQueries
    BY SchedulerAssumption, FS_Interval DEF TypeInv, Queries
  <2>2. IsFiniteSet(active) /\ IsFiniteSet({q \in active : status[q] = "Prefill"})
    BY <2>1, FS_Subset
  <2>3. QED BY <2>2, FS_CardinalityType
<1>2. Len(readyQueue) \in Nat /\ MaxBatch \in Nat
  BY SchedulerAssumption DEF TypeInv
<1>3. CASE prefilling >= 2 \/ Cardinality(active) >= MaxBatch
  <2>1. Activated = 0
    BY <1>3 DEF Activated
  <2>2. QED BY <1>2, <2>1
<1>4. CASE ~ (prefilling >= 2 \/ Cardinality(active) >= MaxBatch)
  <2>1. Activated = Smallest(S)
    BY <1>4 DEF Activated
  <2> HIDE DEF prefilling, room
  <2>2. 2 - prefilling \in Nat
    BY <1>1, <1>4
  <2>3. room \in Nat
    BY <1>1, <1>2, <1>4 DEF room
  <2>4. S \in SUBSET Int
    BY <1>2, <2>2, <2>3
  <2>5. \E m \in S : \A y \in S : m <= y
    <3>1. 2 - prefilling \in Int /\ Len(readyQueue) \in Int /\ room \in Int
      BY <1>2, <2>2, <2>3
    <3> DEFINE x == 2 - prefilling
               y == Len(readyQueue)
    <3>2. x \in Int /\ y \in Int /\ room \in Int /\ S = {x, y, room}
      BY <3>1
    <3> HIDE DEF x, y, S
    <3>3. \/ x <= x /\ x <= y /\ x <= room
          \/ y <= x /\ y <= y /\ y <= room
          \/ room <= x /\ room <= y /\ room <= room
      BY <3>2, SmallestOfThree
    <3>4. QED BY <3>2, <3>3
  <2>6. Smallest(S) \in S /\ \A y \in S : Smallest(S) <= y
    BY <2>4, <2>5, SmallestIs
  <2>7. QED BY <1>2, <2>1, <2>2, <2>3, <2>6
<1>5. QED BY <1>3, <1>4

(* A batch that has been planned has the chunks and the decodes that the   *)
(* statuses call for, and no chunk past a prompt.                          *)
LEMMA Generated ==
  ASSUME NEW Q \in SUBSET Queries, NEW st, NEW pl \in [Queries -> Int],
         requests \in Seq(Requests),
         \A q \in Q : st[q] \in {"Prefill", "Decode"} => q \in DOMAIN requests,
         NEW b, b = Generate(Q, st, pl)
  PROVE  /\ b \in Batch /\ BatchInv(requests, b)
         /\ \A q : Chunked(b, q) => q \in Q /\ st[q] = "Prefill"
         /\ \A q \in b.decodes : q \in Q /\ st[q] = "Decode"
<1> DEFINE prefilling == {q \in Q : st[q] = "Prefill"}
           decoding == {q \in Q : st[q] = "Decode"}
           long == \/ prefilling = {}
                   \/ Cardinality(prefilling) = 1 /\ MaxBatch - 2 >= Cardinality(decoding)
           length == IF long THEN 2 * Chunk ELSE Chunk
           TaskOf(q) == [id |-> q, start |-> pl[q],
                         length |-> Smallest({length, requests[q].prompt - pl[q]})]
<1>1. b.prefills = {TaskOf(q) : q \in prefilling} /\ b.decodes = decoding
      /\ b = [prefills |-> {TaskOf(q) : q \in prefilling}, decodes |-> decoding]
  BY DEF Generate
<1>2. length \in Int
  <2>1. Chunk \in Int /\ 2 * Chunk \in Int
    BY SchedulerAssumption
  <2>2. QED BY <2>1
<1> HIDE DEF length
<1>3. ASSUME NEW q \in prefilling
      PROVE  /\ TaskOf(q) \in Task /\ TaskOf(q).id = q /\ q \in DOMAIN requests
             /\ TaskOf(q).start + TaskOf(q).length <= requests[q].prompt
  <2>1. q \in DOMAIN requests /\ q \in Queries /\ pl[q] \in Int
    OBVIOUS
  <2>2. requests[q] \in Requests
    BY <2>1
  <2>3. requests[q].prompt \in Int
    BY <2>2, SchedulerAssumption
  <2>4. requests[q].prompt - pl[q] \in Int
    BY <2>1, <2>3
  <2> DEFINE l == Smallest({length, requests[q].prompt - pl[q]})
  <2>5. l \in Int /\ l <= requests[q].prompt - pl[q]
    BY <1>2, <2>4, SmallestOfTwo
  <2> HIDE DEF l
  <2>6. pl[q] + l <= requests[q].prompt
    BY <2>1, <2>3, <2>5
  <2>7. TaskOf(q) = [id |-> q, start |-> pl[q], length |-> l]
    BY DEF l
  <2>8. QED BY <2>1, <2>5, <2>6, <2>7 DEF Task
<1> HIDE DEF TaskOf
<1>4. b \in Batch
  BY <1>1, <1>3 DEF Batch
<1>5. BatchInv(requests, b)
  <2>1. \A t \in b.prefills : \E q \in prefilling : t = TaskOf(q) /\ t.id = q
    BY <1>1, <1>3
  <2>2. \A q \in prefilling : q \notin b.decodes
    BY <1>1
  <2>3. b.decodes \subseteq DOMAIN requests
    BY <1>1
  <2>4. \A t \in b.prefills : /\ t.id \in DOMAIN requests /\ t.id \notin b.decodes
                              /\ t.start + t.length <= requests[t.id].prompt
    BY <1>3, <2>1, <2>2
  <2>5. \A t, u \in b.prefills : t.id = u.id => t = u
    BY <2>1
  <2>6. QED BY <2>3, <2>4, <2>5 DEF BatchInv
<1>6. \A q : Chunked(b, q) => q \in Q /\ st[q] = "Prefill"
  BY <1>1, <1>3 DEF Chunked
<1>7. QED BY <1>1, <1>4, <1>5, <1>6

LEMMA ScheduleHandled == IInv /\ TackleSchedule => IInv'
<1> SUFFICES ASSUME IInv, TackleSchedule PROVE IInv'
  OBVIOUS
<1> DEFINE a == Activated
           started == {readyQueue[i] : i \in 1 .. a}
<1>1. /\ Tackle("Schedule", << >>)
      /\ readyQueue' = SubSeq(readyQueue, a + 1, Len(readyQueue))
      /\ active' = active \union started
      /\ status' = [q \in Queries |-> IF q \in started THEN "Prefill" ELSE status[q]]
      /\ plan' = [q \in Queries |-> IF q \in started THEN 0 ELSE plan[q]]
      /\ slot' = [batch |-> Generate(active', status', plan'), isNew |-> TRUE]
      /\ UNCHANGED <<requests, handle, waitQueue, waitDone, engineVars>>
  BY DEF TackleSchedule
<1>2. /\ TypeInv /\ PlaceInv /\ ReadyInv /\ BatchesInv /\ StartedInv /\ OrderInv
      /\ EstimateInv /\ LiveHandles
  BY DEF IInv
<1>3. a \in 0 .. Len(readyQueue)
  BY <1>2, ActivatedIsReady
<1> HIDE DEF a
<1>4. ASSUME NEW r \in started
      PROVE  /\ r \in Queries /\ In(readyQueue, r) /\ handle[r] # << >>
             /\ status[r] \in Early /\ r \in DOMAIN requests
  <2>1. PICK i \in 1 .. a : r = readyQueue[i]
    OBVIOUS
  <2>2. readyQueue \in Seq(Queries) /\ Len(readyQueue) \in Nat /\ DOMAIN readyQueue = 1 .. Len(readyQueue)
    BY <1>2 DEF TypeInv
  <2>3. i \in DOMAIN readyQueue
    BY <1>3, <2>2
  <2>4. r \in Queries /\ In(readyQueue, r) /\ handle[r] # << >>
    BY <1>2, <2>1, <2>2, <2>3 DEF In, ReadyInv
  <2>5. QED BY <1>2, <2>4 DEF PlaceInv
<1>5. /\ readyQueue' \in Seq(Queries) /\ Once(readyQueue')
      /\ \A r : In(readyQueue', r) => In(readyQueue, r) /\ r \notin started
  <2>1. readyQueue \in Seq(Queries) /\ Once(readyQueue)
    BY <1>2 DEF TypeInv, PlaceInv
  <2>2. /\ readyQueue' \in Seq(Queries) /\ Once(readyQueue')
        /\ \A r : In(readyQueue', r) => In(readyQueue, r) /\ \A j \in 1 .. a : readyQueue[j] # r
    BY <1>1, <1>3, <2>1, OnceRest
  <2>3. QED BY <2>2
<1> HIDE DEF started
<1>6. \A r \in Queries : status'[r] = IF r \in started THEN "Prefill" ELSE status[r]
  BY <1>1
<1>7. /\ status' \in [Queries -> Early \cup {"Prefill", "Decode", "Done"}]
      /\ plan' \in [Queries -> Int] /\ active' \in SUBSET Queries
  BY <1>1, <1>2, <1>4 DEF TypeInv
<1> DEFINE b == Generate(active', status', plan')
<1>8. /\ b \in Batch /\ BatchInv(requests, b)
      /\ \A q : Chunked(b, q) => q \in active' /\ status'[q] = "Prefill"
      /\ \A q \in b.decodes : q \in active' /\ status'[q] = "Decode"
  <2>1. requests \in Seq(Requests)
    BY <1>2 DEF TypeInv
  <2>2. \A q \in active' : status'[q] \in {"Prefill", "Decode"} => q \in DOMAIN requests
    BY <1>2, <1>4, <1>6, <1>7 DEF PlaceInv
  <2>3. QED BY <1>7, <2>1, <2>2, Generated
<1> HIDE DEF b
<1>9. slot' = [batch |-> b, isNew |-> TRUE] /\ slot'.batch = b /\ slot'.isNew
  BY <1>1 DEF b
<1>10. << >> \in Seq(Events) /\ \A k \in DOMAIN << >> : FALSE
  OBVIOUS
<1>11. Turned(events, events', << >>) /\ events' \in Seq(Events) /\ events \in Seq(Events) /\ events # << >>
  BY <1>1, <1>2, <1>10, TackleTurn
<1>12. TypeInv'
  BY <1>1, <1>2, <1>5, <1>7, <1>8, <1>9, <1>11 DEF TypeInv, engineVars
<1>13. OnceQueued(events') /\ \A r : QueuedIn(events', r) => QueuedIn(events, r)
  <2>1. OnceQueued(events)
    BY <1>2 DEF PlaceInv
  <2>2. QED BY <1>10, <1>11, <2>1, TurnQueued
<1>14. PlaceInv'
  <2>1. ASSUME NEW r \in Queries
        PROVE  Place(r, QueuedIn(events, r)', In(waitQueue, r)', In(readyQueue, r)',
                     waitDone' = r, requests', status')
    <3>1. Place(r, QueuedIn(events, r), In(waitQueue, r), In(readyQueue, r), waitDone = r, requests, status)
      BY <1>2, Places
    <3>2. /\ QueuedIn(events', r) => QueuedIn(events, r)
          /\ In(readyQueue', r) => In(readyQueue, r) /\ r \notin started
          /\ In(waitQueue', r) = In(waitQueue, r)
      BY <1>1, <1>5, <1>13
    <3>3. requests' = requests /\ waitDone' = waitDone
      BY <1>1
    <3>4. r \in started => In(readyQueue, r) /\ r \in DOMAIN requests
      BY <1>4
    <3>5. QED BY <1>6, <3>1, <3>2, <3>3, <3>4 DEF Place
  <2>2. /\ OnceQueued(events)' /\ Once(waitQueue)' /\ Once(readyQueue)'
        /\ \A r \in Queries : Place(r, QueuedIn(events, r)', In(waitQueue, r)', In(readyQueue, r)',
                                    waitDone' = r, requests', status')
    BY <1>1, <1>2, <1>5, <1>13, <2>1 DEF PlaceInv
  <2>3. QED BY <2>2 DEF PlaceInv, Place
<1>15. ReadyInv'
  <2>1. \A r : In(readyQueue', r) => handle'[r] # << >>
    BY <1>1, <1>2, <1>5 DEF ReadyInv, In
  <2>2. QED BY <1>1, <1>2, <1>10, <1>11, <2>1, ReadyTurn DEF ReadyInv
<1>16. BatchesInv'
  <2>1. requests' = requests /\ running' = running /\ taken' = taken
    BY <1>1 DEF engineVars
  <2>2. ASSUME NEW j \in DOMAIN events'
        PROVE  EventInv(requests, events'[j])
    BY <1>2, <1>10, <1>11 DEF BatchesInv, Turned
  <2>3. QED BY <1>2, <1>8, <1>9, <2>1, <2>2 DEF BatchesInv, BatchInv, EventInv
<1>17. /\ requests' = requests /\ engine' = engine /\ running' = running
       /\ taken' = taken /\ skewed' = skewed
  BY <1>1 DEF engineVars
<1>18. \A q : \A j \in DOMAIN events' : TakesChunk(j, q)' \/ Ends(j, q)' =>
         /\ j \in Nat /\ j + 1 \in DOMAIN events /\ j + 1 # 1
         /\ TakesChunk(j, q)' => TakesChunk(j + 1, q)
         /\ Ends(j, q)' => Ends(j + 1, q)
  BY <1>10, <1>11, <1>17, TurnShifts
<1>19. ASSUME NEW q \in Queries
       PROVE  /\ EndToCome(q)' => EndToCome(q)
              /\ ChunkToCome(q)' => ChunkToCome(q) \/ status'[q] = "Prefill"
              /\ DecodeToCome(q)' => EndToCome(q) \/ q \in taken.decodes \/ status'[q] = "Decode"
              /\ Chunked(slot'.batch, q) => status'[q] = "Prefill"
              /\ status[q] \in {"Decode", "Done"} => status'[q] = status[q]
              /\ status'[q] = "Done" => status[q] = "Done"
              /\ status'[q] \in Early => status[q] \in Early
  <2>1. EndToCome(q)' => EndToCome(q)
    BY <1>17, <1>18 DEF EndToCome
  <2>2. Chunked(slot'.batch, q) => status'[q] = "Prefill"
    BY <1>8, <1>9
  <2>3. ChunkToCome(q)' => ChunkToCome(q) \/ status'[q] = "Prefill"
    BY <1>17, <2>2 DEF ChunkToCome, Chunked
  <2>4. DecodeToCome(q)' => EndToCome(q) \/ q \in taken.decodes \/ status'[q] = "Decode"
    BY <1>8, <1>9, <1>17, <2>1 DEF DecodeToCome
  <2>5. /\ status[q] \in {"Decode", "Done"} => status'[q] = status[q]
        /\ status'[q] = "Done" => status[q] = "Done"
        /\ status'[q] \in Early => status[q] \in Early
    BY <1>4, <1>6 DEF Early
  <2>6. QED BY <2>1, <2>2, <2>3, <2>4, <2>5
<1>20. StartedInv'
  <2>1. ASSUME NEW q \in Queries
        PROVE  ChunkToCome(q)' \/ (\E i \in DOMAIN events' : TakesChunk(i, q)') => status'[q] \notin Early
    BY <1>2, <1>18, <1>19 DEF StartedInv, Early
  <2>2. QED BY <2>1 DEF StartedInv
<1>21. ASSUME NEW q \in Queries \ skewed
       PROVE  /\ \A i, j \in DOMAIN events' : TakesChunk(i, q)' /\ Ends(j, q)' => i < j
              /\ EndToCome(q)' \/ status'[q] = "Done" => ~ChunkToCome(q)'
              /\ status'[q] = "Done" => \A i \in DOMAIN events' : ~TakesChunk(i, q)'
              /\ q \in taken'.decodes => ~ (slot'.isNew /\ Chunked(slot'.batch, q))
              /\ DecodeToCome(q)' => status'[q] \in {"Decode", "Done"}
  <2>1. ASSUME NEW i \in DOMAIN events', NEW j \in DOMAIN events', TakesChunk(i, q)', Ends(j, q)'
        PROVE  i < j
    <3>1. /\ i \in Nat /\ j \in Nat /\ i + 1 \in DOMAIN events /\ j + 1 \in DOMAIN events
          /\ TakesChunk(i + 1, q) /\ Ends(j + 1, q)
      BY <1>18, <2>1
    <3>2. i + 1 < j + 1
      BY <1>2, <3>1 DEF OrderInv
    <3>3. QED BY <3>1, <3>2
  <2>2. EndToCome(q) \/ q \in taken.decodes => status[q] \in {"Decode", "Done"}
    BY <1>2 DEF OrderInv, DecodeToCome
  <2>3. EndToCome(q)' \/ status'[q] = "Done" => ~ChunkToCome(q)'
    BY <1>2, <1>19, <2>2 DEF OrderInv
  <2>4. status'[q] = "Done" => \A i \in DOMAIN events' : ~TakesChunk(i, q)'
    BY <1>2, <1>18, <1>19 DEF OrderInv
  <2>5. q \in taken'.decodes => ~ (slot'.isNew /\ Chunked(slot'.batch, q))
    BY <1>17, <1>19, <2>2
  <2>6. DecodeToCome(q)' => status'[q] \in {"Decode", "Done"}
    BY <1>19, <2>2
  <2>7. QED BY <2>1, <2>3, <2>4, <2>5, <2>6
<1>22. OrderInv'
  BY <1>17, <1>21 DEF OrderInv, Chunked
<1>23. LiveHandles'
  BY <1>1, <1>2, <1>4, <1>6, <1>17 DEF LiveHandles
<1>24. EstimateInv'
  <2>1. /\ position' = position /\ loop' = "dequeue" /\ events' = Tail(events) \o << >>
        /\ events[1].kind = "Schedule" /\ 1 \in DOMAIN events
    BY <1>1, <1>2, <1>10, TackleTurn DEF Tackle, engineVars
  <2>2. \A k \in DOMAIN events : k # 1 =>
           k \in Nat /\ k - 1 \in DOMAIN events' /\ events'[k - 1] = events[k]
    BY <1>10, <1>11, <2>1, TurnKept
  <2>3. \A k \in DOMAIN events' : ~ IsSchedule(k)'
    <3>1. ASSUME NEW k \in DOMAIN events', IsSchedule(k)' PROVE FALSE
      <4>1. k + 1 \in DOMAIN events /\ k + 1 # 1 /\ IsSchedule(k + 1)
        BY <1>10, <1>11, <3>1 DEF Turned, IsSchedule
      <4>2. QED BY <1>2, <2>1, <4>1 DEF EstimateInv, OneScheduleInv, IsSchedule
    <3>2. QED BY <3>1
  <2>4. ASSUME NEW q \in Queries \ skewed
        PROVE  Ended(q)' <=> Ended(q)
    <3>1. status'[q] = "Done" <=> status[q] = "Done"
      BY <1>19
    <3>2. (\E k \in DOMAIN events' : Ends(k, q)') => \E k \in DOMAIN events : Ends(k, q)
      BY <1>18
    <3>3. ASSUME NEW k \in DOMAIN events, Ends(k, q)
          PROVE  k - 1 \in DOMAIN events' /\ Ends(k - 1, q)'
      <4>1. k # 1
        BY <2>1, <3>3 DEF Ends
      <4>2. k - 1 \in DOMAIN events' /\ events'[k - 1] = events[k]
        BY <2>2, <4>1
      <4>3. QED BY <1>17, <3>3, <4>2 DEF Ends
    <3>4. QED BY <3>1, <3>2, <3>3 DEF Ended
  <2>5. OneScheduleInv'
    BY <2>1, <2>3 DEF OneScheduleInv
  <2>6. ChunkInv'
    BY <1>2, <1>17, <2>4 DEF EstimateInv, ChunkInv, Chunked
  <2>7. ASSUME NEW q \in Queries \ skewed
        PROVE  Left(q) \in Nat /\ Left(q)' \in Nat /\ Left(q)' <= Left(q)
    <3>1. ~ MayPlan(q)'
      BY <2>3 DEF MayPlan
    <3>2. q \in b.decodes => MayPlan(q)
      <4>1. SUFFICES ASSUME q \in b.decodes PROVE MayPlan(q)
        OBVIOUS
      <4>2. status[q] # "Done"
        BY <1>8, <1>19, <4>1
      <4>3. \A k \in DOMAIN events : Ends(k, q) => 1 < k
        <5>1. \A k \in DOMAIN events : Ends(k, q) => k # 1
          BY <2>1 DEF Ends
        <5>2. \A k \in DOMAIN events : k # 1 => 1 < k
          BY <1>11
        <5>3. QED BY <5>1, <5>2
      <4>4. QED BY <2>1, <4>2, <4>3 DEF MayPlan, IsSchedule
    <3>3. QED BY <1>9, <1>17, <3>1, <3>2 DEF Left, Count
  <2>8. ASSUME NEW q \in Queries \ skewed,
               q \in DOMAIN requests, requests[q].estimated >= requests[q].prompt + 4
        PROVE  /\ ~ Ended(q)' => position[q] <= requests[q].estimated - 4
               /\ Ended(q)' => position[q] + Left(q)' <= requests[q].estimated
    <3>1. /\ ~ Ended(q) => position[q] <= requests[q].estimated - 4
          /\ Ended(q) => position[q] + Left(q) <= requests[q].estimated
      BY <1>2, <2>8 DEF EstimateInv, CountInv
    <3>2. position[q] \in Int /\ requests[q].estimated \in Int
      BY <1>2, <2>8, SchedulerAssumption DEF TypeInv
    <3>3. QED BY <2>4, <2>7, <3>1, <3>2
  <2>9. CountInv'
    BY <1>2, <1>17, <2>1, <2>8 DEF EstimateInv, CountInv
  <2>10. QED BY <2>5, <2>6, <2>9 DEF EstimateInv
<1>25. QED BY <1>12, <1>14, <1>15, <1>16, <1>20, <1>22, <1>23, <1>24 DEF IInv

-----------------------------------------------------------------------------
(* Steps that enqueue an event: the check of the queue's size, the web     *)
(* server and the engine                                                   *)

LEMMA Appended ==
  ASSUME TypeInv, NEW e \in Events, events' = Append(events, e)
  PROVE  /\ events' \in Seq(Events) /\ DOMAIN events' = DOMAIN events \cup {Len(events) + 1}
         /\ events'[Len(events) + 1] = e /\ Len(events) + 1 \notin DOMAIN events
         /\ \A j \in DOMAIN events : events'[j] = events[j] /\ j < Len(events) + 1
<1>1. events \in Seq(Events) /\ Len(events) \in Nat /\ DOMAIN events = 1 .. Len(events)
  BY DEF TypeInv
<1>2. /\ events' \in Seq(Events) /\ DOMAIN events' = 1 .. (Len(events) + 1)
      /\ events'[Len(events) + 1] = e
      /\ \A j \in 1 .. Len(events) : events'[j] = events[j]
  BY <1>1, AppendProperties
<1>3. 1 .. (Len(events) + 1) = 1 .. Len(events) \cup {Len(events) + 1}
  BY <1>1
<1>4. Len(events) + 1 \notin 1 .. Len(events) /\ \A j \in 1 .. Len(events) : j < Len(events) + 1
  BY <1>1
<1>5. QED BY <1>1, <1>2, <1>3, <1>4

(* Where the queries of the events are when the last event is e *)
LEMMA AppendQueued ==
  ASSUME TypeInv, PlaceInv, NEW e \in Events, events' = Append(events, e),
         Queued(e) => ~ QueuedIn(events, e.q)
  PROVE  /\ OnceQueued(events')
         /\ \A r : QueuedIn(events', r) => QueuedIn(events, r) \/ (Queued(e) /\ e.q = r)
<1>1. /\ DOMAIN events' = DOMAIN events \cup {Len(events) + 1} /\ events'[Len(events) + 1] = e
      /\ \A j \in DOMAIN events : events'[j] = events[j]
  BY Appended
<1>2. OnceQueued(events)
  BY DEF PlaceInv
<1>3. OnceQueued(events')
  BY <1>1, <1>2 DEF OnceQueued, QueuedIn
<1>4. QED BY <1>1, <1>3 DEF QueuedIn

(* The chunks and the ends in the events, when the last event is e and a   *)
(* query may have been added                                               *)
LEMMA AppendOrder ==
  ASSUME TypeInv, BatchesInv, NEW e \in Events, events' = Append(events, e),
         \A q \in DOMAIN requests : requests'[q] = requests[q]
  PROVE  \A q : \A j \in DOMAIN events' :
           /\ TakesChunk(j, q)' =>
                \/ j \in DOMAIN events /\ TakesChunk(j, q)
                \/ j = Len(events) + 1 /\ e.kind = "TakenBatch" /\ Chunked(e.batch, q)
           /\ Ends(j, q)' =>
                \/ j \in DOMAIN events /\ Ends(j, q)
                \/ /\ j = Len(events) + 1 /\ e.kind = "Update"
                   /\ \E u \in e.updates :
                        u.id = q /\ (u.done \/ u.position = requests'[q].estimated - 1)
<1> SUFFICES ASSUME NEW q, NEW j \in DOMAIN events'
             PROVE  /\ TakesChunk(j, q)' =>
                         \/ j \in DOMAIN events /\ TakesChunk(j, q)
                         \/ j = Len(events) + 1 /\ e.kind = "TakenBatch" /\ Chunked(e.batch, q)
                    /\ Ends(j, q)' =>
                         \/ j \in DOMAIN events /\ Ends(j, q)
                         \/ /\ j = Len(events) + 1 /\ e.kind = "Update"
                            /\ \E u \in e.updates :
                                 u.id = q /\ (u.done \/ u.position = requests'[q].estimated - 1)
  OBVIOUS
<1>1. /\ j \in DOMAIN events \/ j = Len(events) + 1
      /\ events'[Len(events) + 1] = e
      /\ j \in DOMAIN events => events'[j] = events[j]
  BY Appended
<1>2. CASE j = Len(events) + 1
  BY <1>1, <1>2 DEF TakesChunk, Chunked, Ends
<1>3. CASE j \in DOMAIN events
  <2>1. TakesChunk(j, q)' => TakesChunk(j, q)
    BY <1>1, <1>3 DEF TakesChunk, Chunked
  <2>2. ASSUME Ends(j, q)' PROVE Ends(j, q)
    <3>1. events[j].kind = "Update" /\ events'[j] = events[j]
      BY <1>1, <1>3, <2>2 DEF Ends
    <3>2. PICK u \in events[j].updates :
             u.id = q /\ (u.done \/ u.position = requests'[q].estimated - 1)
      BY <2>2, <3>1 DEF Ends
    <3>3. q \in DOMAIN requests
      BY <1>3, <3>1, <3>2 DEF BatchesInv, EventInv
    <3>4. QED BY <3>1, <3>2, <3>3 DEF Ends
  <2>3. QED BY <1>3, <2>1, <2>2
<1>4. QED BY <1>1, <1>2, <1>3

LEMMA AppendBatches ==
  ASSUME TypeInv, BatchesInv, NEW e \in Events, events' = Append(events, e),
         EventInv(requests, e),
         DOMAIN requests \subseteq DOMAIN requests',
         \A q \in DOMAIN requests : requests'[q] = requests[q]
  PROVE  /\ \A j \in DOMAIN events' : EventInv(requests', events'[j])
         /\ \A b : BatchInv(requests, b) => BatchInv(requests', b)
<1>1. /\ DOMAIN events' = DOMAIN events \cup {Len(events) + 1} /\ events'[Len(events) + 1] = e
      /\ \A j \in DOMAIN events : events'[j] = events[j]
  BY Appended
<1>2. ASSUME NEW b, BatchInv(requests, b) PROVE BatchInv(requests', b)
  BY <1>2 DEF BatchInv
<1>3. ASSUME NEW x, EventInv(requests, x) PROVE EventInv(requests', x)
  BY <1>2, <1>3 DEF EventInv
<1>4. \A j \in DOMAIN events' : EventInv(requests, events'[j])
  BY <1>1 DEF BatchesInv
<1>5. QED BY <1>2, <1>3, <1>4

LEMMA AppendReady ==
  ASSUME TypeInv, ReadyInv, NEW e \in Events, events' = Append(events, e),
         e.kind # "Prepared", UNCHANGED <<handle, readyQueue>>
  PROVE  ReadyInv'
<1>1. /\ DOMAIN events' = DOMAIN events \cup {Len(events) + 1} /\ events'[Len(events) + 1] = e
      /\ \A j \in DOMAIN events : events'[j] = events[j]
  BY Appended
<1>2. QED BY <1>1 DEF ReadyInv

(* An event that is neither a batch nor an update *)
LEMMA AppendQuiet ==
  ASSUME TypeInv, BatchesInv, StartedInv, OrderInv, NEW e \in Events, Quiet(e),
         events' = Append(events, e), \A q \in DOMAIN requests : requests'[q] = requests[q],
         UNCHANGED <<status, slot, engineVars>>
  PROVE  StartedInv' /\ OrderInv'
<1>1. /\ slot' = slot /\ engine' = engine /\ running' = running
      /\ taken' = taken /\ skewed' = skewed /\ status' = status
  BY DEF engineVars
<1>2. \A q : \A j \in DOMAIN events' :
        /\ TakesChunk(j, q)' => j \in DOMAIN events /\ TakesChunk(j, q)
        /\ Ends(j, q)' => j \in DOMAIN events /\ Ends(j, q)
  BY AppendOrder DEF Quiet
<1>3. ASSUME NEW q
      PROVE  /\ EndToCome(q)' => EndToCome(q)
             /\ ChunkToCome(q)' => ChunkToCome(q)
             /\ DecodeToCome(q)' => DecodeToCome(q)
  <2>1. EndToCome(q)' => EndToCome(q)
    BY <1>1, <1>2 DEF EndToCome
  <2>2. ChunkToCome(q)' => ChunkToCome(q)
    BY <1>1 DEF ChunkToCome, Chunked
  <2>3. DecodeToCome(q)' => DecodeToCome(q)
    BY <1>1, <2>1 DEF DecodeToCome
  <2>4. QED BY <2>1, <2>2, <2>3
<1>4. ASSUME NEW q \in Queries \ skewed
      PROVE  /\ \A i, j \in DOMAIN events' : TakesChunk(i, q)' /\ Ends(j, q)' => i < j
             /\ EndToCome(q)' \/ status'[q] = "Done" => ~ChunkToCome(q)'
             /\ status'[q] = "Done" => \A i \in DOMAIN events' : ~TakesChunk(i, q)'
             /\ q \in taken'.decodes => ~ (slot'.isNew /\ Chunked(slot'.batch, q))
             /\ DecodeToCome(q)' => status'[q] \in {"Decode", "Done"}
  BY <1>1, <1>2, <1>3 DEF OrderInv
<1>5. OrderInv'
  BY <1>1, <1>4 DEF OrderInv, Chunked
<1>6. \A q \in Queries :
        ChunkToCome(q)' \/ (\E i \in DOMAIN events' : TakesChunk(i, q)') => status'[q] \notin Early
  BY <1>1, <1>2, <1>3 DEF StartedInv
<1>7. QED BY <1>5, <1>6 DEF StartedInv

(* ... or a batch: no query ends. *)
LEMMA AppendEstimate ==
  ASSUME TypeInv, TypeInv', PlaceInv, BatchesInv, EstimateInv, NEW e \in Events, e.kind # "Update",
         events' = Append(events, e),
         e.kind = "Schedule" => loop = "enqueue" /\ loop' = "dequeue",
         loop' # "dequeue" => loop' = loop,
         DOMAIN requests \subseteq DOMAIN requests',
         \A q \in DOMAIN requests : requests'[q] = requests[q],
         engine' = "poll" <=> engine = "poll",
         UNCHANGED <<status, slot, running, taken, position, skewed>>
  PROVE  EstimateInv'
<1>1. /\ DOMAIN events' = DOMAIN events \cup {Len(events) + 1} /\ events'[Len(events) + 1] = e
      /\ \A j \in DOMAIN events : events'[j] = events[j] /\ j < Len(events) + 1
  BY Appended
<1>2. \A q : \A j \in DOMAIN events' : Ends(j, q)' => j \in DOMAIN events /\ Ends(j, q)
  BY AppendOrder
<1>3. ASSUME NEW q, NEW j \in DOMAIN events, Ends(j, q)
      PROVE  j \in DOMAIN events' /\ Ends(j, q)' /\ q \in DOMAIN requests
  <2>1. q \in DOMAIN requests
    BY <1>3 DEF BatchesInv, EventInv, Ends
  <2>2. events'[j] = events[j] /\ requests'[q] = requests[q]
    BY <1>1, <2>1
  <2>3. QED BY <1>1, <1>3, <2>1, <2>2 DEF Ends
<1>4. OneScheduleInv'
  BY <1>1 DEF EstimateInv, OneScheduleInv, IsSchedule
<1>5. ASSUME NEW q
      PROVE  /\ Ended(q)' <=> Ended(q)
             /\ Ended(q) /\ MayPlan(q)' => MayPlan(q)
  <2>1. Ended(q)' <=> Ended(q)
    BY <1>2, <1>3 DEF Ended
  <2>2. ASSUME Ended(q), MayPlan(q)' PROVE MayPlan(q)
    <3>1. PICK i \in DOMAIN events' :
             IsSchedule(i)' /\ \A j \in DOMAIN events' : Ends(j, q)' => i < j
      BY <2>2 DEF MayPlan
    <3>2. status[q] # "Done"
      BY <2>2 DEF MayPlan
    <3>3. PICK j \in DOMAIN events : Ends(j, q)
      BY <2>2, <3>2 DEF Ended
    <3>4. i < j /\ j < Len(events) + 1
      <4>1. j \in DOMAIN events' /\ Ends(j, q)'
        BY <1>3, <3>3
      <4>2. i < j
        BY <3>1, <4>1
      <4>3. QED BY <1>1, <3>3, <4>2
    <3>5. Len(events) + 1 \in Nat /\ j \in Nat
      BY <3>3 DEF TypeInv
    <3>6. i # Len(events) + 1
      BY <3>4, <3>5
    <3>7. i \in DOMAIN events /\ IsSchedule(i)
      BY <1>1, <3>1, <3>6 DEF IsSchedule
    <3>8. \A k \in DOMAIN events : Ends(k, q) => i < k
      BY <1>3, <3>1
    <3>9. QED BY <3>2, <3>7, <3>8 DEF MayPlan
  <2>3. QED BY <2>1, <2>2
<1>6. ChunkInv'
  BY <1>5 DEF EstimateInv, ChunkInv, Chunked
<1>7. ASSUME NEW q \in Queries \ skewed,
             q \in DOMAIN requests', requests'[q].estimated >= requests'[q].prompt + 4
      PROVE  /\ ~ Ended(q)' => position[q] <= requests'[q].estimated - 4
             /\ Ended(q)' => position[q] + Left(q)' <= requests'[q].estimated
  <2>1. /\ position[q] \in Int /\ requests'[q].estimated \in Int
        /\ requests'[q].prompt \in Nat \ {0}
    BY <1>7, SchedulerAssumption DEF TypeInv
  <2>2. CASE q \notin DOMAIN requests
    <3>1. status[q] = "None"
      BY <2>2 DEF PlaceInv
    <3>2. ~ Ended(q)
      BY <1>3, <2>2, <3>1 DEF Ended
    <3>3. position[q] = 0
      BY <2>2 DEF EstimateInv, CountInv
    <3>4. QED BY <1>5, <1>7, <2>1, <3>2, <3>3
  <2>3. CASE q \in DOMAIN requests
    <3>1. requests'[q] = requests[q]
      BY <2>3
    <3>2. /\ ~ Ended(q) => position[q] <= requests'[q].estimated - 4
          /\ Ended(q) => position[q] + Left(q) <= requests'[q].estimated
      BY <1>7, <2>3, <3>1 DEF EstimateInv, CountInv
    <3>3. Ended(q) => Left(q) \in Nat /\ Left(q)' \in Nat /\ Left(q)' <= Left(q)
      BY <1>5, LeftShrinks
    <3>4. QED BY <1>5, <2>1, <3>2, <3>3
  <2>4. QED BY <2>2, <2>3
<1>8. CountInv'
  BY <1>7 DEF EstimateInv, CountInv
<1>9. QED BY <1>4, <1>6, <1>8 DEF EstimateInv

LEMMA ScheduleEnqueued == IInv /\ EnqueueSchedule => IInv'
<1> SUFFICES ASSUME IInv, EnqueueSchedule PROVE IInv'
  OBVIOUS
<1> DEFINE e == Event("Schedule")
<1>1. /\ events' = Append(events, e)
      /\ UNCHANGED <<requests, status, plan, handle, waitQueue, readyQueue, waitDone, active,
                     slot, engineVars>>
  BY DEF EnqueueSchedule
<1>2. /\ TypeInv /\ PlaceInv /\ ReadyInv /\ BatchesInv /\ StartedInv /\ OrderInv
      /\ EstimateInv /\ LiveHandles
  BY DEF IInv
<1>3. e \in Events /\ e.kind = "Schedule"
  BY DEF Event, Events
<1> HIDE DEF e
<1>4. Quiet(e) /\ ~ Queued(e) /\ e.kind # "Prepared" /\ EventInv(requests, e)
  BY <1>3 DEF Quiet, Queued, EventInv
<1>5. TypeInv'
  <2>1. events' \in Seq(Events)
    BY <1>1, <1>2, <1>3, Appended
  <2>2. QED BY <1>1, <1>2, <2>1 DEF TypeInv, engineVars
<1>6. PlaceInv'
  <2>1. OnceQueued(events') /\ \A r : QueuedIn(events', r) => QueuedIn(events, r)
    BY <1>1, <1>2, <1>3, <1>4, AppendQueued
  <2>2. ASSUME NEW r \in Queries
        PROVE  Place(r, QueuedIn(events, r)', In(waitQueue, r)', In(readyQueue, r)',
                     waitDone' = r, requests', status')
    <3>1. Place(r, QueuedIn(events, r), In(waitQueue, r), In(readyQueue, r), waitDone = r, requests, status)
      BY <1>2, Places
    <3>2. QED BY <1>1, <2>1, <3>1 DEF Place
  <2>3. /\ OnceQueued(events)' /\ Once(waitQueue)' /\ Once(readyQueue)'
        /\ \A r \in Queries : Place(r, QueuedIn(events, r)', In(waitQueue, r)', In(readyQueue, r)',
                                    waitDone' = r, requests', status')
    BY <1>1, <1>2, <2>1, <2>2 DEF PlaceInv
  <2>4. QED BY <2>3 DEF PlaceInv, Place
<1>7. ReadyInv'
  BY <1>1, <1>2, <1>3, <1>4, AppendReady
<1>8. BatchesInv'
  <2>1. \A j \in DOMAIN events' : EventInv(requests', events'[j])
    BY <1>1, <1>2, <1>3, <1>4, AppendBatches
  <2>2. requests' = requests /\ slot' = slot /\ taken' = taken /\ running' = running
    BY <1>1 DEF engineVars
  <2>3. QED BY <1>2, <2>1, <2>2 DEF BatchesInv, BatchInv, EventInv
<1>9. StartedInv' /\ OrderInv'
  BY <1>1, <1>2, <1>3, <1>4, AppendQuiet
<1>10. LiveHandles'
  BY <1>1, <1>2 DEF LiveHandles, engineVars
<1>11. EstimateInv'
  <2>1. loop = "enqueue" /\ loop' = "dequeue"
    BY DEF EnqueueSchedule
  <2>2. QED BY <1>1, <1>2, <1>3, <1>5, <2>1, AppendEstimate DEF engineVars
<1>12. QED BY <1>5, <1>6, <1>7, <1>8, <1>9, <1>10, <1>11 DEF IInv

LEMMA QueryAdded == IInv /\ AddQuery => IInv'
<1> SUFFICES ASSUME IInv, AddQuery PROVE IInv'
  OBVIOUS
<1>1. PICK r \in Requests : requests' = Append(requests, r)
  BY DEF AddQuery
<1> DEFINE q == Len(requests')
           e == QueryEvent("AddQuery", q)
<1>2. /\ Len(requests) < NumQueries /\ events' = Append(events, e)
      /\ UNCHANGED <<slot, status, plan, handle, waitQueue, readyQueue, waitDone, active, engineVars>>
  BY DEF AddQuery, loopVars
<1>3. /\ TypeInv /\ PlaceInv /\ ReadyInv /\ BatchesInv /\ StartedInv /\ OrderInv
      /\ EstimateInv /\ LiveHandles
  BY DEF IInv
<1>4. /\ requests' \in Seq(Requests) /\ q = Len(requests) + 1 /\ q \in 1 .. NumQueries
      /\ q \notin DOMAIN requests /\ DOMAIN requests' = DOMAIN requests \cup {q}
      /\ \A k \in DOMAIN requests : requests'[k] = requests[k]
  <2>1. requests \in Seq(Requests) /\ Len(requests) \in Nat /\ DOMAIN requests = 1 .. Len(requests)
    BY <1>3 DEF TypeInv
  <2>2. /\ requests' \in Seq(Requests) /\ Len(requests') = Len(requests) + 1
        /\ DOMAIN requests' = 1 .. (Len(requests) + 1)
        /\ \A k \in 1 .. Len(requests) : requests'[k] = requests[k]
    BY <1>1, <2>1, AppendProperties
  <2>3. 1 .. (Len(requests) + 1) = 1 .. Len(requests) \cup {Len(requests) + 1}
    BY <2>1
  <2>4. Len(requests) + 1 \in 1 .. NumQueries /\ Len(requests) + 1 \notin 1 .. Len(requests)
    BY <1>2, <2>1, SchedulerAssumption
  <2>5. QED BY <2>1, <2>2, <2>3, <2>4
<1> HIDE DEF q
<1>5. q \in Queries /\ q <= NumQueries
  BY <1>4, SchedulerAssumption DEF Queries
<1>6. e \in Events /\ e.kind = "AddQuery" /\ e.q = q
  BY <1>5, MakeEvents
<1> HIDE DEF e
<1>7. Quiet(e) /\ e.kind # "Prepared" /\ EventInv(requests, e)
  BY <1>6 DEF Quiet, EventInv
<1>8. /\ ~ QueuedIn(events, q) /\ ~ In(waitQueue, q) /\ ~ In(readyQueue, q) /\ waitDone # q
      /\ status[q] = "None"
  BY <1>3, <1>4, <1>5 DEF PlaceInv
<1>9. TypeInv'
  <2>1. events' \in Seq(Events)
    BY <1>2, <1>3, <1>6, Appended
  <2>2. requests' \in Seq(Requests) /\ Len(requests') <= NumQueries
    BY <1>4, <1>5 DEF q
  <2>3. QED BY <1>2, <1>3, <2>1, <2>2 DEF TypeInv, engineVars
<1>10. PlaceInv'
  <2>1. OnceQueued(events') /\ \A k : QueuedIn(events', k) => QueuedIn(events, k) \/ k = q
    BY <1>2, <1>3, <1>6, <1>8, AppendQueued
  <2>2. ASSUME NEW k \in Queries
        PROVE  Place(k, QueuedIn(events, k)', In(waitQueue, k)', In(readyQueue, k)',
                     waitDone' = k, requests', status')
    <3>1. Place(k, QueuedIn(events, k), In(waitQueue, k), In(readyQueue, k), waitDone = k, requests, status)
      BY <1>3, Places
    <3>2. /\ QueuedIn(events', k) => QueuedIn(events, k) \/ k = q
          /\ In(waitQueue', k) = In(waitQueue, k) /\ In(readyQueue', k) = In(readyQueue, k)
          /\ waitDone' = waitDone /\ status' = status
      BY <1>2, <2>1
    <3>3. QED BY <1>4, <1>8, <3>1, <3>2 DEF Place, Early
  <2>3. /\ OnceQueued(events)' /\ Once(waitQueue)' /\ Once(readyQueue)'
        /\ \A k \in Queries : Place(k, QueuedIn(events, k)', In(waitQueue, k)', In(readyQueue, k)',
                                    waitDone' = k, requests', status')
    BY <1>2, <1>3, <2>1, <2>2 DEF PlaceInv
  <2>4. QED BY <2>3 DEF PlaceInv, Place
<1>11. ReadyInv'
  BY <1>2, <1>3, <1>6, <1>7, AppendReady
<1>12. BatchesInv'
  <2>1. /\ \A j \in DOMAIN events' : EventInv(requests', events'[j])
        /\ \A b : BatchInv(requests, b) => BatchInv(requests', b)
    BY <1>2, <1>3, <1>4, <1>6, <1>7, AppendBatches
  <2>2. slot' = slot /\ taken' = taken /\ running' = running
    BY <1>2 DEF engineVars
  <2>3. /\ BatchInv(requests', slot.batch) /\ BatchInv(requests', taken)
        /\ BatchInv(requests', running)
    BY <1>3, <2>1 DEF BatchesInv
  <2>4. QED BY <2>1, <2>2, <2>3 DEF BatchesInv, BatchInv, EventInv
<1>13. StartedInv' /\ OrderInv'
  BY <1>2, <1>3, <1>4, <1>6, <1>7, AppendQuiet
<1>14. LiveHandles'
  BY <1>2, <1>3 DEF LiveHandles, engineVars
<1>15. EstimateInv'
  <2>1. loop' = loop
    BY DEF AddQuery, loopVars
  <2>2. QED BY <1>2, <1>3, <1>4, <1>6, <1>9, <2>1, AppendEstimate DEF engineVars
<1>16. QED BY <1>9, <1>10, <1>11, <1>12, <1>13, <1>14, <1>15 DEF IInv

LEMMA BatchAnnounced == IInv /\ AnnounceBatch => IInv'
<1> SUFFICES ASSUME IInv, AnnounceBatch PROVE IInv'
  OBVIOUS
<1> DEFINE e == [kind |-> "TakenBatch", batch |-> taken]
<1>1. /\ engine = "announce" /\ engine' = "run" /\ events' = Append(events, e)
      /\ UNCHANGED <<requests, status, plan, handle, waitQueue, readyQueue, waitDone, active,
                     slot, running, taken, position, skewed>>
  BY DEF AnnounceBatch, loopVars
<1>2. /\ TypeInv /\ PlaceInv /\ ReadyInv /\ BatchesInv /\ StartedInv /\ OrderInv
      /\ EstimateInv /\ LiveHandles
  BY DEF IInv
<1>3. e \in Events /\ e.kind = "TakenBatch" /\ e.batch = taken
  BY <1>2 DEF Events, TypeInv
<1> HIDE DEF e
<1>4. ~ Queued(e) /\ e.kind # "Prepared" /\ EventInv(requests, e)
  BY <1>2, <1>3 DEF Queued, EventInv, BatchesInv
<1>5. TypeInv'
  <2>1. events' \in Seq(Events)
    BY <1>1, <1>2, <1>3, Appended
  <2>2. QED BY <1>1, <1>2, <2>1 DEF TypeInv
<1>6. PlaceInv'
  <2>1. OnceQueued(events') /\ \A r : QueuedIn(events', r) => QueuedIn(events, r)
    BY <1>1, <1>2, <1>3, <1>4, AppendQueued
  <2>2. ASSUME NEW r \in Queries
        PROVE  Place(r, QueuedIn(events, r)', In(waitQueue, r)', In(readyQueue, r)',
                     waitDone' = r, requests', status')
    <3>1. Place(r, QueuedIn(events, r), In(waitQueue, r), In(readyQueue, r), waitDone = r, requests, status)
      BY <1>2, Places
    <3>2. QED BY <1>1, <2>1, <3>1 DEF Place
  <2>3. /\ OnceQueued(events)' /\ Once(waitQueue)' /\ Once(readyQueue)'
        /\ \A r \in Queries : Place(r, QueuedIn(events, r)', In(waitQueue, r)', In(readyQueue, r)',
                                    waitDone' = r, requests', status')
    BY <1>1, <1>2, <2>1, <2>2 DEF PlaceInv
  <2>4. QED BY <2>3 DEF PlaceInv, Place
<1>7. ReadyInv'
  BY <1>1, <1>2, <1>3, <1>4, AppendReady
<1>8. BatchesInv'
  <2>1. \A j \in DOMAIN events' : EventInv(requests', events'[j])
    BY <1>1, <1>2, <1>3, <1>4, AppendBatches
  <2>2. requests' = requests /\ slot' = slot /\ taken' = taken /\ running' = running
    BY <1>1
  <2>3. QED BY <1>2, <2>1, <2>2 DEF BatchesInv, BatchInv, EventInv
<1>9. \A q : \A j \in DOMAIN events' :
        /\ TakesChunk(j, q)' =>
             \/ j \in DOMAIN events /\ TakesChunk(j, q)
             \/ j = Len(events) + 1 /\ Chunked(taken, q)
        /\ Ends(j, q)' => j \in DOMAIN events /\ Ends(j, q)
  BY <1>1, <1>2, <1>3, AppendOrder
<1>10. \A q : Chunked(taken, q) => ChunkToCome(q)
  BY <1>1 DEF ChunkToCome
<1>11. ASSUME NEW q
       PROVE  /\ EndToCome(q)' => EndToCome(q)
              /\ ChunkToCome(q)' => ChunkToCome(q)
              /\ DecodeToCome(q)' => DecodeToCome(q)
  <2>1. EndToCome(q)' => EndToCome(q)
    BY <1>1, <1>9 DEF EndToCome
  <2>2. ChunkToCome(q)' => ChunkToCome(q)
    BY <1>1 DEF ChunkToCome, Chunked
  <2>3. DecodeToCome(q)' => DecodeToCome(q)
    BY <1>1, <2>1 DEF DecodeToCome
  <2>4. QED BY <2>1, <2>2, <2>3
<1>12. ASSUME NEW q \in Queries \ skewed
       PROVE  /\ \A i, j \in DOMAIN events' : TakesChunk(i, q)' /\ Ends(j, q)' => i < j
              /\ EndToCome(q)' \/ status'[q] = "Done" => ~ChunkToCome(q)'
              /\ status'[q] = "Done" => \A i \in DOMAIN events' : ~TakesChunk(i, q)'
              /\ q \in taken'.decodes => ~ (slot'.isNew /\ Chunked(slot'.batch, q))
              /\ DecodeToCome(q)' => status'[q] \in {"Decode", "Done"}
  <2>1. \A j \in DOMAIN events : Ends(j, q) => EndToCome(q)
    BY DEF EndToCome
  <2>2. EndToCome(q) \/ status[q] = "Done" => ~ChunkToCome(q)
    BY <1>2 DEF OrderInv
  <2>3. \A i, j \in DOMAIN events' : TakesChunk(i, q)' /\ Ends(j, q)' => i < j
    BY <1>2, <1>9, <1>10, <2>1, <2>2 DEF OrderInv
  <2>4. status'[q] = "Done" => \A i \in DOMAIN events' : ~TakesChunk(i, q)'
    BY <1>1, <1>2, <1>9, <1>10, <2>2 DEF OrderInv
  <2>5. EndToCome(q)' \/ status'[q] = "Done" => ~ChunkToCome(q)'
    BY <1>1, <1>11, <2>2
  <2>6. DecodeToCome(q)' => status'[q] \in {"Decode", "Done"}
    BY <1>1, <1>2, <1>11 DEF OrderInv
  <2>7. q \in taken'.decodes => ~ (slot'.isNew /\ Chunked(slot'.batch, q))
    BY <1>1, <1>2 DEF OrderInv
  <2>8. QED BY <2>3, <2>4, <2>5, <2>6, <2>7
<1>13. OrderInv'
  BY <1>1, <1>12 DEF OrderInv, Chunked
<1>14. StartedInv'
  <2>1. \A q \in Queries :
          ChunkToCome(q)' \/ (\E i \in DOMAIN events' : TakesChunk(i, q)') => status'[q] \notin Early
    BY <1>1, <1>2, <1>9, <1>10, <1>11 DEF StartedInv
  <2>2. QED BY <2>1 DEF StartedInv
<1>15. LiveHandles'
  BY <1>1, <1>2 DEF LiveHandles
<1>16. EstimateInv'
  <2>1. loop' = loop
    BY DEF AnnounceBatch, loopVars
  <2>2. QED BY <1>1, <1>2, <1>3, <1>5, <2>1, AppendEstimate
<1>17. QED BY <1>5, <1>6, <1>7, <1>8, <1>13, <1>14, <1>15, <1>16 DEF IInv

LEMMA BatchTaken == IInv /\ TakeBatch => IInv'
<1> SUFFICES ASSUME IInv, TakeBatch PROVE IInv'
  OBVIOUS
<1>1. /\ slot.isNew /\ slot' = [slot EXCEPT !.isNew = FALSE] /\ taken' = slot.batch
      /\ engine' = "announce"
      /\ UNCHANGED <<requests, events, status, plan, handle, waitQueue, readyQueue, waitDone,
                     active, running, position, skewed>>
  BY DEF TakeBatch, loopVars
<1>2. /\ TypeInv /\ PlaceInv /\ ReadyInv /\ BatchesInv /\ StartedInv /\ OrderInv
      /\ EstimateInv /\ LiveHandles
  BY DEF IInv
<1>3. slot' \in [batch : Batch, isNew : BOOLEAN] /\ slot'.isNew = FALSE /\ slot'.batch = slot.batch
  BY <1>1, <1>2 DEF TypeInv
<1>4. TypeInv'
  BY <1>1, <1>2, <1>3 DEF TypeInv
<1>5. PlaceInv' /\ ReadyInv' /\ LiveHandles'
  BY <1>1, <1>2 DEF PlaceInv, ReadyInv, LiveHandles, OnceQueued, Once, QueuedIn, In
<1>6. BatchesInv'
  BY <1>1, <1>2, <1>3 DEF BatchesInv, BatchInv, EventInv
<1>7. ASSUME NEW q
      PROVE  /\ \A j : TakesChunk(j, q)' = TakesChunk(j, q) /\ Ends(j, q)' = Ends(j, q)
             /\ EndToCome(q)' => EndToCome(q)
             /\ ChunkToCome(q)' => ChunkToCome(q)
             /\ DecodeToCome(q)' => DecodeToCome(q)
  <2>1. \A j : TakesChunk(j, q)' = TakesChunk(j, q) /\ Ends(j, q)' = Ends(j, q)
    BY <1>1 DEF TakesChunk, Chunked, Ends
  <2>2. EndToCome(q)' => EndToCome(q)
    BY <1>1, <2>1 DEF EndToCome
  <2>3. ChunkToCome(q)' => ChunkToCome(q)
    BY <1>1, <1>3 DEF ChunkToCome, Chunked
  <2>4. DecodeToCome(q)' => DecodeToCome(q)
    BY <1>1, <1>3, <2>2 DEF DecodeToCome
  <2>5. QED BY <2>1, <2>2, <2>3, <2>4
<1>8. ASSUME NEW q \in Queries \ skewed
      PROVE  /\ \A i, j \in DOMAIN events' : TakesChunk(i, q)' /\ Ends(j, q)' => i < j
             /\ EndToCome(q)' \/ status'[q] = "Done" => ~ChunkToCome(q)'
             /\ status'[q] = "Done" => \A i \in DOMAIN events' : ~TakesChunk(i, q)'
             /\ q \in taken'.decodes => ~ (slot'.isNew /\ Chunked(slot'.batch, q))
             /\ DecodeToCome(q)' => status'[q] \in {"Decode", "Done"}
  BY <1>1, <1>2, <1>3, <1>7 DEF OrderInv
<1>9. OrderInv'
  BY <1>1, <1>8 DEF OrderInv, Chunked
<1>10. StartedInv'
  <2>1. \A q \in Queries :
          ChunkToCome(q)' \/ (\E i \in DOMAIN events' : TakesChunk(i, q)') => status'[q] \notin Early
    BY <1>1, <1>2, <1>7 DEF StartedInv
  <2>2. QED BY <2>1 DEF StartedInv
<1>11. EstimateInv'
  <2>1. loop' = loop /\ engine = "poll"
    BY DEF TakeBatch, loopVars
  <2>2. ASSUME NEW q
        PROVE  /\ Ended(q)' <=> Ended(q)
               /\ MayPlan(q)' <=> MayPlan(q)
    BY <1>1, <1>7 DEF Ended, MayPlan, IsSchedule
  <2>3. OneScheduleInv'
    BY <1>1, <1>2, <2>1 DEF EstimateInv, OneScheduleInv, IsSchedule
  <2>4. \A q \in Queries \ skewed :
           Ended(q) \/ q \in running.decodes => ~ Chunked(slot.batch, q)
    BY <1>1, <1>2 DEF OrderInv, Ended, EndToCome, ChunkToCome
  <2>5. ChunkInv'
    BY <1>1, <1>2, <2>2, <2>4 DEF EstimateInv, ChunkInv, Chunked
  <2>6. ASSUME NEW q
        PROVE  Left(q) \in Nat /\ Left(q)' \in Nat /\ Left(q)' = Left(q)
    BY <1>1, <1>3, <2>1, <2>2 DEF Left, Count
  <2>7. CountInv'
    BY <1>1, <1>2, <2>2, <2>6 DEF EstimateInv, CountInv
  <2>8. QED BY <2>3, <2>5, <2>7 DEF EstimateInv
<1>12. QED BY <1>2, <1>4, <1>5, <1>6, <1>9, <1>10, <1>11 DEF IInv

(* Where a batch takes the engine's position: a decode one on, a chunk to  *)
(* the end of the prompt at most, unless the position has run ahead of the *)
(* chunks.                                                                 *)
LEMMA MovedBy ==
  ASSUME TypeInv, BatchesInv, NEW q \in Queries
  PROVE  /\ Moved(q) \in Int
         /\ q \in running.decodes => ~ Chunked(running, q) /\ Moved(q) = position[q] + 1
         /\ q \notin running.decodes /\ ~ Chunked(running, q) => Moved(q) = position[q]
         /\ \A t \in running.prefills : t.id = q /\ t.start = position[q] =>
              q \in DOMAIN requests /\ Moved(q) <= requests[q].prompt
<1> DEFINE lengths == {t.length : t \in ChunkOf(running, q)} \union
                      (IF q \in running.decodes THEN {1} ELSE {})
<1>1. position[q] \in Int /\ running \in Batch /\ BatchInv(requests, running)
      /\ requests \in Seq(Requests)
  BY DEF TypeInv, BatchesInv
<1>2. \A t \in running.prefills : t.length \in Int /\ t.start \in Int
  BY <1>1 DEF Batch, Task
<1>3. lengths \subseteq Int
  BY <1>2 DEF ChunkOf
<1>4. Moved(q) = IF lengths = {} THEN position[q] ELSE position[q] + (CHOOSE n \in lengths : TRUE)
  BY DEF Moved
<1>5. Moved(q) \in Int
  <2> HIDE DEF lengths
  <2>1. lengths # {} => (CHOOSE n \in lengths : TRUE) \in Int
    BY <1>3
  <2>2. QED BY <1>1, <1>4, <2>1
<1>6. ASSUME NEW t \in running.prefills, t.id = q, t.start = position[q]
      PROVE  q \in DOMAIN requests /\ Moved(q) <= requests[q].prompt
  <2>1. /\ q \notin running.decodes /\ q \in DOMAIN requests
        /\ t.start + t.length <= requests[q].prompt
        /\ \A u \in running.prefills : u.id = q => u = t
    BY <1>1, <1>6 DEF BatchInv
  <2>2. ChunkOf(running, q) = {t}
    BY <1>6, <2>1 DEF ChunkOf
  <2>3. lengths = {t.length}
    BY <2>1, <2>2
  <2>4. Moved(q) = position[q] + t.length
    BY <1>4, <2>3
  <2>5. QED BY <1>6, <2>1, <2>4
<1>7. ASSUME q \in running.decodes
      PROVE  ~ Chunked(running, q) /\ Moved(q) = position[q] + 1
  <2>1. ~ Chunked(running, q)
    BY <1>1, <1>7 DEF BatchInv, Chunked
  <2>2. ChunkOf(running, q) = {}
    BY <2>1 DEF ChunkOf, Chunked
  <2>3. lengths = {1}
    BY <1>7, <2>2
  <2>4. QED BY <1>4, <2>1, <2>3
<1>8. ASSUME q \notin running.decodes, ~ Chunked(running, q)
      PROVE  Moved(q) = position[q]
  <2>1. ChunkOf(running, q) = {}
    BY <1>8 DEF ChunkOf, Chunked
  <2>2. lengths = {}
    BY <1>8, <2>1
  <2>3. QED BY <1>4, <2>2
<1>9. QED BY <1>5, <1>6, <1>7, <1>8

LEMMA UpdatesSent == IInv /\ SendUpdates => IInv'
<1> SUFFICES ASSUME IInv, SendUpdates PROVE IInv'
  OBVIOUS
<1>1. PICK stopped \in SUBSET running.decodes :
         /\ {q \in running.decodes : MustStop(q, Moved(q))} \subseteq stopped
         /\ events' = Append(events, [kind |-> "Update", updates |->
              {[id |-> q, position |-> Moved(q), done |-> q \in stopped] : q \in QueryIds(running)}])
  BY DEF SendUpdates
<1> DEFINE us == {[id |-> q, position |-> Moved(q), done |-> q \in stopped] : q \in QueryIds(running)}
           e == [kind |-> "Update", updates |-> us]
<1>2. /\ engine = "run" /\ engine' = "poll" /\ events' = Append(events, e)
      /\ position' = [q \in Queries |-> Moved(q)]
      /\ skewed' = skewed \union {t.id : t \in {u \in running.prefills : u.start # position[u.id]}}
      /\ running' = taken
      /\ UNCHANGED <<requests, status, plan, handle, waitQueue, readyQueue, waitDone, active,
                     slot, taken>>
  BY <1>1 DEF SendUpdates, loopVars
<1>3. /\ TypeInv /\ PlaceInv /\ ReadyInv /\ BatchesInv /\ StartedInv /\ OrderInv
      /\ EstimateInv /\ LiveHandles
  BY DEF IInv
<1>4. \A q \in QueryIds(running) : q \in Queries /\ q \in DOMAIN requests
  <2>1. running \in Batch /\ BatchInv(requests, running)
    BY <1>3 DEF TypeInv, BatchesInv
  <2>2. QED BY <2>1 DEF QueryIds, Batch, Task, BatchInv
<1>5. us \in SUBSET Update /\ \A u \in us : u.id \in DOMAIN requests
  <2>1. ASSUME NEW q \in QueryIds(running)
        PROVE  [id |-> q, position |-> Moved(q), done |-> q \in stopped] \in Update
    <3>1. q \in Queries /\ Moved(q) \in Int
      BY <1>3, <1>4, MovedBy
    <3>2. (q \in stopped) \in BOOLEAN
      OBVIOUS
    <3>3. QED BY <3>1, <3>2 DEF Update
  <2>2. QED BY <1>4, <2>1
<1>6. ASSUME NEW q \in Queries \ skewed', NEW u \in us, u.id = q,
             u.done \/ u.position = requests[q].estimated - 1
      PROVE  q \in running.decodes
  <2>1. PICK k \in QueryIds(running) :
           u = [id |-> k, position |-> Moved(k), done |-> k \in stopped]
    OBVIOUS
  <2>2. k = q
    BY <1>6, <2>1
  <2>3. u.position = Moved(q) /\ u.done = (q \in stopped) /\ q \in QueryIds(running)
    BY <2>1, <2>2
  <2>4. CASE q \in stopped
    BY <2>4
  <2>5. CASE q \notin stopped /\ q \notin running.decodes
    <3>1. PICK t \in running.prefills : t.id = q
      BY <2>3, <2>5 DEF QueryIds
    <3>2. t.start = position[q]
      BY <1>2, <3>1
    <3>3. q \in DOMAIN requests /\ Moved(q) <= requests[q].prompt /\ Moved(q) \in Int
      BY <1>3, <3>1, <3>2, MovedBy
    <3>4. Moved(q) # requests[q].estimated - 1
      <4>1. requests[q] \in Requests
        BY <1>3, <3>3 DEF TypeInv
      <4>2. /\ requests[q].prompt \in Int /\ requests[q].estimated \in Int
            /\ requests[q].estimated >= requests[q].prompt + 2
        BY <4>1, SchedulerAssumption
      <4>3. QED BY <3>3, <4>2
    <3>5. QED BY <1>6, <2>3, <2>5, <3>4
  <2>6. QED BY <2>4, <2>5
<1> HIDE DEF us
<1>7. e \in Events /\ e.kind = "Update" /\ e.updates = us
  BY <1>5 DEF Events
<1> HIDE DEF e
<1>8. ~ Queued(e) /\ e.kind # "Prepared" /\ EventInv(requests, e)
  BY <1>5, <1>7 DEF Queued, EventInv
<1>9. TypeInv'
  <2>1. events' \in Seq(Events)
    BY <1>2, <1>3, <1>7, Appended
  <2>2. \A q \in Queries : Moved(q) \in Int
    BY <1>3, MovedBy
  <2>3. position' \in [Queries -> Int]
    BY <1>2, <2>2
  <2>4. QED BY <1>2, <1>3, <2>1, <2>3 DEF TypeInv
<1>10. PlaceInv'
  <2>1. OnceQueued(events') /\ \A r : QueuedIn(events', r) => QueuedIn(events, r)
    BY <1>2, <1>3, <1>7, <1>8, AppendQueued
  <2>2. ASSUME NEW r \in Queries
        PROVE  Place(r, QueuedIn(events, r)', In(waitQueue, r)', In(readyQueue, r)',
                     waitDone' = r, requests', status')
    <3>1. Place(r, QueuedIn(events, r), In(waitQueue, r), In(readyQueue, r), waitDone = r, requests, status)
      BY <1>3, Places
    <3>2. QED BY <1>2, <2>1, <3>1 DEF Place
  <2>3. /\ OnceQueued(events)' /\ Once(waitQueue)' /\ Once(readyQueue)'
        /\ \A r \in Queries : Place(r, QueuedIn(events, r)', In(waitQueue, r)', In(readyQueue, r)',
                                    waitDone' = r, requests', status')
    BY <1>2, <1>3, <2>1, <2>2 DEF PlaceInv
  <2>4. QED BY <2>3 DEF PlaceInv, Place
<1>11. ReadyInv'
  BY <1>2, <1>3, <1>7, <1>8, AppendReady
<1>12. BatchesInv'
  <2>1. \A j \in DOMAIN events' : EventInv(requests', events'[j])
    BY <1>2, <1>3, <1>7, <1>8, AppendBatches
  <2>2. requests' = requests /\ slot' = slot /\ taken' = taken /\ running' = taken
    BY <1>2
  <2>3. QED BY <1>3, <2>1, <2>2 DEF BatchesInv, BatchInv, EventInv
<1>13. \A q : \A j \in DOMAIN events' :
         /\ TakesChunk(j, q)' => j \in DOMAIN events /\ TakesChunk(j, q)
         /\ Ends(j, q)' =>
              \/ j \in DOMAIN events /\ Ends(j, q)
              \/ /\ j = Len(events) + 1
                 /\ \E u \in us : u.id = q /\ (u.done \/ u.position = requests[q].estimated - 1)
  BY <1>2, <1>3, <1>7, AppendOrder
<1>14. \A j \in DOMAIN events : j < Len(events) + 1
  BY <1>2, <1>3, <1>7, Appended
<1>15. \A q : ChunkToCome(q)' => ChunkToCome(q) /\ slot.isNew /\ Chunked(slot.batch, q)
  BY <1>2 DEF ChunkToCome, Chunked
<1>16. ASSUME NEW q \in Queries \ skewed'
       PROVE  /\ EndToCome(q)' => EndToCome(q) \/ q \in taken.decodes
              /\ DecodeToCome(q)' => DecodeToCome(q)
  <2>1. (\E j \in DOMAIN events' : Ends(j, q)') => EndToCome(q)
    BY <1>6, <1>13 DEF EndToCome
  <2>2. EndToCome(q)' => EndToCome(q) \/ q \in taken.decodes
    BY <1>2, <2>1 DEF EndToCome
  <2>3. DecodeToCome(q)' => DecodeToCome(q)
    BY <1>2, <2>2 DEF DecodeToCome
  <2>4. QED BY <2>2, <2>3
<1>17. ASSUME NEW q \in Queries \ skewed'
       PROVE  /\ \A i, j \in DOMAIN events' : TakesChunk(i, q)' /\ Ends(j, q)' => i < j
              /\ EndToCome(q)' \/ status'[q] = "Done" => ~ChunkToCome(q)'
              /\ status'[q] = "Done" => \A i \in DOMAIN events' : ~TakesChunk(i, q)'
              /\ q \in taken'.decodes => ~ (slot'.isNew /\ Chunked(slot'.batch, q))
              /\ DecodeToCome(q)' => status'[q] \in {"Decode", "Done"}
  <2>1. q \in Queries \ skewed
    BY <1>2
  <2>2. \A i, j \in DOMAIN events' : TakesChunk(i, q)' /\ Ends(j, q)' => i < j
    BY <1>3, <1>13, <1>14, <2>1 DEF OrderInv
  <2>3. EndToCome(q)' \/ status'[q] = "Done" => ~ChunkToCome(q)'
    BY <1>2, <1>3, <1>15, <1>16, <2>1 DEF OrderInv
  <2>4. status'[q] = "Done" => \A i \in DOMAIN events' : ~TakesChunk(i, q)'
    BY <1>2, <1>3, <1>13, <2>1 DEF OrderInv
  <2>5. q \in taken'.decodes => ~ (slot'.isNew /\ Chunked(slot'.batch, q))
    BY <1>2, <1>3, <2>1 DEF OrderInv
  <2>6. DecodeToCome(q)' => status'[q] \in {"Decode", "Done"}
    BY <1>2, <1>3, <1>16, <2>1 DEF OrderInv
  <2>7. QED BY <2>2, <2>3, <2>4, <2>5, <2>6
<1>18. OrderInv'
  BY <1>17 DEF OrderInv, Chunked
<1>19. StartedInv'
  <2>1. \A q \in Queries :
          ChunkToCome(q)' \/ (\E i \in DOMAIN events' : TakesChunk(i, q)') => status'[q] \notin Early
    BY <1>2, <1>3, <1>13, <1>15 DEF StartedInv
  <2>2. QED BY <2>1 DEF StartedInv
<1>20. LiveHandles'
  BY <1>2, <1>3 DEF LiveHandles
<1>21. EstimateInv'
  <2>1. /\ DOMAIN events' = DOMAIN events \cup {Len(events) + 1} /\ events'[Len(events) + 1] = e
        /\ \A j \in DOMAIN events : events'[j] = events[j]
    BY <1>2, <1>3, <1>7, Appended
  <2>2. loop' = loop
    BY DEF SendUpdates, loopVars
  <2>3. OneScheduleInv'
    BY <1>3, <1>7, <2>1, <2>2 DEF EstimateInv, OneScheduleInv, IsSchedule
  <2>4. \A q : \A j \in DOMAIN events : Ends(j, q) => Ends(j, q)'
    BY <1>2, <2>1 DEF Ends
  <2>5. ASSUME NEW q \in Queries \ skewed'
        PROVE  /\ Ended(q) => Ended(q)'
               /\ Ended(q)' => Ended(q) \/ q \in running.decodes
               /\ MayPlan(q)' => MayPlan(q)
    <3>1. Ended(q) => Ended(q)'
      BY <1>2, <2>1, <2>4 DEF Ended
    <3>2. Ended(q)' => Ended(q) \/ q \in running.decodes
      BY <1>2, <1>6, <1>13 DEF Ended
    <3>3. ASSUME MayPlan(q)' PROVE MayPlan(q)
      <4>1. PICK i \in DOMAIN events' :
               IsSchedule(i)' /\ \A j \in DOMAIN events' : Ends(j, q)' => i < j
        BY <3>3 DEF MayPlan
      <4>2. i \in DOMAIN events /\ IsSchedule(i)
        BY <1>7, <2>1, <4>1 DEF IsSchedule
      <4>3. \A j \in DOMAIN events : Ends(j, q) => i < j
        BY <2>1, <2>4, <4>1
      <4>4. QED BY <1>2, <3>3, <4>2, <4>3 DEF MayPlan
    <3>4. QED BY <3>1, <3>2, <3>3
  <2>6. ASSUME NEW q \in Queries \ skewed', q \in running.decodes, MustStop(q, Moved(q))
        PROVE  Ended(q)'
    <3>1. q \in stopped /\ q \in QueryIds(running)
      BY <1>1, <2>6 DEF QueryIds
    <3>2. \E u \in us : u.id = q /\ u.done
      <4> DEFINE u == [id |-> q, position |-> Moved(q), done |-> q \in stopped]
      <4>1. u \in us
        BY <3>1 DEF us
      <4>2. u.id = q /\ u.done
        BY <3>1
      <4> HIDE DEF u
      <4>3. QED BY <4>1, <4>2
    <3>3. PICK n : n = Len(events) + 1
      OBVIOUS
    <3>4. n \in DOMAIN events' /\ events'[n].kind = "Update" /\ events'[n].updates = us
      BY <1>7, <2>1, <3>3
    <3>5. Ends(n, q)'
      BY <3>2, <3>4 DEF Ends
    <3>6. QED BY <3>4, <3>5 DEF Ended
  <2>7. ChunkInv'
    BY <1>2, <1>3, <2>5 DEF EstimateInv, ChunkInv, Chunked
  <2>8. \A q \in Queries : position'[q] = Moved(q)
    BY <1>2
  <2>9. ASSUME NEW q \in Queries \ skewed', q \notin DOMAIN requests
        PROVE  position'[q] = 0
    <3>1. q \notin running.decodes /\ ~ Chunked(running, q)
      BY <1>4, <2>9 DEF QueryIds, Chunked
    <3>2. Moved(q) = position[q] /\ q \notin skewed
      BY <1>2, <1>3, <3>1, MovedBy
    <3>3. QED BY <1>3, <2>8, <2>9, <3>2 DEF EstimateInv, CountInv
  <2>10. ASSUME NEW q \in Queries \ skewed', q \in DOMAIN requests,
                requests[q].estimated >= requests[q].prompt + 4
         PROVE  /\ ~ Ended(q)' => Moved(q) <= requests[q].estimated - 4
                /\ Ended(q)' => Moved(q) + Left(q)' <= requests[q].estimated
    <3>1. /\ position[q] \in Int /\ Moved(q) \in Int
          /\ requests[q].estimated \in Int /\ requests[q].prompt \in Int
      <4>1. position[q] \in Int /\ Moved(q) \in Int
        BY <1>3, <2>10, MovedBy DEF TypeInv
      <4>2. requests[q] \in Requests
        BY <1>3, <2>10 DEF TypeInv
      <4>3. QED BY <4>1, <4>2, SchedulerAssumption
    <3>2. /\ q \notin skewed
          /\ ~ Ended(q) => position[q] <= requests[q].estimated - 4
          /\ Ended(q) => position[q] + Left(q) <= requests[q].estimated
      BY <1>2, <1>3, <2>10 DEF EstimateInv, CountInv
    <3>3. /\ Left(q) \in Nat /\ Left(q)' \in Nat /\ Left(q)' <= 3
          /\ Left(q)' + Count(q \in running.decodes) <= Left(q)
      BY <1>2, <2>5 DEF Left, Count
    <3>4. CASE Ended(q)
      <4>1. ~ Chunked(running, q)
        BY <1>3, <3>2, <3>4 DEF EstimateInv, ChunkInv
      <4>2. Moved(q) = position[q] + Count(q \in running.decodes)
        BY <1>3, <3>1, <4>1, MovedBy DEF Count
      <4>3. Count(q \in running.decodes) \in Nat
        BY DEF Count
      <4>4. Ended(q)'
        BY <2>5, <3>4
      <4>5. QED BY <3>1, <3>2, <3>3, <3>4, <4>2, <4>3, <4>4
    <3>5. CASE ~ Ended(q) /\ q \in running.decodes
      <4>1. Moved(q) = position[q] + 1
        BY <1>3, <3>5, MovedBy
      <4>2. ~ Ended(q)' => ~ (Moved(q) + 3 >= requests[q].estimated)
        BY <2>6, <3>5 DEF MustStop
      <4>3. QED BY <3>1, <3>2, <3>3, <3>5, <4>1, <4>2
    <3>6. CASE ~ Ended(q) /\ q \notin running.decodes
      <4>1. ~ Ended(q)'
        BY <2>5, <3>6
      <4>2. Moved(q) <= requests[q].estimated - 4
        <5>1. CASE Chunked(running, q)
          <6>1. PICK t \in running.prefills : t.id = q
            BY <5>1 DEF Chunked
          <6>2. t.start = position[q]
            BY <1>2, <6>1
          <6>3. Moved(q) <= requests[q].prompt
            BY <1>3, <6>1, <6>2, MovedBy
          <6>4. QED BY <2>10, <3>1, <6>3
        <5>2. CASE ~ Chunked(running, q)
          <6>1. Moved(q) = position[q]
            BY <1>3, <3>6, <5>2, MovedBy
          <6>2. QED BY <3>1, <3>2, <3>6, <6>1
        <5>3. QED BY <5>1, <5>2
      <4>3. QED BY <4>1, <4>2
    <3>7. QED BY <3>4, <3>5, <3>6
  <2>11. CountInv'
    BY <1>2, <2>8, <2>9, <2>10 DEF CountInv
  <2>12. QED BY <2>3, <2>7, <2>11 DEF EstimateInv
<1>22. QED BY <1>9, <1>10, <1>11, <1>12, <1>18, <1>19, <1>20, <1>21 DEF IInv

-----------------------------------------------------------------------------
(* The theorem *)

LEMMA InvInit == Init => IInv
<1> SUFFICES ASSUME Init PROVE IInv
  OBVIOUS
<1>1. /\ requests = << >> /\ events = << >> /\ waitQueue = << >> /\ readyQueue = << >>
      /\ status = [q \in Queries |-> "None"] /\ plan = [q \in Queries |-> 0]
      /\ handle = [q \in Queries |-> << >>] /\ position = [q \in Queries |-> 0]
      /\ waitDone = 0 /\ active = {} /\ engine = "run" /\ running = NoBatch /\ taken = NoBatch
      /\ slot.batch = NoBatch /\ slot.isNew = FALSE
      /\ slot = [batch |-> NoBatch, isNew |-> FALSE]
  BY DEF Init
<1>2. NoBatch \in Batch /\ NoBatch.prefills = {} /\ NoBatch.decodes = {}
  BY DEF NoBatch, Batch
<1>3. /\ << >> \in Seq(Requests) /\ << >> \in Seq(Events) /\ << >> \in Seq(Queries)
      /\ Len(<< >>) <= NumQueries /\ DOMAIN << >> = {}
  BY SchedulerAssumption
<1>4. TypeInv
  BY <1>1, <1>2, <1>3 DEF TypeInv, Early
<1>5. \A q \in Queries : waitDone # q
  BY <1>1 DEF Queries
<1>6. PlaceInv /\ ReadyInv /\ LiveHandles
  BY <1>1, <1>3, <1>5 DEF PlaceInv, ReadyInv, LiveHandles, OnceQueued, Once, QueuedIn, In
<1>7. BatchesInv
  BY <1>1, <1>2, <1>3 DEF BatchesInv, BatchInv
<1>8. \A q \in Queries : ~ ChunkToCome(q) /\ ~ DecodeToCome(q) /\ status[q] = "None"
  BY <1>1, <1>2, <1>3 DEF ChunkToCome, DecodeToCome, EndToCome
<1>9. StartedInv /\ OrderInv
  BY <1>1, <1>2, <1>3, <1>8 DEF StartedInv, OrderInv, DecodeToCome
<1>10. EstimateInv
  <2>1. \A q \in Queries : ~ Ended(q)
    BY <1>1, <1>3 DEF Ended
  <2>2. \A q \in Queries : q \in DOMAIN requests => FALSE
    BY <1>1, <1>3
  <2>3. QED BY <1>1, <1>2, <1>3, <2>1, <2>2
           DEF EstimateInv, OneScheduleInv, ChunkInv, CountInv
<1>11. QED BY <1>4, <1>6, <1>7, <1>9, <1>10 DEF IInv

LEMMA InvNext == IInv /\ [Next]_vars => IInv'
<1> SUFFICES ASSUME IInv, [Next]_vars PROVE IInv'
  OBVIOUS
<1>1. CASE AddQuery
  BY <1>1, QueryAdded
<1>2. CASE EventLoop
  BY <1>2, ScheduleEnqueued, AddQueryHandled, PrepareHandled, PreparedHandled,
     QueryStatusHandled, UpdateHandled, TakenHandled, ScheduleHandled DEF EventLoop
<1>3. CASE Engine
  BY <1>3, UpdatesSent, BatchTaken, BatchAnnounced DEF Engine
<1>4. CASE UNCHANGED vars
  <2>1. /\ UNCHANGED <<requests, events, slot, loop, status, plan, handle, waitQueue, readyQueue>>
        /\ UNCHANGED <<waitDone, active, engine, running, taken, position, skewed>>
    BY <1>4 DEF vars, loopVars, engineVars
  <2>2. TypeInv' /\ PlaceInv' /\ ReadyInv' /\ BatchesInv' /\ LiveHandles'
    BY <2>1 DEF IInv, TypeInv, PlaceInv, ReadyInv, BatchesInv, LiveHandles,
       OnceQueued, Once, QueuedIn, In, BatchInv, EventInv
  <2>3. ASSUME NEW q
        PROVE  /\ \A j : /\ TakesChunk(j, q)' <=> TakesChunk(j, q)
                         /\ Ends(j, q)' <=> Ends(j, q)
                         /\ IsSchedule(j)' <=> IsSchedule(j)
               /\ ChunkToCome(q)' <=> ChunkToCome(q)
    BY <2>1 DEF TakesChunk, Chunked, Ends, IsSchedule, ChunkToCome
  <2>4. ASSUME NEW q
        PROVE  /\ EndToCome(q)' <=> EndToCome(q)
               /\ DecodeToCome(q)' <=> DecodeToCome(q)
               /\ Ended(q)' <=> Ended(q)
               /\ MayPlan(q)' <=> MayPlan(q)
    BY <2>1, <2>3 DEF EndToCome, DecodeToCome, Ended, MayPlan
  <2>5. \A q : Left(q)' = Left(q)
    BY <2>1, <2>4 DEF Left, Count
  <2>6. StartedInv' /\ OrderInv'
    BY <2>1, <2>3, <2>4 DEF IInv, StartedInv, OrderInv, Chunked
  <2>7. EstimateInv'
    BY <2>1, <2>3, <2>4, <2>5 DEF IInv, EstimateInv, OneScheduleInv, ChunkInv, CountInv, Chunked
  <2>8. QED BY <2>2, <2>6, <2>7 DEF IInv
<1>5. QED BY <1>1, <1>2, <1>3, <1>4 DEF Next

LEMMA Invariance == Spec => []IInv
<1>1. QED BY InvInit, InvNext, PTL DEF Spec

(* A query in prefill or decode owns pages, whatever the order in which    *)
(* late updates and announced batches reach the event loop (absorb_update, *)
(* absorb_prefill_task), unless a prefill chunk was handed out twice.      *)
THEOREM LiveHandlesSafe == Spec => []LiveHandles
<1>1. IInv => LiveHandles
  BY DEF IInv
<1>2. QED BY <1>1, Invariance, PTL

(* The batches that still hold a query when it is found to be done decode  *)
(* it at positions its pages were allocated for: the margin of check_stop  *)
(* covers the running, the taken and the published batch, and the one that *)
(* a Schedule event before the update may still publish.                   *)
THEOREM WithinEstimateSafe == Spec => []WithinEstimate
<1>1. IInv => WithinEstimate
  <2> SUFFICES ASSUME IInv, NEW q \in running.decodes \ skewed,
                      requests[q].estimated >= requests[q].prompt + 4
               PROVE  position[q] < requests[q].estimated
    BY DEF WithinEstimate
  <2>1. TypeInv /\ BatchesInv /\ CountInv
    BY DEF IInv, EstimateInv
  <2>2. q \in Queries /\ q \in DOMAIN requests
    BY <2>1 DEF TypeInv, Batch, BatchesInv, BatchInv
  <2>3. position[q] \in Int /\ requests[q].estimated \in Int
    BY <2>1, <2>2, SchedulerAssumption DEF TypeInv
  <2>4. Left(q) \in Nat /\ Left(q) >= 1
    BY DEF Left, Count
  <2>5. /\ ~ Ended(q) => position[q] <= requests[q].estimated - 4
        /\ Ended(q) => position[q] + Left(q) <= requests[q].estimated
    BY <2>1, <2>2 DEF CountInv
  <2>6. QED BY <2>3, <2>4, <2>5
<1>2. QED BY <1>1, Invariance, PTL

-----------------------------------------------------------------------------
(* Queries are prepared one at a time, in the order in which they came:    *)
(* one that has been given pages is earlier than all that have not.        *)
Comes(kind, q) == \E j \in DOMAIN events : events[j].kind = kind /\ events[j].q = q
Adding(q) == Comes("AddQuery", q)
Later(q) == Adding(q) \/ In(waitQueue, q)
Trying(q) == Comes("Prepare", q) \/ waitDone = q
Prepares(q) == Trying(q) \/ Comes("Prepared", q)
Got(q) == blocks[q] # << >>

FcfsInv ==
  /\ \A i, j \in DOMAIN events :
       i < j /\ events[i].kind = "AddQuery" /\ events[j].kind = "AddQuery" =>
         events[i].q < events[j].q
  /\ \A i, j \in DOMAIN waitQueue : i < j => waitQueue[i] < waitQueue[j]
  /\ \A q, r \in Queries :
       /\ In(waitQueue, q) /\ Adding(r) => q < r
       /\ Prepares(q) /\ Later(r) => q < r
       /\ Prepares(q) /\ Prepares(r) => q = r
       /\ Got(q) /\ (Trying(r) \/ Later(r)) => q < r
       /\ Got(q) => q \in DOMAIN requests
  /\ ~ preparing => waitQueue = << >> /\ \A q \in Queries : ~ Prepares(q)

(* A page has one owner, which is the last query it was given to. *)
Had(q, p) == \E i \in DOMAIN blocks[q] : blocks[q][i] = p
Owns(q, p) == \E i \in DOMAIN handle[q] : handle[q][i] = p
OwnerInv ==
  /\ DOMAIN blocks = Queries
  /\ \A q \in Queries : handle[q] = << >> \/ handle[q] = blocks[q]
  /\ \A q, r \in Queries, p \in Pages : Owns(q, p) /\ Owns(r, p) => q = r
  /\ \A q, r \in Queries, p \in Pages : Had(q, p) /\ Owns(r, p) => q <= r

(* From the batches that wrote to the one that is published, a page goes   *)
(* from one query to a later one.                                          *)
Ordered(p, S, T) ==
  \A q \in S \ skewed, r \in T \ skewed : Had(q, p) /\ Had(r, p) => q <= r
WriterInv ==
  /\ DOMAIN writer = Pages
  /\ \A p \in Pages : \A q \in writer[p] : q \in Queries /\ Had(q, p)
Flows(p, W, R, T, S) ==
  /\ Ordered(p, W, W) /\ Ordered(p, W, R) /\ Ordered(p, W, T) /\ Ordered(p, W, S)
  /\ Ordered(p, R, R) /\ Ordered(p, R, T) /\ Ordered(p, R, S)
  /\ Ordered(p, T, T) /\ Ordered(p, T, S) /\ Ordered(p, S, S)
FlowInv ==
  \A p \in Pages :
    Flows(p, writer[p], QueryIds(running), QueryIds(taken), QueryIds(slot.batch))
MemberInv ==
  \A q \in QueryIds(running) \cup QueryIds(taken) \cup QueryIds(slot.batch) :
    q \in Queries /\ status[q] \notin Early

PagesInv == FcfsInv /\ OwnerInv /\ WriterInv /\ FlowInv /\ MemberInv

(* The ranks of a finite set of numbers are all taken. *)
LEMMA RankTaken ==
  ASSUME NEW F \in SUBSET Nat, IsFiniteSet(F), NEW i \in 1 .. Cardinality(F)
  PROVE  \E p \in F : Cardinality({x \in F : x <= p}) = i
<1> DEFINE Below(p) == {x \in F : x <= p}
           n == Cardinality(F)
           rank == [p \in F |-> Cardinality(Below(p))]
<1>1. n \in Nat /\ IsFiniteSet(1 .. n) /\ Cardinality(1 .. n) = n
  <2>1. n \in Nat
    BY FS_CardinalityType
  <2>2. QED BY <2>1, FS_Interval
<1>2. ASSUME NEW p \in F
      PROVE  /\ IsFiniteSet(Below(p)) /\ Cardinality(Below(p)) \in Nat
             /\ Cardinality(Below(p)) <= n /\ Cardinality(Below(p)) # 0
  <2>1. Below(p) \in SUBSET F /\ p \in Below(p)
    OBVIOUS
  <2>2. IsFiniteSet(Below(p)) /\ Cardinality(Below(p)) <= n
    BY <2>1, FS_Subset
  <2>3. QED BY <2>1, <2>2, FS_CardinalityType, FS_EmptySet
<1>3. ASSUME NEW p \in F, NEW r \in F, p < r
      PROVE  Cardinality(Below(p)) # Cardinality(Below(r))
  <2>1. Below(p) \in SUBSET Below(r) /\ r \in Below(r) /\ r \notin Below(p)
    <3>1. p \in Nat /\ r \in Nat /\ \A x \in F : x \in Nat
      OBVIOUS
    <3>2. (\A x \in F : x <= p => x <= r) /\ r <= r /\ ~ (r <= p)
      BY <1>3, <3>1
    <3>3. QED BY <3>2
  <2>2. IsFiniteSet(Below(r))
    BY <1>2
  <2> HIDE DEF Below
  <2>3. Cardinality(Below(r)) = Cardinality(Below(p)) => Below(r) = Below(p)
    BY <2>1, <2>2, FS_Subset
  <2>4. QED BY <2>1, <2>3
<1>4. rank \in [F -> 1 .. n]
  <2>1. \A p \in F : Cardinality(Below(p)) \in 1 .. n
    BY <1>1, <1>2
  <2>2. QED BY <2>1
<1>5. \A p, r \in F : rank[p] = rank[r] => p = r
  <2>1. \A p, r \in F : p < r \/ r < p \/ p = r
    OBVIOUS
  <2>2. QED BY <1>3, <2>1
<1> HIDE DEF rank
<1>6. rank \in Injection(F, 1 .. n)
  BY <1>4, <1>5 DEF Injection, IsInjective
<1>7. rank \in Surjection(F, 1 .. n)
  BY <1>1, <1>6, FS_Injection
<1>8. \E p \in F : rank[p] = i
  BY <1>7 DEF Surjection
<1>9. QED BY <1>8 DEF rank

(* gpu_only_alloc_col takes free pages only. *)
LEMMA AllocFree ==
  ASSUME NEW count \in Nat, NEW i \in DOMAIN Alloc(count)
  PROVE  Alloc(count)[i] \in Pages \ Occupied
<1> DEFINE free == Pages \ Occupied
           Rank(p) == Cardinality({x \in free : x <= p})
<1>1. Alloc(count) = IF Cardinality(free) < count THEN << >>
                     ELSE [k \in 1 .. count |-> CHOOSE p \in free : Rank(p) = k]
  BY DEF Alloc
<1>2. free \in SUBSET Nat /\ IsFiniteSet(free) /\ Cardinality(free) \in Nat
  <2>1. TotalPages \in Nat /\ IsFiniteSet(Pages) /\ Pages \in SUBSET Nat
    BY SchedulerAssumption, FS_Interval DEF Pages
  <2>2. free \in SUBSET Nat /\ IsFiniteSet(free)
    BY <2>1, FS_Difference
  <2>3. QED BY <2>2, FS_CardinalityType
<1> HIDE DEF free
<1>3. ~ (Cardinality(free) < count)
  <2>1. DOMAIN << >> = {}
    OBVIOUS
  <2>2. QED BY <1>1, <2>1
<1>4. i \in 1 .. count /\ Alloc(count)[i] = CHOOSE p \in free : Rank(p) = i
  BY <1>1, <1>3
<1>5. i \in 1 .. Cardinality(free)
  BY <1>2, <1>3, <1>4
<1>6. \E p \in free : Rank(p) = i
  BY <1>2, <1>5, RankTaken
<1>7. Alloc(count)[i] \in free
  BY <1>4, <1>6
<1>8. QED BY <1>7 DEF free

(* Where an event comes from after a turn, and after one is appended *)
LEMMA TurnComes ==
  ASSUME NEW more, Turned(events, events', more), OnceQueued(events), 1 \in DOMAIN events,
         \A k \in DOMAIN more : more[k].kind # "AddQuery"
  PROVE  /\ \A kind \in {"AddQuery", "Prepare", "Prepared"} : \A q :
              Comes(kind, q)' =>
                \/ Comes(kind, q) /\ ~ (events[1].q = q /\ Queued(events[1]))
                \/ \E k \in DOMAIN more : more[k].kind = kind /\ more[k].q = q
         /\ \A j \in DOMAIN events' : events'[j].kind = "AddQuery" =>
              j \in Nat /\ j + 1 \in DOMAIN events /\ events'[j] = events[j + 1]
<1>1. ASSUME NEW kind \in {"AddQuery", "Prepare", "Prepared"}, NEW q, Comes(kind, q)'
      PROVE  \/ Comes(kind, q) /\ ~ (events[1].q = q /\ Queued(events[1]))
             \/ \E k \in DOMAIN more : more[k].kind = kind /\ more[k].q = q
  <2>1. PICK j \in DOMAIN events' : events'[j].kind = kind /\ events'[j].q = q
    BY <1>1 DEF Comes
  <2>2. CASE j + 1 \in DOMAIN events /\ events'[j] = events[j + 1]
    <3>1. j + 1 # 1 /\ Queued(events[j + 1])
      BY <2>1, <2>2 DEF Turned, Queued
    <3>2. ~ (events[1].q = q /\ Queued(events[1]))
      BY <2>1, <2>2, <3>1 DEF OnceQueued
    <3>3. Comes(kind, q)
      BY <2>1, <2>2 DEF Comes
    <3>4. QED BY <3>2, <3>3
  <2>3. CASE \E k \in DOMAIN more : events'[j] = more[k]
    BY <2>1, <2>3
  <2>4. QED BY <2>2, <2>3 DEF Turned
<1>2. ASSUME NEW j \in DOMAIN events', events'[j].kind = "AddQuery"
      PROVE  j \in Nat /\ j + 1 \in DOMAIN events /\ events'[j] = events[j + 1]
  BY <1>2 DEF Turned
<1>3. QED BY <1>1, <1>2

(* The AddQuery events that are left are still in order. *)
AddsInOrder ==
  \A i, j \in DOMAIN events :
    i < j /\ events[i].kind = "AddQuery" /\ events[j].kind = "AddQuery" =>
      events[i].q < events[j].q

LEMMA TurnAdds ==
  ASSUME FcfsInv,
         \A j \in DOMAIN events' : events'[j].kind = "AddQuery" =>
              j \in Nat /\ j + 1 \in DOMAIN events /\ events'[j] = events[j + 1]
  PROVE  AddsInOrder'
<1> SUFFICES ASSUME NEW i \in DOMAIN events', NEW j \in DOMAIN events', i < j,
                    events'[i].kind = "AddQuery", events'[j].kind = "AddQuery"
             PROVE  events'[i].q < events'[j].q
  BY DEF AddsInOrder
<1>1. i + 1 < j + 1
  OBVIOUS
<1>2. QED BY <1>1 DEF FcfsInv

(* A step that brings no query nearer to its pages *)
LEMMA FcfsKept ==
  ASSUME FcfsInv, AddsInOrder',
         \A q \in Queries :
           /\ Comes("AddQuery", q)' => Comes("AddQuery", q)
           /\ Trying(q)' => Trying(q)
           /\ Prepares(q)' => Prepares(q),
         UNCHANGED <<waitQueue, blocks, preparing, requests>>
  PROVE  FcfsInv'
<1>1. ASSUME NEW q \in Queries
      PROVE  /\ Adding(q)' => Adding(q)
             /\ Later(q)' => Later(q)
             /\ In(waitQueue, q)' <=> In(waitQueue, q)
             /\ Got(q)' <=> Got(q)
  BY DEF Adding, Later, In, Got
<1>2. QED BY <1>1 DEF FcfsInv, AddsInOrder

(* Turns whose events concern no query that is to be prepared: updates,    *)
(* announced batches, schedules and queries that are done                  *)
LEMMA FcfsTurn ==
  ASSUME IInv, FcfsInv, NEW kind, NEW more \in Seq(Events), Tackle(kind, more),
         \A k \in DOMAIN more : ~ Queued(more[k]),
         UNCHANGED <<waitQueue, waitDone, blocks, preparing, requests>>
  PROVE  FcfsInv'
<1>1. /\ TypeInv /\ OnceQueued(events)
  BY DEF IInv, PlaceInv
<1>2. Turned(events, events', more) /\ 1 \in DOMAIN events
  BY <1>1, TackleTurn
<1>3. \A k \in DOMAIN more : more[k].kind \notin {"AddQuery", "Prepare", "Prepared"}
  BY DEF Queued
<1>4. /\ \A kd \in {"AddQuery", "Prepare", "Prepared"} : \A q : Comes(kd, q)' => Comes(kd, q)
      /\ \A j \in DOMAIN events' : events'[j].kind = "AddQuery" =>
            j \in Nat /\ j + 1 \in DOMAIN events /\ events'[j] = events[j + 1]
  BY <1>1, <1>2, <1>3, TurnComes
<1>5. AddsInOrder'
  BY <1>4, TurnAdds
<1>6. ASSUME NEW q \in Queries
      PROVE  /\ Comes("AddQuery", q)' => Comes("AddQuery", q)
             /\ Trying(q)' => Trying(q)
             /\ Prepares(q)' => Prepares(q)
  BY <1>4 DEF Trying, Prepares
<1>7. QED BY <1>5, <1>6, FcfsKept

(* An event that is appended, and concerns no such query either *)
LEMMA FcfsAppend ==
  ASSUME IInv, FcfsInv, NEW e \in Events, ~ Queued(e), events' = Append(events, e),
         UNCHANGED <<waitQueue, waitDone, blocks, preparing, requests>>
  PROVE  FcfsInv'
<1>1. /\ DOMAIN events' = DOMAIN events \cup {Len(events) + 1} /\ events'[Len(events) + 1] = e
      /\ \A j \in DOMAIN events : events'[j] = events[j]
  BY Appended DEF IInv
<1>2. e.kind \notin {"AddQuery", "Prepare", "Prepared"}
  BY DEF Queued
<1>3. AddsInOrder'
  BY <1>1, <1>2 DEF FcfsInv, AddsInOrder
<1>4. ASSUME NEW q \in Queries
      PROVE  /\ Comes("AddQuery", q)' => Comes("AddQuery", q)
             /\ Comes("Prepare", q)' => Comes("Prepare", q)
             /\ Comes("Prepared", q)' => Comes("Prepared", q)
  BY <1>1, <1>2 DEF Comes
<1>5. ASSUME NEW q \in Queries
      PROVE  /\ Trying(q)' => Trying(q)
             /\ Prepares(q)' => Prepares(q)
  BY <1>4 DEF Trying, Prepares
<1>6. QED BY <1>3, <1>4, <1>5, FcfsKept

(* The web server's next query is behind all others. *)
LEMMA AddQueryFcfs == IInv /\ FcfsInv /\ AddQuery => FcfsInv'
<1> SUFFICES ASSUME IInv, FcfsInv, AddQuery PROVE FcfsInv'
  OBVIOUS
<1>1. PICK r \in Requests : requests' = Append(requests, r)
  BY DEF AddQuery
<1> DEFINE n == Len(requests')
           e == QueryEvent("AddQuery", n)
<1>2. /\ Len(requests) < NumQueries /\ events' = Append(events, e)
      /\ UNCHANGED <<waitQueue, waitDone, blocks, preparing>>
  BY DEF AddQuery, loopVars
<1>3. TypeInv /\ PlaceInv
  BY DEF IInv
<1>4. /\ n \in Queries /\ DOMAIN requests \subseteq DOMAIN requests'
      /\ \A q \in Queries : q \in DOMAIN requests => q < n
  <2>1. requests \in Seq(Requests) /\ Len(requests) \in Nat /\ DOMAIN requests = 1 .. Len(requests)
    BY <1>3 DEF TypeInv
  <2>2. n = Len(requests) + 1 /\ DOMAIN requests' = 1 .. (Len(requests) + 1)
    BY <1>1, <2>1, AppendProperties
  <2>3. QED BY <1>2, <2>1, <2>2, SchedulerAssumption DEF Queries
<1> HIDE DEF n
<1>5. e \in Events /\ e.kind = "AddQuery" /\ e.q = n
  BY <1>4, MakeEvents
<1> HIDE DEF e
<1>6. /\ DOMAIN events' = DOMAIN events \cup {Len(events) + 1} /\ events'[Len(events) + 1] = e
      /\ \A j \in DOMAIN events : events'[j] = events[j] /\ j < Len(events) + 1
      /\ Len(events) + 1 \notin DOMAIN events /\ Len(events) \in Nat /\ DOMAIN events \subseteq Nat
  <2>1. events \in Seq(Events) /\ Len(events) \in Nat /\ DOMAIN events \subseteq Nat
    BY <1>3 DEF TypeInv
  <2>2. QED BY <1>2, <1>3, <1>5, <2>1, Appended
<1>7. ASSUME NEW q \in Queries
      PROVE  /\ Adding(q)' => Adding(q) \/ q = n
             /\ Comes("Prepare", q)' => Comes("Prepare", q)
             /\ Comes("Prepared", q)' => Comes("Prepared", q)
             /\ In(waitQueue, q)' <=> In(waitQueue, q)
             /\ Got(q)' <=> Got(q)
  BY <1>2, <1>5, <1>6 DEF Adding, Comes, In, Got
<1>8. ASSUME NEW q \in Queries
      PROVE  /\ Trying(q)' => Trying(q)
             /\ Prepares(q)' => Prepares(q)
             /\ Later(q)' => Later(q) \/ q = n
  BY <1>2, <1>7 DEF Trying, Prepares, Later
<1>9. ASSUME NEW q \in Queries,
             Adding(q) \/ In(waitQueue, q) \/ Prepares(q) \/ Got(q)
      PROVE  q < n
  <2>1. Adding(q) \/ Prepares(q) => QueuedIn(events, q) \/ waitDone = q
    BY DEF Adding, Prepares, Trying, Comes, QueuedIn, Queued
  <2>2. q \in DOMAIN requests
    BY <1>3, <1>9, <2>1 DEF PlaceInv, FcfsInv
  <2>3. QED BY <1>4, <2>2
<1>10. AddsInOrder'
  <2>1. ASSUME NEW i \in DOMAIN events', NEW j \in DOMAIN events', i < j,
               events'[i].kind = "AddQuery", events'[j].kind = "AddQuery"
        PROVE  events'[i].q < events'[j].q
    <3>1. i \in DOMAIN events
      BY <1>6, <2>1
    <3>2. CASE j \in DOMAIN events
      BY <1>6, <2>1, <3>1, <3>2 DEF FcfsInv
    <3>3. CASE j = Len(events) + 1
      <4>1. events[i].q \in Queries
        BY <1>3, <1>6, <2>1, <3>1, EventTyping DEF TypeInv
      <4>2. Adding(events[i].q)
        BY <1>6, <2>1, <3>1 DEF Adding, Comes
      <4>3. QED BY <1>5, <1>6, <1>9, <3>1, <3>3, <4>1, <4>2
    <3>4. QED BY <1>6, <3>2, <3>3
  <2>2. QED BY <2>1 DEF AddsInOrder
<1>11. ASSUME NEW q \in Queries, NEW s \in Queries
       PROVE  /\ In(waitQueue, q)' /\ Adding(s)' => q < s
              /\ Prepares(q)' /\ Later(s)' => q < s
              /\ Prepares(q)' /\ Prepares(s)' => q = s
              /\ Got(q)' /\ (Trying(s)' \/ Later(s)') => q < s
              /\ Got(q)' => q \in DOMAIN requests'
  BY <1>4, <1>7, <1>8, <1>9 DEF FcfsInv
<1>12. ~ preparing' => waitQueue' = << >> /\ \A q \in Queries : ~ Prepares(q)'
  BY <1>2, <1>8 DEF FcfsInv
<1>13. \A i, j \in DOMAIN waitQueue' : i < j => waitQueue'[i] < waitQueue'[j]
  BY <1>2 DEF FcfsInv
<1>14. QED BY <1>10, <1>11, <1>12, <1>13 DEF FcfsInv, AddsInOrder

LEMMA TackleAddQueryFcfs == IInv /\ FcfsInv /\ TackleAddQuery => FcfsInv'
<1> SUFFICES ASSUME IInv, FcfsInv, TackleAddQuery PROVE FcfsInv'
  OBVIOUS
<1> DEFINE h == Head(events).q
           all == Append(waitQueue, h)
           more == IF preparing THEN << >> ELSE <<PrepareEvent(Head(all), TRUE)>>
<1>1. /\ events # << >> /\ Tackle("AddQuery", more)
      /\ waitQueue' = IF preparing THEN all ELSE Tail(all)
      /\ preparing' = TRUE
      /\ UNCHANGED <<requests, waitDone, blocks>>
  BY DEF TackleAddQuery
<1>2. TypeInv /\ PlaceInv /\ OnceQueued(events) /\ waitQueue \in Seq(Queries)
  BY DEF IInv, PlaceInv, TypeInv
<1>3. /\ events \in Seq(Events) /\ Head(events) = events[1] /\ 1 \in DOMAIN events
      /\ events[1].kind = "AddQuery" /\ h = events[1].q /\ h \in Queries
  <2>1. events \in Seq(Events)
    BY <1>2 DEF TypeInv
  <2>2. Head(events) = events[1] /\ 1 \in DOMAIN events /\ events[1] \in Events
    BY <1>1, <2>1
  <2>3. events[1].kind = "AddQuery"
    BY <1>1, <2>2 DEF Tackle
  <2>4. QED BY <2>1, <2>2, <2>3, EventTyping
<1> HIDE DEF h
<1>4. CASE preparing
  <2>1. more = << >> /\ waitQueue' = Append(waitQueue, h)
    BY <1>1, <1>4
  <2> HIDE DEF more
  <2>2. more \in Seq(Events) /\ DOMAIN more = {}
    BY <2>1
  <2>3. Turned(events, events', more)
    BY <1>1, <1>2, <2>2, TackleTurn
  <2>4. /\ \A kd \in {"AddQuery", "Prepare", "Prepared"} : \A q :
             Comes(kd, q)' => Comes(kd, q) /\ q # h
        /\ \A j \in DOMAIN events' : events'[j].kind = "AddQuery" =>
              j \in Nat /\ j + 1 \in DOMAIN events /\ events'[j] = events[j + 1]
    BY <1>2, <1>3, <2>2, <2>3, TurnComes DEF Queued
  <2>5. AddsInOrder'
    BY <2>4, TurnAdds
  <2>6. /\ DOMAIN waitQueue = 1 .. Len(waitQueue) /\ Len(waitQueue) \in Nat
        /\ DOMAIN waitQueue' = 1 .. (Len(waitQueue) + 1) /\ waitQueue'[Len(waitQueue) + 1] = h
        /\ \A i \in DOMAIN waitQueue : waitQueue'[i] = waitQueue[i] /\ waitQueue[i] \in Queries
    BY <1>2, <1>3, <2>1, AppendProperties
  <2>7. Adding(h)
    BY <1>3 DEF Adding, Comes
  <2>8. \A i, j \in DOMAIN waitQueue' : i < j => waitQueue'[i] < waitQueue'[j]
    <3>1. ASSUME NEW i \in DOMAIN waitQueue', NEW j \in DOMAIN waitQueue', i < j
          PROVE  waitQueue'[i] < waitQueue'[j]
      <4>1. i \in DOMAIN waitQueue /\ (j \in DOMAIN waitQueue \/ j = Len(waitQueue) + 1)
        BY <2>6, <3>1
      <4>2. In(waitQueue, waitQueue[i]) /\ waitQueue[i] \in Queries
        BY <2>6, <4>1 DEF In
      <4>3. CASE j \in DOMAIN waitQueue
        BY <2>6, <3>1, <4>1, <4>3 DEF FcfsInv
      <4>4. CASE j = Len(waitQueue) + 1
        <5>1. waitQueue[i] < h
          BY <1>3, <2>7, <4>2 DEF FcfsInv
        <5>2. QED BY <2>6, <4>1, <4>4, <5>1
      <4>5. QED BY <4>1, <4>3, <4>4
    <3>2. QED BY <3>1
  <2>9. ASSUME NEW q \in Queries
        PROVE  /\ Adding(q)' => Adding(q) /\ h < q
               /\ In(waitQueue, q)' => In(waitQueue, q) \/ q = h
               /\ Trying(q)' => Trying(q)
               /\ Prepares(q)' => Prepares(q)
               /\ Got(q)' <=> Got(q)
    <3>1. In(waitQueue, q)' => In(waitQueue, q) \/ q = h
      BY <2>6 DEF In
    <3>2. /\ Trying(q)' => Trying(q)
          /\ Prepares(q)' => Prepares(q)
          /\ Got(q)' <=> Got(q)
      BY <1>1, <2>4 DEF Trying, Prepares, Got
    <3>3. ASSUME Adding(q)' PROVE Adding(q) /\ h < q
      <4>1. PICK j \in DOMAIN events' : events'[j].kind = "AddQuery" /\ events'[j].q = q
        BY <3>3 DEF Adding, Comes
      <4>2. j \in Nat /\ j + 1 \in DOMAIN events /\ events'[j] = events[j + 1]
        BY <2>4, <4>1
      <4>3. 1 < j + 1
        BY <2>3, <4>1, <4>2 DEF Turned
      <4>4. QED BY <1>3, <4>1, <4>2, <4>3 DEF FcfsInv, Adding, Comes
    <3>4. QED BY <3>1, <3>2, <3>3
  <2>10. ASSUME NEW q \in Queries
         PROVE  Later(q)' => Later(q)
    BY <2>7, <2>9 DEF Later
  <2>11. ASSUME NEW q \in Queries, NEW r \in Queries
         PROVE  /\ In(waitQueue, q)' /\ Adding(r)' => q < r
                /\ Prepares(q)' /\ Later(r)' => q < r
                /\ Prepares(q)' /\ Prepares(r)' => q = r
                /\ Got(q)' /\ (Trying(r)' \/ Later(r)') => q < r
                /\ Got(q)' => q \in DOMAIN requests'
    BY <1>1, <2>9, <2>10 DEF FcfsInv
  <2>12. QED BY <1>1, <2>5, <2>8, <2>11 DEF FcfsInv, AddsInOrder
<1>5. CASE ~ preparing
  <2>1. waitQueue = << >> /\ \A q \in Queries : ~ Prepares(q)
    BY <1>5 DEF FcfsInv
  <2>2. all = <<h>> /\ Head(all) = h /\ Tail(all) = << >>
    BY <1>3, <2>1
  <2> HIDE DEF all
  <2>3. more = <<PrepareEvent(h, TRUE)>> /\ waitQueue' = << >>
    BY <1>1, <1>5, <2>2
  <2> HIDE DEF more
  <2>4. /\ more \in Seq(Events) /\ DOMAIN more = {1}
        /\ more[1].kind = "Prepare" /\ more[1].q = h
    BY <1>3, <2>3, MakeEvents, AtMostOne
  <2>5. Turned(events, events', more)
    BY <1>1, <1>2, <2>4, TackleTurn
  <2>6. /\ \A kd \in {"AddQuery", "Prepare", "Prepared"} : \A q :
             Comes(kd, q)' => (Comes(kd, q) /\ q # h) \/ (kd = "Prepare" /\ q = h)
        /\ \A j \in DOMAIN events' : events'[j].kind = "AddQuery" =>
              j \in Nat /\ j + 1 \in DOMAIN events /\ events'[j] = events[j + 1]
    <3>1. \A k \in DOMAIN more : more[k].kind = "Prepare" /\ more[k].q = h
      BY <2>4
    <3>2. /\ \A kd \in {"AddQuery", "Prepare", "Prepared"} : \A q :
               Comes(kd, q)' => \/ Comes(kd, q) /\ ~ (events[1].q = q /\ Queued(events[1]))
                                \/ \E k \in DOMAIN more : more[k].kind = kd /\ more[k].q = q
          /\ \A j \in DOMAIN events' : events'[j].kind = "AddQuery" =>
                j \in Nat /\ j + 1 \in DOMAIN events /\ events'[j] = events[j + 1]
      BY <1>2, <1>3, <2>5, <3>1, TurnComes
    <3>3. QED BY <1>3, <3>1, <3>2 DEF Queued
  <2>7. AddsInOrder'
    BY <2>6, TurnAdds
  <2>8. Adding(h)
    BY <1>3 DEF Adding, Comes
  <2>9. ASSUME NEW q \in Queries
        PROVE  /\ Adding(q)' => Adding(q) /\ h < q
               /\ ~ In(waitQueue, q)'
               /\ Prepares(q)' => q = h
               /\ Trying(q)' => q = h
               /\ Got(q)' <=> Got(q)
    <3>1. Prepares(q)' => q = h
      <4>1. ~ Comes("Prepare", q) /\ ~ Comes("Prepared", q) /\ waitDone # q
        BY <2>1 DEF Prepares, Trying
      <4>2. QED BY <1>1, <2>6, <4>1 DEF Prepares, Trying
    <3>2. Trying(q)' => q = h
      BY <3>1 DEF Prepares
    <3>3. ASSUME Adding(q)' PROVE Adding(q) /\ h < q
      <4>1. PICK j \in DOMAIN events' : events'[j].kind = "AddQuery" /\ events'[j].q = q
        BY <3>3 DEF Adding, Comes
      <4>2. j \in Nat /\ j + 1 \in DOMAIN events /\ events'[j] = events[j + 1]
        BY <2>6, <4>1
      <4>3. 1 < j + 1
        BY <2>5, <4>1, <4>2 DEF Turned
      <4>4. QED BY <1>3, <4>1, <4>2, <4>3 DEF FcfsInv, Adding, Comes
    <3>4. ~ In(waitQueue, q)' /\ (Got(q)' <=> Got(q))
      BY <1>1, <2>3 DEF In, Got
    <3>5. QED BY <3>1, <3>2, <3>3, <3>4
  <2>10. ASSUME NEW q \in Queries
         PROVE  Later(q)' => Later(q) /\ h < q
    BY <2>9 DEF Later
  <2>11. Later(h)
    BY <2>8 DEF Later
  <2>12. ASSUME NEW q \in Queries, NEW r \in Queries
         PROVE  /\ In(waitQueue, q)' /\ Adding(r)' => q < r
                /\ Prepares(q)' /\ Later(r)' => q < r
                /\ Prepares(q)' /\ Prepares(r)' => q = r
                /\ Got(q)' /\ (Trying(r)' \/ Later(r)') => q < r
                /\ Got(q)' => q \in DOMAIN requests'
    BY <1>1, <1>3, <2>9, <2>10, <2>11 DEF FcfsInv
  <2>13. \A i, j \in DOMAIN waitQueue' : i < j => waitQueue'[i] < waitQueue'[j]
    BY <2>3
  <2>14. QED BY <1>1, <2>7, <2>12, <2>13 DEF FcfsInv, AddsInOrder
<1>6. QED BY <1>4, <1>5

LEMMA TacklePreparedFcfs == IInv /\ FcfsInv /\ TacklePrepared => FcfsInv'
<1> SUFFICES ASSUME IInv, FcfsInv, TacklePrepared PROVE FcfsInv'
  OBVIOUS
<1> DEFINE w == Head(waitQueue)
           more == IF waitQueue = << >> THEN << >> ELSE <<PrepareEvent(w, TRUE)>>
<1>1. /\ Tackle("Prepared", more)
      /\ waitQueue' = IF waitQueue = << >> THEN << >> ELSE Tail(waitQueue)
      /\ preparing' = (waitQueue # << >>)
      /\ UNCHANGED <<requests, waitDone, blocks>>
  BY DEF TacklePrepared, MorePreparing
<1>2. TypeInv /\ PlaceInv /\ OnceQueued(events) /\ waitQueue \in Seq(Queries) /\ Once(waitQueue)
  BY DEF IInv, PlaceInv, TypeInv
<1>3. waitQueue # << >> =>
        /\ w \in Queries /\ In(waitQueue, w) /\ Tail(waitQueue) \in Seq(Queries)
        /\ \A q : In(Tail(waitQueue), q) => In(waitQueue, q) /\ w < q
        /\ \A i, j \in DOMAIN Tail(waitQueue) : i < j => Tail(waitQueue)[i] < Tail(waitQueue)[j]
  <2> SUFFICES ASSUME waitQueue # << >>
               PROVE  /\ w \in Queries /\ In(waitQueue, w) /\ Tail(waitQueue) \in Seq(Queries)
                      /\ \A q : In(Tail(waitQueue), q) => In(waitQueue, q) /\ w < q
                      /\ \A i, j \in DOMAIN Tail(waitQueue) :
                           i < j => Tail(waitQueue)[i] < Tail(waitQueue)[j]
    OBVIOUS
  <2> DEFINE rest == Tail(waitQueue)
  <2>1. /\ Len(waitQueue) \in Nat \ {0} /\ rest \in Seq(Queries) /\ Len(rest) = Len(waitQueue) - 1
        /\ \A j \in 1 .. Len(rest) : rest[j] = waitQueue[j + 1]
        /\ w = waitQueue[1] /\ DOMAIN waitQueue = 1 .. Len(waitQueue) /\ w \in Queries
    BY <1>2, HeadTailProperties
  <2> HIDE DEF rest, w
  <2>2. \A j \in DOMAIN rest : /\ j \in Nat /\ j + 1 \in DOMAIN waitQueue /\ 1 < j + 1
                               /\ rest[j] = waitQueue[j + 1]
    BY <2>1
  <2>3. 1 \in DOMAIN waitQueue
    BY <2>1
  <2>4. \A i, j \in DOMAIN rest : i < j => rest[i] < rest[j]
    <3>1. \A i, j \in DOMAIN rest : i < j => i + 1 < j + 1
      BY <2>2
    <3>2. QED BY <2>2, <3>1 DEF FcfsInv
  <2>5. \A q : In(rest, q) => In(waitQueue, q) /\ w < q
    BY <2>1, <2>2, <2>3 DEF In, FcfsInv
  <2>6. In(waitQueue, w)
    BY <2>1, <2>3 DEF In
  <2>7. QED BY <2>1, <2>4, <2>5, <2>6 DEF rest
<1> HIDE DEF w
<1>4. /\ more \in Seq(Events) /\ DOMAIN more \subseteq {1}
      /\ \A k \in DOMAIN more : more[k].kind = "Prepare" /\ more[k].q = w /\ waitQueue # << >>
  <2>1. CASE waitQueue = << >>
    BY <2>1
  <2>2. CASE waitQueue # << >>
    <3>1. /\ PrepareEvent(w, TRUE) \in Events
          /\ PrepareEvent(w, TRUE).kind = "Prepare" /\ PrepareEvent(w, TRUE).q = w
      BY <1>3, <2>2, MakeEvents
    <3>2. more = <<PrepareEvent(w, TRUE)>>
      BY <2>2
    <3>3. more \in Seq(Events) /\ DOMAIN more = {1} /\ more[1] = PrepareEvent(w, TRUE)
      BY <3>1, <3>2, AtMostOne
    <3>4. QED BY <2>2, <3>1, <3>3
  <2>3. QED BY <2>1, <2>2
<1> HIDE DEF more
<1>5. /\ Turned(events, events', more) /\ 1 \in DOMAIN events
      /\ events[1] \in Events /\ events[1].kind = "Prepared"
  BY <1>1, <1>2, <1>4, TackleTurn
<1> DEFINE h == events[1].q
<1>6. h \in Queries /\ Prepares(h) /\ Queued(events[1])
  BY <1>5, EventTyping DEF Prepares, Comes, Queued
<1>7. /\ \A kd \in {"AddQuery", "Prepare", "Prepared"} : \A q :
           Comes(kd, q)' => \/ Comes(kd, q) /\ q # h
                            \/ kd = "Prepare" /\ q = w /\ waitQueue # << >>
      /\ \A j \in DOMAIN events' : events'[j].kind = "AddQuery" =>
            j \in Nat /\ j + 1 \in DOMAIN events /\ events'[j] = events[j + 1]
  <2>1. /\ \A kd \in {"AddQuery", "Prepare", "Prepared"} : \A q :
             Comes(kd, q)' => \/ Comes(kd, q) /\ ~ (events[1].q = q /\ Queued(events[1]))
                              \/ \E k \in DOMAIN more : more[k].kind = kd /\ more[k].q = q
        /\ \A j \in DOMAIN events' : events'[j].kind = "AddQuery" =>
              j \in Nat /\ j + 1 \in DOMAIN events /\ events'[j] = events[j + 1]
    BY <1>2, <1>4, <1>5, TurnComes
  <2>2. QED BY <1>4, <1>6, <2>1
<1>8. AddsInOrder'
  BY <1>7, TurnAdds
<1>9. waitDone # h
  <2>1. QueuedIn(events, h)
    BY <1>5, <1>6 DEF QueuedIn
  <2>2. QED BY <1>2, <1>6, <2>1 DEF PlaceInv
<1> HIDE DEF h
<1>10. ASSUME NEW q \in Queries
       PROVE  /\ Adding(q)' => Adding(q)
              /\ In(waitQueue, q)' => In(waitQueue, q) /\ w < q
              /\ Later(q)' => Later(q)
              /\ Prepares(q)' => q = w /\ waitQueue # << >>
              /\ Trying(q)' => q = w /\ waitQueue # << >>
              /\ Got(q)' <=> Got(q)
  <2>1. Adding(q)' => Adding(q)
    BY <1>7 DEF Adding
  <2>2. In(waitQueue, q)' => In(waitQueue, q) /\ w < q
    BY <1>1, <1>3 DEF In
  <2>3. Prepares(q)' => q = w /\ waitQueue # << >>
    <3>1. Prepares(q) => q = h
      BY <1>6 DEF FcfsInv
    <3>2. QED BY <1>1, <1>7, <1>9, <3>1 DEF Prepares, Trying
  <2>4. Trying(q)' => q = w /\ waitQueue # << >>
    BY <2>3 DEF Prepares
  <2>5. (Got(q)' <=> Got(q)) /\ (Later(q)' => Later(q))
    BY <1>1, <2>1, <2>2 DEF Got, Later
  <2>6. QED BY <2>1, <2>2, <2>3, <2>4, <2>5
<1>11. ASSUME NEW q \in Queries, NEW r \in Queries
       PROVE  /\ In(waitQueue, q)' /\ Adding(r)' => q < r
              /\ Prepares(q)' /\ Later(r)' => q < r
              /\ Prepares(q)' /\ Prepares(r)' => q = r
              /\ Got(q)' /\ (Trying(r)' \/ Later(r)') => q < r
              /\ Got(q)' => q \in DOMAIN requests'
  <2>1. In(waitQueue, q)' /\ Adding(r)' => q < r
    BY <1>10 DEF FcfsInv
  <2>2. waitQueue # << >> => Later(w) /\ w \in Queries
    BY <1>3 DEF Later
  <2>3. Prepares(q)' /\ Later(r)' => q < r
    <3>1. Prepares(q)' /\ In(waitQueue, r)' => q < r
      BY <1>10
    <3>2. Prepares(q)' /\ Adding(r)' => q < r
      BY <1>3, <1>10 DEF FcfsInv
    <3>3. QED BY <3>1, <3>2 DEF Later
  <2>4. Prepares(q)' /\ Prepares(r)' => q = r
    BY <1>10
  <2>5. Got(q)' /\ (Trying(r)' \/ Later(r)') => q < r
    BY <1>10, <2>2 DEF FcfsInv
  <2>6. Got(q)' => q \in DOMAIN requests'
    BY <1>1, <1>10 DEF FcfsInv
  <2>7. QED BY <2>1, <2>3, <2>4, <2>5, <2>6
<1>12. ~ preparing' => waitQueue' = << >> /\ \A q \in Queries : ~ Prepares(q)'
  BY <1>1, <1>10
<1>13. \A i, j \in DOMAIN waitQueue' : i < j => waitQueue'[i] < waitQueue'[j]
  BY <1>1, <1>3
<1>14. QED BY <1>8, <1>11, <1>12, <1>13 DEF FcfsInv, AddsInOrder

(* What the batches and the writers know when a query is given its pages   *)
LEMMA PreparePages ==
  IInv /\ PagesInv /\ TacklePrepare => FcfsInv' /\ OwnerInv' /\ WriterInv' /\ FlowInv' /\ MemberInv'
<1> SUFFICES ASSUME IInv, PagesInv, TacklePrepare
             PROVE  FcfsInv' /\ OwnerInv' /\ WriterInv' /\ FlowInv' /\ MemberInv'
  OBVIOUS
<1>0. PICK h : h = Head(events).q
  OBVIOUS
<1> DEFINE pages == Alloc(PagesNeeded(requests[h]))
           first == Head(events).firstTry
           more == IF first THEN <<AfterLoad(h, pages)>> ELSE << >>
<1>1. /\ events # << >> /\ Head(events).kind = "Prepare" /\ Tackle("Prepare", more)
      /\ IF first THEN /\ status' = [status EXCEPT ![h] = "Preparing"]
                       /\ handle' = [handle EXCEPT ![h] = pages]
                       /\ blocks' = [blocks EXCEPT ![h] = pages]
                       /\ waitDone' = waitDone
                  ELSE waitDone' = h /\ UNCHANGED <<status, handle, blocks>>
      /\ UNCHANGED <<requests, waitQueue, preparing, slot, running, taken, writer, skewed>>
  BY <1>0 DEF TacklePrepare, engineVars
<1>2. /\ TypeInv /\ PlaceInv /\ OnceQueued(events)
      /\ FcfsInv /\ OwnerInv /\ WriterInv /\ FlowInv /\ MemberInv
  BY DEF IInv, PlaceInv, PagesInv
<1>3. /\ events \in Seq(Events) /\ Head(events) = events[1] /\ 1 \in DOMAIN events
      /\ events[1].kind = "Prepare" /\ h = events[1].q /\ h \in Queries
  <2>1. events \in Seq(Events)
    BY <1>2 DEF TypeInv
  <2>2. Head(events) = events[1] /\ 1 \in DOMAIN events /\ events[1] \in Events
    BY <1>1, <2>1
  <2>3. QED BY <1>0, <1>1, <2>1, <2>2, EventTyping
<1> HIDE DEF pages, first
<1>4. /\ Queued(events[1]) /\ Trying(h) /\ Prepares(h) /\ ~ Got(h)
      /\ QueuedIn(events, h) /\ waitDone # h /\ h \in DOMAIN requests /\ status[h] \in Early
  <2>1. Queued(events[1]) /\ Trying(h) /\ Prepares(h) /\ QueuedIn(events, h)
    BY <1>3 DEF Queued, Trying, Prepares, Comes, QueuedIn
  <2>2. ~ Got(h)
    <3>1. Got(h) => h < h
      BY <1>2, <1>3, <2>1 DEF FcfsInv
    <3>2. ~ (h < h)
      BY <1>3 DEF Queries
    <3>3. QED BY <3>1, <3>2
  <2>3. QED BY <1>2, <1>3, <2>1, <2>2 DEF PlaceInv
<1>5. \A i \in DOMAIN pages : pages[i] \in Pages \ Occupied
  <2>1. requests[h] \in Requests
    BY <1>2, <1>4 DEF TypeInv
  <2>2. PagesNeeded(requests[h]) \in Nat
    BY <2>1, SchedulerAssumption DEF PagesNeeded
  <2>3. QED BY <2>2, AllocFree DEF pages
<1>6. \A q \in Queries : q # h =>
         /\ blocks'[q] = blocks[q] /\ handle'[q] = handle[q] /\ status'[q] = status[q]
  BY <1>1, <1>2 DEF TypeInv, OwnerInv
<1>7. /\ first => blocks'[h] = pages /\ handle'[h] = pages /\ status'[h] = "Preparing"
      /\ ~ first => blocks'[h] = blocks[h] /\ handle'[h] = handle[h] /\ status'[h] = status[h]
      /\ DOMAIN blocks' = Queries
  BY <1>1, <1>2, <1>3 DEF TypeInv, OwnerInv
<1>8. /\ AfterLoad(h, pages) \in Events /\ AfterLoad(h, pages).q = h
      /\ AfterLoad(h, pages).kind = IF pages # << >> THEN "Prepared" ELSE "Prepare"
  <2>1. CASE pages # << >>
    BY <1>3, <2>1, MakeEvents DEF AfterLoad
  <2>2. CASE pages = << >>
    <3>1. AfterLoad(h, pages) = PrepareEvent(h, FALSE)
      BY <2>2 DEF AfterLoad
    <3>2. /\ PrepareEvent(h, FALSE) \in Events
          /\ PrepareEvent(h, FALSE).kind = "Prepare" /\ PrepareEvent(h, FALSE).q = h
      BY <1>3, MakeEvents
    <3>3. QED BY <2>2, <3>1, <3>2
  <2>3. QED BY <2>1, <2>2
<1>9. /\ more \in Seq(Events)
      /\ \A k \in DOMAIN more : more[k] = AfterLoad(h, pages) /\ first
  <2>1. CASE first
    <3>1. more = <<AfterLoad(h, pages)>>
      BY <2>1
    <3>2. QED BY <1>8, <2>1, <3>1, AtMostOne
  <2>2. CASE ~ first
    <3>1. more = << >>
      BY <2>2
    <3>2. QED BY <3>1
  <2>3. QED BY <2>1, <2>2
<1> HIDE DEF more
<1>10. Turned(events, events', more)
  BY <1>1, <1>2, <1>9, TackleTurn
<1>11. /\ \A kd \in {"AddQuery", "Prepare", "Prepared"} : \A q :
            Comes(kd, q)' => \/ Comes(kd, q) /\ q # h
                             \/ /\ q = h /\ first
                                /\ kd = IF pages # << >> THEN "Prepared" ELSE "Prepare"
       /\ \A j \in DOMAIN events' : events'[j].kind = "AddQuery" =>
             j \in Nat /\ j + 1 \in DOMAIN events /\ events'[j] = events[j + 1]
  <2>1. \A k \in DOMAIN more : more[k].kind # "AddQuery"
    BY <1>8, <1>9
  <2>2. /\ \A kd \in {"AddQuery", "Prepare", "Prepared"} : \A q :
             Comes(kd, q)' => \/ Comes(kd, q) /\ ~ (events[1].q = q /\ Queued(events[1]))
                              \/ \E k \in DOMAIN more : more[k].kind = kd /\ more[k].q = q
        /\ \A j \in DOMAIN events' : events'[j].kind = "AddQuery" =>
              j \in Nat /\ j + 1 \in DOMAIN events /\ events'[j] = events[j + 1]
    BY <1>2, <1>3, <1>10, <2>1, TurnComes
  <2>3. QED BY <1>3, <1>4, <1>8, <1>9, <2>2
<1>12. AddsInOrder'
  BY <1>2, <1>11, TurnAdds
<1>13. ASSUME NEW q \in Queries
       PROVE  /\ Adding(q)' => Adding(q)
              /\ In(waitQueue, q)' => In(waitQueue, q)
              /\ Later(q)' => Later(q)
              /\ Prepares(q)' => q = h
              /\ Trying(q)' => q = h /\ ~ Got(h)'
              /\ Got(q)' => Got(q) \/ q = h
  <2>1. (Adding(q)' => Adding(q)) /\ (In(waitQueue, q)' => In(waitQueue, q))
    BY <1>1, <1>11 DEF Adding, In
  <2>2. Prepares(q) => q = h
    BY <1>2, <1>3, <1>4 DEF FcfsInv
  <2>3. Prepares(q)' => q = h
    BY <1>1, <1>11, <2>2 DEF Prepares, Trying
  <2>4. ASSUME Trying(q)' PROVE q = h /\ ~ Got(h)'
    <3>1. q = h
      BY <2>3, <2>4 DEF Prepares
    <3>2. CASE first
      <4>1. Comes("Prepare", h)'
        BY <1>1, <1>4, <2>4, <3>1, <3>2 DEF Trying
      <4>2. pages = << >>
        BY <1>11, <4>1
      <4>3. QED BY <1>7, <3>1, <3>2, <4>2 DEF Got
    <3>3. CASE ~ first
      BY <1>4, <1>7, <3>1, <3>3 DEF Got
    <3>4. QED BY <3>2, <3>3
  <2>5. Got(q)' => Got(q) \/ q = h
    BY <1>6 DEF Got
  <2>6. QED BY <2>1, <2>3, <2>4, <2>5 DEF Later
<1>14. FcfsInv'
  <2>1. ASSUME NEW q \in Queries, NEW r \in Queries
        PROVE  /\ In(waitQueue, q)' /\ Adding(r)' => q < r
               /\ Prepares(q)' /\ Later(r)' => q < r
               /\ Prepares(q)' /\ Prepares(r)' => q = r
               /\ Got(q)' /\ (Trying(r)' \/ Later(r)') => q < r
               /\ Got(q)' => q \in DOMAIN requests'
    <3>1. In(waitQueue, q)' /\ Adding(r)' => q < r
      BY <1>2, <1>13 DEF FcfsInv
    <3>2. h \in Queries /\ Later(r) => h < r
      BY <1>2, <1>4 DEF FcfsInv
    <3>3. (Prepares(q)' /\ Later(r)' => q < r) /\ (Prepares(q)' /\ Prepares(r)' => q = r)
      BY <1>3, <1>13, <3>2
    <3>4. Got(q)' /\ Later(r)' => q < r
      BY <1>2, <1>3, <1>13, <3>2 DEF FcfsInv
    <3>5. Got(q)' /\ Trying(r)' => q < r
      BY <1>2, <1>3, <1>4, <1>13 DEF FcfsInv
    <3>6. Got(q)' => q \in DOMAIN requests'
      BY <1>1, <1>2, <1>4, <1>13 DEF FcfsInv
    <3>7. QED BY <3>1, <3>3, <3>4, <3>5, <3>6
  <2>2. ~ preparing' => waitQueue' = << >> /\ \A q \in Queries : ~ Prepares(q)'
    BY <1>1, <1>2, <1>3, <1>4 DEF FcfsInv
  <2>3. \A i, j \in DOMAIN waitQueue' : i < j => waitQueue'[i] < waitQueue'[j]
    BY <1>1, <1>2 DEF FcfsInv
  <2>4. QED BY <1>12, <2>1, <2>2, <2>3 DEF FcfsInv, AddsInOrder
<1>15. ASSUME NEW q \in Queries, NEW p \in Pages
       PROVE  /\ q # h => (Had(q, p)' <=> Had(q, p)) /\ (Owns(q, p)' <=> Owns(q, p))
              /\ ~ Had(h, p) /\ ~ Owns(h, p)
              /\ Owns(h, p)' <=> Had(h, p)'
              /\ Owns(h, p)' /\ q # h => ~ Owns(q, p)
  <2>1. q # h => (Had(q, p)' <=> Had(q, p)) /\ (Owns(q, p)' <=> Owns(q, p))
    BY <1>6 DEF Had, Owns
  <2>2. blocks[h] = << >> /\ handle[h] = << >>
    BY <1>2, <1>3, <1>4 DEF Got, OwnerInv
  <2>3. ~ Had(h, p) /\ ~ Owns(h, p)
    BY <2>2 DEF Had, Owns
  <2>4. blocks'[h] = handle'[h]
    BY <1>7, <2>2
  <2>5. Owns(h, p)' <=> Had(h, p)'
    BY <2>4 DEF Had, Owns
  <2>6. ASSUME Owns(h, p)', Owns(q, p) PROVE FALSE
    <3>1. p \notin Occupied
      <4>1. first
        BY <1>7, <2>2, <2>6 DEF Owns
      <4>2. QED BY <1>5, <1>7, <2>6, <4>1 DEF Owns
    <3>2. p \in Occupied
      BY <2>6 DEF Occupied, PagesOf, Owns
    <3>3. QED BY <3>1, <3>2
  <2>7. QED BY <2>1, <2>3, <2>5, <2>6
<1>16. OwnerInv'
  <2>1. ASSUME NEW q \in Queries PROVE handle'[q] = << >> \/ handle'[q] = blocks'[q]
    BY <1>2, <1>6, <1>7 DEF OwnerInv
  <2>2. ASSUME NEW q \in Queries, NEW r \in Queries, NEW p \in Pages, Owns(q, p)', Owns(r, p)'
        PROVE  q = r
    BY <1>2, <1>15, <2>2 DEF OwnerInv
  <2>3. ASSUME NEW q \in Queries, NEW r \in Queries, NEW p \in Pages, Had(q, p)', Owns(r, p)'
        PROVE  q <= r
    <3>1. CASE q = r
      BY <3>1 DEF Queries
    <3>2. CASE q # h /\ r # h
      BY <1>2, <1>15, <2>3, <3>2 DEF OwnerInv
    <3>3. CASE q # h /\ r = h
      <4>1. Had(q, p)
        BY <1>15, <2>3, <3>3
      <4>2. Got(q)
        BY <4>1 DEF Had, Got
      <4>3. q < h
        BY <1>2, <1>3, <1>4, <4>2 DEF FcfsInv
      <4>4. QED BY <1>3, <3>3, <4>3 DEF Queries
    <3>4. CASE q = h /\ r # h
      <4>1. Owns(h, p)' /\ Owns(r, p)
        BY <1>3, <1>15, <2>3, <3>4
      <4>2. QED BY <1>15, <3>4, <4>1
    <3>5. QED BY <3>1, <3>2, <3>3, <3>4
  <2>4. QED BY <1>7, <2>1, <2>2, <2>3 DEF OwnerInv
<1>17. ASSUME NEW S, \A q \in S : q \in Queries /\ q # h
       PROVE  \A p \in Pages : \A q \in S : Had(q, p)' <=> Had(q, p)
  BY <1>15, <1>17
<1>18. \A q \in QueryIds(running) \cup QueryIds(taken) \cup QueryIds(slot.batch) : q \in Queries /\ q # h
  BY <1>2, <1>4 DEF MemberInv
<1>19. \A p \in Pages : \A q \in writer[p] : q \in Queries /\ q # h
  BY <1>2, <1>15 DEF WriterInv
<1>20. WriterInv'
  BY <1>1, <1>2, <1>15, <1>19 DEF WriterInv
<1>21. MemberInv'
  <2>1. running' = running /\ taken' = taken /\ slot' = slot
    BY <1>1
  <2>2. \A q \in Queries : q # h => status'[q] = status[q]
    BY <1>6
  <2>3. QED BY <1>2, <1>18, <2>1, <2>2 DEF MemberInv, QueryIds
<1>22. FlowInv'
  <2> SUFFICES ASSUME NEW p \in Pages
               PROVE  Flows(p, writer[p], QueryIds(running), QueryIds(taken), QueryIds(slot.batch))'
    BY DEF FlowInv
  <2> DEFINE all == QueryIds(running) \cup QueryIds(taken) \cup QueryIds(slot.batch) \cup writer[p]
  <2>1. \A q \in all : Had(q, p)' <=> Had(q, p)
    BY <1>15, <1>18, <1>19
  <2>2. /\ QueryIds(running)' = QueryIds(running) /\ QueryIds(taken)' = QueryIds(taken)
        /\ QueryIds(slot.batch)' = QueryIds(slot.batch) /\ writer'[p] = writer[p] /\ skewed' = skewed
    BY <1>1 DEF QueryIds
  <2>3. ASSUME NEW S \in SUBSET all, NEW T \in SUBSET all, Ordered(p, S, T)
        PROVE  Ordered(p, S, T)'
    BY <2>1, <2>2, <2>3 DEF Ordered
  <2>4. Flows(p, writer[p], QueryIds(running), QueryIds(taken), QueryIds(slot.batch))
    BY <1>2 DEF FlowInv
  <2>5. QED BY <2>2, <2>3, <2>4 DEF Flows
<1>23. QED BY <1>14, <1>16, <1>20, <1>21, <1>22

(* Steps that neither plan nor run a batch, and give no pages away         *)
LEMMA PagesKept ==
  ASSUME TypeInv, PagesInv, UNCHANGED <<slot, running, taken, writer, skewed, blocks>>,
         \A q \in Queries : /\ handle'[q] \in {handle[q], << >>}
                            /\ status'[q] \in Early => status[q] \in Early
  PROVE  OwnerInv' /\ WriterInv' /\ FlowInv' /\ MemberInv'
<1>1. OwnerInv /\ WriterInv /\ FlowInv /\ MemberInv
  BY DEF PagesInv
<1>2. \A q, p : /\ Had(q, p)' <=> Had(q, p)
                /\ q \in Queries /\ Owns(q, p)' => Owns(q, p)
  BY DEF Had, Owns
<1>3. OwnerInv'
  BY <1>1, <1>2 DEF OwnerInv
<1>4. WriterInv'
  BY <1>1, <1>2 DEF WriterInv
<1>5. FlowInv'
  <2> SUFFICES ASSUME NEW p \in Pages
               PROVE  Flows(p, writer[p], QueryIds(running), QueryIds(taken), QueryIds(slot.batch))'
    BY DEF FlowInv
  <2>1. Flows(p, writer[p], QueryIds(running), QueryIds(taken), QueryIds(slot.batch))
    BY <1>1 DEF FlowInv
  <2>2. /\ QueryIds(running)' = QueryIds(running) /\ QueryIds(taken)' = QueryIds(taken)
        /\ QueryIds(slot.batch)' = QueryIds(slot.batch) /\ writer'[p] = writer[p] /\ skewed' = skewed
    BY DEF QueryIds
  <2>3. ASSUME NEW S, NEW T, Ordered(p, S, T)
        PROVE  Ordered(p, S, T)'
    BY <1>2, <2>2, <2>3 DEF Ordered
  <2>4. QED BY <2>1, <2>2, <2>3 DEF Flows
<1>6. MemberInv'
  BY <1>1 DEF MemberInv, QueryIds
<1>7. QED BY <1>3, <1>4, <1>5, <1>6

LEMMA UpdatePages == IInv /\ PagesInv /\ TackleUpdate => PagesInv'
<1> SUFFICES ASSUME IInv, PagesInv, TackleUpdate PROVE PagesInv'
  OBVIOUS
<1> DEFINE done == Finished(Head(events).updates)
           more == [k \in 1 .. Cardinality(done) |-> Event("QueryStatus")]
<1>1. /\ Tackle("Update", more)
      /\ status' = [q \in Queries |-> IF q \in done THEN "Done" ELSE status[q]]
      /\ handle' = [q \in Queries |-> IF q \in done THEN << >> ELSE handle[q]]
      /\ UNCHANGED <<requests, waitQueue, preparing, waitDone, blocks, slot, running, taken,
                     writer, skewed>>
  BY DEF TackleUpdate, engineVars
<1>2. TypeInv /\ events # << >>
  BY <1>1 DEF IInv, Tackle
<1>3. more \in Seq(Events) /\ \A k \in DOMAIN more : ~ Queued(more[k])
  <2>1. done \subseteq Queries
    <3>1. events \in Seq(Events) /\ Head(events) \in Events /\ Head(events).kind = "Update"
      BY <1>1, <1>2, HeadTailProperties DEF TypeInv, Tackle
    <3>2. Head(events).updates \in SUBSET Update
      BY <3>1, EventTyping
    <3>3. QED BY <3>2 DEF Finished, Update
  <2>2. IsFiniteSet(Queries)
    BY SchedulerAssumption, FS_Interval DEF Queries
  <2>3. Cardinality(done) \in Nat
    BY <2>1, <2>2, FS_Subset, FS_CardinalityType
  <2>4. Event("QueryStatus") \in Events /\ ~ Queued(Event("QueryStatus"))
    BY DEF Event, Events, Queued
  <2> HIDE DEF done
  <2>5. QED BY <2>3, <2>4
<1> HIDE DEF more
<1>4. FcfsInv'
  BY <1>1, <1>3, FcfsTurn DEF PagesInv
<1>5. \A q \in Queries : /\ handle'[q] \in {handle[q], << >>}
                         /\ status'[q] \in Early => status[q] \in Early
  BY <1>1 DEF Early
<1>6. OwnerInv' /\ WriterInv' /\ FlowInv' /\ MemberInv'
  BY <1>1, <1>2, <1>5, PagesKept
<1>7. QED BY <1>4, <1>6 DEF PagesInv

LEMMA TakenPages == IInv /\ PagesInv /\ TackleTaken => PagesInv'
<1> SUFFICES ASSUME IInv, PagesInv, TackleTaken PROVE PagesInv'
  OBVIOUS
<1>1. /\ Tackle("TakenBatch", << >>) /\ << >> \in Seq(Events) /\ DOMAIN << >> = {}
      /\ \A q \in Queries : status'[q] \in {"Decode", status[q]}
      /\ UNCHANGED <<requests, handle, waitQueue, preparing, waitDone, blocks, slot, running,
                     taken, writer, skewed>>
  BY DEF TackleTaken, engineVars
<1>2. FcfsInv'
  BY <1>1, FcfsTurn DEF PagesInv
<1>3. \A q \in Queries : /\ handle'[q] \in {handle[q], << >>}
                         /\ status'[q] \in Early => status[q] \in Early
  BY <1>1 DEF Early
<1>4. OwnerInv' /\ WriterInv' /\ FlowInv' /\ MemberInv'
  BY <1>1, <1>3, PagesKept DEF IInv
<1>5. QED BY <1>2, <1>4 DEF PagesInv

LEMMA QueryStatusPages == IInv /\ PagesInv /\ TackleQueryStatus => PagesInv'
<1> SUFFICES ASSUME IInv, PagesInv, TackleQueryStatus PROVE PagesInv'
  OBVIOUS
<1> DEFINE more == IF waitDone = 0 THEN << >> ELSE <<Retry>>
<1>1. /\ Tackle("QueryStatus", more) /\ waitDone' = 0
      /\ UNCHANGED <<requests, status, handle, waitQueue, preparing, blocks, slot, running,
                     taken, writer, skewed>>
  BY DEF TackleQueryStatus, engineVars
<1>2. TypeInv /\ FcfsInv /\ OnceQueued(events) /\ (waitDone # 0 => waitDone \in Queries)
  BY DEF IInv, PagesInv, PlaceInv, TypeInv
<1>3. /\ more \in Seq(Events)
      /\ \A k \in DOMAIN more : /\ more[k].kind = "Prepare" /\ more[k].q = waitDone
                                /\ waitDone \in Queries
  <2>1. CASE waitDone = 0
    BY <2>1
  <2>2. CASE waitDone # 0
    <3>1. Retry \in Events /\ Retry.kind = "Prepare" /\ Retry.q = waitDone /\ waitDone \in Queries
      BY <1>2, <2>2, MakeEvents DEF Retry
    <3>2. more = <<Retry>>
      BY <2>2
    <3>3. QED BY <3>1, <3>2, AtMostOne
  <2>3. QED BY <2>1, <2>2
<1> HIDE DEF more
<1>4. Turned(events, events', more) /\ 1 \in DOMAIN events
  BY <1>1, <1>2, <1>3, TackleTurn
<1>5. /\ \A kd \in {"AddQuery", "Prepare", "Prepared"} : \A q :
           Comes(kd, q)' => Comes(kd, q) \/ (kd = "Prepare" /\ q = waitDone)
      /\ \A j \in DOMAIN events' : events'[j].kind = "AddQuery" =>
            j \in Nat /\ j + 1 \in DOMAIN events /\ events'[j] = events[j + 1]
  <2>1. \A k \in DOMAIN more : more[k].kind # "AddQuery"
    BY <1>3
  <2>2. /\ \A kd \in {"AddQuery", "Prepare", "Prepared"} : \A q :
             Comes(kd, q)' => \/ Comes(kd, q) /\ ~ (events[1].q = q /\ Queued(events[1]))
                              \/ \E k \in DOMAIN more : more[k].kind = kd /\ more[k].q = q
        /\ \A j \in DOMAIN events' : events'[j].kind = "AddQuery" =>
              j \in Nat /\ j + 1 \in DOMAIN events /\ events'[j] = events[j + 1]
    BY <1>2, <1>4, <2>1, TurnComes
  <2>3. QED BY <1>3, <2>2
<1>6. AddsInOrder'
  BY <1>2, <1>5, TurnAdds
<1>7. ASSUME NEW q \in Queries
      PROVE  /\ Comes("AddQuery", q)' => Comes("AddQuery", q)
             /\ Trying(q)' => Trying(q)
             /\ Prepares(q)' => Prepares(q)
  <2>1. waitDone' # q
    BY <1>1 DEF Queries
  <2>2. QED BY <1>5, <2>1 DEF Trying, Prepares
<1>8. FcfsInv'
  BY <1>1, <1>2, <1>6, <1>7, FcfsKept
<1>9. OwnerInv' /\ WriterInv' /\ FlowInv' /\ MemberInv'
  BY <1>1, <1>2, PagesKept
<1>10. QED BY <1>8, <1>9 DEF PagesInv

(* The other steps that leave the batches and the pages alone *)
LEMMA QuietPages ==
  ASSUME IInv, PagesInv,
         AddQuery \/ TackleAddQuery \/ TacklePrepared \/ EnqueueSchedule \/ AnnounceBatch
  PROVE  PagesInv'
<1>1. TypeInv /\ FcfsInv
  BY DEF IInv, PagesInv
<1>2. CASE AddQuery
  <2>1. UNCHANGED <<slot, running, taken, writer, skewed, blocks, handle, status>>
    BY <1>2 DEF AddQuery, loopVars, engineVars
  <2>2. QED BY <1>1, <1>2, <2>1, AddQueryFcfs, PagesKept DEF PagesInv
<1>3. CASE TackleAddQuery
  <2>1. /\ UNCHANGED <<slot, running, taken, writer, skewed, blocks, handle>>
        /\ status' = [status EXCEPT ![Head(events).q] = "Received"]
        /\ Tackle("AddQuery", IF preparing THEN << >>
                              ELSE <<PrepareEvent(Head(Append(waitQueue, Head(events).q)), TRUE)>>)
    BY <1>3 DEF TackleAddQuery, engineVars
  <2>2. Queued(events[1]) /\ 1 \in DOMAIN events /\ events[1].q = Head(events).q
        /\ events[1].q \in Queries
    <3>1. events \in Seq(Events) /\ events # << >> /\ Head(events).kind = "AddQuery"
      BY <1>1, <2>1 DEF TypeInv, Tackle
    <3>2. Head(events) = events[1] /\ 1 \in DOMAIN events /\ events[1] \in Events
      BY <3>1
    <3>3. QED BY <3>1, <3>2, EventTyping DEF Queued
  <2>3. status[Head(events).q] \in Early
    <3>1. QueuedIn(events, Head(events).q)
      BY <2>2 DEF QueuedIn
    <3>2. QED BY <2>2, <3>1 DEF IInv, PlaceInv
  <2>4. \A q \in Queries : status'[q] \in Early => status[q] \in Early
    BY <1>1, <2>1, <2>3 DEF TypeInv
  <2>5. OwnerInv' /\ WriterInv' /\ FlowInv' /\ MemberInv'
    BY <1>1, <2>1, <2>4, PagesKept
  <2>6. QED BY <1>1, <1>3, <2>5, TackleAddQueryFcfs DEF PagesInv
<1>4. CASE TacklePrepared
  <2>1. UNCHANGED <<slot, running, taken, writer, skewed, blocks, handle, status>>
    BY <1>4 DEF TacklePrepared, engineVars
  <2>2. QED BY <1>1, <1>4, <2>1, TacklePreparedFcfs, PagesKept DEF PagesInv
<1>5. CASE EnqueueSchedule
  <2>1. /\ UNCHANGED <<slot, running, taken, writer, skewed, blocks, handle, status>>
        /\ UNCHANGED <<waitQueue, waitDone, preparing, requests>>
        /\ events' = Append(events, Event("Schedule"))
    BY <1>5 DEF EnqueueSchedule, engineVars
  <2>2. Event("Schedule") \in Events /\ ~ Queued(Event("Schedule"))
    BY DEF Event, Events, Queued
  <2>3. FcfsInv'
    BY <1>1, <2>1, <2>2, FcfsAppend
  <2>4. QED BY <1>1, <2>1, <2>3, PagesKept DEF PagesInv
<1>6. CASE AnnounceBatch
  <2>1. /\ UNCHANGED <<slot, running, taken, writer, skewed, blocks, handle, status>>
        /\ UNCHANGED <<waitQueue, waitDone, preparing, requests>>
        /\ events' = Append(events, [kind |-> "TakenBatch", batch |-> taken])
    BY <1>6 DEF AnnounceBatch, loopVars
  <2> DEFINE e == [kind |-> "TakenBatch", batch |-> taken]
  <2>2. e \in Events /\ ~ Queued(e)
    BY <1>1 DEF Events, Queued, TypeInv
  <2>3. FcfsInv'
    BY <1>1, <2>1, <2>2, FcfsAppend
  <2>4. QED BY <1>1, <2>1, <2>3, PagesKept DEF PagesInv
<1>7. QED BY <1>2, <1>3, <1>4, <1>5, <1>6

(* A new batch holds queries that own their pages now: it writes to none   *)
(* of them before the batches on their way have.                           *)
LEMMA SchedulePages == IInv /\ PagesInv /\ TackleSchedule => PagesInv'
<1> SUFFICES ASSUME IInv, PagesInv, TackleSchedule PROVE PagesInv'
  OBVIOUS
<1> DEFINE started == {readyQueue[i] : i \in 1 .. Activated}
<1>1. /\ Tackle("Schedule", << >>) /\ << >> \in Seq(Events) /\ DOMAIN << >> = {}
      /\ active' = active \union started
      /\ status' = [q \in Queries |-> IF q \in started THEN "Prefill" ELSE status[q]]
      /\ plan' = [q \in Queries |-> IF q \in started THEN 0 ELSE plan[q]]
      /\ slot' = [batch |-> Generate(active', status', plan'), isNew |-> TRUE]
      /\ UNCHANGED <<requests, handle, waitQueue, preparing, waitDone, blocks, running, taken,
                     writer, skewed>>
  BY DEF TackleSchedule, engineVars
<1> HIDE DEF started
<1>2. /\ OwnerInv /\ WriterInv /\ FlowInv /\ MemberInv
  BY DEF PagesInv
<1>3. TypeInv' /\ PlaceInv' /\ LiveHandles'
  BY ScheduleHandled DEF IInv
<1>4. FcfsInv'
  BY <1>1, FcfsTurn DEF PagesInv
<1>5. ASSUME NEW q \in QueryIds(slot'.batch)
      PROVE  q \in Queries /\ status'[q] \in {"Prefill", "Decode"}
  <2>1. /\ active' \in SUBSET Queries /\ plan' \in [Queries -> Int]
        /\ requests \in Seq(Requests) /\ requests' = requests
    BY <1>1, <1>3 DEF TypeInv
  <2>2. \A r \in active' : status'[r] \in {"Prefill", "Decode"} => r \in DOMAIN requests
    BY <1>3, <2>1 DEF PlaceInv
  <2> DEFINE b == Generate(active', status', plan')
  <2>3. /\ \A r : Chunked(b, r) => r \in active' /\ status'[r] = "Prefill"
        /\ \A r \in b.decodes : r \in active' /\ status'[r] = "Decode"
    BY <2>1, <2>2, Generated
  <2>4. slot'.batch = b
    BY <1>1
  <2> HIDE DEF b
  <2>5. QED BY <2>1, <2>3, <2>4 DEF QueryIds, Chunked
<1>6. \A q, p : (Had(q, p)' <=> Had(q, p)) /\ (Owns(q, p)' <=> Owns(q, p))
  BY <1>1 DEF Had, Owns
<1>7. OwnerInv' /\ WriterInv'
  BY <1>1, <1>2, <1>6 DEF OwnerInv, WriterInv
<1>8. MemberInv'
  <2>1. \A q \in Queries : status'[q] \in Early => status[q] \in Early
    BY <1>1 DEF Early
  <2>2. QueryIds(running)' = QueryIds(running) /\ QueryIds(taken)' = QueryIds(taken)
        /\ QueryIds(slot.batch)' = QueryIds(slot'.batch)
    BY <1>1 DEF QueryIds
  <2>3. QED BY <1>2, <1>5, <2>1, <2>2 DEF MemberInv, Early
<1>9. FlowInv'
  <2> SUFFICES ASSUME NEW p \in Pages
               PROVE  Flows(p, writer[p], QueryIds(running), QueryIds(taken), QueryIds(slot.batch))'
    BY DEF FlowInv
  <2>0. PICK new : new = QueryIds(slot'.batch)
    OBVIOUS
  <2> DEFINE W == writer[p]
             R == QueryIds(running)
             T == QueryIds(taken)
  <2>1. /\ QueryIds(running)' = R /\ QueryIds(taken)' = T
        /\ QueryIds(slot.batch)' = new /\ writer'[p] = W /\ skewed' = skewed
    BY <1>1, <2>0 DEF QueryIds
  <2>2. Flows(p, W, R, T, QueryIds(slot.batch))
    BY <1>2 DEF FlowInv
  <2>3. ASSUME NEW X, NEW Y, Ordered(p, X, Y)
        PROVE  Ordered(p, X, Y)'
    BY <1>6, <2>1, <2>3 DEF Ordered
  <2>4. ASSUME NEW r \in new, r \notin skewed', Had(r, p)'
        PROVE  r \in Queries /\ Owns(r, p)
    <3>1. r \in Queries /\ status'[r] \in {"Prefill", "Decode"}
      BY <1>5, <2>0, <2>4
    <3>2. handle'[r] # << >>
      BY <1>3, <2>4, <3>1 DEF LiveHandles
    <3>3. handle[r] = blocks[r]
      BY <1>1, <1>2, <3>1, <3>2 DEF OwnerInv
    <3>4. Had(r, p)
      BY <1>6, <2>4
    <3>5. QED BY <3>1, <3>3, <3>4 DEF Had, Owns
  <2>5. ASSUME NEW X \in SUBSET Queries
        PROVE  Ordered(p, X, new)'
    <3>1. \A q \in X \ skewed', r \in new \ skewed' : Had(q, p)' /\ Had(r, p)' => q <= r
      BY <1>2, <1>6, <2>4 DEF OwnerInv
    <3>2. QED BY <3>1 DEF Ordered
  <2>6. /\ W \in SUBSET Queries /\ R \in SUBSET Queries /\ T \in SUBSET Queries
        /\ new \in SUBSET Queries
    BY <1>2, <1>5, <2>0 DEF WriterInv, MemberInv
  <2> HIDE DEF W, R, T
  <2>7. QED BY <2>1, <2>2, <2>3, <2>5, <2>6 DEF Flows
<1>10. QED BY <1>4, <1>7, <1>8, <1>9 DEF PagesInv

LEMMA TakePages == IInv /\ PagesInv /\ TakeBatch => PagesInv'
<1> SUFFICES ASSUME IInv, PagesInv, TakeBatch PROVE PagesInv'
  OBVIOUS
<1>1. /\ taken' = slot.batch /\ slot'.batch = slot.batch
      /\ UNCHANGED <<requests, events, status, handle, blocks, waitQueue, waitDone, preparing,
                     running, writer, skewed>>
  <2>1. /\ slot' = [slot EXCEPT !.isNew = FALSE] /\ taken' = slot.batch
        /\ UNCHANGED <<requests, events, loopVars, running, writer, skewed>>
    BY DEF TakeBatch
  <2>2. slot \in [batch : Batch, isNew : BOOLEAN]
    BY DEF IInv, TypeInv
  <2>3. QED BY <2>1, <2>2 DEF loopVars
<1>2. FcfsInv /\ OwnerInv /\ WriterInv /\ FlowInv /\ MemberInv
  BY DEF PagesInv
<1>3. FcfsInv'
  <2>1. AddsInOrder'
    BY <1>1, <1>2 DEF FcfsInv, AddsInOrder
  <2>2. \A q \in Queries : /\ Comes("AddQuery", q)' => Comes("AddQuery", q)
                           /\ Trying(q)' => Trying(q)
                           /\ Prepares(q)' => Prepares(q)
    BY <1>1 DEF Comes, Trying, Prepares
  <2>3. QED BY <1>1, <1>2, <2>1, <2>2, FcfsKept
<1>4. \A q, p : (Had(q, p)' <=> Had(q, p)) /\ (Owns(q, p)' <=> Owns(q, p))
  BY <1>1 DEF Had, Owns
<1>5. OwnerInv' /\ WriterInv'
  BY <1>1, <1>2, <1>4 DEF OwnerInv, WriterInv
<1>6. /\ QueryIds(running)' = QueryIds(running) /\ QueryIds(taken)' = QueryIds(slot.batch)
      /\ QueryIds(slot.batch)' = QueryIds(slot.batch)
  BY <1>1 DEF QueryIds
<1>7. MemberInv'
  BY <1>1, <1>2, <1>6 DEF MemberInv
<1>8. FlowInv'
  <2> SUFFICES ASSUME NEW p \in Pages
               PROVE  Flows(p, writer[p], QueryIds(running), QueryIds(taken), QueryIds(slot.batch))'
    BY DEF FlowInv
  <2>1. Flows(p, writer[p], QueryIds(running), QueryIds(taken), QueryIds(slot.batch))
    BY <1>2 DEF FlowInv
  <2>2. ASSUME NEW X, NEW Y, Ordered(p, X, Y)
        PROVE  Ordered(p, X, Y)'
    BY <1>1, <1>4, <2>2 DEF Ordered
  <2>3. writer'[p] = writer[p]
    BY <1>1
  <2>4. QED BY <1>6, <2>1, <2>2, <2>3 DEF Flows
<1>9. QED BY <1>3, <1>5, <1>7, <1>8 DEF PagesInv

(* The running batch writes to pages its queries were given. *)
LEMMA WritesOwn ==
  ASSUME NEW q, NEW p, p \in PagesWritten(q)
  PROVE  Had(q, p)
BY DEF PagesWritten, Had

LEMMA SendPages == IInv /\ PagesInv /\ SendUpdates => PagesInv'
<1> SUFFICES ASSUME IInv, PagesInv, SendUpdates PROVE PagesInv'
  OBVIOUS
<1> DEFINE by(p) == {q \in QueryIds(running) : p \in PagesWritten(q)}
<1>1. /\ running' = taken /\ taken' = taken /\ slot' = slot
      /\ skewed \subseteq skewed'
      /\ writer' = [p \in Pages |-> IF by(p) = {} THEN writer[p] ELSE by(p)]
      /\ UNCHANGED <<requests, status, handle, blocks, waitQueue, waitDone, preparing>>
  BY DEF SendUpdates, loopVars
<1>2. FcfsInv /\ OwnerInv /\ WriterInv /\ FlowInv /\ MemberInv
  BY DEF PagesInv
<1>3. FcfsInv'
  <2>1. PICK stopped \in SUBSET running.decodes :
           events' = Append(events, [kind |-> "Update", updates |->
              {[id |-> q, position |-> Moved(q), done |-> q \in stopped] : q \in QueryIds(running)}])
    BY DEF SendUpdates
  <2> DEFINE us == {[id |-> q, position |-> Moved(q), done |-> q \in stopped] : q \in QueryIds(running)}
             e == [kind |-> "Update", updates |-> us]
  <2>2. us \in SUBSET Update
    <3>1. ASSUME NEW q \in QueryIds(running)
          PROVE  [id |-> q, position |-> Moved(q), done |-> q \in stopped] \in Update
      <4>1. q \in Queries
        BY <1>2 DEF MemberInv
      <4>2. Moved(q) \in Int /\ (q \in stopped) \in BOOLEAN
        BY <4>1, MovedBy DEF IInv
      <4>3. QED BY <4>1, <4>2 DEF Update
    <3>2. QED BY <3>1
  <2> HIDE DEF us
  <2>3. e \in Events /\ ~ Queued(e)
    BY <2>2 DEF Events, Queued
  <2>4. events' = Append(events, e)
    BY <2>1 DEF us
  <2> HIDE DEF e
  <2>5. QED BY <1>1, <1>2, <2>3, <2>4, FcfsAppend
<1>4. \A q, p : (Had(q, p)' <=> Had(q, p)) /\ (Owns(q, p)' <=> Owns(q, p))
  BY <1>1 DEF Had, Owns
<1>5. OwnerInv'
  BY <1>1, <1>2, <1>4 DEF OwnerInv
<1>6. ASSUME NEW p \in Pages
      PROVE  /\ writer'[p] = writer[p] \/ writer'[p] \subseteq QueryIds(running)
             /\ \A q \in by(p) : q \in Queries /\ Had(q, p)
  BY <1>1, <1>2, WritesOwn DEF MemberInv
<1>7. WriterInv'
  <2>1. ASSUME NEW p \in Pages, NEW q \in writer'[p]
        PROVE  q \in Queries /\ Had(q, p)
    BY <1>1, <1>2, <1>6, <2>1 DEF WriterInv
  <2>2. DOMAIN writer' = Pages
    BY <1>1
  <2>3. QED BY <1>4, <2>1, <2>2 DEF WriterInv
<1>8. /\ QueryIds(running)' = QueryIds(taken) /\ QueryIds(taken)' = QueryIds(taken)
      /\ QueryIds(slot.batch)' = QueryIds(slot.batch)
  BY <1>1 DEF QueryIds
<1>9. MemberInv'
  BY <1>1, <1>2, <1>8 DEF MemberInv
<1>10. FlowInv'
  <2> SUFFICES ASSUME NEW p \in Pages
               PROVE  Flows(p, writer[p], QueryIds(running), QueryIds(taken), QueryIds(slot.batch))'
    BY DEF FlowInv
  <2>1. Flows(p, writer[p], QueryIds(running), QueryIds(taken), QueryIds(slot.batch))
    BY <1>2 DEF FlowInv
  <2>2. ASSUME NEW X, NEW Y, Ordered(p, X, Y)
        PROVE  Ordered(p, X, Y)'
    BY <1>1, <1>4, <2>2 DEF Ordered
  <2>3. /\ Ordered(p, writer'[p], writer'[p]) /\ Ordered(p, writer'[p], QueryIds(taken))
        /\ Ordered(p, writer'[p], QueryIds(slot.batch))
    <3>1. CASE writer'[p] = writer[p]
      BY <2>1, <3>1 DEF Flows
    <3>2. CASE writer'[p] \subseteq QueryIds(running)
      <4>1. /\ Ordered(p, QueryIds(running), QueryIds(running))
            /\ Ordered(p, QueryIds(running), QueryIds(taken))
            /\ Ordered(p, QueryIds(running), QueryIds(slot.batch))
        BY <2>1 DEF Flows
      <4>2. QED BY <3>2, <4>1 DEF Ordered
    <3>3. QED BY <1>6, <3>1, <3>2
  <2>4. QED BY <1>8, <2>1, <2>2, <2>3 DEF Flows
<1>11. QED BY <1>3, <1>5, <1>7, <1>9, <1>10 DEF PagesInv

LEMMA PagesInit == Init => PagesInv
<1> SUFFICES ASSUME Init PROVE PagesInv
  OBVIOUS
<1>1. /\ events = << >> /\ waitQueue = << >> /\ waitDone = 0
      /\ handle = [q \in Queries |-> << >>] /\ blocks = [q \in Queries |-> << >>]
      /\ running = NoBatch /\ taken = NoBatch /\ slot.batch = NoBatch
      /\ writer = [p \in Pages |-> {}]
  BY DEF Init
<1>2. DOMAIN << >> = {} /\ QueryIds(NoBatch) = {}
  BY DEF QueryIds, NoBatch
<1>3. FcfsInv
  <2>1. \A q \in Queries : /\ ~ Adding(q) /\ ~ In(waitQueue, q) /\ ~ Prepares(q)
                           /\ ~ Trying(q) /\ ~ Later(q) /\ ~ Got(q)
    BY <1>1, <1>2 DEF Adding, In, Prepares, Trying, Later, Comes, Got, Queries
  <2>2. QED BY <1>1, <1>2, <2>1 DEF FcfsInv
<1>4. OwnerInv /\ WriterInv /\ MemberInv
  BY <1>1, <1>2 DEF OwnerInv, WriterInv, MemberInv, Had, Owns
<1>5. FlowInv
  BY <1>1, <1>2 DEF FlowInv, Flows, Ordered
<1>6. QED BY <1>3, <1>4, <1>5 DEF PagesInv

LEMMA PagesNext == IInv /\ PagesInv /\ [Next]_vars => PagesInv'
<1> SUFFICES ASSUME IInv, PagesInv, [Next]_vars PROVE PagesInv'
  OBVIOUS
<1>1. CASE AddQuery
  BY <1>1, QuietPages
<1>2. CASE EventLoop
  BY <1>2, QuietPages, PreparePages, QueryStatusPages, UpdatePages, TakenPages, SchedulePages
     DEF EventLoop, PagesInv
<1>3. CASE Engine
  BY <1>3, QuietPages, SendPages, TakePages DEF Engine
<1>4. CASE UNCHANGED vars
  <2>1. /\ UNCHANGED <<slot, running, taken, writer, skewed, blocks, handle, status>>
        /\ UNCHANGED <<requests, events, waitQueue, waitDone, preparing>>
    BY <1>4 DEF vars, loopVars, engineVars
  <2>2. AddsInOrder'
    BY <2>1 DEF PagesInv, FcfsInv, AddsInOrder
  <2>3. \A q \in Queries : /\ Comes("AddQuery", q)' => Comes("AddQuery", q)
                           /\ Trying(q)' => Trying(q)
                           /\ Prepares(q)' => Prepares(q)
    BY <2>1 DEF Comes, Trying, Prepares
  <2>4. FcfsInv'
    BY <2>1, <2>2, <2>3, FcfsKept DEF PagesInv
  <2>5. OwnerInv' /\ WriterInv' /\ FlowInv' /\ MemberInv'
    BY <2>1, PagesKept DEF IInv
  <2>6. QED BY <2>4, <2>5 DEF PagesInv
<1>5. QED BY <1>1, <1>2, <1>3, <1>4 DEF Next

(* The pages of a query that is done are written for the next owner only   *)
(* after all batches that still hold the query, although the event loop    *)
(* gives them back at once (absorb_update, gpu_only_alloc_col).            *)
THEOREM PageHandoverSafe == Spec => PageHandover
<1>1. IInv /\ PagesInv /\ [Next]_vars =>
        [\A p \in Pages :
           /\ Cardinality(writer'[p] \ skewed') <= 1
           /\ \A q \in writer[p] \ skewed', r \in writer'[p] \ skewed' : q <= r]_writer
  <2> SUFFICES ASSUME IInv, PagesInv, [Next]_vars, writer' # writer, NEW p \in Pages
               PROVE  /\ Cardinality(writer'[p] \ skewed') <= 1
                      /\ \A q \in writer[p] \ skewed', r \in writer'[p] \ skewed' : q <= r
    OBVIOUS
  <2>1. SendUpdates
    BY DEF Next, AddQuery, EventLoop, EnqueueSchedule, TackleAddQuery, TacklePrepare,
       TacklePrepared, TackleQueryStatus, TackleUpdate, TackleTaken, TackleSchedule, Engine,
       TakeBatch, AnnounceBatch, vars, engineVars
  <2> DEFINE by == {q \in QueryIds(running) : p \in PagesWritten(q)}
  <2>2. /\ writer'[p] = IF by = {} THEN writer[p] ELSE by
        /\ skewed \subseteq skewed'
    BY <2>1 DEF SendUpdates
  <2>3. /\ Flows(p, writer[p], QueryIds(running), QueryIds(taken), QueryIds(slot.batch))
        /\ \A q \in writer[p] : q \in Queries /\ Had(q, p)
        /\ \A q \in by : q \in Queries /\ q \in QueryIds(running) /\ Had(q, p)
    BY WritesOwn DEF PagesInv, FlowInv, WriterInv, MemberInv
  <2>4. \A q \in writer[p] \ skewed, r \in (writer[p] \cup by) \ skewed : q <= r
    BY <2>3 DEF Flows, Ordered
  <2>5. \A q, r \in by \ skewed : q <= r
    BY <2>3 DEF Flows, Ordered
  <2>6. \A q, r \in writer'[p] \ skewed' : q = r
    <3>1. \A q, r \in writer'[p] \ skewed' : q <= r /\ q \in Queries
      BY <2>2, <2>3, <2>4, <2>5
    <3>2. QED BY <3>1 DEF Queries
  <2>7. Cardinality(writer'[p] \ skewed') <= 1
    <3> DEFINE S == writer'[p] \ skewed'
    <3>1. S = {} \/ \E q : S = {q}
      BY <2>6
    <3> HIDE DEF S
    <3>2. Cardinality(S) \in {0, 1}
      BY <3>1, FS_EmptySet, FS_Singleton
    <3>3. QED BY <3>2 DEF S
  <2>8. QED BY <2>2, <2>4, <2>7
<1>2. Spec => []PagesInv
  BY Invariance, PagesInit, PagesNext, PTL DEF Spec
<1>3. QED BY <1>1, <1>2, Invariance, PTL DEF Spec, PageHandover
=============================================================================
