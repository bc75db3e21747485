------------------------------ MODULE Scheduler ------------------------------
(***************************************************************************)
(* The serving scheduler of archive/csrc/balance_serve and the inference   *)
(* engine it feeds.                                                        *)
(*                                                                         *)
(* One event-loop thread owns the queries (QueryMaintainer::run): it takes *)
(* events in FIFO order, one handler per kind, and ends with an            *)
(* EventSchedule whenever the queue has run empty.  A Schedule event       *)
(* publishes the next batch in one atomic slot.  The engine's loop is      *)
(* pipelined: while batch k runs on the GPU it hands in the results of     *)
(* batch k-1 and takes batch k+1, so the scheduler plans one batch ahead   *)
(* of what it knows, and a query that is found to be done may still be in  *)
(* the batches that were published before.  KV-cache pages are allocated   *)
(* when a query is prepared (gpu_only) and freed when it is done; an       *)
(* allocation that fails waits for the next query to finish.               *)
(*                                                                         *)
(* Queries are numbered in the order of their AddQuery events, as          *)
(* query_id_counter does.  Tokens are not modelled: whether a decode hits  *)
(* a stop criterion is chosen freely.                                      *)
(***************************************************************************)
EXTENDS Naturals, Sequences, FiniteSets

CONSTANTS
  NumQueries,   \* queries the web server adds
  Requests,     \* what it may ask for: [prompt |-> n, estimated |-> n]
  Chunk,        \* recommended_chunk_prefill_token_count
  MaxBatch,     \* max_batch_size
  PageSize,     \* tokens of a KV-cache page
  TotalPages    \* total_kvcache_pages

Queries == 1 .. NumQueries
Pages == 1 .. TotalPages

\* div_up(estimated_length, NumTokenPerBlock)
PagesNeeded(r) == (r.estimated + PageSize - 1) \div PageSize

\* What the web server may ask for: a prompt, room for at least two tokens (a
\* query that is done with its prefill can be revived by a batch taken late,
\* see the README), and a query that fits into the empty cache (a larger one
\* would wait for ever, and everyone behind it).  A max_batch_size of 2 fails
\* gen_batch_query_todo's assertion as soon as two queries decode.
ASSUME SchedulerAssumption ==
  /\ NumQueries \in Nat /\ Chunk \in Nat \ {0} /\ PageSize \in Nat \ {0}
  /\ MaxBatch \in Nat /\ MaxBatch >= 3 /\ TotalPages \in Nat
  /\ \A r \in Requests : /\ r.prompt \in Nat \ {0}
                         /\ r.estimated \in Nat /\ r.estimated >= r.prompt + 2
                         /\ PagesNeeded(r) <= TotalPages

VARIABLES
  requests,   \* queries the web server has asked for, in order
  events,     \* event_loop_queue
  loop,       \* "dequeue", or "enqueue" a Schedule event after an empty queue
  status,     \* plan_status of each query
  plan,       \* plan_position of each query
  handle,     \* pages the query's kvc2_handle owns; << >> for nullptr
  waitQueue,  \* FCFS::queue
  readyQueue, \* FCFS::ready_queue
  preparing,  \* has_query_preparing
  waitDone,   \* wait_done_prepare: a query, or 0
  active,     \* active_query
  slot,       \* next_batch: [batch, isNew]
  engine,     \* where Engine.loop is
  running,    \* self.batch
  taken,      \* next_batch of the engine's loop
  position,   \* active_position of the engine's QueryInfo; 0 before it
  blocks,     \* block_index given out with a query
  writer,     \* history: the queries whose batch last wrote each page
  skewed      \* history: queries given a prefill chunk that is not their next

loopVars == <<loop, status, plan, handle, waitQueue, readyQueue, preparing,
              waitDone, active, blocks>>
engineVars == <<engine, running, taken, position, writer, skewed>>
vars == <<requests, events, slot, loopVars, engineVars>>

NoBatch == [prefills |-> {}, decodes |-> {}]
ChunkOf(b, q) == {t \in b.prefills : t.id = q}
QueryIds(b) == {t.id : t \in b.prefills} \union b.decodes

Init ==
  /\ requests = << >> /\ events = << >> /\ loop = "dequeue"
  /\ status = [q \in Queries |-> "None"]
  /\ plan = [q \in Queries |-> 0]
  /\ handle = [q \in Queries |-> << >>]
  /\ blocks = [q \in Queries |-> << >>]
  /\ waitQueue = << >> /\ readyQueue = << >>
  /\ preparing = FALSE /\ waitDone = 0 /\ active = {}
  /\ slot = [batch |-> NoBatch, isNew |-> FALSE]
  /\ engine = "run" /\ running = NoBatch /\ taken = NoBatch
  /\ position = [q \in Queries |-> 0]
  /\ writer = [p \in Pages |-> {}]
  /\ skewed = {}

-----------------------------------------------------------------------------
\* Events.
Event(kind) == [kind |-> kind]
QueryEvent(kind, q) == [kind |-> kind, q |-> q]
PrepareEvent(q, first) == [kind |-> "Prepare", q |-> q, firstTry |-> first]

\* One turn of the event loop: take an event of this kind, run its handler,
\* which enqueues `more', and look whether the queue is empty.
Tackle(kind, more) ==
  /\ loop = "dequeue" /\ events # << >> /\ Head(events).kind = kind
  /\ events' = Tail(events) \o more
  /\ loop' = IF events' = << >> /\ kind # "Schedule" THEN "enqueue" ELSE "dequeue"

\* The check of the queue's size and the Schedule event it leads to are two
\* steps: a producer may slip in between.
EnqueueSchedule ==
  /\ loop = "enqueue"
  /\ events' = Append(events, Event("Schedule"))
  /\ loop' = "dequeue"
  /\ UNCHANGED <<requests, status, plan, handle, waitQueue, readyQueue, preparing,
                 waitDone, active, blocks, slot, engineVars>>

-----------------------------------------------------------------------------
\* The web server.
AddQuery ==
  /\ Len(requests) < NumQueries
  /\ \E r \in Requests : requests' = Append(requests, r)
  /\ events' = Append(events, QueryEvent("AddQuery", Len(requests')))
  /\ UNCHANGED <<slot, loopVars, engineVars>>

-----------------------------------------------------------------------------
\* The event loop's handlers.

TackleAddQuery ==
  /\ events # << >>
  /\ LET all == Append(waitQueue, Head(events).q) IN
       /\ Tackle("AddQuery", IF preparing THEN << >> ELSE <<PrepareEvent(Head(all), TRUE)>>)
       /\ waitQueue' = IF preparing THEN all ELSE Tail(all)
       /\ status' = [status EXCEPT ![Head(events).q] = "Received"]
  /\ preparing' = TRUE
  /\ UNCHANGED <<requests, plan, handle, readyQueue, waitDone, active, blocks, slot, engineVars>>

PagesOf(qs) == UNION {{handle[q][i] : i \in DOMAIN handle[q]} : q \in qs}

\* Only the queries the batches work on count, not those that are ready.
OccupiedActive == PagesOf(active)

Occupied == PagesOf(Queries)

\* gpu_only_alloc_col: the first free pages, in order; << >> when too few.
Alloc(count) ==
  LET free == Pages \ Occupied
      Rank(p) == Cardinality({x \in free : x <= p})
  IN  IF Cardinality(free) < count THEN << >>
      ELSE [i \in 1 .. count |-> CHOOSE p \in free : Rank(p) = i]

\* after_load: what the callback of the lookup enqueues.
AfterLoad(q, pages) == IF pages # << >> THEN QueryEvent("Prepared", q)
                       ELSE PrepareEvent(q, FALSE)

\* to_status(Preparing) runs lookup_to_gpu_async and its callback in place:
\* the callback sets Ready, and the assignment after the switch sets Preparing.
\* A try that fails comes back with first_try false and waits for a query to
\* be done.
TacklePrepare ==
  /\ events # << >> /\ Head(events).kind = "Prepare"
  /\ LET q == Head(events).q
         pages == Alloc(PagesNeeded(requests[q]))
     IN  IF Head(events).firstTry
         THEN /\ Tackle("Prepare", <<AfterLoad(q, pages)>>)
              /\ status' = [status EXCEPT ![q] = "Preparing"]
              /\ handle' = [handle EXCEPT ![q] = pages]
              /\ blocks' = [blocks EXCEPT ![q] = pages]
              /\ UNCHANGED waitDone
         ELSE /\ Tackle("Prepare", << >>)
              /\ waitDone' = q
              /\ UNCHANGED <<status, handle, blocks>>
  /\ UNCHANGED <<requests, plan, waitQueue, readyQueue, preparing, active, slot, engineVars>>

\* Is there a next query to prepare, so that has_query_preparing stays true?
MorePreparing == waitQueue # << >>

TacklePrepared ==
  /\ Tackle("Prepared", IF waitQueue = << >> THEN << >>
                        ELSE <<PrepareEvent(Head(waitQueue), TRUE)>>)
  /\ readyQueue' = Append(readyQueue, Head(events).q)
  /\ waitQueue' = IF waitQueue = << >> THEN << >> ELSE Tail(waitQueue)
  /\ preparing' = MorePreparing
  /\ UNCHANGED <<requests, status, plan, handle, waitDone, active, blocks, slot, engineVars>>

\* wait_done_prepare keeps the event of the failed try as it came.
RetryAsFailed == PrepareEvent(waitDone, FALSE)

\* The preparation that waits for pages, as a first try again.
Retry == PrepareEvent(waitDone, TRUE)

\* A query became done: the preparation that waits for pages is tried again.
TackleQueryStatus ==
  /\ Tackle("QueryStatus", IF waitDone = 0 THEN << >> ELSE <<Retry>>)
  /\ waitDone' = 0
  /\ UNCHANGED <<requests, status, plan, handle, waitQueue, readyQueue, preparing, active,
                 blocks, slot, engineVars>>

\* absorb_update: an update of a query that is not Prefill or Decode is ignored.
Finished(us) == {u.id : u \in {v \in us : /\ status[v.id] \in {"Prefill", "Decode"}
                                          /\ \/ v.done
                                             \/ v.position = requests[v.id].estimated - 1}}

\* A query that is done gives its pages back at once and leaves active_query.
TackleUpdate ==
  /\ events # << >> /\ Head(events).kind = "Update"
  /\ LET done == Finished(Head(events).updates) IN
       /\ Tackle("Update", [i \in 1 .. Cardinality(done) |-> Event("QueryStatus")])
       /\ status' = [q \in Queries |-> IF q \in done THEN "Done" ELSE status[q]]
       /\ handle' = [q \in Queries |-> IF q \in done THEN << >> ELSE handle[q]]
       /\ active' = active \ {u.id : u \in {v \in Head(events).updates : status'[v.id] = "Done"}}
  /\ UNCHANGED <<requests, plan, waitQueue, readyQueue, preparing, waitDone, blocks, slot, engineVars>>

\* absorb_decode_task sets the status as well.
EntersDecodeAgain(b, q, pos) == q \in QueryIds(b) /\ pos >= requests[q].prompt

\* absorb_prefill_task: the last chunk of the prompt has been handed out.
EntersDecode(b, q, pos) == ChunkOf(b, q) # {} /\ pos = requests[q].prompt

\* The plan moves on by what the engine has taken: absorb_prefill_task and
\* absorb_decode_task, whatever the query's status is by then.
TackleTaken ==
  /\ events # << >> /\ Head(events).kind = "TakenBatch"
  /\ Tackle("TakenBatch", << >>)
  /\ LET b == Head(events).batch
         Ends(q) == {t.start + t.length : t \in ChunkOf(b, q)}
         After(q) == IF Ends(q) # {} THEN CHOOSE n \in Ends(q) : TRUE
                     ELSE IF q \in b.decodes THEN plan[q] + 1 ELSE plan[q]
     IN  /\ plan' = [q \in Queries |-> After(q)]
         /\ status' = [q \in Queries |->
                         IF EntersDecode(b, q, After(q)) THEN "Decode" ELSE status[q]]
         /\ active' = active \union {q \in QueryIds(b) : status'[q] # "Done"}
  /\ UNCHANGED <<requests, handle, waitQueue, readyQueue, preparing, waitDone, blocks, slot,
                 engineVars>>

\* FCFS::strategy_schedule: ready queries become active, at most two in prefill.
Smallest(S) == CHOOSE x \in S : \A y \in S : x <= y

Activated ==
  LET prefilling == Cardinality({q \in active : status[q] = "Prefill"})
  IN  IF prefilling >= 2 \/ Cardinality(active) >= MaxBatch THEN 0
      ELSE Smallest({2 - prefilling, Len(readyQueue), MaxBatch - Cardinality(active)})

\* gen_batch_query_todo: one prefill chunk per query in prefill, one decode
\* step per query in decode; a lone prefill gets a double chunk.
Generate(queries, st, pl) ==
  LET prefilling == {q \in queries : st[q] = "Prefill"}
      decoding   == {q \in queries : st[q] = "Decode"}
      long == \/ prefilling = {}
              \/ Cardinality(prefilling) = 1 /\ MaxBatch - 2 >= Cardinality(decoding)
      length == IF long THEN 2 * Chunk ELSE Chunk
      Task(q) == [id |-> q, start |-> pl[q],
                  length |-> Smallest({length, requests[q].prompt - pl[q]})]
  IN  [prefills |-> {Task(q) : q \in prefilling}, decodes |-> decoding]

\* A batch that nobody took is dropped: the new one replaces it.
TackleSchedule ==
  LET started == {readyQueue[i] : i \in 1 .. Activated} IN
    /\ Tackle("Schedule", << >>)
    /\ readyQueue' = SubSeq(readyQueue, Activated + 1, Len(readyQueue))
    /\ active' = active \union started
    /\ status' = [q \in Queries |-> IF q \in started THEN "Prefill" ELSE status[q]]
    /\ plan' = [q \in Queries |-> IF q \in started THEN 0 ELSE plan[q]]
    /\ slot' = [batch |-> Generate(active', status', plan'), isNew |-> TRUE]
    /\ UNCHANGED <<requests, handle, waitQueue, preparing, waitDone, blocks, engineVars>>

EventLoop ==
  \/ EnqueueSchedule \/ TackleAddQuery \/ TacklePrepare \/ TacklePrepared
  \/ TackleQueryStatus \/ TackleUpdate \/ TackleTaken \/ TackleSchedule

-----------------------------------------------------------------------------
\* The engine's loop, which calls update_last_batch over RPC.

\* The margin is one batch too small.
MustStopLate(q, pos) == pos + 2 >= requests[q].estimated

\* check_stop, apart from the tokens: close to the estimated length.
MustStop(q, pos) == pos + 3 >= requests[q].estimated

\* Where the running batch writes the KV cache of q: a prefill at the task's
\* positions, a decode at the engine's own.
Positions(q) ==
  UNION {t.start .. t.start + t.length - 1 : t \in ChunkOf(running, q)}
    \union (IF q \in running.decodes THEN {position[q]} ELSE {})

PagesWritten(q) == {blocks[q][i] : i \in {p \div PageSize + 1 : p \in Positions(q)}
                                          \intersect DOMAIN blocks[q]}

\* active_position after the running batch.
Moved(q) ==
  LET lengths == {t.length : t \in ChunkOf(running, q)} \union
                 (IF q \in running.decodes THEN {1} ELSE {})
  IN  IF lengths = {} THEN position[q] ELSE position[q] + (CHOOSE n \in lengths : TRUE)

\* The running batch ends, QueryManager.update moves the engine's positions on,
\* the batch taken last is launched, and update_last_batch is called: it hands
\* in the results of the batch that ended ...
SendUpdates ==
  /\ engine = "run"
  /\ \E stopped \in SUBSET running.decodes :
       /\ {q \in running.decodes : MustStop(q, Moved(q))} \subseteq stopped
       /\ events' = Append(events, [kind |-> "Update", updates |->
            {[id |-> q, position |-> Moved(q), done |-> q \in stopped] : q \in QueryIds(running)}])
  /\ position' = [q \in Queries |-> Moved(q)]
  /\ writer' = [p \in Pages |->
                  LET by == {q \in QueryIds(running) : p \in PagesWritten(q)}
                  IN  IF by = {} THEN writer[p] ELSE by]
  /\ skewed' = skewed \union {t.id : t \in {u \in running.prefills : u.start # position[u.id]}}
  /\ running' = taken
  /\ engine' = "poll"
  /\ UNCHANGED <<requests, slot, loopVars, taken>>

\* ... spins until the slot holds a batch nobody has taken ...
TakeBatch ==
  /\ engine = "poll" /\ slot.isNew
  /\ slot' = [slot EXCEPT !.isNew = FALSE]
  /\ taken' = slot.batch
  /\ engine' = "announce"
  /\ UNCHANGED <<requests, events, loopVars, running, position, writer, skewed>>

\* ... and tells the event loop which one it was.
AnnounceBatch ==
  /\ engine = "announce"
  /\ events' = Append(events, [kind |-> "TakenBatch", batch |-> taken])
  /\ engine' = "run"
  /\ UNCHANGED <<requests, slot, loopVars, running, taken, position, writer, skewed>>

Engine == SendUpdates \/ TakeBatch \/ AnnounceBatch

Next == AddQuery \/ EventLoop \/ Engine

Spec == Init /\ [][Next]_vars
FairSpec == Spec /\ WF_vars(EventLoop) /\ WF_vars(Engine)

-----------------------------------------------------------------------------
\* A query in prefill or decode owns pages: absorb_update calls its kvc2_handle,
\* and no batch may name pages that went back to the pool, however late updates
\* and taken batches arrive after the query was found to be done.  Not promised
\* to a query that was handed a prefill chunk twice: its tokens are counted
\* twice, so that it may be done before its prefill is, which the batch that is
\* announced next takes for the end of the prefill.
LiveHandles ==
  \A q \in Queries \ skewed : status[q] \in {"Prefill", "Decode"} => handle[q] # << >>

\* The batches that still hold a query when it is found to be done (at most
\* three: the running one, the taken one and the published one) do not decode
\* at or past the estimated length, for which alone pages were allocated: the
\* margin of check_stop covers the pipeline.  Not promised to a query that was
\* handed a prefill chunk twice, nor to one that may generate fewer than four
\* tokens.
WithinEstimate ==
  \A q \in running.decodes \ skewed :
    requests[q].estimated >= requests[q].prompt + 4 => position[q] < requests[q].estimated

\* Pages are handed from query to query without overlap: a batch writes a page
\* for one query only, and once it has, no batch writes the page for an earlier
\* query any more, although a query's pages are free again while batches that
\* hold the query are still to run.  Not promised where a query was handed a
\* prefill chunk twice: the batch announced after it is done may set it back to
\* decode, and it is then planned again, with the pages it no longer owns.
PageHandover ==
  [][\A p \in Pages :
       /\ Cardinality(writer'[p] \ skewed') <= 1
       /\ \A q \in writer[p] \ skewed', r \in writer'[p] \ skewed' : q <= r]_writer

\* Every query is served: the event loop publishes a batch whenever the engine
\* waits for one, and a preparation without pages is retried when they are back.
Served == \A q \in Queries : Len(requests) >= q ~> status[q] = "Done"
=============================================================================
