----------------------------- MODULE BulkDemux ------------------------------
(***************************************************************************)
(* One `_bulk` request, crates/osproxy-engine (bulk.rs, bulkprep.rs,         *)
(* retry.rs): each item's placement is resolved once per partition and       *)
(* logical index and cached for the request, items are buffered per target,  *)
(* a full buffer is flushed before the next item is read, the rest are       *)
(* flushed concurrently, and outcomes go back to their items' ordinals.      *)
(*                                                                           *)
(* The placement table changes under the request's feet: every await is a    *)
(* place where a migration step may come.                                    *)
(***************************************************************************)
EXTENDS Naturals, Sequences, SequencesExt, FiniteSets, FiniteSetsExt

CONSTANTS
  Keys,            \* (partition, logical index) pairs items may belong to: ResolutionCache's key
  Targets,         \* physical targets: cluster and index
  None,            \* no placement, no cached resolution
  Unresolved,      \* an item that cannot be resolved or built, or not honored async
  Malformed,       \* a line that does not parse (met only while streaming)
  FlushThreshold,  \* FLUSH_THRESHOLD
  MaxDispatch,     \* MAX_DISPATCH_CONCURRENCY
  MaxAttempts,     \* RetryPolicy::max_attempts
  MaxItems,        \* bound: items in the body
  MaxMoves         \* bound: placement changes during the request

ASSUME BulkAssumption ==
  /\ FlushThreshold \in Nat \ {0} /\ MaxDispatch \in Nat \ {0} /\ MaxAttempts \in Nat
  /\ MaxItems \in Nat /\ MaxMoves \in Nat

VARIABLES
  body,     \* the items: their key, or Unresolved, or Malformed
  task,     \* the request's own task: which demux it runs, its phase, the item it is
            \* at, the retries of that item's placement read
  lines,    \* ordinal -> the item's line in the response
  cache,    \* key -> the resolution cached for this request
  buffers,  \* target -> entries waiting to be flushed, ordinals in order
  flights,  \* target -> the sub-batch being gated and written
  table,    \* key -> where its partition is placed, its epoch, whether writes are open
  applied,  \* ordinals in the order the upstreams applied them
  queue     \* ordinals in the order the write queue took them

bulkVars == <<body, task, lines, cache, buffers, flights, table, applied, queue>>

\* ingest_bulk, ingest_bulk_streamed and ingest_bulk_async.
Modes == {"buffered", "streamed", "async"}

Ordinals == DOMAIN body

NoFlight == [state |-> "none", entries |-> <<>>, admitted |-> <<>>, rejected |-> <<>>,
             results |-> <<>>]

LineKinds == {"none", "ok", "rejected", "unresolved", "missing", "stale_epoch",
              "upstream_failed", "queued", "enqueue_failed"}

FlightStates == {"none", "gating", "sending", "acked", "error"}

BulkTypeOK ==
  /\ body \in Seq(Keys \cup {Unresolved, Malformed})
  /\ task \in [mode : Modes, phase : {"reading", "flushing", "final", "done", "failed"},
               at : 1 .. Len(body) + 1, attempt : 0 .. MaxAttempts]
  /\ lines \in [Ordinals -> LineKinds]
  /\ cache \in [Keys -> [target : Targets, epoch : Nat] \cup {None}]
  /\ buffers \in [Targets -> Seq(Ordinals)]
  /\ \A t \in Targets : Len(buffers[t]) < FlushThreshold
  /\ flights \in [Targets -> [state : FlightStates, entries : Seq(Ordinals),
                              admitted : Seq(Ordinals), rejected : Seq(Ordinals),
                              results : Seq({"ok", "rejected"})]]
  /\ table \in [Keys -> [target : Targets \cup {None}, epoch : Nat, open : BOOLEAN]]
  /\ applied \in Seq(Ordinals) /\ queue \in Seq(Ordinals)

BulkInit ==
  /\ \E mode \in Modes, n \in 0 .. MaxItems :
       /\ task = [mode |-> mode, phase |-> "reading", at |-> 1, attempt |-> 0]
       /\ body \in [1 .. n -> Keys \cup {Unresolved}
                                  \cup (IF mode = "streamed" THEN {Malformed} ELSE {})]
  /\ lines = [k \in Ordinals |-> "none"]
  /\ cache = [p \in Keys |-> None]
  /\ buffers = [t \in Targets |-> <<>>]
  /\ flights = [t \in Targets |-> NoFlight]
  /\ table \in [Keys -> [target : Targets \cup {None}, epoch : {0}, open : {TRUE}]]
  /\ applied = <<>>
  /\ queue = <<>>

\* No bulk request: one already answered.
BulkOff ==
  /\ task = [mode |-> "buffered", phase |-> "done", at |-> 1, attempt |-> 0]
  /\ body = <<>> /\ lines = <<>> /\ applied = <<>> /\ queue = <<>>
  /\ cache = [p \in Keys |-> None]
  /\ buffers = [t \in Targets |-> <<>>]
  /\ flights = [t \in Targets |-> NoFlight]
  /\ table = [p \in Keys |-> [target |-> None, epoch |-> 0, open |-> TRUE]]

-----------------------------------------------------------------------------
(* The placement backend: any transition of any partition, behind the SPI.  Keys of one
   partition move one after the other. *)

moves_left == MapThenSumSet(LAMBDA k : table[k].epoch, Keys) < MaxMoves

table_moves(p) ==
  /\ moves_left
  /\ table[p].target # None
  /\ \E t \in Targets, open \in BOOLEAN :
       table' = [table EXCEPT ![p] = [target |-> t, epoch |-> @.epoch + 1, open |-> open]]
  /\ UNCHANGED <<body, task, lines, cache, buffers, flights, applied, queue>>

admit_write(p, epoch) == table[p].open /\ table[p].epoch = epoch

-----------------------------------------------------------------------------
(* prepare(): resolve the item, or answer its line and go on. *)

reading(k) == task.phase = "reading" /\ k = task.at /\ k \in Ordinals
NextItem == [task EXCEPT !.at = @ + 1, !.attempt = 0]

item_unresolved(k) ==
  /\ reading(k) /\ body[k] = Unresolved
  /\ lines' = [lines EXCEPT ![k] = "unresolved"]
  /\ task' = NextItem
  /\ UNCHANGED <<body, cache, buffers, flights, table, applied, queue>>

misses(k) == reading(k) /\ body[k] \in Keys /\ cache[body[k]] = None

\* The backend answers: the resolution is cached, or there is no placement.
resolve_placement(k) ==
  /\ misses(k)
  /\ IF table[body[k]].target # None
     THEN /\ cache' = [cache EXCEPT ![body[k]] = [target |-> table[body[k]].target,
                                                  epoch |-> table[body[k]].epoch]]
          /\ UNCHANGED <<task, lines>>
     ELSE /\ lines' = [lines EXCEPT ![k] = "missing"]
          /\ task' = NextItem
          /\ UNCHANGED cache
  /\ UNCHANGED <<body, buffers, flights, table, applied, queue>>

\* with_retry(): the backend is unavailable; try again while attempts are left,
\* then the item is answered as if it had no placement.
resolve_unavailable(k) ==
  /\ misses(k)
  /\ IF task.attempt + 1 < MaxAttempts
     THEN task' = [task EXCEPT !.attempt = @ + 1] /\ UNCHANGED lines
     ELSE task' = NextItem /\ lines' = [lines EXCEPT ![k] = "missing"]
  /\ UNCHANGED <<body, cache, buffers, flights, table, applied, queue>>

\* The line does not parse: the streamed request fails as a whole, and what is
\* still buffered is dropped.
stream_fails ==
  /\ reading(task.at) /\ body[task.at] = Malformed
  /\ task' = [task EXCEPT !.phase = "failed"]
  /\ UNCHANGED <<body, lines, cache, buffers, flights, table, applied, queue>>

-----------------------------------------------------------------------------
(* Buffering, flushing. *)

Flight(entries) == [NoFlight EXCEPT !.state = "gating", !.entries = entries]

hits(k) == reading(k) /\ body[k] \in Keys /\ cache[body[k]] # None

must_flush(entries, over_bytes) == Len(entries) >= FlushThreshold \/ over_bytes

\* A buffer that reaches the op-count threshold, or the byte threshold (which
\* one large document can do), is flushed at once and awaited.
buffer_and_flush(k) ==
  /\ hits(k) /\ task.mode # "async"
  /\ LET t == cache[body[k]].target
         entries == Append(buffers[t], k)
     IN \E over_bytes \in BOOLEAN :
          IF must_flush(entries, over_bytes)
          THEN /\ buffers' = [buffers EXCEPT ![t] = <<>>]
               /\ flights' = [flights EXCEPT ![t] = Flight(entries)]
               /\ task' = [NextItem EXCEPT !.phase = "flushing"]
          ELSE /\ buffers' = [buffers EXCEPT ![t] = entries]
               /\ task' = NextItem
               /\ UNCHANGED flights
  /\ UNCHANGED <<body, lines, cache, table, applied, queue>>

\* Mutant, in no specification.
gate_ungated(t) ==
  /\ flights[t].state = "gating"
  /\ LET f == flights[t] IN
     IF Len(f.admitted) + Len(f.rejected) = Len(f.entries)
     THEN flights' = [flights EXCEPT ![t].state = "sending"]
     ELSE LET k == f.entries[Len(f.admitted) + Len(f.rejected) + 1]
          IN flights' = IF table[body[k]].open
                        THEN [flights EXCEPT ![t].admitted = Append(@, k)]
                        ELSE [flights EXCEPT ![t].rejected = Append(@, k)]
  /\ UNCHANGED <<body, task, lines, cache, buffers, table, applied, queue>>

\* gate(): each entry is checked in turn, against the epoch it was resolved at.
gate(t) ==
  /\ flights[t].state = "gating"
  /\ LET f == flights[t] IN
     IF Len(f.admitted) + Len(f.rejected) = Len(f.entries)
     THEN flights' = [flights EXCEPT ![t].state = "sending"]
     ELSE LET k == f.entries[Len(f.admitted) + Len(f.rejected) + 1]
          IN flights' = IF admit_write(body[k], cache[body[k]].epoch)
                        THEN [flights EXCEPT ![t].admitted = Append(@, k)]
                        ELSE [flights EXCEPT ![t].rejected = Append(@, k)]
  /\ UNCHANGED <<body, task, lines, cache, buffers, table, applied, queue>>

sending(t) == flights[t].state = "sending"
unsent(t) == Len(flights[t].results) < Len(flights[t].admitted)
current(t) == flights[t].admitted[Len(flights[t].results) + 1]

\* Sink::write(): the ops of a batch go out one after the other.  One is applied
\* or refused by the upstream (a 4xx), or it fails, applied or not, and the
\* batch ends there.
op_answered(t, result) ==
  /\ sending(t) /\ unsent(t)
  /\ flights' = [flights EXCEPT ![t].results = Append(@, result)]
  /\ applied' = IF result = "ok" THEN Append(applied, current(t)) ELSE applied
  /\ UNCHANGED <<body, task, lines, cache, buffers, table, queue>>

op_fails(t) ==
  /\ sending(t) /\ unsent(t)
  /\ flights' = [flights EXCEPT ![t].state = "error"]
  /\ applied' \in {applied, Append(applied, current(t))}
  /\ UNCHANGED <<body, task, lines, cache, buffers, table, queue>>

batch_acked(t) ==
  /\ sending(t) /\ ~unsent(t)
  /\ flights' = [flights EXCEPT ![t].state = "acked"]
  /\ UNCHANGED <<body, task, lines, cache, buffers, table, applied, queue>>

finished(t) == flights[t].state \in {"acked", "error"}

\* Mutant, in no specification.
apply_results_shifted(f, old) ==
  [k \in Ordinals |->
     IF k \in Range(f.rejected) THEN "stale_epoch"
     ELSE IF k \notin Range(f.admitted) THEN old[k]
     ELSE IF f.state = "error" THEN "upstream_failed"
     ELSE f.results[CHOOSE i \in DOMAIN f.admitted :
                      f.admitted[i] = k \/ (i < Len(f.admitted) /\ f.admitted[i + 1] = k)]]

\* The lines of one finished sub-batch: rejected entries, then apply_results().
\* A batch that failed fails all its entries.
apply_results(f, old) ==
  [k \in Ordinals |->
     IF k \in Range(f.rejected) THEN "stale_epoch"
     ELSE IF k \notin Range(f.admitted) THEN old[k]
     ELSE IF f.state = "error" THEN "upstream_failed"
     ELSE f.results[CHOOSE i \in DOMAIN f.admitted : f.admitted[i] = k]]

\* flush() returns and the next item is read.
flushed(t) ==
  /\ task.phase = "flushing" /\ finished(t)
  /\ lines' = apply_results(flights[t], lines)
  /\ flights' = [flights EXCEPT ![t] = NoFlight]
  /\ task' = [task EXCEPT !.phase = "reading"]
  /\ UNCHANGED <<body, cache, buffers, table, applied, queue>>

\* The body is read: flush_remaining() begins.
body_read ==
  /\ task.phase = "reading" /\ task.at = Len(body) + 1
  /\ task' = [task EXCEPT !.phase = "final"]
  /\ UNCHANGED <<body, lines, cache, buffers, flights, table, applied, queue>>

in_flight == {t \in Targets : flights[t].state \in {"gating", "sending"}}

\* buffer_unordered(): another target's sub-batch starts while fewer than the
\* limit are running.
flush_start(t) ==
  /\ task.phase = "final" /\ buffers[t] # <<>>
  /\ Cardinality(in_flight) < MaxDispatch
  /\ flights' = [flights EXCEPT ![t] = Flight(buffers[t])]
  /\ buffers' = [buffers EXCEPT ![t] = <<>>]
  /\ UNCHANGED <<body, task, lines, cache, table, applied, queue>>

\* All sub-batches are collected: their results are applied by ordinal and the
\* response is rendered.
respond ==
  /\ task.phase = "final"
  /\ \A t \in Targets : buffers[t] = <<>> /\ (flights[t] = NoFlight \/ finished(t))
  /\ task' = [task EXCEPT !.phase = "done"]
  /\ lines' = [k \in Ordinals |->
       LET of == {t \in Targets : k \in Range(flights[t].entries)}
       IN IF of = {} THEN lines[k] ELSE apply_results(flights[CHOOSE t \in of : TRUE], lines)[k]]
  /\ flights' = [t \in Targets |-> NoFlight]
  /\ UNCHANGED <<body, cache, buffers, table, applied, queue>>

-----------------------------------------------------------------------------
(* ingest_bulk_async(): the prepared op is enqueued instead. *)

enqueue(k, taken) ==
  /\ hits(k) /\ task.mode = "async"
  /\ lines' = [lines EXCEPT ![k] = IF taken THEN "queued" ELSE "enqueue_failed"]
  /\ queue' = IF taken THEN Append(queue, k) ELSE queue
  /\ task' = NextItem
  /\ UNCHANGED <<body, cache, buffers, flights, table, applied>>

-----------------------------------------------------------------------------
Prepare == \E k \in Ordinals : \/ item_unresolved(k) \/ resolve_placement(k)
                               \/ resolve_unavailable(k) \/ buffer_and_flush(k)
                               \/ \E taken \in BOOLEAN : enqueue(k, taken)
Flush == \E t \in Targets : \/ gate(t) \/ op_fails(t) \/ batch_acked(t) \/ flushed(t) \/ flush_start(t)
                            \/ \E result \in {"ok", "rejected"} : op_answered(t, result)

RequestStep == Prepare \/ stream_fails \/ Flush \/ body_read \/ respond

Done == task.phase \in {"done", "failed"} /\ UNCHANGED bulkVars

BulkNext == RequestStep \/ (\E p \in Keys : table_moves(p)) \/ Done

BulkSpec == BulkInit /\ [][BulkNext]_bulkVars

-----------------------------------------------------------------------------
(* Properties. *)

\* Re-interleave: every item of the body has its line in the response, however
\* the sub-batches completed.
EveryItemAnswered == task.phase = "done" => \A k \in Ordinals : lines[k] # "none"

\* A line tells the truth about its own item: a success was applied, a refusal
\* by the proxy was not.
LinesTruthful ==
  \A k \in Ordinals :
    /\ lines[k] = "ok" => k \in Range(applied)
    /\ lines[k] \in {"unresolved", "missing", "stale_epoch", "rejected"} => k \notin Range(applied)
    /\ lines[k] = "queued" => k \in Range(queue)

\* Items of one partition and index take effect in body order, each at most once, across
\* mid-stream flushes, the final flush and the write queue.
KeyOrder ==
  \A s \in {applied, queue} : \A i, j \in DOMAIN s :
    (i < j /\ body[s[i]] = body[s[j]]) => s[i] < s[j]

\* Once the write gate has turned an item away, no later item of the same
\* partition and index in the request is applied: the cached epoch stays stale,
\* so what a request applies of a partition has no holes.
StaleSticks ==
  \A j, k \in Ordinals :
    (j < k /\ body[j] = body[k] /\ lines[j] = "stale_epoch") => k \notin Range(applied)

\* What a request applies of a partition and index is in body order and, once the gate
\* has turned an item away, nothing that follows it.
InBodyOrder == KeyOrder /\ StaleSticks

\* Every item of an answered bulk has a line, and every line is true of its item.
AnswersTruthfully == EveryItemAnswered /\ LinesTruthful
=============================================================================
