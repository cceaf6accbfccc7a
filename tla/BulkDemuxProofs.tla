-------------------------- MODULE BulkDemuxProofs ---------------------------
(***************************************************************************)
(* Proofs about a `_bulk` request, for bodies of any length, any number of  *)
(* partitions and targets, any thresholds and any placement changes.        *)
(***************************************************************************)
EXTENDS BulkDemux, TLAPS

Increasing(s) == \A i, j \in DOMAIN s : i < j => s[i] < s[j]

\* The items a target holds: buffered for it, or in its sub-batch.
HeldOf(t) == Range(buffers[t]) \cup Range(flights[t].entries)

\* An item a target holds was read, was resolved to that target by the cached
\* resolution of its key, and has no line yet.
Held ==
  \A t \in Targets : \A k \in HeldOf(t) :
    /\ k < task.at /\ body[k] \in Keys /\ lines[k] = "none"
    /\ cache[body[k]] # None /\ cache[body[k]].target = t

gated(f) == Len(f.admitted) + Len(f.rejected)

\* A sub-batch: gating takes its entries in order and sorts each to one side, and
\* the results are those of the first operations it admitted.
Shaped(f) ==
  /\ Increasing(f.entries) /\ Increasing(f.admitted)
  /\ gated(f) <= Len(f.entries) /\ Len(f.results) <= Len(f.admitted)
  /\ f.state = "none" => f = NoFlight
  /\ f.state = "gating" => f.results = <<>>
  /\ f.state \in {"sending", "acked", "error"} => gated(f) = Len(f.entries)
  /\ f.state = "acked" => Len(f.results) = Len(f.admitted)
  /\ \A k \in Range(f.admitted) \cup Range(f.rejected) : \E m \in 1 .. gated(f) : f.entries[m] = k
  /\ \A m \in 1 .. gated(f) : f.entries[m] \in Range(f.admitted) \cup Range(f.rejected)
  /\ Range(f.admitted) \cap Range(f.rejected) = {}

FlightsShaped ==
  \A t \in Targets :
    /\ Shaped(flights[t]) /\ Increasing(buffers[t])
    /\ buffers[t] # <<>> => flights[t].state = "none"

\* While the body is read nothing is in flight, but for the one flush that is awaited;
\* the final flush begins when all of it was read.
OneFlush ==
  /\ task.phase = "reading" => \A t \in Targets : flights[t].state = "none"
  /\ task.phase = "flushing" =>
       \A t, u \in Targets : flights[t].state # "none" /\ flights[u].state # "none" => t = u
  /\ task.phase = "final" => task.at = Len(body) + 1

\* The items that may still be applied through a target.
Waiting(f) == {f.entries[m] : m \in gated(f) + 1 .. Len(f.entries)}
Unsent(f) == IF f.state = "error" THEN {}
             ELSE {f.admitted[i] : i \in Len(f.results) + 1 .. Len(f.admitted)}
Ahead(t) == Range(buffers[t]) \cup Waiting(flights[t]) \cup Unsent(flights[t])

\* What was applied of a key comes before all that may still be applied of it.
Ordered ==
  \A t \in Targets : \A k \in Ahead(t) : \A a \in Range(applied) : body[a] = body[k] => a < k

\* The results of a sub-batch tell which of its operations were applied.
ResultsTruthful ==
  \A t \in Targets :
    /\ \A i \in DOMAIN flights[t].results :
         flights[t].results[i] = "ok" <=> flights[t].admitted[i] \in Range(applied)
    /\ \A k \in Range(flights[t].rejected) : k \notin Range(applied)

\* Turned away by the gate, with the line already written or not.
Stale(j) == lines[j] = "stale_epoch" \/ \E t \in Targets : j \in Range(flights[t].rejected)

\* After one item of a key was turned away, the gate turns away all that follow.
StaleStays ==
  \A j \in Ordinals : Stale(j) =>
    /\ body[j] \in Keys /\ cache[body[j]] # None
    /\ ~admit_write(body[j], cache[body[j]].epoch)
    /\ \A k \in Ordinals : j < k /\ body[k] = body[j] =>
         k \notin Range(applied) /\ \A t \in Targets : k \notin Range(flights[t].admitted)

EpochsBehind == \A p \in Keys : cache[p] # None => cache[p].epoch <= table[p].epoch

\* Every item that was read has its line or is held; the others are untouched.
Tracked ==
  /\ \A k \in Ordinals :
       /\ k < task.at /\ lines[k] = "none" => \E t \in Targets : k \in HeldOf(t)
       /\ k >= task.at => lines[k] = "none"
  /\ \A k \in Range(applied) \cup Range(queue) : k < task.at
  /\ Increasing(queue)

BulkInv ==
  /\ BulkTypeOK /\ Held /\ FlightsShaped /\ OneFlush /\ Ordered /\ ResultsTruthful
  /\ StaleStays /\ EpochsBehind /\ Tracked
  /\ AnswersTruthfully /\ InBodyOrder

-----------------------------------------------------------------------------
(* Sequences. *)

LEMMA AppendFacts ==
  ASSUME NEW S, NEW s \in Seq(S), NEW e \in S
  PROVE  /\ Append(s, e) \in Seq(S) /\ Len(Append(s, e)) = Len(s) + 1 /\ Len(s) \in Nat
         /\ DOMAIN s = 1 .. Len(s) /\ DOMAIN Append(s, e) = 1 .. Len(s) + 1
         /\ \A i \in 1 .. Len(s) : Append(s, e)[i] = s[i]
         /\ Append(s, e)[Len(s) + 1] = e
  OBVIOUS

LEMMA AppendRange ==
  ASSUME NEW S, NEW s \in Seq(S), NEW e \in S
  PROVE  Range(Append(s, e)) = Range(s) \cup {e}
<1>1. \A x \in Range(Append(s, e)) : x \in Range(s) \cup {e}
  BY AppendFacts DEF Range
<1>2. Range(s) \subseteq Range(Append(s, e))
  BY AppendFacts DEF Range
<1>3. e \in Range(Append(s, e))
  <2>1. Len(s) + 1 \in DOMAIN Append(s, e)
    BY AppendFacts
  <2> QED BY <2>1, AppendFacts DEF Range
<1> QED BY <1>1, <1>2, <1>3

LEMMA RangeType ==
  ASSUME NEW S, NEW s \in Seq(S)
  PROVE  Range(s) \subseteq S
  BY DEF Range

LEMMA AppendIncreasing ==
  ASSUME NEW S \in SUBSET Nat, NEW s \in Seq(S), NEW e \in S, Increasing(s),
         \A k \in Range(s) : k < e
  PROVE  Increasing(Append(s, e))
<1> SUFFICES ASSUME NEW i \in 1 .. Len(s) + 1, NEW j \in 1 .. Len(s) + 1, i < j
             PROVE  Append(s, e)[i] < Append(s, e)[j]
  BY AppendFacts DEF Increasing
<1>1. Len(s) \in Nat /\ i \in 1 .. Len(s) /\ s[i] \in Range(s) /\ Append(s, e)[i] = s[i]
  BY AppendFacts DEF Range
<1>2. CASE j = Len(s) + 1
  BY <1>1, <1>2, AppendFacts
<1>3. CASE j # Len(s) + 1
  <2>1. j \in 1 .. Len(s) /\ Append(s, e)[j] = s[j] /\ DOMAIN s = 1 .. Len(s)
    BY <1>1, <1>3, AppendFacts
  <2> QED BY <1>1, <2>1 DEF Increasing
<1> QED BY <1>2, <1>3

LEMMA EmptyDomain ==
  ASSUME NEW S, NEW s \in Seq(S)
  PROVE  Len(s) = 0 <=> DOMAIN s = {}
  OBVIOUS

LEMMA EmptyFacts ==
  ASSUME NEW S, NEW s \in Seq(S), s = <<>>
  PROVE  Range(s) = {} /\ Increasing(s) /\ Len(s) = 0
<1>1. Len(s) = 0
  OBVIOUS
<1>2. DOMAIN s = {}
  BY <1>1, EmptyDomain
<1>3. Range(s) = {}
  BY <1>2 DEF Range
<1>4. Increasing(s)
  BY <1>2 DEF Increasing
<1> QED BY <1>1, <1>3, <1>4

-----------------------------------------------------------------------------
(* Types. *)

FlightType == [state : FlightStates, entries : Seq(Ordinals), admitted : Seq(Ordinals),
               rejected : Seq(Ordinals), results : Seq({"ok", "rejected"})]
Phases == {"reading", "flushing", "final", "done", "failed"}
TaskType == [mode : Modes, phase : Phases, at : 1 .. Len(body) + 1, attempt : 0 .. MaxAttempts]

LEMMA BulkTypes ==
  ASSUME BulkTypeOK
  PROVE  /\ Len(body) \in Nat /\ Ordinals = 1 .. Len(body) /\ Ordinals \subseteq Nat
         /\ task \in TaskType /\ task.at \in 1 .. Len(body) + 1 /\ task.at \in Nat
         /\ lines \in [Ordinals -> LineKinds]
         /\ cache \in [Keys -> [target : Targets, epoch : Nat] \cup {None}]
         /\ buffers \in [Targets -> Seq(Ordinals)]
         /\ flights \in [Targets -> FlightType]
         /\ table \in [Keys -> [target : Targets \cup {None}, epoch : Nat, open : BOOLEAN]]
         /\ applied \in Seq(Ordinals) /\ queue \in Seq(Ordinals)
<1>1. Len(body) \in Nat /\ Ordinals = 1 .. Len(body)
  BY DEF BulkTypeOK, Ordinals
<1>2. task \in TaskType /\ flights \in [Targets -> FlightType]
  BY Zenon DEF BulkTypeOK, FlightType, TaskType, Phases
<1>3. task.at \in 1 .. Len(body) + 1
  BY <1>2 DEF TaskType
<1>4. task.at \in Nat /\ Ordinals \subseteq Nat
  BY <1>1, <1>3
<1> QED BY <1>1, <1>2, <1>3, <1>4, Zenon DEF BulkTypeOK

LEMMA FlightTypes ==
  ASSUME NEW f \in FlightType
  PROVE  /\ f.state \in FlightStates
         /\ f.entries \in Seq(Ordinals) /\ Len(f.entries) \in Nat
         /\ DOMAIN f.entries = 1 .. Len(f.entries)
         /\ f.admitted \in Seq(Ordinals) /\ Len(f.admitted) \in Nat
         /\ DOMAIN f.admitted = 1 .. Len(f.admitted)
         /\ f.rejected \in Seq(Ordinals) /\ Len(f.rejected) \in Nat
         /\ DOMAIN f.rejected = 1 .. Len(f.rejected)
         /\ f.results \in Seq({"ok", "rejected"}) /\ Len(f.results) \in Nat
         /\ DOMAIN f.results = 1 .. Len(f.results)
         /\ gated(f) \in Nat
  BY DEF FlightType, gated

LEMMA NoFlightFacts ==
  /\ NoFlight \in FlightType /\ NoFlight.state = "none" /\ NoFlight.entries = <<>>
  /\ NoFlight.admitted = <<>> /\ NoFlight.rejected = <<>> /\ NoFlight.results = <<>>
  /\ gated(NoFlight) = 0 /\ Shaped(NoFlight)
<1>1. /\ NoFlight \in FlightType /\ NoFlight.state = "none" /\ NoFlight.entries = <<>>
      /\ NoFlight.admitted = <<>> /\ NoFlight.rejected = <<>> /\ NoFlight.results = <<>>
  BY DEF NoFlight, FlightType, FlightStates
<1>2. gated(NoFlight) = 0
  BY <1>1, EmptyFacts DEF gated
<1>3. 1 .. 0 = {}
  OBVIOUS
<1>4. Shaped(NoFlight)
  <2>1. /\ Range(NoFlight.admitted) = {} /\ Range(NoFlight.rejected) = {}
        /\ Increasing(NoFlight.entries) /\ Increasing(NoFlight.admitted)
        /\ Len(NoFlight.entries) = 0 /\ Len(NoFlight.admitted) = 0 /\ Len(NoFlight.results) = 0
    BY <1>1, FlightTypes, EmptyFacts
  <2> QED BY <1>1, <1>2, <1>3, <2>1 DEF Shaped
<1> QED BY <1>1, <1>2, <1>4

\* A held item belongs to one target.
LEMMA HeldOnce ==
  ASSUME BulkInv, NEW t \in Targets, NEW u \in Targets, NEW k \in HeldOf(t), k \in HeldOf(u)
  PROVE  t = u
  BY DEF BulkInv, Held

\* What was gated of a sub-batch is held.
LEMMA GatedHeld ==
  ASSUME BulkInv, NEW t \in Targets
  PROVE  /\ Range(flights[t].admitted) \subseteq Range(flights[t].entries)
         /\ Range(flights[t].rejected) \subseteq Range(flights[t].entries)
         /\ Range(flights[t].entries) \subseteq HeldOf(t) /\ Range(buffers[t]) \subseteq HeldOf(t)
         /\ HeldOf(t) \subseteq Ordinals
<1> DEFINE f == flights[t]
<1>1. f \in FlightType /\ Shaped(f) /\ buffers[t] \in Seq(Ordinals)
  BY BulkTypes DEF BulkInv, FlightsShaped
<1> HIDE DEF f
<1>2. \A m \in 1 .. gated(f) : m \in DOMAIN f.entries
  BY <1>1, FlightTypes DEF Shaped
<1>3. Range(f.admitted) \cup Range(f.rejected) \subseteq Range(f.entries)
  BY <1>1, <1>2 DEF Shaped, Range
<1>4. Range(f.entries) \subseteq Ordinals /\ Range(buffers[t]) \subseteq Ordinals
  BY <1>1, FlightTypes DEF Range
<1> QED BY <1>3, <1>4 DEF HeldOf, f

-----------------------------------------------------------------------------
(* Steps of the request's own task. *)

\* The task changes its phase or counts an attempt; nothing else moves.
LEMMA PhaseStep ==
  ASSUME BulkInv, task' \in TaskType, task'.at = task.at,
         task'.phase \in {task.phase, "failed", "final"},
         task'.phase = "final" => task.at = Len(body) + 1,
         UNCHANGED <<body, lines, cache, buffers, flights, table, applied, queue>>
  PROVE  BulkInv'
<1>1. BulkTypeOK'
  BY DEF BulkInv, BulkTypeOK, TaskType, Phases, Ordinals
<1>2. Held' /\ FlightsShaped' /\ Ordered' /\ ResultsTruthful'
  BY DEF BulkInv, Held, HeldOf, FlightsShaped, Ordered, Ahead, ResultsTruthful
<1>3. OneFlush'
  BY DEF BulkInv, OneFlush
<1>4. StaleStays' /\ EpochsBehind' /\ Tracked'
  BY DEF BulkInv, StaleStays, Stale, admit_write, EpochsBehind, Tracked, HeldOf, Ordinals
<1>5. AnswersTruthfully' /\ InBodyOrder'
  BY DEF BulkInv, AnswersTruthfully, EveryItemAnswered, LinesTruthful, InBodyOrder, KeyOrder,
         StaleSticks, Ordinals
<1> QED BY <1>1, <1>2, <1>3, <1>4, <1>5 DEF BulkInv

LEMMA NextItemFacts ==
  ASSUME BulkTypeOK, NEW k \in Ordinals, reading(k)
  PROVE  /\ NextItem \in TaskType /\ NextItem.at = k + 1 /\ NextItem.phase = "reading"
         /\ NextItem.mode = task.mode /\ k = task.at /\ k \in Nat /\ task.phase = "reading"
<1>1. /\ task \in TaskType /\ k = task.at /\ k \in Nat /\ task.phase = "reading"
      /\ Len(body) \in Nat /\ k \in 1 .. Len(body)
  BY BulkTypes DEF reading
<1>2. task.at + 1 \in 1 .. Len(body) + 1 /\ 0 \in 0 .. MaxAttempts
  BY <1>1, BulkAssumption
<1>3. NextItem \in TaskType
  BY <1>1, <1>2, Zenon DEF NextItem, TaskType
<1>4. NextItem.at = task.at + 1 /\ NextItem.phase = task.phase /\ NextItem.mode = task.mode
  BY <1>1 DEF NextItem, TaskType
<1> QED BY <1>1, <1>3, <1>4

\* The next item is answered at once, and perhaps queued.
LEMMA LineStep ==
  ASSUME BulkInv, NEW k \in Ordinals, reading(k), NEW line \in LineKinds,
         line \notin {"none", "ok", "stale_epoch"},
         line = "queued" => queue' = Append(queue, k), line # "queued" => queue' = queue,
         lines' = [lines EXCEPT ![k] = line], task' = NextItem,
         UNCHANGED <<body, cache, buffers, flights, table, applied>>
  PROVE  BulkInv'
<1>1. /\ k = task.at /\ task.phase = "reading" /\ k \in Nat
      /\ Ordinals' = Ordinals /\ Ordinals \subseteq Nat
      /\ lines \in [Ordinals -> LineKinds] /\ queue \in Seq(Ordinals)
      /\ applied \in Seq(Ordinals)
  BY BulkTypes DEF BulkInv, reading, Ordinals
<1>2. task'.at = k + 1 /\ task'.phase = "reading" /\ task' \in TaskType
  BY NextItemFacts DEF BulkInv
<1>3. \A j \in Ordinals : lines'[j] = IF j = k THEN line ELSE lines[j]
  BY <1>1
<1>4. lines[k] = "none" /\ \A t \in Targets : k \notin HeldOf(t)
  BY <1>1 DEF BulkInv, Tracked, Held
<1>5. /\ queue' \in Seq(Ordinals) /\ Increasing(queue')
      /\ Range(queue') = IF line = "queued" THEN Range(queue) \cup {k} ELSE Range(queue)
  <2>1. CASE line = "queued"
    <3>1. queue' = Append(queue, k) /\ Increasing(queue) /\ \A q \in Range(queue) : q < k
      BY <1>1, <2>1 DEF BulkInv, Tracked
    <3>2. queue' \in Seq(Ordinals) /\ Range(queue') = Range(queue) \cup {k}
      BY <1>1, <3>1, AppendFacts, AppendRange
    <3>3. Increasing(queue')
      BY <1>1, <3>1, AppendIncreasing
    <3> QED BY <2>1, <3>2, <3>3
  <2>2. CASE line # "queued"
    BY <1>1, <2>2 DEF BulkInv, Tracked, Increasing
  <2> QED BY <2>1, <2>2
<1>6. BulkTypeOK'
  BY <1>1, <1>2, <1>5 DEF BulkInv, BulkTypeOK, TaskType, Phases
<1>7. \A t \in Targets : HeldOf(t)' = HeldOf(t) /\ HeldOf(t) \subseteq Ordinals
  BY GatedHeld DEF HeldOf
<1>8. Held'
  <2> SUFFICES ASSUME NEW t \in Targets, NEW j \in HeldOf(t)
               PROVE  /\ j < task'.at /\ body[j] \in Keys /\ lines'[j] = "none"
                      /\ cache[body[j]] # None /\ cache[body[j]].target = t
    BY <1>7 DEF Held
  <2>1. j \in Ordinals /\ j \in Nat /\ j # k
    BY <1>1, <1>4, <1>7
  <2>2. /\ j < task.at /\ body[j] \in Keys /\ lines[j] = "none"
        /\ cache[body[j]] # None /\ cache[body[j]].target = t
    BY DEF BulkInv, Held
  <2> QED BY <1>1, <1>2, <1>3, <2>1, <2>2
<1>9. FlightsShaped' /\ OneFlush' /\ Ordered' /\ ResultsTruthful' /\ EpochsBehind'
  BY <1>1, <1>2 DEF BulkInv, FlightsShaped, OneFlush, Ordered, Ahead, ResultsTruthful, EpochsBehind
<1>10. \A j \in Ordinals : Stale(j)' <=> Stale(j)
  BY <1>3, <1>4 DEF Stale
<1>11. StaleStays'
  BY <1>1, <1>10 DEF BulkInv, StaleStays, admit_write
<1>12. Tracked'
  <2>1. ASSUME NEW j \in Ordinals
        PROVE  /\ j < task'.at /\ lines'[j] = "none" => \E t \in Targets : j \in HeldOf(t)
               /\ j >= task'.at => lines'[j] = "none"
    <3>1. /\ j < task.at /\ lines[j] = "none" => \E t \in Targets : j \in HeldOf(t)
          /\ j >= task.at => lines[j] = "none"
      BY DEF BulkInv, Tracked
    <3> QED BY <1>1, <1>2, <1>3, <3>1
  <2>2. \A j \in Range(applied) \cup Range(queue') : j < task'.at
    <3>1. \A j \in Range(applied) \cup Range(queue) : j < task.at
      BY DEF BulkInv, Tracked
    <3>2. Range(applied) \cup Range(queue) \subseteq Ordinals
      BY <1>1, RangeType
    <3>3. \A j \in Range(applied) \cup Range(queue) : j < k + 1
      <4>1. Ordinals \subseteq Nat /\ k = task.at /\ k \in Nat
        BY <1>1
      <4>2. \A j \in Nat : j < k => j < k + 1
        BY <4>1
      <4> QED BY <3>1, <3>2, <4>1, <4>2
    <3>4. Range(queue') \subseteq Range(queue) \cup {k} /\ k < k + 1
      BY <1>1, <1>5
    <3> QED BY <1>2, <3>3, <3>4
  <2> QED BY <1>1, <1>5, <1>7, <2>1, <2>2 DEF Tracked
<1>13. k \notin Range(applied)
  BY <1>1 DEF BulkInv, Tracked
<1>14. AnswersTruthfully'
  BY <1>1, <1>2, <1>3, <1>5, <1>13
  DEF BulkInv, AnswersTruthfully, EveryItemAnswered, LinesTruthful
<1>15. InBodyOrder'
  <2>1. \A i, j \in DOMAIN queue' : i < j => queue'[i] < queue'[j]
    BY <1>5 DEF Increasing
  <2>2. KeyOrder'
    BY <2>1 DEF BulkInv, InBodyOrder, KeyOrder
  <2>3. StaleSticks'
    BY <1>1, <1>3 DEF BulkInv, InBodyOrder, StaleSticks
  <2> QED BY <2>2, <2>3 DEF InBodyOrder
<1> QED BY <1>6, <1>8, <1>9, <1>11, <1>12, <1>14, <1>15 DEF BulkInv

\* A resolution is cached.
LEMMA CacheStep ==
  ASSUME BulkInv, NEW k \in Ordinals, misses(k), table[body[k]].target # None,
         resolve_placement(k)
  PROVE  BulkInv'
<1> DEFINE p == body[k]
           r == [target |-> table[p].target, epoch |-> table[p].epoch]
<1>1. /\ p \in Keys /\ cache[p] = None
      /\ table[p] \in [target : Targets \cup {None}, epoch : Nat, open : BOOLEAN]
      /\ cache \in [Keys -> [target : Targets, epoch : Nat] \cup {None}]
      /\ cache' = [cache EXCEPT ![p] = r]
      /\ UNCHANGED <<body, task, lines, buffers, flights, table, applied, queue>>
  BY BulkTypes DEF BulkInv, misses, resolve_placement
<1>2. r \in [target : Targets, epoch : Nat] /\ r.epoch = table[p].epoch /\ table[p].epoch \in Nat
  BY <1>1
<1> HIDE DEF r
<1>3. \A q \in Keys : cache'[q] = IF q = p THEN r ELSE cache[q]
  BY <1>1
<1>4. BulkTypeOK'
  BY <1>1, <1>2 DEF BulkInv, BulkTypeOK, Ordinals
<1>5. Held'
  <2>1. \A t \in Targets : HeldOf(t)' = HeldOf(t)
    BY <1>1 DEF HeldOf
  <2> QED BY <1>1, <1>3, <2>1 DEF BulkInv, Held
<1>6. FlightsShaped' /\ OneFlush' /\ Ordered' /\ ResultsTruthful'
  BY <1>1 DEF BulkInv, FlightsShaped, OneFlush, Ordered, Ahead, ResultsTruthful
<1>7. EpochsBehind'
  BY <1>1, <1>2, <1>3 DEF BulkInv, EpochsBehind
<1>8. StaleStays'
  <2>1. \A j \in Ordinals : Stale(j)' <=> Stale(j)
    BY <1>1 DEF Stale
  <2>2. Ordinals' = Ordinals
    BY <1>1 DEF Ordinals
  <2> QED BY <1>1, <1>3, <2>1, <2>2 DEF BulkInv, StaleStays, admit_write
<1>9. Tracked' /\ AnswersTruthfully' /\ InBodyOrder'
  BY <1>1 DEF BulkInv, Tracked, HeldOf, AnswersTruthfully, EveryItemAnswered, LinesTruthful,
     InBodyOrder, KeyOrder, StaleSticks, Ordinals
<1> QED BY <1>4, <1>5, <1>6, <1>7, <1>8, <1>9 DEF BulkInv

\* Entries move between a buffer and a sub-batch; nothing is gated, sent or answered.
LEMMA BatchStep ==
  ASSUME BulkInv, BulkTypeOK', Held', FlightsShaped', OneFlush', Ordered', Tracked',
         \A u \in Targets : /\ flights'[u].admitted = flights[u].admitted
                            /\ flights'[u].rejected = flights[u].rejected
                            /\ flights'[u].results = flights[u].results,
         task'.phase # "done",
         UNCHANGED <<body, lines, cache, table, applied, queue>>
  PROVE  BulkInv'
<1>1. ResultsTruthful'
  BY DEF BulkInv, ResultsTruthful
<1>2. StaleStays'
  <2>1. \A j \in Ordinals : Stale(j)' <=> Stale(j)
    BY DEF Stale
  <2>2. Ordinals' = Ordinals
    BY DEF Ordinals
  <2> QED BY <2>1, <2>2 DEF BulkInv, StaleStays, admit_write
<1>3. EpochsBehind' /\ AnswersTruthfully' /\ InBodyOrder'
  BY DEF BulkInv, EpochsBehind, AnswersTruthfully, EveryItemAnswered, LinesTruthful, InBodyOrder,
         KeyOrder, StaleSticks, Ordinals
<1> QED BY <1>1, <1>2, <1>3 DEF BulkInv

\* A fresh sub-batch.
LEMMA FlightFacts ==
  ASSUME BulkTypeOK, NEW es \in Seq(Ordinals), Increasing(es)
  PROVE  /\ Flight(es) \in FlightType /\ Flight(es).state = "gating" /\ Flight(es).entries = es
         /\ Flight(es).admitted = <<>> /\ Flight(es).rejected = <<>> /\ Flight(es).results = <<>>
         /\ Shaped(Flight(es)) /\ Waiting(Flight(es)) = Range(es) /\ Unsent(Flight(es)) = {}
<1> DEFINE f == Flight(es)
<1>1. "gating" \in FlightStates
  BY DEF FlightStates
<1>2. f \in FlightType
  BY <1>1, NoFlightFacts, Zenon DEF Flight, FlightType
<1>3. /\ f.state = "gating" /\ f.entries = es
      /\ f.admitted = <<>> /\ f.rejected = <<>> /\ f.results = <<>>
  BY DEF Flight, NoFlight
<1> HIDE DEF f
<1>4. /\ Range(f.admitted) = {} /\ Range(f.rejected) = {} /\ Increasing(f.admitted)
      /\ Len(f.admitted) = 0 /\ Len(f.rejected) = 0 /\ Len(f.results) = 0
  BY <1>2, <1>3, FlightTypes, EmptyFacts
<1>5. gated(f) = 0 /\ 1 .. 0 = {} /\ Len(es) \in Nat /\ DOMAIN es = 1 .. Len(es)
  BY <1>4 DEF gated
<1>6. Shaped(f)
  BY <1>3, <1>4, <1>5 DEF Shaped
<1>7. Waiting(f) = Range(es)
  BY <1>3, <1>5 DEF Waiting, Range
<1>8. Unsent(f) = {}
  BY <1>4, <1>5, <1>3 DEF Unsent
<1> QED BY <1>2, <1>3, <1>6, <1>7, <1>8 DEF f

LEMMA IdleFlight ==
  ASSUME BulkInv, NEW t \in Targets, flights[t].state = "none"
  PROVE  /\ flights[t] = NoFlight /\ HeldOf(t) = Range(buffers[t]) /\ Ahead(t) = Range(buffers[t])
         /\ Range(flights[t].entries) = {} /\ Range(flights[t].admitted) = {}
         /\ Range(flights[t].rejected) = {}
<1>1. flights[t] = NoFlight
  BY DEF BulkInv, FlightsShaped, Shaped
<1>2. /\ Range(NoFlight.entries) = {} /\ Range(NoFlight.admitted) = {}
      /\ Range(NoFlight.rejected) = {}
      /\ Len(NoFlight.entries) = 0 /\ Len(NoFlight.admitted) = 0 /\ Len(NoFlight.results) = 0
  BY NoFlightFacts, FlightTypes, EmptyFacts
<1>3. Waiting(NoFlight) = {} /\ Unsent(NoFlight) = {}
  BY <1>2, NoFlightFacts DEF Waiting, Unsent
<1> QED BY <1>1, <1>2, <1>3 DEF HeldOf, Ahead

\* The next item joins what its target holds.
LEMMA TakeStep ==
  ASSUME BulkInv, NEW k \in Ordinals, hits(k), NEW t \in Targets, t = cache[body[k]].target,
         BulkTypeOK', FlightsShaped', OneFlush',
         \A u \in Targets : /\ flights'[u].admitted = flights[u].admitted
                            /\ flights'[u].rejected = flights[u].rejected
                            /\ flights'[u].results = flights[u].results
                            /\ HeldOf(u)' = IF u = t THEN HeldOf(u) \cup {k} ELSE HeldOf(u)
                            /\ Ahead(u)' = IF u = t THEN Ahead(u) \cup {k} ELSE Ahead(u),
         task'.at = k + 1, task'.phase # "done",
         UNCHANGED <<body, lines, cache, table, applied, queue>>
  PROVE  BulkInv'
<1>1. /\ k = task.at /\ k \in Nat /\ Ordinals' = Ordinals /\ Ordinals \subseteq Nat
      /\ body[k] \in Keys /\ cache[body[k]] # None
      /\ applied \in Seq(Ordinals) /\ queue \in Seq(Ordinals)
  BY BulkTypes DEF BulkInv, hits, reading, Ordinals
<1>2. lines[k] = "none" /\ \A a \in Range(applied) \cup Range(queue) : a < k /\ a \in Nat
  <2>1. Range(applied) \cup Range(queue) \subseteq Ordinals
    BY <1>1, RangeType
  <2>2. lines[k] = "none" /\ \A a \in Range(applied) \cup Range(queue) : a < task.at
    <3>1. k >= task.at
      BY <1>1
    <3> QED BY <3>1 DEF BulkInv, Tracked
  <2> QED BY <1>1, <2>1, <2>2
<1>3. Held'
  <2> SUFFICES ASSUME NEW u \in Targets, NEW j \in HeldOf(u)'
               PROVE  /\ j < k + 1 /\ body[j] \in Keys /\ lines[j] = "none"
                      /\ cache[body[j]] # None /\ cache[body[j]].target = u
    BY DEF Held
  <2>1. CASE j = k /\ u = t
    BY <1>1, <1>2, <2>1
  <2>2. CASE j \in HeldOf(u)
    <3>1. /\ j < task.at /\ body[j] \in Keys /\ lines[j] = "none"
          /\ cache[body[j]] # None /\ cache[body[j]].target = u
      BY <2>2 DEF BulkInv, Held
    <3>2. j \in Nat
      BY <1>1, <2>2, GatedHeld
    <3> QED BY <1>1, <3>1, <3>2
  <2> QED BY <2>1, <2>2
<1>4. Ordered'
  <2> SUFFICES ASSUME NEW u \in Targets, NEW j \in Ahead(u)', NEW a \in Range(applied),
                      body[a] = body[j]
               PROVE  a < j
    BY DEF Ordered
  <2> QED BY <1>2 DEF BulkInv, Ordered
<1>5. Tracked'
  <2>1. ASSUME NEW j \in Ordinals
        PROVE  /\ j < k + 1 /\ lines[j] = "none" => \E u \in Targets : j \in HeldOf(u)'
               /\ j >= k + 1 => lines[j] = "none"
    <3>1. /\ j < task.at /\ lines[j] = "none" => \E u \in Targets : j \in HeldOf(u)
          /\ j >= task.at => lines[j] = "none"
      BY DEF BulkInv, Tracked
    <3>2. j \in Nat /\ (j < k + 1 => j < k \/ j = k) /\ (j >= k + 1 => j >= k)
      BY <1>1
    <3> QED BY <1>1, <3>1, <3>2
  <2>2. \A a \in Range(applied) \cup Range(queue) : a < k + 1
    <3>1. \A a \in Nat : a < k => a < k + 1
      BY <1>1
    <3> QED BY <1>2, <3>1
  <2> QED BY <1>1, <2>1, <2>2 DEF BulkInv, Tracked
<1> QED BY <1>3, <1>4, <1>5, BatchStep

LEMMA BufferStep ==
  ASSUME BulkInv, NEW k \in Ordinals, buffer_and_flush(k)
  PROVE  BulkInv'
<1> DEFINE t == cache[body[k]].target
           entries == Append(buffers[t], k)
<1>1. /\ hits(k) /\ reading(k) /\ body[k] \in Keys
      /\ Ordinals' = Ordinals /\ Ordinals \subseteq Nat
      /\ buffers \in [Targets -> Seq(Ordinals)] /\ flights \in [Targets -> FlightType]
      /\ cache \in [Keys -> [target : Targets, epoch : Nat] \cup {None}]
      /\ UNCHANGED <<body, lines, cache, table, applied, queue>>
  BY BulkTypes DEF BulkInv, buffer_and_flush, hits, Ordinals
<1>2. t \in Targets
  BY <1>1 DEF hits
<1>3. /\ task.phase = "reading" /\ k = task.at /\ k \in Nat
      /\ NextItem \in TaskType /\ NextItem.at = k + 1 /\ NextItem.phase = "reading"
  BY <1>1, NextItemFacts DEF BulkInv
<1>4. \A u \in Targets : flights[u].state = "none"
  BY <1>3 DEF BulkInv, OneFlush
<1>5. /\ entries \in Seq(Ordinals) /\ Range(entries) = Range(buffers[t]) \cup {k}
      /\ Increasing(entries)
  <2>1. buffers[t] \in Seq(Ordinals) /\ Increasing(buffers[t])
    BY <1>1, <1>2 DEF BulkInv, FlightsShaped
  <2>2. \A j \in Range(buffers[t]) : j < k
    BY <1>2, <1>3 DEF BulkInv, Held, HeldOf
  <2> QED BY <1>1, <2>1, <2>2, AppendFacts, AppendRange, AppendIncreasing
<1> HIDE DEF entries
<1>6. PICK over_bytes \in BOOLEAN :
        IF must_flush(entries, over_bytes)
        THEN /\ buffers' = [buffers EXCEPT ![t] = <<>>]
             /\ flights' = [flights EXCEPT ![t] = Flight(entries)]
             /\ task' = [NextItem EXCEPT !.phase = "flushing"]
        ELSE /\ buffers' = [buffers EXCEPT ![t] = entries]
             /\ task' = NextItem
             /\ UNCHANGED flights
  BY DEF buffer_and_flush, entries
<1>7. CASE must_flush(entries, over_bytes)
  <2>1. /\ buffers' = [buffers EXCEPT ![t] = <<>>]
        /\ flights' = [flights EXCEPT ![t] = Flight(entries)]
        /\ task' = [NextItem EXCEPT !.phase = "flushing"]
    BY <1>6, <1>7
  <2>2. task' \in TaskType /\ task'.at = k + 1 /\ task'.phase = "flushing"
    <3>1. "flushing" \in Phases
      BY DEF Phases
    <3>2. \A x \in TaskType : [x EXCEPT !.phase = "flushing"] \in TaskType
      BY <3>1, Zenon DEF TaskType
    <3> QED BY <1>3, <2>1, <3>2 DEF TaskType
  <2>3. \A u \in Targets : /\ flights'[u] = IF u = t THEN Flight(entries) ELSE flights[u]
                           /\ buffers'[u] = IF u = t THEN <<>> ELSE buffers[u]
    BY <1>1, <2>1
  <2>4. <<>> \in Seq(Ordinals) /\ Increasing(<<>>) /\ Range(<<>>) = {} /\ Len(<<>>) = 0
    <3>1. <<>> \in Seq(Ordinals)
      OBVIOUS
    <3> QED BY <3>1, EmptyFacts
  <2>5. /\ Flight(entries) \in FlightType /\ Shaped(Flight(entries))
        /\ Flight(entries).state = "gating" /\ Flight(entries).entries = entries
        /\ Flight(entries).admitted = <<>> /\ Flight(entries).rejected = <<>>
        /\ Flight(entries).results = <<>>
        /\ Waiting(Flight(entries)) = Range(entries) /\ Unsent(Flight(entries)) = {}
    BY <1>5, FlightFacts DEF BulkInv
  <2>6. BulkTypeOK'
    <3>1. buffers' \in [Targets -> Seq(Ordinals)] /\ flights' \in [Targets -> FlightType]
      BY <1>1, <2>1, <2>4, <2>5
    <3>2. \A u \in Targets : Len(buffers'[u]) < FlushThreshold
      <4>1. \A u \in Targets : Len(buffers[u]) < FlushThreshold
        BY DEF BulkInv, BulkTypeOK
      <4>2. 0 < FlushThreshold
        BY BulkAssumption
      <4> QED BY <2>3, <2>4, <4>1, <4>2
    <3>3. /\ body' = body /\ Ordinals' = Ordinals /\ lines' = lines /\ cache' = cache /\ table' = table
          /\ applied' = applied /\ queue' = queue
      BY <1>1 DEF Ordinals
    <3>4. /\ task' \in [mode : Modes, phase : {"reading", "flushing", "final", "done", "failed"},
                        at : 1 .. Len(body) + 1, attempt : 0 .. MaxAttempts]
          /\ flights' \in [Targets -> [state : FlightStates, entries : Seq(Ordinals),
                                       admitted : Seq(Ordinals), rejected : Seq(Ordinals),
                                       results : Seq({"ok", "rejected"})]]
      BY <2>2, <3>1, Zenon DEF TaskType, Phases, FlightType
    <3> QED BY <3>1, <3>2, <3>3, <3>4 DEF BulkInv, BulkTypeOK
  <2>7. FlightsShaped'
    BY <1>4, <2>3, <2>4, <2>5 DEF BulkInv, FlightsShaped
  <2>8. OneFlush'
    BY <1>4, <2>2, <2>3 DEF OneFlush
  <2>9. \A u \in Targets : /\ flights'[u].admitted = flights[u].admitted
                           /\ flights'[u].rejected = flights[u].rejected
                           /\ flights'[u].results = flights[u].results
    BY <1>2, <1>4, <2>3, <2>5, IdleFlight, NoFlightFacts
  <2>10. \A u \in Targets : /\ HeldOf(u)' = IF u = t THEN HeldOf(u) \cup {k} ELSE HeldOf(u)
                            /\ Ahead(u)' = IF u = t THEN Ahead(u) \cup {k} ELSE Ahead(u)
    BY <1>2, <1>4, <1>5, <2>3, <2>4, <2>5, IdleFlight DEF HeldOf, Ahead
  <2> HIDE DEF t
  <2>11. t = cache[body[k]].target
    BY DEF t
  <2>12. task'.phase # "done"
    BY <2>2
  <2> QED BY <1>1, <1>2, <2>2, <2>6, <2>7, <2>8, <2>9, <2>10, <2>11, <2>12, TakeStep
<1>8. CASE ~must_flush(entries, over_bytes)
  <2>1. buffers' = [buffers EXCEPT ![t] = entries] /\ task' = NextItem /\ flights' = flights
    BY <1>6, <1>8
  <2>2. \A u \in Targets : buffers'[u] = IF u = t THEN entries ELSE buffers[u]
    BY <1>1, <2>1
  <2>3. BulkTypeOK'
    <3>1. buffers' \in [Targets -> Seq(Ordinals)]
      BY <1>1, <1>5, <2>1
    <3>2. Len(entries) < FlushThreshold
      BY <1>5, <1>8, BulkAssumption DEF must_flush
    <3>3. \A u \in Targets : Len(buffers'[u]) < FlushThreshold
      BY <2>2, <3>2 DEF BulkInv, BulkTypeOK
    <3> QED BY <1>1, <1>3, <2>1, <3>1, <3>3 DEF BulkInv, BulkTypeOK, TaskType, Phases
  <2>4. FlightsShaped' /\ OneFlush'
    BY <1>3, <1>4, <1>5, <2>1, <2>2 DEF BulkInv, FlightsShaped, OneFlush
  <2>5. \A u \in Targets : /\ HeldOf(u)' = IF u = t THEN HeldOf(u) \cup {k} ELSE HeldOf(u)
                           /\ Ahead(u)' = IF u = t THEN Ahead(u) \cup {k} ELSE Ahead(u)
    BY <1>2, <1>5, <2>1, <2>2 DEF HeldOf, Ahead
  <2>6. task'.at = k + 1 /\ task'.phase # "done"
    BY <1>3, <2>1
  <2> HIDE DEF t
  <2>7. t = cache[body[k]].target
    BY DEF t
  <2> QED BY <1>1, <1>2, <2>1, <2>3, <2>4, <2>5, <2>6, <2>7, TakeStep
<1> QED BY <1>7, <1>8

LEMMA FlushStartStep ==
  ASSUME BulkInv, NEW t \in Targets, flush_start(t)
  PROVE  BulkInv'
<1>1. /\ task.phase = "final" /\ flights[t].state = "none" /\ Ordinals' = Ordinals
      /\ buffers \in [Targets -> Seq(Ordinals)] /\ flights \in [Targets -> FlightType]
      /\ flights' = [flights EXCEPT ![t] = Flight(buffers[t])]
      /\ buffers' = [buffers EXCEPT ![t] = <<>>]
      /\ Increasing(buffers[t])
      /\ UNCHANGED <<body, task, lines, cache, table, applied, queue>>
  BY BulkTypes DEF BulkInv, flush_start, FlightsShaped, Ordinals
<1> DEFINE f == Flight(buffers[t])
<1>2. \A u \in Targets : /\ flights'[u] = IF u = t THEN f ELSE flights[u]
                         /\ buffers'[u] = IF u = t THEN <<>> ELSE buffers[u]
  BY <1>1
<1>3. <<>> \in Seq(Ordinals) /\ Increasing(<<>>) /\ Range(<<>>) = {} /\ Len(<<>>) = 0
  <2>1. <<>> \in Seq(Ordinals)
    OBVIOUS
  <2> QED BY <2>1, EmptyFacts
<1>4. /\ f \in FlightType /\ Shaped(f) /\ f.state = "gating" /\ f.entries = buffers[t]
      /\ f.admitted = <<>> /\ f.rejected = <<>> /\ f.results = <<>>
      /\ Waiting(f) = Range(buffers[t]) /\ Unsent(f) = {}
  BY <1>1, FlightFacts DEF BulkInv
<1> HIDE DEF f
<1>5. BulkTypeOK'
  <2>1. buffers' \in [Targets -> Seq(Ordinals)] /\ flights' \in [Targets -> FlightType]
    BY <1>1, <1>3, <1>4 DEF f
  <2>2. \A u \in Targets : Len(buffers'[u]) < FlushThreshold
    <3>1. 0 < FlushThreshold /\ \A u \in Targets : Len(buffers[u]) < FlushThreshold
      BY BulkAssumption DEF BulkInv, BulkTypeOK
    <3> QED BY <1>2, <1>3, <3>1
  <2> QED BY <1>1, <2>1, <2>2 DEF BulkInv, BulkTypeOK, FlightType
<1>6. FlightsShaped' /\ OneFlush'
  BY <1>1, <1>2, <1>3, <1>4 DEF BulkInv, FlightsShaped, OneFlush
<1>7. \A u \in Targets : /\ flights'[u].admitted = flights[u].admitted
                         /\ flights'[u].rejected = flights[u].rejected
                         /\ flights'[u].results = flights[u].results
  BY <1>1, <1>2, <1>4, IdleFlight, NoFlightFacts
<1>8. \A u \in Targets : HeldOf(u)' = HeldOf(u) /\ Ahead(u)' = Ahead(u)
  BY <1>1, <1>2, <1>3, <1>4, IdleFlight DEF HeldOf, Ahead
<1>9. Held' /\ Ordered' /\ Tracked'
  BY <1>1, <1>8 DEF BulkInv, Held, Ordered, Tracked
<1> QED BY <1>1, <1>5, <1>6, <1>7, <1>9, BatchStep

-----------------------------------------------------------------------------
(* Gating. *)

\* A sub-batch changes and keeps its entries; no line, no buffer moves.
LEMMA FlightStep ==
  ASSUME BulkInv, NEW t \in Targets, NEW f \in FlightType,
         flights' = [flights EXCEPT ![t] = f],
         f.entries = flights[t].entries, f.state # "none", flights[t].state # "none",
         Shaped(f), Ordered', ResultsTruthful', StaleStays', InBodyOrder',
         \A k \in Range(applied') : k \in Range(applied) \/ k \in HeldOf(t),
         Range(applied) \subseteq Range(applied'), applied' \in Seq(Ordinals),
         UNCHANGED <<body, task, lines, cache, buffers, table, queue>>
  PROVE  BulkInv'
<1>1. /\ Ordinals' = Ordinals /\ flights \in [Targets -> FlightType]
      /\ task.at \in Nat /\ HeldOf(t) \subseteq Ordinals
  BY BulkTypes, GatedHeld DEF BulkInv, Ordinals
<1>2. \A u \in Targets : flights'[u] = IF u = t THEN f ELSE flights[u]
  BY <1>1
<1>3. BulkTypeOK'
  <2>1. flights' \in [Targets -> FlightType]
    BY <1>1
  <2> QED BY <1>1, <2>1 DEF BulkInv, BulkTypeOK, FlightType
<1>4. \A u \in Targets : HeldOf(u)' = HeldOf(u)
  BY <1>2 DEF HeldOf
<1>5. Held'
  BY <1>4 DEF BulkInv, Held
<1>6. FlightsShaped'
  BY <1>2 DEF BulkInv, FlightsShaped
<1>7. OneFlush'
  BY <1>2 DEF BulkInv, OneFlush
<1>8. Tracked'
  <2>1. \A k \in HeldOf(t) : k < task.at
    BY DEF BulkInv, Held
  <2>2. \A k \in Range(applied') \cup Range(queue') : k < task.at
    BY <2>1 DEF BulkInv, Tracked
  <2> QED BY <1>1, <1>4, <2>2 DEF BulkInv, Tracked
<1>9. AnswersTruthfully'
  <2>1. \A k \in HeldOf(t) : lines[k] = "none"
    BY DEF BulkInv, Held
  <2>2. LinesTruthful'
    BY <1>1, <2>1 DEF BulkInv, AnswersTruthfully, LinesTruthful
  <2> QED BY <1>1, <2>2 DEF BulkInv, AnswersTruthfully, EveryItemAnswered
<1> QED BY <1>3, <1>5, <1>6, <1>7, <1>8, <1>9 DEF BulkInv, EpochsBehind

\* A sub-batch changes its state and nothing else.
LEMMA StateStep ==
  ASSUME BulkInv, NEW t \in Targets, NEW s \in FlightStates \ {"none"},
         flights[t].state \notin {"none", "error"},
         s \in {"sending", "acked", "error"} => gated(flights[t]) = Len(flights[t].entries),
         s = "gating" => flights[t].results = <<>>,
         s = "acked" => Len(flights[t].results) = Len(flights[t].admitted),
         flights' = [flights EXCEPT ![t].state = s],
         UNCHANGED <<body, task, lines, cache, buffers, table, applied, queue>>
  PROVE  BulkInv'
<1> DEFINE old == flights[t]
           f == [old EXCEPT !.state = s]
<1>1. /\ old \in FlightType /\ Shaped(old) /\ flights \in [Targets -> FlightType]
      /\ applied \in Seq(Ordinals) /\ Ordinals' = Ordinals
  BY BulkTypes DEF BulkInv, FlightsShaped, Ordinals
<1>2. flights' = [flights EXCEPT ![t] = f]
  OBVIOUS
<1>3. f \in FlightType
  <2> HIDE DEF old
  <2> QED BY <1>1, Zenon DEF FlightType
<1>4. /\ f.state = s /\ f.entries = old.entries /\ f.admitted = old.admitted
      /\ f.rejected = old.rejected /\ f.results = old.results
  BY <1>1 DEF FlightType
<1> HIDE DEF f
<1>5. \A u \in Targets : flights'[u] = IF u = t THEN f ELSE flights[u]
  BY <1>1, <1>2
<1>6. Shaped(f)
  BY <1>1, <1>4 DEF Shaped, gated
<1>7. Waiting(f) = Waiting(old) /\ Unsent(f) \subseteq Unsent(old)
  BY <1>4 DEF Waiting, Unsent, gated
<1>8. \A u \in Targets : Ahead(u)' \subseteq Ahead(u)
  BY <1>5, <1>7 DEF Ahead
<1>9. Ordered'
  BY <1>8 DEF BulkInv, Ordered
<1>10. \A u \in Targets : /\ flights'[u].admitted = flights[u].admitted
                          /\ flights'[u].rejected = flights[u].rejected
                          /\ flights'[u].results = flights[u].results
  BY <1>4, <1>5
<1>11. ResultsTruthful'
  BY <1>10 DEF BulkInv, ResultsTruthful
<1>12. StaleStays'
  <2>1. \A j \in Ordinals : Stale(j)' <=> Stale(j)
    BY <1>10 DEF Stale
  <2> QED BY <1>1, <1>10, <2>1 DEF BulkInv, StaleStays, admit_write
<1>13. InBodyOrder'
  BY <1>1 DEF BulkInv, InBodyOrder, KeyOrder, StaleSticks
<1>14. f.state # "none" /\ flights[t].state # "none" /\ f.entries = flights[t].entries
  BY <1>4
<1>15. applied' = applied /\ applied' \in Seq(Ordinals)
  BY <1>1
<1> QED BY <1>2, <1>3, <1>6, <1>9, <1>11, <1>12, <1>13, <1>14, <1>15, FlightStep

\* The entry that gate() is at: ahead of it, all it sorted.
LEMMA GateFacts ==
  ASSUME BulkInv, NEW t \in Targets, flights[t].state = "gating",
         gated(flights[t]) # Len(flights[t].entries),
         NEW k, k = flights[t].entries[gated(flights[t]) + 1]
  PROVE  /\ k \in Range(flights[t].entries) /\ k \in Waiting(flights[t]) /\ k \in HeldOf(t)
         /\ k \in Ordinals /\ k \in Nat /\ k \notin Range(applied)
         /\ gated(flights[t]) + 1 \in 1 .. Len(flights[t].entries)
         /\ \A a \in Range(flights[t].admitted) \cup Range(flights[t].rejected) :
              a \in Nat /\ a < k
<1> DEFINE f == flights[t]
<1>1. f \in FlightType /\ Shaped(f) /\ Ordinals \subseteq Nat
  BY BulkTypes DEF BulkInv, FlightsShaped
<1>2. gated(f) \in Nat /\ Len(f.entries) \in Nat /\ gated(f) < Len(f.entries)
  BY <1>1, FlightTypes DEF Shaped
<1> HIDE DEF f
<1>3. /\ gated(f) + 1 \in 1 .. Len(f.entries) /\ gated(f) + 1 \in gated(f) + 1 .. Len(f.entries)
      /\ gated(f) + 1 \in DOMAIN f.entries
  BY <1>1, <1>2, FlightTypes
<1>4. k \in Range(f.entries) /\ k \in Waiting(f)
  BY <1>3 DEF Range, Waiting, f
<1>5. k \in HeldOf(t) /\ k \in Ordinals /\ k \in Nat
  BY <1>1, <1>4, GatedHeld DEF f
<1>6. k \notin Range(applied)
  <2>1. k \in Ahead(t)
    BY <1>4 DEF Ahead, f
  <2> QED BY <1>5, <2>1 DEF BulkInv, Ordered
<1>7. ASSUME NEW a \in Range(f.admitted) \cup Range(f.rejected)
      PROVE  a \in Nat /\ a < k
  <2>1. PICK m \in 1 .. gated(f) : f.entries[m] = a
    BY <1>1 DEF Shaped
  <2>2. m < gated(f) + 1 /\ m \in DOMAIN f.entries
    BY <1>1, <1>2, FlightTypes
  <2>3. f.entries[m] < f.entries[gated(f) + 1]
    BY <1>1, <1>3, <2>2 DEF Shaped, Increasing
  <2>4. a \in Ordinals
    BY <2>1, <2>2, <1>1, FlightTypes
  <2> QED BY <1>1, <2>1, <2>3, <2>4 DEF f
<1> QED BY <1>3, <1>4, <1>5, <1>6, <1>7 DEF f

\* gate() puts one more entry to one side.
LEMMA SortStep ==
  ASSUME BulkInv, NEW t \in Targets, flights[t].state = "gating",
         gated(flights[t]) # Len(flights[t].entries),
         NEW k, k = flights[t].entries[gated(flights[t]) + 1],
         NEW f \in FlightType, flights' = [flights EXCEPT ![t] = f],
         f.state = "gating", f.entries = flights[t].entries, f.results = flights[t].results,
         gated(f) = gated(flights[t]) + 1,
         Range(f.admitted) \cup Range(f.rejected) =
           Range(flights[t].admitted) \cup Range(flights[t].rejected) \cup {k},
         Range(f.rejected) \subseteq Range(flights[t].rejected) \cup {k},
         Range(f.admitted) \subseteq Range(flights[t].admitted) \cup {k},
         Increasing(f.admitted), Range(f.admitted) \cap Range(f.rejected) = {},
         StaleStays',
         UNCHANGED <<body, task, lines, cache, buffers, table, applied, queue>>
  PROVE  BulkInv'
<1> DEFINE old == flights[t]
<1>1. /\ old \in FlightType /\ Shaped(old) /\ flights \in [Targets -> FlightType]
      /\ applied \in Seq(Ordinals) /\ Ordinals' = Ordinals
  BY BulkTypes DEF BulkInv, FlightsShaped, Ordinals
<1>2. /\ k \in Waiting(old) /\ k \notin Range(applied)
      /\ gated(old) + 1 \in 1 .. Len(old.entries)
  BY GateFacts
<1> HIDE DEF old
<1>3. /\ gated(old) \in Nat /\ Len(old.entries) \in Nat /\ Len(f.admitted) \in Nat
      /\ old.results = <<>> /\ Len(f.results) = 0 /\ DOMAIN f.results = {}
      /\ old.state = "gating"
  <2>1. old.results = <<>> /\ old.state = "gating"
    BY <1>1 DEF Shaped, old
  <2>2. Len(f.results) = 0
    BY <2>1, FlightTypes, EmptyFacts DEF old
  <2>3. DOMAIN f.results = {}
    BY <2>2, FlightTypes, EmptyDomain
  <2> QED BY <1>1, <2>1, <2>2, <2>3, FlightTypes
<1>4. Shaped(f)
  <2>1. \A m \in 1 .. gated(f) : m \in 1 .. gated(old) \/ m = gated(old) + 1
    BY <1>3 DEF old
  <2>2. gated(old) + 1 \in 1 .. gated(f) /\ \A m \in 1 .. gated(old) : m \in 1 .. gated(f)
    BY <1>3 DEF old
  <2>3. \A j \in Range(f.admitted) \cup Range(f.rejected) : \E m \in 1 .. gated(f) : f.entries[m] = j
    <3>1. k = f.entries[gated(old) + 1]
      BY DEF old
    <3>2. \A j \in Range(old.admitted) \cup Range(old.rejected) :
            \E m \in 1 .. gated(old) : f.entries[m] = j
      BY <1>1 DEF Shaped, old
    <3> QED BY <2>2, <3>1, <3>2 DEF old
  <2>4. \A m \in 1 .. gated(f) : f.entries[m] \in Range(f.admitted) \cup Range(f.rejected)
    <3>1. \A m \in 1 .. gated(old) : f.entries[m] \in Range(old.admitted) \cup Range(old.rejected)
      BY <1>1 DEF Shaped, old
    <3> QED BY <2>1, <3>1 DEF old
  <2>5. gated(f) <= Len(f.entries) /\ Len(f.results) <= Len(f.admitted)
    BY <1>2, <1>3 DEF old
  <2>6. Increasing(f.entries) /\ f.results = <<>>
    BY <1>1, <1>3 DEF Shaped, old
  <2> QED BY <2>3, <2>4, <2>5, <2>6 DEF Shaped
<1>5. Waiting(f) \subseteq Waiting(old)
  <2>1. \A m \in gated(f) + 1 .. Len(f.entries) : m \in gated(old) + 1 .. Len(old.entries)
    BY <1>3 DEF old
  <2> QED BY <2>1 DEF Waiting, old
<1>6. Unsent(f) \subseteq Unsent(old) \cup {k}
  <2>1. Unsent(f) \subseteq Range(f.admitted)
    BY <1>3, FlightTypes DEF Unsent, Range
  <2>2. Range(old.admitted) \subseteq Unsent(old)
    <3>1. Len(old.results) = 0
      BY <1>1, <1>3, FlightTypes, EmptyFacts
    <3>2. DOMAIN old.admitted = 1 .. Len(old.admitted) /\ 0 + 1 = 1
      BY <1>1, FlightTypes
    <3> QED BY <1>3, <3>1, <3>2 DEF Unsent, Range
  <2> QED BY <2>1, <2>2 DEF old
<1>7. \A u \in Targets : flights'[u] = IF u = t THEN f ELSE flights[u]
  BY <1>1
<1>8. \A u \in Targets : Ahead(u)' \subseteq Ahead(u)
  BY <1>2, <1>5, <1>6, <1>7 DEF Ahead, old
<1>9. Ordered'
  BY <1>8 DEF BulkInv, Ordered
<1>10. ResultsTruthful'
  <2>1. \A j \in Range(f.rejected) : j \notin Range(applied)
    BY <1>2 DEF BulkInv, ResultsTruthful
  <2> QED BY <1>3, <1>7, <2>1 DEF BulkInv, ResultsTruthful
<1>11. InBodyOrder'
  BY <1>1 DEF BulkInv, InBodyOrder, KeyOrder, StaleSticks
<1>12. applied' = applied /\ applied' \in Seq(Ordinals)
  BY <1>1
<1>13. f.state # "none" /\ flights[t].state # "none"
  OBVIOUS
<1> QED BY <1>4, <1>9, <1>10, <1>11, <1>12, <1>13, FlightStep

LEMMA AdmitStep ==
  ASSUME BulkInv, NEW t \in Targets, flights[t].state = "gating",
         gated(flights[t]) # Len(flights[t].entries),
         NEW k, k = flights[t].entries[gated(flights[t]) + 1],
         admit_write(body[k], cache[body[k]].epoch),
         flights' = [flights EXCEPT ![t].admitted = Append(@, k)],
         UNCHANGED <<body, task, lines, cache, buffers, table, applied, queue>>
  PROVE  BulkInv'
<1> DEFINE old == flights[t]
           side == Append(old.admitted, k)
           f == [old EXCEPT !.admitted = side]
<1>1. /\ old \in FlightType /\ Shaped(old) /\ flights \in [Targets -> FlightType]
      /\ Ordinals' = Ordinals /\ Ordinals \subseteq Nat
  BY BulkTypes DEF BulkInv, FlightsShaped, Ordinals
<1>2. /\ k \in Ordinals /\ k \in Nat
      /\ \A a \in Range(old.admitted) \cup Range(old.rejected) : a \in Nat /\ a < k
  BY GateFacts
<1>3. flights' = [flights EXCEPT ![t] = f]
  OBVIOUS
<1> HIDE DEF old
<1>4. /\ side \in Seq(Ordinals) /\ Len(side) = Len(old.admitted) + 1
      /\ Range(side) = Range(old.admitted) \cup {k} /\ Increasing(side)
  <2>1. old.admitted \in Seq(Ordinals) /\ Increasing(old.admitted)
    BY <1>1, FlightTypes DEF Shaped
  <2> QED BY <1>1, <1>2, <2>1, AppendFacts, AppendRange, AppendIncreasing
<1> HIDE DEF side
<1>5. f \in FlightType
  BY <1>1, <1>4, Zenon DEF FlightType
<1>6. /\ f.state = old.state /\ f.entries = old.entries /\ f.admitted = side
      /\ f.rejected = old.rejected /\ f.results = old.results
  BY <1>1 DEF FlightType
<1> HIDE DEF f
<1>7. gated(f) = gated(old) + 1
  <2>1. Len(old.admitted) \in Nat /\ Len(old.rejected) \in Nat
    BY <1>1, FlightTypes
  <2>2. \A a, b \in Nat : a + 1 + b = a + b + 1 /\ a + (b + 1) = a + b + 1
    OBVIOUS
  <2> QED BY <1>4, <1>6, <2>1, <2>2 DEF gated
<1>8. Range(f.admitted) \cap Range(f.rejected) = {}
  <2>1. k \notin Range(old.rejected)
    BY <1>2
  <2>2. Range(old.admitted) \cap Range(old.rejected) = {}
    BY <1>1 DEF Shaped
  <2> QED BY <1>4, <1>6, <2>1, <2>2
<1>9. \A u \in Targets : flights'[u] = IF u = t THEN f ELSE flights[u]
  BY <1>1, <1>3
<1>10. StaleStays'
  <2>1. \A j \in Ordinals : Stale(j)' <=> Stale(j)
    BY <1>6, <1>9 DEF Stale, old
  <2>2. ASSUME NEW j \in Ordinals, Stale(j), NEW i \in Ordinals, j < i, body[i] = body[j],
               NEW u \in Targets
        PROVE  i \notin Range(applied) /\ i \notin Range(flights'[u].admitted)
    <3>1. /\ ~admit_write(body[j], cache[body[j]].epoch)
          /\ i \notin Range(applied) /\ i \notin Range(flights[u].admitted)
      BY <2>2 DEF BulkInv, StaleStays
    <3>2. i # k
      BY <2>2, <3>1
    <3> QED BY <1>4, <1>6, <1>9, <3>1, <3>2 DEF old
  <2>3. \A j \in Ordinals : Stale(j) =>
          /\ body[j] \in Keys /\ cache[body[j]] # None
          /\ ~admit_write(body[j], cache[body[j]].epoch)
          /\ \A i \in Ordinals : j < i /\ body[i] = body[j] => i \notin Range(applied)
    BY DEF BulkInv, StaleStays
  <2> QED BY <1>1, <2>1, <2>2, <2>3 DEF StaleStays, admit_write
<1>11. /\ f.state = "gating" /\ f.entries = flights[t].entries /\ f.results = flights[t].results
       /\ gated(f) = gated(flights[t]) + 1
       /\ Range(f.admitted) \cup Range(f.rejected) =
            Range(flights[t].admitted) \cup Range(flights[t].rejected) \cup {k}
       /\ Range(f.rejected) \subseteq Range(flights[t].rejected) \cup {k}
       /\ Range(f.admitted) \subseteq Range(flights[t].admitted) \cup {k}
       /\ Increasing(f.admitted)
  BY <1>4, <1>6, <1>7, <1>8 DEF old
<1> QED BY <1>3, <1>5, <1>8, <1>10, <1>11, SortStep

LEMMA RejectStep ==
  ASSUME BulkInv, NEW t \in Targets, flights[t].state = "gating",
         gated(flights[t]) # Len(flights[t].entries),
         NEW k, k = flights[t].entries[gated(flights[t]) + 1],
         ~admit_write(body[k], cache[body[k]].epoch),
         flights' = [flights EXCEPT ![t].rejected = Append(@, k)],
         UNCHANGED <<body, task, lines, cache, buffers, table, applied, queue>>
  PROVE  BulkInv'
<1> DEFINE old == flights[t]
           side == Append(old.rejected, k)
           f == [old EXCEPT !.rejected = side]
<1>1. /\ old \in FlightType /\ Shaped(old) /\ flights \in [Targets -> FlightType]
      /\ Ordinals' = Ordinals /\ Ordinals \subseteq Nat /\ applied \in Seq(Ordinals)
  BY BulkTypes DEF BulkInv, FlightsShaped, Ordinals
<1>2. /\ k \in Ordinals /\ k \in Nat /\ k \in HeldOf(t) /\ k \in Waiting(old)
      /\ \A a \in Range(old.admitted) \cup Range(old.rejected) : a \in Nat /\ a < k
  BY GateFacts
<1>3. flights' = [flights EXCEPT ![t] = f]
  OBVIOUS
<1> HIDE DEF old
<1>4. /\ side \in Seq(Ordinals) /\ Len(side) = Len(old.rejected) + 1
      /\ Range(side) = Range(old.rejected) \cup {k}
  <2>1. old.rejected \in Seq(Ordinals)
    BY <1>1, FlightTypes
  <2> QED BY <1>1, <1>2, <2>1, AppendFacts, AppendRange
<1> HIDE DEF side
<1>5. f \in FlightType
  BY <1>1, <1>4, Zenon DEF FlightType
<1>6. /\ f.state = old.state /\ f.entries = old.entries /\ f.admitted = old.admitted
      /\ f.rejected = side /\ f.results = old.results
  BY <1>1 DEF FlightType
<1> HIDE DEF f
<1>7. gated(f) = gated(old) + 1
  <2>1. Len(old.admitted) \in Nat /\ Len(old.rejected) \in Nat
    BY <1>1, FlightTypes
  <2>2. \A a, b \in Nat : a + 1 + b = a + b + 1 /\ a + (b + 1) = a + b + 1
    OBVIOUS
  <2> QED BY <1>4, <1>6, <2>1, <2>2 DEF gated
<1>8. Range(f.admitted) \cap Range(f.rejected) = {} /\ Increasing(f.admitted)
  <2>1. k \notin Range(old.admitted)
    BY <1>2
  <2>2. Range(old.admitted) \cap Range(old.rejected) = {} /\ Increasing(old.admitted)
    BY <1>1 DEF Shaped
  <2> QED BY <1>4, <1>6, <2>1, <2>2
<1>9. \A u \in Targets : flights'[u] = IF u = t THEN f ELSE flights[u]
  BY <1>1, <1>3
<1>10. StaleStays'
  <2>1. \A u \in Targets : flights'[u].admitted = flights[u].admitted
    BY <1>6, <1>9 DEF old
  <2>2. \A j \in Ordinals : Stale(j)' => Stale(j) \/ j = k
    BY <1>4, <1>6, <1>9 DEF Stale, old
  <2>3. body[k] \in Keys /\ cache[body[k]] # None /\ cache[body[k]].target = t
    BY <1>2 DEF BulkInv, Held
  <2>4. ASSUME NEW i \in Ordinals, k < i, body[i] = body[k]
        PROVE  i \notin Range(applied) /\ \A u \in Targets : i \notin Range(flights[u].admitted)
    <3>1. i \notin Range(applied)
      <4>1. k \in Ahead(t)
        BY <1>2 DEF Ahead, old
      <4> QED BY <1>1, <1>2, <2>4, <4>1 DEF BulkInv, Ordered
    <3>2. ASSUME NEW u \in Targets, i \in Range(flights[u].admitted)
          PROVE  FALSE
      <4>1. i \in HeldOf(u)
        BY <3>2, GatedHeld
      <4>2. u = t
        BY <2>3, <2>4, <4>1 DEF BulkInv, Held
      <4>3. i < k
        BY <1>2, <3>2, <4>2 DEF old
      <4> QED BY <1>1, <1>2, <2>4, <4>3
    <3> QED BY <3>1, <3>2
  <2>5. \A j \in Ordinals : Stale(j) \/ j = k =>
          /\ body[j] \in Keys /\ cache[body[j]] # None
          /\ ~admit_write(body[j], cache[body[j]].epoch)
          /\ \A i \in Ordinals : j < i /\ body[i] = body[j] =>
               i \notin Range(applied) /\ \A u \in Targets : i \notin Range(flights[u].admitted)
    BY <2>3, <2>4 DEF BulkInv, StaleStays
  <2> QED BY <1>1, <2>1, <2>2, <2>5 DEF StaleStays, admit_write
<1>11. /\ f.state = "gating" /\ f.entries = flights[t].entries /\ f.results = flights[t].results
       /\ gated(f) = gated(flights[t]) + 1
       /\ Range(f.admitted) \cup Range(f.rejected) =
            Range(flights[t].admitted) \cup Range(flights[t].rejected) \cup {k}
       /\ Range(f.rejected) \subseteq Range(flights[t].rejected) \cup {k}
       /\ Range(f.admitted) \subseteq Range(flights[t].admitted) \cup {k}
       /\ Increasing(f.admitted)
  BY <1>4, <1>6, <1>7, <1>8 DEF old
<1> QED BY <1>3, <1>5, <1>8, <1>10, <1>11, SortStep

LEMMA GateStep ==
  ASSUME BulkInv, NEW t \in Targets, gate(t)
  PROVE  BulkInv'
<1>1. /\ flights[t].state = "gating"
      /\ UNCHANGED <<body, task, lines, cache, buffers, table, applied, queue>>
  BY DEF gate
<1>2. CASE gated(flights[t]) = Len(flights[t].entries)
  <2>1. flights' = [flights EXCEPT ![t].state = "sending"]
    BY <1>2 DEF gate, gated
  <2>2. "sending" \in FlightStates \ {"none"}
    BY DEF FlightStates
  <2> QED BY <1>1, <1>2, <2>1, <2>2, StateStep
<1>3. CASE gated(flights[t]) # Len(flights[t].entries)
  <2> DEFINE k == flights[t].entries[gated(flights[t]) + 1]
  <2>1. flights' = IF admit_write(body[k], cache[body[k]].epoch)
                   THEN [flights EXCEPT ![t].admitted = Append(@, k)]
                   ELSE [flights EXCEPT ![t].rejected = Append(@, k)]
    BY <1>3 DEF gate, gated
  <2>2. k = flights[t].entries[gated(flights[t]) + 1]
    OBVIOUS
  <2> HIDE DEF k
  <2>3. CASE admit_write(body[k], cache[body[k]].epoch)
    <3>1. flights' = [flights EXCEPT ![t].admitted = Append(@, k)]
      BY <2>1, <2>3
    <3> QED BY <1>1, <1>3, <2>2, <2>3, <3>1, AdmitStep
  <2>4. CASE ~admit_write(body[k], cache[body[k]].epoch)
    <3>1. flights' = [flights EXCEPT ![t].rejected = Append(@, k)]
      BY <2>1, <2>4
    <3> QED BY <1>1, <1>3, <2>2, <2>4, <3>1, RejectStep
  <2> QED BY <2>3, <2>4
<1> QED BY <1>2, <1>3

-----------------------------------------------------------------------------
(* Sending. *)

LEMMA AheadHeld ==
  ASSUME BulkInv, NEW t \in Targets
  PROVE  Ahead(t) \subseteq HeldOf(t)
<1> DEFINE f == flights[t]
<1>1. f \in FlightType
  BY BulkTypes DEF BulkInv
<1>2. Range(f.admitted) \subseteq Range(f.entries)
  BY GatedHeld
<1> HIDE DEF f
<1>3. \A m \in gated(f) + 1 .. Len(f.entries) : m \in DOMAIN f.entries
  BY <1>1, FlightTypes
<1>4. \A i \in Len(f.results) + 1 .. Len(f.admitted) : i \in DOMAIN f.admitted
  BY <1>1, FlightTypes
<1>5. Waiting(f) \subseteq Range(f.entries) /\ Unsent(f) \subseteq Range(f.admitted)
  BY <1>3, <1>4 DEF Waiting, Unsent, Range
<1> QED BY <1>2, <1>5 DEF Ahead, HeldOf, f

\* The operation that is sent next: nothing of its key that was applied follows it.
LEMMA SendFacts ==
  ASSUME BulkInv, NEW t \in Targets, sending(t), unsent(t), NEW k, k = current(t)
  PROVE  /\ k \in Range(flights[t].admitted) /\ k \in HeldOf(t)
         /\ k \in Ordinals /\ k \in Nat /\ k \notin Range(applied)
         /\ Len(flights[t].results) + 1 \in 1 .. Len(flights[t].admitted)
         /\ flights[t].admitted[Len(flights[t].results) + 1] = k
         /\ \A a \in Range(applied) : body[a] = body[k] => a < k
         /\ \A i \in 1 .. Len(flights[t].results) : flights[t].admitted[i] # k
         /\ \A i \in Len(flights[t].results) + 2 .. Len(flights[t].admitted) :
              k < flights[t].admitted[i]
<1> DEFINE f == flights[t]
           n == Len(f.results)
<1>1. f \in FlightType /\ Shaped(f) /\ Ordinals \subseteq Nat /\ f.state = "sending"
  BY BulkTypes DEF BulkInv, FlightsShaped, sending
<1>2. n < Len(f.admitted)
  BY DEF unsent
<1>3. k = f.admitted[n + 1]
  BY DEF current
<1>4. \A u \in Targets : Range(flights[u].admitted) \subseteq HeldOf(u) /\ HeldOf(u) \subseteq Ordinals
  BY GatedHeld
<1>5. Unsent(f) \subseteq Ahead(t) /\ Range(f.admitted) \subseteq HeldOf(t)
  BY <1>4 DEF Ahead
<1> HIDE DEF f
<1>6. n \in Nat /\ Len(f.admitted) \in Nat /\ DOMAIN f.admitted = 1 .. Len(f.admitted)
  BY <1>1, FlightTypes
<1> HIDE DEF n
<1>7. n + 1 \in 1 .. Len(f.admitted) /\ n + 1 \in n + 1 .. Len(f.admitted)
  BY <1>2, <1>6
<1>8. k \in Range(f.admitted) /\ k \in Unsent(f)
  BY <1>1, <1>3, <1>6, <1>7 DEF Range, Unsent, n
<1>9. k \in HeldOf(t) /\ k \in Ordinals /\ k \in Nat
  BY <1>1, <1>4, <1>5, <1>8
<1>10. \A a \in Range(applied) : body[a] = body[k] => a < k
  BY <1>5, <1>8 DEF BulkInv, Ordered
<1>11. k \notin Range(applied)
  BY <1>9, <1>10
<1>12. Increasing(f.admitted)
  BY <1>1 DEF Shaped
<1>13. ASSUME NEW i \in 1 .. n
       PROVE  f.admitted[i] # k
  <2>1. i \in DOMAIN f.admitted /\ n + 1 \in DOMAIN f.admitted /\ i < n + 1
    BY <1>6, <1>7
  <2>2. f.admitted[i] < k
    BY <1>3, <1>12, <2>1 DEF Increasing
  <2> QED BY <1>9, <2>2
<1>14. ASSUME NEW i \in n + 2 .. Len(f.admitted)
       PROVE  k < f.admitted[i]
  <2>1. i \in DOMAIN f.admitted /\ n + 1 \in DOMAIN f.admitted /\ n + 1 < i
    BY <1>6, <1>7
  <2> QED BY <1>3, <1>12, <2>1 DEF Increasing
<1> QED BY <1>3, <1>7, <1>8, <1>9, <1>10, <1>11, <1>13, <1>14 DEF f, n

\* One more operation of a sub-batch is applied, its answer seen or lost.
LEMMA AppliedStep ==
  ASSUME BulkInv, NEW t \in Targets, sending(t), unsent(t), NEW k, k = current(t),
         NEW f \in FlightType, flights' = [flights EXCEPT ![t] = f],
         f.entries = flights[t].entries, f.admitted = flights[t].admitted,
         f.rejected = flights[t].rejected,
         \/ f.state = "error" /\ f.results = flights[t].results
         \/ f.state = "sending" /\ f.results = Append(flights[t].results, "ok"),
         applied' = Append(applied, k),
         UNCHANGED <<body, task, lines, cache, buffers, table, queue>>
  PROVE  BulkInv'
<1> DEFINE old == flights[t]
           n == Len(old.results)
<1>1. /\ old \in FlightType /\ Shaped(old) /\ flights \in [Targets -> FlightType]
      /\ Ordinals' = Ordinals /\ Ordinals \subseteq Nat /\ applied \in Seq(Ordinals)
      /\ old.state = "sending"
  BY BulkTypes DEF BulkInv, FlightsShaped, Ordinals, sending
<1>2. /\ k \in Range(old.admitted) /\ k \in HeldOf(t)
      /\ k \in Ordinals /\ k \in Nat /\ k \notin Range(applied)
      /\ n + 1 \in 1 .. Len(old.admitted) /\ old.admitted[n + 1] = k
      /\ \A a \in Range(applied) : body[a] = body[k] => a < k
      /\ \A i \in 1 .. n : old.admitted[i] # k
      /\ \A i \in n + 2 .. Len(old.admitted) : k < old.admitted[i]
  BY SendFacts
<1>3. applied' \in Seq(Ordinals) /\ Range(applied') = Range(applied) \cup {k}
  BY <1>1, <1>2, AppendFacts, AppendRange
<1>4. \A u \in Targets : flights'[u] = IF u = t THEN f ELSE flights[u]
  BY <1>1
<1>5. ASSUME NEW u \in Targets, u # t
      PROVE  k \notin HeldOf(u) /\ \A j \in HeldOf(u) : body[j] # body[k]
  <2>1. cache[body[k]].target = t
    BY <1>2 DEF BulkInv, Held
  <2>2. \A j \in HeldOf(u) : cache[body[j]].target = u
    BY DEF BulkInv, Held
  <2> QED BY <1>5, <2>1, <2>2
<1>6. buffers[t] = <<>> /\ Range(buffers[t]) = {}
  <2>1. buffers[t] = <<>> /\ buffers[t] \in Seq(Ordinals)
    BY <1>1, BulkTypes DEF BulkInv, FlightsShaped
  <2> QED BY <2>1, EmptyFacts
<1> HIDE DEF old
<1>7. /\ n \in Nat /\ Len(old.admitted) \in Nat /\ Len(old.entries) \in Nat /\ gated(old) \in Nat
      /\ DOMAIN old.results = 1 .. n /\ gated(old) = Len(old.entries)
      /\ old.results \in Seq({"ok", "rejected"})
  BY <1>1, FlightTypes DEF Shaped
<1> HIDE DEF n
<1>8. \/ f.state = "error" /\ Len(f.results) = n /\ DOMAIN f.results = 1 .. n
         /\ \A i \in 1 .. n : f.results[i] = old.results[i]
      \/ f.state = "sending" /\ Len(f.results) = n + 1 /\ DOMAIN f.results = 1 .. n + 1
         /\ (\A i \in 1 .. n : f.results[i] = old.results[i]) /\ f.results[n + 1] = "ok"
  <2>1. CASE f.state = "error"
    BY <1>7, <2>1 DEF old, n
  <2>2. CASE f.state = "sending" /\ f.results = Append(old.results, "ok")
    BY <1>7, <2>2, AppendFacts DEF n
  <2> QED BY <2>1, <2>2 DEF old
<1>9. Shaped(f)
  <2>1. Len(f.results) <= Len(f.admitted)
    BY <1>2, <1>7, <1>8 DEF old
  <2>2. gated(f) = gated(old)
    BY DEF gated, old
  <2>3. f.state \in {"error", "sending"}
    BY <1>8
  <2> QED BY <1>1, <1>7, <2>1, <2>2, <2>3 DEF Shaped, old
<1>10. Waiting(f) = {} /\ \A j \in Unsent(f) : k < j /\ j \in Unsent(old)
  <2>1. gated(f) + 1 .. Len(f.entries) = {}
    <3>1. gated(f) = Len(f.entries) /\ Len(f.entries) \in Nat
      BY <1>7 DEF gated, old
    <3> QED BY <3>1
  <2>2. Waiting(f) = {}
    BY <2>1 DEF Waiting
  <2>3. CASE f.state = "error"
    BY <2>2, <2>3 DEF Unsent
  <2>4. CASE f.state = "sending" /\ Len(f.results) = n + 1
    <3>1. \A i \in n + 1 + 1 .. Len(old.admitted) :
            i \in n + 2 .. Len(old.admitted) /\ i \in n + 1 .. Len(old.admitted)
      BY <1>7
    <3>2. Unsent(f) = {old.admitted[i] : i \in n + 1 + 1 .. Len(old.admitted)}
      BY <2>4 DEF Unsent, old
    <3>3. Unsent(old) = {old.admitted[i] : i \in n + 1 .. Len(old.admitted)}
      BY <1>1 DEF Unsent, n
    <3> QED BY <1>2, <2>2, <3>1, <3>2, <3>3
  <2> QED BY <1>8, <2>3, <2>4
<1>11. Ordered'
  <2> SUFFICES ASSUME NEW u \in Targets, NEW j \in Ahead(u)', NEW a \in Range(applied'),
                      body[a] = body[j]
               PROVE  a < j
    BY DEF Ordered
  <2>1. CASE u = t
    <3>1. j \in Unsent(f)
      BY <1>4, <1>6, <1>10, <2>1 DEF Ahead
    <3>2. j \in Ahead(t) /\ k < j
      BY <1>10, <3>1 DEF Ahead, old
    <3> QED BY <1>3, <3>2 DEF BulkInv, Ordered
  <2>2. CASE u # t
    <3>1. j \in Ahead(u)
      BY <1>4, <2>2 DEF Ahead
    <3>2. j \in HeldOf(u)
      BY <3>1, AheadHeld
    <3>3. a \in Range(applied)
      BY <1>3, <1>5, <2>2, <3>2
    <3> QED BY <3>1, <3>3 DEF BulkInv, Ordered
  <2> QED BY <2>1, <2>2
<1>12. ResultsTruthful'
  <2> SUFFICES ASSUME NEW u \in Targets
               PROVE  /\ \A i \in DOMAIN flights'[u].results :
                           flights'[u].results[i] = "ok" <=> flights'[u].admitted[i] \in Range(applied')
                      /\ \A j \in Range(flights'[u].rejected) : j \notin Range(applied')
    BY DEF ResultsTruthful
  <2>1. /\ \A i \in DOMAIN flights[u].results :
             flights[u].results[i] = "ok" <=> flights[u].admitted[i] \in Range(applied)
        /\ \A j \in Range(flights[u].rejected) : j \notin Range(applied)
    BY DEF BulkInv, ResultsTruthful
  <2>2. CASE u = t
    <3>1. k \notin Range(f.rejected)
      BY <1>1, <1>2 DEF Shaped, old
    <3>2. \A i \in 1 .. n : f.results[i] = "ok" <=> f.admitted[i] \in Range(applied')
      BY <1>2, <1>3, <1>7, <1>8, <2>1, <2>2 DEF old
    <3>3. \A i \in 1 .. n + 1 : i \in 1 .. n \/ i = n + 1
      BY <1>7
    <3>4. \A i \in DOMAIN f.results : f.results[i] = "ok" <=> f.admitted[i] \in Range(applied')
      BY <1>2, <1>3, <1>8, <3>2, <3>3 DEF old
    <3> QED BY <1>3, <1>4, <2>1, <2>2, <3>1, <3>4
  <2>3. CASE u # t
    <3>1. k \notin Range(flights[u].rejected) /\ k \notin Range(flights[u].admitted)
      BY <1>5, <2>3, GatedHeld
    <3>2. \A i \in DOMAIN flights[u].results : flights[u].admitted[i] \in Range(flights[u].admitted)
      <4>1. flights[u] \in FlightType /\ Shaped(flights[u])
        BY <1>1 DEF BulkInv, FlightsShaped
      <4>2. \A i \in DOMAIN flights[u].results : i \in DOMAIN flights[u].admitted
        BY <4>1, FlightTypes DEF Shaped
      <4> QED BY <4>2 DEF Range
    <3> QED BY <1>3, <1>4, <2>1, <2>3, <3>1, <3>2
  <2> QED BY <2>2, <2>3
<1>13. \A u \in Targets : /\ flights'[u].admitted = flights[u].admitted
                          /\ flights'[u].rejected = flights[u].rejected
  BY <1>4
<1>14. StaleStays'
  <2>1. \A j \in Ordinals : Stale(j)' <=> Stale(j)
    BY <1>13 DEF Stale
  <2>2. \A j \in Ordinals : Stale(j) => ~(j < k /\ body[k] = body[j])
    BY <1>2 DEF BulkInv, StaleStays, old
  <2> QED BY <1>1, <1>3, <1>13, <2>1, <2>2 DEF BulkInv, StaleStays, admit_write
<1>15. InBodyOrder'
  <2>1. StaleSticks'
    BY <1>14 DEF StaleStays, Stale, StaleSticks
  <2>2. ASSUME NEW i \in DOMAIN applied', NEW j \in DOMAIN applied', i < j,
               body[applied'[i]] = body[applied'[j]]
        PROVE  applied'[i] < applied'[j]
    <3>1. /\ Len(applied) \in Nat /\ DOMAIN applied = 1 .. Len(applied)
          /\ DOMAIN applied' = 1 .. Len(applied) + 1 /\ applied'[Len(applied) + 1] = k
          /\ \A m \in 1 .. Len(applied) : applied'[m] = applied[m]
      BY <1>1, <1>2, AppendFacts
    <3>2. i \in 1 .. Len(applied) /\ (j = Len(applied) + 1 \/ j \in 1 .. Len(applied))
      BY <2>2, <3>1
    <3>3. applied'[i] = applied[i] /\ applied[i] \in Range(applied)
      BY <3>1, <3>2 DEF Range
    <3>4. CASE j = Len(applied) + 1
      BY <1>2, <2>2, <3>1, <3>3, <3>4
    <3>5. CASE j \in 1 .. Len(applied)
      BY <2>2, <3>1, <3>2, <3>3, <3>5 DEF BulkInv, InBodyOrder, KeyOrder
    <3> QED BY <3>2, <3>4, <3>5
  <2>3. KeyOrder'
    BY <2>2 DEF BulkInv, InBodyOrder, KeyOrder
  <2> QED BY <2>1, <2>3 DEF InBodyOrder
<1>16. f.state # "none" /\ flights[t].state # "none"
  BY <1>1, <1>8 DEF old
<1>17. /\ \A j \in Range(applied') : j \in Range(applied) \/ j \in HeldOf(t)
       /\ Range(applied) \subseteq Range(applied')
  BY <1>2, <1>3
<1> QED BY <1>3, <1>9, <1>11, <1>12, <1>14, <1>15, <1>16, <1>17, FlightStep

\* The upstream refuses an operation of a sub-batch.
LEMMA RefusedStep ==
  ASSUME BulkInv, NEW t \in Targets, sending(t), unsent(t),
         NEW f \in FlightType, flights' = [flights EXCEPT ![t] = f],
         f.entries = flights[t].entries, f.admitted = flights[t].admitted,
         f.rejected = flights[t].rejected, f.state = "sending",
         f.results = Append(flights[t].results, "rejected"),
         UNCHANGED <<body, task, lines, cache, buffers, table, applied, queue>>
  PROVE  BulkInv'
<1> DEFINE old == flights[t]
           n == Len(old.results)
<1>1. /\ old \in FlightType /\ Shaped(old) /\ flights \in [Targets -> FlightType]
      /\ Ordinals' = Ordinals /\ applied \in Seq(Ordinals) /\ old.state = "sending"
  BY BulkTypes DEF BulkInv, FlightsShaped, Ordinals, sending
<1>2. n + 1 \in 1 .. Len(old.admitted) /\ old.admitted[n + 1] \notin Range(applied)
  BY SendFacts DEF current
<1>3. \A u \in Targets : flights'[u] = IF u = t THEN f ELSE flights[u]
  BY <1>1
<1> HIDE DEF old
<1>4. /\ n \in Nat /\ Len(old.admitted) \in Nat /\ old.results \in Seq({"ok", "rejected"})
      /\ DOMAIN old.results = 1 .. n
  BY <1>1, FlightTypes
<1> HIDE DEF n
<1>5. /\ Len(f.results) = n + 1 /\ DOMAIN f.results = 1 .. n + 1
      /\ (\A i \in 1 .. n : f.results[i] = old.results[i]) /\ f.results[n + 1] = "rejected"
  BY <1>4, AppendFacts DEF n, old
<1>6. Shaped(f)
  <2>1. Len(f.results) <= Len(f.admitted)
    BY <1>2, <1>4, <1>5 DEF old
  <2> QED BY <1>1, <2>1 DEF Shaped, gated, old
<1>7. Waiting(f) = Waiting(old) /\ Unsent(f) \subseteq Unsent(old)
  <2>1. \A i \in n + 1 + 1 .. Len(old.admitted) : i \in n + 1 .. Len(old.admitted)
    BY <1>4
  <2> QED BY <1>1, <1>5, <2>1 DEF Waiting, Unsent, gated, old, n
<1>8. \A u \in Targets : Ahead(u)' \subseteq Ahead(u)
  BY <1>3, <1>7 DEF Ahead, old
<1>9. Ordered'
  BY <1>8 DEF BulkInv, Ordered
<1>10. ResultsTruthful'
  <2>1. \A i \in 1 .. n + 1 : i \in 1 .. n \/ i = n + 1
    BY <1>4
  <2>2. \A i \in 1 .. n : old.results[i] = "ok" <=> old.admitted[i] \in Range(applied)
    BY <1>4 DEF BulkInv, ResultsTruthful, old
  <2>3. \A i \in DOMAIN f.results : f.results[i] = "ok" <=> f.admitted[i] \in Range(applied)
    BY <1>2, <1>5, <2>1, <2>2 DEF old
  <2> QED BY <1>3, <2>3 DEF BulkInv, ResultsTruthful
<1>11. \A u \in Targets : /\ flights'[u].admitted = flights[u].admitted
                          /\ flights'[u].rejected = flights[u].rejected
  BY <1>3
<1>12. StaleStays'
  <2>1. \A j \in Ordinals : Stale(j)' <=> Stale(j)
    BY <1>11 DEF Stale
  <2> QED BY <1>1, <1>11, <2>1 DEF BulkInv, StaleStays, admit_write
<1>13. InBodyOrder'
  BY <1>1 DEF BulkInv, InBodyOrder, KeyOrder, StaleSticks
<1>14. f.state # "none" /\ flights[t].state # "none"
  BY <1>1 DEF old
<1>15. applied' = applied /\ applied' \in Seq(Ordinals)
  BY <1>1
<1> QED BY <1>6, <1>9, <1>10, <1>12, <1>13, <1>14, <1>15, FlightStep

LEMMA AnsweredStep ==
  ASSUME BulkInv, NEW t \in Targets, NEW result \in {"ok", "rejected"}, op_answered(t, result)
  PROVE  BulkInv'
<1> DEFINE old == flights[t]
           results == Append(old.results, result)
           f == [old EXCEPT !.results = results]
<1>1. /\ sending(t) /\ unsent(t) /\ old \in FlightType /\ old.state = "sending"
      /\ applied' = IF result = "ok" THEN Append(applied, current(t)) ELSE applied
      /\ UNCHANGED <<body, task, lines, cache, buffers, table, queue>>
  BY BulkTypes DEF BulkInv, op_answered, sending
<1>2. flights' = [flights EXCEPT ![t] = f]
  BY DEF op_answered
<1> HIDE DEF old
<1>3. results \in Seq({"ok", "rejected"})
  BY <1>1, FlightTypes
<1> HIDE DEF results
<1>4. f \in FlightType
  BY <1>1, <1>3, Zenon DEF FlightType
<1>5. /\ f.state = "sending" /\ f.entries = old.entries /\ f.admitted = old.admitted
      /\ f.rejected = old.rejected /\ f.results = results
  BY <1>1 DEF FlightType
<1> HIDE DEF f
<1>6. CASE result = "ok"
  <2>1. f.results = Append(flights[t].results, "ok") /\ applied' = Append(applied, current(t))
    BY <1>1, <1>5, <1>6 DEF results, old
  <2> QED BY <1>1, <1>2, <1>4, <1>5, <2>1, AppliedStep DEF old
<1>7. CASE result = "rejected"
  <2>1. f.results = Append(flights[t].results, "rejected") /\ applied' = applied
    BY <1>1, <1>5, <1>7 DEF results, old
  <2> QED BY <1>1, <1>2, <1>4, <1>5, <2>1, RefusedStep DEF old
<1> QED BY <1>6, <1>7

LEMMA FailsStep ==
  ASSUME BulkInv, NEW t \in Targets, op_fails(t)
  PROVE  BulkInv'
<1> DEFINE old == flights[t]
           f == [old EXCEPT !.state = "error"]
<1>1. /\ sending(t) /\ unsent(t) /\ old \in FlightType /\ old.state = "sending" /\ Shaped(old)
      /\ applied' \in {applied, Append(applied, current(t))}
      /\ UNCHANGED <<body, task, lines, cache, buffers, table, queue>>
      /\ flights' = [flights EXCEPT ![t].state = "error"]
  BY BulkTypes DEF BulkInv, op_fails, sending, FlightsShaped
<1>2. flights' = [flights EXCEPT ![t] = f]
  BY <1>1
<1>3. "error" \in FlightStates
  BY DEF FlightStates
<1>4. CASE applied' = Append(applied, current(t))
  <2> HIDE DEF old
  <2>1. f \in FlightType
    BY <1>1, <1>3, Zenon DEF FlightType
  <2>2. /\ f.state = "error" /\ f.entries = old.entries /\ f.admitted = old.admitted
        /\ f.rejected = old.rejected /\ f.results = old.results
    BY <1>1 DEF FlightType
  <2> HIDE DEF f
  <2> QED BY <1>1, <1>2, <1>4, <2>1, <2>2, AppliedStep DEF old
<1>5. CASE applied' = applied
  <2>1. gated(flights[t]) = Len(flights[t].entries)
    BY <1>1 DEF Shaped
  <2> QED BY <1>1, <1>3, <1>5, <2>1, StateStep
<1> QED BY <1>1, <1>4, <1>5

LEMMA AckedStep ==
  ASSUME BulkInv, NEW t \in Targets, batch_acked(t)
  PROVE  BulkInv'
<1>1. /\ flights[t] \in FlightType /\ flights[t].state = "sending" /\ Shaped(flights[t])
      /\ ~(Len(flights[t].results) < Len(flights[t].admitted))
      /\ UNCHANGED <<body, task, lines, cache, buffers, table, applied, queue>>
      /\ flights' = [flights EXCEPT ![t].state = "acked"]
  BY BulkTypes DEF BulkInv, batch_acked, sending, unsent, FlightsShaped
<1>2. "acked" \in FlightStates
  BY DEF FlightStates
<1>3. gated(flights[t]) = Len(flights[t].entries)
  BY <1>1 DEF Shaped
<1>4. Len(flights[t].results) = Len(flights[t].admitted)
  BY <1>1, FlightTypes DEF Shaped
<1>5. /\ UNCHANGED <<body, task, lines, cache, buffers, table, applied, queue>>
      /\ flights' = [flights EXCEPT ![t].state = "acked"]
      /\ flights[t].state \notin {"none", "error"} /\ "acked" \in FlightStates \ {"none"}
  BY <1>1, <1>2
<1> QED BY <1>3, <1>4, <1>5, StateStep

-----------------------------------------------------------------------------
(* Collecting results. *)

\* What the line of an item says once the sub-batch of its target was collected.
Tells(t, k, line) ==
  /\ line \in {"ok", "rejected", "stale_epoch", "upstream_failed"}
  /\ line = "ok" => k \in Range(applied)
  /\ line \in {"rejected", "stale_epoch"} => k \notin Range(applied)
  /\ line = "stale_epoch" => k \in Range(flights[t].rejected)

LEMMA CollectFacts ==
  ASSUME BulkInv, NEW t \in Targets, finished(t), NEW k \in Ordinals, NEW ls
  PROVE  /\ k \in Range(flights[t].entries) => Tells(t, k, apply_results(flights[t], ls)[k])
         /\ k \notin Range(flights[t].entries) => apply_results(flights[t], ls)[k] = ls[k]
<1> DEFINE f == flights[t]
<1>1. f \in FlightType /\ Shaped(f) /\ f.state \in {"acked", "error"}
  BY BulkTypes DEF BulkInv, FlightsShaped, finished
<1>2. /\ \A j \in Range(f.rejected) : j \notin Range(applied)
      /\ \A i \in DOMAIN f.results : f.results[i] = "ok" <=> f.admitted[i] \in Range(applied)
  BY DEF BulkInv, ResultsTruthful
<1>3. Range(f.admitted) \subseteq Range(f.entries) /\ Range(f.rejected) \subseteq Range(f.entries)
  BY GatedHeld
<1> HIDE DEF f
<1>4. \A j \in Range(f.entries) : j \in Range(f.admitted) \cup Range(f.rejected)
  <2>1. DOMAIN f.entries = 1 .. gated(f)
    BY <1>1, FlightTypes DEF Shaped
  <2> QED BY <1>1, <2>1 DEF Shaped, Range
<1>5. apply_results(f, ls)[k] =
        IF k \in Range(f.rejected) THEN "stale_epoch"
        ELSE IF k \notin Range(f.admitted) THEN ls[k]
        ELSE IF f.state = "error" THEN "upstream_failed"
        ELSE f.results[CHOOSE i \in DOMAIN f.admitted : f.admitted[i] = k]
  BY DEF apply_results
<1>6. CASE k \notin Range(f.entries)
  BY <1>3, <1>5, <1>6 DEF f
<1>7. CASE k \in Range(f.rejected)
  BY <1>2, <1>3, <1>5, <1>7 DEF Tells, f
<1>8. CASE k \in Range(f.admitted) /\ k \notin Range(f.rejected)
  <2>1. CASE f.state = "error"
    BY <1>3, <1>5, <1>8, <2>1 DEF Tells, f
  <2>2. CASE f.state = "acked"
    <3> DEFINE i == CHOOSE i \in DOMAIN f.admitted : f.admitted[i] = k
    <3>1. i \in DOMAIN f.admitted /\ f.admitted[i] = k
      BY <1>8 DEF Range
    <3>2. apply_results(f, ls)[k] = f.results[i]
      BY <1>5, <1>8, <2>2
    <3> HIDE DEF i
    <3>3. i \in DOMAIN f.results /\ f.results[i] \in {"ok", "rejected"}
      <4>1. DOMAIN f.results = DOMAIN f.admitted /\ f.results \in Seq({"ok", "rejected"})
        BY <1>1, <2>2, FlightTypes DEF Shaped
      <4>2. \A j \in DOMAIN f.results : f.results[j] \in {"ok", "rejected"}
        BY <4>1
      <4> QED BY <3>1, <4>1, <4>2
    <3>4. f.results[i] = "ok" <=> k \in Range(applied)
      BY <1>2, <3>1, <3>3
    <3> QED BY <1>3, <1>8, <3>2, <3>3, <3>4 DEF Tells, f
  <2> QED BY <1>1, <2>1, <2>2
<1> QED BY <1>4, <1>6, <1>7, <1>8

\* The sub-batches of some targets are collected.
LEMMA CollectStep ==
  ASSUME BulkInv, BulkTypeOK', OneFlush', EveryItemAnswered' \/ task'.phase # "done",
         task'.at = task.at,
         NEW C \in SUBSET Targets,
         \A t \in C : buffers[t] = <<>>,
         \A u \in Targets : flights'[u] = IF u \in C THEN NoFlight ELSE flights[u],
         \A k \in Ordinals :
           /\ (\A t \in C : k \notin Range(flights[t].entries)) => lines'[k] = lines[k]
           /\ \A t \in C : k \in Range(flights[t].entries) => Tells(t, k, lines'[k]),
         UNCHANGED <<body, cache, buffers, table, applied, queue>>
  PROVE  BulkInv'
<1>1. /\ Ordinals' = Ordinals /\ Ordinals \subseteq Nat /\ task.at \in Nat
      /\ buffers \in [Targets -> Seq(Ordinals)]
      /\ \A u \in Targets : HeldOf(u) \subseteq Ordinals
  BY BulkTypes, GatedHeld DEF BulkInv, Ordinals
<1>2. \A t \in C : Range(buffers[t]) = {} /\ t \in Targets
  <2>1. \A t \in C : t \in Targets /\ buffers[t] \in Seq(Ordinals)
    BY <1>1
  <2> QED BY <2>1, EmptyFacts
<1>3. /\ Range(NoFlight.entries) = {} /\ Range(NoFlight.admitted) = {}
      /\ Range(NoFlight.rejected) = {} /\ DOMAIN NoFlight.results = {}
      /\ Waiting(NoFlight) = {} /\ Unsent(NoFlight) = {}
  <2>1. /\ Range(NoFlight.entries) = {} /\ Range(NoFlight.admitted) = {}
        /\ Range(NoFlight.rejected) = {} /\ DOMAIN NoFlight.results = {}
        /\ Len(NoFlight.entries) = 0 /\ Len(NoFlight.admitted) = 0 /\ Len(NoFlight.results) = 0
    BY NoFlightFacts, FlightTypes, EmptyFacts, EmptyDomain
  <2> QED BY <2>1, NoFlightFacts DEF Waiting, Unsent
<1>4. \A u \in Targets : HeldOf(u)' = IF u \in C THEN {} ELSE HeldOf(u)
  BY <1>2, <1>3 DEF HeldOf
<1>5. \A u \in Targets : Ahead(u)' \subseteq Ahead(u)
  BY <1>2, <1>3 DEF Ahead
<1>6. Held'
  <2> SUFFICES ASSUME NEW u \in Targets, NEW j \in HeldOf(u)'
               PROVE  /\ j < task.at /\ body[j] \in Keys /\ lines'[j] = "none"
                      /\ cache[body[j]] # None /\ cache[body[j]].target = u
    BY DEF Held
  <2>1. u \notin C /\ j \in HeldOf(u) /\ j \in Ordinals
    BY <1>1, <1>4
  <2>2. \A t \in C : j \notin Range(flights[t].entries)
    <3>1. \A t \in C : j \notin HeldOf(t)
      BY <1>2, <2>1, HeldOnce
    <3> QED BY <3>1 DEF HeldOf
  <2> QED BY <2>1, <2>2 DEF BulkInv, Held
<1>7. FlightsShaped'
  BY <1>2, NoFlightFacts DEF BulkInv, FlightsShaped
<1>8. Ordered'
  BY <1>5 DEF BulkInv, Ordered
<1>9. ResultsTruthful'
  BY <1>3 DEF BulkInv, ResultsTruthful
<1>10. StaleStays'
  <2>1. \A u \in Targets : /\ Range(flights'[u].rejected) \subseteq Range(flights[u].rejected)
                           /\ Range(flights'[u].admitted) \subseteq Range(flights[u].admitted)
    BY <1>3
  <2>2. \A j \in Ordinals : Stale(j)' => Stale(j)
    BY <1>2, <2>1 DEF Stale, Tells
  <2> QED BY <1>1, <2>1, <2>2 DEF BulkInv, StaleStays, admit_write
<1>11. EpochsBehind'
  BY DEF BulkInv, EpochsBehind
<1>12. Tracked'
  <2>1. ASSUME NEW k \in Ordinals
        PROVE  /\ k < task.at /\ lines'[k] = "none" => \E t \in Targets : k \in HeldOf(t)'
               /\ k >= task.at => lines'[k] = "none"
    <3>1. CASE \E t \in C : k \in Range(flights[t].entries)
      <4>1. PICK t \in C : k \in Range(flights[t].entries)
        BY <3>1
      <4>2. lines'[k] # "none"
        BY <4>1 DEF Tells
      <4>3. k < task.at
        BY <1>2, <4>1 DEF BulkInv, Held, HeldOf
      <4> QED BY <1>1, <4>2, <4>3
    <3>2. CASE \A t \in C : k \notin Range(flights[t].entries)
      <4>1. lines'[k] = lines[k]
        BY <3>2
      <4>2. \A t \in C : k \notin HeldOf(t)
        BY <1>2, <3>2 DEF HeldOf
      <4> QED BY <1>4, <4>1, <4>2 DEF BulkInv, Tracked
    <3> QED BY <3>1, <3>2
  <2> QED BY <1>1, <2>1 DEF BulkInv, Tracked
<1>13. LinesTruthful'
  <2>1. ASSUME NEW k \in Ordinals
        PROVE  /\ lines'[k] = "ok" => k \in Range(applied)
               /\ lines'[k] \in {"unresolved", "missing", "stale_epoch", "rejected"}
                    => k \notin Range(applied)
               /\ lines'[k] = "queued" => k \in Range(queue)
    <3>1. CASE \E t \in C : k \in Range(flights[t].entries)
      BY <3>1 DEF Tells
    <3>2. CASE \A t \in C : k \notin Range(flights[t].entries)
      <4>1. lines'[k] = lines[k]
        BY <3>2
      <4> QED BY <4>1 DEF BulkInv, AnswersTruthfully, LinesTruthful
    <3> QED BY <3>1, <3>2
  <2> QED BY <1>1, <2>1 DEF LinesTruthful
<1>14. InBodyOrder'
  <2>1. StaleSticks'
    BY <1>10 DEF StaleStays, Stale, StaleSticks
  <2>2. KeyOrder'
    BY DEF BulkInv, InBodyOrder, KeyOrder
  <2> QED BY <2>1, <2>2 DEF InBodyOrder
<1>15. EveryItemAnswered'
  BY DEF EveryItemAnswered
<1> QED BY <1>6, <1>7, <1>8, <1>9, <1>10, <1>11, <1>12, <1>13, <1>14, <1>15
        DEF BulkInv, AnswersTruthfully

LEMMA FlushedStep ==
  ASSUME BulkInv, NEW t \in Targets, flushed(t)
  PROVE  BulkInv'
<1>1. /\ finished(t) /\ task.phase = "flushing" /\ task \in TaskType
      /\ lines' = apply_results(flights[t], lines)
      /\ flights' = [flights EXCEPT ![t] = NoFlight]
      /\ task' = [task EXCEPT !.phase = "reading"]
      /\ Ordinals' = Ordinals /\ lines \in [Ordinals -> LineKinds]
      /\ flights \in [Targets -> FlightType]
      /\ UNCHANGED <<body, cache, buffers, table, applied, queue>>
  BY BulkTypes DEF BulkInv, flushed, Ordinals
<1>2. task' \in TaskType /\ task'.at = task.at /\ task'.phase = "reading"
  <2>1. "reading" \in Phases
    BY DEF Phases
  <2>2. task' \in TaskType
    BY <1>1, <2>1, Zenon DEF TaskType
  <2> QED BY <1>1, <2>2 DEF TaskType
<1>3. \A u \in Targets : flights'[u] = IF u = t THEN NoFlight ELSE flights[u]
  BY <1>1
<1>4. \A k \in Ordinals :
        /\ k \in Range(flights[t].entries) => Tells(t, k, lines'[k])
        /\ k \notin Range(flights[t].entries) => lines'[k] = lines[k]
  BY <1>1, CollectFacts
<1>5. BulkTypeOK'
  <2>1. lines' \in [Ordinals -> LineKinds]
    <3>1. DOMAIN lines' = Ordinals /\ lines' = [k \in Ordinals |-> lines'[k]]
      BY <1>1 DEF apply_results
    <3>2. \A k \in Ordinals : lines'[k] \in LineKinds
      BY <1>1, <1>4 DEF Tells, LineKinds
    <3> QED BY <3>1, <3>2
  <2>2. flights' \in [Targets -> FlightType]
    BY <1>1, NoFlightFacts
  <2> QED BY <1>1, <1>2, <2>1, <2>2 DEF BulkInv, BulkTypeOK, TaskType, Phases, FlightType
<1>6. OneFlush'
  <2>1. \A u \in Targets : flights'[u].state = "none"
    BY <1>1, <1>3, NoFlightFacts DEF BulkInv, OneFlush, finished
  <2> QED BY <1>2, <2>1 DEF OneFlush
<1>7. buffers[t] = <<>>
  BY <1>1 DEF BulkInv, FlightsShaped, finished
<1> DEFINE C == {t}
<1>8. C \in SUBSET Targets /\ \A u : u \in C <=> u = t
  OBVIOUS
<1>9. /\ \A u \in C : buffers[u] = <<>>
      /\ \A u \in Targets : flights'[u] = IF u \in C THEN NoFlight ELSE flights[u]
      /\ \A k \in Ordinals :
           /\ (\A u \in C : k \notin Range(flights[u].entries)) => lines'[k] = lines[k]
           /\ \A u \in C : k \in Range(flights[u].entries) => Tells(u, k, lines'[k])
  BY <1>3, <1>4, <1>7, <1>8
<1>10. task'.phase # "done" /\ task'.at = task.at
  BY <1>2
<1> HIDE DEF C
<1> QED BY <1>1, <1>5, <1>6, <1>8, <1>9, <1>10, CollectStep

LEMMA RespondStep ==
  ASSUME BulkInv, respond
  PROVE  BulkInv'
<1> DEFINE of(k) == {t \in Targets : k \in Range(flights[t].entries)}
<1>1. /\ task.phase = "final" /\ task \in TaskType
      /\ \A t \in Targets : buffers[t] = <<>> /\ (flights[t] = NoFlight \/ finished(t))
      /\ task' = [task EXCEPT !.phase = "done"]
      /\ lines' = [k \in Ordinals |-> IF of(k) = {} THEN lines[k]
                                      ELSE apply_results(flights[CHOOSE t \in of(k) : TRUE], lines)[k]]
      /\ flights' = [t \in Targets |-> NoFlight]
      /\ Ordinals' = Ordinals /\ lines \in [Ordinals -> LineKinds]
      /\ UNCHANGED <<body, cache, buffers, table, applied, queue>>
  BY BulkTypes DEF BulkInv, respond, Ordinals
<1>2. task' \in TaskType /\ task'.at = task.at /\ task'.phase = "done"
  <2>1. "done" \in Phases
    BY DEF Phases
  <2>2. task' \in TaskType
    BY <1>1, <2>1, Zenon DEF TaskType
  <2> QED BY <1>1, <2>2 DEF TaskType
<1>3. ASSUME NEW k \in Ordinals
      PROVE  /\ (\A t \in Targets : k \notin Range(flights[t].entries)) => lines'[k] = lines[k]
             /\ \A t \in Targets : k \in Range(flights[t].entries) => Tells(t, k, lines'[k])
  <2>1. (\A t \in Targets : k \notin Range(flights[t].entries)) => lines'[k] = lines[k]
    <3>1. (\A t \in Targets : k \notin Range(flights[t].entries)) => of(k) = {}
      OBVIOUS
    <3> QED BY <1>1, <3>1
  <2>2. ASSUME NEW t \in Targets, k \in Range(flights[t].entries)
        PROVE  Tells(t, k, lines'[k])
    <3> DEFINE u == CHOOSE u \in of(k) : TRUE
    <3>1. t \in of(k) /\ of(k) # {}
      BY <2>2
    <3>2. u \in of(k)
      BY <3>1
    <3>3. u = t
      <4>1. u \in Targets /\ k \in Range(flights[u].entries)
        BY <3>2
      <4> HIDE DEF u
      <4> QED BY <2>2, <4>1, HeldOnce DEF HeldOf
    <3>4. lines'[k] = apply_results(flights[u], lines)[k]
      BY <1>1, <3>1
    <3>5. finished(t)
      <4>1. Range(NoFlight.entries) = {}
        BY NoFlightFacts, FlightTypes, EmptyFacts
      <4> QED BY <1>1, <2>2, <4>1
    <3> HIDE DEF u
    <3> QED BY <2>2, <3>3, <3>4, <3>5, CollectFacts
  <2> QED BY <2>1, <2>2
<1>4. BulkTypeOK'
  <2>1. lines' \in [Ordinals -> LineKinds]
    <3>1. DOMAIN lines' = Ordinals /\ lines' = [k \in Ordinals |-> lines'[k]]
      BY <1>1
    <3>2. \A k \in Ordinals : lines'[k] \in LineKinds
      BY <1>1, <1>3 DEF Tells, LineKinds
    <3> QED BY <3>1, <3>2
  <2>2. flights' \in [Targets -> FlightType]
    BY <1>1, NoFlightFacts
  <2> QED BY <1>1, <1>2, <2>1, <2>2 DEF BulkInv, BulkTypeOK, TaskType, Phases, FlightType
<1>5. OneFlush'
  BY <1>2 DEF OneFlush
<1>6. \A t \in Targets : flights'[t] = IF t \in Targets THEN NoFlight ELSE flights[t]
  BY <1>1
<1>7. EveryItemAnswered'
  <2>1. ASSUME NEW k \in Ordinals
        PROVE  lines'[k] # "none"
    <3>1. k < task.at
      <4>1. task.at = Len(body) + 1 /\ Len(body) \in Nat /\ Ordinals = 1 .. Len(body)
        BY <1>1, BulkTypes DEF BulkInv, OneFlush
      <4> QED BY <4>1
    <3>2. CASE lines[k] = "none"
      <4>1. PICK t \in Targets : k \in HeldOf(t)
        BY <3>1, <3>2 DEF BulkInv, Tracked
      <4>2. k \in Range(flights[t].entries)
        <5>1. buffers[t] = <<>> /\ buffers[t] \in Seq(Ordinals)
          BY <1>1, BulkTypes DEF BulkInv
        <5>2. Range(buffers[t]) = {}
          BY <5>1, EmptyFacts
        <5> QED BY <4>1, <5>2 DEF HeldOf
      <4> QED BY <1>3, <4>2 DEF Tells
    <3>3. CASE lines[k] # "none"
      BY <1>3, <3>3 DEF Tells
    <3> QED BY <3>2, <3>3
  <2> QED BY <1>1, <2>1 DEF EveryItemAnswered
<1> DEFINE C == Targets
<1>8. /\ C \in SUBSET Targets /\ \A t \in C : buffers[t] = <<>>
      /\ \A t \in Targets : flights'[t] = IF t \in C THEN NoFlight ELSE flights[t]
      /\ \A k \in Ordinals :
           /\ (\A t \in C : k \notin Range(flights[t].entries)) => lines'[k] = lines[k]
           /\ \A t \in C : k \in Range(flights[t].entries) => Tells(t, k, lines'[k])
  BY <1>1, <1>3, <1>6
<1> HIDE DEF C
<1> QED BY <1>1, <1>2, <1>4, <1>5, <1>7, <1>8, CollectStep

-----------------------------------------------------------------------------
(* The placement backend. *)

\* A cached resolution is never newer than the table: one that fell behind stays behind.
LEMMA MovesStep ==
  ASSUME BulkInv, NEW p \in Keys, table_moves(p)
  PROVE  BulkInv'
<1>1. /\ table \in [Keys -> [target : Targets \cup {None}, epoch : Nat, open : BOOLEAN]]
      /\ cache \in [Keys -> [target : Targets, epoch : Nat] \cup {None}]
      /\ UNCHANGED <<body, task, lines, cache, buffers, flights, applied, queue>>
  BY BulkTypes DEF BulkInv, table_moves
<1>2. PICK t \in Targets, open \in BOOLEAN :
        table' = [table EXCEPT ![p] = [target |-> t, epoch |-> table[p].epoch + 1, open |-> open]]
  BY DEF table_moves
<1>3. \A q \in Keys : table[q].epoch \in Nat
  BY <1>1
<1>4. BulkTypeOK'
  <2>1. [target |-> t, epoch |-> table[p].epoch + 1, open |-> open]
          \in [target : Targets \cup {None}, epoch : Nat, open : BOOLEAN]
    BY <1>3
  <2>2. table' \in [Keys -> [target : Targets \cup {None}, epoch : Nat, open : BOOLEAN]]
    BY <1>1, <1>2, <2>1
  <2> QED BY <1>1, <2>2 DEF BulkInv, BulkTypeOK, Ordinals
<1>5. \A q \in Keys : /\ table'[q].epoch = IF q = p THEN table[q].epoch + 1 ELSE table[q].epoch
                      /\ q # p => table'[q] = table[q]
  BY <1>1, <1>2
<1>6. \A q \in Keys : cache[q] # None => cache[q].epoch \in Nat /\ cache[q].epoch <= table[q].epoch
  BY <1>1 DEF BulkInv, EpochsBehind
<1>7. EpochsBehind'
  BY <1>1, <1>3, <1>5, <1>6 DEF EpochsBehind
<1>8. \A q \in Keys : cache[q] # None /\ ~admit_write(q, cache[q].epoch)
                      => ~admit_write(q, cache[q].epoch)'
  <2>1. \A q \in Keys : cache[q] # None => cache[q].epoch # table[q].epoch + 1
    BY <1>3, <1>6
  <2> QED BY <1>1, <1>5, <2>1 DEF admit_write
<1>9. StaleStays'
  <2>1. \A j \in Ordinals : Stale(j)' <=> Stale(j)
    BY <1>1 DEF Stale
  <2>2. Ordinals' = Ordinals
    BY <1>1 DEF Ordinals
  <2> QED BY <1>1, <1>8, <2>1, <2>2 DEF BulkInv, StaleStays
<1>10. Held' /\ FlightsShaped' /\ OneFlush' /\ Ordered' /\ ResultsTruthful'
  BY <1>1 DEF BulkInv, Held, HeldOf, FlightsShaped, OneFlush, Ordered, Ahead, ResultsTruthful
<1>11. Tracked' /\ AnswersTruthfully' /\ InBodyOrder'
  BY <1>1 DEF BulkInv, Tracked, HeldOf, AnswersTruthfully, EveryItemAnswered, LinesTruthful,
     InBodyOrder, KeyOrder, StaleSticks, Ordinals
<1> QED BY <1>4, <1>7, <1>9, <1>10, <1>11 DEF BulkInv

-----------------------------------------------------------------------------
(* The invariant. *)

LEMMA BulkInitInv ==
  ASSUME BulkInit
  PROVE  BulkInv
<1>1. PICK mode \in Modes, n \in 0 .. MaxItems :
        /\ task = [mode |-> mode, phase |-> "reading", at |-> 1, attempt |-> 0]
        /\ body \in [1 .. n -> Keys \cup {Unresolved}
                                   \cup (IF mode = "streamed" THEN {Malformed} ELSE {})]
  BY DEF BulkInit
<1>2. n \in Nat /\ body \in Seq(Keys \cup {Unresolved, Malformed}) /\ Len(body) = n
  <2>1. n \in Nat
    BY BulkAssumption
  <2>2. body \in [1 .. n -> Keys \cup {Unresolved, Malformed}]
    BY <1>1
  <2> QED BY <2>1, <2>2
<1>3. Ordinals = 1 .. n
  BY <1>2 DEF Ordinals
<1>4. /\ lines = [k \in Ordinals |-> "none"] /\ cache = [p \in Keys |-> None]
      /\ buffers = [t \in Targets |-> <<>>] /\ flights = [t \in Targets |-> NoFlight]
      /\ table \in [Keys -> [target : Targets \cup {None}, epoch : {0}, open : {TRUE}]]
      /\ applied = <<>> /\ queue = <<>>
  BY DEF BulkInit
<1>5. <<>> \in Seq(Ordinals) /\ Range(<<>>) = {} /\ Increasing(<<>>) /\ Len(<<>>) = 0 /\ DOMAIN <<>> = {}
  <2>1. <<>> \in Seq(Ordinals)
    OBVIOUS
  <2> QED BY <2>1, EmptyFacts, EmptyDomain
<1>6. /\ Range(NoFlight.entries) = {} /\ Range(NoFlight.admitted) = {}
      /\ Range(NoFlight.rejected) = {} /\ DOMAIN NoFlight.results = {}
      /\ Waiting(NoFlight) = {} /\ Unsent(NoFlight) = {}
  <2>1. /\ Range(NoFlight.entries) = {} /\ Range(NoFlight.admitted) = {}
        /\ Range(NoFlight.rejected) = {} /\ DOMAIN NoFlight.results = {}
        /\ Len(NoFlight.entries) = 0 /\ Len(NoFlight.admitted) = 0 /\ Len(NoFlight.results) = 0
    BY NoFlightFacts, FlightTypes, EmptyFacts, EmptyDomain
  <2> QED BY <2>1, NoFlightFacts DEF Waiting, Unsent
<1>7. BulkTypeOK
  <2>1. task \in [mode : Modes, phase : {"reading", "flushing", "final", "done", "failed"},
                  at : 1 .. Len(body) + 1, attempt : 0 .. MaxAttempts]
    BY <1>1, <1>2, BulkAssumption
  <2>2. lines \in [Ordinals -> LineKinds]
    BY <1>4 DEF LineKinds
  <2>3. /\ cache \in [Keys -> [target : Targets, epoch : Nat] \cup {None}]
        /\ buffers \in [Targets -> Seq(Ordinals)] /\ flights \in [Targets -> FlightType]
        /\ table \in [Keys -> [target : Targets \cup {None}, epoch : Nat, open : BOOLEAN]]
    <3>1. buffers \in [Targets -> Seq(Ordinals)] /\ flights \in [Targets -> FlightType]
      BY <1>4, <1>5, NoFlightFacts
    <3>2. cache \in [Keys -> [target : Targets, epoch : Nat] \cup {None}]
      BY <1>4
    <3>3. \A p \in Keys : table[p] \in [target : Targets \cup {None}, epoch : Nat, open : BOOLEAN]
      <4>1. \A p \in Keys : table[p] \in [target : Targets \cup {None}, epoch : {0}, open : {TRUE}]
        BY <1>4
      <4>2. {0} \subseteq Nat /\ {TRUE} \subseteq BOOLEAN
        OBVIOUS
      <4> QED BY <4>1, <4>2, Zenon
    <3>4. table = [p \in Keys |-> table[p]]
      BY <1>4
    <3> QED BY <3>1, <3>2, <3>3, <3>4
  <2>4. \A t \in Targets : Len(buffers[t]) < FlushThreshold
    BY <1>4, <1>5, BulkAssumption
  <2> QED BY <1>2, <1>4, <1>5, <2>1, <2>2, <2>3, <2>4 DEF BulkTypeOK, FlightType
<1>8. \A t \in Targets : HeldOf(t) = {} /\ Ahead(t) = {}
  BY <1>4, <1>5, <1>6 DEF HeldOf, Ahead
<1>9. Held /\ Ordered
  BY <1>8 DEF Held, Ordered
<1>10. FlightsShaped
  BY <1>4, <1>5, NoFlightFacts DEF FlightsShaped
<1>11. OneFlush
  BY <1>1, <1>4, NoFlightFacts DEF OneFlush
<1>12. ResultsTruthful
  BY <1>4, <1>6 DEF ResultsTruthful
<1>13. StaleStays
  BY <1>4, <1>6 DEF StaleStays, Stale
<1>14. EpochsBehind
  BY <1>4 DEF EpochsBehind
<1>15. Tracked
  BY <1>1, <1>3, <1>4, <1>5 DEF Tracked
<1>16. AnswersTruthfully
  BY <1>1, <1>4 DEF AnswersTruthfully, EveryItemAnswered, LinesTruthful
<1>17. InBodyOrder
  BY <1>4, <1>5 DEF InBodyOrder, KeyOrder, StaleSticks
<1> QED BY <1>7, <1>9, <1>10, <1>11, <1>12, <1>13, <1>14, <1>15, <1>16, <1>17 DEF BulkInv

LEMMA PrepareStep ==
  ASSUME BulkInv, NEW k \in Ordinals,
         \/ item_unresolved(k) \/ resolve_placement(k) \/ resolve_unavailable(k)
         \/ buffer_and_flush(k) \/ \E taken \in BOOLEAN : enqueue(k, taken)
  PROVE  BulkInv'
<1>1. CASE item_unresolved(k)
  <2>1. "unresolved" \in LineKinds
    BY DEF LineKinds
  <2> QED BY <1>1, <2>1, LineStep DEF item_unresolved
<1>2. CASE resolve_placement(k)
  <2>1. "missing" \in LineKinds
    BY DEF LineKinds
  <2>2. CASE table[body[k]].target # None
    BY <1>2, <2>2, CacheStep DEF resolve_placement
  <2>3. CASE table[body[k]].target = None
    BY <1>2, <2>1, <2>3, LineStep DEF resolve_placement, misses
  <2> QED BY <2>2, <2>3
<1>3. CASE resolve_unavailable(k)
  <2>1. "missing" \in LineKinds
    BY DEF LineKinds
  <2>2. CASE task.attempt + 1 < MaxAttempts
    <3>1. /\ task' = [task EXCEPT !.attempt = task.attempt + 1] /\ task \in TaskType
          /\ UNCHANGED <<body, lines, cache, buffers, flights, table, applied, queue>>
          /\ task.phase = "reading"
      BY <1>3, <2>2, BulkTypes DEF BulkInv, resolve_unavailable, misses, reading
    <3>2. task.attempt \in 0 .. MaxAttempts
      BY <3>1 DEF TaskType
    <3>3. task.attempt + 1 \in 0 .. MaxAttempts
      BY <2>2, <3>2, BulkAssumption
    <3>4. task' \in TaskType
      BY <3>1, <3>3, Zenon DEF TaskType
    <3>5. task'.at = task.at /\ task'.phase = task.phase
      BY <3>1 DEF TaskType
    <3> QED BY <3>1, <3>4, <3>5, PhaseStep
  <2>3. CASE ~(task.attempt + 1 < MaxAttempts)
    BY <1>3, <2>1, <2>3, LineStep DEF resolve_unavailable, misses
  <2> QED BY <2>2, <2>3
<1>4. CASE buffer_and_flush(k)
  BY <1>4, BufferStep
<1>5. ASSUME NEW taken \in BOOLEAN, enqueue(k, taken)
      PROVE  BulkInv'
  <2> DEFINE line == IF taken THEN "queued" ELSE "enqueue_failed"
  <2>1. line \in LineKinds /\ line \notin {"none", "ok", "stale_epoch"}
    BY DEF LineKinds
  <2>2. /\ line = "queued" => queue' = Append(queue, k)
        /\ line # "queued" => queue' = queue
        /\ lines' = [lines EXCEPT ![k] = line] /\ task' = NextItem /\ reading(k)
        /\ UNCHANGED <<body, cache, buffers, flights, table, applied>>
    BY <1>5 DEF enqueue, hits
  <2> HIDE DEF line
  <2> QED BY <2>1, <2>2, LineStep
<1> QED BY <1>1, <1>2, <1>3, <1>4, <1>5

LEMMA FlushStep ==
  ASSUME BulkInv, Flush
  PROVE  BulkInv'
<1>1. PICK t \in Targets :
        \/ gate(t) \/ op_fails(t) \/ batch_acked(t) \/ flushed(t) \/ flush_start(t)
        \/ \E result \in {"ok", "rejected"} : op_answered(t, result)
  BY DEF Flush
<1> QED BY <1>1, GateStep, FailsStep, AckedStep, FlushedStep, FlushStartStep, AnsweredStep

LEMMA TaskStep ==
  ASSUME BulkInv, stream_fails \/ body_read
  PROVE  BulkInv'
<1>1. task \in TaskType
  BY BulkTypes DEF BulkInv
<1>2. \A x \in TaskType, ph \in Phases : [x EXCEPT !.phase = ph] \in TaskType
  BY Zenon DEF TaskType
<1>3. CASE stream_fails
  <2>1. /\ task' = [task EXCEPT !.phase = "failed"]
        /\ UNCHANGED <<body, lines, cache, buffers, flights, table, applied, queue>>
    BY <1>3 DEF stream_fails
  <2>2. task' \in TaskType
    BY <1>1, <1>2, <2>1 DEF Phases
  <2>3. task'.at = task.at /\ task'.phase = "failed"
    BY <1>1, <2>1 DEF TaskType
  <2> QED BY <2>1, <2>2, <2>3, PhaseStep
<1>4. CASE body_read
  <2>1. /\ task' = [task EXCEPT !.phase = "final"] /\ task.at = Len(body) + 1
        /\ UNCHANGED <<body, lines, cache, buffers, flights, table, applied, queue>>
    BY <1>4 DEF body_read
  <2>2. task' \in TaskType
    BY <1>1, <1>2, <2>1 DEF Phases
  <2>3. task'.at = task.at /\ task'.phase = "final"
    BY <1>1, <2>1 DEF TaskType
  <2> QED BY <2>1, <2>2, <2>3, PhaseStep
<1> QED BY <1>3, <1>4

LEMMA BulkInvInductive ==
  ASSUME BulkInv, [BulkNext]_bulkVars
  PROVE  BulkInv'
<1>1. CASE UNCHANGED bulkVars
  <2>1. task \in TaskType
    BY BulkTypes DEF BulkInv
  <2>2. /\ task' = task
        /\ UNCHANGED <<body, lines, cache, buffers, flights, table, applied, queue>>
    BY <1>1 DEF bulkVars
  <2>3. task.phase = "final" => task.at = Len(body) + 1
    BY DEF BulkInv, OneFlush
  <2> QED BY <2>1, <2>2, <2>3, PhaseStep
<1>2. CASE Prepare
  BY <1>2, PrepareStep DEF Prepare
<1>3. CASE stream_fails \/ body_read
  BY <1>3, TaskStep
<1>4. CASE Flush
  BY <1>4, FlushStep
<1>5. CASE respond
  BY <1>5, RespondStep
<1>6. CASE \E p \in Keys : table_moves(p)
  BY <1>6, MovesStep
<1> QED BY <1>1, <1>2, <1>3, <1>4, <1>5, <1>6 DEF BulkNext, RequestStep, Done

\* The invariant holds in every state of every bulk request, for a body of any
\* length: ingest_bulk, ingest_bulk_streamed and ingest_bulk_async alike.
THEOREM BulkInvariant == BulkSpec => []BulkInv
<1>1. BulkInit => BulkInv
  BY BulkInitInv
<1>2. BulkInv /\ [BulkNext]_bulkVars => BulkInv'
  BY BulkInvInductive
<1> QED BY <1>1, <1>2, PTL DEF BulkSpec

\* When the response is rendered every item has a line, and a line that says an
\* item was applied, refused or queued says what happened to that item: the
\* re-interleaving of sub-batches by ordinal loses and swaps nothing.
THEOREM BulkAnswers == BulkSpec => []AnswersTruthfully
<1>1. BulkInv => AnswersTruthfully
  BY DEF BulkInv
<1> QED BY <1>1, BulkInvariant, PTL

\* Items of one partition and index take effect in body order and at most once,
\* and none after one that the write gate turned away: a key has one target for the
\* whole request, so its items never travel in two sub-batches at a time.
THEOREM BulkOrder == BulkSpec => []InBodyOrder
<1>1. BulkInv => InBodyOrder
  BY DEF BulkInv
<1> QED BY <1>1, BulkInvariant, PTL
=============================================================================
