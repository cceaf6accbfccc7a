----------------------------- MODULE Directives -----------------------------
(***************************************************************************)
(* Diagnostics directives on one instance of the fleet: how a published set *)
(* reaches it (etcd/src/watch.rs, server/src/handler.rs                     *)
(* publish_directives), what it does to a request                           *)
(* (engine/src/pipeline.rs diagnostics, observe/src/directive.rs), and the  *)
(* records a finished request leaves (observe/src/explain.rs,               *)
(* breakglass.rs, stats.rs, tenant_metrics.rs).                             *)
(*                                                                          *)
(* etcd is external: a key, and a watch that delivers its later changes in  *)
(* order until the connection ends.  Each await of the watch task is a step *)
(* boundary, and so is each atomic operation of the request path.           *)
(***************************************************************************)
EXTENDS Clock, Sequences, FiniteSets, FiniteSetsExt

CONSTANTS
  Threads,      \* concurrent requests
  Arrivals,     \* requests: attributes, X-Debug-Directive header or None, outcome, whether
                \* the gate and the routes let them through, and whether they could stream
  Documents,    \* what operators publish: sets of directives on the wire
  Settings,     \* the instances considered, records of the fields below
  Capacity,     \* the explain store and the break-glass tape
  None

\* A setting says whether directives come from etcd or are published to the
\* instance, the baseline level and capture, and whether a capture sink is wired.  Its bounds: requests, published
\* values, lost connections and restarts, and time.  Lifetimes and expiries are
\* unsigned, and a header's level is one of DiagLevel (parse_level).
ASSUME DirectivesAssumption ==
  /\ Capacity \in Nat \ {0} /\ IsFiniteSet(Threads) /\ None \notin Documents
  /\ \A doc \in Documents : \A w \in doc : w.ttl_secs \in Nat
  /\ \A a \in Arrivals : a.header = None \/ (a.header.level \in 0 .. 3 /\ a.header.exp \in Nat)
  /\ \A s \in Settings : /\ {s.etcd, s.capture, s.sink} \subseteq BOOLEAN /\ s.level \in 0 .. 3
                         /\ {s.requests, s.revs, s.faults, s.time} \subseteq Nat

VARIABLES
  setting,   \* this instance's setting
  log,       \* every value the published key has had; None once deleted
  store,     \* the watch task and the directive set in force
  obs,       \* the records of finished requests
  task       \* thread -> its request

dirVars == <<now, setting, log, store, obs, task>>

-----------------------------------------------------------------------------
(* Directives: observe/src/decode.rs, directive.rs, server/src/directive.rs. *)

\* Off, Shape, ShapeTiming, ShapeRewriteDiff.
Levels == 0 .. 3

Value(r) == IF r = 0 THEN None ELSE log[r]

\* decode_one() refuses unknown keys and levels, a missing or zero ttl and a sampling
\* rate out of range.
decodable(w) == ~w.unknown_key /\ w.level \in Levels /\ w.ttl_secs > 0 /\ w.sample_per_mille \in 0 .. 1000

\* A set with one bad directive is refused whole.
decodes(doc) == \A w \in doc : decodable(w)

\* The directives of a document decoded at a time: lifetimes start at the decoding.
decode_directive_set(doc, at) ==
  {[match |-> w.match, level |-> w.level, sample_per_mille |-> w.sample_per_mille,
    ring_buffer |-> w.ring_buffer, capture |-> w.capture, expires_at |-> at + w.ttl_secs] :
      w \in {v \in doc : decodable(v)}}

\* An absent selector is a wildcard.
matches(m, attrs) == \A f \in DOMAIN m : m[f] # None => m[f] = attrs[f]

\* fnv1a(id) % 1000: spread over the buckets, the same for one id.
bucket(id) == (id * 400) % 1000

is_sampled(d, id) == bucket(id) < d.sample_per_mille

applies(d, attrs, at, id) == at < d.expires_at /\ matches(d.match, attrs) /\ is_sampled(d, id)

\* evaluate(), wants_ring_buffer(), wants_capture().
evaluate(set, attrs, at, id) ==
  LET on == {d \in set : applies(d, attrs, at, id)}
  IN [level |-> Max({0} \cup {d.level : d \in on}),
      ring |-> \E d \in on : d.ring_buffer,
      traffic |-> \E d \in on : d.capture]

\* verify(): a signed header that has not run out is one directive.
verify(h, at) ==
  IF h # None /\ h.signed /\ h.exp > at
  THEN {[match |-> h.match, level |-> h.level, sample_per_mille |-> 1000,
         ring_buffer |-> h.ring_buffer, capture |-> h.capture, expires_at |-> h.exp]}
  ELSE {}

\* diagnostics(): the baseline, raised by the set and by the header.
diagnostics(set, h, attrs, at, id) ==
  LET e == evaluate(set \cup verify(h, at), attrs, at, id)
  IN [e EXCEPT !.level = Max({@, setting.level}), !.traffic = @ \/ setting.capture]

-----------------------------------------------------------------------------
(* The watch task: etcd/src/watch.rs. *)

Off == [pc |-> "off", set |-> {}, doc |-> {}, rev |-> 0, read |-> 0, seen |-> 0, missed |-> FALSE, faults |-> 0]

\* apply_value(): a value that does not decode leaves the last good set in force.
\* doc, rev and missed are history: where the set comes from, and whether the task
\* has passed over a change.
apply_value(s, r) ==
  IF decodes(Value(r))
  THEN [s EXCEPT !.set = decode_directive_set(Value(r), now), !.doc = Value(r), !.rev = r, !.missed = FALSE]
  ELSE s

\* A deleted key is an empty set.
clear(s, r) == [s EXCEPT !.set = {}, !.doc = {}, !.rev = r, !.missed = FALSE]

\* The published key changes.
Publish(doc) ==
  /\ setting.etcd /\ Len(log) < setting.revs
  /\ doc # Value(Len(log))
  /\ log' = Append(log, doc)
  /\ UNCHANGED <<now, setting, store, obs, task>>

\* connect(): the first read; a missing or malformed value is an empty set.
Start ==
  LET r == Len(log)
      empty == [clear(store, r) EXCEPT !.pc = "connecting"]
  IN /\ setting.etcd /\ store.pc = "off"
     /\ store' = IF Value(r) = None THEN empty ELSE apply_value(empty, r)
     /\ UNCHANGED <<now, setting, log, obs, task>>

\* Mutant, in no specification.
reread_value_skipped(s, r) == [s EXCEPT !.missed = s.missed]

\* The value found by a re-read: a missing key leaves the set in force.
reread_value(s, r) ==
  IF Value(r) # None THEN apply_value(s, r) ELSE [s EXCEPT !.missed = @ \/ s.doc # {}]

\* watch_once(), first await: the key is read again.
Reread ==
  /\ store.pc = "connecting"
  /\ store' = [reread_value(store, Len(log)) EXCEPT !.pc = "read", !.read = Len(log)]
  /\ UNCHANGED <<now, setting, log, obs, task>>

\* The revision a watch starts behind: it asks for no start revision.
watch_from == Len(log)

\* Second await: the watch is established.
Watch ==
  /\ store.pc = "read"
  /\ store' = [store EXCEPT !.pc = "watching", !.seen = watch_from,
                            !.missed = @ \/ store.read < watch_from]
  /\ UNCHANGED <<now, setting, log, obs, task>>

\* One event of the stream: a put or a delete.
Event ==
  LET r == store.seen + 1 IN
  /\ store.pc = "watching" /\ r <= Len(log)
  /\ store' = [(IF Value(r) = None THEN clear(store, r) ELSE apply_value(store, r)) EXCEPT !.seen = r]
  /\ UNCHANGED <<now, setting, log, obs, task>>

\* The stream ends or etcd errors, or the instance is restarted.
Disconnect ==
  /\ store.pc \in {"connecting", "read", "watching"} /\ store.faults < setting.faults
  /\ store' = [store EXCEPT !.pc = "waiting", !.faults = @ + 1]
  /\ UNCHANGED <<now, setting, log, obs, task>>

Restart ==
  /\ setting.etcd /\ store.pc # "off" /\ store.faults < setting.faults
  /\ store' = [Off EXCEPT !.faults = store.faults + 1]
  /\ UNCHANGED <<now, setting, log, obs, task>>

\* Mutant, in no specification.
watch_loop_once == FALSE

\* watch_loop(): after RECONNECT_DELAY the task goes round again, whatever ended it.
watch_loop == store.pc = "waiting"

Reconnect ==
  /\ watch_loop
  /\ store' = [store EXCEPT !.pc = "connecting"]
  /\ UNCHANGED <<now, setting, log, obs, task>>

WatchTask == Reread \/ Watch \/ Event \/ Reconnect

-----------------------------------------------------------------------------
(* A request: server/src/handler.rs handle and its streaming siblings,           *)
(* engine/src/pipeline.rs handle_with_capture and its streaming siblings.        *)

Idle == [pc |-> "idle", id |-> 0, attrs |-> None, header |-> None, ok |-> TRUE, streamed |-> FALSE, at |-> 0,
         set |-> {}, out |-> None]

\* away is history: the ids that no request of the data plane has.
Records == [seq |-> 0, explain |-> <<>>, tape |-> <<>>, total |-> 0, ok |-> 0, error |-> 0, tenants |-> <<>>,
            teed |-> {}, away |-> 0]

\* Mutant, in no specification.
next_request_id_reused == IF obs.seq = 0 THEN 1 ELSE obs.seq

\* fetch_add(1) + 1.
next_request_id == obs.seq + 1

\* Push at the end of a bounded deque.
pushed(deque, x) == Append(IF Len(deque) >= Capacity THEN Tail(deque) ELSE deque, x)

\* ExplainStore::get(): the oldest trace with an id.
explained(id) == {k \in DOMAIN obs.explain : obs.explain[k].id = id}
explain(id) == obs.explain[Min(explained(id))]

\* An introspection or admin route, or a refusal of the gate, returns at once: its id is
\* taken, and nothing is recorded or counted.
turned_away == [obs EXCEPT !.seq = next_request_id, !.away = @ + 1]

TurnAway(a) ==
  /\ a.served = FALSE /\ obs.seq < setting.requests
  /\ obs' = turned_away
  /\ UNCHANGED <<now, setting, log, store, task>>

\* publish_directives(): without etcd, an instance takes what is posted to it by a
\* caller that it knows, over TLS; anything it refuses changes nothing.
publish_directives(doc) ==
  /\ ~setting.etcd /\ Len(log) < setting.revs
  /\ decodes(doc)
  /\ log' = Append(log, doc)
  /\ store' = [store EXCEPT !.set = decode_directive_set(doc, now), !.doc = doc, !.rev = Len(log) + 1]
  /\ obs' = turned_away
  /\ UNCHANGED <<now, setting, task>>

\* Mutant, in no specification.
streams_past_sink(a) == a.streams

\* forward_plan(), wants_search_stream(), wants_bulk_stream(): with a capture sink wired
\* every body is buffered.
streams(a) == a.streams /\ ~setting.sink

Receive(t, a) ==
  /\ task[t].pc = "idle" /\ obs.seq < setting.requests
  /\ a.served
  /\ task' = [task EXCEPT ![t] = [Idle EXCEPT !.pc = "dispatched", !.id = next_request_id, !.attrs = a.attrs,
                                    !.header = a.header, !.ok = a.ok, !.streamed = streams(a)]]
  /\ obs' = [obs EXCEPT !.seq = next_request_id]
  /\ UNCHANGED <<now, setting, log, store>>

\* The response is there, or its head: its trace is recorded.  What is streamed is not
\* judged (forward_streamed, search_streamed, finish_streamed_trace).
record(t) ==
  /\ task[t].pc = "dispatched"
  /\ obs' = [obs EXCEPT !.explain = pushed(@, [id |-> task[t].id, tenant |-> task[t].attrs.tenant])]
  /\ task' = [task EXCEPT ![t].pc = IF task[t].streamed THEN "counting" ELSE "recorded"]
  /\ UNCHANGED <<now, setting, log, store>>

\* The time is read, then the set in force is loaded, once.
load(t) ==
  /\ task[t].pc = "recorded"
  /\ task' = [task EXCEPT ![t].pc = "loaded", ![t].at = now, ![t].set = store.set]
  /\ UNCHANGED <<now, setting, log, store, obs>>

\* Mutant, in no specification.
judged_reloaded(t) ==
  [diagnostics(task[t].set, task[t].header, task[t].attrs, task[t].at, task[t].id) EXCEPT
     !.traffic = diagnostics(store.set, task[t].header, task[t].attrs, task[t].at, task[t].id).traffic]

\* The decision, from that one set.
judged(t) == diagnostics(task[t].set, task[t].header, task[t].attrs, task[t].at, task[t].id)

diagnose(t) ==
  /\ task[t].pc = "loaded"
  /\ task' = [task EXCEPT ![t].pc = "counting", ![t].out = judged(t)]
  /\ obs' = IF judged(t).ring THEN [obs EXCEPT !.tape = pushed(@, task[t].id)] ELSE obs
  /\ UNCHANGED <<now, setting, log, store>>

\* Metrics::record(): the total first, then the bucket of the outcome.
count_first(t) == [obs EXCEPT !.total = @ + 1]

count(t) ==
  /\ task[t].pc = "counting"
  /\ obs' = count_first(t)
  /\ task' = [task EXCEPT ![t].pc = "counted"]
  /\ UNCHANGED <<now, setting, log, store>>

\* record_tenant_metrics(): the tenant is looked up in the explain store, from which
\* later requests may have pushed it.
tenant_of(t) ==
  IF explained(task[t].id) = {} THEN None ELSE explain(task[t].id).tenant

\* A capture sink is wired and the decision selected this request; what is streamed is
\* never selected.
tee_capture(t) == ~task[t].streamed /\ task[t].out.traffic /\ setting.sink

\* after_response(), after_streamed().
after_response(t) ==
  LET tn == tenant_of(t)
      teed == IF tee_capture(t) THEN {task[t].id} ELSE {}
      counted == IF task[t].ok THEN [obs EXCEPT !.ok = @ + 1, !.teed = @ \cup teed]
                 ELSE [obs EXCEPT !.error = @ + 1, !.teed = @ \cup teed]
  IN /\ task[t].pc = "counted"
     /\ obs' = IF tn = None THEN counted
               ELSE [counted EXCEPT !.tenants = Append(@, [tenant |-> tn, of |-> task[t].attrs.tenant])]
     /\ task' = [task EXCEPT ![t].pc = "answered"]
     /\ UNCHANGED <<now, setting, log, store>>

Leave(t) ==
  /\ task[t].pc = "answered"
  /\ task' = [task EXCEPT ![t] = Idle]
  /\ UNCHANGED <<now, setting, log, store, obs>>

-----------------------------------------------------------------------------
DirectivesInit ==
  /\ now = 0 /\ setting \in Settings
  /\ log = <<>> /\ store = Off /\ obs = Records
  /\ task = [t \in Threads |-> Idle]

DirectivesNext ==
  \/ \E doc \in Documents \cup {None} : Publish(doc)
  \/ \E doc \in Documents : publish_directives(doc)
  \/ Start \/ WatchTask \/ Disconnect \/ Restart
  \/ \E a \in Arrivals : TurnAway(a)
  \/ \E t \in Threads, a \in Arrivals : Receive(t, a)
  \/ \E t \in Threads : record(t) \/ load(t) \/ diagnose(t) \/ count(t) \/ after_response(t) \/ Leave(t)
  \/ ClockTick /\ now < setting.time /\ UNCHANGED <<setting, log, store, obs, task>>

DirectivesSpec == DirectivesInit /\ [][DirectivesNext]_dirVars /\ WF_dirVars(WatchTask)

-----------------------------------------------------------------------------
(* Properties. *)

\* Type invariant: what is in force was published, rings keep their capacity, and
\* request ids never pass the counter.
DirectivesTypeOK ==
  /\ setting \in Settings
  /\ store.pc \in {"off", "connecting", "read", "watching", "waiting"}
  /\ store.doc \in Documents \cup {{}} /\ store.rev <= Len(log) /\ store.seen <= Len(log)
  /\ Len(obs.explain) <= Capacity /\ Len(obs.tape) <= Capacity
  /\ \A t \in Threads : task[t].id <= obs.seq

\* What asks for something of thread t's request, if a document was decoded at a time.
Asking(t, doc, at) ==
  {w \in doc : /\ task[t].at < at + w.ttl_secs
               /\ matches(w.match, task[t].attrs) /\ is_sampled(w, task[t].id)}
    \cup {h \in {task[t].header} \ {None} :
            h.signed /\ task[t].at < h.exp /\ matches(h.match, task[t].attrs)}

\* What they and the baseline ask for.
Asked(t, doc, at) ==
  LET asking == Asking(t, doc, at) IN
  [level |-> Max({setting.level} \cup {w.level : w \in asking}),
   ring |-> \E w \in asking : w.ring_buffer,
   traffic |-> setting.capture \/ \E w \in asking : w.capture]

\* The documents that an instance may have in force: none, or a published one of
\* which every directive is sound.
Published == {{}} \cup {log[r] : r \in {k \in 1 .. Len(log) : log[k] # None /\ \A w \in log[k] : decodable(w)}}

\* Decided on: a request that is not streamed, once the decision is taken.
Decided(t) == task[t].pc \in {"counting", "counted", "answered"} /\ ~task[t].streamed

\* What a request is subjected to is what the baseline, its own signed header and ONE
\* published document ask for: never a mixture of two sets, half of a refused one, or
\* a directive past its lifetime (pipeline.rs diagnostics, decode.rs, etcd/lib.rs
\* apply_value).
OneDocument ==
  \A t \in Threads : Decided(t) =>
    \E doc \in Published, at \in 0 .. task[t].at : task[t].out = Asked(t, doc, at)

\* Where a capture sink is wired, no answered exchange gets past it on a path that keeps
\* no body: each is decided on, and is in the capture exactly if the baseline, its own
\* signed header or the one document it was judged by asked for it.  Without a sink
\* nothing is captured (handler.rs forward_plan, wants_search_stream,
\* wants_bulk_stream, tee_capture).
CaptureFollows ==
  /\ setting.sink =>
       \A t \in Threads : task[t].pc = "answered" =>
         \E doc \in Published, at \in 0 .. task[t].at :
           LET asked == Asked(t, doc, at) IN task[t].out = asked /\ (task[t].id \in obs.teed <=> asked.traffic)
  /\ ~setting.sink => obs.teed = {}

\* Without a restart an instance never goes back to an older published value than the
\* one it applies, however often it reconnects (watch.rs watch_once).
NeverBackwards == [][store'.pc # "off" /\ store.pc # "off" => store'.rev >= store.rev]_dirVars

Latest == IF Value(Len(log)) = None THEN {} ELSE Value(Len(log))

\* A watch that has delivered everything has the present value in force, unless that
\* value does not decode, or a deletion fell into a disconnection, or a change between
\* the re-read and the watch (watch.rs watch_once, lib.rs apply_value).
CurrentUnlessMissed ==
  store.pc = "watching" /\ store.seen = Len(log) /\ decodes(Latest) /\ ~store.missed => store.doc = Latest

\* A watch that has delivered everything has the present value in force if it decodes:
\* no update is lost by a disconnection (watch.rs watch_once).
NothingMissed ==
  store.pc = "watching" /\ store.seen = Len(log) /\ decodes(Latest) => store.doc = Latest

\* Through lost connections too, a running instance comes to have the published value in
\* force, as long as operators do not change it for ever, unless that value does not
\* decode, the instance restarts first or the change is passed over (watch.rs watch_loop).
Propagates ==
  (setting.etcd /\ store.pc # "off") ~>
    (store.doc = Latest \/ ~decodes(Latest) \/ store.pc = "off" \/ store.missed)

\* An instance moves with what is published, forwards only, and arrives.
CatchesUp == NeverBackwards /\ Propagates

\* While requests run side by side, what is explained under a request's id is that
\* request's own trace, and its tenant's count is its own (handler.rs next_request_id,
\* record_tenant_metrics, explain.rs).
ExplainOwn ==
  /\ \A t \in Threads : task[t].pc \in {"recorded", "loaded", "counting", "counted"} /\ explained(task[t].id) # {} =>
       explain(task[t].id).tenant = task[t].attrs.tenant
  /\ \A k \in DOMAIN obs.tenants : obs.tenants[k].tenant = obs.tenants[k].of

\* A snapshot of the counters never shows more outcomes than requests, and none is
\* lost: at rest they add up, and every id that was given is a counted request's or one
\* that was turned away before the pipeline (stats.rs record, handler.rs handle).
Tallies ==
  /\ obs.ok + obs.error <= obs.total
  /\ (\A t \in Threads : task[t].pc \in {"idle", "answered"}) =>
       obs.ok + obs.error = obs.total /\ obs.total + obs.away = obs.seq

\* What is recorded of concurrent requests is true: explanations and tenant counts are
\* each request's own, and the counters add up.
RecordsTruthful == ExplainOwn /\ Tallies
=============================================================================
