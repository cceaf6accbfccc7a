------------------------------ MODULE Requests ------------------------------
(***************************************************************************)
(* The life of tenant requests: the server's gate and choice of path        *)
(* (server/src/handler.rs), the engine's endpoints (engine/src/pipeline.rs, *)
(* endpoints.rs, mget.rs, msearch.rs, pit.rs, dbq.rs, asyncwrite.rs) and    *)
(* the clusters behind them, while partitions move between placements.      *)
(*                                                                          *)
(* Every await of an endpoint is a step boundary: admission, the read of    *)
(* the placement, the write gate and each upstream call are steps, and      *)
(* placements move in between.  The clusters are external: documents, and   *)
(* the scroll and point-in-time contexts that searches open.                *)
(***************************************************************************)
EXTENDS Tenancy

CONSTANTS
  Clients,       \* concurrent requests
  Indices,       \* logical index names
  Ids,           \* ids clients use, sequences of characters
  AutoIds,       \* ids an upstream makes up
  Deployments,   \* the configurations considered, records of the fields below
  MaxEpoch       \* bound: placement epochs

\* A query as the filter sees it: suggest and global aggregations look past it.
Queries == {"plain", "global", "suggest"}

\* A deployment says between which placements each partition may be moved, the id
\* rule, whether cursors are signed, traffic is captured, TLS is required, the
\* authenticator is the development one, there is a write queue and delete-by-query
\* is on, the default write mode, and the indices that are passed through.  The ids and
\* queries its clients use and whether they send multi requests are bounds, and so are
\* max_docs and max_cursors, the documents stored and the contexts opened under it.  Ids and templates are texts, and so is what they are put together to.
ASSUME RequestsAssumption ==
  /\ \A i \in Ids : i \in Seq(Range(i))
  /\ \A c \in Deployments :
      /\ {c.signer, c.capture, c.tls, c.dev, c.queue, c.dbq, c.multi} \subseteq BOOLEAN
      /\ c.mode \in {"Sync", "Async"} /\ c.pass \subseteq Indices
      /\ {c.max_docs, c.max_cursors} \subseteq Nat /\ c.ids \subseteq Ids /\ c.queries \subseteq Queries
      /\ None \notin Indices
      /\ \A p \in Partitions : c.homes[p] # {}
      \* a dedicated placement is one partition's alone
      /\ \A p, q \in Partitions : \A a \in c.homes[p], b \in c.homes[q] :
           (p # q /\ a.cluster = b.cluster) =>
             \/ a.kind = "SharedIndex" /\ b.kind = "SharedIndex"
             \/ a.kind # "DedicatedCluster" /\ b.kind # "DedicatedCluster" /\ a.index # b.index
      /\ c.rule # None =>
           /\ c.rule.template \in Seq(Range(c.rule.template))
           /\ \A p \in Partitions, i \in Ids : construct_id(c.rule.template, p, i) # None

VARIABLES
  conf,      \* this deployment's configuration
  table,     \* partition -> its placement, epoch and whether the write gate is open
  docs,      \* the documents on the clusters
  cursors,   \* the scroll and point-in-time contexts open on the clusters
  queue,     \* the write queue
  issued,    \* the cursor tokens given to clients
  task       \* client -> its request, how far it got, and its response

reqVars == <<conf, table, docs, cursors, queue, issued, task>>

-----------------------------------------------------------------------------
(* Requests. *)

Base == [endpoint |-> "Search", index |-> None, header |-> None, field |-> None, id |-> None,
         carries |-> None, query |-> "plain", scroll |-> FALSE, mode |-> None, cas |-> FALSE,
         tokens |-> <<>>, items |-> <<>>]

\* A token from before the signing key was changed.
StaleToken == [cluster |-> None, id |-> 0, tag |-> None]

\* cursor_request(), pit_id_in_body(), pit_ids_in_delete_body(): whatever token the client
\* sends.  A token names a cluster and an id there, no partition, so it may be one that
\* another partition was given.
MayPresent == {StaleToken} \cup issued

GetItems == IF conf.multi THEN [index : Indices, id : conf.ids, query : {"plain"}] ELSE {}
SearchItems == IF conf.multi THEN [index : Indices, id : {None}, query : conf.queries] ELSE {}

\* A request for an endpoint from a client that names partition p (or none) in its header.
For(p, endpoint) == [Base EXCEPT !.header = p, !.endpoint = endpoint]

Ingest(p, i, d, f) == [For(p, "IngestDoc") EXCEPT !.index = i, !.id = d, !.carries = f]
\* The partition is named in the document.
KeyedIngest(p, i, d, m, v) ==
  [For(None, "IngestDoc") EXCEPT !.index = i, !.id = d, !.mode = m, !.cas = v, !.field = p]
ById(p, e, i, d) == [For(p, e) EXCEPT !.index = i, !.id = d]
SearchFor(p, i, q, s) == [For(p, "Search") EXCEPT !.index = i, !.query = q, !.scroll = s]
QueryFor(p, e, i, q) == [For(p, e) EXCEPT !.index = i, !.query = q, !.mode = "Async"]
Multi(p, e, x, y) == [For(p, e) EXCEPT !.items = <<x, y>>]
ScrollOn(p, e, t) == [For(p, e) EXCEPT !.tokens = <<t>>]
PitCreate(p, i) == [For(p, "PitCreate") EXCEPT !.index = i]
PitSearch(p, t, i) == [For(p, "PitSearch") EXCEPT !.tokens = <<t>>, !.index = i]
PitDelete(p, t, u) == [For(p, "PitDelete") EXCEPT !.tokens = <<t, u>>]

RequestsOf(p) ==
       {Ingest(p, i, d, f) : i \in Indices, d \in conf.ids \cup {None}, f \in {p, None}}
  \cup {KeyedIngest(p, i, d, m, v) : i \in Indices, d \in conf.ids, m \in {"Async", None}, v \in BOOLEAN}
  \cup {ById(p, e, i, d) : e \in {"GetById", "DeleteById"}, i \in Indices, d \in conf.ids}
  \cup {SearchFor(p, i, q, s) : i \in Indices, q \in conf.queries, s \in BOOLEAN}
  \cup {QueryFor(p, e, i, q) : e \in {"Count", "DeleteByQuery"}, i \in Indices, q \in conf.queries}
  \cup {Multi(p, "MultiGet", x, y) : x \in GetItems, y \in GetItems}
  \cup {Multi(p, "MultiSearch", x, y) : x \in SearchItems, y \in SearchItems}
  \cup {ScrollOn(p, e, t) : e \in {"Scroll", "ScrollClear"}, t \in MayPresent}
  \cup {PitCreate(p, i) : i \in Indices}
  \cup {PitSearch(p, t, i) : t \in MayPresent, i \in Indices}
  \cup {PitDelete(p, t, u) : t \in MayPresent, u \in MayPresent}
  \cup {For(p, e) : e \in {"Admin", "Unknown", "Introspection"}}

\* EndpointKind::is_tenancy_aware.
is_tenancy_aware(r) == r.endpoint \notin {"Admin", "Unknown", "Introspection"}

is_multi(r) == r.endpoint \in {"MultiGet", "MultiSearch"}
is_write(r) == r.endpoint \in {"IngestDoc", "DeleteById"}

\* Endpoints that go to the cluster in their token, without resolving a partition.
is_pinned(r) == r.endpoint \in {"Scroll", "ScrollClear", "PitDelete"}

\* The x-write-mode header, else the deployment's default.
write_mode(r) == IF r.mode # None THEN r.mode ELSE conf.mode

NoDecision == [partition |-> None, target |-> None, epoch |-> 0, transform |-> None]
NoResponse == [status |-> 0, hits |-> {}, aggs |-> {}, slots |-> <<>>, missing |-> None]
Idle == [pc |-> "idle", r |-> Base, d |-> NoDecision, slots |-> <<>>, todo |-> {}, resp |-> NoResponse]

RequestsInit ==
  /\ conf \in Deployments
  /\ table \in {f \in [Partitions -> [placement : UNION {conf.homes[p] : p \in Partitions},
                                      epoch : {1}, open : {TRUE}]] :
                  \A p \in Partitions : f[p].placement \in conf.homes[p]}
  /\ docs = {} /\ cursors = {} /\ queue = <<>> /\ issued = {}
  /\ task = [c \in Clients |-> Idle]

-----------------------------------------------------------------------------
(* handler.rs: admission and the choice of path. *)

\* Mutant, in no specification.
wants_search_stream_with_scroll(r) == r.endpoint \in {"Search", "PitSearch"} /\ ~conf.capture

\* A search is answered as a stream unless traffic is captured or the search opens
\* a scroll: a stream is neither teed nor are its cursor ids wrapped.
wants_search_stream(r) ==
  r.endpoint \in {"Search", "PitSearch"} /\ ~conf.capture /\ ~r.scroll

\* matches_index(): the indices that are passed through as they are.
is_passthrough(r) == r.index \in conf.pass

\* Passthrough requests are streamed unless traffic is captured.
forward_plan(r) == ~conf.capture /\ is_passthrough(r)

\* ReferenceAuthenticator: without tokens configured everyone is let in.
authenticated(known) == conf.dev \/ known

\* The HTTP status of an error.
status_for(code) ==
  CASE code = "None" -> 0
    [] code \in {"PartitionUnresolved", "UnsupportedEndpoint"} -> 400
    [] code = "AuthFailed" -> 401
    [] code \in {"Unauthorized", "TlsRequired"} -> 403
    [] code = "StaleEpoch" -> 409
    [] code = "UpstreamFailed" -> 502
    [] code = "PlacementBackendUnavailable" -> 503
    [] OTHER -> 500

\* gate(): TLS, then authentication, then the authorizer; what it refuses with.
gate(r, secure, known, allowed) ==
  IF conf.tls /\ is_tenancy_aware(r) /\ ~secure THEN "TlsRequired"
  ELSE IF ~authenticated(known) THEN "AuthFailed"
  ELSE IF ~allowed THEN "Unauthorized" ELSE "None"

\* The debug, metrics and directive routes, which come before the gate and never
\* reach the engine.
introspection_route(r) == r.endpoint = "Introspection"

\* Responses: a status alone, documents shown or counted, a cursor that is not found,
\* the slots of a multi request.
Status(s) == [NoResponse EXCEPT !.status = s]
Showing(s, hits, aggs) == [NoResponse EXCEPT !.status = s, !.hits = hits, !.aggs = aggs]
Missing(t) == [NoResponse EXCEPT !.status = 404, !.missing = t]
Slotted(slots) == [NoResponse EXCEPT !.status = 200, !.slots = slots]

Stay == UNCHANGED <<conf, table, docs, cursors, queue, issued>>

\* handle(), handle_search_stream(), handle_forward(): up to the engine.
Arrive(c, r, secure, known, allowed) ==
  LET refusal == gate(r, secure, known, allowed) IN
  /\ task[c].pc = "idle"
  /\ task' = [task EXCEPT ![c] =
       IF introspection_route(r) THEN [Idle EXCEPT !.pc = "refused", !.resp = Status(200)]
       ELSE IF refusal # "None" THEN [Idle EXCEPT !.pc = "refused", !.resp = Status(status_for(refusal))]
       ELSE [Idle EXCEPT !.pc = "admitted", !.r = r]]
  /\ Stay

\* after_response(), after_streamed(): the answer goes out.
Answer(c, resp) ==
  task' = [task EXCEPT ![c].pc = "done", ![c].slots = <<>>, ![c].todo = {}, ![c].resp = resp]

Fail(c, code) == Answer(c, Status(status_for(code))) /\ Stay
Respond(c, status) == Answer(c, Status(status)) /\ Stay

\* The client has its answer.
Finish(c) == task[c].pc \in {"done", "refused"} /\ task' = [task EXCEPT ![c] = Idle] /\ Stay

\* A passed-through index goes to a cluster that is not one of the tenants', its
\* body buffered or streamed.
forward(c) ==
  /\ task[c].pc = "admitted" /\ is_passthrough(task[c].r) /\ ~forward_plan(task[c].r)
  /\ Respond(c, 200) \/ Fail(c, "UpstreamFailed")

forward_stream(c) ==
  /\ task[c].pc = "admitted" /\ forward_plan(task[c].r)
  /\ Respond(c, 200) \/ Fail(c, "UpstreamFailed")

\* admin(): paths the admin policy allows go to its cluster.
admin(c) ==
  /\ task[c].pc = "admitted" /\ task[c].r.endpoint = "Admin" /\ ~is_passthrough(task[c].r)
  /\ Respond(c, 200) \/ Fail(c, "UpstreamFailed") \/ Fail(c, "UnsupportedEndpoint")

\* dispatch(): what is left of the endpoints that are not tenancy aware.
dispatch_other(c) ==
  /\ task[c].pc = "admitted" /\ task[c].r.endpoint = "Unknown" /\ ~is_passthrough(task[c].r)
  /\ Fail(c, "UnsupportedEndpoint")

-----------------------------------------------------------------------------
(* Cursor tokens: engine/src/cursor.rs, core/src/cursor.rs. *)

binding(cluster, id) == <<cluster, id>>
wrap(cluster, id) == [cluster |-> cluster, id |-> id, tag |-> binding(cluster, id)]

\* unwrap() accepts a token whose tag is that of its cluster and id.
unwraps(t) == t.tag = binding(t.cluster, t.id)

\* A cursor is used on the cluster in its token, wherever its partition is now.
cursor_cluster(t, r) == t.cluster

\* The kind of context an endpoint's tokens are taken for, and the open one a token names.
cursor_kind(r) == IF r.endpoint \in {"PitSearch", "PitDelete"} THEN "pit" ELSE "scroll"

Context(t, r) ==
  {x \in cursors : x.cluster = cursor_cluster(t, r) /\ x.id = t.id /\ x.kind = cursor_kind(r) /\ x.live}

-----------------------------------------------------------------------------
(* Resolution: endpoints.rs resolve_with_retry, and what an endpoint refuses before
   and right after it. *)

\* unsupported_response, unavailable_response of delete_by_query: the status, or 0.
dbq_refusal(r) ==
  IF ~(conf.dbq /\ write_mode(r) = "Async") THEN 400 ELSE IF ~conf.queue THEN 422 ELSE 0

\* What stops a request before it resolves a placement.
precheck(r) ==
  IF r.endpoint \in {"Scroll", "ScrollClear", "PitCreate", "PitSearch", "PitDelete"} /\ ~conf.signer
  THEN "CursorUnresolvable"
  ELSE IF \E k \in DOMAIN r.tokens : ~unwraps(r.tokens[k]) THEN "CursorUnresolvable"
  ELSE IF ~is_pinned(r) /\ resolve_partition(r.field, r.header) = None THEN "PartitionUnresolved"
  ELSE "None"

\* What a resolved request is refused for: the transform of its document, id or query.
unfit(r, d) ==
  \/ r.endpoint = "IngestDoc" /\ (collides(d, r.carries) \/ (d.transform.id # None /\ r.id = None))
  \/ r.endpoint \in {"GetById", "DeleteById"} /\ ~mappable(d)
  \/ r.endpoint \in {"Search", "PitSearch", "Count", "DeleteByQuery"} /\ reject_unfilterable(d, r.query)

Goto(c, pc) == task' = [task EXCEPT ![c].pc = pc] /\ Stay

Precheck(c) ==
  LET r == task[c].r IN
  /\ task[c].pc = "admitted" /\ is_tenancy_aware(r) /\ ~is_passthrough(r)
  /\ IF r.endpoint = "DeleteByQuery" /\ dbq_refusal(r) # 0 THEN Respond(c, dbq_refusal(r))
     ELSE IF precheck(r) # "None" THEN Fail(c, precheck(r))
     ELSE Goto(c, IF is_pinned(r) THEN "pinned" ELSE IF is_multi(r) THEN "multi" ELSE "resolving")

Resolve(c) ==
  LET r == task[c].r
      p == resolve_partition(r.field, r.header)
      d == decision(p, table[p], conf.rule, r.index)
  IN /\ task[c].pc = "resolving"
     /\ IF ~scoped_enough(table[p].placement, conf.rule) \/ unfit(r, d) THEN Fail(c, "UnsupportedEndpoint")
        ELSE task' = [task EXCEPT ![c].pc = "resolved", ![c].d = d] /\ Stay

\* The placement backend is unavailable on every attempt.
ResolveUnavailable(c) == task[c].pc = "resolving" /\ Fail(c, "PlacementBackendUnavailable")

-----------------------------------------------------------------------------
(* Writes: ingest_doc, delete_by_id, enqueue_async. *)

\* Where document id of a decision lives.
Place(d, id) == [cluster |-> d.target.cluster, index |-> d.target.index, id |-> id, routing |-> routing_for(d)]
At(doc, place) ==
  /\ doc.cluster = place.cluster /\ doc.index = place.index
  /\ doc.id = place.id /\ doc.routing = place.routing

build_write_batch(r, d) ==
  [kind |-> "Index", partition_key |-> d.partition, place |-> Place(d, build_id(d, r.id)),
   field |-> inject_fields(d, r.carries)]

\* build_delete_op_physical: a delete of the document with a physical id.
delete_op(d, physical) ==
  [kind |-> "Delete", partition_key |-> d.partition, place |-> Place(d, physical), field |-> None]

build_delete_op(r, d) == delete_op(d, map_logical_to_physical(d, r.id))

write_op(r, d) == IF r.endpoint = "IngestDoc" THEN build_write_batch(r, d) ELSE build_delete_op(r, d)

\* The upstream applies an operation; an index operation without an id is given one.
Stored(op, id) ==
  [cluster |-> op.place.cluster, index |-> op.place.index, id |-> id, routing |-> op.place.routing,
   field |-> op.field, owner |-> op.partition_key]

Effects(op) ==
  LET rest == {x \in docs : ~At(x, op.place)}
      ids == IF op.place.id # None THEN {op.place.id} ELSE {a \in AutoIds : \A x \in docs : x.id # a}
  IN IF op.kind = "Delete" THEN {[docs |-> rest, shown |-> {}]}
     ELSE {[docs |-> rest \cup {Stored(op, g)}, shown |-> {Stored(op, g)}] : g \in ids}

Fits(effect) == Cardinality(effect.docs) <= conf.max_docs

\* Conditional writes cannot be queued.
unsupported_async(r) == r.cas

\* enqueue_async(): conditional writes are refused, and the queue may be off, take
\* the write, or fail.
Enqueue(c) ==
  LET r == task[c].r IN
  /\ task[c].pc = "resolved" /\ is_write(r) /\ write_mode(r) = "Async"
  /\ \/ unsupported_async(r) /\ Respond(c, 400)
     \/ ~unsupported_async(r) /\ ~conf.queue /\ Respond(c, 422)
     \/ /\ ~unsupported_async(r) /\ conf.queue /\ queue = <<>>
        /\ queue' = <<write_op(r, task[c].d)>>
        /\ Answer(c, Status(202))
        /\ UNCHANGED <<conf, table, docs, cursors, issued>>
     \/ ~unsupported_async(r) /\ conf.queue /\ Respond(c, 503)

admit_write(d) == table[d.partition].open /\ table[d.partition].epoch = d.epoch

gate_write(c) ==
  /\ task[c].pc = "resolved" /\ is_write(task[c].r) /\ write_mode(task[c].r) = "Sync"
  /\ IF admit_write(task[c].d) THEN Goto(c, "gated") ELSE Fail(c, "StaleEpoch")

\* What a client is shown of documents: the hits as it sees them beside the
\* documents they stand for.
Shown(d, index, found) == {[hit |-> shape_hit(d, index, x), doc |-> x] : x \in found}

\* response_for(), shape_delete().
Write(c) ==
  /\ task[c].pc = "gated"
  /\ \E e \in Effects(write_op(task[c].r, task[c].d)) :
       /\ Fits(e)
       /\ docs' = e.docs
       /\ Answer(c, Showing(200, Shown(task[c].d, task[c].r.index, e.shown), {}))
  /\ UNCHANGED <<conf, table, cursors, queue, issued>>

\* The upstream answers an error, or not in time; it may have applied the write.
WriteFails(c) ==
  /\ task[c].pc = "gated"
  /\ \E e \in {[docs |-> docs, shown |-> {}]} \cup Effects(write_op(task[c].r, task[c].d)) :
       Fits(e) /\ docs' = e.docs
  /\ Answer(c, Status(status_for("UpstreamFailed")))
  /\ UNCHANGED <<conf, table, cursors, queue, issued>>

\* A downstream consumer applies a queued write.
Consume ==
  /\ queue # <<>>
  /\ \E e \in Effects(Head(queue)) : Fits(e) /\ docs' = e.docs
  /\ queue' = Tail(queue)
  /\ UNCHANGED <<conf, table, cursors, issued, task>>

-----------------------------------------------------------------------------
(* Reads: get_by_id, search, count. *)

OnTarget(d) == {x \in docs : x.cluster = d.target.cluster /\ x.index = d.target.index}
Found(d, id) == {x \in docs : At(x, Place(d, map_logical_to_physical(d, id)))}

\* Mutant, in no specification.
wrap_query_unfiltered(d, within) == within

\* The documents among some that a decision's wrapped query matches.
wrap_query(d, within) == {x \in within : filter_terms(d) # None => x.field = filter_terms(d)}

\* What the aggregations of a search are computed from: a global one sees the index.
aggregated(d, query) == IF query = "plain" THEN wrap_query(d, OnTarget(d)) ELSE OnTarget(d)

get_by_id(c) ==
  LET r == task[c].r
      d == task[c].d
      found == Found(d, r.id)
  IN /\ task[c].pc = "resolved" /\ r.endpoint = "GetById"
     /\ Answer(c, Showing(IF found = {} THEN 404 ELSE 200,
                          {[hit |-> shape_found(d, r.index, r.id, x), doc |-> x] : x \in found}, {}))
     /\ Stay

NextId(cluster) == 1 + Cardinality({x \in cursors : x.cluster = cluster})

\* A context that a cluster opens over some documents for a decision; it is lost when its
\* id reaches neither the proxy nor the client.
NewContext(d, kind, held, lost) ==
  [cluster |-> d.target.cluster, id |-> NextId(d.target.cluster), kind |-> kind, held |-> held,
   live |-> TRUE, under |-> d.transform, by |-> d.partition, lost |-> lost]

closed(x) == [x EXCEPT !.live = FALSE]

\* Some contexts are closed and some are opened, for which there is room.
Contexts(shut, opened) == {IF x \in shut THEN closed(x) ELSE x : x \in cursors} \cup opened
Become(shut, opened) ==
  /\ Cardinality(cursors) + Cardinality(opened) <= conf.max_cursors
  /\ cursors' = Contexts(shut, opened)

\* wrap_scroll_id(), wrap_pit_id_in_response(): the ids of an answer, wrapped for the client.
wrap_ids(opened) == IF conf.signer THEN {wrap(x.cluster, x.id) : x \in opened} ELSE {}

\* A search's answer, and the context it opens if it is to be scrolled.  An answer that is
\* streamed past carries its ids as they are.
Searched(c, streamed) ==
  LET r == task[c].r
      d == task[c].d
      found == wrap_query(d, OnTarget(d))
      opened == IF r.scroll THEN {NewContext(d, "scroll", found, FALSE)} ELSE {}
  IN /\ task[c].pc = "resolved" /\ r.endpoint = "Search"
     /\ Answer(c, Showing(200, Shown(d, r.index, found), aggregated(d, r.query)))
     /\ Become({}, opened)
     /\ issued' = issued \cup (IF streamed THEN {} ELSE wrap_ids(opened))
     /\ UNCHANGED <<conf, table, docs, queue>>

search(c) == ~wants_search_stream(task[c].r) /\ Searched(c, FALSE)
run_search_stream(c) == wants_search_stream(task[c].r) /\ Searched(c, TRUE)

count(c) ==
  /\ task[c].pc = "resolved" /\ task[c].r.endpoint = "Count"
  /\ Answer(c, Showing(200, {}, aggregated(task[c].d, task[c].r.query)))
  /\ Stay

-----------------------------------------------------------------------------
(* delete_by_query: the matches are searched, then deleted through the queue. *)

\* Mutant, in no specification.
run_match_search_unfiltered(c) ==
  /\ task[c].pc = "resolved" /\ task[c].r.endpoint = "DeleteByQuery"
  /\ task' = [task EXCEPT ![c].pc = "expanding", ![c].todo = OnTarget(task[c].d)]
  /\ Stay

run_match_search(c) ==
  /\ task[c].pc = "resolved" /\ task[c].r.endpoint = "DeleteByQuery"
  /\ task' = [task EXCEPT ![c].pc = "expanding", ![c].todo = wrap_query(task[c].d, OnTarget(task[c].d))]
  /\ Stay

\* Each match is queued or counted as a failure.
enqueue_deletes(c) ==
  /\ task[c].pc = "expanding"
  /\ IF task[c].todo = {} THEN Answer(c, Status(200)) /\ UNCHANGED queue
     ELSE \E x \in task[c].todo :
            /\ task' = [task EXCEPT ![c].todo = @ \ {x}]
            /\ queue' \in {queue} \cup (IF queue = <<>> THEN {<<delete_op(task[c].d, x.id)>>} ELSE {})
  /\ UNCHANGED <<conf, table, docs, cursors, issued>>

-----------------------------------------------------------------------------
(* multi_get and multi_search: mget.rs, msearch.rs. *)

\* Mutant, in no specification.
cached_never(t, index) == {}

\* The slots of a request whose placement is in the cache for an index.
cached(t, index) ==
  {j \in DOMAIN t.slots : t.slots[j].of.index = index /\ t.slots[j].d # NoDecision}

\* What an item is refused for once its placement is known.
item_fits(r, item, d) ==
  IF r.endpoint = "MultiGet" THEN mappable(d) ELSE ~reject_unfilterable(d, item.query)

\* prepare(): an item takes its index's cached placement, or reads it, which may fail; the
\* placement is cached whether or not the item can be served from it.
prepare(c) ==
  LET t == task[c]
      k == Len(t.slots) + 1
      item == t.r.items[k]
      p == t.r.header
      hit == cached(t, item.index)
      d == IF hit # {} THEN t.slots[CHOOSE j \in hit : TRUE].d
           ELSE decision(p, table[p], conf.rule, item.index)
      slot == [d |-> d, state |-> IF item_fits(t.r, item, d) THEN "ready" ELSE "error",
               hits |-> {}, aggs |-> {}, of |-> item]
      unresolved == [slot EXCEPT !.d = NoDecision, !.state = "error"]
  IN /\ t.pc = "multi" /\ k <= Len(t.r.items)
     /\ \E s \in (IF hit # {} \/ scoped_enough(table[p].placement, conf.rule) THEN {slot} ELSE {})
                \cup (IF hit = {} THEN {unresolved} ELSE {}) :
          task' = [task EXCEPT ![c].slots = Append(@, s)]
     /\ Stay

\* fetch_all(), run_all(): the items' upstream calls complete in any order.
fetch(c, k) ==
  LET t == task[c]
      s == t.slots[k]
      found == IF t.r.endpoint = "MultiGet"
               THEN {[hit |-> shape_found(s.d, s.of.index, s.of.id, x), doc |-> x] : x \in Found(s.d, s.of.id)}
               ELSE Shown(s.d, s.of.index, wrap_query(s.d, OnTarget(s.d)))
      aggs == IF t.r.endpoint = "MultiGet" THEN {} ELSE aggregated(s.d, s.of.query)
  IN /\ t.pc = "multi" /\ Len(t.slots) = Len(t.r.items)
     /\ s.state = "ready"
     /\ task' \in {[task EXCEPT ![c].slots[k] = [s EXCEPT !.state = "ok", !.hits = found, !.aggs = aggs]],
                   [task EXCEPT ![c].slots[k].state = "error"]}
     /\ Stay

\* Mutant, in no specification.
multi_ready_all_ok(t) == \A k \in DOMAIN t.slots : t.slots[k].state = "ok"

\* Every slot has its document, its miss or its error.
multi_ready(t) == \A k \in DOMAIN t.slots : t.slots[k].state # "ready"

multi_respond(c) ==
  LET t == task[c] IN
  /\ t.pc = "multi" /\ Len(t.slots) = Len(t.r.items)
  /\ multi_ready(t)
  /\ Answer(c, Slotted(t.slots))
  /\ Stay

-----------------------------------------------------------------------------
(* Cursors: scroll continuation, and points in time (pit.rs). *)

\* What open contexts go on as when the cluster answers with another id for them.
Renewed(open, lost) == {[x EXCEPT !.id = NextId(x.cluster), !.lost = lost] : x \in open}

\* A context goes on under its id or under another one, and the id of the answer is
\* wrapped for the client again.
Continued(open) ==
  /\ \E fresh \in {{}, Renewed(open, FALSE)} :
       /\ Become(IF fresh = {} THEN {} ELSE open, fresh)
       /\ issued' = issued \cup wrap_ids(fresh)
  /\ UNCHANGED <<conf, table, docs, queue>>

\* cursor(), continuing: the pinned cluster answers with a page of the context, whose hits
\* are passed on as they are.
scroll(c) ==
  LET t == task[c].r.tokens[1]
      open == Context(t, task[c].r)
  IN /\ task[c].pc = "pinned" /\ task[c].r.endpoint = "Scroll"
     /\ Answer(c, IF open = {} THEN Missing(t)
                  ELSE Showing(200, {[hit |-> raw_hit(x), doc |-> x] : x \in UNION {y.held : y \in open}}, {}))
     /\ Continued(open)

\* cursor(), clearing.
scroll_clear(c) ==
  LET t == task[c].r.tokens[1]
      open == Context(t, task[c].r)
  IN /\ task[c].pc = "pinned" /\ task[c].r.endpoint = "ScrollClear"
     /\ Answer(c, IF open = {} THEN Missing(t) ELSE Status(200))
     /\ Become(open, {})
     /\ UNCHANGED <<conf, table, docs, queue, issued>>

pit_create(c) ==
  LET opened == {NewContext(task[c].d, "pit", OnTarget(task[c].d), FALSE)} IN
  /\ task[c].pc = "resolved" /\ task[c].r.endpoint = "PitCreate"
  /\ Become({}, opened)
  /\ issued' = issued \cup wrap_ids(opened)
  /\ Answer(c, Status(200))
  /\ UNCHANGED <<conf, table, docs, queue>>

\* pit_search(): the filter and the shaping are those of the placement the
\* partition has now; the documents are those of the point in time.
pit_search(c) ==
  LET t == task[c].r.tokens[1]
      open == Context(t, task[c].r)
      found == wrap_query(task[c].d, UNION {y.held : y \in open})
  IN /\ task[c].pc = "resolved" /\ task[c].r.endpoint = "PitSearch"
     /\ Answer(c, IF open = {} THEN Missing(t)
                  ELSE Showing(200, Shown(task[c].d, task[c].r.index, found), {}))
     /\ Continued(open)

\* pit_delete(): the ids are grouped by cluster, one upstream call for each group.
\* A group that is refused leaves its status for the answer; a call that fails or is
\* answered 5xx ends the request (ReadFails).
Left(c) == {task[c].r.tokens[k] : k \in DOMAIN task[c].r.tokens} \ task[c].todo

\* Mutant, in no specification.
merge_status_last(before, status) == status

\* The status of the answer after one more group.
merge_status(before, status) == IF status >= 400 THEN status ELSE before

\* It is 200 before the first group.
merged(t) == IF t.todo = {} THEN 200 ELSE t.resp.status

\* The contexts that the tokens of a group name.
Grouped(c, cluster) == {t \in Left(c) : t.cluster = cluster}
ContextsOf(c, group) == UNION {Context(t, task[c].r) : t \in group}

pit_delete_group(c, group, status) ==
  /\ Become(IF status >= 400 THEN {} ELSE ContextsOf(c, group), {})
  /\ task' = [task EXCEPT ![c].todo = @ \cup group, ![c].resp = Status(merge_status(merged(task[c]), status))]

pit_delete(c) ==
  /\ task[c].pc = "pinned" /\ task[c].r.endpoint = "PitDelete"
  /\ IF Left(c) = {} THEN Answer(c, Status(merged(task[c]))) /\ UNCHANGED cursors
     ELSE \E t \in Left(c), status \in {200, 404} : pit_delete_group(c, Grouped(c, t.cluster), status)
  /\ UNCHANGED <<conf, table, docs, queue, issued>>

\* What a call whose answer never comes may have done to the contexts: nothing, or what it
\* was sent for, and nobody was told the ids of those it opened.
Unheard(c) ==
  LET r == task[c].r
      d == task[c].d
      open == Context(r.tokens[1], r)
  IN \/ Become({}, {})
     \/ r.endpoint = "Search" /\ r.scroll /\ Become({}, {NewContext(d, "scroll", wrap_query(d, OnTarget(d)), TRUE)})
     \/ r.endpoint = "PitCreate" /\ Become({}, {NewContext(d, "pit", OnTarget(d), TRUE)})
     \/ r.endpoint \in {"Scroll", "PitSearch"} /\ Become(open, Renewed(open, TRUE))
     \/ r.endpoint = "ScrollClear" /\ Become(open, {})
     \/ r.endpoint = "PitDelete" /\ \E t \in Left(c) : Become(ContextsOf(c, Grouped(c, t.cluster)), {})

\* An upstream call fails or is not answered in time, after which the request fails.
ReadFails(c) ==
  /\ \/ task[c].pc = "resolved" /\ ~is_write(task[c].r)
     \/ task[c].pc = "pinned" /\ (task[c].r.endpoint = "PitDelete" => Left(c) # {})
  /\ Answer(c, Status(status_for("UpstreamFailed")))
  /\ Unheard(c)
  /\ UNCHANGED <<conf, table, docs, queue, issued>>

-----------------------------------------------------------------------------
(* Placements move beside the requests (PlacementTable, ControlPlane). *)

\* begin_migration() and enter_cutover() as one step: writes are refused from here on.
Cutover(p) ==
  /\ \A q \in Partitions : table[q].open
  /\ conf.homes[p] # {table[p].placement}
  /\ table[p].epoch + 2 <= MaxEpoch
  /\ table' = [table EXCEPT ![p].open = FALSE, ![p].epoch = @ + 1]
  /\ UNCHANGED <<conf, docs, cursors, queue, issued, task>>

\* complete_migration() flips the pointer, or abort_migration() leaves it.
Flip(p) ==
  /\ ~table[p].open
  /\ \E to \in conf.homes[p] :
       table' = [table EXCEPT ![p] = [placement |-> to, epoch |-> @.epoch + 1, open |-> TRUE]]
  /\ UNCHANGED <<conf, docs, cursors, queue, issued, task>>

-----------------------------------------------------------------------------
Serve(c) ==
  \/ forward(c) \/ forward_stream(c) \/ admin(c) \/ dispatch_other(c) \/ Precheck(c) \/ Resolve(c) \/ ResolveUnavailable(c)
  \/ Enqueue(c) \/ gate_write(c) \/ Write(c) \/ WriteFails(c)
  \/ get_by_id(c) \/ search(c) \/ run_search_stream(c) \/ count(c) \/ ReadFails(c)
  \/ run_match_search(c) \/ enqueue_deletes(c)
  \/ prepare(c) \/ (\E k \in DOMAIN task[c].slots : fetch(c, k)) \/ multi_respond(c)
  \/ scroll(c) \/ scroll_clear(c) \/ pit_create(c) \/ pit_search(c) \/ pit_delete(c)

\* At most one of the gate's checks fails.
Credentials == {<<TRUE, TRUE, TRUE>>, <<FALSE, TRUE, TRUE>>, <<TRUE, FALSE, TRUE>>, <<TRUE, TRUE, FALSE>>}

RequestsNext ==
  \/ \E c \in Clients :
       /\ task[c].pc = "idle"
       /\ \E p \in Partitions \cup {None} : \E r \in RequestsOf(p), g \in Credentials :
            Arrive(c, r, g[1], g[2], g[3])
  \/ \E c \in Clients : Serve(c) \/ Finish(c)
  \/ Consume
  \/ \E p \in Partitions : Cutover(p) \/ Flip(p)

\* An admitted request's future is polled until it answers.
RequestsSpec ==
  RequestsInit /\ [][RequestsNext]_reqVars /\ \A c \in Clients : WF_reqVars(Serve(c))

-----------------------------------------------------------------------------
(* Properties. *)

\* Type invariant: tables stay inside the deployment's homes, every stored document
\* has its owner's routing or none, and context ids are unique on their cluster.
RequestsTypeOK ==
  /\ conf \in Deployments
  /\ \A p \in Partitions : table[p].placement \in conf.homes[p] /\ table[p].epoch \in 1 .. MaxEpoch
  /\ \A x \in docs : x.owner \in Partitions /\ x.routing \in {x.owner, None}
  /\ \A x, y \in cursors : x.cluster = y.cluster /\ x.id = y.id => x = y
  /\ \A t \in issued : unwraps(t)
  /\ Len(queue) <= 1
  /\ \A c \in Clients : task[c].pc \in {"idle", "refused", "admitted", "resolving", "resolved", "gated",
                                        "expanding", "multi", "pinned", "done"}

Done(c) == task[c].pc = "done"
Requester(c) == resolve_partition(task[c].r.field, task[c].r.header)

\* The contexts that a request's tokens name, open or not.
Tokened(c) ==
  {x \in cursors : \E k \in DOMAIN task[c].r.tokens : wrap(x.cluster, x.id) = task[c].r.tokens[k]}

\* Whose documents a response may show: a token is its bearer's.
Entitled(c) == {Requester(c)} \cup {x.by : x \in Tokened(c)}

\* The documents a response shows.
Revealed(c) ==
  LET all == task[c].resp.slots IN
       {h.doc : h \in task[c].resp.hits \cup UNION {all[k].hits : k \in DOMAIN all}}
  \cup task[c].resp.aggs \cup UNION {all[k].aggs : k \in DOMAIN all}

\* Two partitions have a physical id in common, which nothing in the router or the
\* template rules out (router.rs, rules.rs).
Collide(p, q) ==
  conf.rule # None /\ \E i, j \in Ids :
    construct_id(conf.rule.template, p, i) = construct_id(conf.rule.template, q, j)

\* A point-in-time search under a placement of another kind than that of the opening.
Reshaped(c) ==
  /\ task[c].r.endpoint = "PitSearch" /\ task[c].resp.status = 200
  /\ \E x \in Tokened(c) : x.under.inject # task[c].d.transform.inject

\* Whatever a response shows - hits, aggregations, slots of a multi request - was written
\* by the partition that asks, or by the one that opened the scroll or point in time whose
\* token it holds; a get by id may also find the document of a partition whose built ids
\* collide with its own (read.rs build_search_op and shape_hits, endpoints.rs, pit.rs,
\* mget.rs, msearch.rs).  A point-in-time search is filtered by the present placement: of
\* one opened in a shared index nothing is said once its partition has an index of its own.
Isolation ==
  \A c \in Clients : Done(c) /\ ~Reshaped(c) =>
    \A x \in Revealed(c) :
      \/ x.owner \in Entitled(c)
      \/ task[c].r.endpoint \in {"GetById", "MultiGet"} /\ Collide(Requester(c), x.owner)

\* A document is replaced or removed only by a write, queued or direct, of the
\* partition that owns it or of one whose built ids collide with its own, even where two
\* partitions use one id in one shared index (plan.rs build_write_batch, id.rs, router.rs
\* build_transform).
OwnWritesOnly ==
  [][\A x \in docs \ docs' : \E p \in Partitions :
       /\ p = x.owner \/ Collide(p, x.owner)
       /\ \/ \E c \in Clients : task[c].pc = "gated" /\ task'[c].pc = "done" /\ task[c].d.partition = p
          \/ queue # <<>> /\ queue' = Tail(queue) /\ Head(queue).partition_key = p]_reqVars

\* A shown hit stands for its document under a decision.
ShownWell(d, index, h) ==
  /\ h.hit.index = index
  /\ d.transform.inject => h.hit.field = None
  /\ mappable(d) /\ h.doc.owner = d.partition => map_logical_to_physical(d, h.hit.id) = h.doc.id

\* Every hit is shown under the index the client named, without the field its placement
\* injects, and a document of its own under an id with which that placement finds it again
\* (read.rs shape_hit).  Pages of a scroll are passed on as they are (endpoints.rs cursor()).
LogicalView ==
  \A c \in Clients : Done(c) /\ task[c].r.endpoint # "Scroll" =>
    /\ \A h \in task[c].resp.hits : ShownWell(task[c].d, task[c].r.index, h)
    /\ \A k \in DOMAIN task[c].resp.slots : \A h \in task[c].resp.slots[k].hits :
         ShownWell(task[c].resp.slots[k].d, task[c].r.items[k].index, h)

\* A cursor whose context is open is never answered as missing, also after its
\* partition was moved to another cluster (cursor.rs unwrap, endpoints.rs cursor(),
\* pit.rs pit_search).
CursorPinned ==
  \A c \in Clients : Done(c) /\ task[c].resp.missing # None =>
    ~ \E x \in cursors : /\ x.live /\ x.kind = cursor_kind(task[c].r)
                         /\ wrap(x.cluster, x.id) = task[c].resp.missing

\* Every context that is opened, or goes on under another id, is given to the client as a
\* token it can come back with, unless its cluster's answer was lost (handler.rs
\* wants_search_stream, endpoints.rs wrap_scroll_id, cursor.rs wrap_pit_id_in_response).
CursorsUsable ==
  conf.signer => \A x \in cursors : x.lost \/ wrap(x.cluster, x.id) \in issued

\* A cursor the proxy has handed out works for as long as its context lives, and where
\* that lives.
CursorsHold == CursorPinned /\ CursorsUsable

\* The items of a multi request that name one index are answered from one placement,
\* whatever migrates in between, and each slot is about its own item (mget.rs and
\* msearch.rs prepare and fetch_all).
SlotsConsistent ==
  \A c \in Clients : Done(c) /\ task[c].resp.slots # <<>> =>
    LET s == task[c].resp.slots IN
    /\ Len(s) = Len(task[c].r.items)
    /\ \A j, k \in DOMAIN s :
         /\ s[k].of = task[c].r.items[k]
         /\ (s[j].state = "ok" /\ s[k].state = "ok" /\ s[j].of.index = s[k].of.index) => s[j].d = s[k].d

\* A point-in-time delete that is answered 200 has closed every context it named, on
\* every cluster (pit.rs pit_delete).
PitDeleteTruthful ==
  \A c \in Clients : Done(c) /\ task[c].r.endpoint = "PitDelete" /\ task[c].resp.status = 200 =>
    \A k \in DOMAIN task[c].r.tokens : \A x \in cursors :
      x.kind = "pit" /\ wrap(x.cluster, x.id) = task[c].r.tokens[k] => ~x.live

\* Every admitted request is answered, whichever of its upstream calls fail (mget.rs
\* shape_result, msearch.rs shape_response, dbq.rs, retry.rs with_retry).
Answered == \A c \in Clients : task[c].pc = "admitted" ~> Done(c)
=============================================================================
