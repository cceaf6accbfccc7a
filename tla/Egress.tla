------------------------------- MODULE Egress -------------------------------
(***************************************************************************)
(* From a client's request to the one the upstream gets: its path is        *)
(* classified (transport/classify.rs), its headers filtered                 *)
(* (server/forward_headers.rs), its trace continued (core/trace.rs), the    *)
(* operation addressed (sink/wire.rs, read.rs, batch.rs) and all of it put  *)
(* on one request (sink/opensearch.rs send); then the upstream's status is  *)
(* turned into an outcome.                                                  *)
(*                                                                          *)
(* A text is a sequence of characters where an encoding is at stake (ids,   *)
(* routing, URIs) and a value of its own elsewhere; a hexadecimal field is  *)
(* the number it stands for.  Header names are lower case, as the HTTP      *)
(* library gives them; an operator may spell them otherwise.                *)
(***************************************************************************)
EXTENDS Naturals, Sequences, SequencesExt, Functions

CONSTANTS
  Nil,          \* none
  Garbled,      \* a text that is no header name or value: it has a line break in it, say
  Cases,        \* [dep, call]: a deployment, [forward, deny, exporting, credentials], and a
                \* request to it, [method, path, headers, op]
  Hashes        \* what the hash of a request id may come out as

\* Nil is no trace context and no traceparent, and the header for a cluster's credentials is none of the
\* trace's.
ASSUME EgressAssumption ==
  /\ Hashes \subseteq Nat
  /\ Nil \notin [trace : Nat, span : Nat, sampled : BOOLEAN]
  /\ Nil \notin {"00"} \X Nat \X Nat \X {0, 1}
  /\ \A case \in Cases :
       LET headers == case.call.headers IN
       /\ Len(headers) \in Nat /\ DOMAIN headers = 1 .. Len(headers)
       /\ case.call.path \in Seq(Range(case.call.path))
       /\ \A text \in {case.call.op.id, case.call.op.routing} : text # Nil => text \in Seq(Range(text))
       /\ Nil \notin [trace : Nat, span : Nat, sampled : BOOLEAN,
                      tracestate : {Nil} \cup
                        {headers[k].value : k \in {j \in DOMAIN headers : headers[j].name = "tracestate"}}]
       /\ case.dep.credentials # Nil => case.dep.credentials.name \notin {"traceparent", "tracestate"}

VARIABLE egress   \* the call in hand, and what became of it

-----------------------------------------------------------------------------
(* Classification. *)

AnySegment == <<>>

\* The arms of the match, in order: the segments, which of them are the index and the id.
Routes ==
  LET route(shape, kind, index, id) == [shape |-> shape, kind |-> kind, index |-> index, id |-> id] IN
  <<route(<<AnySegment, <<"_doc">>, AnySegment>>, "by_id", 1, 3),
    route(<<AnySegment, <<"_create">>, AnySegment>>, "by_id", 1, 3),
    route(<<AnySegment, <<"_doc">>>>, "doc", 1, 0),
    route(<<<<"_search">>, <<"scroll">>>>, "Cursor", 0, 0),
    route(<<<<"_search">>, <<"point_in_time">>>>, "Cursor", 0, 0),
    route(<<<<"_search">>, <<"scroll">>, AnySegment>>, "Cursor", 0, 3),
    route(<<AnySegment, <<"_search">>, <<"point_in_time">>>>, "Cursor", 1, 0),
    route(<<<<"_search">>>>, "Search", 0, 0),
    route(<<AnySegment, <<"_search">>>>, "Search", 1, 0),
    route(<<AnySegment, <<"_count">>>>, "Count", 1, 0),
    route(<<<<"_mget">>>>, "MultiGet", 0, 0),
    route(<<AnySegment, <<"_mget">>>>, "MultiGet", 1, 0),
    route(<<<<"_msearch">>>>, "MultiSearch", 0, 0),
    route(<<AnySegment, <<"_msearch">>>>, "MultiSearch", 1, 0),
    route(<<<<"_bulk">>>>, "IngestBulk", 0, 0),
    route(<<AnySegment, <<"_bulk">>>>, "IngestBulk", 1, 0),
    route(<<AnySegment, <<"_delete_by_query">>>>, "DeleteByQuery", 1, 0)>>

matches(shape, segments) ==
  Len(shape) = Len(segments) /\ \A k \in DOMAIN shape : shape[k] \in {AnySegment, segments[k]}

by_id_endpoint(method) ==
  CASE method \in {"GET", "HEAD"} -> "GetById" [] method = "DELETE" -> "DeleteById" [] OTHER -> "IngestDoc"

doc_endpoint(method) == IF method \in {"POST", "PUT"} THEN "IngestDoc" ELSE "Unknown"

EndpointOf(kind, method) ==
  CASE kind = "by_id" -> by_id_endpoint(method) [] kind = "doc" -> doc_endpoint(method) [] OTHER -> kind

\* The first arm that matches; what is left is Admin by its first segment, or Unknown.
Match(segments, method) ==
  LET arm == SelectInSeq(Routes, LAMBDA r : matches(r.shape, segments))
      first == IF segments = <<>> THEN <<>> ELSE segments[1]
  IN IF arm # 0
     THEN [endpoint |-> EndpointOf(Routes[arm].kind, method),
           index |-> IF Routes[arm].index = 0 THEN <<>> ELSE first,
           doc_id |-> IF Routes[arm].id = 0 THEN Nil ELSE segments[3]]
     ELSE IF first \in {<<"_cat">>, <<"_cluster">>, <<"_nodes">>}
     THEN [endpoint |-> "Admin", index |-> <<>>, doc_id |-> Nil]
     ELSE [endpoint |-> "Unknown", index |-> first, doc_id |-> Nil]

nonempty(path) == FlattenSeq([k \in DOMAIN path |-> IF path[k] = <<>> THEN <<>> ELSE <<path[k]>>])

\* The segments the fixed buffer of four holds.
kept(segments) == SubSeq(segments, 1, IF Len(segments) < 4 THEN Len(segments) ELSE 4)

classify(method, path) == Match(kept(nonempty(path)), method)

-----------------------------------------------------------------------------
(* The headers to relay. *)

NEVER_FORWARD == {"connection", "host", "content-length", "accept-encoding"}   \* and their like

\* HeaderView::get(): the first of that name.
get(headers, name) ==
  LET k == SelectInSeq(headers, LAMBDA h : h.name = name) IN IF k = 0 THEN Nil ELSE headers[k].value

\* Without regard to case.
denied(deny, name) == \E d \in deny : d.name = name

\* The client's headers at the positions that are relayed.
forward_set(policy, headers) ==
  Restrict(headers, {k \in DOMAIN headers : /\ policy.forward
                                            /\ headers[k].name \notin NEVER_FORWARD
                                            /\ ~denied(policy.deny, headers[k].name)})

-----------------------------------------------------------------------------
(* The trace. *)

IsHex(field) == field \in Nat

\* The context a traceparent of four fields carries, if it is usable.
parse(value) ==
  IF /\ value # Nil /\ Len(value) = 4 /\ value[1] = "00"
     /\ IsHex(value[2]) /\ IsHex(value[3]) /\ IsHex(value[4])
     /\ value[2] # 0 /\ value[3] # 0
  THEN [trace |-> value[2], span |-> value[3], sampled |-> value[4] % 2 = 1]
  ELSE Nil

\* The context a b3 value of two, three or four fields carries.
parse_b3(value) ==
  IF /\ value # Nil /\ Len(value) \in 2 .. 4
     /\ Len(value) > 2 => value[3] \in {"0", "1", "d"}
     /\ IsHex(value[1]) /\ IsHex(value[2]) /\ value[1] # 0 /\ value[2] # 0
  THEN [trace |-> value[1], span |-> value[2], sampled |-> Len(value) = 2 \/ value[3] # "0"]
  ELSE Nil

\* The b3 header, or one made of the x-b3 headers.
b3_single(headers) ==
  LET trace == get(headers, "x-b3-traceid")
      span == get(headers, "x-b3-spanid")
      sampled == get(headers, "x-b3-sampled")
  IN IF get(headers, "b3") # Nil THEN get(headers, "b3")
     ELSE IF trace = Nil \/ span = Nil THEN Nil
     ELSE IF sampled = Nil THEN <<trace, span>> ELSE <<trace, span, sampled>>

sanitize_tracestate(value) == IF value \in {"empty", "oversized"} THEN Nil ELSE value

\* derive8() and derive16(): a hash of the request id, never zero.
derive(hash) == IF hash = 0 THEN 1 ELSE hash

\* Mutant, in no specification.
parent_b3_first(headers) ==
  IF parse_b3(b3_single(headers)) # Nil THEN parse_b3(b3_single(headers)) ELSE parse(get(headers, "traceparent"))

\* The W3C context if it is usable, else the B3 one.
parent(headers) ==
  LET from_w3c == parse(get(headers, "traceparent"))
  IN IF from_w3c # Nil THEN from_w3c ELSE parse_b3(b3_single(headers))

propagate_with_b3(headers, hash) ==
  IF parent(headers) # Nil
  THEN [trace |-> parent(headers).trace, span |-> derive(hash), sampled |-> parent(headers).sampled,
        tracestate |-> IF parse(get(headers, "traceparent")) = Nil THEN Nil
                       ELSE sanitize_tracestate(get(headers, "tracestate"))]
  ELSE [trace |-> derive(hash), span |-> derive(hash), sampled |-> TRUE, tracestate |-> Nil]

to_traceparent(t) == <<"00", t.trace, t.span, IF t.sampled THEN 1 ELSE 0>>

\* Only a deployment that exports its spans puts one on the way.
upstream_trace(dep, headers, hash) == IF dep.exporting THEN propagate_with_b3(headers, hash) ELSE Nil

-----------------------------------------------------------------------------
(* The operation's address. *)

Slash == "/"
Question == "?"
Percent == "%"
Ampersand == "&"

Code == [c \in {Slash, Question, Percent, Ampersand} |->
           CASE c = Slash -> "2F" [] c = Question -> "3F" [] c = Percent -> "25" [] c = Ampersand -> "26"]

\* Mutant, in no specification.
encode_not_percent(text) == FlattenSeq([k \in DOMAIN text |-> IF text[k] \in DOMAIN Code \ {Percent} THEN <<Percent, Code[text[k]]>> ELSE <<text[k]>>])

encode(text) == FlattenSeq([k \in DOMAIN text |-> IF text[k] \in DOMAIN Code THEN <<Percent, Code[text[k]]>> ELSE <<text[k]>>])

\* The words of a query string.
RoutingIs == "routing="
OpTypeCreate == "op_type=create"

\* A write of a document: by its id if it has one, with its shard routing.
DocOp(kind, id, routing) == [kind |-> kind, id |-> id, routing |-> routing, query |-> Nil, path |-> <<>>]

ReadOp(id, routing) == DocOp("get", id, routing)

\* For a search or a count, with what the client's query string said.
SearchOp(verb, query) == [DocOp(verb, Nil, Nil) EXCEPT !.query = query]

\* A path as the client gave it.
ForwardOp(path, query) == [DocOp("forward", Nil, Nil) EXCEPT !.path = path, !.query = query]

\* cursor(): sent as a forward.
CursorOp(path) == ForwardOp(path, Nil)

action_uri(verb, op) ==
  <<Slash, "idx", Slash, verb>> \o (IF op.id = Nil THEN <<>> ELSE <<Slash>> \o encode(op.id))
    \o (IF op.routing = Nil THEN <<>> ELSE <<Question, RoutingIs>> \o encode(op.routing))

create_auto_uri(op) ==
  <<Slash, "idx", Slash, "_doc", Question, OpTypeCreate>>
    \o (IF op.routing = Nil THEN <<>> ELSE <<Ampersand, RoutingIs>> \o encode(op.routing))

WithQuery(uri, query) == IF query \in {Nil, <<>>} THEN uri ELSE uri \o <<Question>> \o query

\* request_parts() for writes.
request_parts(op) ==
  CASE op.kind = "index" -> <<IF op.id = Nil THEN "POST" ELSE "PUT", action_uri("_doc", op)>>
    [] op.kind = "create" /\ op.id # Nil -> <<"PUT", action_uri("_create", op)>>
    [] op.kind = "create" /\ op.id = Nil -> <<"POST", create_auto_uri(op)>>
    [] op.kind = "update" -> <<"POST", action_uri("_update", op)>>
    [] op.kind = "delete" -> <<"DELETE", action_uri("_doc", op)>>

query_send(op) == <<"POST", WithQuery(<<Slash, "idx", Slash, op.kind>>, op.query)>>

reject_path_traversal(path) == <<".", ".">> \in Range(path)

forward_send(method, op) ==
  <<method, WithQuery(FlattenSeq([k \in DOMAIN op.path |-> <<Slash>> \o op.path[k]]), op.query)>>

Addressed(method, op) ==
  CASE op.kind \in {"index", "create", "update", "delete"} -> request_parts(op)
    [] op.kind = "get" -> <<"GET", action_uri("_doc", op)>>
    [] op.kind \in {"_search", "_count"} -> query_send(op)
    [] op.kind = "forward" -> forward_send(method, op)

-----------------------------------------------------------------------------
(* send(). *)

insert(headers, h) == [n \in DOMAIN headers \cup {h.name} |-> IF n = h.name THEN h.value ELSE headers[n]]

\* HeaderName::from_bytes() and HeaderValue::from_str() take it.
wire_valid(h) == h.name # Garbled /\ h.value # Garbled

\* Inserted one after the other, whoever comes later wins; one that is not valid is skipped.
apply_forward_headers(headers, forward) ==
  LET valid == {k \in DOMAIN forward : wire_valid(forward[k])}
      at(n) == {k \in valid : forward[k].name = n}
  IN [n \in DOMAIN headers \cup {forward[k].name : k \in valid} |->
        IF at(n) = {} THEN headers[n] ELSE forward[Max(at(n))].value]

\* UpstreamCredentials takes any strings: credentials that are not valid are not set, and
\* nobody is told.
apply_credentials(headers, credentials) ==
  IF credentials # Nil /\ wire_valid(credentials) THEN insert(headers, credentials) ELSE headers

inject_trace(headers, t) ==
  IF t = Nil THEN headers
  ELSE LET traced == insert(headers, [name |-> "traceparent", value |-> to_traceparent(t)])
       IN IF t.tracestate = Nil THEN traced ELSE insert(traced, [name |-> "tracestate", value |-> t.tracestate])

\* The client's headers, then the cluster's credentials, then the proxy's trace.
UpstreamHeaders(dep, headers, forward, t) ==
  inject_trace(apply_credentials(apply_forward_headers(headers, forward), dep.credentials), t)

\* A read by id has no body and so no content type of its own.
BuilderHeaders(op) ==
  IF op.kind = "get" THEN <<>> ELSE [n \in {"content-type"} |-> "json"]

NoOutcome == [ok |-> FALSE, retryable |-> FALSE, found |-> FALSE, status |-> 0]
Waiting == [pc |-> "idle", dep |-> Nil, call |-> Nil, class |-> Nil, trace |-> Nil, method |-> Nil,
            uri |-> <<>>, headers |-> <<>>, outcome |-> NoOutcome]

send_upstream(dep, call, hash) ==
  LET t == upstream_trace(dep, call.headers, hash)
      address == Addressed(call.method, call.op)
      refused == call.op.kind = "forward" /\ reject_path_traversal(call.op.path)
      new == [Waiting EXCEPT !.dep = dep, !.call = call, !.class = classify(call.method, call.path), !.trace = t]
  IN egress' = IF refused THEN [Waiting EXCEPT !.pc = "answered"]
               ELSE [new EXCEPT !.pc = "sent", !.method = address[1], !.uri = address[2],
                       !.headers = UpstreamHeaders(dep, BuilderHeaders(call.op), forward_set(dep, call.headers), t)]

\* reject_5xx(), and the outcome of what passes it.
answer(status) ==
  /\ egress.pc = "sent"
  /\ egress' = [Waiting EXCEPT !.pc = "answered",
       !.outcome = [ok |-> status < 500, retryable |-> status \in 502 .. 504, status |-> status,
                    found |-> egress.call.op.kind = "get" /\ status = 200]]

EgressInit == egress = Waiting

EgressNext ==
  \/ egress.pc = "idle" /\ \E case \in Cases, hash \in Hashes : send_upstream(case.dep, case.call, hash)
  \/ \E status \in {200, 201, 404, 429, 500, 503} : answer(status)

EgressSpec == EgressInit /\ [][EgressNext]_egress

-----------------------------------------------------------------------------
(* Properties. *)

Sent == egress.pc = "sent"

\* The buffer of four segments never makes a path look like a shorter one: a path is
\* classified as its full list of segments is (classify.rs classify).
ClassifiedInFull ==
  Sent => egress.class = Match(nonempty(egress.call.path), egress.call.method)

\* The cluster has credentials of its own that can be put on the wire.
Credited == egress.dep.credentials # Nil /\ wire_valid(egress.dep.credentials)

\* The cluster's own credentials reach it whatever the client sent under that name, if they
\* are valid on the wire.  If they are not, nothing replaces a header of the client's of
\* that name: it is then one the client sent, and the policy let through (opensearch.rs
\* send, apply_credentials).
CredentialsWin ==
  Sent /\ egress.dep.credentials # Nil =>
    LET name == egress.dep.credentials.name
        forward == forward_set(egress.dep, egress.call.headers)
    IN IF Credited THEN egress.headers[name] = egress.dep.credentials.value
       ELSE name \in DOMAIN egress.headers \ DOMAIN BuilderHeaders(egress.call.op) =>
              \E k \in DOMAIN forward : forward[k].name = name /\ forward[k].value = egress.headers[name]

\* What the proxy puts on the request itself.
OwnHeaders ==
  (IF Credited THEN {egress.dep.credentials.name} ELSE {})
    \cup (IF egress.trace = Nil THEN {} ELSE {"traceparent"})
    \cup (IF egress.trace = Nil \/ egress.trace.tracestate = Nil THEN {} ELSE {"tracestate"})
    \cup DOMAIN BuilderHeaders(egress.call.op)

\* A header of the client's that is of one hop only, or that the operator denied in
\* whatever spelling, never reaches the upstream (forward_headers.rs forward_set).
HeadersKeptBack ==
  Sent => \A n \in DOMAIN egress.headers \ OwnHeaders :
    n \notin NEVER_FORWARD /\ \A d \in egress.dep.deny : d.name # n

\* The upstream's span hangs in the client's trace: with export on its trace id and its
\* sampling decision are those of the client's W3C context, or of its B3 context if that
\* alone is usable, and no id is zero; with export off a header of the client's own goes
\* through, if any (trace.rs propagate_with_b3, pipeline.rs upstream_trace).
TraceContinued ==
  Sent =>
    LET headers == egress.call.headers
        w3c == parse(get(headers, "traceparent"))
        b3 == parse_b3(b3_single(headers))
        caller == IF w3c # Nil THEN w3c ELSE b3
    IN IF egress.dep.exporting
       THEN LET out == parse(egress.headers["traceparent"])
            IN out # Nil /\ (caller # Nil => out.trace = caller.trace /\ out.sampled = caller.sampled)
       ELSE "traceparent" \in DOMAIN egress.headers =>
              \E k \in DOMAIN headers :
                headers[k].name = "traceparent" /\ headers[k].value = egress.headers["traceparent"]

\* The headers of an upstream request are put together right: valid credentials of the
\* cluster win, what must stay behind stays behind, and the trace is the client's.
HeadersComposed == CredentialsWin /\ HeadersKeptBack /\ TraceContinued

\* What a server reads in a percent-encoded text: a code behind a percent sign stands for
\* a character, together with that sign.
Escaped(text, k) == k > 1 /\ text[k - 1] = Percent /\ \E c \in DOMAIN Code : Code[c] = text[k]

Decoded(text) ==
  FlattenSeq([k \in DOMAIN text |->
    IF Escaped(text, k) THEN <<CHOOSE c \in DOMAIN Code : Code[c] = text[k]>>
    ELSE IF k < Len(text) /\ Escaped(text, k + 1) THEN <<>> ELSE <<text[k]>>])

\* The document an upstream takes a URI to be about, and where its path has slashes.
ReadAs(uri) ==
  LET cut == SelectInSeq(uri, LAMBDA c : c = Question)
      path == IF cut = 0 THEN uri ELSE SubSeq(uri, 1, cut - 1)
      query == IF cut = 0 THEN <<>> ELSE SubSeq(uri, cut + 1, Len(uri))
      at == SelectInSeq(query, LAMBDA c : c = RoutingIs)
  IN [slashes |-> {k \in DOMAIN path : path[k] = Slash},
      id |-> IF Len(path) < 5 THEN Nil ELSE Decoded(SubSeq(path, 6, Len(path))),
      routing |-> IF at = 0 THEN Nil ELSE Decoded(SubSeq(query, at + 1, Len(query)))]

\* The upstream reads out of the URI the very id and routing the operation names,
\* whatever characters are in them (wire.rs action_uri, encode).
DocumentAddressed ==
  Sent /\ egress.call.op.kind \in {"index", "create", "update", "delete", "get"} =>
    LET op == egress.call.op
    IN ReadAs(egress.uri) = [slashes |-> IF op.id = Nil THEN {1, 3} ELSE {1, 3, 5}, id |-> op.id, routing |-> op.routing]

\* A request goes where its path means: to the endpoint of the whole path, however long,
\* and to the document of that very id.
GoesWhereMeant == ClassifiedInFull /\ DocumentAddressed
=============================================================================
