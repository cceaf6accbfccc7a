------------------------------ MODULE MCEgress ------------------------------
(* Deployments and calls for the runs of Egress.                              *)
EXTENDS Egress

H(name, value) == [name |-> name, value |-> value]
Perhaps(name, values) == {<<>>} \cup {<<H(name, v)>> : v \in values}

Denied == {{}, {[name |-> "authorization", upper |-> TRUE], [name |-> "x", upper |-> FALSE]}, {[name |-> "traceparent", upper |-> FALSE], [name |-> "tracestate", upper |-> TRUE]}}

MCDeployments ==
  [forward : {TRUE}, exporting : BOOLEAN, deny : Denied, credentials : {Nil, H("authorization", "cluster")}]
    \cup [forward : {TRUE}, exporting : BOOLEAN, deny : {{}}, credentials : {H("authorization", Garbled)}]
    \cup [forward : {FALSE}, exporting : BOOLEAN, deny : {{}}, credentials : {Nil, H("authorization", "cluster")}]

Traceparents == {<<"00", 5, 7, 1>>, <<"00", 5, 7, 2>>, <<"00", 0, 7, 1>>, <<"00", 5, Nil, 1>>, <<"01", 5, 7, 1>>, <<"00", 5>>}
B3s == {<<6, 8>>, <<6, 8, "0">>, <<6, 8, "d", 9>>, <<6, 8, "x">>, <<6, 8, "1", 9, 9>>, <<0, 8>>}
B3Headers ==
  Perhaps("b3", B3s) \cup {<<H("x-b3-traceid", 6), H("x-b3-spanid", 8)>>, <<H("x-b3-traceid", 6)>>,
                           <<H("x-b3-traceid", 6), H("x-b3-spanid", 8), H("x-b3-sampled", "0")>>}
Others == {<<>>, <<H("authorization", "client"), H("x", "1"), H("x", "2")>>, <<H("connection", "close"), H("content-type", "client"), H("traceparent", <<"00", 9, 9, 1>>)>>}

Plain == [method |-> "GET", path |-> <<<<"i">>, <<"_doc">>, <<"a">>>>, headers |-> <<>>, op |-> ReadOp(<<"a">>, Nil)]

HeaderCalls ==
  {[Plain EXCEPT !.headers = t \o s \o b \o o] :
     t \in Perhaps("traceparent", Traceparents), s \in Perhaps("tracestate", {"vendor", "oversized", "empty"}),
     b \in B3Headers, o \in Others}

Segments == {<<>>, <<"_doc">>, <<"_search">>, <<"scroll">>, <<"point_in_time">>, <<"_bulk">>, <<"_cat">>, <<"i">>}
PathCalls ==
  {[Plain EXCEPT !.method = m, !.path = p] : m \in {"GET", "POST", "DELETE"}, p \in [1 .. 3 -> Segments] \cup {<<<<"i">>>> \o t : t \in [1 .. 3 -> Segments]}}
    \cup {[Plain EXCEPT !.path = <<<<"i">>, v, <<"a">>, <<"b">>, <<"c">>>>] :
            v \in {<<"_create">>, <<"_count">>, <<"_mget">>, <<"_msearch">>, <<"_delete_by_query">>}}
    \cup {[Plain EXCEPT !.path = <<<<"i">>, v>>] : v \in {<<"_count">>, <<"_mget">>, <<"_msearch">>, <<"_delete_by_query">>}}

Texts == UNION {[1 .. n -> {"a", "/", "%", "2F", "?", "&"}] : n \in 1 .. 3}
AddressCalls ==
  {[Plain EXCEPT !.op = DocOp(k, id, Nil)] : k \in {"index", "create", "update", "delete", "get"}, id \in Texts}
    \cup {[Plain EXCEPT !.op = DocOp(k, id, r)] : k \in {"index", "create"}, id \in {Nil, <<"a">>}, r \in {t \in Texts : Len(t) < 3}}
    \cup {[Plain EXCEPT !.op = SearchOp(v, q)] : v \in {"_search", "_count"}, q \in {Nil, <<"size=1">>}}
    \cup {[Plain EXCEPT !.op = CursorOp(<<<<"_search">>, <<"scroll">>>>)]}
    \cup {[Plain EXCEPT !.method = "POST", !.op = ForwardOp(p, q)] : p \in {<<<<"_cat">>>>, <<<<"i">>, <<".", ".">>>>}, q \in {Nil, <<"v">>}}

MCCases ==
  [dep : MCDeployments, call : HeaderCalls]
    \cup [dep : {[forward |-> TRUE, exporting |-> FALSE, deny |-> {}, credentials |-> Nil]}, call : PathCalls \cup AddressCalls]
=============================================================================
