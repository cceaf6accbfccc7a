----------------------------- MODULE MCRequests -----------------------------
EXTENDS Requests
Shared(c) == [kind |-> "SharedIndex", cluster |-> c, index |-> "shared"]
Own(c, i) == [kind |-> "DedicatedIndex", cluster |-> c, index |-> i]
Whole(c) == [kind |-> "DedicatedCluster", cluster |-> c, index |-> None]

\* "a" with the id "b1" and "ab" with the id "1" are told apart by a separator alone.
Long == <<"a", "b">>
MCPartitions == {<<"a">>, Long}
MCIds == {<<"1">>, <<"b", "1">>}
MCAutoIds == {<<"x">>}
TwoShared == (<<"a">> :> {Shared("A"), Shared("B")}) @@ (Long :> {Shared("A")})
Promoted == (<<"a">> :> {Shared("A"), Own("A", "own")}) @@ (Long :> {Shared("A")})
Dedicated == (<<"a">> :> {Own("A", "own"), Whole("D")}) @@ (Long :> {Shared("A")})

Together == (<<"a">> :> {Shared("A")}) @@ (Long :> {Shared("A")})

Routed(template) == [template |-> template, set_routing |-> TRUE]
Unrouted(template) == [template |-> template, set_routing |-> FALSE]
Prefixed == Routed(<<PartitionHole, ":", BodyHole>>)
Plain == [homes |-> TwoShared, rule |-> Prefixed, signer |-> TRUE, capture |-> FALSE, tls |-> TRUE,
          dev |-> FALSE, queue |-> FALSE, dbq |-> TRUE, mode |-> "Sync", pass |-> {},
          ids |-> {<<"1">>}, queries |-> {"plain"}, multi |-> FALSE, max_docs |-> 1, max_cursors |-> 1]
Unsigned == [Plain EXCEPT !.signer = FALSE, !.max_docs = 2, !.max_cursors = 0, !.queries = Queries, !.multi = TRUE]
MCDeployments ==
  {Plain,
   [Plain EXCEPT !.multi = TRUE, !.queries = {"plain", "suggest"}, !.max_cursors = 0],
   [Plain EXCEPT !.ids = {}, !.max_docs = 0, !.max_cursors = 2],
   [Unsigned EXCEPT !.queue = TRUE, !.mode = "Async", !.rule = Unrouted(<<PartitionHole, ":", BodyHole>>)],
   [Unsigned EXCEPT !.homes = Dedicated, !.rule = Unrouted(<<BodyHole, ":", PartitionHole>>), !.capture = TRUE, !.dbq = FALSE,
                 !.max_docs = 1],
   [Unsigned EXCEPT !.homes = Dedicated, !.rule = None, !.tls = FALSE, !.max_docs = 1],
   [Unsigned EXCEPT !.rule = Unrouted(<<BodyHole>>), !.dev = TRUE],
   [Unsigned EXCEPT !.homes = Dedicated, !.rule = Routed(<<PartitionHole, BodyHole, BodyHole>>), !.max_docs = 1],
   [Plain EXCEPT !.homes = Promoted, !.dbq = FALSE],
   [Unsigned EXCEPT !.homes = Together, !.rule = Unrouted(<<PartitionHole, BodyHole>>), !.ids = MCIds],
   [Unsigned EXCEPT !.pass = {"i"}],
   [Unsigned EXCEPT !.pass = {"i"}, !.capture = TRUE]}
=============================================================================
