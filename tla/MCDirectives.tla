---------------------------- MODULE MCDirectives ----------------------------
(* Directive documents, requests and instances for the runs of Directives.    *)
EXTENDS Directives

Anything == [tenant |-> None, endpoint |-> None]
Wire == [match |-> Anything, level |-> 1, ttl_secs |-> 1, sample_per_mille |-> 1000, ring_buffer |-> FALSE,
         capture |-> FALSE, unknown_key |-> FALSE]
Deep == [Wire EXCEPT !.level = 3, !.match.tenant = "a"]
Tee == [Wire EXCEPT !.level = 0, !.ttl_secs = 2, !.capture = TRUE, !.ring_buffer = TRUE, !.sample_per_mille = 500]
MCDocuments == {{Deep}, {Tee}, {Deep, [Tee EXCEPT !.unknown_key = TRUE]}}
Ofa == [tenant |-> "a", endpoint |-> "Search"]
Nobody == [tenant |-> None, endpoint |-> "Count"]
Debug == [signed |-> TRUE, exp |-> 1, match |-> [Anything EXCEPT !.endpoint = "Search"], level |-> 2,
          ring_buffer |-> TRUE, capture |-> FALSE]
Plain == [attrs |-> Ofa, header |-> None, ok |-> TRUE, served |-> TRUE, streams |-> TRUE]
MCArrivals ==
  {Plain, [Plain EXCEPT !.attrs = Nobody, !.ok = FALSE, !.streams = FALSE], [Plain EXCEPT !.header = Debug],
   [Plain EXCEPT !.header = [Debug EXCEPT !.signed = FALSE], !.streams = FALSE], [Plain EXCEPT !.served = FALSE]}
Quiet == [etcd |-> FALSE, level |-> 0, capture |-> FALSE, sink |-> FALSE, requests |-> 0, revs |-> 0, faults |-> 0, time |-> 0]
MCSettings ==
  {Quiet,
   [Quiet EXCEPT !.etcd = TRUE, !.revs = 3, !.faults = 3],
   [Quiet EXCEPT !.etcd = TRUE, !.sink = TRUE, !.requests = 1, !.revs = 2, !.faults = 1, !.time = 1],
   [Quiet EXCEPT !.level = 1, !.capture = TRUE, !.sink = TRUE, !.requests = 2, !.revs = 1],
   [Quiet EXCEPT !.capture = TRUE, !.requests = 2],
   [Quiet EXCEPT !.sink = TRUE, !.requests = 2, !.revs = 1, !.time = 1]}
=============================================================================
