------------------------------ MODULE MCFanout ------------------------------
(* Instances and clients for the runs of Fanout.                              *)
EXTENDS Fanout

Doc(header) == [kind |-> "doc", header |-> header, cas |-> FALSE, json |-> TRUE]
Bulk == [Doc("own") EXCEPT !.kind = "bulk"]
Dbq == [Doc("own") EXCEPT !.kind = "dbq"]
Conditional == [Doc("own") EXCEPT !.cas = TRUE]
NotJson == [Doc("own") EXCEPT !.json = FALSE]
NoFanout == [capture |-> FALSE, redact |-> FALSE, queue |-> FALSE, cbor |-> FALSE, asks |-> {}, tries |-> 2]
MCSetups ==
  {[NoFanout EXCEPT !.capture = TRUE, !.redact = TRUE],
   [NoFanout EXCEPT !.capture = TRUE],
   [NoFanout EXCEPT !.asks = {Doc("own"), Conditional}],
   [NoFanout EXCEPT !.queue = TRUE, !.asks = {Doc("none"), Bulk, Conditional}],
   [NoFanout EXCEPT !.queue = TRUE, !.cbor = TRUE, !.tries = 3, !.asks = {Doc("own"), Doc("bad"), NotJson}],
   [NoFanout EXCEPT !.queue = TRUE, !.cbor = TRUE, !.asks = {Dbq}]}
=============================================================================
