---------------------------- MODULE MCDownstream ----------------------------
(* What an instance sends: a behaviour follows its durable buffer, its         *)
(* upstream pools, a request to an upstream, or its fan-out.                   *)
EXTENDS KafkaWal, UpstreamSink, MCFanout, MCEgress

VARIABLE part   \* the one it follows

vars == <<part, walVars, sinkVars, fanoutVars, egress>>

Init ==
  /\ part \in {"wal", "sink", "fanout", "egress"}
  /\ WalInit /\ SinkInit /\ EgressInit
  /\ IF part = "fanout" THEN FanoutInit ELSE FanoutStart(NoFanout)

Next ==
  \/ part = "wal" /\ WalNext /\ UNCHANGED <<part, sinkVars, fanoutVars, egress>>
  \/ part = "sink" /\ SinkNext /\ UNCHANGED <<part, walVars, fanoutVars, egress>>
  \/ part = "fanout" /\ FanoutNext /\ UNCHANGED <<part, walVars, sinkVars, egress>>
  \/ part = "egress" /\ EgressNext /\ UNCHANGED <<part, walVars, sinkVars, fanoutVars>>

Spec ==
  /\ Init /\ [][Next]_vars
  /\ (part = "wal") => WalFairness
  /\ (part = "sink") => SinkFairness
  /\ FanoutFairness
=============================================================================
