---------------------------- MODULE DurableQueue ----------------------------
(***************************************************************************)
(* What crates/osproxy-kafka-wal promises its callers (lib.rs, "Guarantees *)
(* and the honest caveats"): records are delivered in the order they were  *)
(* accepted, each at least once; the cursor only moves past a record the   *)
(* broker has stored; a restart may move it back, never forward.           *)
(***************************************************************************)
EXTENDS Naturals, Sequences, SequencesExt

CONSTANT Record

VARIABLES
  accepted,   \* the records the buffer took, in order
  cursor,     \* how many of them are acknowledged
  delivered   \* what the broker stored, in order, duplicates included

queueVars == <<accepted, cursor, delivered>>

QueueInit == accepted = <<>> /\ cursor = 0 /\ delivered = <<>>

Accept ==
  /\ \E r \in Record : accepted' = Append(accepted, r)
  /\ UNCHANGED <<cursor, delivered>>

Deliver ==
  /\ cursor < Len(accepted)
  /\ delivered' = Append(delivered, accepted[cursor + 1])
  /\ UNCHANGED <<accepted, cursor>>

Acknowledge ==
  /\ cursor < Len(accepted)
  /\ accepted[cursor + 1] \in Range(delivered)
  /\ cursor' = cursor + 1
  /\ UNCHANGED <<accepted, delivered>>

\* A restart that finds an older checkpoint replays from there.
Rewind ==
  /\ cursor' \in 0 .. cursor
  /\ UNCHANGED <<accepted, delivered>>

QueueNext == Accept \/ Deliver \/ Acknowledge \/ Rewind
QueueSpec == QueueInit /\ [][QueueNext]_queueVars
=============================================================================
