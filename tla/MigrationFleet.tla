--------------------------- MODULE MigrationFleet ---------------------------
(***************************************************************************)
(* The synchronous write path of the whole fleet racing a migration: each   *)
(* client is one request (or one bulk sub-batch) in some proxy instance     *)
(* that resolves a placement, passes the write gate and dispatches its      *)
(* operations upstream, while the controller of ControlPlane publishes      *)
(* Cutover, holds the drain barrier and flips.                              *)
(*                                                                          *)
(* Time matters here: the gate and the upstream write are separate steps,   *)
(* only the barrier keeps the flip away from a write that passed the gate   *)
(* before Cutover, and each operation of a batch has a timeout of its own.  *)
(***************************************************************************)
EXTENDS ControlPlane

CONSTANTS
  Timeout,   \* the sink's per-operation upstream timeout, in clock ticks
  Gap,       \* bound on the time a request needs to reach its next dispatch
  BatchMax   \* most operations of one partition in one sub-batch

ASSUME FleetAssumption ==
  /\ Timeout \in Nat \ {0}
  /\ Gap \in Nat
  /\ BatchMax \in Nat \ {0}

VARIABLE req   \* client -> where its request is, since when, and what it has left

fleetVars == <<migrationVars, req>>

ReqPcs == {"idle", "resolved", "ready", "sending"}
NoRequest == [pc |-> "idle", since |-> 0, left |-> 0]

FleetTypeOK ==
  req \in [Clients -> [pc : ReqPcs, since : Times, left : 0 .. BatchMax]]

FleetInit ==
  /\ TableInit
  /\ ControlInit
  /\ req = [c \in Clients |-> NoRequest]

-----------------------------------------------------------------------------
\* A request past the gate, whose next operation may still reach the upstream.
Live(c) == req[c].pc \in {"ready", "sending"}

Step(c, pc, left) == req' = [req EXCEPT ![c] = [pc |-> pc, since |-> now, left |-> left]]
Finish(c) == req' = [req EXCEPT ![c] = NoRequest]

\* resolve_with_retry / resolve_placement: a fresh read of the table.  A read
\* that fails is retried or fails the request: no step.
Resolve(c, p) ==
  /\ req[c].pc = "idle"
  /\ get(c, p)
  /\ Step(c, "resolved", 0)
  /\ UNCHANGED controlVars

\* Mutant, in no specification.
Gate_skipped(c, n) ==
  /\ req[c].pc = "resolved"
  /\ Step(c, "ready", n)
  /\ UNCHANGED migrationVars

\* gate_write, and gate() at a bulk flush: n operations are admitted at their
\* stamped epoch (items of the batch the gate rejects are not among them).
Gate(c, n) ==
  /\ req[c].pc = "resolved"
  /\ admit_write(held[c].partition, held[c].epoch)
  /\ Step(c, "ready", n)
  /\ UNCHANGED migrationVars

\* RequestError::StaleEpoch, the stale_epoch line of a bulk: the client retries.
Reject(c) ==
  /\ req[c].pc = "resolved"
  /\ ~ admit_write(held[c].partition, held[c].epoch)
  /\ Finish(c)
  /\ UNCHANGED migrationVars

\* The sink starts the next operation: its timeout starts now.
Dispatch(c) ==
  /\ req[c].pc = "ready"
  /\ Step(c, "sending", req[c].left)
  /\ UNCHANGED migrationVars

\* The breaker of the target's pool is open: the operation fails unsent.
Shed(c) ==
  /\ req[c].pc = "ready"
  /\ Finish(c)
  /\ UNCHANGED migrationVars

\* The upstream answered within the timeout.  write() reads the response and
\* goes on to the next operation of the batch, with a new timeout.
OpAcked(c) ==
  /\ req[c].pc = "sending"
  /\ IF req[c].left > 1 THEN Step(c, "ready", req[c].left - 1) ELSE Finish(c)
  /\ UNCHANGED migrationVars

\* A transport error or a 5xx, the operation applied or not: `?` ends the batch.
OpFailed(c) ==
  /\ req[c].pc = "sending"
  /\ Finish(c)
  /\ UNCHANGED migrationVars

\* tokio::time::timeout fires: the operation is given up, and with it the batch.
OpTimedOut(c) ==
  /\ req[c].pc = "sending"
  /\ now >= req[c].since + Timeout
  /\ Finish(c)
  /\ UNCHANGED migrationVars

RequestStep(c) ==
  \/ \E p \in Partitions : Resolve(c, p)
  \/ \E n \in 1 .. BatchMax : Gate(c, n)
  \/ Reject(c)
  \/ Dispatch(c)
  \/ Shed(c)
  \/ OpAcked(c)
  \/ OpFailed(c)
  \/ OpTimedOut(c)

\* Time passes, never beyond a running timeout nor beyond what a request needs
\* to get from the gate, or from one operation, to its next dispatch.
FleetTick ==
  /\ \A c \in Clients :
       /\ req[c].pc = "sending" => now < req[c].since + Timeout
       /\ req[c].pc = "ready" => now < req[c].since + Gap
  /\ Tick
  /\ UNCHANGED req

FleetNext ==
  \/ \E c \in Clients : RequestStep(c)
  \/ (\E c \in Clients : Register(c)) /\ UNCHANGED req
  \/ (\E k \in Callers : ControlCall(k)) /\ UNCHANGED req
  \/ ControllerRestart /\ UNCHANGED req
  \/ FleetTick

FleetSpec == FleetInit /\ [][FleetNext]_fleetVars

-----------------------------------------------------------------------------
(* Properties *)

\* docs/06 3a: by the flip "every pre-cutover write has committed or hit its
\* deadline, so none can land in the old placement after the flip".  A write past
\* the gate may land at any moment: it must be aimed where the partition is now.
NoOrphanedWrite ==
  \A c \in Clients :
    Live(c) => held[c].placement = read_placement(entries[held[c].partition])

\* The fleet implements PartitionHome: the home of a partition is where its reads
\* resolve to, the writes in flight are the live requests, and complete_migration
\* never moves a home that has a write in flight.
homeOf == [p \in Partitions |-> read_placement(entries[p])]
writingOf == [c \in Clients |->
                IF Live(c) THEN [partition |-> held[c].partition, placement |-> held[c].placement]
                ELSE [partition |-> NoPlacement, placement |-> NoPlacement]]

Abstract == INSTANCE PartitionHome WITH home <- homeOf, writing <- writingOf
ImplementsHome == Abstract!HomeSpec

\* The longest n operations of a batch can take, one after the other.
Drain(n) == n * (Gap + Timeout)

\* The barrier is long enough: it outlasts a whole batch, every operation of it
\* taking its time to be dispatched and then its full timeout.
BarrierCovers == Barrier > Drain(BatchMax)
=============================================================================
