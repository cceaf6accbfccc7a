---------------------------- MODULE ControlPlane ----------------------------
(***************************************************************************)
(* The fleet-safe migration controller of crates/osproxy-control            *)
(* (migration.rs) over the placement table: it drives a partition through   *)
(* Draining, Cutover and the pointer flip, and holds a drain barrier        *)
(* between publishing Cutover and flipping.                                 *)
(*                                                                          *)
(* Every await and every lock of the controller's methods is a step         *)
(* boundary: the store transition and the update of cutover_at are separate *)
(* steps, and so are the four steps of complete_migration (read the clock,  *)
(* read the state, test the barrier, flip).  Calls may overlap.             *)
(***************************************************************************)
EXTENDS PlacementTable, Integers

CONSTANTS
  Callers,     \* concurrent users of one ControlPlane value
  Barrier,     \* the drain barrier, in clock ticks
  MaxTime,     \* bound: the clock stops here
  Serialized   \* TRUE: at most one call is in progress on a partition at a time

ASSUME ControlAssumption ==
  /\ Barrier \in Nat
  /\ MaxTime \in Nat
  /\ Serialized \in BOOLEAN

VARIABLES
  now,         \* the injected Clock
  cutover_at,  \* partition -> when this controller saw it enter cutover, or Unset
  call,        \* caller -> the method it is in and how far it got
  published    \* history: when each partition's current Cutover was published

controlVars == <<now, cutover_at, call, published>>
migrationVars == <<tableVars, controlVars>>

Unset == -1
Times == 0 .. MaxTime
CallPcs == {"idle", "record", "state", "barrier", "flip", "remove"}
Idle == [pc |-> "idle", partition |-> NoPlacement, at |-> 0]

ControlTypeOK ==
  /\ now \in Times
  /\ cutover_at \in [Partitions -> Times \cup {Unset}]
  /\ call \in [Callers -> [pc : CallPcs, partition : Partitions \cup {NoPlacement}, at : Times]]
  /\ published \in [Partitions -> Times]

ControlInit ==
  /\ now = 0
  /\ cutover_at = [p \in Partitions |-> Unset]
  /\ call = [k \in Callers |-> Idle]
  /\ published = [p \in Partitions |-> 0]

-----------------------------------------------------------------------------
\* Caller k may start a call on p: the controller itself imposes nothing, the
\* deployment rule "one controller drives a given partition's migration"
\* (docs/06) is Serialized.
MayCall(k, p) ==
  /\ call[k] = Idle
  /\ Serialized => \A j \in Callers : call[j].partition # p

Goto(k, pc, p, at) == call' = [call EXCEPT ![k] = [pc |-> pc, partition |-> p, at |-> at]]
Return(k) == call' = [call EXCEPT ![k] = Idle]

ControlBegin(k, p, to) ==
  /\ MayCall(k, p)
  /\ begin_migration(p, to)
  /\ UNCHANGED <<setting, held, controlVars>>

\* enter_cutover: the store transition, which publishes Cutover to the fleet ...
ControlEnterCutover(k, p) ==
  /\ MayCall(k, p)
  /\ enter_cutover(p)
  /\ published' = [published EXCEPT ![p] = now]
  /\ Goto(k, "record", p, now)
  /\ UNCHANGED <<setting, held, now, cutover_at>>

\* ... then the start of the barrier, at the time it is recorded.
RecordCutover(k) ==
  /\ call[k].pc = "record"
  /\ cutover_at' = [cutover_at EXCEPT ![call[k].partition] = now]
  /\ Return(k)
  /\ UNCHANGED <<tableVars, now, published>>

\* complete_migration reads the clock first ...
ControlComplete(k, p) ==
  /\ MayCall(k, p)
  /\ Goto(k, "state", p, now)
  /\ UNCHANGED <<tableVars, now, cutover_at, published>>

\* ... then the store's state: only a partition in cutover is held to the barrier.
CompleteReadState(k) ==
  /\ call[k].pc = "state"
  /\ Goto(k, IF entries[call[k].partition].phase = "Cutover" THEN "barrier" ELSE "flip",
          call[k].partition, call[k].at)
  /\ UNCHANGED <<tableVars, now, cutover_at, published>>

\* Mutant, in no specification.
barrier_started_ignoring_restart(p, at) ==
  IF cutover_at[p] = Unset THEN 0 ELSE cutover_at[p]

\* cutover_at.entry(p).or_insert(now): a controller that did not record the
\* cutover starts the barrier now.
barrier_started(p, at) == IF cutover_at[p] = Unset THEN at ELSE cutover_at[p]

\* now.saturating_duration_since(started) >= barrier; a clock reading older than
\* the start counts as zero elapsed.
barrier_elapsed(started, at) == (IF at >= started THEN at - started ELSE 0) >= Barrier

CompleteTestBarrier(k) ==
  LET p == call[k].partition
      started == barrier_started(p, call[k].at)
  IN  /\ call[k].pc = "barrier"
      /\ cutover_at' = [cutover_at EXCEPT ![p] = started]
      /\ IF barrier_elapsed(started, call[k].at)
           THEN Goto(k, "flip", p, call[k].at)
           ELSE Return(k)                       \* BarrierPending
      /\ UNCHANGED <<tableVars, now, published>>

\* The store's own transition decides: Cutover flips, anything else is refused.
CompleteFlip(k) ==
  /\ call[k].pc = "flip"
  /\ \/ /\ complete_migration(call[k].partition)
        /\ Goto(k, "remove", call[k].partition, call[k].at)
     \/ /\ entries[call[k].partition].phase # "Cutover"
        /\ Return(k)
        /\ UNCHANGED <<entries, generation>>
  /\ UNCHANGED <<setting, held, now, cutover_at, published>>

\* A distributed store may refuse any transition (MigrationError::Backend),
\* leaving the partition unchanged; the other methods then simply return.
FlipBackendFailure(k) ==
  /\ call[k].pc = "flip"
  /\ Return(k)
  /\ UNCHANGED <<tableVars, now, cutover_at, published>>

ControlAbort(k, p) ==
  /\ MayCall(k, p)
  /\ abort_migration(p)
  /\ Goto(k, "remove", p, now)
  /\ UNCHANGED <<setting, held, now, cutover_at, published>>

\* The last step of complete_migration and of abort_migration.
RemoveCutover(k) ==
  /\ call[k].pc = "remove"
  /\ cutover_at' = [cutover_at EXCEPT ![call[k].partition] = Unset]
  /\ Return(k)
  /\ UNCHANGED <<tableVars, now, published>>

\* The controller process dies and a new one starts: the table survives, the
\* barrier clocks and the calls in progress do not.
ControllerRestart ==
  /\ cutover_at' = [p \in Partitions |-> Unset]
  /\ call' = [k \in Callers |-> Idle]
  /\ UNCHANGED <<tableVars, now, published>>

\* Initial registration of a partition, by one set() call.
Register(c) ==
  /\ \/ \E p \in Partitions, pl \in Placements :
          /\ entries[p].phase = "Absent"
          /\ \A d \in Clients : setting[d].partition # p
          /\ set_epoch(c, p, pl)
     \/ set_insert(c)
  /\ UNCHANGED controlVars

ControlCall(k) ==
  \/ \E p \in Partitions :
       \/ \E to \in Placements : ControlBegin(k, p, to)
       \/ ControlEnterCutover(k, p)
       \/ ControlComplete(k, p)
       \/ ControlAbort(k, p)
  \/ RecordCutover(k)
  \/ CompleteReadState(k)
  \/ CompleteTestBarrier(k)
  \/ CompleteFlip(k)
  \/ FlipBackendFailure(k)
  \/ RemoveCutover(k)

Tick ==
  /\ now < MaxTime
  /\ now' = now + 1
  /\ UNCHANGED <<tableVars, cutover_at, call, published>>

ControlNext ==
  \/ \E c \in Clients : Register(c)
  \/ \E k \in Callers : ControlCall(k)
  \/ ControllerRestart
  \/ Tick

ControlSpec == TableInit /\ ControlInit /\ [][ControlNext]_migrationVars

-----------------------------------------------------------------------------
(* Properties *)

Flips(p) == entries[p].phase = "Cutover" /\ entries'[p].phase = "Settled"
              /\ \E k \in Callers : call[k].pc = "flip" /\ call[k].partition = p
                                    /\ call'[k].pc = "remove"

\* complete_migration is "refused while in-flight pre-cutover writes might still
\* be committing": however calls, restarts and refusals interleave, the pointer
\* flips only when the barrier has elapsed since this Cutover was published.
BarrierHeld ==
  [][\A p \in Partitions : Flips(p) => now - published[p] >= Barrier]_migrationVars
=============================================================================
