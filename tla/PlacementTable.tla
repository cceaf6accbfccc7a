--------------------------- MODULE PlacementTable ---------------------------
(***************************************************************************)
(* The epoch-versioned placement table of crates/osproxy-tenancy            *)
(* (placement_table.rs, migration.rs): the one piece of shared state every  *)
(* proxy instance polls to route a request and to gate a write, and that    *)
(* the migration controller drives through its phases.                      *)
(*                                                                          *)
(* A transition runs under the table's write lock, epoch allocation         *)
(* included, so it is one step.  `set` is not: it takes its epoch from the  *)
(* atomic generation counter before it takes the lock, so it is two steps,  *)
(* and another caller may run between them.                                 *)
(***************************************************************************)
EXTENDS Naturals

CONSTANTS
  Partitions,   \* partition (tenant) ids
  Placements,   \* physical placements: cluster, or cluster and index
  NoPlacement,  \* stands for the absent placement of an unregistered partition
  Clients,      \* threads that use the table: requests, and callers of set
  MaxEpoch      \* bound: the generation counter stops here

ASSUME TableAssumption ==
  /\ NoPlacement \notin Placements
  /\ NoPlacement \notin Partitions
  /\ MaxEpoch \in Nat

VARIABLES
  entries,     \* partition -> its migration state and the epoch it was stamped at
  generation,  \* the AtomicU64 the epochs come from
  setting,     \* client -> the set() call it is in, between epoch and insert
  held         \* client -> the decision it resolved last (partition, placement, epoch)

tableVars == <<entries, generation, setting, held>>

Epochs == 0 .. MaxEpoch

\* PartitionState, flattened: Active(p) is phase Settled with from = to = p,
\* and a partition that was never registered is Absent at Epoch::ZERO.
Phases == {"Absent", "Settled", "Draining", "Cutover"}

Entry == [phase : Phases, from : Placements \cup {NoPlacement},
          to : Placements \cup {NoPlacement}, epoch : Epochs]

Absent == [phase |-> "Absent", from |-> NoPlacement, to |-> NoPlacement, epoch |-> 0]

NoSet == [partition |-> NoPlacement, placement |-> NoPlacement, epoch |-> 0]
NoDecision == [partition |-> NoPlacement, placement |-> NoPlacement, epoch |-> 0]

TableTypeOK ==
  /\ entries \in [Partitions -> Entry]
  /\ generation \in Epochs
  /\ setting \in [Clients -> [partition : Partitions \cup {NoPlacement},
                              placement : Placements \cup {NoPlacement}, epoch : Epochs]]
  /\ held \in [Clients -> [partition : Partitions \cup {NoPlacement},
                           placement : Placements \cup {NoPlacement}, epoch : Epochs]]

TableInit ==
  /\ entries = [p \in Partitions |-> Absent]
  /\ generation = 0
  /\ setting = [c \in Clients |-> NoSet]
  /\ held = [c \in Clients |-> NoDecision]

-----------------------------------------------------------------------------
\* The single placement reads resolve to: from, until a migration completes.
read_placement(e) == e.from

\* Writes may commit unless the partition is in the cutover window.
write_open(e) == e.phase \in {"Settled", "Draining"}

\* Mutant, in no specification.
admit_any_epoch(p, epoch) == write_open(entries[p])

\* The write gate: writes are open and the partition has not moved since the
\* decision was resolved.
admit_write(p, epoch) == write_open(entries[p]) /\ entries[p].epoch = epoch

\* Mutant, in no specification.
next_epoch_reused == generation
\* fetch_add(1) + 1.
next_epoch == generation + 1

\* transition(): replace the entry and stamp it with a fresh epoch, atomically.
Stamp(p, phase, from, to) ==
  /\ generation < MaxEpoch
  /\ generation' = next_epoch
  /\ entries' = [entries EXCEPT ![p] = [phase |-> phase, from |-> from, to |-> to,
                                        epoch |-> next_epoch]]

\* Active(from) -> Migrating Draining.  An inapplicable transition returns an
\* error and leaves the table unchanged: it is no step.
begin_migration(p, to) ==
  /\ entries[p].phase = "Settled"
  /\ Stamp(p, "Draining", entries[p].from, to)

enter_cutover(p) ==
  /\ entries[p].phase = "Draining"
  /\ Stamp(p, "Cutover", entries[p].from, entries[p].to)

\* Mutant, in no specification.
complete_from_any(p) ==
  /\ entries[p].phase \in {"Draining", "Cutover"}
  /\ Stamp(p, "Settled", entries[p].to, entries[p].to)

\* The pointer flip: Cutover -> Active(to).
complete_migration(p) ==
  /\ entries[p].phase = "Cutover"
  /\ Stamp(p, "Settled", entries[p].to, entries[p].to)

abort_migration(p) ==
  /\ entries[p].phase \in {"Draining", "Cutover"}
  /\ Stamp(p, "Settled", entries[p].from, entries[p].from)

\* set(), first half: allocate the epoch, before the write lock is taken.
set_epoch(c, p, placement) ==
  /\ setting[c] = NoSet
  /\ generation < MaxEpoch
  /\ generation' = next_epoch
  /\ setting' = [setting EXCEPT ![c] = [partition |-> p, placement |-> placement,
                                        epoch |-> next_epoch]]
  /\ UNCHANGED <<entries, held>>

\* set(), second half: insert under the write lock, as Active, replacing
\* whatever is there.
set_insert(c) ==
  /\ setting[c] # NoSet
  /\ entries' = [entries EXCEPT ![setting[c].partition] =
                   [phase |-> "Settled", from |-> setting[c].placement,
                    to |-> setting[c].placement, epoch |-> setting[c].epoch]]
  /\ setting' = [setting EXCEPT ![c] = NoSet]
  /\ UNCHANGED <<generation, held>>

\* get(): the routing entry point.  None (PlacementMissing) is no step.
get(c, p) ==
  /\ entries[p].phase # "Absent"
  /\ held' = [held EXCEPT ![c] = [partition |-> p, placement |-> read_placement(entries[p]),
                                  epoch |-> entries[p].epoch]]
  /\ UNCHANGED <<entries, generation, setting>>

Transition(p) ==
  /\ \/ \E to \in Placements : begin_migration(p, to)
     \/ enter_cutover(p)
     \/ complete_migration(p)
     \/ abort_migration(p)
  /\ UNCHANGED <<setting, held>>

TableNext ==
  \/ \E p \in Partitions : Transition(p)
  \/ \E c \in Clients, p \in Partitions, pl \in Placements : set_epoch(c, p, pl)
  \/ \E c \in Clients : set_insert(c)
  \/ \E c \in Clients, p \in Partitions : get(c, p)

TableSpec == TableInit /\ [][TableNext]_tableVars

-----------------------------------------------------------------------------
(* Properties *)

\* The gate is sound (admit_write, docs/06 INV-M2): whatever transitions and
\* racing set() calls happened between a resolve and the gate, a decision the
\* gate admits names the placement the partition is at now.  It rests on an
\* epoch never standing for two placements of a partition.
GateSound ==
  \A c \in Clients :
    /\ held[c] # NoDecision
    /\ admit_write(held[c].partition, held[c].epoch)
    => held[c].placement = read_placement(entries[held[c].partition])

\* Epochs never come back: no two partitions carry the same stamp, and no stamp
\* still to be inserted by a set() equals one that is in the table.
StampsUnique ==
  /\ \A p, q \in Partitions :
       p # q /\ entries[p].epoch = entries[q].epoch => entries[p].epoch = 0
  /\ \A c \in Clients, p \in Partitions :
       setting[c] # NoSet => setting[c].epoch # entries[p].epoch
  /\ \A c, d \in Clients :
       c # d /\ setting[c] # NoSet /\ setting[d] # NoSet => setting[c].epoch # setting[d].epoch
=============================================================================
