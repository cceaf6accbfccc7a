-------------------------- MODULE MigrationProofs ---------------------------
(***************************************************************************)
(* Proofs about migrations.  The placement table, for any number of         *)
(* partitions, placements, clients and epochs.  The controller that drives  *)
(* it: while the calls on a partition are serialized, the drain barrier     *)
(* holds, for every barrier, every number of partitions and callers, and    *)
(* across restarts of the controller.  The fleet: a migration never orphans *)
(* a synchronous write, and the fleet implements PartitionHome, for any     *)
(* fleet, any batch size, any timeout and any barrier that outlasts a whole *)
(* batch (BarrierCovers), with the calls on a partition serialized.         *)
(***************************************************************************)
EXTENDS MigrationFleet, TLAPS

-----------------------------------------------------------------------------
(* The placement table. *)

\* No stamp in use is newer than the generation counter.
StampsBounded ==
  /\ \A p \in Partitions : entries[p].epoch =< generation
  /\ \A c \in Clients : held[c].epoch =< generation /\ setting[c].epoch =< generation

\* A set() between its two steps names a partition and a placement, and carries
\* an epoch nobody has resolved yet.
PendingSetFresh ==
  \A c \in Clients : setting[c] # NoSet =>
    /\ setting[c].partition \in Partitions
    /\ setting[c].placement \in Placements
    /\ setting[c].epoch > 0
    /\ \A d \in Clients : held[d].epoch # setting[c].epoch

\* An epoch a client holds stands for one placement: while the partition still
\* carries it, it is where the client found it.
HeldEpochSound ==
  \A c \in Clients : held[c] # NoDecision =>
    /\ held[c].partition \in Partitions
    /\ held[c].epoch = entries[held[c].partition].epoch
         => held[c].placement = read_placement(entries[held[c].partition])

\* A registered partition is somewhere, and a migration goes somewhere.
EntriesPlaced ==
  \A p \in Partitions : entries[p].phase # "Absent" =>
    entries[p].from \in Placements /\ entries[p].to \in Placements

TableInv == TableTypeOK /\ EntriesPlaced /\ StampsBounded /\ StampsUnique
              /\ PendingSetFresh /\ HeldEpochSound

LEMMA TableInitInv == TableInit => TableInv
  BY TableAssumption
  DEF TableInit, TableInv, TableTypeOK, EntriesPlaced, StampsBounded, StampsUnique,
      PendingSetFresh, HeldEpochSound, Absent, NoSet, NoDecision, Entry, Phases, Epochs

\* The four transitions have this shape: one partition gets a fresh epoch.
LEMMA StampStep ==
  ASSUME TableInv, NEW p \in Partitions, NEW phase \in Phases,
         NEW from \in Placements, NEW to \in Placements,
         Stamp(p, phase, from, to), UNCHANGED <<setting, held>>
  PROVE  TableInv'
<1> DEFINE e == [phase |-> phase, from |-> from, to |-> to, epoch |-> generation + 1]
<1>1. /\ generation \in Nat /\ generation + 1 \in Epochs
      /\ entries \in [Partitions -> Entry]
      /\ generation' = generation + 1
      /\ entries' = [entries EXCEPT ![p] = e]
  BY TableAssumption DEF TableInv, TableTypeOK, Stamp, next_epoch, Epochs
<1>2. TableTypeOK'
  <2>1. e \in Entry
    BY <1>1 DEF Entry
  <2> QED BY <1>1, <2>1 DEF TableInv, TableTypeOK
<1>3. \A q \in Partitions : entries'[q] = IF q = p THEN e ELSE entries[q]
  BY <1>1
<1>e. /\ \A q \in Partitions : entries[q].epoch \in Nat
      /\ \A c \in Clients : held[c].epoch \in Nat /\ setting[c].epoch \in Nat
  BY TableAssumption DEF TableInv, TableTypeOK, Entry, Epochs
<1>4. StampsBounded'
  BY <1>1, <1>3, <1>e DEF TableInv, StampsBounded
<1>5. StampsUnique'
  BY <1>1, <1>3, <1>e DEF TableInv, StampsBounded, StampsUnique
<1>6. PendingSetFresh'
  BY <1>1 DEF TableInv, PendingSetFresh
<1>7. HeldEpochSound'
  BY <1>1, <1>3, <1>e DEF TableInv, StampsBounded, HeldEpochSound, read_placement
<1>8. EntriesPlaced'
  BY <1>3 DEF TableInv, EntriesPlaced
<1> QED BY <1>2, <1>4, <1>5, <1>6, <1>7, <1>8 DEF TableInv

LEMMA TransitionStep ==
  ASSUME TableInv, NEW p \in Partitions, Transition(p)
  PROVE  TableInv'
<1>1. entries[p].from \in Placements /\ entries[p].to \in Placements
  BY DEF TableInv, EntriesPlaced, Transition, begin_migration, enter_cutover, complete_migration,
         abort_migration
<1>2. CASE \E to \in Placements : begin_migration(p, to)
  BY <1>1, <1>2, StampStep DEF begin_migration, Transition, Phases
<1>3. CASE enter_cutover(p)
  BY <1>1, <1>3, StampStep DEF enter_cutover, Transition, Phases
<1>4. CASE complete_migration(p)
  BY <1>1, <1>4, StampStep DEF complete_migration, Transition, Phases
<1>5. CASE abort_migration(p)
  BY <1>1, <1>5, StampStep DEF abort_migration, Transition, Phases
<1> QED BY <1>2, <1>3, <1>4, <1>5 DEF Transition

LEMMA SetEpochStep ==
  ASSUME TableInv, NEW c \in Clients, NEW p \in Partitions, NEW pl \in Placements,
         set_epoch(c, p, pl)
  PROVE  TableInv'
<1> DEFINE s == [partition |-> p, placement |-> pl, epoch |-> generation + 1]
<1>1. /\ generation \in Nat /\ generation + 1 \in Epochs
      /\ generation' = generation + 1
      /\ setting' = [setting EXCEPT ![c] = s]
      /\ UNCHANGED <<entries, held>>
  BY TableAssumption DEF TableInv, TableTypeOK, set_epoch, next_epoch, Epochs
<1>2. TableTypeOK'
  BY <1>1 DEF TableInv, TableTypeOK
<1>3. \A d \in Clients : setting'[d] = IF d = c THEN s ELSE setting[d]
  BY <1>1 DEF TableInv, TableTypeOK
<1>e. /\ \A q \in Partitions : entries[q].epoch \in Nat
      /\ \A d \in Clients : held[d].epoch \in Nat /\ setting[d].epoch \in Nat
  BY TableAssumption DEF TableInv, TableTypeOK, Entry, Epochs
<1>4. StampsBounded'
  BY <1>1, <1>3, <1>e DEF TableInv, StampsBounded
<1>5. StampsUnique'
  BY <1>1, <1>3, <1>e DEF TableInv, StampsBounded, StampsUnique
<1>6. PendingSetFresh'
  BY <1>1, <1>3, <1>e DEF TableInv, PendingSetFresh, StampsBounded
<1>7. HeldEpochSound'
  BY <1>1 DEF TableInv, HeldEpochSound, read_placement
<1> QED BY <1>1, <1>2, <1>4, <1>5, <1>6, <1>7 DEF TableInv, EntriesPlaced

LEMMA SetInsertStep ==
  ASSUME TableInv, NEW c \in Clients, set_insert(c)
  PROVE  TableInv'
<1> DEFINE q == setting[c].partition
           e == [phase |-> "Settled", from |-> setting[c].placement,
                 to |-> setting[c].placement, epoch |-> setting[c].epoch]
<1>1. /\ setting[c] # NoSet
      /\ q \in Partitions /\ setting[c].placement \in Placements
      /\ setting[c].epoch \in Epochs /\ setting[c].epoch > 0
      /\ entries' = [entries EXCEPT ![q] = e]
      /\ setting' = [setting EXCEPT ![c] = NoSet]
      /\ UNCHANGED <<generation, held>>
  BY DEF TableInv, TableTypeOK, PendingSetFresh, set_insert
<1>2. TableTypeOK'
  <2>1. e \in Entry
    BY <1>1 DEF Entry, Phases
  <2>2. NoSet \in [partition : Partitions \cup {NoPlacement},
                   placement : Placements \cup {NoPlacement}, epoch : Epochs]
    BY TableAssumption DEF NoSet, Epochs
  <2> QED BY <1>1, <2>1, <2>2 DEF TableInv, TableTypeOK
<1>3. /\ \A p \in Partitions : entries'[p] = IF p = q THEN e ELSE entries[p]
      /\ \A d \in Clients : setting'[d] = IF d = c THEN NoSet ELSE setting[d]
  BY <1>1 DEF TableInv, TableTypeOK
<1>e. /\ \A p \in Partitions : entries[p].epoch \in Nat
      /\ \A d \in Clients : held[d].epoch \in Nat /\ setting[d].epoch \in Nat
      /\ generation \in Nat
      /\ NoSet.epoch = 0
  BY TableAssumption DEF TableInv, TableTypeOK, Entry, Epochs, NoSet
<1>4. StampsBounded'
  BY <1>1, <1>3, <1>e DEF TableInv, StampsBounded
<1>5. StampsUnique'
  BY <1>1, <1>3, <1>e DEF TableInv, StampsUnique
<1>6. PendingSetFresh'
  BY <1>1, <1>3, <1>e DEF TableInv, PendingSetFresh
<1>7. HeldEpochSound'
  BY <1>1, <1>3, <1>e DEF TableInv, HeldEpochSound, PendingSetFresh, read_placement
<1>8. EntriesPlaced'
  BY <1>1, <1>3 DEF TableInv, EntriesPlaced
<1> QED BY <1>2, <1>4, <1>5, <1>6, <1>7, <1>8 DEF TableInv

LEMMA GetStep ==
  ASSUME TableInv, NEW c \in Clients, NEW p \in Partitions, get(c, p)
  PROVE  TableInv'
<1> DEFINE h == [partition |-> p, placement |-> entries[p].from, epoch |-> entries[p].epoch]
<1>1. /\ held' = [held EXCEPT ![c] = h]
      /\ UNCHANGED <<entries, generation, setting>>
  BY DEF get, read_placement
<1>2. h \in [partition : Partitions \cup {NoPlacement},
             placement : Placements \cup {NoPlacement}, epoch : Epochs]
  BY DEF TableInv, TableTypeOK, Entry
<1>3. TableTypeOK'
  BY <1>1, <1>2 DEF TableInv, TableTypeOK
<1>4. \A d \in Clients : held'[d] = IF d = c THEN h ELSE held[d]
  BY <1>1 DEF TableInv, TableTypeOK
<1>5. StampsBounded'
  BY <1>1, <1>4 DEF TableInv, StampsBounded
<1>6. StampsUnique'
  BY <1>1 DEF TableInv, StampsUnique
<1>7. PendingSetFresh'
  BY <1>1, <1>4 DEF TableInv, PendingSetFresh, StampsUnique
<1>8. HeldEpochSound'
  BY <1>1, <1>4 DEF TableInv, HeldEpochSound, read_placement
<1> QED BY <1>1, <1>3, <1>5, <1>6, <1>7, <1>8 DEF TableInv, EntriesPlaced

\* TableInv is inductive for the table alone, and so for every module that only
\* takes table steps.
LEMMA TableStep == TableInv /\ [TableNext]_tableVars => TableInv'
<1> SUFFICES ASSUME TableInv, [TableNext]_tableVars PROVE TableInv'
  OBVIOUS
<1>1. CASE UNCHANGED tableVars
  BY <1>1 DEF tableVars, TableInv, TableTypeOK, EntriesPlaced, StampsBounded, StampsUnique,
              PendingSetFresh, HeldEpochSound, read_placement
<1>2. CASE TableNext
  BY <1>2, TransitionStep, SetEpochStep, SetInsertStep, GetStep DEF TableNext
<1> QED BY <1>1, <1>2

LEMMA TableInvariant == TableSpec => []TableInv
  BY TableInitInv, TableStep, PTL DEF TableSpec

\* The table keeps its types.
THEOREM TableTypes == TableSpec => []TableTypeOK
<1>1. TableInv => TableTypeOK
  BY DEF TableInv
<1> QED BY <1>1, TableInvariant, PTL

\* No stamp is ever given twice, racing set() calls included.
THEOREM TableStampsUnique == TableSpec => []StampsUnique
<1>1. TableInv => StampsUnique
  BY DEF TableInv
<1> QED BY <1>1, TableInvariant, PTL

\* The write gate never admits a decision that names another placement than the
\* partition's own.
THEOREM TableGateSound == TableSpec => []GateSound
<1>1. TableInv => GateSound
  BY DEF TableInv, HeldEpochSound, GateSound, admit_write
<1> QED BY <1>1, TableInvariant, PTL

-----------------------------------------------------------------------------
(* The controller. *)


\* A call in progress is on a partition, and no two are on the same one.
CallsSerial ==
  /\ \A k \in Callers : call[k].pc = "idle" => call[k] = Idle
  /\ \A k \in Callers : call[k].pc # "idle" => call[k].partition \in Partitions
  /\ \A j, k \in Callers :
       j # k /\ call[j].partition = call[k].partition => call[j].partition = NoPlacement

\* No recorded time is in the future.
ClockBounds ==
  /\ \A p \in Partitions : published[p] =< now /\ cutover_at[p] =< now
  /\ \A k \in Callers : call[k].at =< now

Recording(p) == \E k \in Callers : call[k].pc = "record" /\ call[k].partition = p

\* Once recorded, the start of the barrier is not before the Cutover it is for.
BarrierStart ==
  \A p \in Partitions :
    entries[p].phase = "Cutover" /\ cutover_at[p] # Unset /\ ~ Recording(p)
      => cutover_at[p] >= published[p]

\* A complete_migration that is under way read its clock after that Cutover, and
\* one that has passed the barrier test passed it for that Cutover.
CompleteClock ==
  \A k \in Callers :
    /\ call[k].pc \in {"state", "barrier", "flip"} => call[k].at >= published[call[k].partition]
    /\ call[k].pc = "flip" /\ entries[call[k].partition].phase = "Cutover"
         => call[k].at - published[call[k].partition] >= Barrier

\* A registration in progress is of a partition that is still absent, and is the
\* only one of that partition.
RegisterPending ==
  /\ \A c \in Clients : setting[c] # NoSet => entries[setting[c].partition].phase = "Absent"
  /\ \A c, d \in Clients :
       c # d /\ setting[c].partition = setting[d].partition => setting[c].partition = NoPlacement

ControlInv ==
  ControlTypeOK /\ CallsSerial /\ ClockBounds /\ BarrierStart /\ CompleteClock /\ RegisterPending

LEMMA ControlInitInv == TableInit /\ ControlInit => ControlInv
  BY TableAssumption, ControlAssumption
  DEF TableInit, ControlInit, ControlInv, ControlTypeOK, CallsSerial, ClockBounds, BarrierStart,
      CompleteClock, RegisterPending, Absent, Idle, NoSet, Times, Unset, CallPcs

-----------------------------------------------------------------------------
\* Every step of the controller is a step of the table, or leaves it alone.
LEMMA ControlTakesTableSteps == CallsSerial /\ ControlNext => [TableNext]_tableVars
<1> SUFFICES ASSUME CallsSerial, ControlNext PROVE [TableNext]_tableVars
  OBVIOUS
<1>1. CASE \E c \in Clients : Register(c)
  BY <1>1 DEF Register, TableNext
<1>2. CASE \E k \in Callers : ControlCall(k)
  <2> PICK k \in Callers : ControlCall(k)
    BY <1>2
  <2>1. CASE \E p \in Partitions : (\E to \in Placements : ControlBegin(k, p, to))
                                     \/ ControlEnterCutover(k, p) \/ ControlAbort(k, p)
    BY <2>1 DEF ControlBegin, ControlEnterCutover, ControlAbort, Transition, TableNext
  <2>2. CASE CompleteFlip(k)
    <3>1. call[k].partition \in Partitions
      BY <2>2 DEF CompleteFlip, CallsSerial
    <3> QED BY <2>2, <3>1 DEF CompleteFlip, Transition, TableNext, tableVars
  <2> QED
    BY <2>1, <2>2 DEF ControlCall, ControlComplete, CompleteReadState, CompleteTestBarrier,
                      FlipBackendFailure, RecordCutover, RemoveCutover, tableVars
<1>3. CASE ControllerRestart \/ Tick
  BY <1>3 DEF ControllerRestart, Tick, tableVars
<1> QED BY <1>1, <1>2, <1>3 DEF ControlNext

-----------------------------------------------------------------------------
\* Steps that leave the phases and the controller alone.
LEMMA ControlUntouched ==
  ControlInv /\ UNCHANGED <<entries, setting, controlVars>> => ControlInv'
  BY DEF ControlInv, ControlTypeOK, CallsSerial, ClockBounds, BarrierStart, CompleteClock,
         RegisterPending, Recording, controlVars

LEMMA RegisterStep ==
  ASSUME TableInv, ControlInv, NEW c \in Clients, Register(c)
  PROVE  ControlInv'
<1>1. UNCHANGED controlVars
  BY DEF Register
<1>2. CASE \E p \in Partitions, pl \in Placements :
             /\ entries[p].phase = "Absent"
             /\ \A d \in Clients : setting[d].partition # p
             /\ set_epoch(c, p, pl)
  <2> PICK p \in Partitions, pl \in Placements :
             /\ entries[p].phase = "Absent"
             /\ \A d \in Clients : setting[d].partition # p
             /\ set_epoch(c, p, pl)
    BY <1>2
  <2>1. /\ UNCHANGED entries
        /\ setting[c] = NoSet
        /\ \A d \in Clients : setting'[d] =
             IF d = c THEN [partition |-> p, placement |-> pl, epoch |-> next_epoch] ELSE setting[d]
    BY DEF set_epoch, TableInv, TableTypeOK
  <2>2. RegisterPending'
    BY <2>1 DEF ControlInv, RegisterPending
  <2> QED BY <1>1, <2>1, <2>2
          DEF ControlInv, ControlTypeOK, CallsSerial, ClockBounds, BarrierStart, CompleteClock,
              Recording, controlVars
<1>3. CASE set_insert(c)
  <2> DEFINE q == setting[c].partition
  <2>1. /\ q \in Partitions
        /\ \A p \in Partitions : p # q => entries'[p] = entries[p]
        /\ entries'[q].phase = "Settled"
        /\ \A d \in Clients : setting'[d] = IF d = c THEN NoSet ELSE setting[d]
    BY <1>3 DEF set_insert, TableInv, TableTypeOK, PendingSetFresh
  <2>2. RegisterPending'
    BY <2>1, TableAssumption DEF ControlInv, RegisterPending, TableInv, PendingSetFresh, NoSet
  <2>3. BarrierStart'
    BY <1>1, <2>1 DEF ControlInv, BarrierStart, Recording, controlVars
  <2>4. CompleteClock'
    BY <1>1, <2>1 DEF ControlInv, CompleteClock, CallsSerial, controlVars
  <2> QED BY <1>1, <2>2, <2>3, <2>4
          DEF ControlInv, ControlTypeOK, CallsSerial, ClockBounds, controlVars
<1> QED BY <1>2, <1>3 DEF Register

\* begin_migration and abort_migration: the partition is not in Cutover afterwards,
\* and no other call is on it.
LEMMA LeavesCutover ==
  ASSUME TableInv, ControlInv, NEW p \in Partitions, NEW phase \in {"Settled", "Draining"},
         NEW from, NEW to, entries[p].phase # "Absent", Stamp(p, phase, from, to),
         UNCHANGED setting
  PROVE  /\ RegisterPending'
         /\ UNCHANGED <<now, cutover_at, call, published>> => ControlInv'
<1>1. \A q \in Partitions : q # p => entries'[q] = entries[q]
  BY DEF Stamp, TableInv, TableTypeOK
<1>2. entries'[p].phase = phase
  BY DEF Stamp, TableInv, TableTypeOK
<1>3. RegisterPending'
  BY <1>1 DEF ControlInv, RegisterPending, TableInv, PendingSetFresh
<1>4. ASSUME UNCHANGED <<now, cutover_at, call, published>> PROVE ControlInv'
  <2>1. BarrierStart'
    BY <1>1, <1>2, <1>4 DEF ControlInv, BarrierStart, Recording
  <2>2. CompleteClock'
    BY <1>1, <1>2, <1>4 DEF ControlInv, CompleteClock, CallsSerial
  <2> QED BY <1>3, <1>4, <2>1, <2>2 DEF ControlInv, ControlTypeOK, CallsSerial, ClockBounds
<1> QED BY <1>3, <1>4

LEMMA BeginStep ==
  ASSUME TableInv, ControlInv, NEW k \in Callers, NEW p \in Partitions, NEW to \in Placements,
         ControlBegin(k, p, to)
  PROVE  ControlInv'
<1>1. Stamp(p, "Draining", entries[p].from, to) /\ entries[p].phase # "Absent"
  BY DEF ControlBegin, begin_migration
<1>2. UNCHANGED <<now, cutover_at, call, published>> /\ UNCHANGED setting
  BY DEF ControlBegin, controlVars
<1> QED BY <1>1, <1>2, LeavesCutover

LEMMA EnterCutoverStep ==
  ASSUME Serialized, TableInv, ControlInv, NEW k \in Callers, NEW p \in Partitions,
         ControlEnterCutover(k, p)
  PROVE  ControlInv'
<1>1. /\ \A q \in Partitions : q # p => entries'[q] = entries[q]
      /\ entries[p].phase = "Draining"
      /\ UNCHANGED <<setting, now, cutover_at>>
      /\ \A q \in Partitions : published'[q] = IF q = p THEN now ELSE published[q]
      /\ published' \in [Partitions -> Times]
  BY DEF ControlEnterCutover, enter_cutover, Stamp, TableInv, TableTypeOK, ControlInv, ControlTypeOK
<1>2. /\ call[k] = Idle
      /\ \A j \in Callers : call[j].partition # p
      /\ \A j \in Callers : call'[j] =
           IF j = k THEN [pc |-> "record", partition |-> p, at |-> now] ELSE call[j]
  BY DEF ControlEnterCutover, MayCall, Goto, ControlInv, ControlTypeOK
<1>3. ControlTypeOK'
  BY <1>1 DEF ControlEnterCutover, Goto, ControlInv, ControlTypeOK, CallPcs
<1>4. CallsSerial'
  BY <1>1, <1>2 DEF ControlInv, CallsSerial
<1>5. ClockBounds'
  BY <1>1, <1>2, ControlAssumption DEF ControlInv, ClockBounds, ControlTypeOK, Times
<1>6. BarrierStart'
  <2> SUFFICES ASSUME NEW q \in Partitions, entries'[q].phase = "Cutover", cutover_at'[q] # Unset,
                      ~ Recording(q)'
               PROVE  cutover_at'[q] >= published'[q]
    BY DEF BarrierStart
  <2>1. q # p
    BY <1>2 DEF Recording
  <2>2. ~ Recording(q)
    BY <1>2 DEF Recording, Idle
  <2> QED BY <1>1, <2>1, <2>2 DEF ControlInv, BarrierStart
<1>7. CompleteClock'
  BY <1>1, <1>2 DEF ControlInv, CompleteClock, CallsSerial
<1>8. RegisterPending'
  BY <1>1 DEF ControlInv, RegisterPending, TableInv, PendingSetFresh
<1> QED BY <1>3, <1>4, <1>5, <1>6, <1>7, <1>8 DEF ControlInv

LEMMA AbortStep ==
  ASSUME Serialized, TableInv, ControlInv, NEW k \in Callers, NEW p \in Partitions,
         ControlAbort(k, p)
  PROVE  ControlInv'
<1>1. /\ \A q \in Partitions : q # p => entries'[q] = entries[q]
      /\ entries'[p].phase = "Settled"
      /\ UNCHANGED <<setting, now, cutover_at, published>>
  BY DEF ControlAbort, abort_migration, Stamp, TableInv, TableTypeOK
<1>2. /\ call[k] = Idle
      /\ \A j \in Callers : call[j].partition # p
      /\ \A j \in Callers : call'[j] =
           IF j = k THEN [pc |-> "remove", partition |-> p, at |-> now] ELSE call[j]
  BY DEF ControlAbort, MayCall, Goto, ControlInv, ControlTypeOK
<1>3. ControlTypeOK'
  BY <1>1 DEF ControlAbort, Goto, ControlInv, ControlTypeOK, CallPcs
<1>4. CallsSerial'
  BY <1>1, <1>2 DEF ControlInv, CallsSerial
<1>5. ClockBounds'
  BY <1>1, <1>2, ControlAssumption DEF ControlInv, ClockBounds, ControlTypeOK, Times
<1>6. BarrierStart'
  <2>1. \A q \in Partitions : ~ Recording(q)' => ~ Recording(q)
    BY <1>2 DEF Recording, Idle
  <2> QED BY <1>1, <2>1 DEF ControlInv, BarrierStart
<1>7. CompleteClock'
  BY <1>1, <1>2 DEF ControlInv, CompleteClock, CallsSerial
<1>8. RegisterPending'
  BY LeavesCutover DEF ControlAbort, abort_migration
<1> QED BY <1>3, <1>4, <1>5, <1>6, <1>7, <1>8 DEF ControlInv

LEMMA RecordCutoverStep ==
  ASSUME ControlInv, NEW k \in Callers, RecordCutover(k)
  PROVE  ControlInv'
<1> DEFINE p == call[k].partition
<1>1. /\ p \in Partitions
      /\ UNCHANGED <<entries, setting, now, published>>
      /\ \A q \in Partitions : cutover_at'[q] = IF q = p THEN now ELSE cutover_at[q]
      /\ \A j \in Callers : call'[j] = IF j = k THEN Idle ELSE call[j]
  BY DEF RecordCutover, Return, ControlInv, CallsSerial, ControlTypeOK, tableVars
<1>2. ControlTypeOK'
  BY <1>1, ControlAssumption
  DEF RecordCutover, Return, Idle, CallPcs, ControlInv, ControlTypeOK, Times
<1>3. CallsSerial'
  BY <1>1 DEF ControlInv, CallsSerial, Idle
<1>4. ClockBounds'
  BY <1>1, ControlAssumption DEF ControlInv, ClockBounds, ControlTypeOK, Times, Idle
<1>5. BarrierStart'
  <2>1. \A q \in Partitions : q # p /\ Recording(q) => Recording(q)'
    BY <1>1 DEF Recording
  <2> QED BY <1>1, <2>1 DEF ControlInv, BarrierStart, ClockBounds
<1>6. CompleteClock'
  BY <1>1 DEF ControlInv, CompleteClock, Idle
<1>7. RegisterPending'
  BY <1>1 DEF ControlInv, RegisterPending
<1> QED BY <1>2, <1>3, <1>4, <1>5, <1>6, <1>7 DEF ControlInv

LEMMA CompleteStep ==
  ASSUME Serialized, ControlInv, NEW k \in Callers, NEW p \in Partitions, ControlComplete(k, p)
  PROVE  ControlInv'
<1>1. /\ UNCHANGED <<entries, setting, now, cutover_at, published>>
      /\ call[k] = Idle
      /\ \A j \in Callers : call[j].partition # p
      /\ \A j \in Callers : call'[j] =
           IF j = k THEN [pc |-> "state", partition |-> p, at |-> now] ELSE call[j]
  BY DEF ControlComplete, MayCall, Goto, ControlInv, ControlTypeOK, tableVars
<1>2. ControlTypeOK'
  BY <1>1 DEF ControlComplete, Goto, CallPcs, ControlInv, ControlTypeOK
<1>3. CallsSerial'
  BY <1>1 DEF ControlInv, CallsSerial
<1>4. ClockBounds'
  BY <1>1, ControlAssumption DEF ControlInv, ClockBounds, ControlTypeOK, Times
<1>5. BarrierStart'
  <2>1. \A q \in Partitions : Recording(q) => Recording(q)'
    BY <1>1 DEF Recording, Idle
  <2> QED BY <1>1, <2>1 DEF ControlInv, BarrierStart
<1>6. CompleteClock'
  BY <1>1 DEF ControlInv, CompleteClock, ClockBounds
<1>7. RegisterPending'
  BY <1>1 DEF ControlInv, RegisterPending
<1> QED BY <1>2, <1>3, <1>4, <1>5, <1>6, <1>7 DEF ControlInv

LEMMA ReadStateStep ==
  ASSUME ControlInv, NEW k \in Callers, CompleteReadState(k)
  PROVE  ControlInv'
<1> DEFINE p == call[k].partition
           pc == IF entries[p].phase = "Cutover" THEN "barrier" ELSE "flip"
<1>1. /\ UNCHANGED <<entries, setting, now, cutover_at, published>>
      /\ call[k].pc = "state"
      /\ \A j \in Callers : call'[j] =
           IF j = k THEN [pc |-> pc, partition |-> p, at |-> call[k].at] ELSE call[j]
  BY DEF CompleteReadState, Goto, ControlInv, ControlTypeOK, tableVars
<1>2. ControlTypeOK'
  <2>1. [pc |-> pc, partition |-> p, at |-> call[k].at] \in
          [pc : CallPcs, partition : Partitions \cup {NoPlacement}, at : Times]
    BY DEF CallPcs, ControlInv, ControlTypeOK
  <2> QED BY <1>1, <2>1 DEF CompleteReadState, Goto, ControlInv, ControlTypeOK
<1>3. CallsSerial'
  BY <1>1 DEF ControlInv, CallsSerial
<1>4. ClockBounds'
  BY <1>1 DEF ControlInv, ClockBounds
<1>5. BarrierStart'
  <2>1. \A q \in Partitions : Recording(q) => Recording(q)'
    BY <1>1 DEF Recording
  <2> QED BY <1>1, <2>1 DEF ControlInv, BarrierStart
<1>6. CompleteClock'
  BY <1>1 DEF ControlInv, CompleteClock
<1>7. RegisterPending'
  BY <1>1 DEF ControlInv, RegisterPending
<1> QED BY <1>2, <1>3, <1>4, <1>5, <1>6, <1>7 DEF ControlInv

\* The heart of the argument: a test that passes has a start of the barrier, and
\* hence a published Cutover, at least Barrier before its clock reading.
LEMMA TestBarrierStep ==
  ASSUME ControlInv, NEW k \in Callers, CompleteTestBarrier(k)
  PROVE  ControlInv'
<1> DEFINE p == call[k].partition
           at == call[k].at
           started == barrier_started(p, at)
           next == IF barrier_elapsed(started, at)
                     THEN [pc |-> "flip", partition |-> p, at |-> at] ELSE Idle
<1>1. /\ UNCHANGED <<entries, setting, now, published>>
      /\ call[k].pc = "barrier"
      /\ p \in Partitions
      /\ \A q \in Partitions : cutover_at'[q] = IF q = p THEN started ELSE cutover_at[q]
      /\ \A j \in Callers : call'[j] = IF j = k THEN next ELSE call[j]
      /\ cutover_at' = [cutover_at EXCEPT ![p] = started]
      /\ call' = [call EXCEPT ![k] = next]
  BY DEF CompleteTestBarrier, Goto, Return, ControlInv, ControlTypeOK, CallsSerial, tableVars
<1>2. /\ started \in Times /\ at \in Times /\ now \in Times /\ published[p] \in Times
      /\ started =< now /\ at =< now
  BY <1>1 DEF barrier_started, ControlInv, ControlTypeOK, ClockBounds
<1>3. ControlTypeOK'
  <2>1. next \in [pc : CallPcs, partition : Partitions \cup {NoPlacement}, at : Times]
    BY <1>1, <1>2, ControlAssumption DEF CallPcs, Idle, Times
  <2> QED BY <1>1, <1>2, <2>1 DEF ControlInv, ControlTypeOK
<1>4. CallsSerial'
  BY <1>1 DEF ControlInv, CallsSerial, Idle
<1>5. ClockBounds'
  BY <1>1, <1>2, ControlAssumption DEF ControlInv, ClockBounds, Idle, Times
<1>6. entries[p].phase = "Cutover" => started >= published[p]
  <2>1. ~ Recording(p)
    BY <1>1, TableAssumption DEF Recording, ControlInv, CallsSerial
  <2>2. at >= published[p]
    BY <1>1 DEF ControlInv, CompleteClock
  <2> QED BY <1>1, <2>1, <2>2 DEF ControlInv, BarrierStart, barrier_started
<1>7. BarrierStart'
  <2>1. \A q \in Partitions : Recording(q) => Recording(q)'
    BY <1>1 DEF Recording
  <2> QED BY <1>1, <1>6, <2>1 DEF ControlInv, BarrierStart
<1>8. CompleteClock'
  <2>1. at >= published[p]
    BY <1>1 DEF ControlInv, CompleteClock
  <2>2. entries[p].phase = "Cutover" /\ barrier_elapsed(started, at) => at - published[p] >= Barrier
    BY <1>2, <1>6, <2>1, ControlAssumption DEF barrier_elapsed, Times
  <2> QED BY <1>1, <2>1, <2>2 DEF ControlInv, CompleteClock, Idle
<1>9. RegisterPending'
  BY <1>1 DEF ControlInv, RegisterPending
<1> QED BY <1>3, <1>4, <1>5, <1>7, <1>8, <1>9 DEF ControlInv

LEMMA FlipStep ==
  ASSUME TableInv, ControlInv, NEW k \in Callers, CompleteFlip(k)
  PROVE  ControlInv'
<1> DEFINE p == call[k].partition
<1>1. /\ UNCHANGED <<setting, now, cutover_at, published>>
      /\ call[k].pc = "flip"
      /\ p \in Partitions
  BY DEF CompleteFlip, ControlInv, CallsSerial
<1>2. PICK next \in {[pc |-> "remove", partition |-> p, at |-> call[k].at], Idle} :
        call' = [call EXCEPT ![k] = next]
  BY DEF CompleteFlip, Goto, Return
<1>3. /\ \A q \in Partitions : q # p => entries'[q] = entries[q]
      /\ entries'[p].phase # "Cutover"
      /\ entries'[p].phase = "Absent" <=> entries[p].phase = "Absent"
  BY <1>1 DEF CompleteFlip, complete_migration, Stamp, TableInv, TableTypeOK
<1>t. next \in [pc : CallPcs, partition : Partitions \cup {NoPlacement}, at : Times]
  BY <1>1, ControlAssumption DEF Idle, CallPcs, Times, ControlInv, ControlTypeOK
<1>4. /\ \A j \in Callers : call'[j] = IF j = k THEN next ELSE call[j]
      /\ ControlTypeOK'
  BY <1>1, <1>2, <1>t DEF ControlInv, ControlTypeOK
<1>5. CallsSerial'
  BY <1>1, <1>4 DEF ControlInv, CallsSerial, Idle
<1>6. ClockBounds'
  BY <1>1, <1>4, ControlAssumption DEF ControlInv, ClockBounds, ControlTypeOK, Times, Idle
<1>7. BarrierStart'
  <2>1. \A q \in Partitions : Recording(q) => Recording(q)'
    BY <1>1, <1>4 DEF Recording
  <2> QED BY <1>1, <1>3, <2>1 DEF ControlInv, BarrierStart
<1>8. CompleteClock'
  BY <1>1, <1>3, <1>4 DEF ControlInv, CompleteClock, CallsSerial, Idle
<1>9. RegisterPending'
  BY <1>1, <1>3 DEF ControlInv, RegisterPending, TableInv, PendingSetFresh
<1> QED BY <1>4, <1>5, <1>6, <1>7, <1>8, <1>9 DEF ControlInv

LEMMA ReturnSteps ==
  ASSUME ControlInv, NEW k \in Callers, FlipBackendFailure(k) \/ RemoveCutover(k)
  PROVE  ControlInv'
<1> DEFINE p == call[k].partition
<1>1. /\ UNCHANGED <<entries, setting, now, published>>
      /\ call[k].pc # "record"
      /\ \A q \in Partitions : cutover_at'[q] \in {cutover_at[q], Unset}
      /\ \A j \in Callers : call'[j] = IF j = k THEN Idle ELSE call[j]
  BY DEF FlipBackendFailure, RemoveCutover, Return, ControlInv, ControlTypeOK, tableVars
<1>2. ControlTypeOK'
  BY <1>1, ControlAssumption
  DEF FlipBackendFailure, RemoveCutover, Return, Idle, CallPcs, Times, ControlInv, ControlTypeOK
<1>3. CallsSerial'
  BY <1>1 DEF ControlInv, CallsSerial, Idle
<1>4. ClockBounds'
  BY <1>1, ControlAssumption DEF ControlInv, ClockBounds, ControlTypeOK, Times, Idle, Unset
<1>5. BarrierStart'
  <2>1. \A q \in Partitions : Recording(q) => Recording(q)'
    BY <1>1 DEF Recording
  <2> QED BY <1>1, <2>1 DEF ControlInv, BarrierStart
<1>6. CompleteClock'
  BY <1>1 DEF ControlInv, CompleteClock, Idle
<1>7. RegisterPending'
  BY <1>1 DEF ControlInv, RegisterPending
<1> QED BY <1>2, <1>3, <1>4, <1>5, <1>6, <1>7 DEF ControlInv

LEMMA RestartStep == ControlInv /\ ControllerRestart => ControlInv'
<1> SUFFICES ASSUME ControlInv, ControllerRestart PROVE ControlInv'
  OBVIOUS
<1>1. /\ UNCHANGED <<entries, setting, now, published>>
      /\ \A q \in Partitions : cutover_at'[q] = Unset
      /\ \A j \in Callers : call'[j] = Idle
  BY DEF ControllerRestart, tableVars
<1>2. ControlTypeOK'
  BY <1>1, ControlAssumption DEF ControllerRestart, Idle, CallPcs, Times, ControlInv, ControlTypeOK
<1>3. CallsSerial' /\ CompleteClock'
  BY <1>1 DEF CallsSerial, CompleteClock, Idle
<1>4. ClockBounds'
  BY <1>1, ControlAssumption DEF ControlInv, ClockBounds, ControlTypeOK, Times, Idle, Unset
<1>5. BarrierStart' /\ RegisterPending'
  BY <1>1 DEF ControlInv, BarrierStart, RegisterPending
<1> QED BY <1>2, <1>3, <1>4, <1>5 DEF ControlInv

LEMMA TickStep == ControlInv /\ Tick => ControlInv'
<1> SUFFICES ASSUME ControlInv, Tick PROVE ControlInv'
  OBVIOUS
<1>1. /\ UNCHANGED <<entries, setting, cutover_at, call, published>>
      /\ now' = now + 1 /\ now \in Times /\ now' \in Times
  BY ControlAssumption DEF Tick, ControlInv, ControlTypeOK, Times, tableVars
<1>2. ClockBounds'
  BY <1>1, ControlAssumption DEF ControlInv, ClockBounds, ControlTypeOK, Times, Unset
<1> QED BY <1>1, <1>2 DEF ControlInv, ControlTypeOK, CallsSerial, BarrierStart, CompleteClock,
                          RegisterPending, Recording

LEMMA ControlCallStep ==
  ASSUME Serialized, TableInv, ControlInv, NEW k \in Callers, ControlCall(k)
  PROVE  ControlInv'
  BY BeginStep, EnterCutoverStep, AbortStep, RecordCutoverStep, CompleteStep, ReadStateStep,
     TestBarrierStep, FlipStep, ReturnSteps DEF ControlCall

LEMMA ControlStep ==
  ASSUME Serialized, TableInv, ControlInv, [ControlNext]_migrationVars
  PROVE  TableInv' /\ ControlInv'
<1>1. TableInv'
  <2>1. [TableNext]_tableVars
    BY ControlTakesTableSteps DEF ControlInv, migrationVars, tableVars
  <2> QED BY <2>1, TableStep
<1>2. CASE UNCHANGED migrationVars
  BY <1>1, <1>2, ControlUntouched DEF migrationVars, tableVars
<1>3. CASE ControlNext
  BY <1>1, <1>3, RegisterStep, ControlCallStep, RestartStep, TickStep DEF ControlNext
<1> QED BY <1>2, <1>3

LEMMA ControlInvariant == Serialized => (ControlSpec => [](TableInv /\ ControlInv))
<1> SUFFICES ASSUME Serialized PROVE ControlSpec => [](TableInv /\ ControlInv)
  OBVIOUS
<1>1. TableInit /\ ControlInit => TableInv /\ ControlInv
  BY TableInitInv, ControlInitInv
<1>2. TableInv /\ ControlInv /\ [ControlNext]_migrationVars => (TableInv /\ ControlInv)'
  BY ControlStep
<1> QED BY <1>1, <1>2, PTL DEF ControlSpec

\* The controller and the table keep their types.
THEOREM ControlTypes == Serialized => (ControlSpec => [](TableTypeOK /\ ControlTypeOK))
<1>1. TableInv /\ ControlInv => TableTypeOK /\ ControlTypeOK
  BY DEF TableInv, ControlInv
<1> QED BY <1>1, ControlInvariant, PTL

\* With the calls on each partition serialized, no flip ever happens before the
\* barrier has elapsed since the Cutover it ends was published: restarts, refused
\* transitions, aborts and retries of complete_migration included.
THEOREM ControlBarrierHeld == Serialized => (ControlSpec => BarrierHeld)
<1> SUFFICES ASSUME Serialized PROVE ControlSpec => BarrierHeld
  OBVIOUS
<1> DEFINE Held == \A p \in Partitions : Flips(p) => now - published[p] >= Barrier
<1>1. TableInv /\ ControlInv /\ [ControlNext]_migrationVars => [Held]_migrationVars
  <2> SUFFICES ASSUME ControlInv, NEW p \in Partitions, Flips(p)
               PROVE  now - published[p] >= Barrier
    OBVIOUS
  <2>1. PICK k \in Callers : call[k].pc = "flip" /\ call[k].partition = p
    BY DEF Flips
  <2>2. call[k].at - published[p] >= Barrier /\ call[k].at =< now
    BY <2>1 DEF Flips, ControlInv, CompleteClock, ClockBounds
  <2>3. call[k].at \in Int /\ published[p] \in Int /\ now \in Int /\ Barrier \in Int
    BY ControlAssumption DEF ControlInv, ControlTypeOK, Times
  <2> QED BY <2>2, <2>3
<1> QED BY <1>1, ControlInvariant, PTL DEF ControlSpec, BarrierHeld

-----------------------------------------------------------------------------
(* The fleet. *)

\* The latest moment at which a live request can still have an operation running.
Due(c) == IF req[c].pc = "sending" THEN req[c].since + Timeout + Drain(req[c].left - 1)
                                   ELSE req[c].since + Drain(req[c].left)

\* A request past resolution names a registered partition.
RequestShape ==
  \A c \in Clients :
    /\ req[c].pc # "idle" => held[c].partition \in Partitions
    /\ Live(c) => req[c].left >= 1 /\ entries[held[c].partition].phase # "Absent"

\* No live request is past the deadline it is waiting for.
RequestClock ==
  \A c \in Clients :
    /\ req[c].since =< now
    /\ req[c].pc = "sending" => now =< req[c].since + Timeout
    /\ req[c].pc = "ready" => now =< req[c].since + Gap

\* What is still live in Cutover passed the gate before it, and will be done one
\* full batch after it at the latest.
DrainBound ==
  \A c \in Clients :
    Live(c) /\ entries[held[c].partition].phase = "Cutover"
      => Due(c) =< published[held[c].partition] + Drain(BatchMax)

FleetInv == FleetTypeOK /\ RequestShape /\ RequestClock /\ DrainBound /\ NoOrphanedWrite

Inv == TableInv /\ ControlInv /\ FleetInv

LEMMA DrainArithmetic ==
  ASSUME NEW n \in 1 .. BatchMax
  PROVE  /\ Drain(n) \in Nat /\ Drain(n - 1) \in Nat /\ Drain(BatchMax) \in Nat
         /\ Drain(n) = Drain(n - 1) + Gap + Timeout
         /\ Drain(n) =< Drain(BatchMax)
<1> DEFINE k == Gap + Timeout
<1>1. k \in Nat /\ BatchMax \in Nat /\ n \in Nat /\ n - 1 \in Nat /\ BatchMax - n \in Nat
  BY FleetAssumption
<1>2. \A a, b \in Nat : a * b \in Nat
  OBVIOUS
<1>3. Drain(n) \in Nat /\ Drain(n - 1) \in Nat /\ Drain(BatchMax) \in Nat /\ (BatchMax - n) * k \in Nat
  BY <1>1, <1>2 DEF Drain
<1>4. n * k = (n - 1) * k + k
  BY <1>1
<1>5. BatchMax * k = n * k + (BatchMax - n) * k
  BY <1>1
<1> QED BY <1>1, <1>3, <1>4, <1>5, FleetAssumption DEF Drain

LEMMA FleetInitInv == FleetInit => Inv
<1> SUFFICES ASSUME FleetInit PROVE Inv
  OBVIOUS
<1>1. TableInv /\ ControlInv
  BY TableInitInv, ControlInitInv DEF FleetInit
<1>2. FleetInv
  BY ControlAssumption, FleetAssumption
  DEF FleetInit, FleetInv, FleetTypeOK, RequestShape, RequestClock, DrainBound, NoOrphanedWrite,
      Live, NoRequest, ReqPcs, ControlInit, Times
<1> QED BY <1>1, <1>2 DEF Inv

-----------------------------------------------------------------------------
\* All a request needs to know of a controller step: it changes at most one
\* partition p, and in one of four ways.
Same(p) == entries'[p] = entries[p] /\ published'[p] = published[p]
StaysHome(p) == /\ entries[p].phase # "Absent" /\ entries'[p].phase \in {"Settled", "Draining"}
                /\ entries'[p].from = entries[p].from
Closes(p) == /\ entries[p].phase = "Draining" /\ entries'[p].phase = "Cutover"
             /\ entries'[p].from = entries[p].from /\ published'[p] = now
Registers(p) == /\ entries[p].phase = "Absent" /\ entries'[p].phase = "Settled"
                /\ entries'[p].from \in Placements
Flipped(p) == /\ entries[p].phase = "Cutover" /\ entries'[p].phase = "Settled"
              /\ entries'[p].from \in Placements /\ now - published[p] >= Barrier

Effect(p) == /\ \A q \in Partitions : q # p => Same(q)
             /\ Same(p) \/ StaysHome(p) \/ Closes(p) \/ Registers(p) \/ Flipped(p)

LEMMA StampEffect ==
  ASSUME TableInv, NEW p \in Partitions, NEW phase, NEW from, NEW to, Stamp(p, phase, from, to)
  PROVE  /\ \A q \in Partitions : q # p => entries'[q] = entries[q]
         /\ entries'[p].phase = phase /\ entries'[p].from = from
  BY DEF Stamp, TableInv, TableTypeOK

LEMMA RegisterEffect ==
  ASSUME TableInv, ControlInv, NEW c \in Clients, Register(c)
  PROVE  UNCHANGED <<now, held>> /\ (UNCHANGED <<entries, published>> \/ \E p \in Partitions : Effect(p))
<1>1. UNCHANGED <<now, held, published>>
  BY DEF Register, set_epoch, set_insert, controlVars
<1>2. CASE set_insert(c)
  <2> DEFINE p == setting[c].partition
  <2>1. /\ p \in Partitions /\ setting[c].placement \in Placements
        /\ entries[p].phase = "Absent"
    BY <1>2 DEF set_insert, TableInv, PendingSetFresh, ControlInv, RegisterPending
  <2>2. /\ \A q \in Partitions : q # p => entries'[q] = entries[q]
        /\ entries'[p].phase = "Settled" /\ entries'[p].from = setting[c].placement
    BY <1>2, <2>1 DEF set_insert, TableInv, TableTypeOK
  <2> QED BY <1>1, <2>1, <2>2 DEF Effect, Same, Registers
<1> QED BY <1>1, <1>2 DEF Register, set_epoch

LEMMA ControlCallEffect ==
  ASSUME TableInv, ControlInv, NEW k \in Callers, ControlCall(k)
  PROVE  UNCHANGED <<now, held>> /\ (UNCHANGED <<entries, published>> \/ \E p \in Partitions : Effect(p))
<1>1. CASE \E p \in Partitions, to \in Placements : ControlBegin(k, p, to)
  <2> PICK p \in Partitions, to \in Placements : ControlBegin(k, p, to)
    BY <1>1
  <2>1. Stamp(p, "Draining", entries[p].from, to) /\ entries[p].phase # "Absent"
    BY DEF ControlBegin, begin_migration
  <2>2. UNCHANGED <<now, held, published>>
    BY DEF ControlBegin, controlVars
  <2> QED BY <2>1, <2>2, StampEffect DEF Effect, Same, StaysHome
<1>2. CASE \E p \in Partitions : ControlEnterCutover(k, p)
  <2> PICK p \in Partitions : ControlEnterCutover(k, p)
    BY <1>2
  <2>1. Stamp(p, "Cutover", entries[p].from, entries[p].to) /\ entries[p].phase = "Draining"
    BY DEF ControlEnterCutover, enter_cutover
  <2>2. /\ UNCHANGED <<now, held>>
        /\ \A q \in Partitions : published'[q] = IF q = p THEN now ELSE published[q]
    BY DEF ControlEnterCutover, ControlInv, ControlTypeOK
  <2> QED BY <2>1, <2>2, StampEffect DEF Effect, Same, Closes
<1>3. CASE \E p \in Partitions : ControlAbort(k, p)
  <2> PICK p \in Partitions : ControlAbort(k, p)
    BY <1>3
  <2>1. Stamp(p, "Settled", entries[p].from, entries[p].from) /\ entries[p].phase # "Absent"
    BY DEF ControlAbort, abort_migration
  <2>2. UNCHANGED <<now, held, published>>
    BY DEF ControlAbort
  <2> QED BY <2>1, <2>2, StampEffect DEF Effect, Same, StaysHome
<1>4. CASE CompleteFlip(k)
  <2> DEFINE p == call[k].partition
  <2>1. p \in Partitions /\ UNCHANGED <<now, held, published>>
    BY <1>4 DEF CompleteFlip, ControlInv, CallsSerial
  <2>2. CASE complete_migration(p)
    <3>1. /\ Stamp(p, "Settled", entries[p].to, entries[p].to)
          /\ entries[p].phase = "Cutover" /\ entries[p].to \in Placements
      BY <2>1, <2>2 DEF complete_migration, TableInv, EntriesPlaced
    <3>2. call[k].at - published[p] >= Barrier /\ call[k].at =< now
      BY <1>4, <3>1 DEF CompleteFlip, ControlInv, CompleteClock, ClockBounds
    <3>3. call[k].at \in Int /\ published[p] \in Int /\ now \in Int /\ Barrier \in Int
      BY <2>1, ControlAssumption DEF ControlInv, ControlTypeOK, Times
    <3>4. now - published[p] >= Barrier
      BY <3>2, <3>3
    <3> QED BY <2>1, <3>1, <3>4, StampEffect DEF Effect, Same, Flipped
  <2> QED BY <1>4, <2>1, <2>2 DEF CompleteFlip
<1>5. CASE \/ \E p \in Partitions : ControlComplete(k, p)
           \/ RecordCutover(k) \/ CompleteReadState(k) \/ CompleteTestBarrier(k)
           \/ FlipBackendFailure(k) \/ RemoveCutover(k)
  BY <1>5 DEF ControlComplete, RecordCutover, CompleteReadState, CompleteTestBarrier,
              FlipBackendFailure, RemoveCutover, tableVars
<1> QED BY <1>1, <1>2, <1>3, <1>4, <1>5 DEF ControlCall

-----------------------------------------------------------------------------
\* A flip finds no live write of its partition: the barrier has outlasted it.
LEMMA FlipFindsNoWriter ==
  ASSUME Inv, BarrierCovers, NEW p \in Partitions, Flipped(p), NEW c \in Clients, Live(c)
  PROVE  held[c].partition # p
<1> SUFFICES ASSUME held[c].partition = p PROVE FALSE
  OBVIOUS
<1>1. /\ req[c].left \in 1 .. BatchMax /\ req[c].since \in Int /\ now \in Int
      /\ published[p] \in Int /\ Barrier \in Int /\ Gap \in Nat /\ Timeout \in Nat
  BY ControlAssumption, FleetAssumption
  DEF Inv, FleetInv, FleetTypeOK, RequestShape, ControlInv, ControlTypeOK, Times
<1>2. Due(c) =< published[p] + Drain(BatchMax)
  BY DEF Inv, FleetInv, DrainBound, Flipped
<1>3. now =< Due(c)
  BY <1>1, DrainArithmetic DEF Due, Live, Inv, FleetInv, RequestClock
<1>4. now - published[p] > Drain(BatchMax)
  BY <1>1, DrainArithmetic DEF Flipped, BarrierCovers
<1>5. Due(c) \in Int /\ Drain(BatchMax) \in Int
  BY <1>1, DrainArithmetic DEF Due
<1> QED BY <1>1, <1>2, <1>3, <1>4, <1>5

LEMMA EffectStep ==
  ASSUME Inv, BarrierCovers, NEW p \in Partitions, Effect(p), UNCHANGED <<now, held, req>>
  PROVE  FleetInv'
<1>1. ASSUME NEW c \in Clients, Live(c)
      PROVE  LET q == held[c].partition IN
             /\ q \in Partitions
             /\ Same(q) \/ StaysHome(q) \/ Closes(q)
  BY <1>1, FlipFindsNoWriter DEF Inv, FleetInv, RequestShape, Effect, Registers, Live
<1>2. FleetTypeOK' /\ RequestClock'
  BY DEF Inv, FleetInv, FleetTypeOK, RequestClock
<1>3. \A c \in Clients : Live(c)' <=> Live(c)
  BY DEF Live
<1>4. RequestShape'
  BY <1>1, <1>3 DEF Inv, FleetInv, RequestShape, Same, StaysHome, Closes
<1>5. NoOrphanedWrite'
  BY <1>1, <1>3 DEF Inv, FleetInv, NoOrphanedWrite, read_placement, Same, StaysHome, Closes
<1>6. DrainBound'
  <2> SUFFICES ASSUME NEW c \in Clients, Live(c), entries'[held[c].partition].phase = "Cutover"
               PROVE  Due(c) =< published'[held[c].partition] + Drain(BatchMax)
    BY <1>3 DEF DrainBound, Due, Drain
  <2> DEFINE q == held[c].partition
  <2>1. CASE Same(q)
    BY <2>1 DEF Same, Inv, FleetInv, DrainBound
  <2>2. CASE Closes(q)
    <3>1. /\ req[c].left \in 1 .. BatchMax /\ req[c].since \in Int /\ now \in Int
          /\ req[c].since =< now /\ Gap \in Nat /\ Timeout \in Nat
      BY ControlAssumption, FleetAssumption
      DEF Inv, FleetInv, FleetTypeOK, RequestShape, RequestClock, ControlInv, ControlTypeOK, Times
    <3>2. Due(c) =< now + Drain(BatchMax)
      BY <3>1, DrainArithmetic DEF Due
    <3> QED BY <2>2, <3>2 DEF Closes
  <2>3. CASE StaysHome(q)
    BY <2>3 DEF StaysHome
  <2> QED BY <1>1, <2>1, <2>2, <2>3
<1> QED BY <1>2, <1>4, <1>5, <1>6 DEF FleetInv

LEMMA FleetUntouched ==
  Inv /\ UNCHANGED <<entries, published, now, held, req>> => FleetInv'
  BY DEF Inv, FleetInv, FleetTypeOK, RequestShape, RequestClock, DrainBound, NoOrphanedWrite,
         Live, Due, Drain, read_placement

LEMMA FleetTickStep == Inv /\ FleetTick => FleetInv'
<1> SUFFICES ASSUME Inv, FleetTick PROVE FleetInv'
  OBVIOUS
<1>1. /\ UNCHANGED <<entries, published, held, req>>
      /\ now' = now + 1 /\ now \in Int
      /\ \A c \in Clients : req[c].since \in Int
      /\ Timeout \in Int /\ Gap \in Int
  BY FleetAssumption, ControlAssumption
  DEF FleetTick, Tick, tableVars, Inv, ControlInv, ControlTypeOK, FleetInv, FleetTypeOK, Times
<1>2. RequestClock'
  BY <1>1 DEF FleetTick, Inv, FleetInv, RequestClock
<1> QED BY <1>1, <1>2
        DEF Inv, FleetInv, FleetTypeOK, RequestShape, DrainBound, NoOrphanedWrite, Live, Due, Drain,
            read_placement

\* A step of one request that leaves the table, the controller and the clock alone
\* preserves the invariant if what it leaves in req[c] satisfies it.
LEMMA RequestMoves ==
  ASSUME Inv, NEW c \in Clients, UNCHANGED <<entries, published, now>>,
         FleetTypeOK',
         \A d \in Clients : d # c => req'[d] = req[d] /\ held'[d] = held[d],
         req'[c].since =< now,
         req'[c].pc # "idle" => held'[c].partition \in Partitions,
         Live(c)' =>
           /\ req'[c].left >= 1
           /\ req'[c].since = now
           /\ held'[c] = held[c]
           /\ entries[held[c].partition].phase # "Absent"
           /\ held[c].placement = read_placement(entries[held[c].partition])
           /\ entries[held[c].partition].phase = "Cutover" =>
                Due(c)' =< published[held[c].partition] + Drain(BatchMax)
  PROVE  FleetInv'
<1>3. RequestShape'
  BY DEF Inv, FleetInv, RequestShape, Live
<1>t. now \in Nat /\ Timeout \in Nat /\ Gap \in Nat
  BY ControlAssumption, FleetAssumption DEF Inv, ControlInv, ControlTypeOK, Times
<1>4. RequestClock'
  BY <1>t DEF Inv, FleetInv, RequestClock, Live
<1>5. NoOrphanedWrite'
  BY DEF Inv, FleetInv, NoOrphanedWrite, Live, read_placement
<1>6. DrainBound'
  <2> SUFFICES ASSUME NEW d \in Clients, Live(d)', entries'[held'[d].partition].phase = "Cutover"
               PROVE  Due(d)' =< published'[held'[d].partition] + Drain(BatchMax)
    BY DEF DrainBound, Drain
  <2>1. CASE d = c
    BY <2>1
  <2>2. CASE d # c
    <3>1. Live(d) /\ Due(d)' = Due(d) /\ held'[d] = held[d]
      BY <2>2 DEF Live, Due, Drain
    <3> QED BY <3>1 DEF Inv, FleetInv, DrainBound
  <2> QED BY <2>1, <2>2
<1> QED BY <1>3, <1>4, <1>5, <1>6 DEF FleetInv

LEMMA RequestStepInv ==
  ASSUME Inv, NEW c \in Clients, RequestStep(c)
  PROVE  FleetInv'
<1> DEFINE p == held[c].partition
<1>t. /\ now \in Times /\ now \in Nat /\ 0 \in Times /\ Timeout \in Nat /\ Gap \in Nat
      /\ BatchMax \in Nat
      /\ req[c].since \in Nat /\ req[c].left \in 0 .. BatchMax
  BY ControlAssumption, FleetAssumption
  DEF Inv, ControlInv, ControlTypeOK, FleetInv, FleetTypeOK, Times
<1>f. ASSUME Finish(c)
      PROVE  /\ FleetTypeOK'
             /\ \A d \in Clients : d # c => req'[d] = req[d]
             /\ req'[c].pc = "idle" /\ req'[c].since = 0
  BY <1>f, <1>t DEF Finish, NoRequest, ReqPcs, Inv, FleetInv, FleetTypeOK
<1>1. CASE \E q \in Partitions : Resolve(c, q)
  <2> PICK q \in Partitions : Resolve(c, q)
    BY <1>1
  <2>1. /\ UNCHANGED <<entries, published, now>>
        /\ \A d \in Clients : d # c => held'[d] = held[d]
        /\ held'[c].partition = q
    BY DEF Resolve, get, controlVars, Inv, TableInv, TableTypeOK
  <2>2. /\ FleetTypeOK'
        /\ \A d \in Clients : d # c => req'[d] = req[d]
        /\ req'[c].pc = "resolved" /\ req'[c].since = now
    BY <1>t DEF Resolve, Step, ReqPcs, Inv, FleetInv, FleetTypeOK
  <2>3. ~ Live(c)'
    BY <2>2 DEF Live
  <2> QED BY <1>t, <2>1, <2>2, <2>3, RequestMoves
<1>2. CASE \E n \in 1 .. BatchMax : Gate(c, n)
  <2> PICK n \in 1 .. BatchMax : Gate(c, n)
    BY <1>2
  <2>1. UNCHANGED <<entries, published, now, held>> /\ req[c].pc = "resolved"
    BY DEF Gate, migrationVars, tableVars, controlVars
  <2>2. /\ FleetTypeOK'
        /\ \A d \in Clients : d # c => req'[d] = req[d]
        /\ req'[c].pc = "ready" /\ req'[c].since = now /\ req'[c].left >= 1
    BY <1>t DEF Gate, Step, ReqPcs, Inv, FleetInv, FleetTypeOK
  <2>3. p \in Partitions /\ held[c] # NoDecision
    BY <2>1, TableAssumption DEF Inv, FleetInv, RequestShape, NoDecision
  <2>4. entries[p].phase \in {"Settled", "Draining"} /\ held[c].epoch = entries[p].epoch
    BY DEF Gate, admit_write, write_open
  <2>5. held[c].placement = read_placement(entries[p])
    BY <2>3, <2>4 DEF Inv, TableInv, HeldEpochSound
  <2> QED BY <1>t, <2>1, <2>2, <2>3, <2>4, <2>5, RequestMoves
<1>3. CASE Reject(c) \/ Shed(c) \/ OpFailed(c) \/ OpTimedOut(c) \/ (OpAcked(c) /\ ~ req[c].left > 1)
  <2>1. UNCHANGED <<entries, published, now, held>> /\ Finish(c)
    BY <1>3 DEF Reject, Shed, OpFailed, OpTimedOut, OpAcked, migrationVars, tableVars, controlVars
  <2>2. ~ Live(c)'
    BY <1>f, <2>1 DEF Live
  <2> QED BY <1>t, <1>f, <2>1, <2>2, RequestMoves
<1>4. ASSUME NEW pc \in {"ready", "sending"}, NEW n \in 1 .. BatchMax, Live(c),
             UNCHANGED migrationVars, Step(c, pc, n),
             now + (IF pc = "sending" THEN Timeout + Drain(n - 1) ELSE Drain(n)) =< Due(c)
      PROVE  FleetInv'
  <2>1. UNCHANGED <<entries, published, now, held>>
    BY <1>4 DEF migrationVars, tableVars, controlVars
  <2>2. /\ FleetTypeOK'
        /\ \A d \in Clients : d # c => req'[d] = req[d]
        /\ req'[c].pc = pc /\ req'[c].since = now /\ req'[c].left = n
    BY <1>4, <1>t DEF Step, ReqPcs, Inv, FleetInv, FleetTypeOK
  <2>3. /\ p \in Partitions /\ entries[p].phase # "Absent"
        /\ held[c].placement = read_placement(entries[p])
        /\ entries[p].phase = "Cutover" => Due(c) =< published[p] + Drain(BatchMax)
    BY <1>4 DEF Inv, FleetInv, RequestShape, NoOrphanedWrite, DrainBound, Live
  <2>4. /\ Due(c) \in Int /\ Due(c)' \in Int /\ Drain(BatchMax) \in Int
        /\ Due(c)' =< Due(c)
    <3>1. req[c].left \in 1 .. BatchMax
      BY <1>4, <1>t DEF Inv, FleetInv, RequestShape
    <3>2. Due(c)' = IF pc = "sending" THEN now + Timeout + Drain(n - 1) ELSE now + Drain(n)
      BY <2>2 DEF Due, Drain
    <3> QED BY <1>4, <1>t, <3>1, <3>2, DrainArithmetic DEF Due
  <2>5. published[p] \in Int
    BY <2>3, ControlAssumption DEF Inv, ControlInv, ControlTypeOK, Times
  <2>6. entries[p].phase = "Cutover" => Due(c)' =< published[p] + Drain(BatchMax)
    BY <2>3, <2>4, <2>5
  <2> QED BY <1>t, <2>1, <2>2, <2>3, <2>6, RequestMoves
<1>5. CASE Dispatch(c)
  <2>1. /\ req[c].pc = "ready" /\ req[c].left \in 1 .. BatchMax /\ now =< req[c].since + Gap
        /\ Live(c)
    BY <1>5, <1>t DEF Dispatch, Live, Inv, FleetInv, RequestShape, RequestClock
  <2>2. now + (Timeout + Drain(req[c].left - 1)) =< Due(c)
    BY <1>t, <2>1, DrainArithmetic DEF Due
  <2> QED BY <1>4, <1>5, <2>1, <2>2 DEF Dispatch
<1>6. CASE OpAcked(c) /\ req[c].left > 1
  <2>1. /\ req[c].pc = "sending" /\ req[c].left \in 1 .. BatchMax /\ req[c].left - 1 \in 1 .. BatchMax
        /\ now =< req[c].since + Timeout /\ Live(c)
    BY <1>6, <1>t DEF OpAcked, Live, Inv, FleetInv, RequestShape, RequestClock
  <2>2. now + Drain(req[c].left - 1) =< Due(c)
    BY <1>t, <2>1, DrainArithmetic DEF Due
  <2> QED BY <1>4, <1>6, <2>1, <2>2 DEF OpAcked
<1> QED BY <1>1, <1>2, <1>3, <1>5, <1>6 DEF RequestStep

-----------------------------------------------------------------------------
LEMMA FleetTakesTableSteps ==
  ASSUME ControlInv, [FleetNext]_fleetVars
  PROVE  [TableNext]_tableVars
<1>1. CASE ControlNext
  BY <1>1, ControlTakesTableSteps DEF ControlInv
<1>2. CASE \E c \in Clients : RequestStep(c)
  BY <1>2 DEF RequestStep, Resolve, Gate, Reject, Dispatch, Shed, OpAcked, OpFailed, OpTimedOut,
              TableNext, migrationVars, tableVars
<1>3. CASE UNCHANGED fleetVars
  BY <1>3 DEF fleetVars, migrationVars
<1> QED BY <1>1, <1>2, <1>3 DEF FleetNext, FleetTick, ControlNext

LEMMA FleetStep ==
  ASSUME Serialized, BarrierCovers, Inv, [FleetNext]_fleetVars
  PROVE  Inv'
<1>1. TableInv'
  BY FleetTakesTableSteps, TableStep DEF Inv
<1>2. CASE UNCHANGED fleetVars
  BY <1>1, <1>2, ControlUntouched, FleetUntouched
  DEF Inv, fleetVars, migrationVars, tableVars, controlVars
<1>3. CASE \E c \in Clients : RequestStep(c)
  <2>1. UNCHANGED <<entries, setting, controlVars>>
    BY <1>3 DEF RequestStep, Resolve, get, Gate, Reject, Dispatch, Shed, OpAcked, OpFailed,
                OpTimedOut, migrationVars, tableVars
  <2>2. ControlInv'
    BY <2>1, ControlUntouched DEF Inv
  <2> QED BY <1>1, <1>3, <2>2, RequestStepInv DEF Inv
<1>4. CASE (\E c \in Clients : Register(c)) /\ UNCHANGED req
  BY <1>1, <1>4, RegisterStep, RegisterEffect, EffectStep, FleetUntouched DEF Inv
<1>5. CASE (\E k \in Callers : ControlCall(k)) /\ UNCHANGED req
  BY <1>1, <1>5, ControlCallStep, ControlCallEffect, EffectStep, FleetUntouched DEF Inv
<1>6. CASE ControllerRestart /\ UNCHANGED req
  <2>1. UNCHANGED <<entries, published, now, held, req>>
    BY <1>6 DEF ControllerRestart, tableVars
  <2> QED BY <1>1, <1>6, <2>1, RestartStep, FleetUntouched DEF Inv
<1>7. CASE FleetTick
  <2>1. Tick
    BY <1>7 DEF FleetTick
  <2> QED BY <1>1, <1>7, <2>1, TickStep, FleetTickStep DEF Inv
<1> QED BY <1>2, <1>3, <1>4, <1>5, <1>6, <1>7 DEF FleetNext

LEMMA FleetInvariant == Serialized /\ BarrierCovers => (FleetSpec => []Inv)
<1> SUFFICES ASSUME Serialized, BarrierCovers PROVE FleetSpec => []Inv
  OBVIOUS
<1>1. Inv /\ [FleetNext]_fleetVars => Inv'
  BY FleetStep
<1> QED BY <1>1, FleetInitInv, PTL DEF FleetSpec

\* Table, controller and requests keep their types.
THEOREM FleetTypes ==
  Serialized /\ BarrierCovers => (FleetSpec => [](TableTypeOK /\ ControlTypeOK /\ FleetTypeOK))
<1>1. Inv => TableTypeOK /\ ControlTypeOK /\ FleetTypeOK
  BY DEF Inv, TableInv, ControlInv, FleetInv
<1> QED BY <1>1, FleetInvariant, PTL

\* A barrier that outlasts a whole batch is enough: at no time can a synchronous
\* write still land in a placement its partition has left.
THEOREM FleetNoOrphanedWrite == Serialized /\ BarrierCovers => (FleetSpec => []NoOrphanedWrite)
<1>1. Inv => NoOrphanedWrite
  BY DEF Inv, FleetInv
<1> QED BY <1>1, FleetInvariant, PTL

-----------------------------------------------------------------------------
(* The fleet implements PartitionHome. *)

LEMMA HomeInitially == FleetInit => Abstract!HomeInit
  BY DEF FleetInit, TableInit, Absent, NoRequest, Abstract!HomeInit, Abstract!NoWrite, homeOf,
         writingOf, read_placement, Live

\* A controller step moves one home, of a partition nobody is writing to, or none.
LEMMA EffectIsMove ==
  ASSUME Inv, BarrierCovers, NEW p \in Partitions, Effect(p), UNCHANGED <<now, held, req>>
  PROVE  [Abstract!HomeNext]_<<homeOf, writingOf>>
<1>1. UNCHANGED writingOf
  BY DEF writingOf, Live
<1>2. CASE Same(p) \/ StaysHome(p) \/ Closes(p)
  <2>1. UNCHANGED homeOf
    BY <1>2 DEF Effect, Same, StaysHome, Closes, homeOf, read_placement
  <2> QED BY <1>1, <2>1
<1>3. CASE Registers(p) \/ Flipped(p)
  <2> DEFINE to == entries'[p].from
  <2>1. to \in Placements
    BY <1>3 DEF Registers, Flipped
  <2>2. homeOf' = [homeOf EXCEPT ![p] = to]
    BY <1>3 DEF Effect, Same, homeOf, read_placement
  <2>3. \A c \in Clients : writingOf[c].partition # p
    <3> SUFFICES ASSUME NEW c \in Clients PROVE writingOf[c].partition # p
      OBVIOUS
    <3>1. CASE ~ Live(c)
      BY <3>1, TableAssumption DEF writingOf
    <3>2. CASE Live(c)
      <4>1. held[c].partition # p
        BY <1>3, <3>2, FlipFindsNoWriter DEF Registers, Inv, FleetInv, RequestShape
      <4> QED BY <3>2, <4>1 DEF writingOf
    <3> QED BY <3>1, <3>2
  <2>4. Abstract!Move(p, to)
    BY <1>1, <2>2, <2>3 DEF Abstract!Move
  <2> QED BY <2>1, <2>4 DEF Abstract!HomeNext
<1> QED BY <1>2, <1>3 DEF Effect

\* A request step starts a write at the home of its partition, ends one, or
\* changes nothing a client can see.
LEMMA RequestIsWrite ==
  ASSUME Inv, NEW c \in Clients, RequestStep(c)
  PROVE  [Abstract!HomeNext]_<<homeOf, writingOf>>
<1> DEFINE p == held[c].partition
<1>1. UNCHANGED homeOf
  BY DEF RequestStep, Resolve, get, Gate, Reject, Dispatch, Shed, OpAcked, OpFailed, OpTimedOut,
         migrationVars, tableVars, homeOf, read_placement
<1>r. req \in [Clients -> [pc : ReqPcs, since : Times, left : 0 .. BatchMax]]
  BY DEF Inv, FleetInv, FleetTypeOK
<1>2. CASE \E n \in 1 .. BatchMax : Gate(c, n)
  <2> PICK n \in 1 .. BatchMax : Gate(c, n)
    BY <1>2
  <2>1. /\ UNCHANGED <<entries, held>> /\ req[c].pc = "resolved"
        /\ req'[c].pc = "ready" /\ \A d \in Clients : d # c => req'[d] = req[d]
    BY <1>r DEF Gate, Step, migrationVars, tableVars
  <2>2. p \in Partitions /\ held[c] # NoDecision
    BY <2>1, TableAssumption DEF Inv, FleetInv, RequestShape, NoDecision
  <2>3. /\ held[c].placement = read_placement(entries[p])
        /\ read_placement(entries[p]) \in Placements
    BY <2>2 DEF Gate, admit_write, write_open, Inv, TableInv, HeldEpochSound, EntriesPlaced,
                read_placement
  <2>4. homeOf[p] = held[c].placement /\ homeOf[p] # NoPlacement
    BY <2>2, <2>3, TableAssumption DEF homeOf
  <2>5. writingOf[c] = Abstract!NoWrite
    BY <2>1 DEF writingOf, Live, Abstract!NoWrite
  <2>6. writingOf' = [writingOf EXCEPT ![c] = [partition |-> p, placement |-> homeOf[p]]]
    BY <2>1, <2>4 DEF writingOf, Live
  <2>7. Abstract!StartWrite(c, p)
    BY <1>1, <2>4, <2>5, <2>6 DEF Abstract!StartWrite
  <2> QED BY <2>2, <2>7 DEF Abstract!HomeNext
<1>3. CASE Shed(c) \/ OpFailed(c) \/ OpTimedOut(c) \/ (OpAcked(c) /\ ~ req[c].left > 1)
  <2>1. /\ UNCHANGED held
        /\ req'[c].pc = "idle" /\ \A d \in Clients : d # c => req'[d] = req[d]
    BY <1>3, <1>r DEF Shed, OpFailed, OpTimedOut, OpAcked, Finish, NoRequest, migrationVars, tableVars
  <2>2. writingOf' = [writingOf EXCEPT ![c] = Abstract!NoWrite]
    BY <2>1 DEF writingOf, Live, Abstract!NoWrite
  <2>3. Abstract!EndWrite(c)
    BY <1>1, <2>2 DEF Abstract!EndWrite
  <2> QED BY <2>3 DEF Abstract!HomeNext
<1>4. CASE Dispatch(c) \/ (OpAcked(c) /\ req[c].left > 1)
  <2>1. /\ UNCHANGED held /\ Live(c) /\ Live(c)'
        /\ \A d \in Clients : d # c => req'[d] = req[d]
    BY <1>4, <1>r DEF Dispatch, OpAcked, Step, Live, migrationVars, tableVars
  <2>2. UNCHANGED writingOf
    BY <2>1 DEF writingOf, Live
  <2> QED BY <1>1, <2>2
<1>5. CASE Reject(c) \/ \E q \in Partitions : Resolve(c, q)
  <2>1. /\ ~ Live(c) /\ ~ Live(c)'
        /\ \A d \in Clients : d # c => req'[d] = req[d] /\ held'[d] = held[d]
    BY <1>5, <1>r DEF Reject, Resolve, get, Step, Finish, NoRequest, Live, migrationVars, tableVars,
                      Inv, TableInv, TableTypeOK
  <2>2. UNCHANGED writingOf
    BY <2>1 DEF writingOf, Live
  <2> QED BY <1>1, <2>2
<1> QED BY <1>2, <1>3, <1>4, <1>5 DEF RequestStep

\* Every behaviour of the fleet is one of PartitionHome: a home moves only while
\* nobody writes to it, and every write in flight is aimed at the home.
THEOREM FleetImplementsHome == Serialized /\ BarrierCovers => (FleetSpec => ImplementsHome)
<1> SUFFICES ASSUME Serialized, BarrierCovers PROVE FleetSpec => ImplementsHome
  OBVIOUS
<1>1. Inv /\ [FleetNext]_fleetVars => [Abstract!HomeNext]_<<homeOf, writingOf>>
  <2> SUFFICES ASSUME Inv, [FleetNext]_fleetVars PROVE [Abstract!HomeNext]_<<homeOf, writingOf>>
    OBVIOUS
  <2>0. UNCHANGED <<entries, held, req>> => UNCHANGED <<homeOf, writingOf>>
    BY DEF homeOf, writingOf, Live, read_placement
  <2>1. CASE UNCHANGED fleetVars
    BY <2>0, <2>1 DEF fleetVars, migrationVars, tableVars
  <2>2. CASE \E c \in Clients : RequestStep(c)
    BY <2>2, RequestIsWrite
  <2>3. CASE (\E c \in Clients : Register(c)) /\ UNCHANGED req
    BY <2>0, <2>3, RegisterEffect, EffectIsMove DEF Inv
  <2>4. CASE (\E k \in Callers : ControlCall(k)) /\ UNCHANGED req
    BY <2>0, <2>4, ControlCallEffect, EffectIsMove DEF Inv
  <2>5. CASE (ControllerRestart /\ UNCHANGED req) \/ FleetTick
    BY <2>0, <2>5 DEF ControllerRestart, FleetTick, Tick, tableVars
  <2> QED BY <2>1, <2>2, <2>3, <2>4, <2>5 DEF FleetNext
<1>2. Abstract!homeVars = <<homeOf, writingOf>>
  BY DEF Abstract!homeVars
<1> QED BY <1>1, <1>2, HomeInitially, FleetInvariant, PTL
        DEF FleetSpec, ImplementsHome, Abstract!HomeSpec, Abstract!homeVars
=============================================================================
