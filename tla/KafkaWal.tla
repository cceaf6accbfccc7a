------------------------------ MODULE KafkaWal ------------------------------
(***************************************************************************)
(* The durable spill buffer of crates/osproxy-kafka-wal: the request path   *)
(* appends records to a log file, one background drainer delivers them to   *)
(* the broker and moves an on-disk checkpoint past what was acknowledged.   *)
(*                                                                          *)
(* Offsets count 8-byte cells.  A frame header is one cell: the length and  *)
(* the checksum of a content, both carried here as the content itself (two  *)
(* contents never share a checksum).  A record's body is one cell.  A body  *)
(* read where a header is expected is a length and a checksum that match    *)
(* nothing.                                                                 *)
(*                                                                          *)
(* Every method of Wal runs under the mutex, so it is one step; a method is *)
(* written as a function from a Wal to a Wal.  Between two acquisitions of  *)
(* the lock, and at every await of the drainer, other steps may come.       *)
(***************************************************************************)
EXTENDS Naturals, Sequences, SequencesExt

CONSTANTS
  MaxBytes,          \* WalConfig::max_bytes, in cells
  CompactThreshold,  \* WalConfig::compact_threshold, in cells
  Faults,            \* which faults may happen, of the ones named below
  MaxRecords,        \* bound: produce is called this many times
  MaxFaults          \* bound: at most this many faults

FaultKinds == {"restart", "ack_lost", "kill_commit", "kill_append", "kill_compact",
               "disk_full", "power_loss"}

\* The faults after which the log may hold half a frame or a checkpoint of
\* another log: the crate promises nothing for the records around them.
Tearing == {"kill_append", "kill_compact", "disk_full", "power_loss"}

ASSUME WalAssumption ==
  /\ MaxBytes \in Nat /\ CompactThreshold \in Nat
  /\ MaxRecords \in Nat /\ MaxFaults \in Nat
  /\ Faults \subseteq FaultKinds

VARIABLES
  wal,        \* the open Wal and the files behind it
  drainer,    \* where the drain task is, and the record it has in hand
  produced,   \* records handed to produce so far; they are numbered
  accepted,   \* the ones produce took, in order
  delivered,  \* what the broker stored, in order
  faults,     \* how many faults have happened
  torn        \* history: one of them was a fault that may cut the log short

walVars == <<wal, drainer, produced, accepted, delivered, faults, torn>>

Records == 1 .. MaxRecords

Body(r) == [kind |-> "body", rec |-> r, of |-> <<>>]
Header(content) == [kind |-> "header", rec |-> 0, of |-> content]

\* open(): the log ends where the file ends, and reading resumes at the
\* checkpoint, or at the end if the checkpoint lies beyond it.
open(log, ckpt, synced) ==
  [log |-> log, synced |-> synced, ckpt |-> ckpt, write_offset |-> Len(log),
   read_offset |-> IF ckpt < Len(log) THEN ckpt ELSE Len(log)]

NoRecord == [rec |-> 0, next |-> 0]
Poll == [pc |-> "poll", hand |-> NoRecord]

WalInit ==
  /\ wal = open(<<>>, 0, <<>>)
  /\ drainer = Poll
  /\ produced = 0
  /\ accepted = <<>>
  /\ delivered = <<>>
  /\ faults = 0
  /\ torn = FALSE

-----------------------------------------------------------------------------
(* The methods of Wal (segment.rs). *)

\* Frame the content and write it at an offset; what the file holds beyond the
\* frame stays.
write_at(log, at, content) ==
  SubSeq(log, 1, at) \o <<Header(content)>> \o content
    \o SubSeq(log, at + Len(content) + 2, Len(log))

fits(w) == w.write_offset + 2 <= MaxBytes

append(w, r) ==
  [w EXCEPT !.log = write_at(@, w.write_offset, <<Body(r)>>), !.write_offset = @ + 2]

\* decode_body accepts what encode_body produced.
decodes(content) == Len(content) = 1 /\ content[1].kind = "body"

\* The record framed at an offset, or NoRecord if the frame is short, fails its
\* checksum or does not decode.
read_frame(log, at) ==
  IF at >= Len(log) THEN NoRecord
  ELSE LET content == log[at + 1].of
           end == at + 1 + Len(content)
       IN IF end <= Len(log) /\ SubSeq(log, at + 2, end) = content /\ decodes(content)
          THEN [rec |-> content[1].rec, next |-> end] ELSE NoRecord

caught_up(w) == w.read_offset >= w.write_offset

\* next() on a frame it cannot read: everything from the read cursor onward is
\* dropped, in memory only.
drop_tail(w) == [w EXCEPT !.write_offset = w.read_offset]

\* Mutant, in no specification.
commit_skips_ahead(w, next) ==
  [w EXCEPT !.read_offset = w.write_offset, !.ckpt = w.write_offset]

\* The checkpoint is written and fsynced.
commit(w, next) == [w EXCEPT !.read_offset = next, !.ckpt = next]

sync(w) == [w EXCEPT !.synced = w.log]

must_compact(w) ==
  w.read_offset # 0 /\ (caught_up(w) \/ w.read_offset >= CompactThreshold)

live(w) == SubSeq(w.log, w.read_offset + 1, w.write_offset)

\* maybe_compact(): the live tail is copied to the front, through write_at.
copied(w) == IF live(w) = <<>> THEN w.log ELSE write_at(w.log, 0, live(w))

\* maybe_compact() up to the checkpoint: copy the live tail, cut the file to the
\* tail's length, fsync it.
move_live(w) ==
  LET log == SubSeq(copied(w), 1, Len(live(w)))
  IN [w EXCEPT !.log = log, !.synced = log, !.write_offset = Len(log), !.read_offset = 0]

maybe_compact(w) == IF must_compact(w) THEN [move_live(w) EXCEPT !.ckpt = 0] ELSE w

-----------------------------------------------------------------------------
(* produce(), on the request path. *)

produce ==
  /\ produced < MaxRecords
  /\ fits(wal)
  /\ wal' = append(wal, produced + 1)
  /\ produced' = produced + 1
  /\ accepted' = Append(accepted, produced + 1)
  /\ UNCHANGED <<drainer, delivered, faults, torn>>

\* The buffer is full: the caller is told and the record is dropped.
produce_full ==
  /\ produced < MaxRecords
  /\ ~fits(wal)
  /\ produced' = produced + 1
  /\ UNCHANGED <<wal, drainer, accepted, delivered, faults, torn>>

-----------------------------------------------------------------------------
(* drain(), the background task. *)

\* Mutant, in no specification.
drain_next_late ==
  /\ drainer.pc = "poll"
  /\ drainer' = IF wal.read_offset + 2 >= wal.write_offset
                THEN [pc |-> "sweep", hand |-> NoRecord]
                ELSE [pc |-> "sending", hand |-> read_frame(wal.log, wal.read_offset)]
  /\ UNCHANGED <<wal, produced, accepted, delivered, faults, torn>>

drain_next ==
  /\ drainer.pc = "poll"
  /\ LET found == IF caught_up(wal) THEN NoRecord ELSE read_frame(wal.log, wal.read_offset)
     IN IF found = NoRecord
        THEN /\ drainer' = [pc |-> "sweep", hand |-> NoRecord]
             /\ wal' = IF caught_up(wal) THEN wal ELSE drop_tail(wal)
        ELSE /\ drainer' = [pc |-> "sending", hand |-> found]
             /\ UNCHANGED wal
  /\ UNCHANGED <<produced, accepted, delivered, faults, torn>>

\* Nothing to deliver: the lock is taken again to fsync and reclaim, then the
\* task parks.
drain_sweep ==
  /\ drainer.pc = "sweep"
  /\ wal' = maybe_compact(sync(wal))
  /\ drainer' = [drainer EXCEPT !.pc = "parked"]
  /\ UNCHANGED <<produced, accepted, delivered, faults, torn>>

\* notified, or the sync interval elapsed.
drain_wake ==
  /\ drainer.pc = "parked"
  /\ drainer' = Poll
  /\ UNCHANGED <<wal, produced, accepted, delivered, faults, torn>>

\* The broker stores the record; its answer is on the way back.
broker_stores ==
  /\ drainer.pc = "sending"
  /\ delivered' = Append(delivered, drainer.hand.rec)
  /\ drainer' = [drainer EXCEPT !.pc = "acked"]
  /\ UNCHANGED <<wal, produced, accepted, faults, torn>>

\* Mutant, in no specification.
send_fails_commits ==
  /\ drainer.pc = "sending"
  /\ wal' = commit(wal, drainer.hand.next)
  /\ drainer' = Poll
  /\ UNCHANGED <<produced, accepted, delivered, faults, torn>>

\* send_acked fails: back off, then poll again.
send_fails ==
  /\ drainer.pc = "sending"
  /\ drainer' = Poll
  /\ UNCHANGED <<wal, produced, accepted, delivered, faults, torn>>

\* The ack arrives: commit, and fsync and reclaim if the sync interval is over.
drain_commit ==
  /\ drainer.pc = "acked"
  /\ LET committed == commit(wal, drainer.hand.next)
     IN wal' \in {committed, maybe_compact(sync(committed))}
  /\ drainer' = Poll
  /\ UNCHANGED <<produced, accepted, delivered, faults, torn>>

-----------------------------------------------------------------------------
(* Faults. *)

Fault(kind) ==
  /\ kind \in Faults
  /\ faults < MaxFaults
  /\ faults' = faults + 1
  /\ torn' = (torn \/ kind \in Tearing)

\* The process starts again on what the files hold.
Reopen(log, ckpt, synced) ==
  /\ wal' = open(log, ckpt, synced)
  /\ drainer' = Poll

\* Drop: the drainer is aborted, which takes effect at an await, and a new
\* process opens the log.
restart ==
  /\ Fault("restart")
  /\ drainer.pc \in {"parked", "sending", "acked"}
  /\ Reopen(wal.log, wal.ckpt, wal.synced)
  /\ UNCHANGED <<produced, accepted, delivered>>

\* The broker stored the record but its answer was lost: send_acked fails.
ack_lost ==
  /\ Fault("ack_lost")
  /\ drainer.pc = "acked"
  /\ drainer' = Poll
  /\ UNCHANGED <<wal, produced, accepted, delivered>>

\* Killed inside persist_ckpt, the file truncated and not yet written.
kill_commit ==
  /\ Fault("kill_commit")
  /\ drainer.pc = "acked"
  /\ Reopen(wal.log, 0, wal.synced)
  /\ UNCHANGED <<produced, accepted, delivered>>

\* Killed inside append, the header written and not the body.
kill_append ==
  /\ Fault("kill_append")
  /\ produced < MaxRecords /\ fits(wal)
  /\ Reopen(Append(SubSeq(wal.log, 1, wal.write_offset), Header(<<Body(produced + 1)>>))
              \o SubSeq(wal.log, wal.write_offset + 2, Len(wal.log)), wal.ckpt, wal.synced)
  /\ produced' = produced + 1
  /\ UNCHANGED <<accepted, delivered>>

\* The disk fills inside append, the header written and not the body: produce
\* returns the error and write_offset stays.
disk_full ==
  /\ Fault("disk_full")
  /\ produced < MaxRecords /\ fits(wal)
  /\ wal' = [wal EXCEPT !.log = Append(SubSeq(@, 1, wal.write_offset), Header(<<Body(produced + 1)>>))
                                  \o SubSeq(@, wal.write_offset + 2, Len(@))]
  /\ produced' = produced + 1
  /\ UNCHANGED <<drainer, accepted, delivered>>

\* Killed inside maybe_compact, on either way into it: the tail copied and the
\* log not yet cut, or the log cut and the checkpoint not yet reset.
kill_compact ==
  /\ Fault("kill_compact")
  /\ drainer.pc \in {"sweep", "acked"}
  /\ LET w == IF drainer.pc = "acked" THEN commit(wal, drainer.hand.next) ELSE wal
     IN /\ must_compact(w)
        /\ \E log \in {copied(w), move_live(w).log} : Reopen(log, w.ckpt, log)
  /\ UNCHANGED <<produced, accepted, delivered>>

\* Power is lost: what was written since the last fsync reached the disk only
\* up to some offset.
power_loss ==
  /\ Fault("power_loss")
  /\ \E kept \in 0 .. Len(wal.log) :
       LET log == SubSeq(wal.log, 1, kept) \o SubSeq(wal.synced, kept + 1, Len(wal.synced))
       IN Reopen(log, wal.ckpt, log)
  /\ UNCHANGED <<produced, accepted, delivered>>

-----------------------------------------------------------------------------
DrainStep == drain_next \/ drain_sweep \/ drain_wake \/ drain_commit
FaultStep == restart \/ ack_lost \/ kill_commit \/ kill_append \/ disk_full
               \/ kill_compact \/ power_loss

WalNext == produce \/ produce_full \/ DrainStep \/ broker_stores \/ send_fails \/ FaultStep

\* The runtime schedules the drain task, and a broker that is tried again and
\* again does not refuse for ever.
WalFairness == WF_walVars(DrainStep) /\ SF_walVars(broker_stores)

WalSpec == WalInit /\ [][WalNext]_walVars /\ WalFairness

-----------------------------------------------------------------------------
(* Properties. *)

\* The records a reader starting at the read cursor will still find.
pending(w) ==
  LET from[at \in 0 .. w.write_offset] ==
        LET found == read_frame(w.log, at)
        IN IF at >= w.write_offset \/ found = NoRecord THEN <<>>
           ELSE <<found.rec>> \o (IF found.next <= w.write_offset THEN from[found.next] ELSE <<>>)
  IN from[w.read_offset]

\* Types: offsets stay inside the file, and the file inside its cap.
WalTypeOK ==
  /\ \A i \in DOMAIN wal.log : wal.log[i].kind \in {"header", "body"}
  /\ Len(wal.log) <= MaxBytes
  /\ wal.write_offset \in 0 .. Len(wal.log)
  /\ wal.read_offset \in 0 .. wal.write_offset
  /\ wal.ckpt \in 0 .. MaxBytes
  /\ drainer.pc \in {"poll", "sweep", "parked", "sending", "acked"}
  /\ drainer.hand \in [rec : 0 .. MaxRecords, next : 0 .. MaxBytes]
  /\ produced \in 0 .. MaxRecords
  /\ accepted \in Seq(Records) /\ delivered \in Seq(Records)
  /\ faults \in 0 .. MaxFaults /\ torn \in BOOLEAN

\* "Records sit on disk until acknowledged": a record produce took is stored by
\* the broker or will be found by the drainer, whatever restarts come between,
\* until a fault tears the log.
NoLoss ==
  torn \/ \A r \in Range(accepted) : r \in Range(delivered) \cup Range(pending(wal))

\* At-least-once, and how much more: a record reaches the broker a second time
\* only after a fault, once more for each.
DuplicatesNeedFaults ==
  \A r \in Range(delivered) :
    Len(SelectSeq(delivered, LAMBDA d : d = r)) <= 1 + faults

\* The broker only ever sees what produce took: a torn or refused record never
\* reaches it.
OnlyAccepted == [][Range(delivered') \subseteq Range(delivered) \cup Range(accepted)]_walVars

\* A record that was taken is stored by the broker in the end, unless a fault
\* tears the log.
EventuallyDelivered ==
  \A r \in Records : []<>(r \in Range(accepted) => torn \/ r \in Range(delivered))

\* The broker gets what produce took: all of it in the end, nothing else, and a record
\* twice only for a fault.
Delivers == []DuplicatesNeedFaults /\ OnlyAccepted /\ EventuallyDelivered

\* The buffer implements the at-least-once queue it documents, up to the first
\* fault that tears the log.
Queue == INSTANCE DurableQueue WITH Record <- Records, cursor <- Len(accepted) - Len(pending(wal))
ImplementsQueue == Queue!QueueInit /\ [][Queue!QueueNext \/ torn']_(Queue!queueVars)
=============================================================================
