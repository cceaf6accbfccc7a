--------------------------- MODULE CursorAffinity ---------------------------
(***************************************************************************)
(* The bounded, time-limited table of cursor bindings                       *)
(* (control/src/affinity.rs).  Every method holds the table's lock, so each *)
(* is one step.                                                             *)
(***************************************************************************)
EXTENDS Clock, FiniteSets

CONSTANTS Cursors, Clusters, Ttl

ASSUME AffinityAssumption == Ttl \in Nat

VARIABLES
  pins,      \* the bindings held: cursor, cluster, pinned_at
  capacity   \* how many are held at most; 0 where affinity is off

affinityVars == <<pins, capacity>>

is_expired(p) == since(p.pinned_at) >= Ttl

\* Bindings that resolve() still answers from.
Live == {p \in pins : ~is_expired(p)}

resolve(cursor) == {p.cluster : p \in {q \in Live : q.cursor = cursor}}

\* Mutant, in no specification.
evicted_newest(swept) ==
  IF Cardinality(swept) < capacity THEN {{}}
  ELSE {{p} : p \in {q \in swept : \A o \in swept : q.pinned_at >= o.pinned_at}}

\* The binding that makes room: none, or one of the oldest.
evicted(swept) ==
  IF Cardinality(swept) < capacity THEN {{}}
  ELSE {{p} : p \in {q \in swept : \A o \in swept : q.pinned_at <= o.pinned_at}}

\* pin(): sweep, evict if the table is full, insert; also for a cursor that is
\* pinned already.
pin(cursor, cluster) ==
  /\ capacity > 0
  /\ \E e \in evicted(Live) :
       pins' = {p \in Live \ e : p.cursor # cursor}
                 \cup {[cursor |-> cursor, cluster |-> cluster, pinned_at |-> now]}
  /\ UNCHANGED <<now, capacity>>

release(cursor) ==
  /\ \E p \in pins : p.cursor = cursor
  /\ pins' = {p \in pins : p.cursor # cursor}
  /\ UNCHANGED <<now, capacity>>

AffinityInit(n) == pins = {} /\ capacity = n

AffinityNext ==
  \/ \E c \in Cursors, cl \in Clusters : pin(c, cl)
  \/ \E c \in Cursors : release(c)
  \/ capacity > 0 /\ ClockTick /\ UNCHANGED affinityVars

AffinitySpec == now = 0 /\ (\E n \in Nat : AffinityInit(n)) /\ [][AffinityNext]_<<now, affinityVars>>

-----------------------------------------------------------------------------
(* Properties. *)

\* The table never holds more bindings than its capacity and never two for one
\* cursor, and what it answers was pinned less than a lifetime ago (affinity.rs pin,
\* resolve).
AffinitySound ==
  /\ Cardinality(pins) <= capacity
  /\ \A p, q \in pins : p.cursor = q.cursor => p = q
  /\ \A c \in Cursors : resolve(c) # {} =>
       \E p \in pins : p.cursor = c /\ now < p.pinned_at + Ttl

\* A live binding disappears only if it is released, replaced, or among the oldest of
\* a full table: one with room never forgets a cursor that is in use (affinity.rs pin).
ForgetsOnlyWhenFull ==
  [][\A p \in pins : /\ now < p.pinned_at + Ttl
                     /\ \A q \in pins' : q.cursor # p.cursor
                     =>
                     \/ Cardinality(pins') < Cardinality(pins) /\ pins' \subseteq pins
                     \/ /\ Cardinality({q \in pins : now < q.pinned_at + Ttl}) = capacity
                        /\ \A q \in pins : now < q.pinned_at + Ttl => p.pinned_at <= q.pinned_at]_affinityVars

\* The table keeps what it must and answers nothing it should not, at capacity and at
\* expiry.
AffinityKept == []AffinitySound /\ ForgetsOnlyWhenFull
=============================================================================
