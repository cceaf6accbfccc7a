----------------------------- MODULE EdgeProofs -----------------------------
(***************************************************************************)
(* Proofs about the parts an instance has at its edges.  The ingress, for   *)
(* any number of connections and requests and any limits: the byte budget   *)
(* is a sum over the requests in flight, and a request's reservation covers *)
(* what it buffers.  The affinity table, for any capacity, lifetime and     *)
(* cursors.  The start, for any settings and whatever is missing.           *)
(***************************************************************************)
EXTENDS Ingress, CursorAffinity, Startup, FiniteSetTheorems, WellFoundedInduction, TLAPS

-----------------------------------------------------------------------------
(* The ingress. *)

\* What a request asks the budget for.
Asked(q) == IF q.declared = Absent THEN MaxBody ELSE q.declared

\* A request buffers no more than it reserved, holds a reservation only between
\* the compare-exchange and its end, and never asks for more than the cap.
Covered(q) ==
  /\ q.buffered <= q.reserved
  /\ q.pc \in {"unsent", "streaming", "reserving", "done"} => q.reserved = 0
  /\ q.pc \in {"reserving", "collecting", "handling"} => Asked(q) <= MaxBody
  /\ q.pc \in {"collecting", "handling"} => q.reserved = Asked(q)

ReservationsCover == \A r \in Requests : Covered(req[r])

\* The connection counter is the number of live connections.
ActiveExact == active = Cardinality(LiveConns)

IngressInv ==
  /\ IngressTypeOK
  /\ ReservationsCover
  /\ BudgetExact
  /\ inflight <= Ceiling
  /\ ActiveExact
  /\ active <= MaxConnections

-----------------------------------------------------------------------------
(* Counting. *)

\* The bytes one request holds.
Own(r, n) == {r} \X (1 .. n)

LEMMA OwnCardinality ==
  ASSUME NEW r, NEW n \in Nat
  PROVE  IsFiniteSet(Own(r, n)) /\ Cardinality(Own(r, n)) = n
<1>1. IsFiniteSet(1 .. n) /\ Cardinality(1 .. n) = n
  BY FS_Interval
<1>2. IsFiniteSet({r}) /\ Cardinality({r}) = 1
  BY FS_Singleton
<1>3. IsFiniteSet(Own(r, n)) /\ Cardinality(Own(r, n)) = 1 * n
  <2>1. /\ IsFiniteSet({r} \X (1 .. n))
        /\ Cardinality({r} \X (1 .. n)) = Cardinality({r}) * Cardinality(1 .. n)
    BY <1>1, <1>2, FS_Product
  <2> QED BY <1>1, <1>2, <2>1 DEF Own
<1> QED BY <1>3

LEMMA BytesFinite ==
  ASSUME NEW n \in [Requests -> 0 .. MaxBody]
  PROVE  IsFiniteSet(Bytes(n)) /\ Cardinality(Bytes(n)) \in Nat
<1>1. IsFiniteSet(1 .. MaxBody)
  BY FS_Interval, IngressAssumption
<1>2. IsFiniteSet(Requests \X (1 .. MaxBody))
  BY <1>1, FS_Product, IngressAssumption
<1>3. Bytes(n) \subseteq Requests \X (1 .. MaxBody)
  BY DEF Bytes
<1>4. IsFiniteSet(Bytes(n))
  BY <1>2, <1>3, FS_Subset
<1> QED BY <1>4, FS_CardinalityType

\* When one request holds k bytes instead, the total moves by the difference.
LEMMA BytesMove ==
  ASSUME NEW n \in [Requests -> 0 .. MaxBody], NEW r \in Requests, NEW k \in 0 .. MaxBody
  PROVE  Cardinality(Bytes([n EXCEPT ![r] = k])) = (Cardinality(Bytes(n)) - n[r]) + k
<1> DEFINE Rest == {b \in Bytes(n) : b[1] # r}
           m == [n EXCEPT ![r] = k]
<1>0. MaxBody \in Nat /\ n[r] \in 0 .. MaxBody /\ m \in [Requests -> 0 .. MaxBody]
  BY IngressAssumption
<1>1. IsFiniteSet(Rest) /\ Cardinality(Rest) \in Nat
  BY BytesFinite, FS_Subset, FS_CardinalityType, Rest \subseteq Bytes(n)
<1>2. ASSUME NEW f \in [Requests -> 0 .. MaxBody],
             \A q \in Requests \ {r} : f[q] = n[q]
      PROVE  Cardinality(Bytes(f)) = Cardinality(Rest) + f[r]
  <2>1. f[r] \in Nat /\ f[r] <= MaxBody
    BY <1>0
  <2>2. Bytes(f) = Rest \cup Own(r, f[r])
    <3>1. \A q \in Requests, i \in 1 .. MaxBody :
            <<q, i>> \in Bytes(f) <=> <<q, i>> \in Rest \cup Own(r, f[r])
      BY <1>0, <1>2, <2>1 DEF Bytes, Own
    <3>2. Bytes(f) \subseteq Requests \X (1 .. MaxBody)
      BY DEF Bytes
    <3>3. Rest \cup Own(r, f[r]) \subseteq Requests \X (1 .. MaxBody)
      BY <1>0, <2>1 DEF Bytes, Own
    <3> QED BY <3>1, <3>2, <3>3
  <2>3. Rest \cap Own(r, f[r]) = {}
    BY DEF Own
  <2>4. Cardinality(Rest \cap Own(r, f[r])) = 0
    BY <2>3, FS_EmptySet
  <2>5. Cardinality(Rest \cup Own(r, f[r]))
          = Cardinality(Rest) + f[r] - Cardinality(Rest \cap Own(r, f[r]))
    BY <1>1, <2>1, OwnCardinality, FS_Union
  <2> QED BY <1>1, <2>1, <2>2, <2>4, <2>5
<1>3. Cardinality(Bytes(n)) = Cardinality(Rest) + n[r]
  BY <1>2
<1>4. Cardinality(Bytes(m)) = Cardinality(Rest) + m[r] /\ m[r] = k
  BY <1>0, <1>2
<1> QED BY <1>0, <1>1, <1>3, <1>4

\* Who holds no more than another, pointwise, holds no more in total.
LEMMA BytesMonotone ==
  ASSUME NEW m \in [Requests -> 0 .. MaxBody], NEW n \in [Requests -> 0 .. MaxBody],
         \A r \in Requests : m[r] <= n[r]
  PROVE  Cardinality(Bytes(m)) <= Cardinality(Bytes(n))
<1>1. Bytes(m) \subseteq Bytes(n)
  BY IngressAssumption DEF Bytes
<1> QED BY <1>1, BytesFinite, FS_Subset

-----------------------------------------------------------------------------
(* Steps. *)

\* The type of a request's task.
Pcs == {"unsent", "streaming", "reserving", "collecting", "handling", "done"}
Statuses == {0, 200, 413, 429}
Task == [pc : Pcs, conn : Conns \cup {Absent}, declared : Sizes \cup {Absent}, current : Nat,
         reserved : 0 .. MaxBody, buffered : 0 .. MaxBody, status : Statuses]

\* Every step of a request has this shape: its task changes, and the counter moves
\* with its reservation.
LEMMA TaskStep ==
  ASSUME IngressInv, NEW r \in Requests, NEW new \in Task, Covered(new),
         req' = [req EXCEPT ![r] = new],
         inflight' = (inflight - req[r].reserved) + new.reserved,
         inflight' <= Ceiling,
         UNCHANGED <<server, active, conn>>
  PROVE  IngressInv'
<1> DEFINE held == [q \in Requests |-> req[q].reserved]
<1>1. /\ req \in [Requests -> Task] /\ MaxBody \in Nat /\ Ceiling \in Nat
      /\ held \in [Requests -> 0 .. MaxBody] /\ inflight = Cardinality(Bytes(held))
      /\ new.reserved \in 0 .. MaxBody
  BY IngressAssumption DEF IngressInv, IngressTypeOK, Task, Pcs, Statuses, BudgetExact, Reserved
<1>2. [q \in Requests |-> req'[q].reserved] = [held EXCEPT ![r] = new.reserved]
  BY <1>1
<1>3. /\ Cardinality(Bytes(held)) \in Nat
      /\ Cardinality(Bytes([held EXCEPT ![r] = new.reserved]))
           = (Cardinality(Bytes(held)) - held[r]) + new.reserved
      /\ Cardinality(Bytes([held EXCEPT ![r] = new.reserved])) \in Nat
  BY <1>1, BytesMove, BytesFinite
<1>4. BudgetExact' /\ inflight' \in Nat
  <2>1. Reserved' = Bytes([held EXCEPT ![r] = new.reserved])
    BY <1>2 DEF Reserved, Bytes
  <2> QED BY <1>1, <1>3, <2>1 DEF BudgetExact
<1>5. IngressTypeOK'
  BY <1>1, <1>4 DEF IngressInv, IngressTypeOK, Task, Pcs, Statuses
<1>6. ReservationsCover'
  BY <1>1 DEF IngressInv, ReservationsCover
<1>7. ActiveExact' /\ active' <= MaxConnections
  BY DEF IngressInv, ActiveExact, LiveConns
<1> QED BY <1>4, <1>5, <1>6, <1>7 DEF IngressInv

\* A request that ends gives back what it reserved.
LEMMA EndStep ==
  ASSUME IngressInv, NEW r \in Requests, NEW status \in {0, 200, 413, 429},
         req' = [req EXCEPT ![r] = Ended(r, status)],
         inflight' = inflight - req[r].reserved,
         UNCHANGED <<server, active, conn>>
  PROVE  IngressInv'
<1>1. req[r] \in Task /\ MaxBody \in Nat /\ Ceiling \in Nat /\ inflight \in Nat
  BY IngressAssumption DEF IngressInv, IngressTypeOK, Task, Pcs, Statuses
<1>2. Ended(r, status) \in Task /\ Covered(Ended(r, status)) /\ Ended(r, status).reserved = 0
  <2>1. Ended(r, status) \in Task
    <3>1. 0 \in 0 .. MaxBody /\ "done" \in Pcs /\ status \in Statuses
      BY <1>1 DEF Pcs, Statuses
    <3> QED BY <1>1, <3>1, Zenon DEF Ended, Task
  <2>2. /\ Ended(r, status).pc = "done" /\ Ended(r, status).reserved = 0
        /\ Ended(r, status).buffered = 0
    BY <1>1 DEF Ended, Task
  <2> QED BY <2>1, <2>2 DEF Covered
<1>3. inflight' = (inflight - req[r].reserved) + Ended(r, status).reserved /\ inflight' <= Ceiling
  BY <1>1, <1>2 DEF IngressInv, Task
<1> QED BY <1>2, <1>3, TaskStep

LEMMA HeadStep ==
  ASSUME IngressInv, NEW r \in Requests, NEW c \in Conns, NEW declared \in Sizes \cup {Absent},
         NEW path \in {"forward", "bulk_stream", "buffered"}, RequestHead(r, c, declared, path)
  PROVE  IngressInv'
<1> DEFINE new == req'[r]
<1>1. /\ req \in [Requests -> Task] /\ MaxBody \in Nat /\ Ceiling \in Nat /\ inflight \in Nat
      /\ req[r].pc = "unsent" /\ req[r].reserved = 0 /\ inflight <= Ceiling
      /\ Absent \notin Nat
  BY IngressAssumption DEF IngressInv, IngressTypeOK, Task, Pcs, Statuses, RequestHead, ReservationsCover, Covered
<1>2. req' = [req EXCEPT ![r] = new]
  BY <1>1 DEF RequestHead
<1>3. new \in Task /\ Covered(new) /\ new.reserved = 0
  <2> DEFINE fresh == [NotSent EXCEPT !.conn = c, !.declared = declared]
  <2>1. /\ new \in {[fresh EXCEPT !.pc = "streaming"], [fresh EXCEPT !.pc = "done", !.status = 413],
                    [fresh EXCEPT !.pc = "reserving", !.current = inflight]}
        /\ new.pc = "reserving" => declared = Absent \/ declared <= MaxBody
    BY <1>1 DEF RequestHead, Sizes
  <2>2. new \in Task
    <3>1. NotSent \in Task
      BY <1>1 DEF NotSent, Task, Pcs, Statuses
    <3>2. /\ "streaming" \in Pcs /\ "reserving" \in Pcs /\ "done" \in Pcs /\ 413 \in Statuses
          /\ c \in Conns \cup {Absent} /\ declared \in Sizes \cup {Absent}
      BY DEF Pcs, Statuses
    <3>3. fresh \in Task
      BY <3>1, <3>2, Zenon DEF Task
    <3> HIDE DEF fresh
    <3>4. [fresh EXCEPT !.pc = "streaming"] \in Task
      BY <3>2, <3>3, ZenonT(30) DEF Task
    <3>5. [fresh EXCEPT !.pc = "done", !.status = 413] \in Task
      BY <3>2, <3>3, ZenonT(60) DEF Task
    <3>6. [fresh EXCEPT !.pc = "reserving", !.current = inflight] \in Task
      BY <1>1, <3>2, <3>3, ZenonT(60) DEF Task
    <3> QED BY <2>1, <3>4, <3>5, <3>6
  <2>3. /\ new.reserved = 0 /\ new.buffered = 0 /\ new.declared = declared
        /\ new.pc \in {"streaming", "reserving", "done"}
    <3>1. CASE new = [fresh EXCEPT !.pc = "streaming"]
      BY <3>1 DEF NotSent
    <3>2. CASE new = [fresh EXCEPT !.pc = "done", !.status = 413]
      BY <3>2 DEF NotSent
    <3>3. CASE new = [fresh EXCEPT !.pc = "reserving", !.current = inflight]
      BY <3>3 DEF NotSent
    <3> QED BY <2>1, <3>1, <3>2, <3>3
  <2> QED BY <1>1, <2>1, <2>2, <2>3 DEF Covered, Asked
<1>4. inflight' = (inflight - req[r].reserved) + new.reserved /\ inflight' <= Ceiling
  BY <1>1, <1>3 DEF RequestHead
<1> QED BY <1>2, <1>3, <1>4, TaskStep DEF RequestHead

LEMMA ExchangeStep ==
  ASSUME IngressInv, NEW r \in Requests, compare_exchange(r)
  PROVE  IngressInv'
<1> DEFINE new == IF inflight = req[r].current
                  THEN [req[r] EXCEPT !.pc = "collecting", !.reserved = reserve(r)]
                  ELSE [req[r] EXCEPT !.current = inflight]
<1>1. /\ req[r] \in Task /\ MaxBody \in Nat /\ Ceiling \in Nat /\ inflight \in Nat
      /\ inflight <= Ceiling
      /\ req[r].pc = "reserving" /\ req[r].reserved = 0 /\ Covered(req[r])
      /\ Absent \notin Nat
  BY IngressAssumption
  DEF IngressInv, IngressTypeOK, Task, Pcs, Statuses, compare_exchange, ReservationsCover, Covered
<1>2. reserve(r) \in 0 .. MaxBody /\ reserve(r) = Asked(req[r])
  BY <1>1 DEF Covered, Asked, reserve, Task, Sizes
<1>3. req' = [req EXCEPT ![r] = new]
  BY DEF compare_exchange
<1>4. new \in Task /\ Covered(new)
  <2>1. CASE inflight = req[r].current
    <3>1. new \in Task
      <4>1. "collecting" \in Pcs /\ 0 \in 0 .. MaxBody /\ 0 \in Statuses
        BY <1>1 DEF Pcs, Statuses
      <4> QED BY <1>1, <1>2, <2>1, <4>1, Zenon DEF Task
    <3>2. /\ new.pc = "collecting" /\ new.reserved = reserve(r)
          /\ new.buffered = req[r].buffered /\ new.declared = req[r].declared
      BY <1>1, <2>1 DEF Task
    <3> QED BY <1>1, <1>2, <3>1, <3>2 DEF Covered, Asked, Task
  <2>2. CASE inflight # req[r].current
    <3>1. new \in Task
      BY <1>1, <2>2 DEF Task
    <3>2. /\ new.pc = req[r].pc /\ new.reserved = req[r].reserved
          /\ new.buffered = req[r].buffered /\ new.declared = req[r].declared
      BY <1>1, <2>2 DEF Task
    <3> QED BY <1>1, <3>1, <3>2 DEF Covered, Asked
  <2> QED BY <2>1, <2>2
<1>5. inflight' = (inflight - req[r].reserved) + new.reserved /\ inflight' <= Ceiling
  BY <1>1, <1>2 DEF compare_exchange, Task
<1> QED BY <1>3, <1>4, <1>5, TaskStep DEF compare_exchange

LEMMA CollectStep ==
  ASSUME IngressInv, NEW r \in Requests, collect(r)
  PROVE  IngressInv'
<1>1. /\ req[r] \in Task /\ MaxBody \in Nat /\ Ceiling \in Nat /\ inflight \in Nat
      /\ inflight <= Ceiling /\ Covered(req[r]) /\ req[r].pc = "collecting" /\ Absent \notin Nat
  BY IngressAssumption
  DEF IngressInv, IngressTypeOK, Task, Pcs, Statuses, collect, ReservationsCover
<1>2. CASE req[r].buffered < MaxBody
  <2> DEFINE new == [req[r] EXCEPT !.buffered = req[r].buffered + 1]
  <2>1. req' = [req EXCEPT ![r] = new] /\ inflight' = inflight
    BY <1>2 DEF collect
  <2>2. req[r].buffered + 1 \in 0 .. MaxBody
    BY <1>1, <1>2 DEF Task
  <2>3. new \in Task
    BY <1>1, <2>2, Zenon DEF Task
  <2>4. /\ new.pc = req[r].pc /\ new.reserved = req[r].reserved /\ new.declared = req[r].declared
        /\ new.buffered = req[r].buffered + 1
    BY <1>1 DEF Task
  <2>5. req[r].buffered < req[r].reserved
    BY <1>1, <1>2 DEF collect, Covered, Asked, Task, Sizes
  <2>6. Covered(new)
    BY <1>1, <2>4, <2>5 DEF Covered, Asked, Task
  <2>7. inflight' = (inflight - req[r].reserved) + new.reserved
    BY <1>1, <2>1, <2>4 DEF Task
  <2> QED BY <1>1, <2>1, <2>3, <2>6, <2>7, TaskStep DEF collect
<1>3. CASE ~(req[r].buffered < MaxBody)
  BY <1>3, EndStep DEF collect
<1> QED BY <1>2, <1>3

LEMMA CollectedStep ==
  ASSUME IngressInv, NEW r \in Requests, collected(r)
  PROVE  IngressInv'
<1> DEFINE new == [req[r] EXCEPT !.pc = "handling"]
<1>1. /\ req[r] \in Task /\ inflight \in Nat
      /\ inflight <= Ceiling /\ Covered(req[r]) /\ req[r].pc = "collecting"
  BY DEF IngressInv, IngressTypeOK, Task, Pcs, Statuses, collected, ReservationsCover
<1>2. req' = [req EXCEPT ![r] = new] /\ inflight' = inflight
  BY DEF collected
<1>3. "handling" \in Pcs
  BY DEF Pcs
<1>4. new \in Task
  BY <1>1, <1>3, Zenon DEF Task
<1>5. /\ new.pc = "handling" /\ new.reserved = req[r].reserved /\ new.declared = req[r].declared
      /\ new.buffered = req[r].buffered
  BY <1>1 DEF Task
<1>6. Covered(new)
  BY <1>1, <1>5 DEF Covered, Asked
<1>7. inflight' = (inflight - req[r].reserved) + new.reserved
  BY <1>1, <1>2, <1>5 DEF Task
<1> QED BY <1>1, <1>2, <1>4, <1>6, <1>7, TaskStep DEF collected

LEMMA RequestStepInv ==
  ASSUME IngressInv, NEW r \in Requests, RequestStep(r)
  PROVE  IngressInv'
<1>1. CASE dropped(r)
  BY <1>1, EndStep DEF dropped
<1>2. CASE shed(r)
  <2>1. req[r].reserved = 0 /\ inflight \in Nat
    BY <1>2 DEF IngressInv, IngressTypeOK, ReservationsCover, Covered, shed
  <2>2. inflight' = inflight - req[r].reserved
    BY <1>2, <2>1 DEF shed
  <2>3. req' = [req EXCEPT ![r] = Ended(r, 429)] /\ UNCHANGED <<server, active, conn>>
    BY <1>2 DEF shed
  <2> QED BY <2>2, <2>3, EndStep
<1>3. CASE compare_exchange(r)
  BY <1>3, ExchangeStep
<1>4. CASE collected(r)
  BY <1>4, CollectedStep
<1>5. CASE handled(r)
  <2>1. /\ req' = [req EXCEPT ![r] = Ended(r, 200)] /\ inflight' = inflight - req[r].reserved
        /\ UNCHANGED <<server, active, conn>>
    BY <1>5 DEF handled
  <2> QED BY <2>1, EndStep
<1> QED BY <1>1, <1>2, <1>3, <1>4, <1>5 DEF RequestStep

LEMMA LiveFinite == IsFiniteSet(LiveConns) /\ Cardinality(LiveConns) \in Nat
                      /\ Cardinality(LiveConns) <= Cardinality(Conns) /\ Cardinality(Conns) \in Nat
<1>1. LiveConns \subseteq Conns
  BY DEF LiveConns
<1> QED BY <1>1, IngressAssumption, FS_Subset, FS_CardinalityType

\* A connection's task changes its state; the counter follows.
LEMMA ConnStep ==
  ASSUME IngressInv, NEW c \in Conns, NEW s \in {"none", "handshake", "open", "winding", "closed"},
         conn' = [conn EXCEPT ![c] = s],
         active' = Cardinality(LiveConns'), active' <= MaxConnections,
         UNCHANGED <<server, inflight, req>>
  PROVE  IngressInv'
<1>1. /\ conn \in [Conns -> {"none", "handshake", "open", "winding", "closed"}]
      /\ IsFiniteSet(Conns)
  BY IngressAssumption DEF IngressInv, IngressTypeOK
<1>2. LiveConns' \subseteq Conns
  BY DEF LiveConns
<1>3. active' \in 0 .. Cardinality(Conns)
  BY <1>1, <1>2, FS_Subset, FS_CardinalityType
<1>4. IngressTypeOK'
  BY <1>1, <1>3 DEF IngressInv, IngressTypeOK
<1>5. ReservationsCover' /\ BudgetExact' /\ inflight' <= Ceiling
  BY DEF IngressInv, ReservationsCover, BudgetExact, Reserved, Bytes
<1> QED BY <1>4, <1>5 DEF IngressInv, ActiveExact

LEMMA AcceptStep ==
  ASSUME IngressInv, NEW c \in Conns, accept(c)
  PROVE  IngressInv'
<1>1. /\ active = Cardinality(LiveConns) /\ active \in Nat /\ active <= MaxConnections
      /\ MaxConnections \in Nat /\ conn[c] = "none"
      /\ conn \in [Conns -> {"none", "handshake", "open", "winding", "closed"}]
  BY IngressAssumption, LiveFinite DEF IngressInv, IngressTypeOK, ActiveExact, accept
<1>2. CASE active >= MaxConnections
  <2>1. conn' = [conn EXCEPT ![c] = "closed"] /\ active' = active
    BY <1>2 DEF accept
  <2>2. LiveConns' = LiveConns
    BY <1>1, <2>1 DEF LiveConns
  <2> QED BY <1>1, <2>1, <2>2, ConnStep DEF accept
<1>3. CASE ~(active >= MaxConnections)
  <2>1. conn' = [conn EXCEPT ![c] = "handshake"] /\ active' = active + 1
    BY <1>3 DEF accept
  <2>2. LiveConns' = LiveConns \cup {c} /\ c \notin LiveConns
    BY <1>1, <2>1 DEF LiveConns
  <2>3. active' = Cardinality(LiveConns')
    BY <1>1, <2>1, <2>2, LiveFinite, FS_AddElement
  <2>4. active' <= MaxConnections
    BY <1>1, <1>3, <2>1
  <2> QED BY <2>1, <2>3, <2>4, ConnStep DEF accept
<1> QED BY <1>2, <1>3

LEMMA EndConnStep ==
  ASSUME IngressInv, NEW c \in Conns, conn_ends(c)
  PROVE  IngressInv'
<1>1. /\ active = Cardinality(LiveConns) /\ active \in Nat /\ active <= MaxConnections
      /\ MaxConnections \in Nat
      /\ conn \in [Conns -> {"none", "handshake", "open", "winding", "closed"}]
      /\ conn' = [conn EXCEPT ![c] = "closed"] /\ active' = active - 1
  BY IngressAssumption, LiveFinite DEF IngressInv, IngressTypeOK, ActiveExact, conn_ends
<1>2. LiveConns' = LiveConns \ {c} /\ c \in LiveConns
  BY <1>1 DEF LiveConns, conn_ends
<1>3. active' = Cardinality(LiveConns')
  BY <1>1, <1>2, LiveFinite, FS_RemoveElement
<1>4. active' <= MaxConnections
  BY <1>1
<1> QED BY <1>1, <1>3, <1>4, ConnStep DEF conn_ends

LEMMA MoveConnStep ==
  ASSUME IngressInv, NEW c \in Conns, handshake(c) \/ drain_seen(c)
  PROVE  IngressInv'
<1>1. /\ active = Cardinality(LiveConns) /\ active <= MaxConnections
      /\ conn \in [Conns -> {"none", "handshake", "open", "winding", "closed"}]
  BY DEF IngressInv, IngressTypeOK, ActiveExact
<1>2. PICK s \in {"open", "winding"} : conn' = [conn EXCEPT ![c] = s] /\ active' = active
  BY DEF handshake, drain_seen
<1>3. LiveConns' = LiveConns
  BY <1>1, <1>2 DEF LiveConns, handshake, drain_seen
<1> QED BY <1>1, <1>2, <1>3, ConnStep DEF handshake, drain_seen

\* Failing or shutting down changes only the accept loop's own state.
LEMMA ServerStep ==
  ASSUME IngressInv, accept_fails \/ shutdown \/ drained \/ Tick \/ UNCHANGED ingressVars
  PROVE  IngressInv'
<1>1. /\ server' \in [phase : {"accepting", "draining", "stopped", "failed"}, age : 0 .. DrainDeadline]
      /\ UNCHANGED <<active, conn, inflight, req>>
  BY IngressAssumption DEF IngressInv, IngressTypeOK, accept_fails, shutdown, drained, Tick, ingressVars
<1> QED BY <1>1 DEF IngressInv, IngressTypeOK, ReservationsCover, BudgetExact, Reserved, Bytes,
                    ActiveExact, LiveConns

LEMMA IngressInitInv == IngressInit => IngressInv
<1> SUFFICES ASSUME IngressInit PROVE IngressInv
  OBVIOUS
<1>1. IngressTypeOK
  BY IngressAssumption, LiveFinite DEF IngressInit, IngressTypeOK, NotSent
<1>2. ReservationsCover
  BY IngressAssumption DEF IngressInit, ReservationsCover, Covered, NotSent
<1>3. LiveConns = {}
  BY DEF IngressInit, LiveConns
<1>4. Reserved = {}
  <2>1. \A r \in Requests : req[r].reserved = 0
    BY DEF IngressInit, NotSent
  <2> QED BY <2>1, IngressAssumption DEF Reserved, Bytes
<1> QED BY <1>1, <1>2, <1>3, <1>4, FS_EmptySet, IngressAssumption
        DEF IngressInv, BudgetExact, ActiveExact, IngressInit

LEMMA IngressInvInductive == IngressInv /\ [IngressNext]_ingressVars => IngressInv'
<1> SUFFICES ASSUME IngressInv, [IngressNext]_ingressVars PROVE IngressInv'
  OBVIOUS
<1>1. ASSUME NEW c \in Conns,
             accept(c) \/ handshake(c) \/ conn_ends(c) \/ drain_seen(c) \/ wound_down(c)
      PROVE  IngressInv'
  BY <1>1, AcceptStep, MoveConnStep, EndConnStep DEF wound_down
<1>2. ASSUME NEW r \in Requests, NEW c \in Conns, NEW declared \in Sizes \cup {Absent},
             NEW path \in {"forward", "bulk_stream", "buffered"}, RequestHead(r, c, declared, path)
      PROVE  IngressInv'
  BY <1>2, HeadStep
<1>3. ASSUME NEW r \in Requests, RequestStep(r) \/ collect(r)
      PROVE  IngressInv'
  BY <1>3, RequestStepInv, CollectStep
<1>4. CASE accept_fails \/ shutdown \/ drained \/ Tick \/ UNCHANGED ingressVars
  BY <1>4, ServerStep
<1> QED BY <1>1, <1>2, <1>3, <1>4 DEF IngressNext

THEOREM IngressInvariant == IngressSpec => []IngressInv
<1>1. IngressInit => IngressInv
  BY IngressInitInv
<1>2. IngressInv /\ [IngressNext]_ingressVars => IngressInv'
  BY IngressInvInductive
<1> QED BY <1>1, <1>2, PTL DEF IngressSpec

LEMMA IngressInvImplies == IngressInv => CeilingsHold
<1> SUFFICES ASSUME IngressInv PROVE CeilingsHold
  OBVIOUS
<1> DEFINE held == [r \in Requests |-> req[r].reserved]
           kept == [r \in Requests |-> req[r].buffered]
<1>1. /\ held \in [Requests -> 0 .. MaxBody] /\ kept \in [Requests -> 0 .. MaxBody]
      /\ \A r \in Requests : kept[r] <= held[r]
  BY DEF IngressInv, IngressTypeOK, ReservationsCover, Covered
<1>2. Cardinality(Bytes(kept)) <= Cardinality(Bytes(held))
  BY <1>1, BytesMonotone
<1>3. Cardinality(Bytes(kept)) \in Nat /\ Cardinality(Bytes(held)) \in Nat
  BY <1>1, BytesFinite
<1>4. Cardinality(Bytes(held)) <= Ceiling
  BY DEF IngressInv, BudgetExact, Reserved
<1>5. BufferedUnderCeiling
  BY <1>2, <1>3, <1>4, IngressAssumption DEF BufferedUnderCeiling, Buffered
<1> QED BY <1>5 DEF IngressInv, CeilingsHold, ActiveExact, ConnectionsCapped

\* For any limits, connections and requests, and every interleaving of admissions,
\* refusals, drops and closes: what is buffered stays under inflight_ceiling, the
\* admission counter is exactly what is reserved, and connections stay under theirs.
THEOREM IngressCeilings == IngressSpec => []CeilingsHold
  BY IngressInvariant, IngressInvImplies, PTL

\* Once shutdown began, serve() does not return under a live connection before
\* DRAIN_DEADLINE; only an error of accept() returns at once, and only before it.
THEOREM IngressGraceful == IngressSpec => GracefulStop
<1>1. IngressInv /\ [IngressNext]_ingressVars => [Graceful]_ingressVars
  <2> SUFFICES ASSUME IngressInv, IngressNext,
                      ~Returned(server.phase), Returned(server'.phase), ~accept_fails
               PROVE  server.age = DrainDeadline \/ \A c \in Conns : conn[c] \in {"none", "closed"}
    <3>1. accept_fails => server.phase = "accepting" /\ server'.phase = "failed"
      BY DEF accept_fails, IngressInv, IngressTypeOK
    <3> QED BY <3>1 DEF Graceful
  <2>1. drained
    <3>1. server' # server
      BY DEF Returned
    <3>2. ~ \E c \in Conns : accept(c) \/ handshake(c) \/ conn_ends(c) \/ drain_seen(c) \/ wound_down(c)
      BY <3>1 DEF accept, handshake, conn_ends, drain_seen, wound_down
    <3>3. ~ \E r \in Requests, c \in Conns, declared \in Sizes \cup {Absent},
               path \in {"forward", "bulk_stream", "buffered"} : RequestHead(r, c, declared, path)
      BY <3>1 DEF RequestHead
    <3>4. ~ \E r \in Requests : RequestStep(r) \/ collect(r)
      BY <3>1 DEF RequestStep, dropped, shed, compare_exchange, collect, collected, handled
    <3>5. server = [phase |-> server.phase, age |-> server.age]
      BY DEF IngressInv, IngressTypeOK
    <3>6. ~shutdown /\ ~Tick
      BY <3>5 DEF shutdown, Tick, Returned
    <3> QED BY <3>2, <3>3, <3>4, <3>6 DEF IngressNext
  <2>2. CASE active = 0
    <3>1. LiveConns = {}
      BY <2>2, LiveFinite, FS_EmptySet DEF IngressInv, ActiveExact
    <3> QED BY <3>1 DEF LiveConns, IngressInv, IngressTypeOK
  <2>3. CASE server.age >= DrainDeadline
    BY <2>3, IngressAssumption DEF IngressInv, IngressTypeOK
  <2> QED BY <2>1, <2>2, <2>3 DEF drained
<1> QED BY <1>1, IngressInvariant, PTL DEF IngressSpec, GracefulStop

-----------------------------------------------------------------------------
(* The affinity table. *)

\* Bindings are of the past, and a table with affinity off holds none.
AffinityInv ==
  /\ now \in Nat /\ capacity \in Nat
  /\ IsFiniteSet(pins)
  /\ \A p \in pins : p = [cursor |-> p.cursor, cluster |-> p.cluster, pinned_at |-> p.pinned_at]
  /\ \A p \in pins : p.pinned_at \in Nat /\ p.pinned_at <= now
  /\ Cardinality(pins) <= capacity
  /\ \A p, q \in pins : p.cursor = q.cursor => p = q

\* What resolve() answers from is younger than the lifetime.
LEMMA LiveYoung ==
  ASSUME AffinityInv
  PROVE  /\ Live = {p \in pins : now < p.pinned_at + Ttl}
         /\ IsFiniteSet(Live) /\ Cardinality(Live) <= Cardinality(pins)
         /\ Cardinality(Live) \in Nat /\ Cardinality(pins) \in Nat
<1>1. \A p \in pins : ~is_expired(p) <=> now < p.pinned_at + Ttl
  BY AffinityAssumption DEF AffinityInv, is_expired, since
<1>2. Live = {p \in pins : now < p.pinned_at + Ttl}
  BY <1>1 DEF Live
<1>3. Live \subseteq pins /\ IsFiniteSet(pins)
  BY DEF Live, AffinityInv
<1>4. IsFiniteSet(Live) /\ Cardinality(Live) <= Cardinality(pins)
  BY <1>3, FS_Subset
<1> QED BY <1>2, <1>3, <1>4, FS_CardinalityType

\* What pin() throws out: nothing while there is room, else one of the oldest.
LEMMA Evicts ==
  ASSUME AffinityInv, capacity > 0, NEW e \in evicted(Live)
  PROVE  /\ IsFiniteSet(Live \ e) /\ Cardinality(Live \ e) < capacity
         /\ e # {} => Cardinality(Live) = capacity
         /\ \A p \in e : e = {p} /\ p \in Live /\ \A o \in Live : p.pinned_at <= o.pinned_at
<1>1. /\ IsFiniteSet(Live) /\ Cardinality(Live) <= capacity /\ Cardinality(Live) \in Nat /\ capacity \in Nat
  BY LiveYoung DEF AffinityInv
<1>2. CASE Cardinality(Live) < capacity
  <2>1. e = {}
    BY <1>2 DEF evicted
  <2> QED BY <1>1, <1>2, <2>1
<1>3. CASE ~(Cardinality(Live) < capacity)
  <2>1. PICK p \in Live : e = {p} /\ \A o \in Live : p.pinned_at <= o.pinned_at
    BY <1>3 DEF evicted
  <2>2. IsFiniteSet(Live \ {p}) /\ Cardinality(Live \ {p}) = Cardinality(Live) - 1
    BY <1>1, <2>1, FS_RemoveElement
  <2> QED BY <1>1, <1>3, <2>1, <2>2
<1> QED BY <1>2, <1>3

LEMMA PinKeeps ==
  ASSUME AffinityInv, NEW cursor, NEW cluster, pin(cursor, cluster)
  PROVE  AffinityInv'
<1>1. PICK e \in evicted(Live) :
        pins' = {p \in Live \ e : p.cursor # cursor} \cup {[cursor |-> cursor, cluster |-> cluster, pinned_at |-> now]}
  BY DEF pin
<1>2. capacity > 0 /\ UNCHANGED <<now, capacity>> /\ capacity \in Nat /\ now \in Nat
  BY DEF pin, AffinityInv
<1>3. PICK S, new : S = {p \in Live \ e : p.cursor # cursor} /\ new = [cursor |-> cursor, cluster |-> cluster, pinned_at |-> now]
  OBVIOUS
<1>4. pins' = S \cup {new} /\ S \subseteq Live \ e /\ S \subseteq pins /\ \A p \in S : p.cursor # cursor
  BY <1>1, <1>3 DEF Live
<1>5. IsFiniteSet(Live \ e) /\ Cardinality(Live \ e) < capacity /\ Cardinality(Live \ e) \in Nat
  BY <1>2, Evicts, FS_CardinalityType
<1>6. IsFiniteSet(S) /\ Cardinality(S) <= Cardinality(Live \ e) /\ Cardinality(S) \in Nat
  BY <1>4, <1>5, FS_Subset, FS_CardinalityType
<1>7. IsFiniteSet(pins') /\ Cardinality(pins') <= Cardinality(S) + 1 /\ Cardinality(pins') \in Nat
  <2>1. /\ IsFiniteSet(S \cup {new})
        /\ Cardinality(S \cup {new}) = IF new \in S THEN Cardinality(S) ELSE Cardinality(S) + 1
    BY <1>6, FS_AddElement
  <2> QED BY <1>4, <1>6, <2>1
<1>8. Cardinality(pins') <= capacity
  BY <1>2, <1>5, <1>6, <1>7
<1>9. /\ new.cursor = cursor /\ new.pinned_at = now
      /\ new = [cursor |-> new.cursor, cluster |-> new.cluster, pinned_at |-> new.pinned_at]
  BY <1>3
<1>10. \A p \in pins' : p = [cursor |-> p.cursor, cluster |-> p.cluster, pinned_at |-> p.pinned_at]
  BY <1>4, <1>9 DEF AffinityInv
<1>11. \A p \in pins' : p.pinned_at \in Nat /\ p.pinned_at <= now
  BY <1>2, <1>4, <1>9 DEF AffinityInv
<1>12. \A p, q \in pins' : p.cursor = q.cursor => p = q
  BY <1>4, <1>9 DEF AffinityInv
<1> QED BY <1>2, <1>7, <1>8, <1>10, <1>11, <1>12 DEF AffinityInv

LEMMA ReleaseKeeps ==
  ASSUME AffinityInv, NEW cursor, release(cursor)
  PROVE  AffinityInv' /\ pins' \subseteq pins /\ Cardinality(pins') < Cardinality(pins)
<1>1. /\ pins' = {p \in pins : p.cursor # cursor} /\ pins' \subseteq pins /\ pins' # pins
      /\ UNCHANGED <<now, capacity>> /\ capacity \in Nat
  BY DEF release, AffinityInv
<1>a. IsFiniteSet(pins') /\ Cardinality(pins') <= Cardinality(pins) /\ (Cardinality(pins) = Cardinality(pins') => pins = pins')
  BY <1>1, FS_Subset DEF AffinityInv
<1>3. Cardinality(pins') \in Nat /\ Cardinality(pins) \in Nat
  BY <1>a, FS_CardinalityType DEF AffinityInv
<1>2. IsFiniteSet(pins') /\ Cardinality(pins') < Cardinality(pins)
  BY <1>1, <1>3, <1>a
<1>4. Cardinality(pins') <= capacity
  BY <1>1, <1>2, <1>3 DEF AffinityInv
<1> QED BY <1>1, <1>2, <1>3, <1>4 DEF AffinityInv

LEMMA AffinityNextInv == AffinityInv /\ [AffinityNext]_<<now, affinityVars>> => AffinityInv'
<1> SUFFICES ASSUME AffinityInv, [AffinityNext]_<<now, affinityVars>> PROVE AffinityInv'
  OBVIOUS
<1>1. CASE \E c \in Cursors, cl \in Clusters : pin(c, cl)
  BY <1>1, PinKeeps
<1>2. CASE \E c \in Cursors : release(c)
  BY <1>2, ReleaseKeeps
<1>3. CASE ClockTick /\ UNCHANGED affinityVars
  BY <1>3 DEF ClockTick, affinityVars, AffinityInv
<1>4. CASE UNCHANGED <<now, affinityVars>>
  BY <1>4 DEF affinityVars, AffinityInv
<1> QED BY <1>1, <1>2, <1>3, <1>4 DEF AffinityNext

LEMMA AffinityInvSound == AffinityInv => AffinitySound
<1> SUFFICES ASSUME AffinityInv PROVE AffinitySound
  OBVIOUS
<1>1. ASSUME NEW c \in Cursors, resolve(c) # {}
      PROVE  \E p \in pins : p.cursor = c /\ now < p.pinned_at + Ttl
  BY <1>1, LiveYoung DEF resolve
<1> QED BY <1>1 DEF AffinityInv, AffinitySound

\* A live binding that pin() drops was the oldest of a full table.
LEMMA PinForgets ==
  ASSUME AffinityInv, NEW cursor, NEW cluster, pin(cursor, cluster),
         NEW p \in pins, now < p.pinned_at + Ttl, \A q \in pins' : q.cursor # p.cursor
  PROVE  /\ Cardinality({q \in pins : now < q.pinned_at + Ttl}) = capacity
         /\ \A q \in pins : now < q.pinned_at + Ttl => p.pinned_at <= q.pinned_at
<1>1. PICK e \in evicted(Live) :
        pins' = {q \in Live \ e : q.cursor # cursor} \cup {[cursor |-> cursor, cluster |-> cluster, pinned_at |-> now]}
  BY DEF pin
<1>2. capacity > 0
  BY DEF pin
<1>n. PICK new : new = [cursor |-> cursor, cluster |-> cluster, pinned_at |-> now]
  OBVIOUS
<1>o. new.cursor = cursor /\ new \in pins'
  BY <1>1, <1>n
<1>3. p \in Live /\ p.cursor # cursor /\ p \notin pins'
  BY <1>o, LiveYoung
<1>4. p \in e
  BY <1>1, <1>3
<1>5. Cardinality(Live) = capacity /\ \A o \in Live : p.pinned_at <= o.pinned_at
  BY <1>2, <1>4, Evicts
<1> QED BY <1>5, LiveYoung

\* For any capacity, lifetime and cursors: the table stays within its capacity and holds
\* one binding of a cursor, it answers only what was pinned less than a lifetime ago, and
\* a table with room never forgets a cursor in use.
THEOREM AffinityKeeps == AffinitySpec => AffinityKept
<1>1. now = 0 /\ (\E n \in Nat : AffinityInit(n)) => AffinityInv
  BY FS_EmptySet DEF AffinityInit, AffinityInv
<1>2. AffinityInv /\ [AffinityNext]_<<now, affinityVars>> =>
        [\A p \in pins : /\ now < p.pinned_at + Ttl
                         /\ \A q \in pins' : q.cursor # p.cursor
                         =>
                         \/ Cardinality(pins') < Cardinality(pins) /\ pins' \subseteq pins
                         \/ /\ Cardinality({q \in pins : now < q.pinned_at + Ttl}) = capacity
                            /\ \A q \in pins : now < q.pinned_at + Ttl => p.pinned_at <= q.pinned_at]_affinityVars
  <2> SUFFICES ASSUME AffinityInv, AffinityNext, ~UNCHANGED affinityVars, NEW p \in pins, now < p.pinned_at + Ttl,
                      \A q \in pins' : q.cursor # p.cursor
               PROVE  \/ Cardinality(pins') < Cardinality(pins) /\ pins' \subseteq pins
                      \/ /\ Cardinality({q \in pins : now < q.pinned_at + Ttl}) = capacity
                         /\ \A q \in pins : now < q.pinned_at + Ttl => p.pinned_at <= q.pinned_at
    BY DEF affinityVars
  <2>1. CASE \E c \in Cursors, cl \in Clusters : pin(c, cl)
    BY <2>1, PinForgets
  <2>2. CASE \E c \in Cursors : release(c)
    BY <2>2, ReleaseKeeps
  <2> QED BY <2>1, <2>2 DEF AffinityNext
<1> QED BY <1>1, <1>2, AffinityNextInv, AffinityInvSound, PTL DEF AffinitySpec, AffinityKept, ForgetsOnlyWhenFull

-----------------------------------------------------------------------------
(* The start. *)

Stages == {"load", "upstream", "directives", "pipeline", "fanout", "capture", "bind", "tls", "grpc", "serve",
           "serving", "refused"}

BootShape(b) ==
  /\ b = [pc |-> b.pc, launch |-> b.launch, raw |-> b.raw, cfg |-> b.cfg, on |-> b.on]
  /\ b.on = [upstream |-> b.on.upstream, directives |-> b.on.directives, publish |-> b.on.publish,
             pipeline |-> b.on.pipeline, fanout |-> b.on.fanout, capture |-> b.on.capture,
             sealed |-> b.on.sealed, http |-> b.on.http, grpc |-> b.on.grpc]

\* The parts that run() has behind it are as the configuration has them.
Wired(pc, c, on) ==
  /\ pc # "upstream" => on.upstream = upstream_link(c)
  /\ pc \notin {"upstream", "directives"} /\ c.etcd => on.directives = "etcd"
  /\ pc \notin {"upstream", "directives", "pipeline", "fanout"} /\ c.fanout => on.fanout = c.fanout_tls
  /\ pc \in {"bind", "tls", "grpc", "serve", "serving"} /\ c.capture => on.capture = c.capture_tls
  /\ pc \in {"serve", "serving"} /\ c.grpc => on.grpc = c.tls
  /\ pc = "serving" => on.http = c.tls

Underway(pc) == pc \in Stages \ {"load", "refused"}

BootInv ==
  /\ BootShape(boot)
  /\ boot.pc \in Stages
  /\ Underway(boot.pc) => /\ ~resolve_refused(boot.raw)
                          /\ boot.cfg = resolve_config(boot.raw)
                          /\ Wired(boot.pc, boot.cfg, boot.on)

LEMMA BootInitInv == StartupInit => BootInv
  BY DEF StartupInit, Begin, Unwired, BootInv, BootShape, Stages, Underway

LEMMA RefuseKeeps ==
  ASSUME BootInv, refuse
  PROVE  BootInv'
<1>1. PICK b : b = [boot EXCEPT !.pc = "refused"]
  OBVIOUS
<1>2. boot' = b /\ BootShape(boot)
  BY <1>1 DEF refuse, BootInv
<1>3. b.pc = "refused" /\ BootShape(b)
  BY <1>1, <1>2 DEF BootShape
<1> QED BY <1>2, <1>3 DEF BootInv, BootShape, Stages, Underway

\* A step of run() that goes on.
LEMMA ToKeeps ==
  ASSUME BootInv, Underway(boot.pc), NEW pc, Underway(pc), NEW on, to(pc, on),
         on = [upstream |-> on.upstream, directives |-> on.directives, publish |-> on.publish,
               pipeline |-> on.pipeline, fanout |-> on.fanout, capture |-> on.capture,
               sealed |-> on.sealed, http |-> on.http, grpc |-> on.grpc],
         Wired(pc, boot.cfg, on)
  PROVE  BootInv'
<1>1. PICK b : b = [boot EXCEPT !.pc = pc, !.on = on]
  OBVIOUS
<1>2. boot' = b /\ boot = [pc |-> boot.pc, launch |-> boot.launch, raw |-> boot.raw, cfg |-> boot.cfg, on |-> boot.on]
  BY <1>1 DEF to, BootInv, BootShape
<1>3. b = [pc |-> pc, launch |-> boot.launch, raw |-> boot.raw, cfg |-> boot.cfg, on |-> on]
  BY <1>1, <1>2
<1>4. b.pc = pc /\ b.raw = boot.raw /\ b.cfg = boot.cfg /\ b.on = on /\ BootShape(b) /\ pc \in Stages
  BY <1>3 DEF BootShape, Underway
<1>5. ~resolve_refused(boot.raw) /\ boot.cfg = resolve_config(boot.raw)
  BY DEF BootInv
<1>6. boot'.pc = pc /\ boot'.raw = boot.raw /\ boot'.cfg = boot.cfg /\ boot'.on = on /\ BootShape(boot')
  BY <1>2, <1>4
<1> QED BY <1>4, <1>5, <1>6 DEF BootInv, BootShape

LEMMA LoadKeeps ==
  ASSUME BootInv, load_config
  PROVE  BootInv'
<1>1. CASE refuse
  BY <1>1, RefuseKeeps
<1>2. CASE ~refuse
  <2>1. \E raw : /\ ~resolve_refused(raw)
                 /\ boot' = [boot EXCEPT !.pc = "upstream", !.raw = raw, !.cfg = resolve_config(raw)]
    BY <1>2 DEF load_config
  <2>2. PICK raw : /\ ~resolve_refused(raw)
                   /\ boot' = [boot EXCEPT !.pc = "upstream", !.raw = raw, !.cfg = resolve_config(raw)]
    BY <2>1
  <2>3. PICK cfg, pc : cfg = resolve_config(raw) /\ pc = "upstream"
    OBVIOUS
  <2>4. PICK b : b = [boot EXCEPT !.pc = pc, !.raw = raw, !.cfg = cfg]
    OBVIOUS
  <2>5. boot' = b /\ BootShape(boot)
    BY <2>2, <2>3, <2>4 DEF BootInv
  <2>6. b = [pc |-> pc, launch |-> boot.launch, raw |-> raw, cfg |-> cfg, on |-> boot.on]
    BY <2>4, <2>5 DEF BootShape
  <2>7. b.pc = pc /\ b.raw = raw /\ b.cfg = cfg /\ b.on = boot.on /\ BootShape(b)
    BY <2>5, <2>6 DEF BootShape
  <2>8. Wired(pc, cfg, boot.on)
    BY <2>3 DEF Wired
  <2>9. b.pc \in Stages
    BY <2>3, <2>7 DEF Stages
  <2>10. ~resolve_refused(b.raw) /\ b.cfg = resolve_config(b.raw) /\ Wired(b.pc, b.cfg, b.on)
    BY <2>2, <2>3, <2>7, <2>8
  <2>11. BootShape(boot')
    BY <2>5, <2>7
  <2> QED BY <2>5, <2>9, <2>10, <2>11 DEF BootInv, BootShape
<1> QED BY <1>1, <1>2

\* What run() has wired so far.
LEMMA OnShape ==
  ASSUME BootInv, Underway(boot.pc)
  PROVE  /\ boot.on = [upstream |-> boot.on.upstream, directives |-> boot.on.directives, publish |-> boot.on.publish,
                       pipeline |-> boot.on.pipeline, fanout |-> boot.on.fanout, capture |-> boot.on.capture,
                       sealed |-> boot.on.sealed, http |-> boot.on.http, grpc |-> boot.on.grpc]
         /\ Wired(boot.pc, boot.cfg, boot.on)
  BY DEF BootInv, BootShape

LEMMA UpstreamKeeps ==
  ASSUME BootInv, load_upstream_tls
  PROVE  BootInv'
<1>1. boot.pc = "upstream" /\ Underway(boot.pc)
  BY DEF load_upstream_tls, Underway, Stages
<1>2. CASE readable(boot.cfg.upstream_files)
  <2>1. PICK v : v = upstream_link(boot.cfg)
    OBVIOUS
  <2>2. PICK on : on = [boot.on EXCEPT !.upstream = v]
    OBVIOUS
  <2>3. on = [upstream |-> v, directives |-> boot.on.directives, publish |-> boot.on.publish,
             pipeline |-> boot.on.pipeline, fanout |-> boot.on.fanout, capture |-> boot.on.capture,
             sealed |-> boot.on.sealed, http |-> boot.on.http, grpc |-> boot.on.grpc]
    BY <1>1, <2>2, OnShape
  <2>4. /\ on = [upstream |-> on.upstream, directives |-> on.directives, publish |-> on.publish,
                 pipeline |-> on.pipeline, fanout |-> on.fanout, capture |-> on.capture,
                 sealed |-> on.sealed, http |-> on.http, grpc |-> on.grpc]
        /\ Wired("directives", boot.cfg, on) /\ Underway("directives")
    BY <1>1, <1>2, <2>1, <2>3, OnShape DEF Wired, Underway, Stages
  <2>5. to("directives", on)
    BY <1>1, <1>2, <2>1, <2>2 DEF load_upstream_tls
  <2> QED BY <1>1, <2>4, <2>5, ToKeeps
<1>3. CASE refuse
  BY <1>3, RefuseKeeps
<1> QED BY <1>1, <1>2, <1>3 DEF load_upstream_tls

LEMMA DirectivesKeeps ==
  ASSUME BootInv, directive_store
  PROVE  BootInv'
<1>1. boot.pc = "directives" /\ Underway(boot.pc)
  BY DEF directive_store, Underway, Stages
<1>2. CASE ~boot.cfg.etcd
  <2>1. PICK v : v = "memory"
    OBVIOUS
  <2>2. PICK on : on = [boot.on EXCEPT !.directives = v]
    OBVIOUS
  <2>3. on = [upstream |-> boot.on.upstream, directives |-> v, publish |-> boot.on.publish,
             pipeline |-> boot.on.pipeline, fanout |-> boot.on.fanout, capture |-> boot.on.capture,
             sealed |-> boot.on.sealed, http |-> boot.on.http, grpc |-> boot.on.grpc]
    BY <1>1, <2>2, OnShape
  <2>4. /\ on = [upstream |-> on.upstream, directives |-> on.directives, publish |-> on.publish,
                 pipeline |-> on.pipeline, fanout |-> on.fanout, capture |-> on.capture,
                 sealed |-> on.sealed, http |-> on.http, grpc |-> on.grpc]
        /\ Wired("pipeline", boot.cfg, on) /\ Underway("pipeline")
    BY <1>1, <1>2, <2>1, <2>3, OnShape DEF Wired, Underway, Stages
  <2>5. to("pipeline", on)
    BY <1>1, <1>2, <2>1, <2>2 DEF directive_store
  <2> QED BY <1>1, <2>4, <2>5, ToKeeps
<1>3. CASE boot.cfg.etcd /\ {"etcd"} \subseteq boot.launch.world.features \cap boot.launch.world.peers
  <2>1. PICK v : v = "etcd"
    OBVIOUS
  <2>2. PICK on : on = [boot.on EXCEPT !.directives = v]
    OBVIOUS
  <2>3. on = [upstream |-> boot.on.upstream, directives |-> v, publish |-> boot.on.publish,
             pipeline |-> boot.on.pipeline, fanout |-> boot.on.fanout, capture |-> boot.on.capture,
             sealed |-> boot.on.sealed, http |-> boot.on.http, grpc |-> boot.on.grpc]
    BY <1>1, <2>2, OnShape
  <2>4. /\ on = [upstream |-> on.upstream, directives |-> on.directives, publish |-> on.publish,
                 pipeline |-> on.pipeline, fanout |-> on.fanout, capture |-> on.capture,
                 sealed |-> on.sealed, http |-> on.http, grpc |-> on.grpc]
        /\ Wired("pipeline", boot.cfg, on) /\ Underway("pipeline")
    BY <1>1, <1>3, <2>1, <2>3, OnShape DEF Wired, Underway, Stages
  <2>5. to("pipeline", on)
    BY <1>1, <1>3, <2>1, <2>2 DEF directive_store
  <2> QED BY <1>1, <2>4, <2>5, ToKeeps
<1>4. CASE refuse
  BY <1>4, RefuseKeeps
<1> QED BY <1>1, <1>2, <1>3, <1>4 DEF directive_store

LEMMA PipelineKeeps ==
  ASSUME BootInv, assemble_pipeline
  PROVE  BootInv'
<1>1. boot.pc = "pipeline" /\ Underway(boot.pc)
  BY DEF assemble_pipeline, Underway, Stages
<1>2. PICK v : v = {p \in {"passthrough", "admin"} : boot.cfg[p]}
  OBVIOUS
<1>3. PICK on : on = [boot.on EXCEPT !.pipeline = v]
  OBVIOUS
<1>4. on = [upstream |-> boot.on.upstream, directives |-> boot.on.directives, publish |-> boot.on.publish,
           pipeline |-> v, fanout |-> boot.on.fanout, capture |-> boot.on.capture,
           sealed |-> boot.on.sealed, http |-> boot.on.http, grpc |-> boot.on.grpc]
  BY <1>1, <1>3, OnShape
<1>5. /\ on = [upstream |-> on.upstream, directives |-> on.directives, publish |-> on.publish,
               pipeline |-> on.pipeline, fanout |-> on.fanout, capture |-> on.capture,
               sealed |-> on.sealed, http |-> on.http, grpc |-> on.grpc]
      /\ Wired("fanout", boot.cfg, on) /\ Underway("fanout")
  BY <1>1, <1>2, <1>4, OnShape DEF Wired, Underway, Stages
<1>6. to("fanout", on)
  BY <1>1, <1>2, <1>3 DEF assemble_pipeline
<1> QED BY <1>1, <1>5, <1>6, ToKeeps

LEMMA FanoutKeeps ==
  ASSUME BootInv, fanout_attach
  PROVE  BootInv'
<1>1. boot.pc = "fanout" /\ Underway(boot.pc)
  BY DEF fanout_attach, Underway, Stages
<1>2. CASE ~boot.cfg.fanout
  <2>1. Wired("capture", boot.cfg, boot.on) /\ Underway("capture") /\ to("capture", boot.on)
    BY <1>1, <1>2, OnShape DEF Wired, Underway, Stages, fanout_attach
  <2> QED BY <1>1, <2>1, OnShape, ToKeeps
<1>3. CASE boot.cfg.fanout /\ attached("fanout", boot.cfg.fanout_files)
  <2>1. PICK v : v = boot.cfg.fanout_tls
    OBVIOUS
  <2>2. PICK on : on = [boot.on EXCEPT !.fanout = v]
    OBVIOUS
  <2>3. on = [upstream |-> boot.on.upstream, directives |-> boot.on.directives, publish |-> boot.on.publish,
             pipeline |-> boot.on.pipeline, fanout |-> v, capture |-> boot.on.capture,
             sealed |-> boot.on.sealed, http |-> boot.on.http, grpc |-> boot.on.grpc]
    BY <1>1, <2>2, OnShape
  <2>4. /\ on = [upstream |-> on.upstream, directives |-> on.directives, publish |-> on.publish,
                 pipeline |-> on.pipeline, fanout |-> on.fanout, capture |-> on.capture,
                 sealed |-> on.sealed, http |-> on.http, grpc |-> on.grpc]
        /\ Wired("capture", boot.cfg, on) /\ Underway("capture")
    BY <1>1, <1>3, <2>1, <2>3, OnShape DEF Wired, Underway, Stages
  <2>5. to("capture", on)
    BY <1>1, <1>3, <2>1, <2>2 DEF fanout_attach
  <2> QED BY <1>1, <2>4, <2>5, ToKeeps
<1>4. CASE refuse
  BY <1>4, RefuseKeeps
<1> QED BY <1>1, <1>2, <1>3, <1>4 DEF fanout_attach

LEMMA CaptureKeeps ==
  ASSUME BootInv, capture_attach
  PROVE  BootInv'
<1>1. boot.pc = "capture" /\ Underway(boot.pc)
  BY DEF capture_attach, Underway, Stages
<1>2. CASE ~boot.cfg.capture
  <2>1. PICK v : v = ((boot.on.directives = "memory") /\ boot.cfg.admin_token)
    OBVIOUS
  <2>2. PICK on : on = [boot.on EXCEPT !.publish = v]
    OBVIOUS
  <2>3. on = [upstream |-> boot.on.upstream, directives |-> boot.on.directives, publish |-> v,
             pipeline |-> boot.on.pipeline, fanout |-> boot.on.fanout, capture |-> boot.on.capture,
             sealed |-> boot.on.sealed, http |-> boot.on.http, grpc |-> boot.on.grpc]
    BY <1>1, <2>2, OnShape
  <2>4. /\ on = [upstream |-> on.upstream, directives |-> on.directives, publish |-> on.publish,
                 pipeline |-> on.pipeline, fanout |-> on.fanout, capture |-> on.capture,
                 sealed |-> on.sealed, http |-> on.http, grpc |-> on.grpc]
        /\ Wired("bind", boot.cfg, on) /\ Underway("bind")
    BY <1>1, <1>2, <2>1, <2>3, OnShape DEF Wired, Underway, Stages
  <2>5. to("bind", on)
    BY <1>1, <1>2, <2>1, <2>2 DEF capture_attach
  <2> QED BY <1>1, <2>4, <2>5, ToKeeps
<1>3. CASE boot.cfg.capture /\ attached("capture", boot.cfg.capture_files) /\ (boot.cfg.wal => "disk" \in boot.launch.world.peers)
  <2>1. PICK v0, v1, v2 : v0 = ((boot.on.directives = "memory") /\ boot.cfg.admin_token) /\ v1 = boot.cfg.capture_tls /\ v2 = (IF boot.cfg.redact THEN "redacted" ELSE "whole")
    OBVIOUS
  <2>2. PICK on : on = [boot.on EXCEPT !.publish = v0, !.capture = v1, !.sealed = v2]
    OBVIOUS
  <2>3. on = [upstream |-> boot.on.upstream, directives |-> boot.on.directives, publish |-> v0,
             pipeline |-> boot.on.pipeline, fanout |-> boot.on.fanout, capture |-> v1,
             sealed |-> v2, http |-> boot.on.http, grpc |-> boot.on.grpc]
    BY <1>1, <2>2, OnShape
  <2>4. /\ on = [upstream |-> on.upstream, directives |-> on.directives, publish |-> on.publish,
                 pipeline |-> on.pipeline, fanout |-> on.fanout, capture |-> on.capture,
                 sealed |-> on.sealed, http |-> on.http, grpc |-> on.grpc]
        /\ Wired("bind", boot.cfg, on) /\ Underway("bind")
    BY <1>1, <1>3, <2>1, <2>3, OnShape DEF Wired, Underway, Stages
  <2>5. to("bind", on)
    BY <1>1, <1>3, <2>1, <2>2 DEF capture_attach
  <2> QED BY <1>1, <2>4, <2>5, ToKeeps
<1>4. CASE refuse
  BY <1>4, RefuseKeeps
<1> QED BY <1>1, <1>2, <1>3, <1>4 DEF capture_attach

LEMMA BindKeeps ==
  ASSUME BootInv, bind
  PROVE  BootInv'
<1>1. boot.pc = "bind" /\ Underway(boot.pc)
  BY DEF bind, Underway, Stages
<1>2. CASE "http" \in boot.launch.world.ports
  <2>1. Wired("tls", boot.cfg, boot.on) /\ Underway("tls") /\ to("tls", boot.on)
    BY <1>1, <1>2, OnShape DEF Wired, Underway, Stages, bind
  <2> QED BY <1>1, <2>1, OnShape, ToKeeps
<1>3. CASE refuse
  BY <1>3, RefuseKeeps
<1> QED BY <1>1, <1>2, <1>3 DEF bind

LEMMA ProviderKeeps ==
  ASSUME BootInv, load_tls_provider
  PROVE  BootInv'
<1>1. boot.pc = "tls" /\ Underway(boot.pc)
  BY DEF load_tls_provider, Underway, Stages
<1>2. CASE readable(boot.cfg.tls_files)
  <2>1. Wired("grpc", boot.cfg, boot.on) /\ Underway("grpc") /\ to("grpc", boot.on)
    BY <1>1, <1>2, OnShape DEF Wired, Underway, Stages, load_tls_provider
  <2> QED BY <1>1, <2>1, OnShape, ToKeeps
<1>3. CASE refuse
  BY <1>3, RefuseKeeps
<1> QED BY <1>1, <1>2, <1>3 DEF load_tls_provider

LEMMA GrpcKeeps ==
  ASSUME BootInv, spawn_grpc
  PROVE  BootInv'
<1>1. boot.pc = "grpc" /\ Underway(boot.pc)
  BY DEF spawn_grpc, Underway, Stages
<1>2. CASE ~boot.cfg.grpc
  <2>1. Wired("serve", boot.cfg, boot.on) /\ Underway("serve") /\ to("serve", boot.on)
    BY <1>1, <1>2, OnShape DEF Wired, Underway, Stages, spawn_grpc
  <2> QED BY <1>1, <2>1, OnShape, ToKeeps
<1>3. CASE boot.cfg.grpc /\ "grpc" \in boot.launch.world.ports
  <2>1. PICK v : v = boot.cfg.tls
    OBVIOUS
  <2>2. PICK on : on = [boot.on EXCEPT !.grpc = v]
    OBVIOUS
  <2>3. on = [upstream |-> boot.on.upstream, directives |-> boot.on.directives, publish |-> boot.on.publish,
             pipeline |-> boot.on.pipeline, fanout |-> boot.on.fanout, capture |-> boot.on.capture,
             sealed |-> boot.on.sealed, http |-> boot.on.http, grpc |-> v]
    BY <1>1, <2>2, OnShape
  <2>4. /\ on = [upstream |-> on.upstream, directives |-> on.directives, publish |-> on.publish,
                 pipeline |-> on.pipeline, fanout |-> on.fanout, capture |-> on.capture,
                 sealed |-> on.sealed, http |-> on.http, grpc |-> on.grpc]
        /\ Wired("serve", boot.cfg, on) /\ Underway("serve")
    BY <1>1, <1>3, <2>1, <2>3, OnShape DEF Wired, Underway, Stages
  <2>5. to("serve", on)
    BY <1>1, <1>3, <2>1, <2>2 DEF spawn_grpc
  <2> QED BY <1>1, <2>4, <2>5, ToKeeps
<1>4. CASE refuse
  BY <1>4, RefuseKeeps
<1> QED BY <1>1, <1>2, <1>3, <1>4 DEF spawn_grpc

LEMMA ServeKeeps ==
  ASSUME BootInv, serve
  PROVE  BootInv'
<1>1. boot.pc = "serve" /\ Underway(boot.pc)
  BY DEF serve, Underway, Stages
<1>2. PICK v : v = boot.cfg.tls
  OBVIOUS
<1>3. PICK on : on = [boot.on EXCEPT !.http = v]
  OBVIOUS
<1>4. on = [upstream |-> boot.on.upstream, directives |-> boot.on.directives, publish |-> boot.on.publish,
           pipeline |-> boot.on.pipeline, fanout |-> boot.on.fanout, capture |-> boot.on.capture,
           sealed |-> boot.on.sealed, http |-> v, grpc |-> boot.on.grpc]
  BY <1>1, <1>3, OnShape
<1>5. /\ on = [upstream |-> on.upstream, directives |-> on.directives, publish |-> on.publish,
               pipeline |-> on.pipeline, fanout |-> on.fanout, capture |-> on.capture,
               sealed |-> on.sealed, http |-> on.http, grpc |-> on.grpc]
      /\ Wired("serving", boot.cfg, on) /\ Underway("serving")
  BY <1>1, <1>2, <1>4, OnShape DEF Wired, Underway, Stages
<1>6. to("serving", on)
  BY <1>1, <1>2, <1>3 DEF serve
<1> QED BY <1>1, <1>5, <1>6, ToKeeps

LEMMA BootNextInv == BootInv /\ [StartupNext]_boot => BootInv'
<1> SUFFICES ASSUME BootInv, [StartupNext]_boot PROVE BootInv'
  OBVIOUS
<1>1. CASE StartupNext
  BY <1>1, LoadKeeps, UpstreamKeeps, DirectivesKeeps, PipelineKeeps, FanoutKeeps, CaptureKeeps, BindKeeps,
     ProviderKeeps, GrpcKeeps, ServeKeeps DEF StartupNext
<1>2. CASE UNCHANGED boot
  BY <1>2 DEF BootInv, BootShape
<1> QED BY <1>1, <1>2

\* What a Kafka client is asked for in part and not refused is asked for in whole.
LEMMA KafkaWhole ==
  ASSUME NEW raw, NEW p \in {"capture", "fanout"}, ~resolve_refused(raw), given(raw, <<p, "topic">>)
  PROVE  kafka_on(raw, p)
<1>1. ~kafka_refused(raw, p)
  BY DEF resolve_refused, capture_refused, fanout_refused
<1> QED BY <1>1 DEF kafka_refused, kafka_on, given

LEMMA BootWhole == BootInv => StartsWhole
<1> SUFFICES ASSUME BootInv, boot.pc = "serving" PROVE StartsWhole
  BY DEF StartsWhole
<1>1. PICK raw, c, on : raw = boot.raw /\ c = boot.cfg /\ on = boot.on
  OBVIOUS
<1>2. ~resolve_refused(raw) /\ c = resolve_config(raw) /\ Wired("serving", c, on)
  BY <1>1 DEF BootInv, Underway, Stages
<1>3. /\ c.tls = posture(given(raw, <<"tls", "cert">>), given(raw, <<"tls", "client", "ca">>))
      /\ c.upstream_tls = posture(given(raw, <<"upstream", "tls", "ca">>), given(raw, <<"upstream", "tls", "cert">>))
      /\ c.capture_tls = posture(given(raw, <<"capture", "kafka", "ca">>), given(raw, <<"capture", "kafka", "client", "cert">>))
      /\ c.fanout_tls = posture(given(raw, <<"fanout", "kafka", "ca">>), given(raw, <<"fanout", "kafka", "client", "cert">>))
      /\ c.grpc = given(raw, <<"grpc", "bind">>) /\ c.etcd = etcd(raw) /\ c.https = https(raw)
      /\ c.capture = kafka_on(raw, "capture") /\ c.fanout = kafka_on(raw, "fanout")
  BY <1>2 DEF resolve_config, server_config
<1>4. /\ on.http = c.tls /\ on.upstream = upstream_link(c) /\ (c.grpc => on.grpc = c.tls)
      /\ (c.etcd => on.directives = "etcd") /\ (c.fanout => on.fanout = c.fanout_tls)
      /\ (c.capture => on.capture = c.capture_tls)
  BY <1>2 DEF Wired
<1>5. \A a, b : posture(a, b) # "off" /\ (a => posture(a, b) \in {"tls", "mtls"}) /\ (b => posture(a, b) = "mtls")
  BY DEF posture
<1>6. given(raw, <<"etcd", "directives", "key">>) => on.directives = "etcd"
  BY <1>2, <1>3, <1>4 DEF resolve_refused, etcd_refused
<1>7. given(raw, <<"capture", "topic">>) =>
        /\ on.capture # "off" /\ (given(raw, <<"capture", "kafka", "ca">>) => on.capture \in {"tls", "mtls"})
        /\ (given(raw, <<"capture", "kafka", "client", "cert">>) => on.capture = "mtls")
  BY <1>2, <1>3, <1>4, <1>5, KafkaWhole
<1>8. given(raw, <<"fanout", "topic">>) =>
        /\ on.fanout # "off" /\ (given(raw, <<"fanout", "kafka", "ca">>) => on.fanout \in {"tls", "mtls"})
        /\ (given(raw, <<"fanout", "kafka", "client", "cert">>) => on.fanout = "mtls")
  BY <1>2, <1>3, <1>4, <1>5, KafkaWhole
<1>9. /\ given(raw, <<"tls", "cert">>) => on.http \in {"tls", "mtls"}
      /\ given(raw, <<"tls", "client", "ca">>) => on.http = "mtls"
      /\ given(raw, <<"grpc", "bind">>) => on.grpc = on.http
  BY <1>3, <1>4, <1>5
<1>11. ASSUME https(raw)
       PROVE  /\ on.upstream # "clear"
              /\ given(raw, <<"upstream", "tls", "ca">>) => on.upstream \in {"tls", "mtls"}
              /\ given(raw, <<"upstream", "tls", "cert">>) => on.upstream = "mtls"
  <2>1. on.upstream = IF c.upstream_tls = "clear" THEN "closed" ELSE c.upstream_tls
    BY <1>3, <1>4, <1>11 DEF upstream_link
  <2> QED BY <1>3, <1>5, <2>1
<1>10. on["capture"] = on.capture /\ on["fanout"] = on.fanout
  OBVIOUS
<1> QED BY <1>1, <1>6, <1>7, <1>8, <1>9, <1>10, <1>11 DEF StartsWhole

\* For any settings, any layers of them and any world to start in: an instance that
\* serves has every part it was asked for, and no link that was to be secured is in the
\* clear: the listeners' and the brokers' if a certificate or CA is set, the upstream's if
\* its URL says https.
THEOREM StartupWhole == StartupSpec => []StartsWhole
  BY BootInitInv, BootNextInv, BootWhole, PTL DEF StartupSpec

-----------------------------------------------------------------------------
(* The layers of the configuration.  A layer is read item by item, and after *)
(* each item what is known of a key is what the last item that set it gave.  *)

\* Induction over the naturals, for a set of them.
LEMMA NaturalsIn ==
  ASSUME NEW S, S \subseteq Nat, 0 \in S, \A n \in S : n + 1 \in S
  PROVE  \A n \in Nat : n \in S
<1>1. SUFFICES ASSUME NEW m \in Nat, m \notin S PROVE FALSE
  OBVIOUS
<1>2. PICK T : T = Nat \ S
  OBVIOUS
<1>3. T \subseteq Nat /\ T # {}
  BY <1>1, <1>2
<1>4. \E x \in T : \A y \in T : ~ (<<y, x>> \in OpToRel(<, Nat))
  BY <1>3, WFMin, NatLessThanWellFounded
<1>5. PICK x \in T : \A y \in T : ~ (<<y, x>> \in OpToRel(<, Nat))
  BY <1>4
<1>6. \A y \in T : ~(y < x)
  BY <1>3, <1>5 DEF OpToRel
<1>7. x \in Nat /\ x # 0 /\ x \notin S
  BY <1>2
<1>8. x - 1 \in Nat /\ x - 1 < x
  BY <1>7
<1>9. x - 1 \in S
  BY <1>2, <1>6, <1>8
<1>10. (x - 1) + 1 \in S
  BY <1>9
<1>11. (x - 1) + 1 = x
  BY <1>7
<1> QED BY <1>7, <1>10, <1>11

\* A layer is read item by item: g[n] is what is known after n of them.
FileRead(lines, m, g) == g = [n \in 0 .. m |-> IF n = 0 THEN Unread ELSE file_line(g[n - 1], lines[n])]
FlagsRead(flags, m, g) == g = [n \in 0 .. m |-> IF n = 0 THEN Unread ELSE flag(g[n - 1], flags[n])]

LEMMA FileReadMore ==
  ASSUME NEW lines, NEW m \in Nat, NEW g, FileRead(lines, m, g)
  PROVE  \E h : FileRead(lines, m + 1, h)
<1>1. PICK h : h = [n \in 0 .. m + 1 |-> IF n <= m THEN g[n] ELSE file_line(g[m], lines[m + 1])]
  OBVIOUS
<1>2. ASSUME NEW n \in 0 .. m + 1
      PROVE  h[n] = IF n = 0 THEN Unread ELSE file_line(h[n - 1], lines[n])
  <2>1. CASE n = 0
    BY <1>1, <2>1 DEF FileRead
  <2>2. CASE n \in 1 .. m
    <3>1. h[n] = g[n] /\ h[n - 1] = g[n - 1] /\ n # 0
      BY <1>1, <2>2
    <3>2. g[n] = file_line(g[n - 1], lines[n])
      BY <2>2, <3>1 DEF FileRead
    <3> QED BY <3>1, <3>2
  <2>3. CASE n = m + 1
    <3>1. h[n] = file_line(g[m], lines[m + 1]) /\ h[n - 1] = g[m] /\ n # 0
      BY <1>1, <2>3
    <3> QED BY <2>3, <3>1
  <2> QED BY <2>1, <2>2, <2>3
<1>3. PICK h2 : h2 = [n \in 0 .. m + 1 |-> IF n = 0 THEN Unread ELSE file_line(h[n - 1], lines[n])]
  OBVIOUS
<1>4. DOMAIN h = 0 .. m + 1 /\ h = [n \in 0 .. m + 1 |-> h[n]]
  BY <1>1
<1>5. \A n \in 0 .. m + 1 : h[n] = h2[n]
  BY <1>2, <1>3
<1>6. h = h2
  BY <1>3, <1>4, <1>5
<1> QED BY <1>3, <1>6 DEF FileRead

LEMMA FlagsReadMore ==
  ASSUME NEW flags, NEW m \in Nat, NEW g, FlagsRead(flags, m, g)
  PROVE  \E h : FlagsRead(flags, m + 1, h)
<1>1. PICK h : h = [n \in 0 .. m + 1 |-> IF n <= m THEN g[n] ELSE flag(g[m], flags[m + 1])]
  OBVIOUS
<1>2. ASSUME NEW n \in 0 .. m + 1
      PROVE  h[n] = IF n = 0 THEN Unread ELSE flag(h[n - 1], flags[n])
  <2>1. CASE n = 0
    BY <1>1, <2>1 DEF FlagsRead
  <2>2. CASE n \in 1 .. m
    <3>1. h[n] = g[n] /\ h[n - 1] = g[n - 1] /\ n # 0
      BY <1>1, <2>2
    <3>2. g[n] = flag(g[n - 1], flags[n])
      BY <2>2, <3>1 DEF FlagsRead
    <3> QED BY <3>1, <3>2
  <2>3. CASE n = m + 1
    <3>1. h[n] = flag(g[m], flags[m + 1]) /\ h[n - 1] = g[m] /\ n # 0
      BY <1>1, <2>3
    <3> QED BY <2>3, <3>1
  <2> QED BY <2>1, <2>2, <2>3
<1>3. PICK h2 : h2 = [n \in 0 .. m + 1 |-> IF n = 0 THEN Unread ELSE flag(h[n - 1], flags[n])]
  OBVIOUS
<1>4. DOMAIN h = 0 .. m + 1 /\ h = [n \in 0 .. m + 1 |-> h[n]]
  BY <1>1
<1>5. \A n \in 0 .. m + 1 : h[n] = h2[n]
  BY <1>2, <1>3
<1>6. h = h2
  BY <1>3, <1>4, <1>5
<1> QED BY <1>3, <1>6 DEF FlagsRead

\* The definitions, as facts.
LEMMA LinesRead ==
  ASSUME NEW lines, NEW m \in Nat, Len(lines) = m
  PROVE  /\ lines_read(lines)[0] = Unread
         /\ \A n \in 1 .. m : lines_read(lines)[n] = file_line(lines_read(lines)[n - 1], lines[n])
<1>1. PICK S : S = {n \in Nat : \E g : FileRead(lines, n, g)}
  OBVIOUS
<1>2. 0 \in S
  <2>1. PICK g : g = [n \in 0 .. 0 |-> Unread]
    OBVIOUS
  <2>2. g = [n \in 0 .. 0 |-> IF n = 0 THEN Unread ELSE file_line(g[n - 1], lines[n])]
    BY <2>1
  <2> QED BY <1>1, <2>2 DEF FileRead
<1>3. \A n \in S : n + 1 \in S
  BY <1>1, FileReadMore
<1>4. S \subseteq Nat
  BY <1>1
<1>5. m \in S
  BY ONLY m \in Nat, <1>2, <1>3, <1>4, NaturalsIn
<1>6. \E g : g = [n \in 0 .. m |-> IF n = 0 THEN Unread ELSE file_line(g[n - 1], lines[n])]
  BY <1>1, <1>5, Zenon DEF FileRead
<1>7. lines_read(lines) = CHOOSE g : g = [n \in 0 .. Len(lines) |-> IF n = 0 THEN Unread ELSE file_line(g[n - 1], lines[n])]
  BY DEF lines_read
<1>8. PICK w : w = lines_read(lines)
  OBVIOUS
<1>9. w = [n \in 0 .. m |-> IF n = 0 THEN Unread ELSE file_line(w[n - 1], lines[n])]
  BY <1>6, <1>7, <1>8
<1>10. w[0] = Unread /\ \A n \in 1 .. m : w[n] = file_line(w[n - 1], lines[n])
  <2>1. w[0] = Unread
    BY <1>9
  <2>2. ASSUME NEW n \in 1 .. m PROVE w[n] = file_line(w[n - 1], lines[n])
    <3>1. n \in 0 .. m /\ n # 0
      OBVIOUS
    <3> QED BY <1>9, <3>1
  <2> QED BY <2>1, <2>2
<1> QED BY <1>8, <1>10

LEMMA AllFlagsRead ==
  ASSUME NEW flags, NEW m \in Nat, Len(flags) = m
  PROVE  /\ flags_read(flags)[0] = Unread
         /\ \A n \in 1 .. m : flags_read(flags)[n] = flag(flags_read(flags)[n - 1], flags[n])
<1>1. PICK S : S = {n \in Nat : \E g : FlagsRead(flags, n, g)}
  OBVIOUS
<1>2. 0 \in S
  <2>1. PICK g : g = [n \in 0 .. 0 |-> Unread]
    OBVIOUS
  <2>2. g = [n \in 0 .. 0 |-> IF n = 0 THEN Unread ELSE flag(g[n - 1], flags[n])]
    BY <2>1
  <2> QED BY <1>1, <2>2 DEF FlagsRead
<1>3. \A n \in S : n + 1 \in S
  BY <1>1, FlagsReadMore
<1>4. S \subseteq Nat
  BY <1>1
<1>5. m \in S
  BY ONLY m \in Nat, <1>2, <1>3, <1>4, NaturalsIn
<1>6. \E g : g = [n \in 0 .. m |-> IF n = 0 THEN Unread ELSE flag(g[n - 1], flags[n])]
  BY <1>1, <1>5, Zenon DEF FlagsRead
<1>7. flags_read(flags) = CHOOSE g : g = [n \in 0 .. Len(flags) |-> IF n = 0 THEN Unread ELSE flag(g[n - 1], flags[n])]
  BY DEF flags_read
<1>8. PICK w : w = flags_read(flags)
  OBVIOUS
<1>9. w = [n \in 0 .. m |-> IF n = 0 THEN Unread ELSE flag(w[n - 1], flags[n])]
  BY <1>6, <1>7, <1>8
<1>10. w[0] = Unread /\ \A n \in 1 .. m : w[n] = flag(w[n - 1], flags[n])
  <2>1. w[0] = Unread
    BY <1>9
  <2>2. ASSUME NEW n \in 1 .. m PROVE w[n] = flag(w[n - 1], flags[n])
    <3>1. n \in 0 .. m /\ n # 0
      OBVIOUS
    <3> QED BY <1>9, <3>1
  <2> QED BY <2>1, <2>2
<1> QED BY <1>8, <1>10

\* Raw has for key k what the last of the items at P gives it.
LastOf(raw, k, P, items) ==
  IF P = {} THEN k \notin DOMAIN raw
  ELSE k \in DOMAIN raw /\ \E j \in P : raw[k] = items[j].value /\ \A i \in P : i <= j

Joined(P, n, key, k, v) == IF key = k /\ v # Blank THEN P \cup {n + 1} ELSE P

LEMMA SetLast ==
  ASSUME NEW raw, NEW k, NEW n \in Nat, NEW P, P \subseteq 1 .. n, NEW items, LastOf(raw, k, P, items),
         NEW key, NEW v, v = items[n + 1].value, NEW raw2, raw2 = set(raw, key, v),
         NEW P2, P2 = Joined(P, n, key, k, v)
  PROVE  LastOf(raw2, k, P2, items)
<1>1. CASE v = Blank
  BY <1>1 DEF set, Joined
<1>2. CASE v # Blank /\ key # k
  <2>1. raw2 = [j \in DOMAIN raw \cup {key} |-> IF j = key THEN v ELSE raw[j]] /\ P2 = P
    BY <1>2 DEF set, Joined
  <2>2. (k \in DOMAIN raw2 <=> k \in DOMAIN raw) /\ (k \in DOMAIN raw => raw2[k] = raw[k])
    BY <1>2, <2>1
  <2> QED BY <2>1, <2>2 DEF LastOf
<1>3. CASE v # Blank /\ key = k
  <2>1. raw2 = [j \in DOMAIN raw \cup {key} |-> IF j = key THEN v ELSE raw[j]] /\ P2 = P \cup {n + 1}
    BY <1>3 DEF set, Joined
  <2>2. k \in DOMAIN raw2 /\ raw2[k] = items[n + 1].value
    BY <1>3, <2>1
  <2>3. P2 # {} /\ n + 1 \in P2
    BY <2>1
  <2>4. \A i \in P2 : i <= n + 1
    BY <2>1
  <2> QED BY <2>2, <2>3, <2>4 DEF LastOf
<1> QED BY <1>1, <1>2, <1>3

\* The lines that set key k, and the flags.
FileSets(lines, n, k) ==
  {j \in 1 .. n : /\ lines[j].kind = "setting" /\ lines[j].value # Blank
                  /\ canonical_in(SectionAt(lines, j), lines[j].name) = k}
FlagSets(flags, n, k) == {j \in 1 .. n : flags[j].name = k /\ flags[j].value # Blank}

AccOK(acc) == DOMAIN acc = {"section", "raw", "refused"} /\ acc.refused \in BOOLEAN

FileKnown(lines, n, acc) ==
  /\ AccOK(acc)
  /\ ~acc.refused => /\ acc.section = SectionAt(lines, n)
                     /\ \A k \in KEYS : LastOf(acc.raw, k, FileSets(lines, n, k), lines)

FlagsKnown(flags, n, acc) ==
  /\ AccOK(acc)
  /\ ~acc.refused => \A k \in KEYS : LastOf(acc.raw, k, FlagSets(flags, n, k), flags)

LEMMA SectionStep ==
  ASSUME NEW lines, NEW n \in Nat
  PROVE  SectionAt(lines, n + 1) = IF lines[n + 1].kind = "section" THEN lines[n + 1].name ELSE SectionAt(lines, n)
<1>1. PICK H : H = Headers(lines, n)
  OBVIOUS
<1>2. PICK H2 : H2 = Headers(lines, n + 1)
  OBVIOUS
<1>3. /\ SectionAt(lines, n) = IF H = {} THEN <<>> ELSE lines[CHOOSE k \in H : H \subseteq 1 .. k].name
      /\ SectionAt(lines, n + 1) = IF H2 = {} THEN <<>> ELSE lines[CHOOSE k \in H2 : H2 \subseteq 1 .. k].name
  BY <1>1, <1>2 DEF SectionAt
<1>4. CASE lines[n + 1].kind = "section"
  <2>1. n + 1 \in H2 /\ H2 \subseteq 1 .. n + 1 /\ H2 # {}
    BY <1>2, <1>4 DEF Headers
  <2>2. PICK c : c = CHOOSE k \in H2 : H2 \subseteq 1 .. k
    OBVIOUS
  <2>3. c \in H2 /\ H2 \subseteq 1 .. c
    BY <2>1, <2>2
  <2>4. c \in 1 .. n + 1 /\ n + 1 \in 1 .. c
    BY <2>1, <2>3
  <2>5. c = n + 1
    BY <2>4
  <2> QED BY <1>3, <1>4, <2>1, <2>2, <2>5
<1>5. CASE lines[n + 1].kind # "section"
  <2>1. H2 = H
    BY <1>1, <1>2, <1>5 DEF Headers
  <2> QED BY <1>3, <1>5, <2>1
<1> QED BY <1>4, <1>5

LEMMA FileSetsStep ==
  ASSUME NEW lines, NEW n \in Nat, NEW k
  PROVE  FileSets(lines, n + 1, k) =
           IF /\ lines[n + 1].kind = "setting" /\ lines[n + 1].value # Blank
              /\ canonical_in(SectionAt(lines, n + 1), lines[n + 1].name) = k
           THEN FileSets(lines, n, k) \cup {n + 1} ELSE FileSets(lines, n, k)
<1>1. 1 .. n + 1 = (1 .. n) \cup {n + 1}
  OBVIOUS
<1> QED BY <1>1, Zenon DEF FileSets

LEMMA FlagSetsStep ==
  ASSUME NEW flags, NEW n \in Nat, NEW k
  PROVE  FlagSets(flags, n + 1, k) =
           IF flags[n + 1].name = k /\ flags[n + 1].value # Blank
           THEN FlagSets(flags, n, k) \cup {n + 1} ELSE FlagSets(flags, n, k)
<1>1. 1 .. n + 1 = (1 .. n) \cup {n + 1}
  OBVIOUS
<1> QED BY <1>1, Zenon DEF FlagSets

LEMMA CanonicalKnown ==
  ASSUME NEW section, NEW name, canonical_in(section, name) # <<>>
  PROVE  canonical_in(section, name) \in KEYS
  BY DEF canonical_in

LEMMA FileLineKnown ==
  ASSUME NEW lines, NEW n \in Nat, NEW acc, FileKnown(lines, n, acc),
         lines[n + 1].kind \in {"section", "malformed", "setting"},
         NEW acc2, acc2 = file_line(acc, lines[n + 1])
  PROVE  FileKnown(lines, n + 1, acc2)
<1>1. AccOK(acc)
  BY DEF FileKnown
<1>2. PICK l : l = lines[n + 1]
  OBVIOUS
<1>3. CASE acc.refused
  <2>1. acc2 = acc
    BY <1>3 DEF file_line
  <2> QED BY <1>1, <1>3, <2>1 DEF FileKnown
<1>4. ASSUME ~acc.refused PROVE /\ acc.section = SectionAt(lines, n)
                                /\ \A k \in KEYS : LastOf(acc.raw, k, FileSets(lines, n, k), lines)
  BY <1>4 DEF FileKnown
<1>5. CASE ~acc.refused /\ l.kind = "section"
  <2>1. acc2 = [acc EXCEPT !.section = l.name]
    BY <1>2, <1>5 DEF file_line
  <2>2. AccOK(acc2) /\ acc2.section = l.name /\ acc2.raw = acc.raw
    BY <1>1, <2>1 DEF AccOK
  <2>3. acc2.section = SectionAt(lines, n + 1)
    BY <1>2, <1>5, <2>2, SectionStep
  <2>4. \A k \in KEYS : FileSets(lines, n + 1, k) = FileSets(lines, n, k)
    BY <1>2, <1>5, FileSetsStep
  <2> QED BY <1>4, <1>5, <2>2, <2>3, <2>4 DEF FileKnown
<1>6. PICK key : key = canonical_in(acc.section, l.name)
  OBVIOUS
<1>7. CASE ~acc.refused /\ l.kind # "section" /\ (l.kind = "malformed" \/ key = <<>>)
  <2>1. acc2 = [acc EXCEPT !.refused = TRUE]
    BY <1>2, <1>6, <1>7 DEF file_line
  <2>2. DOMAIN acc2 = {"section", "raw", "refused"} /\ acc2.refused = TRUE
    BY <1>1, <2>1 DEF AccOK
  <2>3. acc2.refused \in BOOLEAN
    BY <2>2, Zenon
  <2> QED BY <2>2, <2>3, Zenon DEF FileKnown, AccOK
<1>8. CASE ~acc.refused /\ l.kind = "setting" /\ key # <<>>
  <2>1. PICK raw2 : raw2 = set(acc.raw, key, l.value)
    OBVIOUS
  <2>2. acc2 = [acc EXCEPT !.raw = raw2]
    BY <1>1, <1>2, <1>6, <1>8, <2>1 DEF file_line, AccOK
  <2>3. AccOK(acc2) /\ acc2.section = acc.section /\ acc2.raw = raw2
    BY <1>1, <2>2 DEF AccOK
  <2>4. SectionAt(lines, n + 1) = SectionAt(lines, n)
    BY <1>2, <1>8, SectionStep
  <2>5. canonical_in(SectionAt(lines, n + 1), l.name) = key
    BY <1>4, <1>6, <1>8, <2>4
  <2>6. ASSUME NEW k \in KEYS PROVE LastOf(raw2, k, FileSets(lines, n + 1, k), lines)
    <3>1. PICK P : P = FileSets(lines, n, k)
      OBVIOUS
    <3>2. PICK P2 : P2 = FileSets(lines, n + 1, k)
      OBVIOUS
    <3>3. P2 = Joined(P, n, key, k, l.value)
      <4>1. P2 = IF lines[n + 1].kind = "setting" /\ lines[n + 1].value # Blank
                      /\ canonical_in(SectionAt(lines, n + 1), lines[n + 1].name) = k
                 THEN P \cup {n + 1} ELSE P
        BY <3>1, <3>2, FileSetsStep
      <4> QED BY <1>2, <1>8, <2>5, <4>1 DEF Joined
    <3>4. P \subseteq 1 .. n
      BY <3>1 DEF FileSets
    <3>5. LastOf(acc.raw, k, P, lines)
      BY <1>4, <1>8, <3>1
    <3>6. l.value = lines[n + 1].value
      BY <1>2
    <3>7. LastOf(raw2, k, P2, lines)
      BY ONLY n \in Nat, <2>1, <3>3, <3>4, <3>5, <3>6, SetLast
    <3> QED BY <3>2, <3>7
  <2> QED BY <1>4, <1>8, <2>3, <2>4, <2>6 DEF FileKnown
<1> QED BY <1>2, <1>3, <1>5, <1>7, <1>8

LEMMA FlagKnown ==
  ASSUME NEW flags, NEW n \in Nat, NEW acc, FlagsKnown(flags, n, acc), NEW acc2, acc2 = flag(acc, flags[n + 1])
  PROVE  FlagsKnown(flags, n + 1, acc2)
<1>1. AccOK(acc)
  BY DEF FlagsKnown
<1>2. PICK f : f = flags[n + 1]
  OBVIOUS
<1>3. CASE acc.refused \/ f.name \notin KEYS \/ f.value = Missing
  <2>1. acc2 = [acc EXCEPT !.refused = TRUE]
    BY <1>2, <1>3 DEF flag
  <2>2. DOMAIN acc2 = {"section", "raw", "refused"} /\ acc2.refused = TRUE
    BY <1>1, <2>1 DEF AccOK
  <2>3. acc2.refused \in BOOLEAN
    BY <2>2, Zenon
  <2> QED BY <2>2, <2>3, Zenon DEF FlagsKnown, AccOK
<1>4. CASE ~acc.refused /\ f.name \in KEYS /\ f.value # Missing
  <2>1. PICK raw2 : raw2 = set(acc.raw, f.name, f.value)
    OBVIOUS
  <2>2. acc2 = [acc EXCEPT !.raw = raw2]
    BY <1>1, <1>2, <1>4, <2>1 DEF flag, AccOK
  <2>3. AccOK(acc2) /\ acc2.raw = raw2
    BY <1>1, <2>2 DEF AccOK
  <2>4. ASSUME NEW k \in KEYS PROVE LastOf(raw2, k, FlagSets(flags, n + 1, k), flags)
    <3>1. PICK P : P = FlagSets(flags, n, k)
      OBVIOUS
    <3>2. PICK P2 : P2 = FlagSets(flags, n + 1, k)
      OBVIOUS
    <3>3. P2 = Joined(P, n, f.name, k, f.value)
      BY <1>2, <3>1, <3>2, FlagSetsStep DEF Joined
    <3>4. P \subseteq 1 .. n
      BY <3>1 DEF FlagSets
    <3>5. LastOf(acc.raw, k, P, flags)
      BY <1>4, <3>1 DEF FlagsKnown
    <3>6. f.value = flags[n + 1].value
      BY <1>2
    <3>7. LastOf(raw2, k, P2, flags)
      BY ONLY n \in Nat, <2>1, <3>3, <3>4, <3>5, <3>6, SetLast
    <3> QED BY <3>2, <3>7
  <2> QED BY <2>3, <2>4 DEF FlagsKnown
<1> QED BY <1>3, <1>4

LEMMA UnreadKnown ==
  ASSUME NEW items
  PROVE  FileKnown(items, 0, Unread) /\ FlagsKnown(items, 0, Unread)
<1>1. 1 .. 0 = {}
  OBVIOUS
<1>2. DOMAIN NoRaw = {}
  BY DEF NoRaw
<1>3. DOMAIN Unread = {"section", "raw", "refused"} /\ Unread.section = <<>> /\ Unread.raw = NoRaw /\ Unread.refused = FALSE
  BY DEF Unread
<1>4. Unread.refused \in BOOLEAN
  BY <1>3, Zenon
<1>5. SectionAt(items, 0) = <<>>
  <2>1. Headers(items, 0) = {}
    BY <1>1 DEF Headers
  <2> QED BY <2>1 DEF SectionAt
<1>6. \A k \in KEYS : FileSets(items, 0, k) = {} /\ FlagSets(items, 0, k) = {}
  BY <1>1 DEF FileSets, FlagSets
<1>7. \A k \in KEYS : /\ LastOf(Unread.raw, k, FileSets(items, 0, k), items)
                      /\ LastOf(Unread.raw, k, FlagSets(items, 0, k), items)
  BY <1>2, <1>3, <1>6 DEF LastOf
<1> QED BY <1>3, <1>4, <1>5, <1>7, Zenon DEF FileKnown, FlagsKnown, AccOK

LEMMA FileAllKnown ==
  ASSUME NEW lines, NEW m \in Nat, Len(lines) = m,
         \A n \in 1 .. m : lines[n].kind \in {"section", "malformed", "setting"}
  PROVE  FileKnown(lines, m, from_file(lines))
<1>1. PICK w : w = lines_read(lines)
  OBVIOUS
<1>2. w[0] = Unread /\ \A n \in 1 .. m : w[n] = file_line(w[n - 1], lines[n])
  BY <1>1, LinesRead
<1>3. PICK S : S = {n \in Nat : n <= m => FileKnown(lines, n, w[n])}
  OBVIOUS
<1>4. 0 \in S
  BY <1>2, <1>3, UnreadKnown
<1>5. \A n \in S : n + 1 \in S
  <2>1. SUFFICES ASSUME NEW n \in S, n + 1 <= m PROVE FileKnown(lines, n + 1, w[n + 1])
    BY <1>3
  <2>2. n \in Nat /\ n + 1 \in 1 .. m /\ (n + 1) - 1 = n
    BY <1>3, <2>1
  <2>3. FileKnown(lines, n, w[n])
    BY <1>3, <2>2
  <2>4. w[n + 1] = file_line(w[n], lines[n + 1]) /\ lines[n + 1].kind \in {"section", "malformed", "setting"}
    BY <1>2, <2>2
  <2> QED BY <2>2, <2>3, <2>4, FileLineKnown
<1>6. S \subseteq Nat
  BY <1>3
<1>7. m \in S
  BY ONLY m \in Nat, <1>4, <1>5, <1>6, NaturalsIn
<1>8. FileKnown(lines, m, w[m])
  BY <1>3, <1>7
<1> QED BY <1>1, <1>8 DEF from_file

LEMMA FlagsAllKnown ==
  ASSUME NEW flags, NEW m \in Nat, Len(flags) = m
  PROVE  FlagsKnown(flags, m, from_flags(flags))
<1>1. PICK w : w = flags_read(flags)
  OBVIOUS
<1>2. w[0] = Unread /\ \A n \in 1 .. m : w[n] = flag(w[n - 1], flags[n])
  BY <1>1, AllFlagsRead
<1>3. PICK S : S = {n \in Nat : n <= m => FlagsKnown(flags, n, w[n])}
  OBVIOUS
<1>4. 0 \in S
  BY <1>2, <1>3, UnreadKnown
<1>5. \A n \in S : n + 1 \in S
  <2>1. SUFFICES ASSUME NEW n \in S, n + 1 <= m PROVE FlagsKnown(flags, n + 1, w[n + 1])
    BY <1>3
  <2>2. n \in Nat /\ n + 1 \in 1 .. m /\ (n + 1) - 1 = n
    BY <1>3, <2>1
  <2>3. FlagsKnown(flags, n, w[n])
    BY <1>3, <2>2
  <2>4. w[n + 1] = flag(w[n], flags[n + 1])
    BY <1>2, <2>2
  <2> QED BY <2>2, <2>3, <2>4, FlagKnown
<1>6. S \subseteq Nat
  BY <1>3
<1>7. m \in S
  BY ONLY m \in Nat, <1>4, <1>5, <1>6, NaturalsIn
<1>8. FlagsKnown(flags, m, w[m])
  BY <1>3, <1>7
<1> QED BY <1>1, <1>8 DEF from_flags

\* What is in force is the value of a mention that none is behind.
LEMMA LastInForce ==
  ASSUME NEW S, NEW m \in S, \A n \in S : UpTo(n, m), NEW v, m[4] = v, \A n \in S : UpTo(m, n) => n[4] = v
  PROVE  InForce(S) = v
<1>1. PICK c : c = CHOOSE x \in S : \A n \in S : UpTo(n, x)
  OBVIOUS
<1>2. c \in S /\ \A n \in S : UpTo(n, c)
  BY <1>1
<1>3. c[4] = v
  BY <1>2
<1> QED BY <1>1, <1>3 DEF InForce

LinesOf(l) == IF config_path(l) = Missing THEN <<>> ELSE l.file

MentionsOf(l, k) == {m \in Mentions(l) : m[3] = k /\ m[4] # Blank}

LEMMA MentionIs ==
  ASSUME NEW l, NEW k, NEW lines, lines = LinesOf(l)
  PROVE  /\ \A n \in FileSets(lines, Len(lines), k) : <<1, n, k, lines[n].value>> \in MentionsOf(l, k)
         /\ k \in DOMAIN l.env /\ l.env[k] # Blank => <<2, 0, k, l.env[k]>> \in MentionsOf(l, k)
         /\ \A n \in FlagSets(l.flags, Len(l.flags), k) : <<3, n, k, l.flags[n].value>> \in MentionsOf(l, k)
         /\ \A m \in MentionsOf(l, k) :
              \/ \E n \in FileSets(lines, Len(lines), k) : m = <<1, n, k, lines[n].value>>
              \/ k \in DOMAIN l.env /\ l.env[k] # Blank /\ m = <<2, 0, k, l.env[k]>>
              \/ \E n \in FlagSets(l.flags, Len(l.flags), k) : m = <<3, n, k, l.flags[n].value>>
<1>1. PICK F : F = {<<1, n, canonical_in(SectionAt(lines, n), lines[n].name), lines[n].value>> :
                      n \in {n \in 1 .. Len(lines) : lines[n].kind = "setting"}}
  OBVIOUS
<1>2. PICK E : E = {<<2, 0, j, l.env[j]>> : j \in DOMAIN l.env}
  OBVIOUS
<1>3. PICK G : G = {<<3, n, l.flags[n].name, l.flags[n].value>> : n \in 1 .. Len(l.flags)}
  OBVIOUS
<1>4. Mentions(l) = F \cup E \cup G
  BY <1>1, <1>2, <1>3 DEF Mentions, LinesOf
<1>5. ASSUME NEW n \in FileSets(lines, Len(lines), k) PROVE <<1, n, k, lines[n].value>> \in MentionsOf(l, k)
  <2>1. /\ n \in 1 .. Len(lines) /\ lines[n].kind = "setting" /\ lines[n].value # Blank
        /\ canonical_in(SectionAt(lines, n), lines[n].name) = k
    BY DEF FileSets
  <2>2. <<1, n, k, lines[n].value>> \in F
    BY <1>1, <2>1
  <2> QED BY <1>4, <2>1, <2>2 DEF MentionsOf
<1>6. ASSUME k \in DOMAIN l.env, l.env[k] # Blank PROVE <<2, 0, k, l.env[k]>> \in MentionsOf(l, k)
  BY <1>2, <1>4, <1>6 DEF MentionsOf
<1>7. ASSUME NEW n \in FlagSets(l.flags, Len(l.flags), k) PROVE <<3, n, k, l.flags[n].value>> \in MentionsOf(l, k)
  <2>1. n \in 1 .. Len(l.flags) /\ l.flags[n].name = k /\ l.flags[n].value # Blank
    BY DEF FlagSets
  <2>2. <<3, n, k, l.flags[n].value>> \in G
    BY <1>3, <2>1
  <2> QED BY <1>4, <2>1, <2>2 DEF MentionsOf
<1>8. ASSUME NEW m \in MentionsOf(l, k)
      PROVE  \/ \E n \in FileSets(lines, Len(lines), k) : m = <<1, n, k, lines[n].value>>
             \/ k \in DOMAIN l.env /\ l.env[k] # Blank /\ m = <<2, 0, k, l.env[k]>>
             \/ \E n \in FlagSets(l.flags, Len(l.flags), k) : m = <<3, n, k, l.flags[n].value>>
  <2>1. m \in F \cup E \cup G /\ m[3] = k /\ m[4] # Blank
    BY <1>4 DEF MentionsOf
  <2>2. CASE m \in F
    <3>1. PICK n \in 1 .. Len(lines) : /\ lines[n].kind = "setting"
                                       /\ m = <<1, n, canonical_in(SectionAt(lines, n), lines[n].name), lines[n].value>>
      BY <1>1, <2>2
    <3>2. canonical_in(SectionAt(lines, n), lines[n].name) = k /\ lines[n].value # Blank
      BY <2>1, <3>1
    <3>3. n \in FileSets(lines, Len(lines), k)
      BY <3>1, <3>2 DEF FileSets
    <3> QED BY <3>1, <3>2, <3>3
  <2>3. CASE m \in E
    <3>1. PICK j \in DOMAIN l.env : m = <<2, 0, j, l.env[j]>>
      BY <1>2, <2>3
    <3>2. j = k /\ l.env[j] # Blank
      BY <2>1, <3>1
    <3> QED BY <3>1, <3>2
  <2>4. CASE m \in G
    <3>1. PICK n \in 1 .. Len(l.flags) : m = <<3, n, l.flags[n].name, l.flags[n].value>>
      BY <1>3, <2>4
    <3>2. l.flags[n].name = k /\ l.flags[n].value # Blank
      BY <2>1, <3>1
    <3>3. n \in FlagSets(l.flags, Len(l.flags), k)
      BY <3>1, <3>2 DEF FlagSets
    <3> QED BY <3>1, <3>2, <3>3
  <2> QED BY <2>1, <2>2, <2>3, <2>4
<1> QED BY <1>5, <1>6, <1>7, <1>8

LEMMA LinesAre ==
  ASSUME NEW l \in Launches, NEW lines, lines = LinesOf(l)
  PROVE  Len(lines) \in Nat /\ Len(l.flags) \in Nat /\ \A n \in 1 .. Len(lines) : lines[n].kind \in {"section", "malformed", "setting"}
<1>1. CASE config_path(l) = Missing
  <2>1. lines = <<>> /\ Len(lines) = 0
    BY <1>1 DEF LinesOf
  <2> QED BY <2>1, StartupAssumption
<1>2. CASE config_path(l) # Missing
  BY <1>2, StartupAssumption DEF LinesOf
<1> QED BY <1>1, <1>2

LEMMA LayeredInForce ==
  ASSUME NEW l \in Launches, NEW lines, lines = LinesOf(l), NEW file, file = from_file(lines), ~file.refused,
         NEW fl, fl = from_flags(l.flags), ~fl.refused,
         NEW raw, raw = layered(file.raw, from_env(l.env), fl.raw), NEW k \in KEYS
  PROVE  value(raw, k) = InForce(MentionsOf(l, k))
<1>1. PICK N \in Nat : N = Len(lines)
  BY LinesAre
<1>2. PICK M \in Nat : M = Len(l.flags)
  BY LinesAre
<1>3. PICK flags : flags = l.flags
  OBVIOUS
<1>4. PICK env : env = l.env
  OBVIOUS
<1>5. PICK P : P = FileSets(lines, N, k)
  OBVIOUS
<1>6. PICK Q : Q = FlagSets(flags, M, k)
  OBVIOUS
<1>7. LastOf(file.raw, k, P, lines)
  <2>1. \A n \in 1 .. N : lines[n].kind \in {"section", "malformed", "setting"}
    BY <1>1, LinesAre
  <2>2. FileKnown(lines, N, file)
    BY <1>1, <2>1, FileAllKnown
  <2> QED BY <1>5, <2>2 DEF FileKnown
<1>8. LastOf(fl.raw, k, Q, flags)
  <2>1. FlagsKnown(flags, M, fl)
    BY <1>2, <1>3, FlagsAllKnown
  <2> QED BY <1>6, <2>1 DEF FlagsKnown
<1>9. P \subseteq 1 .. N /\ Q \subseteq 1 .. M
  BY <1>5, <1>6 DEF FileSets, FlagSets
<1>10. PICK O : O = MentionsOf(l, k)
  OBVIOUS
<1>11. /\ \A n \in P : <<1, n, k, lines[n].value>> \in O
       /\ k \in DOMAIN env /\ env[k] # Blank => <<2, 0, k, env[k]>> \in O
       /\ \A n \in Q : <<3, n, k, flags[n].value>> \in O
       /\ \A m \in O : \/ \E n \in P : m = <<1, n, k, lines[n].value>>
                       \/ k \in DOMAIN env /\ env[k] # Blank /\ m = <<2, 0, k, env[k]>>
                       \/ \E n \in Q : m = <<3, n, k, flags[n].value>>
  BY <1>1, <1>2, <1>3, <1>4, <1>5, <1>6, <1>10, MentionIs
<1>12. PICK er : er = from_env(env)
  OBVIOUS
<1>13. /\ k \in DOMAIN er <=> k \in DOMAIN env /\ env[k] # Blank
       /\ k \in DOMAIN er => er[k] = env[k]
  BY <1>12 DEF from_env
<1>14. /\ k \in DOMAIN fl.raw => k \in DOMAIN raw /\ raw[k] = fl.raw[k]
       /\ k \notin DOMAIN fl.raw /\ k \in DOMAIN er => k \in DOMAIN raw /\ raw[k] = er[k]
       /\ k \notin DOMAIN fl.raw /\ k \notin DOMAIN er /\ k \in DOMAIN file.raw => k \in DOMAIN raw /\ raw[k] = file.raw[k]
       /\ k \notin DOMAIN fl.raw /\ k \notin DOMAIN er /\ k \notin DOMAIN file.raw => k \notin DOMAIN raw
  BY <1>4, <1>12 DEF layered, over
<1>15. CASE Q # {}
  <2>1. PICK j \in Q : fl.raw[k] = flags[j].value /\ \A i \in Q : i <= j
    BY <1>8, <1>15 DEF LastOf
  <2>2. PICK v : v = flags[j].value
    OBVIOUS
  <2>3. value(raw, k) = v
    BY <1>8, <1>14, <1>15, <2>1, <2>2 DEF LastOf, value
  <2>4. PICK m : m = <<3, j, k, v>>
    OBVIOUS
  <2>5. m \in O /\ m[4] = v /\ m[1] = 3 /\ m[2] = j /\ j \in Nat
    BY <1>9, <1>11, <2>2, <2>4
  <2>6. ASSUME NEW n \in O PROVE UpTo(n, m) /\ (UpTo(m, n) => n[4] = v)
    <3>1. CASE \E i \in P : n = <<1, i, k, lines[i].value>>
      <4>1. n[1] = 1
        BY <3>1
      <4> QED BY <2>5, <4>1 DEF UpTo
    <3>2. CASE n = <<2, 0, k, env[k]>>
      <4>1. n[1] = 2
        BY <3>2
      <4> QED BY <2>5, <4>1 DEF UpTo
    <3>3. CASE \E i \in Q : n = <<3, i, k, flags[i].value>>
      <4>1. PICK i \in Q : n = <<3, i, k, flags[i].value>>
        BY <3>3
      <4>2. n[1] = 3 /\ n[2] = i /\ n[4] = flags[i].value /\ i <= j /\ i \in Nat
        <5>1. n[1] = 3 /\ n[2] = i /\ n[4] = flags[i].value
          BY ONLY <4>1
        <5>2. i <= j
          BY <2>1
        <5>3. i \in Nat
          BY <1>9
        <5> QED BY <5>1, <5>2, <5>3
      <4>3. UpTo(n, m)
        BY <2>5, <4>2 DEF UpTo
      <4>4. UpTo(m, n) => j <= i
        BY <2>5, <4>2 DEF UpTo
      <4>5. UpTo(m, n) => i = j
        BY <2>5, <4>2, <4>4
      <4> QED BY <2>2, <4>2, <4>3, <4>5
    <3> QED BY <1>11, <3>1, <3>2, <3>3
  <2>7. InForce(O) = v
    BY <2>5, <2>6, LastInForce
  <2> QED BY <1>10, <2>3, <2>7
<1>16. CASE Q = {} /\ k \in DOMAIN er
  <2>1. PICK v : v = env[k]
    OBVIOUS
  <2>2. value(raw, k) = v
    BY <1>8, <1>13, <1>14, <1>16, <2>1 DEF LastOf, value
  <2>3. PICK m : m = <<2, 0, k, v>>
    OBVIOUS
  <2>4. m \in O /\ m[4] = v /\ m[1] = 2 /\ m[2] = 0
    BY <1>11, <1>13, <1>16, <2>1, <2>3
  <2>5. ASSUME NEW n \in O PROVE UpTo(n, m) /\ (UpTo(m, n) => n[4] = v)
    <3>1. CASE \E i \in P : n = <<1, i, k, lines[i].value>>
      <4>1. n[1] = 1
        BY <3>1
      <4> QED BY <2>4, <4>1 DEF UpTo
    <3>2. CASE n = <<2, 0, k, env[k]>>
      <4>1. n[1] = 2 /\ n[2] = 0 /\ n[4] = v
        BY <2>1, <3>2
      <4> QED BY <2>4, <4>1 DEF UpTo
    <3> QED BY <1>11, <1>16, <3>1, <3>2
  <2>6. InForce(O) = v
    BY <2>4, <2>5, LastInForce
  <2> QED BY <1>10, <2>2, <2>6
<1>17. CASE Q = {} /\ k \notin DOMAIN er /\ P # {}
  <2>1. PICK j \in P : file.raw[k] = lines[j].value /\ \A i \in P : i <= j
    BY <1>7, <1>17 DEF LastOf
  <2>2. PICK v : v = lines[j].value
    OBVIOUS
  <2>3. value(raw, k) = v
    BY <1>7, <1>8, <1>14, <1>17, <2>1, <2>2 DEF LastOf, value
  <2>4. PICK m : m = <<1, j, k, v>>
    OBVIOUS
  <2>5. m \in O /\ m[4] = v /\ m[1] = 1 /\ m[2] = j /\ j \in Nat
    BY <1>9, <1>11, <2>2, <2>4
  <2>6. ASSUME NEW n \in O PROVE UpTo(n, m) /\ (UpTo(m, n) => n[4] = v)
    <3>1. PICK i \in P : n = <<1, i, k, lines[i].value>>
      BY <1>11, <1>13, <1>17
    <3>2. n[1] = 1 /\ n[2] = i /\ n[4] = lines[i].value /\ i <= j /\ i \in Nat
      <4>1. n[1] = 1 /\ n[2] = i /\ n[4] = lines[i].value
        BY ONLY <3>1
      <4>2. i <= j
        BY <2>1
      <4>3. i \in Nat
        BY <1>9
      <4> QED BY <4>1, <4>2, <4>3
    <3>3. UpTo(n, m)
      BY <2>5, <3>2 DEF UpTo
    <3>4. UpTo(m, n) => j <= i
      BY <2>5, <3>2 DEF UpTo
    <3>5. UpTo(m, n) => i = j
      BY <2>5, <3>2, <3>4
    <3> QED BY <2>2, <3>2, <3>3, <3>5
  <2>7. InForce(O) = v
    BY <2>5, <2>6, LastInForce
  <2> QED BY <1>10, <2>3, <2>7
<1>18. CASE Q = {} /\ k \notin DOMAIN er /\ P = {}
  <2>1. O = {}
    BY <1>11, <1>13, <1>18
  <2>2. value(raw, k) = Missing
    BY <1>7, <1>8, <1>14, <1>18 DEF LastOf, value
  <2> QED BY <1>10, <2>1, <2>2 DEF InForce
<1> QED BY <1>15, <1>16, <1>17, <1>18

\* A start knows its launch, and past its loading has what is in force in it.
LoadedInv ==
  /\ DOMAIN boot = {"pc", "launch", "raw", "cfg", "on"}
  /\ boot.launch \in Launches
  /\ boot.cfg # Missing => \A k \in KEYS : value(boot.raw, k) = InForce(MentionsOf(boot.launch, k))

LEMMA LoadedInit == StartupInit => LoadedInv
  BY DEF StartupInit, Begin, LoadedInv

\* No step after the loading touches what was loaded.
LEMMA LoadedKept ==
  ASSUME LoadedInv, DOMAIN boot' = DOMAIN boot, boot'.launch = boot.launch, boot'.raw = boot.raw, boot'.cfg = boot.cfg
  PROVE  LoadedInv'
  BY DEF LoadedInv

LEMMA LoadedStep == LoadedInv /\ [StartupNext]_boot => LoadedInv'
<1> SUFFICES ASSUME LoadedInv, [StartupNext]_boot PROVE LoadedInv'
  OBVIOUS
<1>1. ASSUME refuse PROVE LoadedInv'
  BY <1>1, LoadedKept DEF LoadedInv, refuse
<1>2. ASSUME NEW pc, NEW on, to(pc, on) PROVE LoadedInv'
  BY <1>2, LoadedKept DEF LoadedInv, to
<1>3. CASE load_config
  <2>1. PICK l \in Launches : l = boot.launch
    BY DEF LoadedInv
  <2>2. PICK lines : lines = LinesOf(l)
    OBVIOUS
  <2>3. PICK file : file = from_file(lines)
    OBVIOUS
  <2>4. PICK fl : fl = from_flags(l.flags)
    OBVIOUS
  <2>5. PICK raw : raw = layered(file.raw, from_env(l.env), fl.raw)
    OBVIOUS
  <2>6. \/ refuse
        \/ ~file.refused /\ ~fl.refused /\ boot' = [boot EXCEPT !.pc = "upstream", !.raw = raw, !.cfg = resolve_config(raw)]
    BY <1>3, <2>1, <2>2, <2>3, <2>4, <2>5 DEF load_config, LinesOf
  <2>7. CASE ~file.refused /\ ~fl.refused /\ boot' = [boot EXCEPT !.pc = "upstream", !.raw = raw, !.cfg = resolve_config(raw)]
    <3>1. DOMAIN boot' = DOMAIN boot /\ boot'.launch = l /\ boot'.raw = raw
      BY <2>1, <2>7 DEF LoadedInv
    <3>2. \A k \in KEYS : value(raw, k) = InForce(MentionsOf(l, k))
      BY <2>2, <2>3, <2>4, <2>5, <2>7, LayeredInForce
    <3> QED BY <3>1, <3>2 DEF LoadedInv
  <2> QED BY <1>1, <2>6, <2>7
<1>4. CASE load_upstream_tls
  BY <1>1, <1>2, <1>4 DEF load_upstream_tls
<1>5. CASE directive_store
  BY <1>1, <1>2, <1>5 DEF directive_store
<1>6. CASE assemble_pipeline
  BY <1>1, <1>2, <1>6 DEF assemble_pipeline
<1>7. CASE fanout_attach
  BY <1>1, <1>2, <1>7 DEF fanout_attach
<1>8. CASE capture_attach
  BY <1>1, <1>2, <1>8 DEF capture_attach
<1>9. CASE bind
  BY <1>1, <1>2, <1>9 DEF bind
<1>10. CASE load_tls_provider
  BY <1>1, <1>2, <1>10 DEF load_tls_provider
<1>11. CASE spawn_grpc
  BY <1>1, <1>2, <1>11 DEF spawn_grpc
<1>12. CASE serve
  BY <1>1, <1>2, <1>12 DEF serve
<1>13. CASE UNCHANGED boot
  BY <1>13 DEF LoadedInv
<1> QED BY <1>3, <1>4, <1>5, <1>6, <1>7, <1>8, <1>9, <1>10, <1>11, <1>12, <1>13 DEF StartupNext

LEMMA LoadedPrecedence == LoadedInv => Precedence
<1> SUFFICES ASSUME LoadedInv PROVE Precedence
  OBVIOUS
<1>1. ASSUME boot.cfg # Missing, NEW k \in KEYS
      PROVE  value(boot.raw, k) = InForce({m \in Mentions(boot.launch) : m[3] = k /\ m[4] # Blank})
  BY <1>1 DEF LoadedInv, MentionsOf
<1> QED BY <1>1 DEF Precedence

\* For any file, environment and flags: an instance that has read its
\* configuration has, for every setting, the value that the last mention of it
\* in the highest layer gives, an empty one counting for nothing
\* (Config::load, Raw::layered); and one that serves has every part it was
\* asked for.
THEOREM StartupAsAsked == StartupSpec => []StartsAsAsked
  BY BootInitInv, BootNextInv, BootWhole, LoadedInit, LoadedStep, LoadedPrecedence, PTL DEF StartupSpec, StartsAsAsked
=============================================================================
