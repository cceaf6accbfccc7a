--------------------------- MODULE DeliveryProofs ---------------------------
(***************************************************************************)
(* Proofs about what an instance hands to the broker, for any number of     *)
(* exchanges, writes and records, any bound on deliveries and attempts and  *)
(* any number of restarts and faults.                                       *)
(*                                                                          *)
(* Fanout: capture leaks neither permits nor credentials, and a write       *)
(* reported as accepted is in the topic and, under an op id of the client's *)
(* own, applied once.                                                       *)
(*                                                                          *)
(* KafkaWal: the broker sees only what produce() took; what it took is not  *)
(* lost, and the buffer implements DurableQueue, until a fault tears the    *)
(* log or a tail that is not delivered yet is compacted.                    *)
(***************************************************************************)
EXTENDS Fanout, KafkaWal, FiniteSetTheorems, WellFoundedInduction, SequenceTheorems, TLAPS

-----------------------------------------------------------------------------
(* The inductive invariant. *)

InstOK == inst \in [setup : Setups, permits : Nat, seq : Nat, restarts : Nat]

DeliveryStates == {"none", "sending", "sleeping", "delivered", "given_up", "dropped", "lost"}

\* A delivery has its shape, and with redaction on has no credentials from the start.
DeliveryOK(d) ==
  /\ d = [pc |-> d.pc, attempt |-> d.attempt, backoff |-> d.backoff, headers |-> d.headers]
  /\ d.pc \in DeliveryStates
  /\ inst.setup.redact => "authorization" \notin Range(d.headers)

CapOK ==
  /\ cap = [e \in Exchanges |-> cap[e]]
  /\ \A e \in Exchanges : DeliveryOK(cap[e])

CapturedOK == captured \in Seq({captured[k] : k \in DOMAIN captured})

\* As many permits are out as deliveries run, which are finitely many.
PermitsInv == IsFiniteSet(InFlight) /\ PermitsExact

CaptureInv == InstOK /\ CapOK /\ CapturedOK /\ CaptureRedacted /\ PermitsInv

-----------------------------------------------------------------------------
(* Capture. *)

LEMMA SetupTypes ==
  ASSUME InstOK
  PROVE  /\ inst.setup \in Setups /\ inst.permits \in Nat /\ inst.seq \in Nat /\ inst.restarts \in Nat
         /\ inst = [setup |-> inst.setup, permits |-> inst.permits, seq |-> inst.seq, restarts |-> inst.restarts]
         /\ inst.setup.redact \in BOOLEAN /\ inst.setup.queue \in BOOLEAN
  BY FanoutAssumption DEF InstOK

\* Filtered headers have no credentials, however often the client sent them.
LEMMA Filtered ==
  ASSUME NEW headers
  PROVE  "authorization" \notin Range(without_authorization(headers))
  BY DEF without_authorization, Range

LEMMA EnvelopeRedacted ==
  ASSUME NEW headers, inst.setup.redact
  PROVE  "authorization" \notin Range(envelope_headers(headers))
  BY Filtered DEF envelope_headers

LEMMA CaptureInitInv == FanoutInit => CaptureInv
<1> SUFFICES ASSUME NEW s \in Setups, FanoutStart(s) PROVE CaptureInv
  BY DEF FanoutInit
<1>1. InstOK
  BY FanoutAssumption DEF FanoutStart, InstOK
<1>2. Range(<<>>) = {}
  BY DEF Range
<1>3. CapOK
  BY <1>2 DEF FanoutStart, CapOK, DeliveryOK, NoDelivery, DeliveryStates
<1>4. CapturedOK /\ CaptureRedacted
  BY DEF FanoutStart, CapturedOK, CaptureRedacted
<1>5. InFlight = {}
  BY DEF FanoutStart, InFlight, NoDelivery
<1>6. PermitsInv
  BY <1>5, FS_EmptySet, FanoutAssumption DEF PermitsInv, PermitsExact, FanoutStart
<1> QED BY <1>1, <1>3, <1>4, <1>6 DEF CaptureInv

\* One delivery changes, and the permits with it.
LEMMA DeliveryStep ==
  ASSUME CaptureInv, NEW e \in Exchanges, NEW d, DeliveryOK(d), NEW n \in Nat,
         cap' = [cap EXCEPT ![e] = d],
         inst' = [inst EXCEPT !.permits = n],
         n + (IF d.pc \in {"sending", "sleeping"} THEN 1 ELSE 0)
           = inst.permits + (IF cap[e].pc \in {"sending", "sleeping"} THEN 1 ELSE 0)
  PROVE  InstOK' /\ CapOK' /\ PermitsInv'
<1>1. /\ inst' = [setup |-> inst.setup, permits |-> n, seq |-> inst.seq, restarts |-> inst.restarts]
      /\ inst'.setup = inst.setup /\ inst'.permits = n /\ InstOK'
  BY SetupTypes DEF CaptureInv, InstOK
<1>2. /\ \A f \in Exchanges : cap'[f] = IF f = e THEN d ELSE cap[f]
      /\ cap' = [f \in Exchanges |-> cap'[f]]
  BY DEF CaptureInv, CapOK
<1>3. CapOK'
  BY <1>1, <1>2 DEF CaptureInv, CapOK, DeliveryOK
<1>4. InFlight' = IF d.pc \in {"sending", "sleeping"} THEN InFlight \cup {e} ELSE InFlight \ {e}
  BY <1>2 DEF InFlight
<1>5. /\ IsFiniteSet(InFlight) /\ Cardinality(InFlight) \in Nat /\ inst.permits \in Nat
      /\ inst.permits + Cardinality(InFlight) = MaxInflight
      /\ (e \in InFlight) <=> cap[e].pc \in {"sending", "sleeping"}
  BY FS_CardinalityType, SetupTypes DEF CaptureInv, PermitsInv, PermitsExact, InFlight
<1>6. CASE d.pc \in {"sending", "sleeping"}
  <2>1. /\ IsFiniteSet(InFlight')
        /\ Cardinality(InFlight') = IF e \in InFlight THEN Cardinality(InFlight) ELSE Cardinality(InFlight) + 1
    BY <1>4, <1>5, <1>6, FS_AddElement
  <2> QED BY <1>1, <1>3, <1>5, <1>6, <2>1 DEF PermitsInv, PermitsExact
<1>7. CASE d.pc \notin {"sending", "sleeping"}
  <2>1. /\ IsFiniteSet(InFlight')
        /\ Cardinality(InFlight') = IF e \in InFlight THEN Cardinality(InFlight) - 1 ELSE Cardinality(InFlight)
    BY <1>4, <1>5, <1>7, FS_RemoveElement
  <2> QED BY <1>1, <1>3, <1>5, <1>7, <2>1 DEF PermitsInv, PermitsExact
<1> QED BY <1>6, <1>7

LEMMA CaptureStep ==
  ASSUME CaptureInv, NEW e \in Exchanges, NEW headers, capture(e, headers)
  PROVE  CaptureInv'
<1>1. /\ DeliveryOK(cap[e]) /\ cap[e].pc = "none" /\ UNCHANGED captured
      /\ inst = [inst EXCEPT !.permits = inst.permits] /\ inst.permits \in Nat
  BY SetupTypes DEF CaptureInv, CapOK, capture
<1>2. InstOK' /\ CapOK' /\ PermitsInv' /\ inst'.setup = inst.setup
  <2>1. CASE inst.permits = 0
    <3>1. PICK d : d = [cap[e] EXCEPT !.pc = "dropped"]
      OBVIOUS
    <3>2. DeliveryOK(d) /\ d.pc = "dropped"
      BY <1>1, <3>1 DEF DeliveryOK, DeliveryStates
    <3>3. cap' = [cap EXCEPT ![e] = d] /\ inst' = [inst EXCEPT !.permits = inst.permits] /\ inst' = inst
      BY <1>1, <2>1, <3>1 DEF capture, spawn
    <3> QED BY <1>1, <3>2, <3>3, DeliveryStep
  <2>2. CASE inst.permits # 0
    <3>1. PICK d : d = [pc |-> "sending", attempt |-> 1, backoff |-> 1, headers |-> envelope_headers(headers)]
      OBVIOUS
    <3>2. DeliveryOK(d) /\ d.pc = "sending"
      BY <3>1, EnvelopeRedacted DEF DeliveryOK, DeliveryStates
    <3>3. cap' = [cap EXCEPT ![e] = d] /\ inst' = [inst EXCEPT !.permits = inst.permits - 1]
      BY <2>2, <3>1 DEF capture, spawn
    <3>4. inst.permits - 1 \in Nat /\ inst'.setup = inst.setup
      BY <1>1, <2>2, <3>3, SetupTypes DEF CaptureInv
    <3>5. (inst.permits - 1) + 1 = inst.permits + 0
      BY <1>1
    <3> QED BY <1>1, <3>2, <3>3, <3>4, <3>5, DeliveryStep
  <2> QED BY <2>1, <2>2
<1> QED BY <1>1, <1>2 DEF CaptureInv, CapturedOK, CaptureRedacted

LEMMA DeliverStep ==
  ASSUME CaptureInv, NEW e \in Exchanges, deliver(e)
  PROVE  CaptureInv'
<1>1. /\ DeliveryOK(cap[e]) /\ cap[e].pc = "sending"
      /\ inst = [inst EXCEPT !.permits = inst.permits] /\ inst.permits \in Nat
  BY SetupTypes DEF CaptureInv, CapOK, deliver
<1>2. PICK f \in Fates :
        /\ captured' = IF f.kept THEN Append(captured, envelope(e)) ELSE captured
        /\ cap' = [cap EXCEPT ![e].pc = IF f.acked THEN "delivered"
                                        ELSE IF f.acked \/ gives_up(cap[e]) THEN "given_up" ELSE "sleeping"]
        /\ inst' = IF f.acked \/ gives_up(cap[e]) THEN [inst EXCEPT !.permits = @ + released(f.acked)] ELSE inst
  BY DEF deliver
<1>3. PICK pc : pc = IF f.acked THEN "delivered"
                     ELSE IF f.acked \/ gives_up(cap[e]) THEN "given_up" ELSE "sleeping"
  OBVIOUS
<1>4. PICK d : d = [cap[e] EXCEPT !.pc = pc]
  OBVIOUS
<1>5. DeliveryOK(d) /\ d.pc = pc /\ cap' = [cap EXCEPT ![e] = d]
  BY <1>1, <1>2, <1>3, <1>4 DEF DeliveryOK, DeliveryStates
<1>6. InstOK' /\ CapOK' /\ PermitsInv' /\ inst'.setup = inst.setup
  <2>1. CASE f.acked \/ gives_up(cap[e])
    <3>1. pc \notin {"sending", "sleeping"}
      BY <1>3, <2>1
    <3>2. inst' = [inst EXCEPT !.permits = inst.permits + 1] /\ inst.permits + 1 \in Nat /\ inst'.setup = inst.setup
      BY <1>1, <1>2, <2>1, SetupTypes DEF released, CaptureInv
    <3>3. (inst.permits + 1) + 0 = inst.permits + 1
      BY <1>1
    <3> QED BY <1>1, <1>5, <3>1, <3>2, <3>3, DeliveryStep
  <2>2. CASE ~ (f.acked \/ gives_up(cap[e]))
    <3>1. pc = "sleeping" /\ inst' = inst
      BY <1>2, <1>3, <2>2
    <3> QED BY <1>1, <1>5, <3>1, DeliveryStep
  <2> QED BY <2>1, <2>2
<1>7. CapturedOK' /\ CaptureRedacted'
  <2>1. CASE f.kept
    <3> DEFINE S == {captured[k] : k \in DOMAIN captured} \cup {envelope(e)}
    <3>1. captured \in Seq(S) /\ envelope(e) \in S
      BY DEF CaptureInv, CapturedOK
    <3>2. captured' = Append(captured, envelope(e))
      BY <1>2, <2>1
    <3>3. /\ captured' \in Seq(S) /\ DOMAIN captured' = 1 .. Len(captured) + 1
          /\ \A k \in DOMAIN captured' :
               captured'[k] = IF k = Len(captured) + 1 THEN envelope(e) ELSE captured[k]
      BY <3>1, <3>2
    <3>4. CapturedOK'
      <4> HIDE DEF S
      <4>1. captured' = [k \in 1 .. Len(captured) + 1 |-> captured'[k]] /\ Len(captured) \in Nat
        BY <3>1, <3>3
      <4> QED BY <3>3, <4>1 DEF CapturedOK
    <3>5. envelope(e).headers = cap[e].headers
      BY DEF envelope
    <3>6. inst.setup.redact => "authorization" \notin Range(envelope(e).headers)
      BY <1>1, <3>5 DEF DeliveryOK
    <3>7. \A k \in DOMAIN captured' : k # Len(captured) + 1 => k \in DOMAIN captured
      BY <3>1, <3>3
    <3>8. CaptureRedacted'
      BY <1>6, <3>3, <3>6, <3>7 DEF CaptureInv, CaptureRedacted
    <3> QED BY <3>4, <3>8
  <2>2. CASE ~ f.kept
    BY <1>2, <1>6, <2>2 DEF CaptureInv, CapturedOK, CaptureRedacted
  <2> QED BY <2>1, <2>2
<1> QED BY <1>6, <1>7 DEF CaptureInv

LEMMA WakeStep ==
  ASSUME CaptureInv, NEW e \in Exchanges, wake(e)
  PROVE  CaptureInv'
<1>1. /\ DeliveryOK(cap[e]) /\ cap[e].pc = "sleeping" /\ UNCHANGED <<captured, inst>>
      /\ inst = [inst EXCEPT !.permits = inst.permits] /\ inst.permits \in Nat
  BY SetupTypes DEF CaptureInv, CapOK, wake
<1>2. PICK d : d = [cap[e] EXCEPT !.pc = "sending", !.attempt = @ + 1, !.backoff = @ * 2]
  OBVIOUS
<1>3. /\ d = [pc |-> "sending", attempt |-> cap[e].attempt + 1, backoff |-> cap[e].backoff * 2,
              headers |-> cap[e].headers]
      /\ cap' = [cap EXCEPT ![e] = d]
  BY <1>1, <1>2 DEF DeliveryOK, wake
<1>4. DeliveryOK(d) /\ d.pc = "sending"
  BY <1>1, <1>3 DEF DeliveryOK, DeliveryStates
<1>5. InstOK' /\ CapOK' /\ PermitsInv'
  BY <1>1, <1>3, <1>4, DeliveryStep
<1> QED BY <1>1, <1>5 DEF CaptureInv, CapturedOK, CaptureRedacted

LEMMA RestartCapture ==
  ASSUME CaptureInv, RestartInstance
  PROVE  CaptureInv'
<1>s. /\ inst = [setup |-> inst.setup, permits |-> inst.permits, seq |-> inst.seq, restarts |-> inst.restarts]
      /\ inst.setup \in Setups /\ inst.restarts \in Nat
  BY SetupTypes DEF CaptureInv
<1>r. /\ inst' = [setup |-> inst.setup, permits |-> MaxInflight, seq |-> 0, restarts |-> inst.restarts + 1]
      /\ UNCHANGED captured
  BY <1>s DEF RestartInstance
<1>1. /\ inst' = [setup |-> inst.setup, permits |-> MaxInflight, seq |-> 0, restarts |-> inst.restarts + 1]
      /\ inst'.setup = inst.setup /\ InstOK' /\ UNCHANGED captured
  BY <1>s, <1>r, FanoutAssumption DEF InstOK
<1>2. /\ cap' = [e \in Exchanges |-> cap'[e]]
      /\ \A e \in Exchanges : cap'[e] = IF e \in InFlight THEN [cap[e] EXCEPT !.pc = "lost"] ELSE cap[e]
  BY DEF RestartInstance
<1>3. \A e \in Exchanges : DeliveryOK(cap'[e]) /\ cap'[e].pc \notin {"sending", "sleeping"}
  BY <1>2 DEF CaptureInv, CapOK, DeliveryOK, DeliveryStates, InFlight
<1>4. CapOK'
  BY <1>1, <1>2, <1>3 DEF CapOK, DeliveryOK
<1>5. InFlight' = {}
  BY <1>3 DEF InFlight
<1>6. PermitsInv'
  BY <1>1, <1>5, FS_EmptySet, FanoutAssumption DEF PermitsInv, PermitsExact
<1> QED BY <1>1, <1>4, <1>6 DEF CaptureInv, CapturedOK, CaptureRedacted

\* A request counts itself; nothing of the capture side moves.
LEMMA CountedCapture ==
  ASSUME CaptureInv, UNCHANGED <<cap, captured>>,
         inst' = inst \/ inst' = [inst EXCEPT !.seq = @ + 1]
  PROVE  CaptureInv'
<1>1. InstOK' /\ inst'.setup = inst.setup /\ inst'.permits = inst.permits
  BY SetupTypes DEF CaptureInv, InstOK
<1>2. InFlight' = InFlight
  BY DEF InFlight
<1> QED BY <1>1, <1>2 DEF CaptureInv, CapOK, DeliveryOK, CapturedOK, CaptureRedacted, PermitsInv, PermitsExact

LEMMA CaptureNextInv == CaptureInv /\ [FanoutNext]_fanoutVars => CaptureInv'
<1> SUFFICES ASSUME CaptureInv, [FanoutNext]_fanoutVars PROVE CaptureInv'
  OBVIOUS
<1>1. CASE \E e \in Exchanges : \E h \in HeaderLists : capture(e, h)
  BY <1>1, CaptureStep
<1>2. CASE \E e \in Exchanges : deliver(e)
  BY <1>2, DeliverStep
<1>3. CASE \E e \in Exchanges : wake(e)
  BY <1>3, WakeStep
<1>4. CASE \E w \in Writes : \E ask \in Asks : enqueue_async(w, ask)
  BY <1>4, CountedCapture DEF enqueue_async
<1>5. CASE \E w \in Writes : enqueue(w)
  BY <1>5, CountedCapture DEF enqueue
<1>6. CASE \E w \in Writes : respond_async(w)
  BY <1>6, CountedCapture DEF respond_async
<1>7. CASE Consume
  BY <1>7, CountedCapture DEF Consume
<1>8. CASE RestartInstance
  BY <1>8, RestartCapture
<1>9. CASE UNCHANGED fanoutVars
  BY <1>9, CountedCapture DEF fanoutVars
<1> QED BY <1>1, <1>2, <1>3, <1>4, <1>5, <1>6, <1>7, <1>8, <1>9 DEF FanoutNext

\* Permits are never lost or made, and with redaction on no record carries credentials:
\* for any number of exchanges, deliveries, attempts and restarts.
THEOREM FanoutLeaksNothing == FanoutSpec => []CaptureLeaksNothing
<1>1. CaptureInv => CaptureLeaksNothing
  BY DEF CaptureInv, PermitsInv, CaptureLeaksNothing
<1> QED BY <1>1, CaptureInitInv, CaptureNextInv, PTL DEF FanoutSpec

-----------------------------------------------------------------------------
(* Async writes: the inductive invariant. *)

\* Requests that are answered before anything is queued.
TurnedAway(ask) == unsupported_async(ask) \/ ~inst.setup.queue

\* The request of a write: an op id of the client's own is about that write alone, what
\* a document or a bulk holds does not change from one attempt to the next, and what is
\* turned away queues nothing.
WriteOK(w, x) ==
  /\ x = [pc |-> x.pc, ask |-> x.ask, op_id |-> x.op_id, items |-> x.items, lines |-> x.lines,
          status |-> x.status, tries |-> x.tries]
  /\ x.pc \in {"none", "enqueuing", "cut", "answered"}
  /\ x.ask \in Asks
  /\ x.lines \in Seq({202, 503})
  /\ x.pc = "none" => x.lines = <<>> /\ x.status = 0
  /\ x.pc \in {"enqueuing", "cut"} => ~TurnedAway(x.ask)
  /\ x.status \in {400, 422} => TurnedAway(x.ask)
  /\ TurnedAway(x.ask) => x.lines = <<>>
  /\ x.pc # "none" => IF x.ask.header = "own" THEN x.op_id = <<"own", w>>
                      ELSE \E n \in Nat : x.op_id = <<"req", n>>
  /\ x.pc # "none" /\ x.ask.kind = "doc" => x.items = <<w>> /\ Len(x.lines) <= 1
  /\ x.pc # "none" /\ x.ask.kind = "bulk" => x.items = <<<<w, 1>>, <<w, 2>>>> /\ Len(x.lines) <= 2

WritesOK ==
  /\ wr = [w \in Writes |-> wr[w]]
  /\ \A w \in Writes : WriteOK(w, wr[w])

\* A record of the topic says whose it is, and under an op id of the client's own which
\* of its items it is.
RecordOK(w, x, r) ==
  /\ x.pc # "none" /\ ~TurnedAway(x.ask)
  /\ x.ask.header # "own" => r.op_id[1] = "req"
  /\ x.ask.header = "own" => r.op_id[1] = "own" /\ r.op_id[2] = w
  /\ x.ask.header = "own" /\ x.ask.kind = "doc" => r.op_id = <<"own", w>> /\ r.payload = w
  /\ x.ask.header = "own" /\ x.ask.kind = "bulk" =>
       \E k \in 1 .. 2 : r.op_id = <<"own", w, k>> /\ r.payload = <<w, k>>

TopicOK ==
  /\ topic \in Seq({topic[j] : j \in DOMAIN topic})
  /\ \A j \in DOMAIN topic : topic[j].of \in Writes /\ RecordOK(topic[j].of, wr[topic[j].of], topic[j])

\* The first half of AcceptedQueued.
LinesQueued ==
  \A w \in Writes : \A k \in DOMAIN wr[w].lines : wr[w].lines[k] = 202 =>
    \E j \in DOMAIN topic : topic[j] = [op_id |-> item_op_id(w, k), of |-> w, payload |-> wr[w].items[k]]

WritesInv == WritesOK /\ TopicOK /\ LinesQueued

LEMMA WritesInitInv == FanoutInit => WritesInv
<1> SUFFICES ASSUME NEW s \in Setups, FanoutStart(s) PROVE WritesInv
  BY DEF FanoutInit
<1>1. \A w \in Writes : wr[w] = NoWrite
  BY DEF FanoutStart
<1>2. \A w \in Writes : WriteOK(w, NoWrite)
  BY DEF WriteOK, NoWrite, Asks
<1>3. WritesOK
  BY <1>1, <1>2 DEF WritesOK, FanoutStart
<1>4. TopicOK
  BY DEF TopicOK, FanoutStart
<1>5. LinesQueued
  BY <1>1 DEF LinesQueued, NoWrite
<1> QED BY <1>3, <1>4, <1>5 DEF WritesInv

\* What is known of a write depends on the instance's setup only.
LEMMA WriteStays ==
  ASSUME NEW w, NEW x, WriteOK(w, x), wr'[w] = x, inst'.setup = inst.setup
  PROVE  WriteOK(w, wr[w])'
<1>1. WriteOK(w, x)'
  BY DEF WriteOK, TurnedAway
<1> QED BY <1>1 DEF WriteOK

LEMMA AppendToPair ==
  ASSUME NEW a, NEW b, NEW c
  PROVE  Append(<<a, b>>, c) = <<a, b, c>> /\ Append(<<a, b>>, c)[1] = a /\ Append(<<a, b>>, c)[2] = b
<1>1. <<a, b>> \in Seq({a, b, c}) /\ <<a, b, c>> \in Seq({a, b, c})
  OBVIOUS
<1>2. PICK s, t : s = Append(<<a, b>>, c) /\ t = <<a, b, c>>
  OBVIOUS
<1>3. s \in Seq({a, b, c}) /\ Len(s) = 3 /\ s[1] = a /\ s[2] = b /\ s[3] = c
  BY <1>1, <1>2
<1>4. t \in Seq({a, b, c}) /\ Len(t) = 3 /\ t[1] = a /\ t[2] = b /\ t[3] = c
  BY <1>1, <1>2
<1>5. \A i \in 1 .. 3 : s[i] = t[i]
  BY <1>3, <1>4
<1>6. s = [i \in 1 .. 3 |-> s[i]] /\ t = [i \in 1 .. 3 |-> t[i]]
  BY <1>3, <1>4
<1> QED BY <1>2, <1>3, <1>5, <1>6

\* The steps of capture and of the applier leave the writes alone.
LEMMA WritesApart ==
  ASSUME WritesInv, UNCHANGED <<wr, topic>>, inst'.setup = inst.setup
  PROVE  WritesInv'
<1>1. \A ask : TurnedAway(ask)' = TurnedAway(ask)
  BY DEF TurnedAway
<1>2. WritesOK'
  BY DEF WritesInv, WritesOK, WriteOK, TurnedAway
<1>3. TopicOK'
  BY DEF WritesInv, TopicOK, RecordOK, TurnedAway
<1>4. LinesQueued'
  BY DEF WritesInv, LinesQueued, item_op_id
<1> QED BY <1>2, <1>3, <1>4 DEF WritesInv

\* One write moves on; what the topic holds of it stays what it is, since a request that
\* is sent again asks the same.
LEMMA WriteStep ==
  ASSUME WritesInv, NEW w \in Writes, NEW x, WriteOK(w, x),
         wr' = [wr EXCEPT ![w] = x], inst'.setup = inst.setup, UNCHANGED topic,
         x.pc # "none", wr[w].pc = "none" \/ x.ask = wr[w].ask,
         \A k \in DOMAIN x.lines : x.lines = wr[w].lines /\ x.op_id = wr[w].op_id /\ x.items = wr[w].items /\ x.ask = wr[w].ask
  PROVE  WritesInv'
<1>1. /\ \A v \in Writes : wr'[v] = IF v = w THEN x ELSE wr[v]
      /\ wr' = [v \in Writes |-> wr'[v]]
  BY DEF WritesInv, WritesOK
<1>2. WritesOK'
  <2> SUFFICES ASSUME NEW v \in Writes PROVE WriteOK(v, wr[v])'
    BY <1>1 DEF WritesOK
  <2>1. PICK y : y = wr'[v]
    OBVIOUS
  <2>2. WriteOK(v, y)
    BY <1>1, <2>1 DEF WritesInv, WritesOK
  <2> QED BY <2>1, <2>2, WriteStays
<1>3. TopicOK'
  <2> SUFFICES ASSUME NEW j \in DOMAIN topic
               PROVE  topic[j].of \in Writes /\ RecordOK(topic[j].of, wr'[topic[j].of], topic[j])
    BY DEF WritesInv, TopicOK, RecordOK, TurnedAway
  <2>1. topic[j].of \in Writes /\ RecordOK(topic[j].of, wr[topic[j].of], topic[j])
    BY DEF WritesInv, TopicOK
  <2>2. CASE topic[j].of = w
    <3>1. x.ask = wr[w].ask
      BY <2>1, <2>2 DEF RecordOK
    <3> QED BY <1>1, <2>1, <2>2, <3>1 DEF RecordOK
  <2>3. CASE topic[j].of # w
    BY <1>1, <2>1, <2>3
  <2> QED BY <2>2, <2>3
<1>4. LinesQueued'
  <2> SUFFICES ASSUME NEW v \in Writes, NEW k \in DOMAIN wr'[v].lines, wr'[v].lines[k] = 202
               PROVE  \E j \in DOMAIN topic : topic[j] = [op_id |-> item_op_id(v, k)', of |-> v, payload |-> wr'[v].items[k]]
    BY DEF LinesQueued
  <2>1. /\ wr'[v].lines = wr[v].lines /\ wr'[v].items = wr[v].items /\ wr'[v].op_id = wr[v].op_id
        /\ wr'[v].ask = wr[v].ask
    BY <1>1
  <2>2. item_op_id(v, k)' = item_op_id(v, k)
    BY <2>1 DEF item_op_id
  <2> QED BY <2>1, <2>2 DEF WritesInv, LinesQueued
<1> QED BY <1>2, <1>3, <1>4 DEF WritesInv

LEMMA Reworded ==
  ASSUME NEW p0, NEW a, NEW o, NEW i, NEW l, NEW s0, NEW t, NEW p, NEW s, NEW d, NEW c,
         d = [pc |-> p0, ask |-> a, op_id |-> o, items |-> i, lines |-> l, status |-> s0, tries |-> t],
         c = [d EXCEPT !.pc = p, !.status = s]
  PROVE  c = [pc |-> p, ask |-> a, op_id |-> o, items |-> i, lines |-> l, status |-> s, tries |-> t]
  OBVIOUS

LEMMA AskStep ==
  ASSUME InstOK, WritesInv, NEW w \in Writes, NEW ask \in Asks, enqueue_async(w, ask)
  PROVE  WritesInv'
<1>1. /\ inst.setup \in Setups /\ inst.seq \in Nat
      /\ inst = [setup |-> inst.setup, permits |-> inst.permits, seq |-> inst.seq, restarts |-> inst.restarts]
  BY SetupTypes
<1>2. inst'.setup = inst.setup /\ UNCHANGED topic
  BY <1>1 DEF enqueue_async
<1>3. wr[w].pc = "none" \/ ask = wr[w].ask
  BY DEF enqueue_async
<1>4. PICK items \in ItemsOf(w, ask) :
        wr' = [wr EXCEPT ![w] =
                 LET new == [NoWrite EXCEPT !.ask = ask, !.items = items, !.op_id = op_id_for(w, ask.header),
                                            !.tries = wr[w].tries + 1]
                 IN IF unsupported_async(ask) THEN [new EXCEPT !.pc = "answered", !.status = 400]
                    ELSE IF ~inst.setup.queue THEN [new EXCEPT !.pc = "answered", !.status = 422]
                    ELSE [new EXCEPT !.pc = "enqueuing"]]
  BY DEF enqueue_async
<1>5. PICK id : id = op_id_for(w, ask.header)
  OBVIOUS
<1>6. IF ask.header = "own" THEN id = <<"own", w>> ELSE \E n \in Nat : id = <<"req", n>>
  BY <1>1, <1>5 DEF op_id_for, valid_op_id
<1>7. PICK tries : tries = wr[w].tries + 1
  OBVIOUS
<1>e. PICK none : none = <<>>
  OBVIOUS
<1>8. PICK pc : pc = IF TurnedAway(ask) THEN "answered" ELSE "enqueuing"
  OBVIOUS
<1>9. PICK status : status = IF unsupported_async(ask) THEN 400 ELSE IF ~inst.setup.queue THEN 422 ELSE 0
  OBVIOUS
<1>x. PICK x : x = [pc |-> pc, ask |-> ask, op_id |-> id, items |-> items, lines |-> none, status |-> status,
                    tries |-> tries]
  OBVIOUS
<1>w. wr' = [wr EXCEPT ![w] = x]
  <2>p. PICK p0, s0 : p0 = "none" /\ s0 = 0
    OBVIOUS
  <2>1. PICK a0 : NoWrite = [pc |-> p0, ask |-> a0, op_id |-> none, items |-> none, lines |-> none,
                             status |-> s0, tries |-> 0]
    BY <1>e, <2>p DEF NoWrite
  <2>2. PICK new : new = [NoWrite EXCEPT !.ask = ask, !.items = items, !.op_id = id, !.tries = tries]
    OBVIOUS
  <2>3. new = [pc |-> p0, ask |-> ask, op_id |-> id, items |-> items, lines |-> none, status |-> s0,
               tries |-> tries]
    BY <2>1, <2>2
  <2>4. wr' = [wr EXCEPT ![w] =
                 IF unsupported_async(ask) THEN [new EXCEPT !.pc = "answered", !.status = 400]
                 ELSE IF ~inst.setup.queue THEN [new EXCEPT !.pc = "answered", !.status = 422]
                 ELSE [new EXCEPT !.pc = "enqueuing"]]
    BY <1>4, <1>5, <1>7, <2>2
  <2>5. CASE unsupported_async(ask)
    <3>1. TurnedAway(ask) <=> TRUE
      BY <2>5 DEF TurnedAway
    <3>2. PICK c : c = [new EXCEPT !.pc = pc, !.status = status]
      OBVIOUS
    <3>r. c = [pc |-> pc, ask |-> ask, op_id |-> id, items |-> items, lines |-> none, status |-> status,
               tries |-> tries]
      BY <2>3, <3>2, Reworded
    <3>3. c = x
      BY <1>x, <3>r
    <3>4. pc = "answered" /\ status = 400
      BY ONLY <1>8, <1>9, <2>5, <3>1
    <3>5. wr' = [wr EXCEPT ![w] = [new EXCEPT !.pc = "answered", !.status = 400]]
      BY ONLY <2>4, <2>5
    <3> QED BY ONLY <3>2, <3>3, <3>4, <3>5
  <2>6. CASE ~unsupported_async(ask) /\ ~inst.setup.queue
    <3>1. TurnedAway(ask) <=> TRUE
      BY <2>6 DEF TurnedAway
    <3>2. PICK c : c = [new EXCEPT !.pc = pc, !.status = status]
      OBVIOUS
    <3>r. c = [pc |-> pc, ask |-> ask, op_id |-> id, items |-> items, lines |-> none, status |-> status,
               tries |-> tries]
      BY <2>3, <3>2, Reworded
    <3>3. c = x
      BY <1>x, <3>r
    <3>4. pc = "answered" /\ status = 422
      BY ONLY <1>8, <1>9, <2>6, <3>1
    <3>5. wr' = [wr EXCEPT ![w] = [new EXCEPT !.pc = "answered", !.status = 422]]
      BY ONLY <2>4, <2>6
    <3> QED BY ONLY <3>2, <3>3, <3>4, <3>5
  <2>7. CASE ~unsupported_async(ask) /\ inst.setup.queue
    <3>1. TurnedAway(ask) <=> FALSE
      BY <2>7 DEF TurnedAway
    <3>2. PICK c : c = [new EXCEPT !.pc = pc]
      OBVIOUS
    <3>3. c = x
      BY <1>8, <1>9, <1>x, <2>3, <2>7, <2>p, <3>1, <3>2
    <3> QED BY <1>8, <1>9, <2>4, <2>7, <3>1, <3>2, <3>3
  <2> QED BY <2>5, <2>6, <2>7
<1>10. /\ ask.kind = "doc" => items = <<w>>
       /\ ask.kind = "bulk" => items = <<<<w, 1>>, <<w, 2>>>>
  BY <1>4 DEF ItemsOf
<1>11. WriteOK(w, x)
  <2>1. none \in Seq({202, 503}) /\ Len(none) = 0
    BY <1>e
  <2>2. /\ x.pc = pc /\ x.ask = ask /\ x.op_id = id /\ x.items = items /\ x.lines = none /\ x.status = status
        /\ x.tries = tries
    BY <1>x
  <2>3. /\ pc = "answered" \/ (pc = "enqueuing" /\ ~TurnedAway(ask))
        /\ status \in {400, 422} => TurnedAway(ask)
    BY <1>8, <1>9 DEF TurnedAway
  <2> QED BY <1>6, <1>10, <1>e, <1>x, <2>1, <2>2, <2>3 DEF WriteOK
<1>12. /\ x.pc # "none" /\ (wr[w].pc = "none" \/ x.ask = wr[w].ask)
       /\ DOMAIN x.lines = {} /\ wr' = [wr EXCEPT ![w] = x]
  BY <1>3, <1>8, <1>e, <1>x, <1>w
<1> QED BY <1>2, <1>11, <1>12, WriteStep

LEMMA RespondStep ==
  ASSUME WritesInv, NEW w \in Writes, respond_async(w)
  PROVE  WritesInv'
<1>1. PICK status : status = IF wr[w].ask.kind = "doc" THEN wr[w].lines[1] ELSE 200
  OBVIOUS
<1>2. PICK x : x = [wr[w] EXCEPT !.pc = "answered", !.status = status]
  OBVIOUS
<1>3. /\ wr[w].pc = "enqueuing" /\ wr' = [wr EXCEPT ![w] = x] /\ Len(wr[w].lines) = Len(wr[w].items)
      /\ UNCHANGED <<inst, topic>> /\ WriteOK(w, wr[w])
  BY <1>1, <1>2 DEF respond_async, WritesInv, WritesOK
<1>s. wr[w] = [pc |-> wr[w].pc, ask |-> wr[w].ask, op_id |-> wr[w].op_id, items |-> wr[w].items,
               lines |-> wr[w].lines, status |-> wr[w].status, tries |-> wr[w].tries]
  BY <1>3 DEF WriteOK
<1>4. x = [pc |-> "answered", ask |-> wr[w].ask, op_id |-> wr[w].op_id, items |-> wr[w].items,
           lines |-> wr[w].lines, status |-> status, tries |-> wr[w].tries]
  BY <1>2, <1>s
<1>5. status \notin {400, 422}
  <2>1. CASE wr[w].ask.kind = "doc"
    <3>1. wr[w].items = <<w>> /\ wr[w].lines \in Seq({202, 503})
      BY <1>3, <2>1 DEF WriteOK
    <3>2. Len(wr[w].lines) = 1
      BY <1>3, <3>1
    <3>3. wr[w].lines[1] \in {202, 503}
      BY <3>1, <3>2
    <3> QED BY <1>1, <2>1, <3>3
  <2>2. CASE wr[w].ask.kind # "doc"
    BY <1>1, <2>2
  <2> QED BY <2>1, <2>2
<1>6. WriteOK(w, x)
  BY <1>3, <1>4, <1>5 DEF WriteOK
<1>7. /\ x.pc # "none" /\ x.ask = wr[w].ask /\ x.lines = wr[w].lines /\ x.op_id = wr[w].op_id
      /\ x.items = wr[w].items
  BY <1>4
<1> QED BY <1>3, <1>6, <1>7, WriteStep

\* The record of the next item of a write.
LEMMA ItemRecord ==
  ASSUME NEW w, WriteOK(w, wr[w]), wr[w].pc = "enqueuing", NEW k \in Nat, k = Len(wr[w].lines) + 1,
         k <= Len(wr[w].items), NEW r,
         r = [op_id |-> item_op_id(w, k), of |-> w, payload |-> wr[w].items[k]]
  PROVE  RecordOK(w, wr[w], r)
<1>1. PICK x : x = wr[w]
  OBVIOUS
<1>2. /\ WriteOK(w, x) /\ x.pc = "enqueuing" /\ k = Len(x.lines) + 1 /\ k <= Len(x.items)
      /\ r.payload = x.items[k]
      /\ r.op_id = IF x.ask.kind = "doc" THEN x.op_id ELSE Append(x.op_id, k)
  BY <1>1 DEF item_op_id
<1>3. /\ ~TurnedAway(x.ask) /\ x.lines \in Seq({202, 503}) /\ x.ask \in Asks
      /\ IF x.ask.header = "own" THEN x.op_id = <<"own", w>> ELSE \E n \in Nat : x.op_id = <<"req", n>>
      /\ x.ask.kind = "doc" => x.items = <<w>>
      /\ x.ask.kind = "bulk" => x.items = <<<<w, 1>>, <<w, 2>>>>
  BY <1>2 DEF WriteOK
<1>4. k >= 1
  BY <1>2, <1>3
<1>5. x.ask.header # "own" => r.op_id[1] = "req"
  <2> SUFFICES ASSUME x.ask.header # "own" PROVE r.op_id[1] = "req"
    OBVIOUS
  <2>1. PICK n \in Nat : x.op_id = <<"req", n>>
    BY <1>3
  <2>2. Append(<<"req", n>>, k)[1] = "req" /\ <<"req", n>>[1] = "req"
    BY AppendToPair
  <2>3. r.op_id = <<"req", n>> \/ r.op_id = Append(<<"req", n>>, k)
    BY <1>2, <2>1
  <2> QED BY <2>2, <2>3
<1>6. Append(<<"own", w>>, k) = <<"own", w, k>>
  BY AppendToPair
<1>7. x.ask.header = "own" => r.op_id[1] = "own" /\ r.op_id[2] = w
  <2> SUFFICES ASSUME x.ask.header = "own" PROVE r.op_id[1] = "own" /\ r.op_id[2] = w
    OBVIOUS
  <2>1. /\ Append(<<"own", w>>, k)[1] = "own" /\ Append(<<"own", w>>, k)[2] = w
        /\ <<"own", w>>[1] = "own" /\ <<"own", w>>[2] = w
    BY AppendToPair
  <2>2. r.op_id = <<"own", w>> \/ r.op_id = Append(<<"own", w>>, k)
    BY <1>2, <1>3
  <2> QED BY <2>1, <2>2
<1>8. x.ask.header = "own" /\ x.ask.kind = "doc" => r.op_id = <<"own", w>> /\ r.payload = w
  <2> SUFFICES ASSUME x.ask.header = "own", x.ask.kind = "doc" PROVE r.op_id = <<"own", w>> /\ r.payload = w
    OBVIOUS
  <2>1. x.items = <<w>>
    BY <1>3
  <2>2. k = 1
    BY <1>2, <1>4, <2>1
  <2>3. x.items[k] = w
    BY <2>1, <2>2
  <2>4. r.op_id = <<"own", w>>
    BY <1>2, <1>3
  <2> QED BY <1>2, <2>3, <2>4
<1>9. x.ask.header = "own" /\ x.ask.kind = "bulk" =>
        \E i \in 1 .. 2 : r.op_id = <<"own", w, i>> /\ r.payload = <<w, i>>
  <2> SUFFICES ASSUME x.ask.header = "own", x.ask.kind = "bulk"
               PROVE  \E i \in 1 .. 2 : r.op_id = <<"own", w, i>> /\ r.payload = <<w, i>>
    OBVIOUS
  <2>1. x.items = <<<<w, 1>>, <<w, 2>>>>
    BY <1>3
  <2>2. k \in 1 .. 2
    BY <1>2, <1>4, <2>1
  <2>3. x.items[k] = <<w, k>>
    BY <2>1, <2>2
  <2> QED BY <1>2, <1>3, <1>6, <2>2, <2>3
<1>10. x.pc # "none"
  BY <1>2
<1> QED BY <1>1, <1>3, <1>5, <1>7, <1>8, <1>9, <1>10 DEF RecordOK

LEMMA EnqueueStep ==
  ASSUME WritesInv, NEW w \in Writes, enqueue(w)
  PROVE  WritesInv'
<1>1. /\ wr[w].pc = "enqueuing" /\ WriteOK(w, wr[w]) /\ UNCHANGED inst
      /\ wr[w].lines \in Seq({202, 503}) /\ Len(wr[w].lines) + 1 <= Len(wr[w].items)
  BY DEF enqueue, WritesInv, WritesOK, WriteOK
<1>2. PICK k \in Nat : k = Len(wr[w].lines) + 1
  BY <1>1
<1>3. PICK r : r = [op_id |-> item_op_id(w, k), of |-> w, payload |-> wr[w].items[k]]
  OBVIOUS
<1>4. PICK f \in Fates :
        /\ topic' = IF f.kept THEN Append(topic, r) ELSE topic
        /\ wr' = [wr EXCEPT ![w].lines = Append(@, line(f))]
  BY <1>2, <1>3 DEF enqueue, Fates
<1>5. PICK lines : lines = Append(wr[w].lines, line(f))
  OBVIOUS
<1>6. PICK x : x = [wr[w] EXCEPT !.lines = lines]
  OBVIOUS
<1>7. /\ wr' = [wr EXCEPT ![w] = x]
      /\ x = [pc |-> "enqueuing", ask |-> wr[w].ask, op_id |-> wr[w].op_id, items |-> wr[w].items,
              lines |-> lines, status |-> wr[w].status, tries |-> wr[w].tries]
  <2>1. wr' = [wr EXCEPT ![w] = x]
    BY <1>4, <1>5, <1>6
  <2>2. PICK q : q = wr[w]
    OBVIOUS
  <2>3. q = [pc |-> q.pc, ask |-> q.ask, op_id |-> q.op_id, items |-> q.items, lines |-> q.lines,
             status |-> q.status, tries |-> q.tries]
    BY <1>1, <2>2 DEF WriteOK
  <2>4. x = [q EXCEPT !.lines = lines]
    BY <1>6, <2>2
  <2>5. x = [pc |-> q.pc, ask |-> q.ask, op_id |-> q.op_id, items |-> q.items, lines |-> lines,
             status |-> q.status, tries |-> q.tries]
    BY <2>3, <2>4
  <2>6. q.pc = "enqueuing"
    BY <1>1, <2>2
  <2> QED BY <2>1, <2>2, <2>5, <2>6
<1>8. /\ lines \in Seq({202, 503}) /\ Len(lines) = k /\ DOMAIN lines = 1 .. k
      /\ \A i \in 1 .. k : lines[i] = IF i = k THEN line(f) ELSE wr[w].lines[i]
  BY <1>1, <1>2, <1>5 DEF line
<1>9. WriteOK(w, x)
  <2>1. /\ wr[w].ask.kind = "doc" => wr[w].items = <<w>>
        /\ wr[w].ask.kind = "bulk" => wr[w].items = <<<<w, 1>>, <<w, 2>>>>
    BY <1>1 DEF WriteOK
  <2>2. /\ wr[w].ask.kind = "doc" => Len(lines) <= 1
        /\ wr[w].ask.kind = "bulk" => Len(lines) <= 2
    BY <1>1, <1>2, <1>8, <2>1
  <2>3. ~TurnedAway(wr[w].ask)
    BY <1>1 DEF WriteOK
  <2> QED BY <1>1, <1>7, <1>8, <2>2, <2>3 DEF WriteOK
<1>10. /\ \A v \in Writes : wr'[v] = IF v = w THEN x ELSE wr[v]
       /\ wr' = [v \in Writes |-> wr'[v]]
  BY <1>7 DEF WritesInv, WritesOK
<1>11. WritesOK'
  <2> SUFFICES ASSUME NEW v \in Writes PROVE WriteOK(v, wr[v])'
    BY <1>10 DEF WritesOK
  <2>1. PICK y : y = wr'[v]
    OBVIOUS
  <2>2. WriteOK(v, y)
    BY <1>9, <1>10, <2>1 DEF WritesInv, WritesOK
  <2> QED BY <1>1, <2>1, <2>2, WriteStays
<1>12. RecordOK(w, wr[w], r)
  BY <1>1, <1>2, <1>3, ItemRecord
<1>13. x.pc = wr[w].pc /\ x.ask = wr[w].ask /\ x.op_id = wr[w].op_id /\ x.items = wr[w].items /\ x.lines = lines
  BY <1>1, <1>7
<1>14. \A v \in Writes : \A q : RecordOK(v, wr[v], q) => RecordOK(v, wr'[v], q)
  BY <1>10, <1>13 DEF RecordOK
<1>15. PICK n \in Nat : n = Len(topic) /\ DOMAIN topic = 1 .. n /\ topic = [j \in 1 .. n |-> topic[j]]
  BY DEF WritesInv, TopicOK
<1>16. /\ DOMAIN topic' = IF f.kept THEN 1 .. n + 1 ELSE 1 .. n
       /\ \A j \in 1 .. n : topic'[j] = topic[j]
       /\ f.kept => topic'[n + 1] = r
       /\ DOMAIN topic \subseteq DOMAIN topic'
       /\ \A j \in DOMAIN topic' : topic'[j] = r \/ (j \in DOMAIN topic /\ topic'[j] = topic[j])
       /\ topic' \in Seq({topic'[j] : j \in DOMAIN topic'})
  <2>1. CASE f.kept
    <3> DEFINE S == {topic[j] : j \in DOMAIN topic} \cup {r}
    <3>1. topic \in Seq(S) /\ r \in S
      BY DEF WritesInv, TopicOK
    <3>2. topic' = Append(topic, r)
      BY <1>4, <2>1
    <3> HIDE DEF S
    <3>3. /\ topic' \in Seq(S) /\ DOMAIN topic' = 1 .. n + 1 /\ topic'[n + 1] = r
          /\ \A j \in 1 .. n : topic'[j] = topic[j]
      BY <1>15, <3>1, <3>2
    <3>4. topic' = [j \in 1 .. n + 1 |-> topic'[j]]
      BY <3>3
    <3>5. topic' \in Seq({topic'[j] : j \in DOMAIN topic'})
      BY <3>3, <3>4
    <3>6. \A j \in 1 .. n + 1 : j = n + 1 \/ j \in 1 .. n
      OBVIOUS
    <3>7. DOMAIN topic = 1 .. n /\ 1 .. n \subseteq 1 .. n + 1
      BY <1>15
    <3>8. \A j \in DOMAIN topic' : topic'[j] = r \/ (j \in DOMAIN topic /\ topic'[j] = topic[j])
      BY <3>3, <3>6, <3>7
    <3>9. DOMAIN topic' = IF f.kept THEN 1 .. n + 1 ELSE 1 .. n
      BY <2>1, <3>3
    <3> QED BY <3>3, <3>5, <3>7, <3>8, <3>9
  <2>2. CASE ~f.kept
    BY <1>4, <1>15, <2>2 DEF WritesInv, TopicOK
  <2> QED BY <2>1, <2>2
<1>17. TopicOK'
  <2>1. r.of = w
    BY <1>3
  <2>2. \A j \in DOMAIN topic' : topic'[j] = r \/ (j \in DOMAIN topic /\ topic'[j] = topic[j])
    BY <1>16
  <2>3. \A j \in DOMAIN topic' : topic'[j].of \in Writes /\ RecordOK(topic'[j].of, wr[topic'[j].of], topic'[j])
    BY <1>12, <2>1, <2>2 DEF WritesInv, TopicOK
  <2>4. \A j \in DOMAIN topic' : topic'[j].of \in Writes /\ RecordOK(topic'[j].of, wr'[topic'[j].of], topic'[j])
    BY <1>14, <2>3
  <2> QED BY <1>1, <1>16, <2>4 DEF TopicOK, RecordOK, TurnedAway
<1>18. LinesQueued'
  <2> SUFFICES ASSUME NEW v \in Writes, NEW i \in DOMAIN wr'[v].lines, wr'[v].lines[i] = 202
               PROVE  \E j \in DOMAIN topic' : topic'[j] = [op_id |-> item_op_id(v, i)', of |-> v, payload |-> wr'[v].items[i]]
    BY DEF LinesQueued
  <2>1. item_op_id(v, i)' = item_op_id(v, i) /\ wr'[v].items = wr[v].items
    BY <1>10, <1>13 DEF item_op_id
  <2>2. CASE v = w /\ i = k
    <3>1. line(f) = 202
      BY <1>8, <1>10, <1>13, <1>2, <2>2
    <3>2. f.kept
      BY <3>1 DEF line, Fates
    <3>3. n + 1 \in DOMAIN topic' /\ topic'[n + 1] = r
      BY <1>16, <3>2
    <3>4. r = [op_id |-> item_op_id(v, i)', of |-> v, payload |-> wr'[v].items[i]]
      BY <1>3, <2>1, <2>2
    <3> QED BY <3>3, <3>4
  <2>3. CASE ~(v = w /\ i = k)
    <3>1. i \in DOMAIN wr[v].lines /\ wr[v].lines[i] = 202
      <4>1. CASE v = w
        <5>1. i \in 1 .. k /\ i # k /\ wr[w].lines[i] = 202
          BY <1>8, <1>10, <1>13, <2>3, <4>1
        <5>2. i \in 1 .. Len(wr[w].lines)
          BY <1>1, <1>2, <5>1
        <5> QED BY <1>1, <4>1, <5>1, <5>2
      <4>2. CASE v # w
        BY <1>10, <4>2
      <4> QED BY <4>1, <4>2
    <3>2. PICK j \in DOMAIN topic : topic[j] = [op_id |-> item_op_id(v, i), of |-> v, payload |-> wr[v].items[i]]
      BY <3>1 DEF WritesInv, LinesQueued
    <3>3. j \in DOMAIN topic' /\ topic'[j] = topic[j]
      BY <1>15, <1>16, <3>2
    <3> QED BY <2>1, <3>2, <3>3
  <2> QED BY <2>2, <2>3
<1> QED BY <1>11, <1>17, <1>18 DEF WritesInv

LEMMA RestartWrites ==
  ASSUME WritesInv, RestartInstance, inst'.setup = inst.setup
  PROVE  WritesInv'
<1>1. /\ UNCHANGED topic /\ wr' = [w \in Writes |-> wr'[w]]
      /\ \A w \in Writes : wr'[w] = IF wr[w].pc = "enqueuing" THEN [wr[w] EXCEPT !.pc = "cut"] ELSE wr[w]
  BY DEF RestartInstance
<1>2. \A w \in Writes : /\ WriteOK(w, wr'[w])
                        /\ wr'[w].ask = wr[w].ask /\ wr'[w].lines = wr[w].lines /\ wr'[w].items = wr[w].items
                        /\ wr'[w].op_id = wr[w].op_id /\ (wr[w].pc # "none" => wr'[w].pc # "none")
  <2> SUFFICES ASSUME NEW w \in Writes
               PROVE  /\ WriteOK(w, wr'[w])
                      /\ wr'[w].ask = wr[w].ask /\ wr'[w].lines = wr[w].lines /\ wr'[w].items = wr[w].items
                      /\ wr'[w].op_id = wr[w].op_id /\ (wr[w].pc # "none" => wr'[w].pc # "none")
    OBVIOUS
  <2>1. PICK x, y : x = wr[w] /\ y = wr'[w]
    OBVIOUS
  <2>2. WriteOK(w, x)
    BY <2>1 DEF WritesInv, WritesOK
  <2>3. CASE x.pc = "enqueuing"
    <3>1. y = [x EXCEPT !.pc = "cut"]
      BY <1>1, <2>1, <2>3
    <3>2. x = [pc |-> x.pc, ask |-> x.ask, op_id |-> x.op_id, items |-> x.items, lines |-> x.lines,
               status |-> x.status, tries |-> x.tries]
      BY <2>2 DEF WriteOK
    <3>3. y = [pc |-> "cut", ask |-> x.ask, op_id |-> x.op_id, items |-> x.items, lines |-> x.lines,
               status |-> x.status, tries |-> x.tries]
      BY <3>1, <3>2
    <3>4. WriteOK(w, y)
      BY <2>2, <2>3, <3>3 DEF WriteOK
    <3> QED BY <2>1, <3>3, <3>4
  <2>4. CASE x.pc # "enqueuing"
    <3>1. y = x
      BY <1>1, <2>1, <2>4
    <3> QED BY <2>1, <2>2, <3>1
  <2> QED BY <2>3, <2>4
<1>3. WritesOK'
  <2> SUFFICES ASSUME NEW v \in Writes PROVE WriteOK(v, wr[v])'
    BY <1>1 DEF WritesOK
  <2>1. PICK y : y = wr'[v]
    OBVIOUS
  <2>2. WriteOK(v, y)
    BY <1>2, <2>1
  <2> QED BY <2>1, <2>2, WriteStays
<1>4. TopicOK'
  <2>1. \A j \in DOMAIN topic : topic[j].of \in Writes /\ RecordOK(topic[j].of, wr[topic[j].of], topic[j])
    BY DEF WritesInv, TopicOK
  <2>2. \A v \in Writes : \A q : RecordOK(v, wr[v], q) => RecordOK(v, wr'[v], q)
    BY <1>2 DEF RecordOK
  <2>3. \A j \in DOMAIN topic : topic[j].of \in Writes /\ RecordOK(topic[j].of, wr'[topic[j].of], topic[j])
    BY <2>1, <2>2
  <2> QED BY <1>1, <2>3 DEF WritesInv, TopicOK, RecordOK, TurnedAway
<1>5. LinesQueued'
  BY <1>1, <1>2 DEF WritesInv, LinesQueued, item_op_id
<1> QED BY <1>3, <1>4, <1>5 DEF WritesInv

FanoutInv == CaptureInv /\ WritesInv

LEMMA FanoutNextInv == FanoutInv /\ [FanoutNext]_fanoutVars => FanoutInv'
<1> SUFFICES ASSUME FanoutInv, [FanoutNext]_fanoutVars PROVE FanoutInv'
  OBVIOUS
<1>1. CaptureInv /\ WritesInv /\ InstOK /\ CaptureInv'
  BY CaptureNextInv DEF FanoutInv, CaptureInv
<1>2. inst = [setup |-> inst.setup, permits |-> inst.permits, seq |-> inst.seq, restarts |-> inst.restarts]
  BY <1>1, SetupTypes
<1>3. WritesInv'
  <2>1. CASE \E e \in Exchanges : \E h \in HeaderLists : capture(e, h)
    <3>1. UNCHANGED <<wr, topic>> /\ (inst' = inst \/ inst' = [inst EXCEPT !.permits = @ - 1])
      BY <2>1 DEF capture, spawn
    <3> QED BY <1>1, <1>2, <3>1, WritesApart
  <2>2. CASE \E e \in Exchanges : deliver(e)
    <3>1. UNCHANGED <<wr, topic>> /\ inst'.setup = inst.setup
      BY <1>2, <2>2 DEF deliver
    <3> QED BY <1>1, <3>1, WritesApart
  <2>3. CASE \E e \in Exchanges : wake(e)
    BY <1>1, <2>3, WritesApart DEF wake
  <2>4. CASE \E w \in Writes : \E ask \in Asks : enqueue_async(w, ask)
    BY <1>1, <2>4, AskStep
  <2>5. CASE \E w \in Writes : enqueue(w)
    BY <1>1, <2>5, EnqueueStep
  <2>6. CASE \E w \in Writes : respond_async(w)
    BY <1>1, <2>6, RespondStep
  <2>7. CASE Consume
    BY <1>1, <2>7, WritesApart DEF Consume
  <2>8. CASE RestartInstance
    <3>1. inst'.setup = inst.setup
      BY <1>2, <2>8 DEF RestartInstance
    <3> QED BY <1>1, <2>8, <3>1, RestartWrites
  <2>9. CASE UNCHANGED fanoutVars
    BY <1>1, <2>9, WritesApart DEF fanoutVars
  <2> QED BY <2>1, <2>2, <2>3, <2>4, <2>5, <2>6, <2>7, <2>8, <2>9 DEF FanoutNext
<1> QED BY <1>1, <1>3 DEF FanoutInv

-----------------------------------------------------------------------------
(* What follows from it. *)

LEMMA QueuedAsAccepted == WritesInv => AcceptedQueued
<1> SUFFICES ASSUME WritesInv, NEW w \in Writes, wr[w].status \in {400, 422}, NEW j \in DOMAIN topic
             PROVE  topic[j].of # w
  BY DEF WritesInv, LinesQueued, AcceptedQueued
<1>1. TurnedAway(wr[w].ask)
  BY DEF WritesInv, WritesOK, WriteOK
<1> QED BY <1>1 DEF WritesInv, TopicOK, RecordOK

\* A set of indexes has a first.
LEMMA FirstOf ==
  ASSUME NEW S \in SUBSET Nat, S # {}
  PROVE  \E x \in S : \A y \in S : ~(y < x)
<1>1. PICK x \in S : \A y \in S : ~(<<y, x>> \in OpToRel(<, Nat))
  BY WFMin, NatLessThanWellFounded
<1>2. \A y \in S : y < x => <<y, x>> \in OpToRel(<, Nat)
  BY DEF OpToRel
<1>3. \A y \in S : ~(y < x)
  BY <1>1, <1>2, Zenon
<1> QED BY <1>3

\* The records of one item of a write under the client's own op id are those of its op
\* id: no other write or item has it, and no other op id has the item.
LEMMA OwnRecords ==
  ASSUME WritesInv, NEW w \in Writes, wr[w].ask.header = "own", wr[w].ask.kind # "dbq",
         NEW k \in DOMAIN wr[w].lines, NEW j \in DOMAIN topic
  PROVE  topic[j].op_id = item_op_id(w, k) <=> topic[j].of = w /\ topic[j].payload = wr[w].items[k]
<1>1. PICK x, r, v : x = wr[w] /\ r = topic[j] /\ v = r.of
  OBVIOUS
<1>2. PICK y : y = wr[v]
  OBVIOUS
<1>3. /\ WriteOK(w, x) /\ v \in Writes /\ RecordOK(v, y, r) /\ x.ask.header = "own" /\ x.ask.kind # "dbq"
      /\ k \in DOMAIN x.lines /\ (v = w => y = x)
  BY <1>1, <1>2 DEF WritesInv, WritesOK, TopicOK
<1>4. /\ x.lines \in Seq({202, 503}) /\ x.ask \in Asks
      /\ x.pc = "none" => x.lines = <<>>
  BY <1>3 DEF WriteOK
<1>5. x.pc # "none" /\ k \in Nat /\ k >= 1 /\ k <= Len(x.lines)
  BY <1>3, <1>4
<1>6. item_op_id(w, k) = IF x.ask.kind = "doc" THEN x.op_id ELSE Append(x.op_id, k)
  BY <1>1 DEF item_op_id
<1>7. x.op_id = <<"own", w>>
  BY <1>3, <1>5 DEF WriteOK
<1>8. CASE x.ask.kind = "doc"
  <2>1. x.items = <<w>> /\ k = 1
    BY <1>3, <1>5, <1>8 DEF WriteOK
  <2>2. x.items[k] = w /\ item_op_id(w, k) = <<"own", w>>
    BY <1>6, <1>7, <1>8, <2>1
  <2>3. ASSUME v = w PROVE r.op_id = <<"own", w>> /\ r.payload = w
    BY <1>3, <1>8, <2>3 DEF RecordOK
  <2>4. ASSUME r.op_id = <<"own", w>> PROVE v = w
    <3>1. r.op_id[1] = "own" /\ r.op_id[2] = w
      BY <2>4
    <3> QED BY <1>3, <3>1 DEF RecordOK
  <2> QED BY <1>1, <2>2, <2>3, <2>4
<1>9. CASE x.ask.kind = "bulk"
  <2>1. x.items = <<<<w, 1>>, <<w, 2>>>> /\ k \in 1 .. 2
    <3>1. x.items = <<<<w, 1>>, <<w, 2>>>> /\ Len(x.lines) <= 2
      BY <1>3, <1>5, <1>9 DEF WriteOK
    <3> QED BY <1>4, <1>5, <3>1
  <2>2. x.items[k] = <<w, k>>
    BY <2>1
  <2>3. item_op_id(w, k) = <<"own", w, k>>
    BY <1>6, <1>7, <1>9, AppendToPair
  <2>4. ASSUME v = w PROVE \E i \in 1 .. 2 : r.op_id = <<"own", w, i>> /\ r.payload = <<w, i>>
    BY <1>3, <1>9, <2>4 DEF RecordOK
  <2>5. ASSUME r.op_id = <<"own", w, k>> PROVE v = w
    <3>1. r.op_id[1] = "own" /\ r.op_id[2] = w
      BY <2>5
    <3> QED BY <1>3, <3>1 DEF RecordOK
  <2>6. \A i \in 1 .. 2 : /\ <<"own", w, i>> = <<"own", w, k>> => i = k
                          /\ <<w, i>> = <<w, k>> => i = k
    OBVIOUS
  <2>7. ASSUME v = w PROVE r.op_id = <<"own", w, k>> <=> r.payload = <<w, k>>
    <3>1. PICK i \in 1 .. 2 : r.op_id = <<"own", w, i>> /\ r.payload = <<w, i>>
      BY <2>4, <2>7
    <3> QED BY <2>6, <3>1
  <2> QED BY <1>1, <2>2, <2>3, <2>5, <2>7
<1> QED BY <1>3, <1>4, <1>8, <1>9 DEF Asks

LEMMA AppliedOnce == WritesInv => RetryCollapses
<1> SUFFICES ASSUME WritesInv, NEW w \in Writes, wr[w].ask.header = "own", wr[w].ask.kind # "dbq",
                    NEW k \in Accepted(w)
             PROVE  Cardinality(AppliedAs(w, k)) = 1
  BY DEF RetryCollapses
<1>1. k \in DOMAIN wr[w].lines /\ wr[w].lines[k] = 202
  BY DEF Accepted
<1>2. PICK id : id = item_op_id(w, k)
  OBVIOUS
<1>3. PICK n \in Nat : n = Len(topic) /\ DOMAIN topic = 1 .. n
  BY DEF WritesInv, TopicOK
<1>4. \A j \in 1 .. n : topic[j].op_id = id <=> topic[j].of = w /\ topic[j].payload = wr[w].items[k]
  BY <1>1, <1>2, <1>3, OwnRecords
<1>5. PICK j0 \in 1 .. n : topic[j0].op_id = id
  <2>1. PICK j \in DOMAIN topic : topic[j] = [op_id |-> item_op_id(w, k), of |-> w, payload |-> wr[w].items[k]]
    BY <1>1 DEF WritesInv, LinesQueued
  <2>2. topic[j].op_id = item_op_id(w, k)
    BY <2>1
  <2> QED BY <1>2, <1>3, <2>1, <2>2
<1>6. PICK S : S = {j \in 1 .. n : topic[j].op_id = id}
  OBVIOUS
<1>7. S \in SUBSET Nat /\ S # {}
  BY <1>5, <1>6
<1>8. PICK first \in S : \A j \in S : ~(j < first)
  BY <1>7, FirstOf
<1>9. first \in 1 .. n /\ topic[first].op_id = id /\ first \in Nat
  BY <1>6, <1>8
<1>10. \A j \in 1 .. first - 1 : topic[j].op_id # id
  BY <1>3, <1>6, <1>8, <1>9
<1>11. first \in AppliedAs(w, k)
  BY <1>3, <1>4, <1>9, <1>10 DEF AppliedAs, Applied
<1>12. ASSUME NEW j \in AppliedAs(w, k) PROVE j = first
  <2>1. j \in 1 .. n /\ topic[j].op_id = id
    BY <1>3, <1>4 DEF AppliedAs, Applied
  <2>2. \A i \in 1 .. j - 1 : topic[i].op_id # topic[j].op_id
    BY DEF AppliedAs, Applied
  <2>3. j \in S /\ ~(j < first)
    BY <1>6, <1>8, <2>1
  <2>4. ~(first < j)
    BY <1>9, <2>1, <2>2
  <2> QED BY <1>9, <2>1, <2>3, <2>4
<1>13. AppliedAs(w, k) = {first}
  BY <1>11, <1>12
<1> QED BY <1>13, FS_Singleton

\* What a client is told was accepted is in the topic under the op id it was told, of what
\* it is told was turned away nothing is, and a document or bulk sent again under the
\* client's own op id is applied once: for any writes, retries, lost acknowledgements
\* and restarts.
THEOREM FanoutAcceptedOnce == FanoutSpec => []AcceptedOnce
<1>1. FanoutInit => FanoutInv
  BY CaptureInitInv, WritesInitInv DEF FanoutInv
<1>2. FanoutInv => AcceptedOnce
  BY QueuedAsAccepted, AppliedOnce DEF FanoutInv, AcceptedOnce
<1> QED BY <1>1, <1>2, FanoutNextInv, PTL DEF FanoutSpec

-----------------------------------------------------------------------------
(* Induction, by the least number for which something were not so. *)

LEMMA LeastExists ==
  ASSUME NEW S \in SUBSET Nat, S # {}
  PROVE  \E x \in S : \A y \in S : x <= y
<1>1. PICK x \in S : \A y \in S : ~(y < x)
  BY FirstOf
<1>2. \A y \in S : x <= y
  BY <1>1
<1> QED BY <1>2

-----------------------------------------------------------------------------
(* The spill buffer: the broker sees only what produce took. *)

\* A log is a sequence of cells, and the bodies in it are of records that were taken.
Fine(log, taken) ==
  /\ \E S : log \in Seq(S)
  /\ \A i \in 1 .. Len(log) : log[i].kind = "body" => log[i].rec \in taken

LEMMA FineConcat ==
  ASSUME NEW a, NEW b, NEW taken, Fine(a, taken), Fine(b, taken)
  PROVE  Fine(a \o b, taken)
<1>1. PICK A : a \in Seq(A)
  BY DEF Fine
<1>2. PICK B : b \in Seq(B)
  BY DEF Fine
<1>3. a \in Seq(A \cup B) /\ b \in Seq(A \cup B)
  BY <1>1, <1>2
<1>4. a \o b \in Seq(A \cup B)
  BY <1>3
<1>5. ASSUME NEW i \in 1 .. Len(a \o b), (a \o b)[i].kind = "body"
      PROVE  (a \o b)[i].rec \in taken
  <2>1. Len(a \o b) = Len(a) + Len(b) /\ Len(a) \in Nat /\ Len(b) \in Nat
    BY <1>3
  <2>2. CASE i <= Len(a)
    <3>1. (a \o b)[i] = a[i] /\ i \in 1 .. Len(a)
      BY <1>3, <2>1, <2>2
    <3> QED BY <1>5, <3>1 DEF Fine
  <2>3. CASE i > Len(a)
    <3>1. (a \o b)[i] = b[i - Len(a)] /\ i - Len(a) \in 1 .. Len(b)
      BY <1>3, <2>1, <2>3
    <3> QED BY <1>5, <3>1 DEF Fine
  <2> QED BY <2>1, <2>2, <2>3
<1> QED BY <1>4, <1>5 DEF Fine

LEMMA FineSub ==
  ASSUME NEW log, NEW taken, Fine(log, taken), NEW m \in Nat \ {0}, NEW n \in Nat, n <= Len(log)
  PROVE  Fine(SubSeq(log, m, n), taken)
<1>1. PICK A : log \in Seq(A)
  BY DEF Fine
<1>2. SubSeq(log, m, n) \in Seq(A)
  BY <1>1
<1>3. ASSUME NEW i \in 1 .. Len(SubSeq(log, m, n))
      PROVE  SubSeq(log, m, n)[i] = log[m + i - 1] /\ m + i - 1 \in 1 .. Len(log)
  BY <1>1
<1> QED BY <1>2, <1>3 DEF Fine

LEMMA FineOne ==
  ASSUME NEW cell, NEW taken, cell.kind = "body" => cell.rec \in taken
  PROVE  Fine(<<cell>>, taken)
<1>1. PICK one : one = <<cell>>
  OBVIOUS
<1>2. one \in Seq({cell}) /\ Len(one) = 1 /\ one[1] = cell
  BY <1>1
<1>3. Fine(one, taken)
  BY <1>2 DEF Fine
<1> QED BY <1>1, <1>3

LEMMA FineMore ==
  ASSUME NEW log, NEW taken, NEW more, Fine(log, taken), taken \subseteq more
  PROVE  Fine(log, more)
  BY DEF Fine

FineWal(w, taken) ==
  /\ w = [log |-> w.log, synced |-> w.synced, ckpt |-> w.ckpt, write_offset |-> w.write_offset,
          read_offset |-> w.read_offset]
  /\ Fine(w.log, taken) /\ Fine(w.synced, taken)
  /\ w.ckpt \in Nat
  /\ w.write_offset \in 0 .. Len(w.log) /\ w.read_offset \in 0 .. Len(w.log)

LEMMA FineLen ==
  ASSUME NEW log, NEW taken, Fine(log, taken)
  PROVE  Len(log) \in Nat
  BY DEF Fine

LEMMA OpenFine ==
  ASSUME NEW log, NEW synced, NEW ckpt \in Nat, NEW taken, Fine(log, taken), Fine(synced, taken)
  PROVE  FineWal(open(log, ckpt, synced), taken)
<1>1. PICK end \in Nat : end = Len(log)
  BY FineLen
<1>2. PICK at \in 0 .. end : at = IF ckpt < end THEN ckpt ELSE end
  OBVIOUS
<1>3. PICK w : w = open(log, ckpt, synced)
  OBVIOUS
<1>4. w = [log |-> log, synced |-> synced, ckpt |-> ckpt, write_offset |-> end, read_offset |-> at]
  BY <1>1, <1>2, <1>3 DEF open
<1>5. /\ w.log = log /\ w.synced = synced /\ w.ckpt = ckpt /\ w.write_offset = end /\ w.read_offset = at
  BY <1>4
<1> QED BY <1>1, <1>3, <1>4, <1>5 DEF FineWal

LEMMA WriteFine ==
  ASSUME NEW log, NEW taken, NEW content, Fine(log, taken), Fine(content, taken),
         NEW at \in 0 .. Len(log)
  PROVE  /\ Fine(write_at(log, at, content), taken)
         /\ Len(write_at(log, at, content)) \in Nat
         /\ Len(write_at(log, at, content)) >= at + 1 + Len(content)
         /\ Len(write_at(log, at, content)) >= Len(log)
<1>1. PICK head, header, rest :
        /\ head = SubSeq(log, 1, at) /\ header = <<Header(content)>>
        /\ rest = SubSeq(log, at + Len(content) + 2, Len(log))
  OBVIOUS
<1>2. Len(log) \in Nat /\ Len(content) \in Nat
  BY FineLen
<1>3. PICK from \in Nat \ {0} : from = at + Len(content) + 2
  BY <1>2
<1>4. Fine(head, taken)
  BY <1>1, <1>2, FineSub
<1>5. Fine(rest, taken)
  <2>1. rest = SubSeq(log, from, Len(log))
    BY <1>1, <1>3
  <2> QED BY <1>2, <2>1, FineSub
<1>6. Fine(header, taken)
  <2>1. Header(content).kind # "body"
    BY DEF Header
  <2> QED BY <1>1, <2>1, FineOne
<1>7. PICK one, two, all : one = head \o header /\ two = one \o content /\ all = two \o rest
  OBVIOUS
<1>8. all = write_at(log, at, content)
  BY <1>1, <1>7 DEF write_at
<1>9. Fine(one, taken)
  BY <1>4, <1>6, <1>7, FineConcat
<1>10. Fine(two, taken)
  BY <1>7, <1>9, FineConcat
<1>11. Fine(all, taken)
  BY <1>5, <1>7, <1>10, FineConcat
<1>12. Len(one) = at + 1
  <2>1. PICK A : log \in Seq(A)
    BY DEF Fine
  <2>2. head \in Seq(A) /\ Len(head) = at
    BY <1>1, <2>1
  <2>3. Len(header) = 1
    BY <1>1
  <2>4. PICK A1, B : head \in Seq(A1) /\ header \in Seq(B)
    BY <1>4, <1>6 DEF Fine
  <2>5. Len(head \o header) = Len(head) + Len(header)
    BY <2>4
  <2> QED BY <1>7, <2>2, <2>3, <2>5
<1>13. Len(two) = at + 1 + Len(content)
  <2>1. PICK A, B : one \in Seq(A) /\ content \in Seq(B)
    BY <1>9 DEF Fine
  <2>2. Len(one \o content) = Len(one) + Len(content)
    BY <2>1
  <2> QED BY <1>7, <1>12, <2>2
<1>14. Len(all) = at + 1 + Len(content) + Len(rest) /\ Len(rest) \in Nat
  <2>1. PICK A, B : two \in Seq(A) /\ rest \in Seq(B)
    BY <1>5, <1>10 DEF Fine
  <2>2. Len(two \o rest) = Len(two) + Len(rest)
    BY <2>1
  <2> QED BY <1>5, <1>7, <1>13, <2>2, FineLen
<1>15. at + 1 + Len(content) < Len(log) => Len(rest) = Len(log) - (at + 1 + Len(content))
  <2>1. PICK A : log \in Seq(A)
    BY DEF Fine
  <2>2. PICK end \in Nat : end = Len(log)
    BY <1>2
  <2>3. rest = SubSeq(log, from, end)
    BY <1>1, <1>3, <2>2
  <2>4. from <= end => Len(rest) = end - from + 1
    BY <2>1, <2>2, <2>3
  <2> QED BY <1>2, <1>3, <2>2, <2>4
<1>16. Len(all) \in Nat /\ Len(all) >= at + 1 + Len(content) /\ Len(all) >= Len(log)
  BY <1>2, <1>14, <1>15
<1> QED BY <1>8, <1>11, <1>16

LEMMA AppendFine ==
  ASSUME NEW w, NEW taken, NEW r \in taken, FineWal(w, taken)
  PROVE  FineWal(append(w, r), taken) /\ Len(append(w, r).log) >= Len(w.log)
<1>1. PICK body : body = <<Body(r)>>
  OBVIOUS
<1>2. Fine(body, taken) /\ Len(body) = 1
  <2>1. Body(r).kind = "body" => Body(r).rec \in taken
    BY DEF Body
  <2> QED BY <1>1, <2>1, FineOne
<1>3. PICK log, at, next : log = write_at(w.log, w.write_offset, body) /\ at = w.write_offset /\ next = at + 2
  OBVIOUS
<1>4. Len(w.log) \in Nat
  BY FineLen DEF FineWal
<1>5. /\ Fine(log, taken) /\ Len(log) \in Nat
      /\ Len(log) >= w.write_offset + 1 + Len(body) /\ Len(log) >= Len(w.log)
  BY <1>2, <1>3, WriteFine DEF FineWal
<1>6. PICK new : new = append(w, r)
  OBVIOUS
<1>7. new = [w EXCEPT !.log = log, !.write_offset = next]
  BY <1>1, <1>3, <1>6 DEF append, FineWal
<1>8. new = [log |-> log, synced |-> w.synced, ckpt |-> w.ckpt, write_offset |-> next, read_offset |-> w.read_offset]
  BY <1>7 DEF FineWal
<1>9. /\ new.log = log /\ new.synced = w.synced /\ new.ckpt = w.ckpt
      /\ new.write_offset = next /\ new.read_offset = w.read_offset
  BY <1>8
<1>10. next \in 0 .. Len(log) /\ w.read_offset \in 0 .. Len(log)
  BY <1>2, <1>3, <1>4, <1>5 DEF FineWal
<1>11. FineWal(new, taken)
  BY <1>5, <1>8, <1>9, <1>10 DEF FineWal
<1> QED BY <1>5, <1>6, <1>9, <1>11

\* What read_frame() finds is a body that lies in the log.
LEMMA ReadFine ==
  ASSUME NEW log, NEW taken, NEW at \in Nat, Fine(log, taken), read_frame(log, at) # NoRecord
  PROVE  read_frame(log, at).rec \in taken /\ read_frame(log, at).next \in 0 .. Len(log)
<1>1. PICK content, end, found :
        content = log[at + 1].of /\ end = at + 1 + Len(content) /\ found = read_frame(log, at)
  OBVIOUS
<1>2. /\ end <= Len(log) /\ SubSeq(log, at + 2, end) = content /\ decodes(content)
      /\ found = [rec |-> content[1].rec, next |-> end]
  BY <1>1 DEF read_frame
<1>3. Len(content) = 1 /\ content[1].kind = "body"
  BY <1>2 DEF decodes
<1>4. end = at + 2 /\ Len(log) \in Nat
  BY <1>1, <1>3, FineLen
<1>5. PICK A : log \in Seq(A)
  BY DEF Fine
<1>6. PICK k \in 1 .. Len(log) : k = at + 2
  BY <1>2, <1>4
<1>7. content = SubSeq(log, k, k)
  BY <1>2, <1>4, <1>6
<1>8. content[1] = log[k]
  BY <1>5, <1>7
<1>9. content[1].rec \in taken
  BY <1>3, <1>8 DEF Fine
<1>10. found.rec = content[1].rec /\ found.next = end
  BY <1>2
<1>11. end \in 0 .. Len(log)
  BY <1>2, <1>4
<1> QED BY <1>1, <1>9, <1>10, <1>11

LEMMA CommitFine ==
  ASSUME NEW w, NEW taken, FineWal(w, taken), NEW next \in 0 .. Len(w.log)
  PROVE  FineWal(commit(w, next), taken) /\ commit(w, next).log = w.log
<1>1. PICK new : new = commit(w, next)
  OBVIOUS
<1>2. new = [log |-> w.log, synced |-> w.synced, ckpt |-> next, write_offset |-> w.write_offset, read_offset |-> next]
  BY <1>1 DEF commit, FineWal
<1>3. /\ new.log = w.log /\ new.synced = w.synced /\ new.ckpt = next
      /\ new.write_offset = w.write_offset /\ new.read_offset = next
  BY <1>2
<1>4. next \in Nat
  BY FineLen DEF FineWal
<1> QED BY <1>1, <1>2, <1>3, <1>4 DEF FineWal

LEMMA DropFine ==
  ASSUME NEW w, NEW taken, FineWal(w, taken)
  PROVE  FineWal(drop_tail(w), taken) /\ drop_tail(w).log = w.log
<1>1. PICK new : new = drop_tail(w)
  OBVIOUS
<1>2. new = [log |-> w.log, synced |-> w.synced, ckpt |-> w.ckpt, write_offset |-> w.read_offset,
             read_offset |-> w.read_offset]
  BY <1>1 DEF drop_tail, FineWal
<1>3. /\ new.log = w.log /\ new.synced = w.synced /\ new.ckpt = w.ckpt
      /\ new.write_offset = w.read_offset /\ new.read_offset = w.read_offset
  BY <1>2
<1> QED BY <1>1, <1>2, <1>3 DEF FineWal

LEMMA SyncFine ==
  ASSUME NEW w, NEW taken, FineWal(w, taken)
  PROVE  FineWal(sync(w), taken)
<1>1. PICK new : new = sync(w)
  OBVIOUS
<1>2. new = [log |-> w.log, synced |-> w.log, ckpt |-> w.ckpt, write_offset |-> w.write_offset,
             read_offset |-> w.read_offset]
  BY <1>1 DEF sync, FineWal
<1>3. /\ new.log = w.log /\ new.synced = w.log /\ new.ckpt = w.ckpt
      /\ new.write_offset = w.write_offset /\ new.read_offset = w.read_offset
  BY <1>2
<1> QED BY <1>1, <1>2, <1>3 DEF FineWal

\* A compaction copies cells that were there, and a header.
LEMMA MoveFine ==
  ASSUME NEW w, NEW taken, FineWal(w, taken)
  PROVE  Fine(copied(w), taken) /\ Fine(move_live(w).log, taken)
<1>1. PICK tail : tail = live(w)
  OBVIOUS
<1>2. Len(w.log) \in Nat
  BY FineLen DEF FineWal
<1>3. Fine(tail, taken)
  <2>1. PICK m \in Nat \ {0} : m = w.read_offset + 1
    BY DEF FineWal
  <2>2. PICK n \in Nat : n = w.write_offset /\ n <= Len(w.log)
    BY <1>2 DEF FineWal
  <2>3. tail = SubSeq(w.log, m, n)
    BY <1>1, <2>1, <2>2 DEF live
  <2> QED BY <2>2, <2>3, FineSub DEF FineWal
<1>4. PICK whole : whole = copied(w)
  OBVIOUS
<1>5. Fine(whole, taken) /\ Len(tail) \in Nat /\ Len(tail) <= Len(whole)
  <2>1. Len(tail) \in Nat
    BY <1>3, FineLen
  <2>2. CASE tail = <<>>
    <3>1. whole = w.log
      BY <1>1, <1>4, <2>2 DEF copied
    <3>2. Len(tail) = 0
      BY <2>2
    <3> QED BY <1>2, <3>1, <3>2 DEF FineWal
  <2>3. CASE tail # <<>>
    <3>1. whole = write_at(w.log, 0, tail)
      BY <1>1, <1>4, <2>3 DEF copied
    <3>2. 0 \in 0 .. Len(w.log)
      BY <1>2
    <3>3. Fine(whole, taken) /\ Len(whole) \in Nat /\ Len(whole) >= 0 + 1 + Len(tail)
      BY <1>3, <3>1, <3>2, WriteFine DEF FineWal
    <3> QED BY <2>1, <3>3
  <2> QED BY <2>2, <2>3
<1>6. PICK cut : cut = SubSeq(whole, 1, Len(tail))
  OBVIOUS
<1>7. Fine(cut, taken)
  BY <1>5, <1>6, FineSub
<1>8. move_live(w).log = cut
  BY <1>1, <1>4, <1>6 DEF move_live, FineWal
<1> QED BY <1>4, <1>5, <1>7, <1>8

LEMMA CompactFine ==
  ASSUME NEW w, NEW taken, FineWal(w, taken)
  PROVE  FineWal(maybe_compact(w), taken)
<1>1. CASE ~must_compact(w)
  BY <1>1 DEF maybe_compact
<1>2. CASE must_compact(w)
  <2>1. PICK log : log = SubSeq(copied(w), 1, Len(live(w)))
    OBVIOUS
  <2>2. move_live(w) = [w EXCEPT !.log = log, !.synced = log, !.write_offset = Len(log), !.read_offset = 0]
    BY <2>1 DEF move_live
  <2>3. PICK zero, end : zero = 0 /\ end = Len(log)
    OBVIOUS
  <2>4. move_live(w) = [log |-> log, synced |-> log, ckpt |-> w.ckpt, write_offset |-> end, read_offset |-> zero]
    BY <2>2, <2>3 DEF FineWal
  <2>5. Fine(log, taken)
    <3>1. move_live(w).log = log
      BY <2>4
    <3> QED BY <3>1, MoveFine
  <2>6. PICK new : new = maybe_compact(w)
    OBVIOUS
  <2>7. new = [log |-> log, synced |-> log, ckpt |-> zero, write_offset |-> end, read_offset |-> zero]
    BY <1>2, <2>3, <2>4, <2>6 DEF maybe_compact
  <2>8. new.log = log /\ new.synced = log /\ new.ckpt = zero /\ new.write_offset = end /\ new.read_offset = zero
    BY <2>7
  <2>9. Len(log) \in Nat
    BY <2>5, FineLen
  <2> QED BY <2>3, <2>5, <2>6, <2>7, <2>8, <2>9 DEF FineWal
<1> QED BY <1>1, <1>2

DrainerPcs == {"poll", "sweep", "parked", "sending", "acked"}

\* The record in hand was taken, and its frame ends inside the log.
FineHand(d, w, taken) ==
  d.pc \in {"sending", "acked"} => d.hand.rec \in taken /\ d.hand.next \in 0 .. Len(w.log)

TakenInv ==
  /\ accepted \in Seq(Nat) /\ delivered \in Seq(Nat) /\ produced \in Nat
  /\ drainer = [pc |-> drainer.pc, hand |-> drainer.hand]
  /\ FineWal(wal, Range(accepted)) /\ FineHand(drainer, wal, Range(accepted))

LEMMA TakenInit == WalInit => TakenInv
<1> SUFFICES ASSUME WalInit PROVE TakenInv
  OBVIOUS
<1>1. PICK empty, zero, taken : empty = <<>> /\ zero = 0 /\ taken = Range(accepted)
  OBVIOUS
<1>2. Fine(empty, taken)
  <2>1. empty \in Seq({}) /\ Len(empty) = 0
    BY <1>1
  <2> QED BY <2>1 DEF Fine
<1>3. wal = open(empty, zero, empty) /\ zero \in Nat
  BY <1>1 DEF WalInit
<1>4. FineWal(wal, taken)
  BY <1>2, <1>3, OpenFine
<1>5. drainer.pc = "poll" /\ drainer = [pc |-> drainer.pc, hand |-> drainer.hand]
  BY DEF WalInit, Poll
<1> QED BY <1>1, <1>4, <1>5 DEF WalInit, TakenInv, FineHand

\* A step that leaves the records alone and polls or opens anew keeps the invariant.
LEMMA ToPoll ==
  ASSUME TakenInv, UNCHANGED accepted, delivered' \in Seq(Nat), produced' \in Nat,
         drainer' = Poll, FineWal(wal', Range(accepted))
  PROVE  TakenInv'
<1>1. drainer'.pc = "poll" /\ drainer' = [pc |-> drainer'.pc, hand |-> drainer'.hand]
  BY DEF Poll
<1> QED BY <1>1 DEF TakenInv, FineHand

LEMMA TakenProduce == TakenInv /\ produce => TakenInv'
<1> SUFFICES ASSUME TakenInv, produce PROVE TakenInv'
  OBVIOUS
<1>1. PICK w, r, taken, more : w = wal /\ r = produced + 1 /\ taken = Range(accepted) /\ more = Range(accepted')
  OBVIOUS
<1>2. accepted' \in Seq(Nat) /\ taken \subseteq more /\ r \in more /\ r \in Nat
  <2>1. r \in Nat /\ accepted \in Seq(Nat) /\ accepted' = Append(accepted, r)
    BY <1>1 DEF TakenInv, produce
  <2>2. /\ accepted' \in Seq(Nat) /\ Len(accepted') = Len(accepted) + 1
        /\ \A k \in 1 .. Len(accepted) : accepted'[k] = accepted[k]
        /\ accepted'[Len(accepted) + 1] = r
    BY <2>1
  <2>3. DOMAIN accepted = 1 .. Len(accepted) /\ DOMAIN accepted' = 1 .. Len(accepted') /\ Len(accepted) \in Nat
    BY <2>1, <2>2
  <2> QED BY <1>1, <2>1, <2>2, <2>3 DEF Range
<1>3. FineWal(w, more)
  BY <1>1, <1>2, FineMore DEF TakenInv, FineWal
<1>4. wal' = append(w, r)
  BY <1>1 DEF produce
<1>5. FineWal(wal', more) /\ Len(wal'.log) >= Len(w.log)
  BY <1>2, <1>3, <1>4, AppendFine
<1>6. FineHand(drainer', wal', more)
  <2>1. Len(w.log) \in Nat /\ Len(wal'.log) \in Nat
    BY <1>3, <1>5, FineLen DEF FineWal
  <2>2. FineHand(drainer, w, taken) /\ drainer' = drainer
    BY <1>1 DEF TakenInv, produce
  <2>3. 0 .. Len(w.log) \subseteq 0 .. Len(wal'.log)
    BY <1>5, <2>1
  <2>4. ASSUME drainer'.pc \in {"sending", "acked"}
        PROVE  drainer'.hand.rec \in taken /\ drainer'.hand.next \in 0 .. Len(w.log)
    BY <2>2, <2>4 DEF FineHand
  <2> QED BY <1>2, <2>3, <2>4 DEF FineHand
<1> QED BY <1>1, <1>2, <1>5, <1>6 DEF TakenInv, produce

LEMMA TakenDrain == TakenInv /\ DrainStep => TakenInv'
<1> SUFFICES ASSUME TakenInv, DrainStep PROVE TakenInv'
  OBVIOUS
<1>1. PICK w, d, taken : w = wal /\ d = drainer /\ taken = Range(accepted)
  OBVIOUS
<1>2. FineWal(w, taken) /\ FineHand(d, w, taken) /\ d = [pc |-> d.pc, hand |-> d.hand]
  BY <1>1 DEF TakenInv
<1>3. UNCHANGED <<produced, accepted, delivered>>
  BY DEF DrainStep, drain_next, drain_sweep, drain_wake, drain_commit
<1>4. CASE drain_next
  <2>1. PICK found : found = IF caught_up(w) THEN NoRecord ELSE read_frame(w.log, w.read_offset)
    OBVIOUS
  <2>2. CASE found = NoRecord
    <3>1. drainer' = [pc |-> "sweep", hand |-> NoRecord] /\ (wal' = w \/ wal' = drop_tail(w))
      BY <1>1, <1>4, <2>1, <2>2 DEF drain_next
    <3>2. FineWal(wal', taken)
      BY <1>2, <3>1, DropFine
    <3>3. drainer'.pc = "sweep" /\ drainer' = [pc |-> drainer'.pc, hand |-> drainer'.hand]
      BY <3>1
    <3> QED BY <1>1, <1>3, <3>2, <3>3 DEF TakenInv, FineHand
  <2>3. CASE found # NoRecord
    <3>1. drainer' = [pc |-> "sending", hand |-> found] /\ wal' = w
      BY <1>1, <1>4, <2>1, <2>3 DEF drain_next
    <3>2. found = read_frame(w.log, w.read_offset)
      BY <2>1, <2>3
    <3>3. PICK at \in Nat : at = w.read_offset
      BY <1>2 DEF FineWal
    <3>4. found.rec \in taken /\ found.next \in 0 .. Len(w.log)
      BY <1>2, <2>3, <3>2, <3>3, ReadFine DEF FineWal
    <3>5. drainer'.pc = "sending" /\ drainer'.hand = found /\ drainer' = [pc |-> drainer'.pc, hand |-> drainer'.hand]
      BY <3>1
    <3>6. FineHand(drainer', wal', taken)
      BY <3>1, <3>4, <3>5 DEF FineHand
    <3> QED BY <1>1, <1>2, <1>3, <3>1, <3>5, <3>6 DEF TakenInv
  <2> QED BY <2>2, <2>3
<1>5. CASE drain_sweep
  <2>1. wal' = maybe_compact(sync(w)) /\ drainer' = [d EXCEPT !.pc = "parked"]
    BY <1>1, <1>5 DEF drain_sweep
  <2>2. FineWal(sync(w), taken)
    BY <1>2, SyncFine
  <2>3. FineWal(wal', taken)
    BY <2>1, <2>2, CompactFine
  <2>4. drainer'.pc = "parked" /\ drainer' = [pc |-> drainer'.pc, hand |-> drainer'.hand]
    BY <1>2, <2>1
  <2> QED BY <1>1, <1>3, <2>3, <2>4 DEF TakenInv, FineHand
<1>6. CASE drain_wake
  BY <1>1, <1>2, <1>3, <1>6, ToPoll DEF drain_wake, TakenInv
<1>7. CASE drain_commit
  <2>1. PICK next \in 0 .. Len(w.log) : next = d.hand.next
    BY <1>1, <1>2, <1>7 DEF drain_commit, FineHand
  <2>2. PICK committed : committed = commit(w, next)
    OBVIOUS
  <2>3. wal' = committed \/ wal' = maybe_compact(sync(committed))
    BY <1>1, <1>7, <2>1, <2>2 DEF drain_commit
  <2>4. FineWal(committed, taken)
    BY <1>2, <2>2, CommitFine
  <2>5. FineWal(wal', taken)
    BY <2>3, <2>4, SyncFine, CompactFine
  <2> QED BY <1>1, <1>3, <1>7, <2>5, ToPoll DEF drain_commit, TakenInv
<1> QED BY <1>4, <1>5, <1>6, <1>7 DEF DrainStep

\* A header torn off its body is no body.
LEMMA TornFine ==
  ASSUME NEW w, NEW taken, FineWal(w, taken), NEW content
  PROVE  Fine(Append(SubSeq(w.log, 1, w.write_offset), Header(content))
                \o SubSeq(w.log, w.write_offset + 2, Len(w.log)), taken)
<1>1. PICK head, rest, cell :
        /\ head = SubSeq(w.log, 1, w.write_offset) /\ cell = Header(content)
        /\ rest = SubSeq(w.log, w.write_offset + 2, Len(w.log))
  OBVIOUS
<1>2. Len(w.log) \in Nat /\ w.write_offset \in Nat /\ w.write_offset <= Len(w.log)
  BY FineLen DEF FineWal
<1>3. Fine(head, taken)
  <2>1. PICK log, first, end : /\ log = w.log /\ first = 1 /\ end = w.write_offset
                              /\ first \in Nat \ {0} /\ end \in Nat
    BY <1>2
  <2>2. Fine(log, taken) /\ end <= Len(log)
    BY <1>2, <2>1 DEF FineWal
  <2>3. head = SubSeq(log, first, end)
    BY <1>1, <2>1
  <2> QED BY <2>1, <2>2, <2>3, FineSub
<1>4. PICK from \in Nat \ {0} : from = w.write_offset + 2
  BY <1>2
<1>5. rest = SubSeq(w.log, from, Len(w.log))
  BY <1>1, <1>4
<1>6. Fine(rest, taken)
  BY <1>2, <1>5, FineSub DEF FineWal
<1>7. PICK one : one = <<cell>>
  OBVIOUS
<1>8. Fine(one, taken)
  <2>1. cell.kind # "body"
    BY <1>1 DEF Header
  <2> QED BY <1>7, <2>1, FineOne
<1>9. PICK A : head \in Seq(A)
  BY <1>3 DEF Fine
<1>10. Append(head, cell) = head \o one
  <2>1. PICK B : A \subseteq B /\ cell \in B
    <3>1. A \subseteq A \cup {cell} /\ cell \in A \cup {cell}
      OBVIOUS
    <3> QED BY <3>1
  <2>2. head \in Seq(B)
    BY <1>9, <2>1
  <2> QED BY <1>7, <2>1, <2>2
<1>11. PICK start : start = head \o one
  OBVIOUS
<1>12. Fine(start, taken)
  BY <1>3, <1>8, <1>11, FineConcat
<1>13. Fine(start \o rest, taken)
  BY <1>6, <1>12, FineConcat
<1> QED BY <1>1, <1>10, <1>11, <1>13

LEMMA TornLonger ==
  ASSUME NEW w, NEW taken, FineWal(w, taken), NEW content
  PROVE  LET log == Append(SubSeq(w.log, 1, w.write_offset), Header(content))
                      \o SubSeq(w.log, w.write_offset + 2, Len(w.log))
         IN  Len(log) \in Nat /\ Len(log) >= Len(w.log)
<1>1. PICK log, end, at, cell : /\ log = w.log /\ end = Len(log) /\ at = w.write_offset /\ cell = Header(content)
                                /\ end \in Nat /\ at \in 0 .. end
  BY FineLen DEF FineWal
<1>2. PICK A : log \in Seq(A)
  BY <1>1 DEF FineWal, Fine
<1>3. PICK B : log \in Seq(B) /\ cell \in B
  <2>1. log \in Seq(A \cup {cell}) /\ cell \in A \cup {cell}
    BY <1>2
  <2> QED BY <2>1
<1>4. PICK head, rest : head = SubSeq(log, 1, at) /\ rest = SubSeq(log, at + 2, end)
  OBVIOUS
<1>5. head \in Seq(B) /\ Len(head) = at
  BY <1>1, <1>3, <1>4
<1>6. rest \in Seq(B) /\ (at + 2 <= end => Len(rest) = end - at - 1)
  <2>1. PICK from : from = at + 2 /\ from \in Nat \ {0}
    BY <1>1
  <2>2. rest = SubSeq(log, from, end)
    BY <1>4, <2>1
  <2>3. rest \in Seq(B) /\ (from <= end => Len(rest) = end - from + 1)
    <3>1. log \in Seq(B) /\ end = Len(log) /\ end \in Nat /\ from \in Nat \ {0}
      BY <1>1, <1>3, <2>1
    <3>2. rest \in Seq(B)
      BY ONLY <2>2, <3>1
    <3>3. from <= end => Len(rest) = end - from + 1
      BY ONLY <2>2, <3>1
    <3> QED BY <3>2, <3>3
  <2>4. at + 2 <= end => from <= end /\ end - from + 1 = end - at - 1
    BY <1>1, <2>1
  <2> QED BY ONLY <2>3, <2>4
<1>7. PICK start : start = Append(head, cell)
  OBVIOUS
<1>8. start \in Seq(B) /\ Len(start) = at + 1
  BY <1>3, <1>5, <1>7
<1>9. PICK whole, more : whole = start \o rest /\ more = Len(rest)
  OBVIOUS
<1>10. Len(whole) = at + 1 + more /\ more \in Nat
  <2>1. start \in Seq(B) /\ rest \in Seq(B) /\ Len(start) = at + 1
    BY <1>6, <1>8
  <2>2. Len(start \o rest) = Len(start) + Len(rest) /\ Len(rest) \in Nat
    <3>1. Len(rest) \in Nat
      BY ONLY <2>1
    <3>2. Len(start \o rest) = Len(start) + Len(rest)
      BY ONLY <2>1, ConcatProperties
    <3> QED BY <3>1, <3>2
  <2> QED BY ONLY <1>9, <2>1, <2>2
<1>11. at + 2 <= end => more = end - at - 1
  BY <1>6, <1>9
<1>12. Len(whole) \in Nat /\ Len(whole) >= end
  BY ONLY <1>1, <1>10, <1>11
<1> QED BY <1>1, <1>4, <1>7, <1>9, <1>12

LEMMA TakenFault == TakenInv /\ FaultStep => TakenInv'
<1> SUFFICES ASSUME TakenInv, FaultStep PROVE TakenInv'
  OBVIOUS
<1>1. PICK w, d, taken : w = wal /\ d = drainer /\ taken = Range(accepted)
  OBVIOUS
<1>2. FineWal(w, taken) /\ FineHand(d, w, taken) /\ d = [pc |-> d.pc, hand |-> d.hand]
  BY <1>1 DEF TakenInv
<1>3. UNCHANGED <<accepted, delivered>> /\ produced' \in Nat
  BY DEF FaultStep, restart, ack_lost, kill_commit, kill_append, disk_full, kill_compact, power_loss, TakenInv
<1>4. ASSUME NEW log, NEW ckpt \in Nat, NEW synced, Fine(log, taken), Fine(synced, taken), Reopen(log, ckpt, synced)
      PROVE  TakenInv'
  <2>1. wal' = open(log, ckpt, synced) /\ drainer' = Poll
    BY <1>4 DEF Reopen
  <2>2. FineWal(wal', taken)
    BY <1>4, <2>1, OpenFine
  <2> QED BY <1>1, <1>3, <2>1, <2>2, ToPoll DEF TakenInv
<1>5. w.ckpt \in Nat /\ 0 \in Nat /\ Fine(w.log, taken) /\ Fine(w.synced, taken)
  BY <1>2 DEF FineWal
<1>6. CASE restart
  <2>1. Reopen(w.log, w.ckpt, w.synced)
    BY <1>1, <1>6 DEF restart
  <2> QED BY <1>4, <1>5, <2>1
<1>7. CASE ack_lost
  BY <1>1, <1>2, <1>3, <1>7, ToPoll DEF ack_lost, TakenInv
<1>8. CASE kill_commit
  <2>1. Reopen(w.log, 0, w.synced)
    BY <1>1, <1>8 DEF kill_commit
  <2> QED BY <1>4, <1>5, <2>1
<1>9. CASE kill_append
  <2>1. PICK content : content = <<Body(produced + 1)>>
    OBVIOUS
  <2>2. PICK log : log = Append(SubSeq(w.log, 1, w.write_offset), Header(content))
                           \o SubSeq(w.log, w.write_offset + 2, Len(w.log))
    OBVIOUS
  <2>3. Fine(log, taken)
    BY <1>2, <2>2, TornFine
  <2>4. Reopen(log, w.ckpt, w.synced)
    BY <1>1, <1>9, <2>1, <2>2 DEF kill_append
  <2> QED BY <1>4, <1>5, <2>3, <2>4
<1>10. CASE disk_full
  <2>1. PICK content : content = <<Body(produced + 1)>>
    OBVIOUS
  <2>2. PICK log : log = Append(SubSeq(w.log, 1, w.write_offset), Header(content))
                           \o SubSeq(w.log, w.write_offset + 2, Len(w.log))
    OBVIOUS
  <2>3. Fine(log, taken)
    BY <1>2, <2>2, TornFine
  <2>4. wal' = [w EXCEPT !.log = log]
    BY <1>1, <1>10, <2>1, <2>2 DEF disk_full
  <2>5. wal' = [log |-> log, synced |-> w.synced, ckpt |-> w.ckpt, write_offset |-> w.write_offset,
                read_offset |-> w.read_offset]
    BY <1>2, <2>4 DEF FineWal
  <2>6. /\ wal'.log = log /\ wal'.synced = w.synced /\ wal'.ckpt = w.ckpt
        /\ wal'.write_offset = w.write_offset /\ wal'.read_offset = w.read_offset
    BY <2>5
  <2>7. Len(w.log) \in Nat /\ Len(log) \in Nat /\ Len(log) >= Len(w.log)
    BY <1>2, <2>2, TornLonger, FineLen DEF FineWal
  <2>8. 0 .. Len(w.log) \subseteq 0 .. Len(log)
    BY <2>7
  <2>9. FineWal(wal', taken)
    BY <1>2, <2>3, <2>5, <2>6, <2>8 DEF FineWal
  <2>10. drainer' = d
    BY <1>1, <1>10 DEF disk_full
  <2>11. FineHand(drainer', wal', taken)
    BY <1>2, <2>6, <2>8, <2>10 DEF FineHand
  <2> QED BY <1>1, <1>2, <1>3, <2>9, <2>10, <2>11 DEF TakenInv
<1>11. CASE kill_compact
  <2>1. PICK v : v = IF d.pc = "acked" THEN commit(w, d.hand.next) ELSE w
    OBVIOUS
  <2>2. FineWal(v, taken)
    <3>1. CASE d.pc = "acked"
      <4>1. PICK next \in 0 .. Len(w.log) : next = d.hand.next
        BY <1>2, <3>1 DEF FineHand
      <4> QED BY <1>2, <2>1, <3>1, <4>1, CommitFine
    <3>2. CASE d.pc # "acked"
      BY <1>2, <2>1, <3>2
    <3> QED BY <3>1, <3>2
  <2>3. PICK log : log \in {copied(v), move_live(v).log} /\ Reopen(log, v.ckpt, log)
    BY <1>1, <1>11, <2>1 DEF kill_compact
  <2>4. Fine(log, taken)
    BY <2>2, <2>3, MoveFine
  <2>5. v.ckpt \in Nat
    BY <2>2 DEF FineWal
  <2> QED BY <1>4, <2>3, <2>4, <2>5
<1>12. CASE power_loss
  <2>1. PICK cut \in 0 .. Len(w.log) :
          Reopen(SubSeq(w.log, 1, cut) \o SubSeq(w.synced, cut + 1, Len(w.synced)), w.ckpt,
                 SubSeq(w.log, 1, cut) \o SubSeq(w.synced, cut + 1, Len(w.synced)))
    BY <1>1, <1>12 DEF power_loss
  <2>2. Len(w.log) \in Nat /\ Len(w.synced) \in Nat
    BY <1>5, FineLen
  <2>3. PICK head, rest : head = SubSeq(w.log, 1, cut) /\ rest = SubSeq(w.synced, cut + 1, Len(w.synced))
    OBVIOUS
  <2>4. Fine(head, taken)
    <3>1. cut \in Nat /\ cut <= Len(w.log) /\ 1 \in Nat \ {0}
      BY <2>2
    <3> QED BY <1>5, <2>3, <3>1, FineSub
  <2>5. Fine(rest, taken)
    <3>1. PICK from \in Nat \ {0} : from = cut + 1
      BY <2>2
    <3>2. Len(w.synced) <= Len(w.synced)
      BY <2>2
    <3> QED BY <1>5, <2>2, <2>3, <3>1, <3>2, FineSub
  <2>6. PICK log : log = head \o rest
    OBVIOUS
  <2>7. Fine(log, taken)
    BY <2>4, <2>5, <2>6, FineConcat
  <2>8. Reopen(log, w.ckpt, log)
    BY <2>1, <2>3, <2>6
  <2> QED BY <1>4, <1>5, <2>7, <2>8
<1> QED BY <1>6, <1>7, <1>8, <1>9, <1>10, <1>11, <1>12 DEF FaultStep

LEMMA TakenNext == TakenInv /\ [WalNext]_walVars => TakenInv'
<1> SUFFICES ASSUME TakenInv, [WalNext]_walVars PROVE TakenInv'
  OBVIOUS
<1>1. CASE produce
  BY <1>1, TakenProduce
<1>2. CASE produce_full
  BY <1>2 DEF produce_full, TakenInv, FineHand
<1>3. CASE DrainStep
  BY <1>3, TakenDrain
<1>4. CASE broker_stores
  <2>1. PICK d, r : d = drainer /\ r = d.hand.rec
    OBVIOUS
  <2>2. /\ d = [pc |-> d.pc, hand |-> d.hand] /\ d.pc = "sending" /\ drainer' = [d EXCEPT !.pc = "acked"]
        /\ wal' = wal /\ accepted' = accepted /\ produced' = produced /\ delivered' = Append(delivered, r)
    BY <1>4, <2>1 DEF broker_stores, TakenInv
  <2>3. r \in Range(accepted) /\ d.hand.next \in 0 .. Len(wal.log)
    BY <2>1, <2>2 DEF TakenInv, FineHand
  <2>4. r \in Nat
    <3>1. accepted \in Seq(Nat)
      BY DEF TakenInv
    <3> QED BY <2>3, <3>1 DEF Range
  <2>5. delivered' \in Seq(Nat)
    BY <2>2, <2>4 DEF TakenInv
  <2>6. drainer'.pc = "acked" /\ drainer'.hand = d.hand /\ drainer' = [pc |-> drainer'.pc, hand |-> drainer'.hand]
    BY <2>2
  <2> QED BY <2>1, <2>2, <2>3, <2>5, <2>6 DEF TakenInv, FineHand
<1>5. CASE send_fails
  BY <1>5, ToPoll DEF send_fails, TakenInv
<1>6. CASE FaultStep
  BY <1>6, TakenFault
<1>7. CASE UNCHANGED walVars
  BY <1>7 DEF walVars, TakenInv, FineHand
<1> QED BY <1>1, <1>2, <1>3, <1>4, <1>5, <1>6, <1>7 DEF WalNext

\* The broker sees only what produce() took, whatever faults there are: a torn, refused or
\* half-copied record never reaches it (segment.rs read_frame, maybe_compact).
THEOREM WalOnlyAccepted == WalSpec => OnlyAccepted
<1>1. TakenInv /\ [WalNext]_walVars => [Range(delivered') \subseteq Range(delivered) \cup Range(accepted)]_walVars
  <2> SUFFICES ASSUME TakenInv, WalNext PROVE Range(delivered') \subseteq Range(delivered) \cup Range(accepted)
    OBVIOUS
  <2>1. CASE broker_stores
    <3>1. PICK r : r = drainer.hand.rec
      OBVIOUS
    <3>2. delivered \in Seq(Nat) /\ delivered' = Append(delivered, r) /\ r \in Range(accepted)
      BY <2>1, <3>1 DEF broker_stores, TakenInv, FineHand
    <3>3. /\ DOMAIN delivered = 1 .. Len(delivered) /\ DOMAIN delivered' = 1 .. Len(delivered) + 1
          /\ Len(delivered) \in Nat
          /\ \A k \in 1 .. Len(delivered) + 1 : delivered'[k] = IF k <= Len(delivered) THEN delivered[k] ELSE r
      <4>1. r \in Nat
        <5>1. accepted \in Seq(Nat)
          BY DEF TakenInv
        <5> QED BY <3>2, <5>1 DEF Range
      <4> QED BY <3>2, <4>1
    <3> QED BY <3>2, <3>3 DEF Range
  <2>2. CASE ~broker_stores
    <3>1. UNCHANGED delivered
      BY <2>2 DEF WalNext, produce, produce_full, DrainStep, drain_next, drain_sweep, drain_wake, drain_commit,
                  send_fails, FaultStep, restart, ack_lost, kill_commit, kill_append, disk_full, kill_compact, power_loss
    <3> QED BY <3>1
  <2> QED BY <2>1, <2>2
<1> QED BY <1>1, TakenInit, TakenNext, PTL DEF WalSpec, OnlyAccepted

-----------------------------------------------------------------------------
(* The spill buffer: what was taken is delivered or in the log. *)

\* The log is the frames of the last n records taken, of which the first m are behind the
\* read cursor and the checkpoint.
Laid(w, taken, n, m) ==
  /\ n \in Nat /\ m \in 0 .. n /\ n <= Len(taken) /\ 2 * n <= MaxBytes
  /\ w = [log |-> w.log, synced |-> w.synced, ckpt |-> 2 * m, write_offset |-> 2 * n, read_offset |-> 2 * m]
  /\ (\E S : w.log \in Seq(S)) /\ Len(w.log) = 2 * n
  /\ \A i \in 1 .. n : /\ w.log[2 * i - 1] = Header(<<Body(taken[Len(taken) - n + i])>>)
                       /\ w.log[2 * i] = Body(taken[Len(taken) - n + i])

LEMMA ReadsFrame ==
  ASSUME NEW S, NEW log \in Seq(S), NEW at \in Nat, at + 2 <= Len(log), NEW r,
         log[at + 1] = Header(<<Body(r)>>), log[at + 2] = Body(r)
  PROVE  read_frame(log, at) = [rec |-> r, next |-> at + 2]
<1>1. PICK body, content : body = Body(r) /\ content = <<body>>
  OBVIOUS
<1>2. body.rec = r /\ body.kind = "body"
  BY <1>1 DEF Body
<1>3. Len(content) = 1 /\ content[1] = body
  BY <1>1
<1>4. log[at + 1].of = content
  BY <1>1 DEF Header
<1>5. PICK k : k = at + 2 /\ k \in 1 .. Len(log)
  OBVIOUS
<1>6. SubSeq(log, k, k) = content
  <2>1. PICK sub : sub = SubSeq(log, k, k)
    OBVIOUS
  <2>2. sub \in Seq(S) /\ Len(sub) = 1 /\ sub[1] = log[k]
    BY <1>5, <2>1
  <2>3. log[k] = body /\ body \in S
    BY <1>1, <1>5
  <2>4. sub = <<sub[1]>>
    BY <2>2
  <2> QED BY <1>1, <2>1, <2>2, <2>3, <2>4
<1>7. at + 1 + Len(content) = k /\ k <= Len(log) /\ ~(at >= Len(log))
  BY <1>3, <1>5
<1>8. decodes(content)
  BY <1>2, <1>3 DEF decodes
<1>9. read_frame(log, at) = [rec |-> content[1].rec, next |-> k]
  BY <1>4, <1>5, <1>6, <1>7, <1>8 DEF read_frame
<1> QED BY <1>2, <1>3, <1>5, <1>9

LEMMA ReadsNoBody ==
  ASSUME NEW S, NEW log \in Seq(S), NEW at \in Nat, at + 1 <= Len(log), NEW r, log[at + 1] = Body(r)
  PROVE  read_frame(log, at) = NoRecord
<1>1. PICK empty : empty = <<>>
  OBVIOUS
<1>2. log[at + 1].of = empty
  BY <1>1 DEF Body
<1>3. ~decodes(empty)
  BY <1>1 DEF decodes
<1> QED BY <1>2, <1>3 DEF read_frame

\* The frames of a log that is laid out so.
LEMMA LaidReads ==
  ASSUME NEW w, NEW taken, NEW n, NEW m, Laid(w, taken, n, m)
  PROVE  /\ \A k \in 0 .. n - 1 :
              read_frame(w.log, 2 * k) = [rec |-> taken[Len(taken) - n + (k + 1)], next |-> 2 * k + 2]
         /\ \A k \in 0 .. n - 1 : read_frame(w.log, 2 * k + 1) = NoRecord
<1>1. PICK S, log : log = w.log /\ log \in Seq(S)
  BY DEF Laid
<1>2. n \in Nat /\ Len(log) = 2 * n
  BY <1>1 DEF Laid
<1>3. ASSUME NEW k \in 0 .. n - 1
      PROVE  /\ read_frame(log, 2 * k) = [rec |-> taken[Len(taken) - n + (k + 1)], next |-> 2 * k + 2]
             /\ read_frame(log, 2 * k + 1) = NoRecord
  <2>1. PICK i, at, odd, r :
          /\ i = k + 1 /\ at = 2 * k /\ odd = 2 * k + 1 /\ r = taken[Len(taken) - n + i]
          /\ i \in 1 .. n /\ at \in Nat /\ odd \in Nat
    BY <1>2
  <2>2. log[2 * i - 1] = Header(<<Body(r)>>) /\ log[2 * i] = Body(r)
    BY <1>1, <2>1 DEF Laid
  <2>3. 2 * i - 1 = at + 1 /\ 2 * i = at + 2 /\ at + 2 = odd + 1 /\ at + 2 <= Len(log)
    BY <1>2, <2>1
  <2>4. log[at + 1] = Header(<<Body(r)>>) /\ log[at + 2] = Body(r) /\ log[odd + 1] = Body(r)
    BY <2>2, <2>3
  <2>5. read_frame(log, at) = [rec |-> r, next |-> at + 2]
    BY <1>1, <2>1, <2>3, <2>4, ReadsFrame
  <2>6. read_frame(log, odd) = NoRecord
    BY <1>1, <2>1, <2>3, <2>4, ReadsNoBody
  <2> QED BY <2>1, <2>5, <2>6
<1> QED BY <1>1, <1>3

\* What pending() gives at an offset, by what it gives at others.
Following(f, w, at) ==
  LET found == read_frame(w.log, at)
  IN IF at >= w.write_offset \/ found = NoRecord THEN <<>>
     ELSE <<found.rec>> \o (IF found.next <= w.write_offset THEN f[found.next] ELSE <<>>)

LEMMA PendingChosen ==
  ASSUME NEW w
  PROVE  pending(w) = (CHOOSE f : f = [at \in 0 .. w.write_offset |-> Following(f, w, at)])[w.read_offset]
  BY DEF pending, Following

LEMMA Halves ==
  ASSUME NEW n \in Nat, NEW at \in 0 .. 2 * n
  PROVE  (\E k \in 0 .. n : at = 2 * k) \/ (\E k \in 0 .. n - 1 : at = 2 * k + 1)
<1>1. PICK k : k = at \div 2
  OBVIOUS
<1>2. k \in Nat /\ (at = 2 * k \/ at = 2 * k + 1)
  BY <1>1
<1> QED BY <1>2

\* The records of the last k frames.
LastOf(taken, k) == SubSeq(taken, Len(taken) - k + 1, Len(taken))

LEMMA LastOfFacts ==
  ASSUME NEW T, NEW taken \in Seq(T), NEW k \in 0 .. Len(taken)
  PROVE  /\ LastOf(taken, k) \in Seq(T) /\ Len(LastOf(taken, k)) = k
         /\ \A i \in 1 .. k : LastOf(taken, k)[i] = taken[Len(taken) - k + i]
<1>0. PICK first, end, s : first = Len(taken) - k + 1 /\ end = Len(taken) /\ s = SubSeq(taken, first, end)
  OBVIOUS
<1>1. /\ first = Len(taken) - k + 1 /\ end = Len(taken) /\ s = SubSeq(taken, first, end)
      /\ first \in 1 .. end + 1 /\ end \in Nat
  <2>1. Len(taken) \in Nat
    OBVIOUS
  <2> QED BY <1>0, <2>1
<1>2. s \in Seq(T) /\ Len(s) = end - first + 1 /\ \A i \in 1 .. Len(s) : s[i] = taken[first + i - 1]
  BY <1>1
<1>3. end - first + 1 = k /\ \A i \in 1 .. k : first + i - 1 = Len(taken) - k + i
  BY <1>1
<1>4. LastOf(taken, k) = s
  BY <1>1 DEF LastOf
<1> QED BY <1>2, <1>3, <1>4

LEMMA LastOfMore ==
  ASSUME NEW T, NEW taken \in Seq(T), NEW k \in 1 .. Len(taken)
  PROVE  LastOf(taken, k) = <<taken[Len(taken) - k + 1]>> \o LastOf(taken, k - 1)
<1>0. PICK j, s, t, r, c : /\ j = k - 1 /\ s = LastOf(taken, k) /\ t = LastOf(taken, j)
                           /\ r = taken[Len(taken) - k + 1] /\ c = <<r>> \o t
  OBVIOUS
<1>1. /\ j = k - 1 /\ s = LastOf(taken, k) /\ t = LastOf(taken, j)
      /\ r = taken[Len(taken) - k + 1] /\ c = <<r>> \o t
      /\ j \in 0 .. Len(taken) /\ k \in 0 .. Len(taken)
  <2>1. Len(taken) \in Nat
    OBVIOUS
  <2> QED BY <1>0, <2>1
<1>2. s \in Seq(T) /\ Len(s) = k /\ \A i \in 1 .. k : s[i] = taken[Len(taken) - k + i]
  BY <1>1, LastOfFacts
<1>3. t \in Seq(T) /\ Len(t) = j /\ \A i \in 1 .. j : t[i] = taken[Len(taken) - j + i]
  BY <1>1, LastOfFacts
<1>4. r \in T
  BY <1>1
<1>5. c \in Seq(T) /\ Len(c) = k /\ \A i \in 1 .. k : c[i] = IF i = 1 THEN r ELSE t[i - 1]
  BY <1>1, <1>3, <1>4
<1>6. ASSUME NEW i \in 1 .. k
      PROVE  s[i] = c[i]
  <2>1. CASE i = 1
    BY <1>1, <1>2, <1>5, <2>1
  <2>2. CASE i # 1
    <3>1. i - 1 \in 1 .. j /\ Len(taken) - j + (i - 1) = Len(taken) - k + i
      BY <1>1, <2>2
    <3>2. t[i - 1] = taken[Len(taken) - k + i]
      BY <1>3, <3>1
    <3> QED BY <1>2, <1>5, <2>2, <3>2
  <2> QED BY <2>1, <2>2
<1>7. s = c
  BY <1>2, <1>5, <1>6, SeqEqual
<1> QED BY <1>1, <1>7

\* A function that gives the last frames' records at every offset of a frame, and nothing
\* elsewhere, follows itself: what pending() chooses exists.
LEMMA PendingExists ==
  ASSUME NEW w, NEW T, NEW taken \in Seq(T), NEW n, NEW m, Laid(w, taken, n, m)
  PROVE  \E f : f = [at \in 0 .. w.write_offset |-> Following(f, w, at)]
<1>1. n \in Nat /\ n <= Len(taken) /\ w.write_offset = 2 * n /\ Len(taken) \in Nat
  BY DEF Laid
<1>2. PICK empty : empty = <<>>
  OBVIOUS
<1> DEFINE Left(at) == CHOOSE k \in 0 .. n : at = 2 * (n - k)
           Even(at) == \E k \in 0 .. n : at = 2 * (n - k)
<1>3. PICK g : g = [at \in 0 .. 2 * n |-> IF Even(at) THEN LastOf(taken, Left(at)) ELSE empty]
  OBVIOUS
<1>4. ASSUME NEW k \in 0 .. n
      PROVE  2 * (n - k) \in 0 .. 2 * n /\ g[2 * (n - k)] = LastOf(taken, k)
  <2>1. PICK at : at = 2 * (n - k) /\ at \in 0 .. 2 * n
    BY <1>1
  <2>2. \A j \in 0 .. n : at = 2 * (n - j) => j = k
    BY <1>1, <2>1
  <2>3. Even(at) /\ Left(at) = k
    BY <2>1, <2>2
  <2> QED BY <1>3, <2>1, <2>3
<1>5. ASSUME NEW at \in 0 .. 2 * n
      PROVE  g[at] = Following(g, w, at)
  <2>1. CASE at = 2 * n
    <3>1. g[2 * (n - 0)] = LastOf(taken, 0) /\ 2 * (n - 0) = at
      BY <1>1, <1>4, <2>1
    <3>2. LastOf(taken, 0) = empty
      <4>1. 0 \in 0 .. Len(taken)
        BY <1>1
      <4>2. LastOf(taken, 0) \in Seq(T) /\ Len(LastOf(taken, 0)) = 0
        BY <4>1, LastOfFacts
      <4> QED BY <1>2, <4>2
    <3>3. at >= w.write_offset
      BY <1>1, <2>1
    <3> QED BY <1>2, <3>1, <3>2, <3>3 DEF Following
  <2>2. ASSUME NEW j \in 0 .. n - 1, at = 2 * j
        PROVE  g[at] = Following(g, w, at)
    <3>1. PICK k, l, r, next :
            /\ k = n - j /\ l = k - 1 /\ next = 2 * j + 2 /\ r = taken[Len(taken) - n + (j + 1)]
            /\ k \in 1 .. n /\ k \in 0 .. n /\ l \in 0 .. n
      BY <1>1
    <3>2. 2 * (n - k) = at /\ 2 * (n - l) = next /\ Len(taken) - n + (j + 1) = Len(taken) - k + 1 /\ k \in 1 .. Len(taken)
      BY <1>1, <2>2, <3>1
    <3>3. g[at] = LastOf(taken, k) /\ g[next] = LastOf(taken, l)
      BY <1>4, <3>1, <3>2
    <3>4. LastOf(taken, k) = <<r>> \o LastOf(taken, l)
      BY <3>1, <3>2, LastOfMore
    <3>5. PICK found : found = read_frame(w.log, at)
      OBVIOUS
    <3>6. found = [rec |-> r, next |-> next]
      BY <2>2, <3>1, <3>5, LaidReads
    <3>7. found.rec = r /\ found.next = next
      BY <3>6
    <3>8. found # NoRecord
      <4>1. next # 0
        BY <3>1
      <4> QED BY <3>7, <4>1 DEF NoRecord
    <3>9. ~(at >= w.write_offset) /\ next <= w.write_offset
      BY <1>1, <2>2, <3>1
    <3>10. Following(g, w, at) = <<r>> \o g[next]
      BY <3>5, <3>7, <3>8, <3>9 DEF Following
    <3> QED BY <3>3, <3>4, <3>10
  <2>3. ASSUME NEW j \in 0 .. n - 1, at = 2 * j + 1
        PROVE  g[at] = Following(g, w, at)
    <3>1. ~Even(at)
      BY <1>1, <2>3
    <3>2. g[at] = empty
      BY <1>3, <3>1
    <3>3. read_frame(w.log, at) = NoRecord
      BY <2>3, LaidReads
    <3> QED BY <1>2, <3>2, <3>3 DEF Following
  <2>4. (\E j \in 0 .. n : at = 2 * j) \/ (\E j \in 0 .. n - 1 : at = 2 * j + 1)
    BY <1>1, Halves
  <2>5. ASSUME NEW j \in 0 .. n
        PROVE  j = n \/ j \in 0 .. n - 1
    BY <1>1
  <2> QED BY <2>1, <2>2, <2>3, <2>4, <2>5
<1>6. g = [at \in 0 .. w.write_offset |-> Following(g, w, at)]
  BY <1>1, <1>3, <1>5
<1> QED BY <1>6

\* What a reader starting at the read cursor will find is what was taken last: by the
\* least number of frames left for which it were not so.
LEMMA PendingIs ==
  ASSUME NEW w, NEW T, NEW taken \in Seq(T), NEW n, NEW m, Laid(w, taken, n, m)
  PROVE  pending(w) = LastOf(taken, n - m)
<1>1. /\ n \in Nat /\ m \in 0 .. n /\ n <= Len(taken) /\ Len(taken) \in Nat
      /\ w.write_offset = 2 * n /\ w.read_offset = 2 * m
  BY DEF Laid
<1>2. PICK f : /\ f = [at \in 0 .. w.write_offset |-> Following(f, w, at)]
               /\ pending(w) = f[w.read_offset]
  BY PendingExists, PendingChosen, Zenon
<1>3. ASSUME NEW at \in 0 .. 2 * n
      PROVE  f[at] = Following(f, w, at)
  BY <1>1, <1>2
<1> DEFINE Wrong == {k \in 0 .. n : f[2 * (n - k)] # LastOf(taken, k)}
<1>4. ASSUME NEW k \in Wrong, \A y \in Wrong : k <= y
      PROVE  FALSE
  <2>0. k \in 0 .. n /\ f[2 * (n - k)] # LastOf(taken, k)
    OBVIOUS
  <2>1. CASE k = 0
    <3>1. PICK at : at = 2 * (n - k) /\ at \in 0 .. 2 * n /\ at >= w.write_offset
      BY <1>1, <2>1
    <3>2. f[at] = <<>>
      BY <1>3, <3>1 DEF Following
    <3>3. 0 \in 0 .. Len(taken)
      BY <1>1
    <3>4. LastOf(taken, 0) \in Seq(T) /\ Len(LastOf(taken, 0)) = 0
      BY <3>3, LastOfFacts
    <3>5. LastOf(taken, 0) = <<>>
      BY <3>4
    <3> QED BY <2>0, <2>1, <3>1, <3>2, <3>5
  <2>2. CASE k # 0
    <3>1. PICK j, l, at, next : j = n - k /\ l = k - 1 /\ at = 2 * j /\ next = 2 * j + 2
      OBVIOUS
    <3>2. /\ j \in 0 .. n - 1 /\ l \in 0 .. n /\ at \in 0 .. 2 * n /\ k \in 1 .. Len(taken)
          /\ at = 2 * (n - k) /\ next = 2 * (n - l) /\ Len(taken) - n + (j + 1) = Len(taken) - k + 1
          /\ ~(at >= w.write_offset) /\ next <= w.write_offset /\ next # 0 /\ ~(k <= l)
      BY <1>1, <2>0, <2>2, <3>1
    <3>3. PICK r, found : r = taken[Len(taken) - n + (j + 1)] /\ found = read_frame(w.log, at)
      OBVIOUS
    <3>4. found = [rec |-> r, next |-> next]
      <4>1. Laid(w, taken, n, m)
        OBVIOUS
      <4>2. /\ \A i \in 0 .. n - 1 :
                 read_frame(w.log, 2 * i) = [rec |-> taken[Len(taken) - n + (i + 1)], next |-> 2 * i + 2]
            /\ \A i \in 0 .. n - 1 : read_frame(w.log, 2 * i + 1) = NoRecord
        BY ONLY <4>1, LaidReads, Zenon
      <4>3. j \in 0 .. n - 1
        BY <3>2
      <4> QED BY ONLY <3>1, <3>3, <4>2, <4>3
    <3>5. found.rec = r /\ found.next = next
      BY <3>4
    <3>6. found # NoRecord
      BY <3>2, <3>5 DEF NoRecord
    <3>7. f[at] = <<r>> \o f[next]
      BY <1>3, <3>2, <3>3, <3>5, <3>6 DEF Following
    <3>8. f[next] = LastOf(taken, l)
      BY <1>4, <3>2
    <3>9. LastOf(taken, k) = <<r>> \o LastOf(taken, l)
      BY <3>1, <3>2, <3>3, LastOfMore
    <3> QED BY <2>0, <3>2, <3>7, <3>8, <3>9
  <2> QED BY <2>1, <2>2
<1>5. Wrong = {}
  <2>1. Wrong \in SUBSET Nat
    BY <1>1
  <2>2. Wrong # {} => \E x \in Wrong : \A y \in Wrong : x <= y
    BY <2>1, LeastExists
  <2> QED BY <1>4, <2>2
<1>6. PICK k : k = n - m /\ k \in 0 .. n /\ 2 * (n - k) = w.read_offset
  BY <1>1
<1>7. f[2 * (n - k)] = LastOf(taken, k)
  BY <1>5, <1>6
<1> QED BY <1>2, <1>6, <1>7

-----------------------------------------------------------------------------

\* The records before the last `left' are with the broker.
Stored(left) == \A j \in 1 .. Len(accepted) - left : accepted[j] \in Range(delivered)

\* The record in hand is the first of those left, and with the broker once it is acked.
InHand(n, m) ==
  /\ drainer.pc \in {"sending", "acked"} =>
       /\ m < n
       /\ drainer.hand.rec = accepted[Len(accepted) - (n - m) + 1] /\ drainer.hand.next = 2 * (m + 1)
  /\ drainer.pc = "acked" => accepted[Len(accepted) - (n - m) + 1] \in Range(delivered)

Kept(n, m) == Laid(wal, accepted, n, m) /\ Stored(n - m) /\ InHand(n, m)

LogTypes ==
  /\ accepted \in Seq(Nat) /\ delivered \in Seq(Nat) /\ produced \in Nat
  /\ drainer = [pc |-> drainer.pc, hand |-> drainer.hand]

LogInv == TakenInv /\ (torn \/ \E n, m \in Nat : Kept(n, m))

LEMMA TakenTypes == TakenInv => LogTypes
  BY DEF TakenInv, LogTypes

LEMMA KeptNoLoss ==
  ASSUME LogInv
  PROVE  NoLoss
<1>1. SUFFICES ASSUME ~torn, NEW r \in Range(accepted) PROVE r \in Range(delivered) \cup Range(pending(wal))
  BY DEF NoLoss
<1>2. PICK n \in Nat, m \in Nat : Kept(n, m)
  BY <1>1 DEF LogInv
<1>3. PICK w, taken, left : w = wal /\ taken = accepted /\ left = n - m
  OBVIOUS
<1>4. taken \in Seq(Nat) /\ Laid(w, taken, n, m) /\ m <= n /\ n <= Len(taken)
  BY <1>2, <1>3, TakenTypes DEF Kept, LogInv, LogTypes, Laid
<1>5. pending(w) = LastOf(taken, left)
  BY <1>3, <1>4, PendingIs
<1>6. left \in 0 .. Len(taken) /\ Len(taken) \in Nat
  BY <1>3, <1>4
<1>7. PICK s : s = pending(w) /\ s \in Seq(Nat) /\ Len(s) = left /\ \A i \in 1 .. left : s[i] = taken[Len(taken) - left + i]
  <2>1. PICK s : s = LastOf(taken, left)
    OBVIOUS
  <2>2. s \in Seq(Nat) /\ Len(s) = left /\ \A i \in 1 .. left : s[i] = taken[Len(taken) - left + i]
    BY <1>4, <1>6, <2>1, LastOfFacts
  <2> QED BY <1>5, <2>1, <2>2
<1>8. PICK j \in 1 .. Len(taken) : r = taken[j]
  BY <1>1, <1>3, <1>4 DEF Range
<1>9. CASE j <= Len(taken) - left
  BY <1>2, <1>3, <1>6, <1>8, <1>9 DEF Kept, Stored
<1>10. CASE ~(j <= Len(taken) - left)
  <2>1. PICK i : i = j - (Len(taken) - left) /\ i \in 1 .. left /\ Len(taken) - left + i = j
    BY <1>6, <1>10
  <2>2. s[i] = r /\ i \in DOMAIN s
    BY <1>7, <1>8, <2>1
  <2> QED BY <1>3, <1>7, <2>2 DEF Range
<1> QED BY <1>9, <1>10

LEMMA LogInit == WalInit => LogInv
<1> SUFFICES ASSUME WalInit PROVE LogInv
  OBVIOUS
<1>1. PICK empty, zero : empty = <<>> /\ zero = 0
  OBVIOUS
<1>2. wal = [log |-> empty, synced |-> empty, ckpt |-> zero, write_offset |-> zero, read_offset |-> zero]
  BY <1>1 DEF WalInit, open
<1>3. zero = 2 * 0 /\ zero \in Nat /\ zero \in 0 .. zero /\ 2 * zero = zero /\ empty \in Seq(Nat) /\ Len(empty) = 2 * zero
  BY <1>1
<1>4. accepted = empty /\ delivered = empty /\ Len(accepted) = 0 /\ produced = 0
  BY <1>1 DEF WalInit
<1>5. wal.log = empty /\ wal.synced = empty
  BY <1>2
<1>6. Laid(wal, accepted, zero, zero)
  BY <1>1, <1>2, <1>3, <1>4, <1>5, WalAssumption DEF Laid
<1>7. drainer.pc = "poll" /\ drainer = [pc |-> drainer.pc, hand |-> drainer.hand]
  BY DEF WalInit, Poll
<1>8. Stored(zero - zero) /\ InHand(zero, zero)
  BY <1>1, <1>4, <1>7 DEF Stored, InHand
<1>9. Kept(zero, zero)
  BY <1>6, <1>8 DEF Kept
<1> QED BY <1>3, <1>9, TakenInit DEF LogInv

\* A log that is another one and one more frame.
OneMore(new, log, r) ==
  /\ \E T : new \in Seq(T)
  /\ Len(new) = Len(log) + 2 /\ \A i \in 1 .. Len(log) : new[i] = log[i]
  /\ new[Len(log) + 1] = Header(<<Body(r)>>) /\ new[Len(log) + 2] = Body(r)

LEMMA WriteAtEnd ==
  ASSUME NEW S, NEW log \in Seq(S), NEW r
  PROVE  OneMore(write_at(log, Len(log), <<Body(r)>>), log, r)
<1>1. PICK body, content, header, end :
        body = Body(r) /\ content = <<body>> /\ header = Header(content) /\ end = Len(log)
  OBVIOUS
<1>2. PICK T : S \subseteq T /\ body \in T /\ header \in T
  <2>1. S \subseteq S \cup {body, header} /\ body \in S \cup {body, header} /\ header \in S \cup {body, header}
    OBVIOUS
  <2> QED BY <2>1
<1>3. log \in Seq(T) /\ end \in Nat
  BY <1>1, <1>2
<1>4. SubSeq(log, 1, end) = log
  BY <1>1, <1>3
<1>5. PICK from, rest : from = end + 1 + 2 /\ rest = SubSeq(log, from, end) /\ from \in Nat
  <2>1. PICK from : from = end + 1 + 2 /\ from \in Nat
    BY <1>3
  <2> QED BY <2>1
<1>6. rest \in Seq(T) /\ Len(rest) = 0
  BY <1>1, <1>3, <1>5
<1>7. rest = <<>>
  BY <1>6
<1>8. PICK one, two, new : one = log \o <<header>> /\ two = one \o content /\ new = two \o rest
  OBVIOUS
<1>9. /\ one \in Seq(T) /\ Len(one) = end + 1 /\ one[end + 1] = header
      /\ \A i \in 1 .. end : one[i] = log[i]
  BY <1>1, <1>2, <1>3, <1>8
<1>10. /\ two \in Seq(T) /\ Len(two) = end + 2 /\ two[end + 2] = body
       /\ \A i \in 1 .. end + 1 : two[i] = one[i]
  BY <1>1, <1>2, <1>3, <1>8, <1>9
<1>11. new = two
  BY <1>7, <1>8, <1>10
<1>12. /\ new \in Seq(T) /\ Len(new) = end + 2 /\ new[end + 1] = header /\ new[end + 2] = body
       /\ \A i \in 1 .. end : new[i] = log[i]
  BY <1>3, <1>9, <1>10, <1>11
<1>13. Len(content) = 1
  BY <1>1
<1>14. write_at(log, end, content) = new
  <2>1. end + Len(content) + 2 = from
    BY <1>3, <1>5, <1>13
  <2>2. write_at(log, end, content) = SubSeq(log, 1, end) \o <<Header(content)>> \o content \o SubSeq(log, end + Len(content) + 2, end)
    BY <1>1 DEF write_at
  <2> QED BY <1>1, <1>4, <1>5, <1>8, <2>1, <2>2
<1>15. OneMore(new, log, r)
  BY <1>1, <1>12 DEF OneMore
<1> QED BY <1>1, <1>14, <1>15

LEMMA AppendLaid ==
  ASSUME NEW w, NEW taken \in Seq(Nat), NEW n, NEW m, NEW r \in Nat, Laid(w, taken, n, m), fits(w)
  PROVE  Laid(append(w, r), Append(taken, r), n + 1, m)
<1>1. /\ n \in Nat /\ m \in 0 .. n /\ n <= Len(taken) /\ Len(taken) \in Nat
      /\ w.write_offset = 2 * n /\ Len(w.log) = 2 * n
      /\ w = [log |-> w.log, synced |-> w.synced, ckpt |-> 2 * m, write_offset |-> 2 * n, read_offset |-> 2 * m]
  BY DEF Laid
<1>2. PICK S : w.log \in Seq(S)
  BY DEF Laid
<1>3. PICK log, next, read, write, more, n1 :
        /\ log = write_at(w.log, 2 * n, <<Body(r)>>) /\ next = 2 * n + 2 /\ read = 2 * m /\ write = 2 * n
        /\ more = Append(taken, r) /\ n1 = n + 1
  OBVIOUS
<1>4. /\ \E T : log \in Seq(T)
      /\ Len(log) = 2 * n + 2 /\ \A i \in 1 .. 2 * n : log[i] = w.log[i]
      /\ log[2 * n + 1] = Header(<<Body(r)>>) /\ log[2 * n + 2] = Body(r)
  <2>1. PICK old : old = w.log /\ old \in Seq(S)
    BY <1>2
  <2>2. PICK got : got = write_at(old, Len(old), <<Body(r)>>)
    OBVIOUS
  <2>3. OneMore(got, old, r)
    BY ONLY <2>1, <2>2, WriteAtEnd
  <2>4. Len(old) = 2 * n /\ got = log
    BY <1>1, <1>3, <2>1, <2>2
  <2> QED BY <2>1, <2>3, <2>4, Zenon DEF OneMore
<1>5. PICK new : new = append(w, r)
  OBVIOUS
<1>6. new = [w EXCEPT !.log = log, !.write_offset = next]
  BY <1>1, <1>3, <1>5 DEF append
<1>7. new = [log |-> log, synced |-> w.synced, ckpt |-> read, write_offset |-> next, read_offset |-> read]
  <2>1. PICK old, synced : old = w.log /\ synced = w.synced
    OBVIOUS
  <2>2. w = [log |-> old, synced |-> synced, ckpt |-> read, write_offset |-> write, read_offset |-> read]
    BY <1>1, <1>3, <2>1, Zenon
  <2>3. new = [log |-> log, synced |-> synced, ckpt |-> read, write_offset |-> next, read_offset |-> read]
    BY <1>6, <2>2
  <2> QED BY <2>1, <2>3
<1>8. new.log = log /\ new.synced = w.synced
  BY <1>7
<1>9. /\ Len(more) = Len(taken) + 1 /\ more[Len(taken) + 1] = r
      /\ \A k \in 1 .. Len(taken) : more[k] = taken[k]
  BY <1>3
<1>10. ASSUME NEW i \in 1 .. n1
       PROVE  /\ log[2 * i - 1] = Header(<<Body(more[Len(more) - n1 + i])>>)
              /\ log[2 * i] = Body(more[Len(more) - n1 + i])
  <2>1. Len(more) - n1 + i = Len(taken) - n + i
    BY <1>1, <1>3, <1>9
  <2>2. CASE i = n1
    <3>1. 2 * i - 1 = 2 * n + 1 /\ 2 * i = 2 * n + 2 /\ Len(taken) - n + i = Len(taken) + 1
      <4>1. n \in Nat /\ Len(taken) \in Nat /\ i = n + 1
        BY <1>1, <1>3, <2>2
      <4> QED BY ONLY <4>1
    <3>2. log[2 * n + 1] = Header(<<Body(r)>>) /\ log[2 * n + 2] = Body(r) /\ more[Len(taken) + 1] = r
      BY <1>4, <1>9
    <3> QED BY ONLY <2>1, <3>1, <3>2, Zenon
  <2>3. CASE i # n1
    <3>1. PICK k, odd, even : k = Len(taken) - n + i /\ odd = 2 * i - 1 /\ even = 2 * i
      OBVIOUS
    <3>2. i \in 1 .. n /\ odd \in 1 .. 2 * n /\ even \in 1 .. 2 * n /\ k \in 1 .. Len(taken)
      <4>1. i \in 1 .. n
        BY <1>1, <1>3, <2>3
      <4>2. PICK all \in Nat : all = Len(taken) /\ n <= all
        BY <1>1
      <4>3. all - n + i \in 1 .. all
        BY <1>1, <4>1, <4>2
      <4>4. odd \in 1 .. 2 * n /\ even \in 1 .. 2 * n
        <5>1. n \in Nat /\ odd = 2 * i - 1 /\ even = 2 * i
          BY <1>1, <3>1
        <5> QED BY ONLY <4>1, <5>1
      <4>5. k \in 1 .. Len(taken)
        BY ONLY <3>1, <4>2, <4>3
      <4> QED BY <4>1, <4>4, <4>5
    <3>3. log[odd] = w.log[odd] /\ log[even] = w.log[even] /\ more[k] = taken[k]
      BY <1>4, <1>9, <3>2
    <3>4. w.log[odd] = Header(<<Body(taken[k])>>) /\ w.log[even] = Body(taken[k])
      BY <3>1, <3>2 DEF Laid
    <3> QED BY <2>1, <3>1, <3>3, <3>4
  <2> QED BY <2>2, <2>3
<1>11. n1 \in Nat /\ m \in 0 .. n1 /\ n1 <= Len(more) /\ 2 * n1 = next
  BY <1>1, <1>3, <1>9
<1>12. 2 * n1 <= MaxBytes
  BY <1>1, <1>3 DEF fits
<1>13. Laid(new, more, n1, m)
  BY <1>3, <1>4, <1>7, <1>8, <1>10, <1>11, <1>12 DEF Laid
<1> QED BY <1>3, <1>5, <1>13

\* Compaction would find no live tail.
NoLiveTail(w) == must_compact(w) => caught_up(w)

\* A log with as many frames left to deliver as one of n frames, m of them behind the cursor.
LeavesAs(w, taken, n, m) == \E n1, m1 \in Nat : Laid(w, taken, n1, m1) /\ n1 - m1 = n - m

\* Compaction of a log without a live tail empties it.
LEMMA CompactLaid ==
  ASSUME NEW w, NEW taken \in Seq(Nat), NEW n, NEW m, Laid(w, taken, n, m), NoLiveTail(w)
  PROVE  LeavesAs(maybe_compact(sync(w)), taken, n, m)
<1>1. /\ n \in Nat /\ m \in 0 .. n /\ n <= Len(taken) /\ Len(taken) \in Nat /\ 2 * n <= MaxBytes
      /\ w = [log |-> w.log, synced |-> w.synced, ckpt |-> 2 * m, write_offset |-> 2 * n, read_offset |-> 2 * m]
  BY DEF Laid
<1>2. PICK write, read, log : write = 2 * n /\ read = 2 * m /\ log = w.log
  OBVIOUS
<1>3. PICK v : v = sync(w)
  OBVIOUS
<1>4. v = [log |-> log, synced |-> log, ckpt |-> read, write_offset |-> write, read_offset |-> read]
  BY <1>1, <1>2, <1>3 DEF sync
<1>5. v.log = log /\ v.synced = log /\ v.ckpt = read /\ v.write_offset = write /\ v.read_offset = read
  BY <1>4
<1>6. CASE ~must_compact(v)
  <2>1. Laid(v, taken, n, m)
    BY <1>1, <1>2, <1>4, <1>5 DEF Laid
  <2>2. maybe_compact(v) = v
    BY <1>6 DEF maybe_compact
  <2>3. m \in Nat
    BY <1>1
  <2> QED BY <1>1, <1>3, <2>1, <2>2, <2>3 DEF LeavesAs
<1>7. CASE must_compact(v)
  <2>1. m = n
    <3>1. w.read_offset = read /\ w.write_offset = write
      BY <1>1, <1>2
    <3>2. must_compact(w)
      BY <1>5, <1>7, <3>1 DEF must_compact, caught_up
    <3>3. read >= write
      BY <3>1, <3>2 DEF NoLiveTail, caught_up
    <3> QED BY <1>1, <1>2, <3>3
  <2>2. PICK S : log \in Seq(S) /\ Len(log) = write
    BY <1>2 DEF Laid
  <2>3. PICK from : from = write + 1 /\ from \in Nat \ {0} /\ write \in Nat
    BY <1>1, <1>2
  <2>4. PICK tail : tail = SubSeq(log, from, write)
    OBVIOUS
  <2>5. tail \in Seq(S) /\ Len(tail) = 0
    BY <2>2, <2>3, <2>4
  <2>6. tail = <<>>
    BY <2>5
  <2>7. live(v) = tail
    BY <1>2, <1>5, <2>1, <2>3, <2>4 DEF live
  <2>8. copied(v) = log
    BY <1>5, <2>6, <2>7 DEF copied
  <2>9. PICK empty, zero : empty = SubSeq(log, 1, Len(tail)) /\ zero = 0
    OBVIOUS
  <2>10. empty \in Seq(S) /\ Len(empty) = zero
    BY <2>2, <2>5, <2>9
  <2>11. move_live(v) = [v EXCEPT !.log = empty, !.synced = empty, !.write_offset = zero, !.read_offset = zero]
    BY <2>7, <2>8, <2>9, <2>10 DEF move_live
  <2>12. move_live(v) = [log |-> empty, synced |-> empty, ckpt |-> read, write_offset |-> zero, read_offset |-> zero]
    BY <1>4, <2>11
  <2>13. PICK new : new = maybe_compact(v)
    OBVIOUS
  <2>14. new = [log |-> empty, synced |-> empty, ckpt |-> zero, write_offset |-> zero, read_offset |-> zero]
    <3>1. PICK moved : moved = move_live(v)
      OBVIOUS
    <3>2. new = [moved EXCEPT !.ckpt = zero]
      BY <1>7, <2>9, <2>13, <3>1 DEF maybe_compact
    <3>3. moved = [log |-> empty, synced |-> empty, ckpt |-> read, write_offset |-> zero, read_offset |-> zero]
      BY <2>12, <3>1
    <3> QED BY <3>2, <3>3
  <2>15. new.log = empty /\ new.synced = empty
    BY <2>14
  <2>16. zero \in Nat /\ zero \in 0 .. zero /\ zero <= Len(taken) /\ 2 * zero <= MaxBytes /\ 2 * zero = zero /\ zero - zero = n - m
    BY <1>1, <2>1, <2>9, WalAssumption
  <2>17. 1 .. zero = {}
    BY <2>9
  <2>18. Laid(new, taken, zero, zero)
    BY <2>10, <2>14, <2>15, <2>16, <2>17 DEF Laid
  <2> QED BY <1>3, <2>13, <2>16, <2>18 DEF LeavesAs
<1> QED BY <1>6, <1>7

LEMMA CommitLaid ==
  ASSUME NEW w, NEW taken, NEW n, NEW m, Laid(w, taken, n, m), m < n
  PROVE  Laid(commit(w, 2 * (m + 1)), taken, n, m + 1)
<1>1. /\ n \in Nat /\ m \in 0 .. n
      /\ w = [log |-> w.log, synced |-> w.synced, ckpt |-> 2 * m, write_offset |-> 2 * n, read_offset |-> 2 * m]
  BY DEF Laid
<1>2. PICK write, read, next, m1 : write = 2 * n /\ read = 2 * m /\ next = 2 * (m + 1) /\ m1 = m + 1
  OBVIOUS
<1>3. PICK new : new = commit(w, next)
  OBVIOUS
<1>4. new = [log |-> w.log, synced |-> w.synced, ckpt |-> next, write_offset |-> write, read_offset |-> next]
  <2>1. PICK old, synced : old = w.log /\ synced = w.synced
    OBVIOUS
  <2>2. w = [log |-> old, synced |-> synced, ckpt |-> read, write_offset |-> write, read_offset |-> read]
    BY <1>1, <1>2, <2>1, Zenon
  <2>3. new = [log |-> old, synced |-> synced, ckpt |-> next, write_offset |-> write, read_offset |-> next]
    BY <1>3, <2>2 DEF commit
  <2> QED BY <2>1, <2>3
<1>5. new.log = w.log /\ new.synced = w.synced
  BY <1>4
<1>6. m1 \in 0 .. n /\ 2 * m1 = next
  BY <1>1, <1>2
<1>7. Laid(new, taken, n, m1)
  BY <1>2, <1>4, <1>5, <1>6 DEF Laid
<1> QED BY <1>2, <1>3, <1>7

\* A restart finds the log and the cursor as they were; without the checkpoint it starts over.
LEMMA OpenLaid ==
  ASSUME NEW w, NEW taken, NEW n, NEW m, Laid(w, taken, n, m)
  PROVE  /\ Laid(open(w.log, w.ckpt, w.synced), taken, n, m)
         /\ Laid(open(w.log, 0, w.synced), taken, n, 0)
<1>1. /\ n \in Nat /\ m \in 0 .. n /\ Len(w.log) = 2 * n
      /\ w = [log |-> w.log, synced |-> w.synced, ckpt |-> 2 * m, write_offset |-> 2 * n, read_offset |-> 2 * m]
  BY DEF Laid
<1>2. ASSUME NEW k \in 0 .. n
      PROVE  Laid(open(w.log, 2 * k, w.synced), taken, n, k)
  <2>1. PICK write, at, new : write = 2 * n /\ at = 2 * k /\ new = open(w.log, at, w.synced)
    OBVIOUS
  <2>2. at = IF at < write THEN at ELSE write
    BY <1>1, <2>1
  <2>3. new = [log |-> w.log, synced |-> w.synced, ckpt |-> at, write_offset |-> write, read_offset |-> at]
    BY <1>1, <2>1, <2>2 DEF open
  <2>4. new.log = w.log /\ new.synced = w.synced
    BY <2>3
  <2>5. Laid(new, taken, n, k)
    BY <2>1, <2>3, <2>4 DEF Laid
  <2> QED BY <2>1, <2>5
<1>3. w.ckpt = 2 * m /\ 2 * 0 = 0 /\ 0 \in 0 .. n
  BY <1>1
<1>4. Laid(open(w.log, 2 * 0, w.synced), taken, n, 0)
  BY <1>2, <1>3
<1> QED BY <1>1, <1>2, <1>3, <1>4

-----------------------------------------------------------------------------
(* One lemma per step, for a log that no fault has torn. *)

LEMMA KeptPolls ==
  ASSUME NEW n \in Nat, NEW m \in Nat, NEW n1 \in Nat, NEW m1 \in Nat,
         Stored(n - m), n1 - m1 = n - m,
         UNCHANGED <<accepted, delivered>>, Laid(wal', accepted, n1, m1),
         drainer'.pc \notin {"sending", "acked"}
  PROVE  Kept(n1, m1)'
  BY DEF Kept, Stored, InHand

LEMMA KeptProduce ==
  ASSUME LogTypes, NEW n \in Nat, NEW m \in Nat, Kept(n, m), produce
  PROVE  Kept(n + 1, m)' /\ accepted' \in Seq(Nat)
<1>1. PICK w, taken, more, r, all :
        /\ w = wal /\ taken = accepted /\ more = accepted' /\ r = produced + 1 /\ all = Len(taken)
  OBVIOUS
<1>2. /\ taken \in Seq(Nat) /\ r \in Nat /\ more = Append(taken, r) /\ fits(w) /\ wal' = append(w, r)
      /\ Laid(w, taken, n, m)
  BY <1>1 DEF LogTypes, Kept, produce
<1>3. Laid(wal', more, n + 1, m)
  BY <1>2, AppendLaid
<1>4. all \in Nat /\ n <= all /\ m <= n
  BY <1>1, <1>2 DEF Laid
<1>5. more \in Seq(Nat) /\ Len(more) = all + 1 /\ \A k \in 1 .. all : more[k] = taken[k]
  BY <1>1, <1>2
<1>6. UNCHANGED <<drainer, delivered>>
  BY DEF produce
<1>7. all + 1 - (n + 1 - m) = all - (n - m)
  BY <1>4
<1>8. Stored(n + 1 - m)'
  <2>1. SUFFICES ASSUME NEW j \in 1 .. all - (n - m) PROVE more[j] \in Range(delivered)
    BY <1>1, <1>5, <1>6, <1>7 DEF Stored
  <2>2. j \in 1 .. all
    BY <1>4
  <2>3. taken[j] \in Range(delivered)
    BY <1>1 DEF Kept, Stored
  <2> QED BY <1>5, <2>2, <2>3
<1>9. InHand(n + 1, m)'
  <2>1. CASE m < n
    <3>1. PICK k : k = all - (n - m) + 1
      OBVIOUS
    <3>2. k \in 1 .. all /\ m < n + 1 /\ Len(more) - (n + 1 - m) + 1 = k
      BY <1>4, <1>5, <2>1, <3>1
    <3>3. more[k] = taken[k]
      BY <1>5, <3>2
    <3>4. InHand(n, m)
      BY DEF Kept
    <3>5. accepted' = more /\ accepted = taken /\ Len(taken) = all
      BY <1>1
    <3> QED BY ONLY <1>6, <2>1, <3>1, <3>2, <3>3, <3>4, <3>5 DEF InHand
  <2>2. CASE ~(m < n)
    BY <1>6, <2>2 DEF Kept, InHand
  <2> QED BY <2>1, <2>2
<1> QED BY <1>1, <1>3, <1>5, <1>8, <1>9 DEF Kept

\* maybe_compact() moves a tail that is not delivered yet, from either of its callers, in a
\* log that no fault has torn.
CompactsLive ==
  LET w == IF drainer.pc = "acked" THEN commit(wal, drainer.hand.next) ELSE wal
  IN /\ ~torn /\ drainer.pc \in {"sweep", "acked"}
     /\ must_compact(w) /\ ~caught_up(w)
     /\ wal' = maybe_compact(sync(w))

LEMMA KeptDrain ==
  ASSUME ~torn, ~CompactsLive, LogTypes, NEW n \in Nat, NEW m \in Nat, Kept(n, m),
         drain_next \/ drain_sweep \/ drain_wake
  PROVE  \E n1, m1 \in Nat : Kept(n1, m1)' /\ n1 - m1 = n - m
<1>1. PICK w, taken : w = wal /\ taken = accepted
  OBVIOUS
<1>2. /\ taken \in Seq(Nat) /\ Laid(w, taken, n, m) /\ Stored(n - m)
      /\ UNCHANGED <<accepted, delivered>>
  BY <1>1 DEF LogTypes, Kept, drain_next, drain_sweep, drain_wake
<1>0. taken \in Seq(Nat) /\ Laid(w, taken, n, m)
  BY <1>2
<1>3. m <= n /\ w.read_offset = 2 * m /\ w.write_offset = 2 * n
  BY <1>2 DEF Laid
<1>4. CASE drain_next
  <2>1. CASE caught_up(w)
    <3>1. drainer' = [pc |-> "sweep", hand |-> NoRecord] /\ wal' = w
      BY <1>1, <1>4, <2>1 DEF drain_next
    <3>2. drainer'.pc = "sweep"
      BY <3>1
    <3>3. Kept(n, m)'
      BY <1>1, <1>2, <3>1, <3>2, KeptPolls
    <3> QED BY <3>3
  <2>2. CASE ~caught_up(w)
    <3>1. m < n
      BY <1>3, <2>2 DEF caught_up
    <3>2. PICK found, at, r, next : /\ found = read_frame(w.log, at) /\ at = 2 * m
                                    /\ r = taken[Len(taken) - (n - m) + 1] /\ next = 2 * (m + 1)
      OBVIOUS
    <3>3. m \in 0 .. n - 1 /\ Len(taken) - n + (m + 1) = Len(taken) - (n - m) + 1 /\ next = 2 * m + 2 /\ next # 0
      BY <1>2, <3>1, <3>2
    <3>4. found = [rec |-> r, next |-> next]
      <4>1. /\ \A k \in 0 .. n - 1 :
                 read_frame(w.log, 2 * k) = [rec |-> taken[Len(taken) - n + (k + 1)], next |-> 2 * k + 2]
            /\ \A k \in 0 .. n - 1 : read_frame(w.log, 2 * k + 1) = NoRecord
        <5>1. Laid(w, taken, n, m)
          BY <1>0
        <5> QED BY ONLY <5>1, LaidReads, Zenon
      <4>2. read_frame(w.log, 2 * m) = [rec |-> taken[Len(taken) - n + (m + 1)], next |-> 2 * m + 2]
        BY <3>3, <4>1
      <4> QED BY <3>2, <3>3, <4>2
    <3>5. found.rec = r /\ found.next = next
      BY <3>4
    <3>6. found # NoRecord
      BY <3>3, <3>5 DEF NoRecord
    <3>7. drainer' = [pc |-> "sending", hand |-> found] /\ wal' = w
      BY <1>1, <1>3, <1>4, <2>2, <3>2, <3>6 DEF drain_next
    <3>8. drainer'.pc = "sending" /\ drainer'.hand = found
      BY <3>7
    <3>9. InHand(n, m)'
      BY <1>1, <1>2, <3>1, <3>2, <3>5, <3>8 DEF InHand
    <3>10. Laid(wal', accepted', n, m) /\ Stored(n - m)'
      BY <1>1, <1>2, <3>7 DEF Stored
    <3>11. Kept(n, m)'
      BY <3>9, <3>10 DEF Kept
    <3> QED BY <3>11
  <2> QED BY <2>1, <2>2
<1>5. CASE drain_sweep
  <2>1. wal' = maybe_compact(sync(w)) /\ drainer' = [drainer EXCEPT !.pc = "parked"]
    BY <1>1, <1>5 DEF drain_sweep
  <2>2. PICK n1 \in Nat, m1 \in Nat : Laid(maybe_compact(sync(w)), taken, n1, m1) /\ n1 - m1 = n - m
    <3>1. NoLiveTail(w)
      BY <1>1, <1>5, <2>1 DEF CompactsLive, NoLiveTail, drain_sweep
    <3>2. LeavesAs(maybe_compact(sync(w)), taken, n, m)
      BY ONLY <1>0, <3>1, CompactLaid
    <3> QED BY <3>2 DEF LeavesAs
  <2>3. drainer'.pc = "parked"
    BY <2>1 DEF LogTypes
  <2>4. Kept(n1, m1)'
    BY <1>1, <1>2, <2>1, <2>2, <2>3, KeptPolls
  <2> QED BY <2>2, <2>4
<1>6. CASE drain_wake
  <2>1. drainer' = Poll /\ wal' = w
    BY <1>1, <1>6 DEF drain_wake
  <2>2. drainer'.pc = "poll"
    BY <2>1 DEF Poll
  <2>3. Kept(n, m)'
    BY <1>1, <1>2, <2>1, <2>2, KeptPolls
  <2> QED BY <2>3
<1> QED BY <1>4, <1>5, <1>6

LEMMA KeptCommit ==
  ASSUME ~torn, ~CompactsLive, LogTypes, NEW n \in Nat, NEW m \in Nat, Kept(n, m), drain_commit
  PROVE  /\ m < n /\ accepted[Len(accepted) - (n - m) + 1] \in Range(delivered)
         /\ \E n1, m1 \in Nat : Kept(n1, m1)' /\ n1 - m1 = n - m - 1
<1>1. PICK w, taken, all, next, m2 :
        w = wal /\ taken = accepted /\ all = Len(taken) /\ next = 2 * (m + 1) /\ m2 = m + 1
  OBVIOUS
<1>2. /\ taken \in Seq(Nat) /\ Laid(w, taken, n, m) /\ Stored(n - m)
      /\ UNCHANGED <<accepted, delivered>> /\ drainer.pc = "acked" /\ drainer' = Poll
  BY <1>1 DEF LogTypes, Kept, drain_commit
<1>3. m < n /\ drainer.hand.next = next /\ accepted[Len(accepted) - (n - m) + 1] \in Range(delivered)
  BY <1>1, <1>2 DEF Kept, InHand
<1>4. PICK v : v = commit(w, next)
  OBVIOUS
<1>5. taken \in Seq(Nat) /\ Laid(v, taken, n, m2) /\ m2 \in Nat
  <2>1. Laid(w, taken, n, m) /\ m < n
    BY <1>2, <1>3
  <2>2. Laid(commit(w, 2 * (m + 1)), taken, n, m + 1)
    BY ONLY <2>1, CommitLaid, Zenon
  <2> QED BY <1>1, <1>2, <1>4, <2>2
<1>6. wal' = v \/ wal' = maybe_compact(sync(v))
  BY <1>1, <1>3, <1>4 DEF drain_commit
<1>7. \E n1, m1 \in Nat : Laid(wal', taken, n1, m1) /\ n1 - m1 = n - m2
  <2>1. CASE wal' = v
    BY <1>5, <2>1
  <2>2. CASE wal' = maybe_compact(sync(v))
    <3>1. NoLiveTail(v)
      BY <1>1, <1>2, <1>3, <1>4, <2>2 DEF CompactsLive, NoLiveTail
    <3>2. taken \in Seq(Nat) /\ Laid(v, taken, n, m2)
      BY <1>5
    <3>3. LeavesAs(maybe_compact(sync(v)), taken, n, m2)
      BY ONLY <3>1, <3>2, CompactLaid
    <3> QED BY <2>2, <3>3 DEF LeavesAs
  <2> QED BY <1>6, <2>1, <2>2
<1>8. PICK n1 \in Nat, m1 \in Nat : Laid(wal', taken, n1, m1) /\ n1 - m1 = n - m2
  BY <1>7
<1>9. drainer'.pc = "poll"
  BY <1>2 DEF Poll
<1>10. Stored(n - m2)
  <2>1. n <= all /\ all \in Nat
    BY <1>1, <1>2 DEF Laid
  <2>2. SUFFICES ASSUME NEW j \in 1 .. all - (n - m2) PROVE taken[j] \in Range(delivered)
    BY <1>1 DEF Stored
  <2>3. j \in 1 .. all - (n - m) \/ j = all - (n - m) + 1
    BY <1>1, <1>3, <2>1
  <2> QED BY <1>1, <1>2, <1>3, <2>3 DEF Stored
<1>11. Kept(n1, m1)'
  BY <1>1, <1>2, <1>5, <1>8, <1>9, <1>10, KeptPolls
<1>12. n1 - m1 = n - m - 1
  BY <1>1, <1>8
<1> QED BY <1>3, <1>11, <1>12

LEMMA KeptStored ==
  ASSUME LogTypes, NEW n \in Nat, NEW m \in Nat, Kept(n, m), broker_stores
  PROVE  /\ m < n /\ delivered' = Append(delivered, accepted[Len(accepted) - (n - m) + 1])
         /\ delivered' \in Seq(Nat) /\ Kept(n, m)'
<1>1. PICK r, k : r = accepted[k] /\ k = Len(accepted) - (n - m) + 1
  OBVIOUS
<1>2. /\ Laid(wal, accepted, n, m) /\ Stored(n - m) /\ UNCHANGED <<wal, accepted>>
      /\ drainer.pc = "sending" /\ drainer' = [drainer EXCEPT !.pc = "acked"]
  BY DEF Kept, broker_stores
<1>3. m < n /\ drainer.hand.rec = r /\ drainer.hand.next = 2 * (m + 1)
  BY <1>1, <1>2 DEF Kept, InHand
<1>4. delivered' = Append(delivered, r)
  BY <1>3 DEF broker_stores
<1>5. r \in Nat
  <2>0. Len(accepted) \in Nat /\ n <= Len(accepted)
    BY <1>2 DEF Laid, LogTypes
  <2>1. PICK all \in Nat : all = Len(accepted) /\ n <= all
    BY <2>0
  <2>2. k \in 1 .. all
    BY <1>1, <1>3, <2>1
  <2> QED BY <1>1, <2>1, <2>2 DEF LogTypes
<1>6. delivered \in Seq(Nat)
  BY DEF LogTypes
<1>7. /\ delivered' \in Seq(Nat) /\ Len(delivered') = Len(delivered) + 1 /\ Len(delivered) \in Nat
      /\ \A i \in 1 .. Len(delivered) : delivered'[i] = delivered[i]
      /\ delivered'[Len(delivered) + 1] = r
  BY <1>4, <1>5, <1>6
<1>8. DOMAIN delivered = 1 .. Len(delivered) /\ DOMAIN delivered' = 1 .. Len(delivered')
  BY <1>6, <1>7
<1>9. Range(delivered) \subseteq Range(delivered') /\ r \in Range(delivered')
  BY <1>7, <1>8 DEF Range
<1>10. drainer'.pc = "acked" /\ drainer'.hand = drainer.hand
  BY <1>2 DEF LogTypes
<1>11. Stored(n - m)'
  BY <1>2, <1>9 DEF Stored
<1>12. InHand(n, m)'
  BY <1>1, <1>2, <1>3, <1>9, <1>10 DEF InHand
<1> QED BY <1>1, <1>2, <1>3, <1>4, <1>7, <1>11, <1>12 DEF Kept

\* A fault that does not tear the log leaves it as it was, with the cursor where it was or
\* at the start.
LEMMA KeptFault ==
  ASSUME LogTypes, NEW n \in Nat, NEW m \in Nat, Kept(n, m), FaultStep, ~torn'
  PROVE  UNCHANGED <<accepted, delivered>> /\ \E m1 \in 0 .. m : Kept(n, m1)'
<1>1. PICK w, taken : w = wal /\ taken = accepted
  OBVIOUS
<1>2. Laid(w, taken, n, m) /\ Stored(n - m)
  BY <1>1 DEF Kept
<1>3. UNCHANGED <<accepted, delivered>>
  BY DEF FaultStep, restart, ack_lost, kill_commit, kill_append, disk_full, kill_compact, power_loss
<1>4. ~kill_append /\ ~disk_full /\ ~kill_compact /\ ~power_loss
  BY DEF kill_append, disk_full, kill_compact, power_loss, Fault, Tearing
<1>5. m \in 0 .. m /\ 0 \in 0 .. m /\ 0 \in Nat
  OBVIOUS
<1>6. CASE restart
  <2>1. wal' = open(w.log, w.ckpt, w.synced) /\ drainer' = Poll
    BY <1>1, <1>6 DEF restart, Reopen
  <2>2. Laid(wal', taken, n, m)
    BY <1>2, <2>1, OpenLaid
  <2>3. drainer'.pc = "poll"
    BY <2>1 DEF Poll
  <2>4. Kept(n, m)'
    BY <1>1, <1>2, <1>3, <2>2, <2>3, KeptPolls
  <2> QED BY <1>3, <1>5, <2>4
<1>7. CASE ack_lost
  <2>1. wal' = w /\ drainer' = Poll
    BY <1>1, <1>7 DEF ack_lost
  <2>2. drainer'.pc = "poll"
    BY <2>1 DEF Poll
  <2>3. Kept(n, m)'
    BY <1>1, <1>2, <1>3, <2>1, <2>2, KeptPolls
  <2> QED BY <1>3, <1>5, <2>3
<1>8. CASE kill_commit
  <2>1. wal' = open(w.log, 0, w.synced) /\ drainer' = Poll
    BY <1>1, <1>8 DEF kill_commit, Reopen
  <2>2. PICK zero : zero = 0 /\ zero \in Nat
    OBVIOUS
  <2>3. Laid(wal', taken, n, zero)
    BY <1>2, <2>1, <2>2, OpenLaid
  <2>4. drainer'.pc = "poll"
    BY <2>1 DEF Poll
  <2>5. Stored(n - zero)
    <3>0. Len(accepted) \in Nat /\ n <= Len(accepted) /\ m <= n
      BY <1>1, <1>2 DEF Laid, LogTypes
    <3>1. PICK all \in Nat : all = Len(accepted) /\ n <= all /\ m <= n
      BY <3>0
    <3>2. \A j \in 1 .. all - (n - zero) : j \in 1 .. all - (n - m)
      BY <2>2, <3>1
    <3> QED BY <1>2, <3>1, <3>2 DEF Stored
  <2>6. Kept(n, zero)'
    BY <1>1, <1>3, <2>2, <2>3, <2>4, <2>5, KeptPolls
  <2> QED BY <1>3, <1>5, <2>2, <2>6
<1> QED BY <1>4, <1>6, <1>7, <1>8 DEF FaultStep

LEMMA TornStays ==
  ASSUME torn, [WalNext]_walVars
  PROVE  torn'
  BY DEF WalNext, walVars, produce, produce_full, DrainStep, drain_next, drain_sweep, drain_wake, drain_commit,
         broker_stores, send_fails, FaultStep, restart, ack_lost, kill_commit, kill_append, disk_full,
         kill_compact, power_loss, Fault

\* A step that does not tear the log: a record is taken, the next one is stored, the next
\* one is passed because it was stored, or the cursor stays or goes back.
LEMMA LogStep ==
  ASSUME LogTypes, NEW n \in Nat, NEW m \in Nat, Kept(n, m),
         [WalNext]_walVars, [~CompactsLive]_walVars, ~torn'
  PROVE  \E n1, m1 \in Nat :
           /\ Kept(n1, m1)'
           /\ \/ /\ produced < MaxRecords /\ accepted' = Append(accepted, produced + 1) /\ UNCHANGED delivered
                 /\ n1 - m1 = n - m + 1
              \/ /\ m < n /\ delivered' = Append(delivered, accepted[Len(accepted) - (n - m) + 1])
                 /\ UNCHANGED accepted /\ n1 - m1 = n - m
              \/ /\ m < n /\ accepted[Len(accepted) - (n - m) + 1] \in Range(delivered)
                 /\ UNCHANGED <<accepted, delivered>> /\ n1 - m1 = n - m - 1
              \/ UNCHANGED <<accepted, delivered>> /\ n - m <= n1 - m1
<1>0. ~torn
  BY TornStays
<1>1. n - m <= n - m /\ n + 1 \in Nat /\ n + 1 - m = n - m + 1
  OBVIOUS
<1>2. CASE produce
  <2>1. Kept(n + 1, m)'
    BY <1>2, KeptProduce
  <2>2. produced < MaxRecords /\ accepted' = Append(accepted, produced + 1) /\ UNCHANGED delivered
    BY <1>2 DEF produce
  <2> QED BY <1>1, <2>1, <2>2
<1>3. CASE produce_full
  <2>1. Kept(n, m)' /\ UNCHANGED <<accepted, delivered>>
    BY <1>3 DEF produce_full, Kept, Stored, InHand
  <2> QED BY <1>1, <2>1
<1>4. CASE ~CompactsLive /\ (drain_next \/ drain_sweep \/ drain_wake)
  <2>1. PICK n1 \in Nat, m1 \in Nat : Kept(n1, m1)' /\ n1 - m1 = n - m
    BY <1>0, <1>4, KeptDrain
  <2>2. UNCHANGED <<accepted, delivered>>
    BY <1>4 DEF drain_next, drain_sweep, drain_wake
  <2> QED BY <1>1, <2>1, <2>2
<1>5. CASE ~CompactsLive /\ drain_commit
  <2>1. /\ m < n /\ accepted[Len(accepted) - (n - m) + 1] \in Range(delivered)
        /\ \E n1, m1 \in Nat : Kept(n1, m1)' /\ n1 - m1 = n - m - 1
    BY <1>0, <1>5, KeptCommit
  <2>2. UNCHANGED <<accepted, delivered>>
    BY <1>5 DEF drain_commit
  <2> QED BY <2>1, <2>2
<1>6. CASE broker_stores
  <2>1. m < n /\ delivered' = Append(delivered, accepted[Len(accepted) - (n - m) + 1]) /\ Kept(n, m)'
    BY <1>6, KeptStored
  <2>2. UNCHANGED accepted
    BY <1>6 DEF broker_stores
  <2> QED BY <2>1, <2>2
<1>7. CASE send_fails
  <2>1. drainer'.pc = "poll" /\ UNCHANGED <<wal, accepted, delivered>>
    BY <1>7 DEF send_fails, Poll
  <2>2. Kept(n, m)'
    BY <2>1 DEF Kept, Stored, InHand
  <2> QED BY <1>1, <2>1, <2>2
<1>8. CASE FaultStep
  <2>1. UNCHANGED <<accepted, delivered>> /\ \E m1 \in 0 .. m : Kept(n, m1)'
    BY <1>8, KeptFault
  <2>2. PICK m1 \in 0 .. m : Kept(n, m1)'
    BY <2>1
  <2>3. m1 \in Nat /\ n - m <= n - m1
    OBVIOUS
  <2> QED BY <2>1, <2>2, <2>3
<1>9. CASE UNCHANGED walVars
  <2>1. Kept(n, m)' /\ UNCHANGED <<accepted, delivered>>
    BY <1>9 DEF walVars, Kept, Stored, InHand
  <2> QED BY <1>1, <2>1
<1> QED BY <1>2, <1>3, <1>4, <1>5, <1>6, <1>7, <1>8, <1>9 DEF WalNext, DrainStep

LEMMA LogNext == LogInv /\ [WalNext]_walVars /\ [~CompactsLive]_walVars => LogInv'
<1> SUFFICES ASSUME LogInv, [WalNext]_walVars, [~CompactsLive]_walVars PROVE LogInv'
  OBVIOUS
<1>1. TakenInv /\ LogTypes
  BY TakenTypes DEF LogInv
<1>2. TakenInv'
  BY <1>1, TakenNext
<1>3. CASE torn'
  BY <1>2, <1>3 DEF LogInv
<1>4. CASE ~torn'
  <2>1. ~torn
    BY <1>4, TornStays
  <2>2. PICK n \in Nat, m \in Nat : Kept(n, m)
    BY <2>1 DEF LogInv
  <2>3. \E n1, m1 \in Nat : Kept(n1, m1)'
    BY <1>1, <1>4, <2>2, LogStep
  <2> QED BY <1>2, <2>3 DEF LogInv
<1> QED BY <1>3, <1>4

\* A record produce() took is with the broker or in the log in front of the drainer, through
\* failed sends, lost answers, restarts and a checkpoint that was cut off, until a fault
\* tears the log, as long as no tail is compacted before it is delivered (segment.rs append,
\* next, commit, maybe_compact, open; lib.rs drain).
THEOREM WalNoLoss == WalSpec /\ [][~CompactsLive]_walVars => []NoLoss
  BY LogInit, LogNext, KeptNoLoss, PTL DEF WalSpec

\* The queue's cursor, by how many frames are left.
CursorAt(w, taken, n, m) ==
  n - m \in 0 .. Len(taken) /\ Len(taken) - Len(pending(w)) = Len(taken) - (n - m)

LEMMA CursorIs ==
  ASSUME NEW w, NEW taken \in Seq(Nat), NEW n, NEW m, Laid(w, taken, n, m)
  PROVE  CursorAt(w, taken, n, m)
<1>1. n \in Nat /\ m \in 0 .. n /\ n <= Len(taken) /\ Len(taken) \in Nat
  BY DEF Laid
<1>2. PICK left : left = n - m /\ left \in 0 .. Len(taken)
  BY <1>1
<1>3. pending(w) = LastOf(taken, left)
  BY <1>2, PendingIs
<1>4. Len(LastOf(taken, left)) = left
  BY <1>2, LastOfFacts
<1> QED BY <1>2, <1>3, <1>4 DEF CursorAt

\* The spill buffer is the at-least-once queue its documentation describes, up to the first
\* fault that tears the log and as long as no tail is compacted before it is delivered:
\* records are delivered in the order they were taken, and the cursor passes only a record
\* the broker has stored (lib.rs drain; segment.rs commit, open).
THEOREM WalImplementsQueue == WalSpec /\ [][~CompactsLive]_walVars => ImplementsQueue
<1>1. WalInit => Queue!QueueInit
  <2> SUFFICES ASSUME WalInit PROVE Queue!QueueInit
    OBVIOUS
  <2>1. accepted = <<>> /\ delivered = <<>> /\ accepted \in Seq(Nat) /\ Len(accepted) = 0
    BY DEF WalInit
  <2>2. PICK n \in Nat, m \in Nat : Laid(wal, accepted, n, m)
    BY LogInit DEF LogInv, Kept, WalInit
  <2>3. PICK w, taken : w = wal /\ taken = accepted
    OBVIOUS
  <2>4. taken \in Seq(Nat) /\ Laid(w, taken, n, m) /\ Len(taken) = 0
    BY <2>1, <2>2, <2>3
  <2>5. CursorAt(w, taken, n, m)
    BY <2>4, CursorIs
  <2>6. Len(taken) - Len(pending(w)) = 0
    BY <2>4, <2>5 DEF CursorAt
  <2> QED BY <2>1, <2>3, <2>6 DEF Queue!QueueInit
<1>2. LogInv /\ [WalNext]_walVars /\ [~CompactsLive]_walVars => [Queue!QueueNext \/ torn']_(Queue!queueVars)
  <2> SUFFICES ASSUME LogInv, [WalNext]_walVars, [~CompactsLive]_walVars, ~torn'
               PROVE  [Queue!QueueNext]_(Queue!queueVars)
    OBVIOUS
  <2>1. LogTypes /\ LogTypes'
    <3>1. LogInv'
      BY LogNext
    <3> QED BY <3>1, TakenTypes DEF LogInv, LogTypes, TakenInv
  <2>2. ~torn
    BY TornStays
  <2>3. PICK n \in Nat, m \in Nat : Kept(n, m)
    BY <2>2 DEF LogInv
  <2>4. PICK n1 \in Nat, m1 \in Nat :
           /\ Kept(n1, m1)'
           /\ \/ /\ produced < MaxRecords /\ accepted' = Append(accepted, produced + 1) /\ UNCHANGED delivered
                 /\ n1 - m1 = n - m + 1
              \/ /\ m < n /\ delivered' = Append(delivered, accepted[Len(accepted) - (n - m) + 1])
                 /\ UNCHANGED accepted /\ n1 - m1 = n - m
              \/ /\ m < n /\ accepted[Len(accepted) - (n - m) + 1] \in Range(delivered)
                 /\ UNCHANGED <<accepted, delivered>> /\ n1 - m1 = n - m - 1
              \/ UNCHANGED <<accepted, delivered>> /\ n - m <= n1 - m1
    BY <2>1, <2>3, LogStep
  <2>5. PICK c, c1 : c = Len(accepted) - Len(pending(wal)) /\ c1 = Len(accepted') - Len(pending(wal'))
    OBVIOUS
  <2>6. n - m \in 0 .. Len(accepted) /\ c = Len(accepted) - (n - m)
    <3>1. PICK w, taken : w = wal /\ taken = accepted
      OBVIOUS
    <3>2. taken \in Seq(Nat) /\ Laid(w, taken, n, m)
      BY <2>1, <2>3, <3>1 DEF LogTypes, Kept
    <3>3. CursorAt(w, taken, n, m)
      BY <3>2, CursorIs
    <3> QED BY <2>5, <3>1, <3>3 DEF CursorAt
  <2>7. n1 - m1 \in 0 .. Len(accepted') /\ c1 = Len(accepted') - (n1 - m1)
    <3>1. PICK w, taken : w = wal' /\ taken = accepted'
      OBVIOUS
    <3>2. taken \in Seq(Nat) /\ Laid(w, taken, n1, m1)
      BY <2>1, <2>4, <3>1 DEF LogTypes, Kept
    <3>3. CursorAt(w, taken, n1, m1)
      BY <3>2, CursorIs
    <3> QED BY <2>5, <3>1, <3>3 DEF CursorAt
  <2>8. PICK all : all = Len(accepted) /\ all \in Nat
    <3>1. Len(accepted) \in Nat
      BY <2>1 DEF LogTypes
    <3> QED BY <3>1
  <2> DEFINE left == n - m  left1 == n1 - m1
  <2>9. left \in 0 .. all /\ c = all - left
    BY <2>6, <2>8
  <2>10. left1 \in 0 .. Len(accepted') /\ c1 = Len(accepted') - left1
    BY <2>7
  <2>11. CASE produced < MaxRecords /\ accepted' = Append(accepted, produced + 1) /\ UNCHANGED delivered /\ n1 - m1 = n - m + 1
    <3>1. Len(accepted') = all + 1
      BY <2>1, <2>8, <2>11 DEF LogTypes
    <3>2. c1 = c
      <4>1. left1 = left + 1
        BY <2>11
      <4> HIDE DEF left, left1
      <4> QED BY ONLY <2>8, <2>9, <2>10, <3>1, <4>1
    <3>3. produced + 1 \in Records
      <4>1. produced \in Nat /\ produced < MaxRecords /\ MaxRecords \in Nat
        BY <2>1, <2>11, WalAssumption DEF LogTypes
      <4> QED BY ONLY <4>1 DEF Records
    <3>4. Queue!Accept
      BY <2>5, <2>11, <3>2, <3>3 DEF Queue!Accept
    <3> QED BY <3>4 DEF Queue!QueueNext
  <2>12. CASE m < n /\ delivered' = Append(delivered, accepted[Len(accepted) - (n - m) + 1]) /\ UNCHANGED accepted /\ n1 - m1 = n - m
    <3>1. c1 = c /\ c < all /\ Len(accepted) - (n - m) + 1 = c + 1
      <4>1. left1 = left /\ left # 0 /\ accepted' = accepted
        BY <2>12
      <4> HIDE DEF left, left1
      <4>2. c1 = c /\ c < all /\ Len(accepted) - left + 1 = c + 1
        BY ONLY <2>8, <2>9, <2>10, <4>1
      <4> QED BY <4>2 DEF left
    <3>2. Queue!Deliver
      BY <2>5, <2>8, <2>12, <3>1 DEF Queue!Deliver
    <3> QED BY <3>2 DEF Queue!QueueNext
  <2>13. CASE m < n /\ accepted[Len(accepted) - (n - m) + 1] \in Range(delivered) /\ UNCHANGED <<accepted, delivered>> /\ n1 - m1 = n - m - 1
    <3>1. c1 = c + 1 /\ c < all /\ Len(accepted) - (n - m) + 1 = c + 1
      <4>1. left1 = left - 1 /\ left # 0 /\ accepted' = accepted
        BY <2>13
      <4> HIDE DEF left, left1
      <4>2. c1 = c + 1 /\ c < all /\ Len(accepted) - left + 1 = c + 1
        BY ONLY <2>8, <2>9, <2>10, <4>1
      <4> QED BY <4>2 DEF left
    <3>2. Queue!Acknowledge
      BY <2>5, <2>8, <2>13, <3>1 DEF Queue!Acknowledge, Queue!Range, Range
    <3> QED BY <3>2 DEF Queue!QueueNext
  <2>14. CASE UNCHANGED <<accepted, delivered>> /\ n - m <= n1 - m1
    <3>1. c1 \in 0 .. c
      <4>1. left <= left1 /\ accepted' = accepted
        BY <2>14
      <4> HIDE DEF left, left1
      <4> QED BY ONLY <2>8, <2>9, <2>10, <4>1
    <3>2. Queue!Rewind
      BY <2>5, <2>14, <3>1 DEF Queue!Rewind
    <3> QED BY <3>2 DEF Queue!QueueNext
  <2> QED BY <2>4, <2>11, <2>12, <2>13, <2>14
<1> QED BY <1>1, <1>2, LogInit, LogNext, PTL DEF WalSpec, ImplementsQueue
=============================================================================
