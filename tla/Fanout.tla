------------------------------- MODULE Fanout -------------------------------
(***************************************************************************)
(* What an instance produces to Kafka: captured exchanges, best effort      *)
(* behind a bound on deliveries in flight (kafka-krafka, kafka, capture     *)
(* crates), and async writes, acknowledged before they are answered         *)
(* (engine/src/asyncwrite.rs, dbq.rs, bulk.rs ingest_bulk_async,            *)
(* server/src/fanout.rs).  An instance may restart at any moment.           *)
(*                                                                          *)
(* The broker is external: a send is appended and acknowledged, appended    *)
(* and not acknowledged, or lost.  So is the applier that consumes the      *)
(* writes in order and drops an op_id it has seen.                          *)
(***************************************************************************)
EXTENDS Naturals, Sequences, SequencesExt, FiniteSets, FiniteSetsExt

CONSTANTS
  Exchanges,                  \* requests that are captured
  MaxInflight, MaxAttempts,   \* DeliveryConfig
  Writes,                     \* writes of clients
  Matching,                   \* what a delete-by-query may match
  Setups,                     \* instances, each with what its clients ask and how often
  MaxRestarts                 \* bound

\* What a client asks: one document, a bulk of two or a delete-by-query, with an
\* x-op-id of its own, one that is not valid, or none; with a precondition; with
\* documents that are JSON.
Asks == [kind : {"doc", "bulk", "dbq"}, header : {"own", "bad", "none"}, cas : BOOLEAN, json : BOOLEAN]

ASSUME FanoutAssumption ==
  /\ MaxInflight \in Nat /\ MaxAttempts \in Nat \ {0} /\ MaxRestarts \in Nat
  /\ \A s \in Setups : {s.capture, s.redact, s.queue, s.cbor} \subseteq BOOLEAN /\ s.asks \subseteq Asks /\ s.tries \in Nat

VARIABLES
  inst,      \* the instance: its setup, permits, request counter, restarts
  cap,       \* exchange -> its delivery
  captured,  \* the capture topic
  wr,        \* write -> the request that carries it
  topic,     \* the fan-out topic
  consumed   \* how far the applier has come

fanoutVars == <<inst, cap, captured, wr, topic, consumed>>

-----------------------------------------------------------------------------
(* Capture. *)

\* Header names by position, in the order they were sent; one may be sent more than
\* once.  What is taken out of a list leaves its position.
HeaderLists == {<<>>, <<"x">>, <<"authorization", "x">>, <<"authorization", "x", "authorization">>}

without_authorization(headers) == [k \in {j \in DOMAIN headers : headers[j] # "authorization"} |-> headers[k]]

\* wrap_capture(): a redacting capture stands before the producer.
envelope_headers(headers) == IF inst.setup.redact THEN without_authorization(headers) ELSE headers

NoDelivery == [pc |-> "none", attempt |-> 0, backoff |-> 0, headers |-> <<>>]

InFlight == {e \in Exchanges : cap[e].pc \in {"sending", "sleeping"}}

\* produce() and spawn(): a permit and a task, or the record is dropped.
spawn(e, headers) ==
  IF inst.permits = 0
  THEN cap' = [cap EXCEPT ![e].pc = "dropped"] /\ UNCHANGED inst
  ELSE /\ cap' = [cap EXCEPT ![e] = [pc |-> "sending", attempt |-> 1, backoff |-> 1, headers |-> headers]]
       /\ inst' = [inst EXCEPT !.permits = @ - 1]

\* The request that tees its exchange waits for neither.
capture(e, headers) ==
  /\ inst.setup.capture /\ cap[e].pc = "none"
  /\ spawn(e, envelope_headers(headers))
  /\ UNCHANGED <<captured, wr, topic, consumed>>

\* CaptureEnvelope: what a record keeps of an exchange.
envelope(e) == [of |-> e, headers |-> cap[e].headers]

\* What the broker does with a record sent to it: whether it keeps it, whether it says so.
Fates == {[kept |-> TRUE, acked |-> TRUE], [kept |-> TRUE, acked |-> FALSE], [kept |-> FALSE, acked |-> FALSE]}

gives_up(d) == d.attempt = MaxAttempts

\* Mutant, in no specification.
released_if_delivered(acked) == IF acked THEN 1 ELSE 0

\* The task ends and drops its permit.
released(acked) == 1

\* deliver(): a send returns.
deliver(e) ==
  \E f \in Fates :
    LET ends == f.acked \/ gives_up(cap[e]) IN
    /\ cap[e].pc = "sending"
    /\ captured' = IF f.kept THEN Append(captured, envelope(e)) ELSE captured
    /\ cap' = [cap EXCEPT ![e].pc = IF f.acked THEN "delivered" ELSE IF ends THEN "given_up" ELSE "sleeping"]
    /\ inst' = IF ends THEN [inst EXCEPT !.permits = @ + released(f.acked)] ELSE inst
    /\ UNCHANGED <<wr, topic, consumed>>

\* The backoff is over, and the next is twice as long.
wake(e) ==
  /\ cap[e].pc = "sleeping"
  /\ cap' = [cap EXCEPT ![e].pc = "sending", ![e].attempt = @ + 1, ![e].backoff = @ * 2]
  /\ UNCHANGED <<inst, captured, wr, topic, consumed>>

-----------------------------------------------------------------------------
(* Async writes. *)

NoWrite == [pc |-> "none", ask |-> [kind |-> "doc", header |-> "none", cas |-> FALSE, json |-> TRUE],
            op_id |-> <<>>, items |-> <<>>, lines |-> <<>>, status |-> 0, tries |-> 0]

valid_op_id(header) == header = "own"

\* Mutant, in no specification.
op_id_for_minted(w, header) == <<"req", inst.seq + 1>>

\* The client's op id, or the request's id: a counter of this process.
op_id_for(w, header) == IF valid_op_id(header) THEN <<"own", w>> ELSE <<"req", inst.seq + 1>>

\* A precondition cannot be checked later; a delete-by-query is not asked for one.
unsupported_async(ask) == ask.cas /\ ask.kind # "dbq"

\* The applier applies the first record of an op id.
Applied(n) == {k \in 1 .. n : \A j \in 1 .. k - 1 : topic[j].op_id # topic[k].op_id}

\* run_match_search(): the documents that are not deleted yet, in some order.
Matches ==
  LET left == Matching \ {topic[k].payload : k \in Applied(consumed)}
  IN {s \in [1 .. Cardinality(left) -> left] : IsInjective(s)}

ItemsOf(w, ask) ==
  CASE ask.kind = "doc" -> {<<w>>}
    [] ask.kind = "bulk" -> {<<<<w, 1>>, <<w, 2>>>>}
    [] ask.kind = "dbq" -> Matches

\* Bound: the clients have sent less than all they will.
MoreToAsk == MapThenSumSet(LAMBDA w : wr[w].tries, Writes) < inst.setup.tries

\* enqueue_async() and its like for bulk and delete-by-query, up to the first enqueue.
enqueue_async(w, ask) ==
  /\ ask \in inst.setup.asks
  /\ MoreToAsk
  /\ \/ wr[w].pc = "none"
     \/ wr[w].pc = "cut" /\ ask = wr[w].ask
     \/ wr[w].pc = "answered" /\ 503 \in Range(wr[w].lines) /\ ask = wr[w].ask
  /\ \E items \in ItemsOf(w, ask) :
       LET new == [NoWrite EXCEPT !.ask = ask, !.items = items, !.op_id = op_id_for(w, ask.header),
                                  !.tries = wr[w].tries + 1]
       IN wr' = [wr EXCEPT ![w] =
            IF unsupported_async(ask) THEN [new EXCEPT !.pc = "answered", !.status = 400]
            ELSE IF ~inst.setup.queue THEN [new EXCEPT !.pc = "answered", !.status = 422]
            ELSE [new EXCEPT !.pc = "enqueuing"]]
  /\ inst' = [inst EXCEPT !.seq = @ + 1]
  /\ UNCHANGED <<cap, captured, topic, consumed>>

\* encode_body(): CBOR needs a document that parses; a delete has none.
encodes(ask) == ~inst.setup.cbor \/ ask.json \/ ask.kind = "dbq"

\* The op id of an item: the request's, and the item's ordinal in a bulk or delete-by-query.
item_op_id(w, k) == IF wr[w].ask.kind = "doc" THEN wr[w].op_id ELSE Append(wr[w].op_id, k)

\* Accepted only once the queue has acknowledged it.
line(f) == IF f.acked THEN 202 ELSE 503

\* Mutant, in no specification.
enqueue_until_refused(w) ==
  LET k == Len(wr[w].lines) + 1 IN
  /\ wr[w].pc = "enqueuing" /\ k <= Len(wr[w].items) /\ \A j \in DOMAIN wr[w].lines : wr[w].lines[j] = 202
  /\ \E f \in IF encodes(wr[w].ask) THEN Fates ELSE {[kept |-> FALSE, acked |-> FALSE]} :
       /\ topic' = IF f.kept THEN Append(topic, [op_id |-> item_op_id(w, k), of |-> w, payload |-> wr[w].items[k]]) ELSE topic
       /\ wr' = [wr EXCEPT ![w].lines = Append(@, line(f))]
  /\ UNCHANGED <<inst, cap, captured, consumed>>

\* KafkaWriteQueue::enqueue() for the next item: the envelope, and its acknowledged send.
enqueue(w) ==
  LET k == Len(wr[w].lines) + 1 IN
  /\ wr[w].pc = "enqueuing" /\ k <= Len(wr[w].items)
  /\ \E f \in IF encodes(wr[w].ask) THEN Fates ELSE {[kept |-> FALSE, acked |-> FALSE]} :
       /\ topic' = IF f.kept THEN Append(topic, [op_id |-> item_op_id(w, k), of |-> w, payload |-> wr[w].items[k]]) ELSE topic
       /\ wr' = [wr EXCEPT ![w].lines = Append(@, line(f))]
  /\ UNCHANGED <<inst, cap, captured, consumed>>

\* accepted_response() and enqueue_failed_response() for a document; a bulk or a
\* delete-by-query reports its items.
respond_async(w) ==
  /\ wr[w].pc = "enqueuing" /\ Len(wr[w].lines) = Len(wr[w].items)
  /\ wr' = [wr EXCEPT ![w].pc = "answered", ![w].status = IF wr[w].ask.kind = "doc" THEN wr[w].lines[1] ELSE 200]
  /\ UNCHANGED <<inst, cap, captured, topic, consumed>>

Consume ==
  /\ consumed < Len(topic) /\ \E ask \in inst.setup.asks : ask.kind = "dbq"   \* makes no difference else
  /\ consumed' = consumed + 1
  /\ UNCHANGED <<inst, cap, captured, wr, topic>>

-----------------------------------------------------------------------------
\* The process ends and starts again: tasks, permits and the counter begin anew.
RestartInstance ==
  /\ inst.restarts < MaxRestarts
  /\ inst' = [inst EXCEPT !.permits = MaxInflight, !.seq = 0, !.restarts = @ + 1]
  /\ cap' = [e \in Exchanges |-> IF e \in InFlight THEN [cap[e] EXCEPT !.pc = "lost"] ELSE cap[e]]
  /\ wr' = [w \in Writes |-> IF wr[w].pc = "enqueuing" THEN [wr[w] EXCEPT !.pc = "cut"] ELSE wr[w]]
  /\ UNCHANGED <<captured, topic, consumed>>

FanoutStart(setup) ==
  /\ inst = [setup |-> setup, permits |-> MaxInflight, seq |-> 0, restarts |-> IF setup.capture \/ setup.asks # {} THEN 0 ELSE MaxRestarts]
  /\ cap = [e \in Exchanges |-> NoDelivery]
  /\ captured = <<>>
  /\ wr = [w \in Writes |-> NoWrite]
  /\ topic = <<>>
  /\ consumed = 0

FanoutInit == \E s \in Setups : FanoutStart(s)

FanoutNext ==
  \/ \E e \in Exchanges : (\E h \in HeaderLists : capture(e, h)) \/ deliver(e) \/ wake(e)
  \/ \E w \in Writes : (\E ask \in Asks : enqueue_async(w, ask)) \/ enqueue(w) \/ respond_async(w)
  \/ Consume \/ RestartInstance

\* Sends return, sleeps end and tasks run.
FanoutFairness ==
  /\ \A e \in Exchanges : WF_fanoutVars(deliver(e) \/ wake(e))
  /\ \A w \in Writes : WF_fanoutVars(enqueue(w) \/ respond_async(w))

FanoutSpec == FanoutInit /\ [][FanoutNext]_fanoutVars /\ FanoutFairness

-----------------------------------------------------------------------------
(* Properties. *)

\* Permits are never lost or made: as many are out as deliveries run, after failures,
\* exhausted retries and restarts too, so capture recovers from every broker outage
\* (krafka lib.rs Delivery::spawn, deliver).
PermitsExact == inst.permits + Cardinality(InFlight) = MaxInflight

\* With redaction on, no record of the capture topic carries the client's credentials,
\* however often the client sent the header (capture lib.rs
\* RedactingCapture, server/capture.rs wrap_capture).
CaptureRedacted ==
  inst.setup.redact =>
    \A k \in DOMAIN captured : "authorization" \notin Range(captured[k].headers)

\* Capture leaks neither permits nor credentials, whatever the broker and the clients do.
CaptureLeaksNothing == PermitsExact /\ CaptureRedacted

\* A delivery ends, delivered or given up, whatever the broker does, and an async
\* request is answered (krafka lib.rs deliver, asyncwrite.rs enqueue_async).
DeliveriesEnd ==
  /\ \A e \in Exchanges : []<>(e \notin InFlight)
  /\ \A w \in Writes : []<>(wr[w].pc # "enqueuing")

\* Accepted means queued: what a client is told was accepted is in the topic, under the
\* op id it was told, and of what it is told was refused nothing is there
\* (asyncwrite.rs enqueue_async, fanout.rs enqueue).
AcceptedQueued ==
  \A w \in Writes :
    /\ \A k \in DOMAIN wr[w].lines : wr[w].lines[k] = 202 =>
         \E j \in DOMAIN topic : topic[j] = [op_id |-> item_op_id(w, k), of |-> w, payload |-> wr[w].items[k]]
    /\ wr[w].status \in {400, 422} => \A j \in DOMAIN topic : topic[j].of # w

\* The records of the k-th item of w that an applier that has consumed all has applied.
AppliedAs(w, k) == {j \in Applied(Len(topic)) : topic[j].of = w /\ topic[j].payload = wr[w].items[k]}

Accepted(w) == {k \in DOMAIN wr[w].lines : wr[w].lines[k] = 202}

\* A document or a bulk that is sent under an op id of the client's own, and sent again
\* after a refusal or a cut connection, is applied, and once (asyncwrite.rs op_id_for).
RetryCollapses ==
  \A w \in Writes : wr[w].ask.header = "own" /\ wr[w].ask.kind # "dbq" =>
    \A k \in Accepted(w) : Cardinality(AppliedAs(w, k)) = 1

\* Accepted means queued under the op id that was named, and a retry under it is applied
\* once.
AcceptedOnce == AcceptedQueued /\ RetryCollapses

\* Every write that was accepted is applied by an applier that drops the op ids it has
\* seen (asyncwrite.rs op_id_for, handler.rs next_request_id).
AcceptedApplied == \A w \in Writes : \A k \in Accepted(w) : AppliedAs(w, k) # {}
=============================================================================
