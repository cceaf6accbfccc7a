------------------------------ MODULE Ingress -------------------------------
(***************************************************************************)
(* The HTTP ingress, crates/osproxy-transport: the accept loop with its     *)
(* connection ceiling and graceful drain (server.rs), the three ways a      *)
(* request's body is taken (http_io.rs) and the byte budget that bounds     *)
(* what is buffered (admission.rs).                                         *)
(*                                                                          *)
(* The accept loop, every connection and every request of a connection      *)
(* (HTTP/2 runs several at once) are concurrent tasks; they share two       *)
(* atomic counters, and the budget is reserved by load and compare-exchange.*)
(***************************************************************************)
EXTENDS Naturals, FiniteSets

CONSTANTS
  Conns,             \* connections clients try to make
  Requests,          \* requests clients send
  Absent,              \* no connection, or no declared Content-Length
  MaxBody,           \* max_body_bytes
  Ceiling,           \* inflight_ceiling
  MaxConnections,    \* max_connections
  DrainDeadline      \* DRAIN_DEADLINE, in ticks

ASSUME IngressAssumption ==
  /\ MaxBody \in Nat /\ Ceiling \in Nat /\ MaxConnections \in Nat /\ DrainDeadline \in Nat
  /\ Absent \notin Conns \cup Nat
  /\ IsFiniteSet(Conns) /\ IsFiniteSet(Requests)

VARIABLES
  server,    \* the accept loop: its phase, and how long it has been draining
  active,    \* AtomicUsize: live connections
  conn,      \* connection -> its task
  inflight,  \* AtomicUsize: bytes reserved
  req        \* request -> its task

ingressVars == <<server, active, conn, inflight, req>>

\* Sizes a client may declare: one more than the cap is enough to be refused.
Sizes == 0 .. MaxBody + 1

NotSent == [pc |-> "unsent", conn |-> Absent, declared |-> Absent, current |-> 0,
            reserved |-> 0, buffered |-> 0, status |-> 0]

IngressTypeOK ==
  /\ server \in [phase : {"accepting", "draining", "stopped", "failed"}, age : 0 .. DrainDeadline]
  /\ active \in 0 .. Cardinality(Conns)
  /\ conn \in [Conns -> {"none", "handshake", "open", "winding", "closed"}]
  /\ inflight \in Nat
  /\ req \in [Requests ->
       [pc : {"unsent", "streaming", "reserving", "collecting", "handling", "done"},
        conn : Conns \cup {Absent}, declared : Sizes \cup {Absent}, current : Nat,
        reserved : 0 .. MaxBody, buffered : 0 .. MaxBody, status : {0, 200, 413, 429}]]

IngressInit ==
  /\ server = [phase |-> "accepting", age |-> 0]
  /\ active = 0
  /\ conn = [c \in Conns |-> "none"]
  /\ inflight = 0
  /\ req = [r \in Requests |-> NotSent]

\* No ingress: a server that has returned.
IngressOff ==
  /\ server = [phase |-> "stopped", age |-> 0]
  /\ active = 0
  /\ conn = [c \in Conns |-> "none"]
  /\ inflight = 0
  /\ req = [r \in Requests |-> NotSent]

requests(c) == {r \in Requests : req[r].conn = c /\ req[r].pc \notin {"unsent", "done"}}

-----------------------------------------------------------------------------
(* server.rs *)

\* run() accepts: over the ceiling the stream is dropped, otherwise
\* spawn_conn() counts it and spawns its task.
accept(c) ==
  /\ server.phase = "accepting" /\ conn[c] = "none"
  /\ IF active >= MaxConnections
     THEN conn' = [conn EXCEPT ![c] = "closed"] /\ UNCHANGED active
     ELSE conn' = [conn EXCEPT ![c] = "handshake"] /\ active' = active + 1
  /\ UNCHANGED <<server, inflight, req>>

\* accept() itself fails (no descriptor left, say): run() returns the error at once,
\* without a drain.  Its drain_tx is dropped, which the watch reports as a change.
accept_fails ==
  /\ server.phase = "accepting"
  /\ server' = [server EXCEPT !.phase = "failed"]
  /\ UNCHANGED <<active, conn, inflight, req>>

\* The TLS handshake succeeds (at once on a plain listener) and
\* serve_connection() starts.
handshake(c) ==
  /\ conn[c] = "handshake"
  /\ conn' = [conn EXCEPT ![c] = "open"]
  /\ UNCHANGED <<server, active, inflight, req>>

\* The connection's task ends and its ActiveGuard is dropped: the handshake
\* failed, the peer closed, or a winding connection had nothing left to do.
conn_ends(c) ==
  /\ conn[c] \in {"handshake", "open", "winding"}
  /\ conn' = [conn EXCEPT ![c] = "closed"]
  /\ active' = active - 1
  /\ UNCHANGED <<server, inflight, req>>

\* The shutdown future resolves: the accept loop breaks and the watch flips.
shutdown ==
  /\ server.phase = "accepting"
  /\ server' = [server EXCEPT !.phase = "draining"]
  /\ UNCHANGED <<active, conn, inflight, req>>

\* serve_connection() sees the watch change, or its sender gone: graceful_shutdown().
drain_seen(c) ==
  /\ server.phase # "accepting" /\ conn[c] = "open"
  /\ conn' = [conn EXCEPT ![c] = "winding"]
  /\ UNCHANGED <<server, active, inflight, req>>

\* A winding connection with no request left closes itself.
wound_down(c) == conn[c] = "winding" /\ requests(c) = {} /\ conn_ends(c)

\* Mutant, in no specification.
drained_unbounded ==
  /\ server.phase = "draining"
  /\ active = 0
  /\ server' = [server EXCEPT !.phase = "stopped"]
  /\ UNCHANGED <<active, conn, inflight, req>>

\* Mutant, in no specification.
drained_at_once ==
  /\ server.phase = "draining"
  /\ server' = [server EXCEPT !.phase = "stopped"]
  /\ UNCHANGED <<active, conn, inflight, req>>

\* await_drain() returns: no connection is left, or the deadline passed.
drained ==
  /\ server.phase = "draining"
  /\ active = 0 \/ server.age >= DrainDeadline
  /\ server' = [server EXCEPT !.phase = "stopped"]
  /\ UNCHANGED <<active, conn, inflight, req>>

Tick ==
  /\ server.phase = "draining" /\ server.age < DrainDeadline
  /\ server' = [server EXCEPT !.age = @ + 1]
  /\ UNCHANGED <<active, conn, inflight, req>>

-----------------------------------------------------------------------------
(* http_io.rs and admission.rs *)

\* What is left of a request that is answered or dropped.
Ended(r, status) == [req[r] EXCEPT !.pc = "done", !.status = status,
                                   !.reserved = 0, !.buffered = 0]

\* The request's future is dropped at an await: its stream was reset or its
\* connection ended.  Reservation::drop gives its bytes back.
dropped(r) ==
  /\ req[r].pc \in {"streaming", "collecting", "handling"}
  /\ inflight' = inflight - req[r].reserved
  /\ req' = [req EXCEPT ![r] = Ended(r, 0)]
  /\ UNCHANGED <<server, active, conn>>

\* serve_request() on a request head: a verbatim forward streams whatever its
\* size; a declared length over the cap is refused; a streamed bulk request
\* reserves nothing; the rest is buffered.
RequestHead(r, c, declared, path) ==
  /\ conn[c] = "open" /\ req[r].pc = "unsent"
  /\ req' = [req EXCEPT ![r] =
       LET new == [NotSent EXCEPT !.conn = c, !.declared = declared]
       IN IF path = "forward" THEN [new EXCEPT !.pc = "streaming"]
          ELSE IF declared # Absent /\ declared > MaxBody THEN [new EXCEPT !.pc = "done", !.status = 413]
          ELSE IF path = "bulk_stream" THEN [new EXCEPT !.pc = "streaming"]
          ELSE [new EXCEPT !.pc = "reserving", !.current = inflight]]
  /\ UNCHANGED <<server, active, conn, inflight>>

\* An undeclared length reserves the cap.
reserve(r) == IF req[r].declared = Absent THEN MaxBody ELSE req[r].declared

\* try_reserve(): over the ceiling by the value last read, shed with 429.
shed(r) ==
  /\ req[r].pc = "reserving"
  /\ req[r].current + reserve(r) > Ceiling
  /\ req' = [req EXCEPT ![r] = Ended(r, 429)]
  /\ UNCHANGED <<server, active, conn, inflight>>

\* Mutant, in no specification.
store_without_compare(r) ==
  /\ req[r].pc = "reserving"
  /\ req[r].current + reserve(r) <= Ceiling
  /\ inflight' = req[r].current + reserve(r)
  /\ req' = [req EXCEPT ![r].pc = "collecting", ![r].reserved = reserve(r)]
  /\ UNCHANGED <<server, active, conn>>

\* try_reserve(): compare_exchange_weak succeeds, or fails and rereads; it may
\* also fail spuriously, which rereads the same value and is no step.
compare_exchange(r) ==
  /\ req[r].pc = "reserving"
  /\ req[r].current + reserve(r) <= Ceiling
  /\ IF inflight = req[r].current
     THEN /\ inflight' = req[r].current + reserve(r)
          /\ req' = [req EXCEPT ![r].pc = "collecting", ![r].reserved = reserve(r)]
     ELSE /\ req' = [req EXCEPT ![r].current = inflight]
          /\ UNCHANGED inflight
  /\ UNCHANGED <<server, active, conn>>

\* A byte of the body arrives: not past the declared length, and Limited refuses
\* one past the cap, which ends the request with 413.
collect(r) ==
  /\ req[r].pc = "collecting" /\ conn[req[r].conn] # "closed"
  /\ req[r].declared # Absent => req[r].buffered < req[r].declared
  /\ IF req[r].buffered < MaxBody
     THEN req' = [req EXCEPT ![r].buffered = @ + 1] /\ UNCHANGED inflight
     ELSE req' = [req EXCEPT ![r] = Ended(r, 413)] /\ inflight' = inflight - req[r].reserved
  /\ UNCHANGED <<server, active, conn>>

\* The body ends and the handler is called with it.
collected(r) ==
  /\ req[r].pc = "collecting"
  /\ req[r].declared # Absent => req[r].buffered = req[r].declared
  /\ req' = [req EXCEPT ![r].pc = "handling"]
  /\ UNCHANGED <<server, active, conn, inflight>>

\* The handler returns its response; serve_buffered() returns and drops the
\* Reservation.
handled(r) ==
  /\ req[r].pc \in {"handling", "streaming"}
  /\ inflight' = inflight - req[r].reserved
  /\ req' = [req EXCEPT ![r] = Ended(r, 200)]
  /\ UNCHANGED <<server, active, conn>>

-----------------------------------------------------------------------------
RequestStep(r) == dropped(r) \/ shed(r) \/ compare_exchange(r) \/ collected(r) \/ handled(r)

IngressNext ==
  \/ \E c \in Conns : accept(c) \/ handshake(c) \/ conn_ends(c) \/ drain_seen(c) \/ wound_down(c)
  \/ \E r \in Requests, c \in Conns, declared \in Sizes \cup {Absent},
        path \in {"forward", "bulk_stream", "buffered"} : RequestHead(r, c, declared, path)
  \/ \E r \in Requests : RequestStep(r) \/ collect(r)
  \/ accept_fails \/ shutdown \/ drained \/ Tick

\* Timers fire, tasks run, and handlers return; clients may stay silent.
IngressFairness ==
  /\ WF_ingressVars(Tick) /\ WF_ingressVars(drained)
  /\ \A c \in Conns : WF_ingressVars(drain_seen(c)) /\ WF_ingressVars(wound_down(c))
  /\ \A r \in Requests : WF_ingressVars(shed(r) \/ compare_exchange(r)) /\ WF_ingressVars(handled(r))

IngressSpec == IngressInit /\ [][IngressNext]_ingressVars /\ IngressFairness

-----------------------------------------------------------------------------
(* Properties. *)

\* The bytes that requests hold, one element for each, when request r holds n[r].
Bytes(n) == {b \in Requests \X (1 .. MaxBody) : b[2] <= n[b[1]]}

Buffered == Bytes([r \in Requests |-> req[r].buffered])
Reserved == Bytes([r \in Requests |-> req[r].reserved])

\* Memory is bounded: what all requests together hold buffered never exceeds the
\* ceiling, whatever the interleaving of reservations, failures and closes.
BufferedUnderCeiling == Cardinality(Buffered) <= Ceiling

\* The budget never leaks: the counter is exactly the bytes reserved, so when no
\* request is in flight all of it is back.
BudgetExact == inflight = Cardinality(Reserved)

\* The connection ceiling holds exactly: the check and the increment are on the
\* one accept loop, so the comment's "brief accept race" cannot exceed it.
LiveConns == {c \in Conns : conn[c] \in {"handshake", "open", "winding"}}
ConnectionsCapped == Cardinality(LiveConns) <= MaxConnections

\* The limits an operator sets hold: buffered bytes stay under the ceiling, the budget
\* is exactly what is reserved, and connections stay under theirs.
CeilingsHold == BufferedUnderCeiling /\ BudgetExact /\ ConnectionsCapped

\* Graceful: once shutdown has begun the server does not return under a live
\* connection before the drain deadline.  An error of accept() is the only way to
\* return without a drain, and only while no shutdown is under way.
Returned(phase) == phase \in {"stopped", "failed"}
Graceful ==
  (~Returned(server.phase) /\ Returned(server'.phase)) =>
    \/ server.phase = "accepting" /\ server'.phase = "failed"
    \/ server.age = DrainDeadline
    \/ \A c \in Conns : conn[c] \in {"none", "closed"}
GracefulStop == [][Graceful]_ingressVars

\* Bounded: once shutdown began the server returns, even if a client never
\* finishes its handshake or its request.
DrainEnds == (server.phase = "draining") ~> (server.phase = "stopped")
=============================================================================
