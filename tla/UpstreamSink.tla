---------------------------- MODULE UpstreamSink ----------------------------
(***************************************************************************)
(* Dispatch to upstream clusters, crates/osproxy-sink: the lazily created   *)
(* pool per cluster (opensearch.rs pool_for), the request bounded by a      *)
(* timeout (send), the body read after it, and the passive circuit breaker  *)
(* the outcomes feed (breaker.rs).                                          *)
(*                                                                          *)
(* Requests run concurrently.  Each lock is held for one step; between them *)
(* any other request may run.  Instants are kept as elapsed times, which    *)
(* stop at the deadline they are compared with.                             *)
(***************************************************************************)
EXTENDS Naturals, FiniteSets

CONSTANTS
  Requests,   \* concurrent requests (tasks)
  Clusters,   \* upstream clusters
  None,       \* no pool, or a breaker that is not open
  Threshold,  \* failure_threshold
  Cooldown,   \* cooldown, in ticks
  Timeout     \* the per-request deadline, in ticks

\* A pool is named after the request that created it and the cluster it is for.
Pools == Requests \X Clusters

ASSUME SinkAssumption ==
  /\ Threshold \in Nat \ {0} /\ Cooldown \in Nat /\ Timeout \in Nat \ {0}
  /\ None \notin Pools \cup Clusters \cup Nat

VARIABLES
  pools,     \* cluster -> its pool
  breakers,  \* pool -> the state of its breaker
  idle,      \* pool -> whether a kept-alive connection is free
  req,       \* request -> where it is
  up,        \* cluster -> whether the upstream answers within the deadline (environment)
  tally      \* cluster -> its failures since its last answer, and how long ago the last was

sinkVars == <<pools, breakers, idle, req, up, tally>>

Closed == [consecutive_failures |-> 0, opened |-> None]
Idle == [pc |-> "idle", cluster |-> None, pool |-> None, age |-> 0,
         opens_seen |-> FALSE, fresh |-> FALSE, reused |-> FALSE]

SinkTypeOK ==
  /\ pools \in [Clusters -> Pools \cup {None}]
  /\ breakers \in [Pools -> [consecutive_failures : 0 .. Threshold,
                             opened : 0 .. Cooldown \cup {None}]]
  /\ idle \in [Pools -> BOOLEAN]
  /\ req \in [Requests -> [pc : {"idle", "create", "ready", "inflight", "body"},
                           cluster : Clusters \cup {None}, pool : Pools \cup {None},
                           age : 0 .. Timeout, opens_seen : BOOLEAN, fresh : BOOLEAN,
                           reused : BOOLEAN]]
  /\ up \in [Clusters -> BOOLEAN]
  /\ tally \in [Clusters -> [failures : 0 .. Threshold, since : 0 .. Cooldown]]

SinkInit ==
  /\ pools = [c \in Clusters |-> None]
  /\ breakers = [p \in Pools |-> Closed]
  /\ idle = [p \in Pools |-> FALSE]
  /\ req = [r \in Requests |-> Idle]
  /\ up = [c \in Clusters |-> TRUE]
  /\ tally = [c \in Clusters |-> [failures |-> 0, since |-> Cooldown]]

AtMost(n, limit) == IF n < limit THEN n ELSE limit

-----------------------------------------------------------------------------
(* breaker.rs, every method under the breaker's mutex. *)

\* Mutant, in no specification.
allows_only_closed(b) == b.opened = None

allows(b) == b.opened # None => b.opened >= Cooldown

record_success(b) == Closed

\* Mutant, in no specification.
failure_keeps_stamp(b) ==
  [consecutive_failures |-> AtMost(b.consecutive_failures + 1, Threshold),
   opened |-> IF b.consecutive_failures + 1 >= Threshold /\ b.opened = None THEN 0 ELSE b.opened]

\* The counter counts on; only whether it reached the threshold matters.
record_failure(b) ==
  [consecutive_failures |-> AtMost(b.consecutive_failures + 1, Threshold),
   opened |-> IF b.consecutive_failures + 1 >= Threshold THEN 0 ELSE b.opened]

-----------------------------------------------------------------------------
(* opensearch.rs. *)

\* pool_for() under the read lock: the pool, if the cluster has one.
pool_lookup(r, c) ==
  /\ req[r].pc = "idle"
  /\ req' = [req EXCEPT ![r] = [Idle EXCEPT !.pc = IF pools[c] = None THEN "create" ELSE "ready",
                                            !.cluster = c, !.pool = pools[c]]]
  /\ UNCHANGED <<pools, breakers, idle, up, tally>>

\* Mutant, in no specification.
pool_create_overwrites(r) ==
  LET c == req[r].cluster
  IN /\ req[r].pc = "create"
     /\ pools' = [pools EXCEPT ![c] = <<r, c>>]
     /\ req' = [req EXCEPT ![r].pc = "ready", ![r].pool = <<r, c>>]
     /\ UNCHANGED <<breakers, idle, up, tally>>

\* pool_for() under the write lock: or_insert_with keeps the pool another
\* request created in between.
pool_create(r) ==
  LET c == req[r].cluster
      pool == IF pools[c] = None THEN <<r, c>> ELSE pools[c]
  IN /\ req[r].pc = "create"
     /\ pools' = [pools EXCEPT ![c] = pool]
     /\ req' = [req EXCEPT ![r].pc = "ready", ![r].pool = pool]
     /\ UNCHANGED <<breakers, idle, up, tally>>

\* send(): the breaker sheds the request.
shed(r) ==
  /\ req[r].pc = "ready"
  /\ ~allows(breakers[req[r].pool])
  /\ req' = [req EXCEPT ![r] = Idle]
  /\ UNCHANGED <<pools, breakers, idle, up, tally>>

\* send(): the request goes out.  The client takes a free connection or opens
\* one; opens_seen tells whether the pool's count moved since opens_before.
send(r) ==
  LET pool == req[r].pool
      fresh == ~idle[pool]
      sharing == {o \in Requests : req[o].pc = "inflight" /\ req[o].pool = pool}
  IN /\ req[r].pc = "ready"
     /\ allows(breakers[pool])
     /\ idle' = [idle EXCEPT ![pool] = FALSE]
     /\ req' = [o \in Requests |->
                  IF o = r THEN [req[r] EXCEPT !.pc = "inflight", !.fresh = fresh, !.opens_seen = fresh]
                  ELSE IF o \in sharing /\ fresh THEN [req[o] EXCEPT !.opens_seen = TRUE] ELSE req[o]]
     /\ UNCHANGED <<pools, breakers, up, tally>>

\* The response head arrives in time, with any status: a success for the
\* breaker.  A 5xx ends the request here; otherwise the body is read.
answered(r, status5xx) ==
  LET pool == req[r].pool
  IN /\ req[r].pc = "inflight"
     /\ up[req[r].cluster]
     /\ breakers' = [breakers EXCEPT ![pool] = record_success(@)]
     /\ tally' = [tally EXCEPT ![req[r].cluster].failures = 0]
     /\ req' = [req EXCEPT ![r] = IF status5xx THEN Idle
                                  ELSE [@ EXCEPT !.pc = "body", !.reused = ~req[r].opens_seen]]
     /\ idle' = [idle EXCEPT ![pool] = @ \/ status5xx]
     /\ UNCHANGED <<pools, up>>

\* The transport fails, or the deadline passes: a failure for the breaker.
failed(r) ==
  LET pool == req[r].pool
  IN /\ req[r].pc = "inflight"
     /\ ~up[req[r].cluster]
     /\ breakers' = [breakers EXCEPT ![pool] = record_failure(@)]
     /\ tally' = [tally EXCEPT ![req[r].cluster] =
                    [failures |-> AtMost(@.failures + 1, Threshold), since |-> 0]]
     /\ req' = [req EXCEPT ![r] = Idle]
     /\ UNCHANGED <<pools, idle, up>>

overdue(r) == req[r].pc = "inflight" /\ req[r].age >= Timeout

transport_fails(r) == ~overdue(r) /\ failed(r)

\* Mutant, in no specification.
timed_out_retries(r) ==
  /\ overdue(r) /\ ~up[req[r].cluster]
  /\ breakers' = [breakers EXCEPT ![req[r].pool] = record_failure(@)]
  /\ tally' = [tally EXCEPT ![req[r].cluster] =
                 [failures |-> AtMost(@.failures + 1, Threshold), since |-> 0]]
  /\ req' = [req EXCEPT ![r].age = 0]
  /\ UNCHANGED <<pools, idle, up>>

timed_out(r) == overdue(r) /\ failed(r)

\* The body is collected, or its connection breaks; no deadline applies, and
\* the breaker is not told.
body_read(r) ==
  /\ req[r].pc = "body"
  /\ req' = [req EXCEPT ![r] = Idle]
  /\ idle' = [idle EXCEPT ![req[r].pool] = TRUE]
  /\ UNCHANGED <<pools, breakers, up, tally>>

body_breaks(r) ==
  /\ req[r].pc = "body"
  /\ req' = [req EXCEPT ![r] = Idle]
  /\ UNCHANGED <<pools, breakers, idle, up, tally>>

\* The client went away: the handler is dropped at the await it is in.
cancel(r) ==
  /\ req[r].pc \in {"inflight", "body"}
  /\ req' = [req EXCEPT ![r] = Idle]
  /\ UNCHANGED <<pools, breakers, idle, up, tally>>

\* The upstream's keep-alive closes a free connection.
conn_closed(p) ==
  /\ idle[p]
  /\ idle' = [idle EXCEPT ![p] = FALSE]
  /\ UNCHANGED <<pools, breakers, req, up, tally>>

\* The upstream stops answering, or answers again.
up_changes(c) ==
  /\ up' = [up EXCEPT ![c] = ~@]
  /\ UNCHANGED <<pools, breakers, idle, req, tally>>

\* Time passes; an elapsed timer is served first.
Tick ==
  /\ \A r \in Requests : ~overdue(r)
  /\ breakers' = [p \in Pools |->
       [breakers[p] EXCEPT !.opened = IF @ = None THEN None ELSE AtMost(@ + 1, Cooldown)]]
  /\ req' = [r \in Requests |->
       IF req[r].pc = "inflight" THEN [req[r] EXCEPT !.age = @ + 1] ELSE req[r]]
  /\ tally' = [c \in Clusters |-> [tally[c] EXCEPT !.since = AtMost(@ + 1, Cooldown)]]
  /\ UNCHANGED <<pools, idle, up>>

-----------------------------------------------------------------------------
Proceed(r) == pool_create(r) \/ shed(r) \/ send(r)
Outcome(r) == timed_out(r) \/ \E status5xx \in BOOLEAN : answered(r, status5xx)

SinkNext ==
  \/ \E r \in Requests, c \in Clusters : pool_lookup(r, c)
  \/ \E r \in Requests : \/ Proceed(r) \/ Outcome(r) \/ transport_fails(r)
                         \/ body_read(r) \/ body_breaks(r) \/ cancel(r)
  \/ \E p \in Pools : conn_closed(p)
  \/ \E c \in Clusters : up_changes(c)
  \/ Tick

\* Requests keep coming and the runtime runs them, timers fire, and an upstream
\* that is up answers.  Nothing is assumed of one that is down, nor of bodies.
SinkFairness ==
  /\ WF_sinkVars(Tick)
  /\ \A r \in Requests :
       /\ WF_sinkVars(\E c \in Clusters : pool_lookup(r, c))
       /\ WF_sinkVars(Proceed(r))
       /\ WF_sinkVars(Outcome(r))

SinkSpec == SinkInit /\ [][SinkNext]_sinkVars /\ SinkFairness

-----------------------------------------------------------------------------
(* Properties. *)

\* Eviction: while the last Threshold outcomes of a cluster, on whatever
\* request, were failures and the last of them is younger than the cooldown, no
\* request goes out to it.
EvictedRests ==
  [][\A r \in Requests :
       (req[r].pc # "inflight" /\ req'[r].pc = "inflight") =>
         LET t == tally[req[r].cluster]
         IN t.failures < Threshold \/ t.since >= Cooldown]_sinkVars

\* Requests that use a cluster at the same time share its pool, and so its
\* breaker, however their first uses interleave.
OnePool ==
  \A r \in Requests :
    req[r].pc \in {"ready", "inflight", "body"} => req[r].pool = pools[req[r].cluster]

\* The reuse telemetry never claims too much: a request reported as riding a
\* pooled connection did not open one, whatever its neighbours did.
ReuseSound == \A r \in Requests : req[r].reused => ~req[r].fresh

\* Requests that race for a cluster's first connection end up with one pool, and with
\* true telemetry about it.
PoolsSound == OnePool /\ ReuseSound

\* A dispatched request gets its response head, or an error, in the end, even if
\* the upstream never says a word.
HeadBounded == \A r \in Requests : []<>(req[r].pc # "inflight")

\* "Every dispatch is bounded by a per-request timeout": it comes back whatever
\* the upstream does.
DispatchBounded == \A r \in Requests : (req[r].pc = "inflight") ~> (req[r].pc = "idle")

\* A cluster that answers again is not shed for ever: its cooldown runs out and
\* no late failure restarts it, even if clients cancel every trial.
Recovers ==
  \A c \in Clusters :
    <>[](up[c]) => <>[](pools[c] # None => allows(breakers[pools[c]]))
=============================================================================
