--------------------------- MODULE UpstreamProofs ----------------------------
(***************************************************************************)
(* Proofs about dispatch to upstream clusters, for any number of concurrent *)
(* requests and clusters, any threshold, cooldown and timeout.              *)
(***************************************************************************)
EXTENDS UpstreamSink, TLAPS

\* The types of a request's task and of a breaker.
Pcs == {"idle", "create", "ready", "inflight", "body"}
Ages == 0 .. Timeout
Task == [pc : Pcs, cluster : Clusters \cup {None}, pool : Pools \cup {None}, age : Ages,
         opens_seen : BOOLEAN, fresh : BOOLEAN, reused : BOOLEAN]
Counts == 0 .. Threshold
Stamps == 0 .. Cooldown \cup {None}
Breaker == [consecutive_failures : Counts, opened : Stamps]

\* A request that holds a pool holds its cluster's, by the map of pools `at'; what it
\* will report of its connection is what it saw.
Uses(q, at) ==
  /\ q.pc # "idle" => q.cluster \in Clusters
  /\ q.pc \in {"ready", "inflight", "body"} => q.pool = at[q.cluster] /\ q.pool # None
  /\ q.pc # "body" => ~q.reused
  /\ q.pc \in {"inflight", "body"} /\ q.fresh => q.opens_seen
  /\ q.pc = "body" /\ q.reused => ~q.opens_seen

UsesWell == \A r \in Requests : Uses(req[r], pools)

\* A pool serves one cluster.
PoolsApart == \A c \in Clusters : pools[c] # None => pools[c][2] = c

\* The breaker of a cluster's pool tells what the outcomes were: it counts the
\* failures since the last answer, and once they reach the threshold it is as old as
\* the last of them.  Nobody has used the breaker of a pool that was not made.
Tells(c) ==
  /\ pools[c] = None => tally[c].failures = 0
  /\ pools[c] # None =>
       /\ breakers[pools[c]].consecutive_failures = tally[c].failures
       /\ tally[c].failures >= Threshold => breakers[pools[c]].opened = tally[c].since
  /\ \A r \in Requests : pools[c] # <<r, c>> => breakers[<<r, c>>] = Closed

BreakersTell == \A c \in Clusters : Tells(c)

SinkInv == SinkTypeOK /\ UsesWell /\ PoolsApart /\ BreakersTell

LEMMA SinkTypes ==
  ASSUME SinkTypeOK
  PROVE  /\ pools \in [Clusters -> Pools \cup {None}]
         /\ breakers \in [Pools -> Breaker]
         /\ idle \in [Pools -> BOOLEAN]
         /\ req \in [Requests -> Task]
         /\ tally \in [Clusters -> [failures : Counts, since : 0 .. Cooldown]]
  BY DEF SinkTypeOK, Breaker, Counts, Stamps, Task, Pcs, Ages

LEMMA IdleTask == Idle \in Task /\ Uses(Idle, pools)
  BY SinkAssumption DEF Idle, Task, Pcs, Ages, Uses

LEMMA ClosedBreaker == Closed \in Breaker
  BY SinkAssumption DEF Closed, Breaker, Counts, Stamps

\* A step that touches only one request's task, and the free connections.
LEMMA TaskStep ==
  ASSUME SinkInv, NEW r \in Requests, NEW new \in Task, Uses(new, pools),
         req' = [req EXCEPT ![r] = new], idle' \in [Pools -> BOOLEAN],
         UNCHANGED <<pools, breakers, up, tally>>
  PROVE  SinkInv'
<1>1. req \in [Requests -> Task]
  BY SinkTypes DEF SinkInv
<1>2. SinkTypeOK'
  BY <1>1 DEF SinkInv, SinkTypeOK, Task, Pcs, Ages
<1>3. UsesWell'
  BY <1>1 DEF SinkInv, UsesWell, Uses
<1> QED BY <1>2, <1>3 DEF SinkInv, PoolsApart, BreakersTell, Tells, Closed

\* A request that ends is an idle task again.
LEMMA EndStep ==
  ASSUME SinkInv, NEW r \in Requests, req' = [req EXCEPT ![r] = Idle],
         idle' \in [Pools -> BOOLEAN], UNCHANGED <<pools, breakers, up, tally>>
  PROVE  SinkInv'
  BY IdleTask, TaskStep

LEMMA LookupStep ==
  ASSUME SinkInv, NEW r \in Requests, NEW c \in Clusters, pool_lookup(r, c)
  PROVE  SinkInv'
<1> DEFINE pc == IF pools[c] = None THEN "create" ELSE "ready"
           new == [Idle EXCEPT !.pc = pc, !.cluster = c, !.pool = pools[c]]
<1>1. pc \in Pcs /\ c \in Clusters \cup {None} /\ pools[c] \in Pools \cup {None}
  BY SinkTypes DEF SinkInv, Pcs
<1>2. new \in Task
  <2> HIDE DEF pc
  <2> QED BY <1>1, IdleTask, Zenon DEF Task
<1>3. /\ new.pc = pc /\ new.cluster = c /\ new.pool = pools[c]
      /\ new.fresh = FALSE /\ new.reused = FALSE
  BY DEF Idle
<1>4. Uses(new, pools)
  BY <1>1, <1>3 DEF Uses
<1> QED BY <1>2, <1>4, TaskStep, SinkTypes DEF pool_lookup, SinkInv

LEMMA CreateStep ==
  ASSUME SinkInv, NEW r \in Requests, pool_create(r)
  PROVE  SinkInv'
<1> DEFINE c == req[r].cluster
           pool == IF pools[c] = None THEN <<r, c>> ELSE pools[c]
           new == [req[r] EXCEPT !.pc = "ready", !.pool = pool]
<1>1. /\ req \in [Requests -> Task] /\ pools \in [Clusters -> Pools \cup {None}]
      /\ c \in Clusters /\ req[r].pc = "create" /\ Uses(req[r], pools)
      /\ pool \in Pools /\ pool # None /\ pool[2] = c
  BY SinkTypes, SinkAssumption DEF SinkInv, UsesWell, Uses, pool_create, Pools, PoolsApart
<1>2. /\ pools' = [pools EXCEPT ![c] = pool] /\ req' = [req EXCEPT ![r] = new]
      /\ UNCHANGED <<breakers, idle, up, tally>>
  BY DEF pool_create
<1>3. new \in Task
  <2>1. "ready" \in Pcs /\ pool \in Pools \cup {None} /\ req[r] \in Task
    BY <1>1 DEF Pcs
  <2> HIDE DEF pool
  <2> QED BY <2>1, Zenon DEF Task
<1>4. SinkTypeOK'
  BY <1>1, <1>2, <1>3 DEF SinkInv, SinkTypeOK, Task, Pcs, Ages
<1>5. PoolsApart'
  BY <1>1, <1>2 DEF SinkInv, PoolsApart
<1>6. \A d \in Clusters : pools'[d] = IF d = c THEN pool ELSE pools[d]
  BY <1>1, <1>2
<1>7. UsesWell'
  <2>1. /\ new.pc = "ready" /\ new.cluster = c /\ new.pool = pool /\ new.reused = req[r].reused
    BY <1>1 DEF Task
  <2>2. Uses(new, pools')
    BY <1>1, <1>6, <2>1 DEF Uses
  <2>3. \A o \in Requests \ {r} : Uses(req'[o], pools')
    <3> SUFFICES ASSUME NEW o \in Requests \ {r} PROVE Uses(req'[o], pools')
      OBVIOUS
    <3>1. req'[o] = req[o] /\ Uses(req[o], pools)
      BY <1>1, <1>2 DEF SinkInv, UsesWell
    <3> QED BY <1>6, <3>1 DEF Uses
  <2>4. req'[r] = new
    BY <1>1, <1>2
  <2> QED BY <2>2, <2>3, <2>4 DEF UsesWell, Uses
<1>8. BreakersTell'
  <2> SUFFICES ASSUME NEW d \in Clusters PROVE Tells(d)'
    BY DEF BreakersTell
  <2>1. Tells(d)
    BY DEF SinkInv, BreakersTell
  <2>2. CASE d = c /\ pools[c] = None
    <3>1. breakers[<<r, c>>] = Closed /\ tally[c].failures = 0
      BY <1>1, <2>1, <2>2, SinkAssumption DEF Tells, Pools
    <3>2. pools'[d] = <<r, c>> /\ pools'[d] # None
      BY <1>1, <1>6, <2>2
    <3>3. \A o \in Requests : breakers[<<o, d>>] = Closed
      BY <1>1, <2>1, <2>2, SinkAssumption DEF Tells, Pools
    <3>4. ~(tally[c].failures >= Threshold) /\ Closed.consecutive_failures = 0
      BY <3>1, SinkAssumption DEF Closed
    <3> QED BY <1>2, <2>2, <3>1, <3>2, <3>3, <3>4 DEF Tells
  <2>3. CASE ~(d = c /\ pools[c] = None)
    BY <1>2, <1>6, <2>1, <2>3 DEF Tells, Closed
  <2> QED BY <2>2, <2>3
<1> QED BY <1>4, <1>5, <1>7, <1>8 DEF SinkInv

LEMMA SendStep ==
  ASSUME SinkInv, NEW r \in Requests, send(r)
  PROVE  SinkInv'
<1> DEFINE fresh == ~idle[req[r].pool]
<1>1. /\ req \in [Requests -> Task] /\ idle \in [Pools -> BOOLEAN] /\ Uses(req[r], pools)
      /\ pools \in [Clusters -> Pools \cup {None}]
      /\ req[r].pc = "ready" /\ req[r].pool \in Pools
  BY SinkTypes DEF SinkInv, UsesWell, Uses, send
<1>2. idle' \in [Pools -> BOOLEAN] /\ UNCHANGED <<pools, breakers, up, tally>>
  BY <1>1 DEF send
<1>3. req' = [o \in Requests |-> req'[o]]
  BY DEF send
<1>4. req'[r] \in Task /\ Uses(req'[r], pools)
  <2>0. req'[r] = [req[r] EXCEPT !.pc = "inflight", !.fresh = fresh, !.opens_seen = fresh]
    BY DEF send
  <2>1. "inflight" \in Pcs /\ fresh \in BOOLEAN /\ req[r] \in Task
    BY <1>1 DEF Pcs
  <2>2. [req[r] EXCEPT !.pc = "inflight", !.fresh = fresh, !.opens_seen = fresh] \in Task
    <3> HIDE DEF fresh
    <3> QED BY <2>1, Zenon DEF Task
  <2>3. /\ req'[r].pc = "inflight" /\ req'[r].fresh = fresh /\ req'[r].opens_seen = fresh
        /\ req'[r].reused = req[r].reused /\ req'[r].cluster = req[r].cluster
        /\ req'[r].pool = req[r].pool
    BY <2>0, <2>1 DEF Task
  <2> QED BY <1>1, <2>0, <2>2, <2>3 DEF Uses
<1>5. ASSUME NEW o \in Requests, o # r
      PROVE  req'[o] \in Task /\ Uses(req'[o], pools)
  <2>1. req[o] \in Task /\ Uses(req[o], pools)
    BY <1>1 DEF SinkInv, UsesWell
  <2>2. CASE req'[o] = req[o]
    BY <2>1, <2>2
  <2>3. CASE req[o].pc = "inflight" /\ req'[o] = [req[o] EXCEPT !.opens_seen = TRUE]
    <3>1. req'[o] \in Task
      BY <2>1, <2>3, Zenon DEF Task
    <3>2. /\ req'[o].pc = "inflight" /\ req'[o].opens_seen = TRUE /\ req'[o].fresh = req[o].fresh
          /\ req'[o].reused = req[o].reused /\ req'[o].cluster = req[o].cluster
          /\ req'[o].pool = req[o].pool
      BY <2>1, <2>3 DEF Task
    <3> QED BY <2>1, <2>3, <3>1, <3>2 DEF Uses
  <2> QED BY <1>5, <2>2, <2>3 DEF send
<1>6. req' \in [Requests -> Task]
  BY <1>3, <1>4, <1>5
<1>7. SinkTypeOK'
  BY <1>2, <1>6 DEF SinkInv, SinkTypeOK, Task, Pcs, Ages
<1>8. UsesWell'
  BY <1>2, <1>4, <1>5 DEF UsesWell
<1> QED BY <1>2, <1>7, <1>8 DEF SinkInv, PoolsApart, BreakersTell, Tells, Closed

\* An outcome of a request in flight: its cluster's breaker and tally move together.
LEMMA OutcomeStep ==
  ASSUME SinkInv, NEW r \in Requests, req[r].pc = "inflight",
         NEW b \in Breaker, NEW t \in [failures : Counts, since : 0 .. Cooldown],
         NEW new \in Task, Uses(new, pools),
         b.consecutive_failures = t.failures, t.failures >= Threshold => b.opened = t.since,
         breakers' = [breakers EXCEPT ![req[r].pool] = b],
         tally' = [tally EXCEPT ![req[r].cluster] = t],
         req' = [req EXCEPT ![r] = new],
         idle' \in [Pools -> BOOLEAN], UNCHANGED <<pools, up>>
  PROVE  SinkInv'
<1> DEFINE c == req[r].cluster
<1>1. /\ req \in [Requests -> Task] /\ pools \in [Clusters -> Pools \cup {None}]
      /\ breakers \in [Pools -> Breaker]
      /\ tally \in [Clusters -> [failures : Counts, since : 0 .. Cooldown]]
      /\ c \in Clusters /\ req[r].pool = pools[c] /\ pools[c] \in Pools /\ pools[c] # None
  BY SinkTypes DEF SinkInv, UsesWell, Uses
<1>2. SinkTypeOK'
  BY <1>1 DEF SinkInv, SinkTypeOK, Task, Pcs, Ages, Breaker, Counts, Stamps
<1>3. UsesWell'
  BY <1>1 DEF SinkInv, UsesWell, Uses
<1>4. BreakersTell'
  <2> SUFFICES ASSUME NEW d \in Clusters PROVE Tells(d)'
    BY DEF BreakersTell
  <2>1. Tells(d)
    BY DEF SinkInv, BreakersTell
  <2>2. CASE d = c
    <3>1. tally'[d] = t /\ breakers'[pools[d]] = b /\ pools' = pools
      BY <1>1, <2>2
    <3>2. \A o \in Requests : pools[d] # <<o, d>> => breakers'[<<o, d>>] = breakers[<<o, d>>]
      BY <1>1, <2>2 DEF Pools
    <3> QED BY <1>1, <2>1, <2>2, <3>1, <3>2 DEF Tells, Closed
  <2>3. CASE d # c
    <3>1. \A p \in Pools : p[2] = d => breakers'[p] = breakers[p]
      BY <1>1, <2>3 DEF SinkInv, PoolsApart
    <3>2. tally'[d] = tally[d] /\ pools' = pools
      BY <1>1, <2>3
    <3>3. pools[d] # None => pools[d] \in Pools /\ pools[d][2] = d
      BY <1>1 DEF SinkInv, PoolsApart
    <3>4. \A o \in Requests : <<o, d>> \in Pools /\ <<o, d>>[2] = d
      BY DEF Pools
    <3> QED BY <2>1, <3>1, <3>2, <3>3, <3>4 DEF Tells, Closed
  <2> QED BY <2>2, <2>3
<1> QED BY <1>2, <1>3, <1>4 DEF SinkInv, PoolsApart

LEMMA AnsweredStep ==
  ASSUME SinkInv, NEW r \in Requests, NEW status5xx \in BOOLEAN, answered(r, status5xx)
  PROVE  SinkInv'
<1> DEFINE c == req[r].cluster
           t == [tally[c] EXCEPT !.failures = 0]
           new == IF status5xx THEN Idle
                  ELSE [req[r] EXCEPT !.pc = "body", !.reused = ~req[r].opens_seen]
<1>1. /\ req \in [Requests -> Task] /\ idle \in [Pools -> BOOLEAN] /\ Uses(req[r], pools)
      /\ breakers \in [Pools -> Breaker]
      /\ tally \in [Clusters -> [failures : Counts, since : 0 .. Cooldown]]
      /\ c \in Clusters /\ req[r].pc = "inflight"
  BY SinkTypes DEF SinkInv, UsesWell, Uses, answered
<1>2. /\ breakers' = [breakers EXCEPT ![req[r].pool] = Closed]
      /\ tally' = [tally EXCEPT ![c] = t]
      /\ req' = [req EXCEPT ![r] = new]
      /\ UNCHANGED <<pools, up>>
  BY DEF answered, record_success
<1>3. idle' \in [Pools -> BOOLEAN]
  BY <1>1 DEF answered
<1>4. /\ t \in [failures : Counts, since : 0 .. Cooldown] /\ t.failures = 0
      /\ Closed.consecutive_failures = 0 /\ ~(t.failures >= Threshold)
  BY <1>1, SinkAssumption DEF Counts, Closed
<1>5. new \in Task /\ Uses(new, pools)
  <2>1. CASE status5xx
    BY <2>1, IdleTask
  <2>2. CASE ~status5xx
    <3> DEFINE reused == ~req[r].opens_seen
    <3>1. "body" \in Pcs /\ req[r] \in Task /\ reused \in BOOLEAN
      BY <1>1 DEF Pcs
    <3>2. [req[r] EXCEPT !.pc = "body", !.reused = reused] \in Task
      <4> HIDE DEF reused
      <4> QED BY <3>1, Zenon DEF Task
    <3>3. /\ new.pc = "body" /\ new.reused = ~req[r].opens_seen /\ new.fresh = req[r].fresh
          /\ new.opens_seen = req[r].opens_seen /\ new.cluster = c /\ new.pool = req[r].pool
      BY <2>2, <3>1 DEF Task
    <3> QED BY <1>1, <2>2, <3>2, <3>3 DEF Uses
  <2> QED BY <2>1, <2>2
<1> HIDE DEF t, new
<1> QED BY <1>1, <1>2, <1>3, <1>4, <1>5, ClosedBreaker, OutcomeStep

LEMMA FailedStep ==
  ASSUME SinkInv, NEW r \in Requests, failed(r)
  PROVE  SinkInv'
<1> DEFINE c == req[r].cluster
           old == breakers[req[r].pool]
           b == record_failure(old)
           t == [failures |-> AtMost(tally[c].failures + 1, Threshold), since |-> 0]
<1>1. /\ req \in [Requests -> Task] /\ idle \in [Pools -> BOOLEAN] /\ Uses(req[r], pools)
      /\ pools \in [Clusters -> Pools \cup {None}]
      /\ breakers \in [Pools -> Breaker]
      /\ tally \in [Clusters -> [failures : Counts, since : 0 .. Cooldown]]
      /\ c \in Clusters /\ req[r].pc = "inflight" /\ req[r].pool = pools[c] /\ pools[c] # None
  BY SinkTypes DEF SinkInv, UsesWell, Uses, failed
<1>2. /\ breakers' = [breakers EXCEPT ![req[r].pool] = b]
      /\ tally' = [tally EXCEPT ![c] = t]
      /\ req' = [req EXCEPT ![r] = Idle]
      /\ idle' \in [Pools -> BOOLEAN]
      /\ UNCHANGED <<pools, up>>
  BY <1>1 DEF failed
<1>3. old \in Breaker /\ old.consecutive_failures = tally[c].failures /\ tally[c].failures \in Counts
  BY <1>1 DEF SinkInv, BreakersTell, Tells
<1>4. b \in Breaker /\ t \in [failures : Counts, since : 0 .. Cooldown]
  BY <1>3, SinkAssumption DEF record_failure, AtMost, Breaker, Counts, Stamps
<1>5. b.consecutive_failures = t.failures /\ (t.failures >= Threshold => b.opened = t.since)
  BY <1>3, SinkAssumption DEF record_failure, AtMost, Counts
<1> HIDE DEF b, t
<1> QED BY <1>1, <1>2, <1>4, <1>5, IdleTask, OutcomeStep

LEMMA TickStep ==
  ASSUME SinkInv, Tick
  PROVE  SinkInv'
<1>1. /\ req \in [Requests -> Task] /\ pools \in [Clusters -> Pools \cup {None}]
      /\ breakers \in [Pools -> Breaker]
      /\ tally \in [Clusters -> [failures : Counts, since : 0 .. Cooldown]]
      /\ UNCHANGED <<pools, idle, up>>
  BY SinkTypes DEF SinkInv, Tick
<1>2. ASSUME NEW r \in Requests
      PROVE  /\ req'[r] \in Task /\ Uses(req'[r], pools)
  <2>1. req[r] \in Task /\ Uses(req[r], pools)
    BY <1>1 DEF SinkInv, UsesWell
  <2>2. CASE req[r].pc = "inflight"
    <3>1. req'[r] = [req[r] EXCEPT !.age = req[r].age + 1] /\ req[r].age + 1 \in Ages
      BY <2>1, <2>2, SinkAssumption DEF Tick, overdue, Task, Ages
    <3>2. req'[r] \in Task
      BY <2>1, <3>1, Zenon DEF Task
    <3>3. /\ req'[r].pc = req[r].pc /\ req'[r].fresh = req[r].fresh
          /\ req'[r].reused = req[r].reused /\ req'[r].opens_seen = req[r].opens_seen
          /\ req'[r].cluster = req[r].cluster /\ req'[r].pool = req[r].pool
      BY <2>1, <3>1 DEF Task
    <3> QED BY <2>1, <3>2, <3>3 DEF Uses
  <2>3. CASE req[r].pc # "inflight"
    BY <2>1, <2>3 DEF Tick
  <2> QED BY <2>2, <2>3
<1>3. req' \in [Requests -> Task]
  BY <1>2 DEF Tick
<1>4. ASSUME NEW p \in Pools
      PROVE  /\ breakers'[p] \in Breaker
             /\ breakers'[p].consecutive_failures = breakers[p].consecutive_failures
             /\ breakers'[p].opened = IF breakers[p].opened = None THEN None
                                      ELSE AtMost(breakers[p].opened + 1, Cooldown)
  BY <1>1, SinkAssumption DEF Tick, Breaker, Stamps, AtMost
<1>5. ASSUME NEW c \in Clusters
      PROVE  /\ tally'[c] \in [failures : Counts, since : 0 .. Cooldown]
             /\ tally'[c].failures = tally[c].failures
             /\ tally'[c].since = AtMost(tally[c].since + 1, Cooldown)
  BY <1>1, SinkAssumption DEF Tick, AtMost
<1>6. breakers' \in [Pools -> Breaker] /\ tally' \in [Clusters -> [failures : Counts, since : 0 .. Cooldown]]
  BY <1>4, <1>5 DEF Tick
<1>7. SinkTypeOK'
  BY <1>1, <1>3, <1>6 DEF SinkInv, SinkTypeOK, Task, Pcs, Ages, Breaker, Counts, Stamps
<1>8. UsesWell'
  BY <1>1, <1>2 DEF UsesWell
<1>9. BreakersTell'
  <2> SUFFICES ASSUME NEW c \in Clusters PROVE Tells(c)'
    BY DEF BreakersTell
  <2>1. Tells(c) /\ tally[c].since \in Nat /\ None \notin Nat
    BY <1>1, SinkAssumption DEF SinkInv, BreakersTell
  <2>2. \A r \in Requests : breakers[<<r, c>>] = Closed => breakers'[<<r, c>>] = Closed
    <3> SUFFICES ASSUME NEW r \in Requests, breakers[<<r, c>>] = Closed
                 PROVE  breakers'[<<r, c>>] = Closed
      OBVIOUS
    <3>1. <<r, c>> \in Pools /\ breakers[<<r, c>>].opened = None
      BY DEF Pools, Closed
    <3>2. breakers'[<<r, c>>] \in Breaker
          /\ breakers'[<<r, c>>].consecutive_failures = 0 /\ breakers'[<<r, c>>].opened = None
      BY <1>4, <3>1 DEF Closed
    <3> QED BY <3>2 DEF Breaker, Closed
  <2>3. CASE pools[c] = None
    BY <1>1, <1>5, <2>1, <2>2, <2>3 DEF Tells
  <2>4. CASE pools[c] # None
    <3>1. pools[c] \in Pools
      BY <1>1, <2>4
    <3>2. /\ breakers'[pools[c]].consecutive_failures = tally'[c].failures
          /\ tally'[c].failures >= Threshold => breakers'[pools[c]].opened = tally'[c].since
      BY <1>4, <1>5, <2>1, <2>4, <3>1 DEF Tells
    <3> QED BY <1>1, <2>1, <2>2, <2>4, <3>2 DEF Tells
  <2> QED BY <2>3, <2>4
<1> QED BY <1>1, <1>7, <1>8, <1>9 DEF SinkInv, PoolsApart

\* The environment: a free connection closes, a cluster goes up or down.
LEMMA EnvironmentStep ==
  ASSUME SinkInv,
         \/ \E p \in Pools : conn_closed(p)
         \/ \E c \in Clusters : up_changes(c)
         \/ UNCHANGED sinkVars
  PROVE  SinkInv'
<1>1. /\ idle' \in [Pools -> BOOLEAN] /\ up' \in [Clusters -> BOOLEAN]
      /\ UNCHANGED <<pools, breakers, req, tally>>
  BY DEF SinkInv, SinkTypeOK, conn_closed, up_changes, sinkVars
<1>2. SinkTypeOK'
  BY <1>1 DEF SinkInv, SinkTypeOK
<1> QED BY <1>1, <1>2 DEF SinkInv, UsesWell, Uses, PoolsApart, BreakersTell, Tells, Closed

LEMMA SinkInitInv == SinkInit => SinkInv
<1> SUFFICES ASSUME SinkInit PROVE SinkInv
  OBVIOUS
<1>1. SinkTypeOK
  BY IdleTask, ClosedBreaker, SinkAssumption
  DEF SinkInit, SinkTypeOK, Task, Pcs, Ages, Breaker, Counts, Stamps
<1>2. UsesWell
  BY IdleTask DEF SinkInit, UsesWell
<1> QED BY <1>1, <1>2, SinkAssumption DEF SinkInit, SinkInv, PoolsApart, BreakersTell, Tells, Pools

LEMMA SinkInvInductive == SinkInv /\ [SinkNext]_sinkVars => SinkInv'
<1> SUFFICES ASSUME SinkInv, [SinkNext]_sinkVars PROVE SinkInv'
  OBVIOUS
<1>1. ASSUME NEW r \in Requests, NEW c \in Clusters, pool_lookup(r, c)
      PROVE  SinkInv'
  BY <1>1, LookupStep
<1>2. ASSUME NEW r \in Requests, Proceed(r)
      PROVE  SinkInv'
  <2>1. CASE shed(r)
    BY <2>1, EndStep, SinkTypes DEF shed, SinkInv
  <2> QED BY <1>2, <2>1, CreateStep, SendStep DEF Proceed
<1>3. ASSUME NEW r \in Requests, Outcome(r) \/ transport_fails(r)
      PROVE  SinkInv'
  BY <1>3, FailedStep, AnsweredStep DEF Outcome, timed_out, transport_fails
<1>4. ASSUME NEW r \in Requests, body_read(r) \/ body_breaks(r) \/ cancel(r)
      PROVE  SinkInv'
  <2>1. req' = [req EXCEPT ![r] = Idle] /\ idle' \in [Pools -> BOOLEAN]
        /\ UNCHANGED <<pools, breakers, up, tally>>
    BY <1>4, SinkTypes DEF body_read, body_breaks, cancel, SinkInv
  <2> QED BY <2>1, EndStep
<1>5. CASE Tick
  BY <1>5, TickStep
<1>6. CASE \/ \E p \in Pools : conn_closed(p)
           \/ \E c \in Clusters : up_changes(c)
           \/ UNCHANGED sinkVars
  BY <1>6, EnvironmentStep
<1> QED BY <1>1, <1>2, <1>3, <1>4, <1>5, <1>6 DEF SinkNext

\* The inductive invariant: the types, that requests use their cluster's pool, that
\* pools are apart, and that breakers tell the outcomes.
THEOREM SinkInvariant == SinkSpec => []SinkInv
<1>1. SinkInit => SinkInv
  BY SinkInitInv
<1>2. SinkInv /\ [SinkNext]_sinkVars => SinkInv'
  BY SinkInvInductive
<1> QED BY <1>1, <1>2, PTL DEF SinkSpec

\* Whatever the number of requests and clusters, and however first uses interleave,
\* requests of a cluster share the one pool pool_for() made, and a request reported
\* as riding a pooled connection did not open one.
THEOREM SinkPools == SinkSpec => []PoolsSound
<1>1. SinkInv => PoolsSound
  BY DEF SinkInv, UsesWell, Uses, PoolsSound, OnePool, ReuseSound
<1> QED BY <1>1, SinkInvariant, PTL

\* Only send() puts a request in flight, and only its own.
LEMMA GoesOutBySend ==
  ASSUME SinkInv, SinkNext, NEW r \in Requests, req[r].pc # "inflight", req'[r].pc = "inflight"
  PROVE  send(r)
<1>1. req \in [Requests -> Task] /\ Idle.pc = "idle"
  BY SinkTypes DEF SinkInv, Idle
<1>2. ASSUME NEW o \in Requests, NEW c \in Clusters, pool_lookup(o, c)
      PROVE  FALSE
  BY <1>1, <1>2 DEF pool_lookup, Idle
<1>3. ASSUME NEW o \in Requests, pool_create(o)
      PROVE  FALSE
  BY <1>1, <1>3 DEF pool_create, Task
<1>4. ASSUME NEW o \in Requests, send(o)
      PROVE  send(r)
  <2>1. o # r => req'[r].pc = req[r].pc
    BY <1>1, <1>4 DEF send, Task
  <2> QED BY <1>4, <2>1
<1>5. ASSUME NEW o \in Requests, NEW status5xx \in BOOLEAN, answered(o, status5xx)
      PROVE  FALSE
  BY <1>1, <1>5 DEF answered, Task
<1>6. ASSUME NEW o \in Requests,
             shed(o) \/ failed(o) \/ body_read(o) \/ body_breaks(o) \/ cancel(o)
      PROVE  FALSE
  BY <1>1, <1>6 DEF shed, failed, body_read, body_breaks, cancel
<1>7. CASE Tick
  BY <1>1, <1>7 DEF Tick, Task
<1>8. CASE (\E p \in Pools : conn_closed(p)) \/ (\E c \in Clusters : up_changes(c))
  BY <1>8 DEF conn_closed, up_changes
<1> QED BY <1>2, <1>3, <1>4, <1>5, <1>6, <1>7, <1>8
        DEF SinkNext, Proceed, Outcome, timed_out, transport_fails

\* An evicted cluster rests: send() lets no request out to a cluster whose last
\* failure_threshold outcomes were failures until the cooldown has passed since the
\* last of them.
THEOREM SinkEvicts == SinkSpec => EvictedRests
<1>1. SinkInv /\ [SinkNext]_sinkVars =>
        [\A r \in Requests :
           (req[r].pc # "inflight" /\ req'[r].pc = "inflight") =>
             LET t == tally[req[r].cluster]
             IN t.failures < Threshold \/ t.since >= Cooldown]_sinkVars
  <2> SUFFICES ASSUME SinkInv, SinkNext, NEW r \in Requests,
                      req[r].pc # "inflight", req'[r].pc = "inflight",
                      ~(tally[req[r].cluster].failures < Threshold)
               PROVE  tally[req[r].cluster].since >= Cooldown
    OBVIOUS
  <2>2. send(r)
    BY GoesOutBySend
  <2>3. /\ req[r].cluster \in Clusters /\ req[r].pool = pools[req[r].cluster] /\ req[r].pool # None
        /\ allows(breakers[req[r].pool])
    BY <2>2 DEF send, SinkInv, UsesWell, Uses
  <2>4. tally[req[r].cluster].since \in Nat /\ tally[req[r].cluster].failures \in Nat
    BY <2>3, SinkTypes, SinkAssumption DEF SinkInv, Counts
  <2>5. breakers[req[r].pool].opened = tally[req[r].cluster].since
    BY <2>3, <2>4, SinkAssumption DEF SinkInv, BreakersTell, Tells
  <2> QED BY <2>3, <2>4, <2>5, SinkAssumption DEF allows
<1> QED BY <1>1, SinkInvariant, PTL DEF SinkSpec, EvictedRests
=============================================================================
