--------------------------- MODULE RequestsProofs ---------------------------
(***************************************************************************)
(* Proofs about the life of tenant requests, for any number of partitions,  *)
(* clients, placements, deployments and moves.  What each proof needs of a  *)
(* document is where it may lie: at a home of its owner, and in a shared    *)
(* index with its owner's field and an id its owner's rule built.           *)
(* Then the one request that is put on the wire for an operation, for any   *)
(* headers, path, id and routing.                                           *)
(***************************************************************************)
EXTENDS Requests, Egress, FiniteSetTheorems, WellFoundedInduction, TLAPS

\* An id is one the rule builds for a partition, unless there is no rule.
Built(p, id) == conf.rule # None => \E i \in Ids : id = construct_id(conf.rule.template, p, i)

\* A cluster and an index are those of a home, for some logical index.
Lies(cluster, index, a) == cluster = a.cluster /\ (a.kind # "DedicatedCluster" => index = a.index)

\* A document lies at a home of its owner, under an id built for it; in a shared index it
\* is marked as its owner's.
DocOK(x) ==
  /\ x.owner \in Partitions /\ Built(x.owner, x.id)
  /\ \E a \in conf.homes[x.owner] :
       Lies(x.cluster, x.index, a) /\ (a.kind = "SharedIndex" => x.field = x.owner)

\* A decision for a partition is about one of its homes.
DecOK(d, p) ==
  /\ p \in Partitions /\ d.partition = p
  /\ \E a \in conf.homes[p] :
       /\ Lies(d.target.cluster, d.target.index, a)
       /\ d.transform = build_transform(a, conf.rule) /\ scoped_enough(a, conf.rule)

\* A partition may meet a document by an id it has built.
Meets(p, q) == q = p \/ Collide(p, q)

\* An operation writes to a home of its partition, in a shared index under an id that
\* was built for it.
OpOK(op) ==
  /\ op.partition_key \in Partitions /\ op.kind \in {"Index", "Delete"}
  /\ op.kind = "Index" /\ conf.rule # None => op.place.id # None /\ Built(op.partition_key, op.place.id)
  /\ \E a \in conf.homes[op.partition_key] :
       /\ Lies(op.place.cluster, op.place.index, a)
       /\ a.kind = "SharedIndex" =>
            /\ conf.rule # None /\ Built(op.partition_key, op.place.id)
            /\ op.kind = "Index" => op.field = op.partition_key

\* The documents of a context were found by a decision of the partition that opened it.
ContextOK(x) ==
  /\ x.by \in Partitions
  /\ x.kind = "scroll" => \A y \in x.held : y.owner = x.by
  /\ x.kind = "pit" => \E a \in conf.homes[x.by] :
       /\ x.under = build_transform(a, conf.rule)
       /\ \A y \in x.held : DocOK(y) /\ Lies(y.cluster, y.index, a)

Named(tok, x) == wrap(x.cluster, x.id) = tok

\* A token a client presents: not one of this key, or one that was given to someone.
Presented(tok) == tok = StaleToken \/ tok \in issued

\* No context of a kind of a token is open or will be.
Settled(tok, kind) ==
  /\ tok = StaleToken \/ \E x \in cursors : Named(tok, x)
  /\ \A x \in cursors : Named(tok, x) /\ x.kind = kind => ~x.live

PartitionOf(r) == resolve_partition(r.field, r.header)

ItemsOf(r) ==
  [index : Indices, id : IF r.endpoint = "MultiGet" THEN Ids ELSE {None}, query : Queries]

RequestOK(r) ==
  /\ PartitionOf(r) \in Partitions \cup {None} /\ r.query \in Queries
  /\ is_write(r) \/ r.endpoint = "GetById" => r.id \in Ids \/ (r.endpoint = "IngestDoc" /\ r.id = None)
  /\ is_multi(r) => r.field = None /\ r.items \in Seq(ItemsOf(r))
  /\ r.endpoint \in {"Scroll", "ScrollClear", "PitSearch", "PitDelete"} =>
       /\ 1 \in DOMAIN r.tokens
       /\ \A k \in DOMAIN r.tokens : Presented(r.tokens[k])
  /\ is_pinned(r) => r.index = None

\* Where a request may be, given what it asks.
Busy == {"admitted", "resolving", "resolved", "gated", "expanding", "multi", "pinned"}

\* A request has a token of a context.
Bears(r, x) == \E k \in DOMAIN r.tokens : Named(r.tokens[k], x)

ReshapedBy(r, d, status) ==
  /\ r.endpoint = "PitSearch" /\ status = 200
  /\ \E x \in cursors : Bears(r, x) /\ x.under.inject # d.transform.inject

\* Whose documents the answer may show.
MayShow(r, q) ==
  \/ q = PartitionOf(r)
  \/ \E x \in cursors : Bears(r, x) /\ x.by = q
  \/ r.endpoint = "GetById" /\ Collide(PartitionOf(r), q)

SlotOK(r, s, k) ==
  /\ k <= Len(r.items) /\ s.of = r.items[k] /\ s.state \in {"ready", "ok", "error"}
  /\ s.d # NoDecision => DecOK(s.d, PartitionOf(r))
  /\ s.state # "error" => s.d # NoDecision /\ item_fits(r, s.of, s.d)
  /\ \A h \in s.hits :
       /\ h.doc.owner = PartitionOf(r) \/ (r.endpoint = "MultiGet" /\ Collide(PartitionOf(r), h.doc.owner))
       /\ ShownWell(s.d, s.of.index, h)
  /\ \A x \in s.aggs : x.owner = PartitionOf(r)

SlotsOK(r, slots) ==
  /\ \A k \in DOMAIN slots : SlotOK(r, slots[k], k)
  /\ \A j, k \in DOMAIN slots :
       slots[j].d # NoDecision /\ slots[k].d # NoDecision /\ slots[j].of.index = slots[k].of.index
         => slots[j].d = slots[k].d

\* A request in the engine.
ProgressOK(t) ==
  /\ RequestOK(t.r)
  /\ t.pc # "admitted" => ~is_passthrough(t.r)
  /\ t.pc \in Busy \ {"admitted", "pinned"} => PartitionOf(t.r) \in Partitions
  /\ t.pc \in {"resolving", "resolved", "gated", "expanding"} => ~is_pinned(t.r)
  /\ t.pc = "pinned" => is_pinned(t.r)
  /\ t.pc = "multi" => is_multi(t.r) /\ SlotsOK(t.r, t.slots)
  /\ t.pc # "multi" => t.slots = <<>>
  /\ t.pc \in {"resolved", "gated", "expanding"} => DecOK(t.d, PartitionOf(t.r)) /\ ~unfit(t.r, t.d)
  /\ t.pc = "gated" => is_write(t.r)
  /\ t.pc = "expanding" =>
       \A x \in t.todo : /\ DocOK(x) /\ x.owner = PartitionOf(t.r)
                         /\ x.cluster = t.d.target.cluster /\ x.index = t.d.target.index
  /\ t.pc \notin {"pinned", "expanding"} => t.todo = {}
  /\ t.pc = "pinned" /\ merged(t) = 200 => \A tok \in t.todo : Settled(tok, "pit")

\* The answer of a request.
AnswerFit(r, d, resp) ==
  /\ \A x \in {h.doc : h \in resp.hits} \cup resp.aggs : MayShow(r, x.owner) \/ ReshapedBy(r, d, resp.status)
  /\ \A h \in resp.hits : r.endpoint = "Scroll" \/ ShownWell(d, r.index, h)
  /\ resp.slots # <<>> => Len(resp.slots) = Len(r.items)
  /\ SlotsOK(r, resp.slots)
  /\ resp.missing # None => Settled(resp.missing, cursor_kind(r))
  /\ r.endpoint = "PitDelete" /\ resp.status = 200 => \A k \in DOMAIN r.tokens : Settled(r.tokens[k], "pit")

AnswerOK(t) == AnswerFit(t.r, t.d, t.resp)

TaskOK(t) ==
  /\ t.pc \in {"idle", "refused", "done"} \cup Busy
  /\ t.pc \in Busy => ProgressOK(t)
  /\ t.pc = "done" => AnswerOK(t)

\* The shapes of the records.
RespRec(s) ==
  s = [status |-> s.status, hits |-> s.hits, aggs |-> s.aggs, slots |-> s.slots, missing |-> s.missing]
SlotRec(s) == s = [d |-> s.d, state |-> s.state, hits |-> s.hits, aggs |-> s.aggs, of |-> s.of]
TaskRec(t) ==
  /\ t = [pc |-> t.pc, r |-> t.r, d |-> t.d, slots |-> t.slots, todo |-> t.todo, resp |-> t.resp]
  /\ (\E S : t.slots \in Seq(S)) /\ \A k \in DOMAIN t.slots : SlotRec(t.slots[k])
  /\ RespRec(t.resp)
CursorRec(x) ==
  x = [cluster |-> x.cluster, id |-> x.id, kind |-> x.kind, held |-> x.held, live |-> x.live,
       under |-> x.under, by |-> x.by, lost |-> x.lost]
HomeRec(h) == h = [placement |-> h.placement, epoch |-> h.epoch, open |-> h.open]

TableOK ==
  /\ table = [p \in Partitions |-> table[p]]
  /\ \A p \in Partitions : HomeRec(table[p]) /\ table[p].placement \in conf.homes[p]

DocsOK == \A x \in docs : DocOK(x)

QueueOK == queue # <<>> => queue = <<Head(queue)>> /\ OpOK(Head(queue))

\* Ids of contexts are counted on their cluster.
Counted(x) == x.id \in Nat \ {0} /\ x.id <= Cardinality({y \in cursors : y.cluster = x.cluster})

CursorsOK ==
  /\ IsFiniteSet(cursors)
  /\ \A x, y \in cursors : x.cluster = y.cluster /\ x.id = y.id => x = y
  /\ \A x \in cursors : /\ CursorRec(x) /\ Counted(x) /\ ContextOK(x)
                        /\ conf.signer => x.lost \/ wrap(x.cluster, x.id) \in issued
  /\ \A tok \in issued : \E x \in cursors : Named(tok, x)

TasksOK ==
  /\ task = [c \in Clients |-> task[c]]
  /\ \A c \in Clients : TaskRec(task[c]) /\ TaskOK(task[c])

RequestsInv == conf \in Deployments /\ TableOK /\ DocsOK /\ QueueOK /\ CursorsOK /\ TasksOK

-----------------------------------------------------------------------------
(* Counting up. *)

\* Induction over the naturals, for a set of them.
LEMMA CountedUp ==
  ASSUME NEW S, S \subseteq Nat, 0 \in S, \A n \in S : n + 1 \in S
  PROVE  \A n \in Nat : n \in S
<1>1. SUFFICES ASSUME NEW m \in Nat, m \notin S PROVE FALSE
  OBVIOUS
<1>2. PICK T : T = Nat \ S
  OBVIOUS
<1>3. T \subseteq Nat /\ T # {}
  BY <1>1, <1>2
<1>4. \E x \in T : \A y \in T : ~ (<<y, x>> \in OpToRel(<, Nat))
  BY <1>3, WFMin, NatLessThanWellFounded
<1>5. PICK x \in T : \A y \in T : ~ (<<y, x>> \in OpToRel(<, Nat))
  BY <1>4
<1>6. \A y \in T : ~(y < x)
  BY <1>3, <1>5 DEF OpToRel
<1>7. x \in Nat /\ x # 0 /\ x \notin S
  BY <1>2
<1>8. x - 1 \in Nat /\ x - 1 < x
  BY <1>7
<1>9. x - 1 \in S
  BY <1>2, <1>6, <1>8
<1>10. (x - 1) + 1 \in S
  BY <1>9
<1>11. (x - 1) + 1 = x
  BY <1>7
<1> QED BY <1>7, <1>10, <1>11

-----------------------------------------------------------------------------
(* Texts put together. *)

LEMMA ConcatFacts ==
  ASSUME NEW C, NEW a \in Seq(C), NEW b \in Seq(C)
  PROVE  /\ a \o b \in Seq(C) /\ Len(a \o b) = Len(a) + Len(b)
         /\ \A k \in 1 .. Len(a) : (a \o b)[k] = a[k]
         /\ \A k \in 1 .. Len(b) : (a \o b)[Len(a) + k] = b[k]
  OBVIOUS

LEMMA TextsEqual ==
  ASSUME NEW C, NEW a \in Seq(C), NEW b \in Seq(C), Len(a) = Len(b), \A k \in 1 .. Len(a) : a[k] = b[k]
  PROVE  a = b
  OBVIOUS

LEMMA ConcatEmpty ==
  ASSUME NEW C, NEW a \in Seq(C)
  PROVE  a \o <<>> = a /\ <<>> \o a = a
  OBVIOUS

LEMMA ConcatAssoc ==
  ASSUME NEW C, NEW a \in Seq(C), NEW b \in Seq(C), NEW c \in Seq(C)
  PROVE  (a \o b) \o c = a \o (b \o c)
  OBVIOUS

Folded(seqs, m, g) == g = [i \in 1 .. m |-> IF i = 1 THEN seqs[i] ELSE g[i - 1] \o seqs[i]]

LEMMA FoldedMore ==
  ASSUME NEW seqs, NEW m \in Nat, NEW g, Folded(seqs, m, g)
  PROVE  \E h : Folded(seqs, m + 1, h)
<1>0. PICK last : last = IF m = 0 THEN seqs[1] ELSE g[m] \o seqs[m + 1]
  OBVIOUS
<1>1. PICK h : h = [i \in 1 .. m + 1 |-> IF i <= m THEN g[i] ELSE last]
  OBVIOUS
<1>2. ASSUME NEW i \in 1 .. m + 1
      PROVE  h[i] = IF i = 1 THEN seqs[i] ELSE h[i - 1] \o seqs[i]
  <2>1. CASE i \in 1 .. m
    <3>1. h[i] = g[i] /\ (i # 1 => h[i - 1] = g[i - 1])
      BY <1>1, <2>1
    <3>2. g[i] = IF i = 1 THEN seqs[i] ELSE g[i - 1] \o seqs[i]
      BY <2>1 DEF Folded
    <3> QED BY <3>1, <3>2
  <2>2. CASE i = m + 1
    <3>0. h[i] = last
      BY <1>1, <2>2
    <3>1. CASE m = 0
      BY <1>0, <2>2, <3>0, <3>1
    <3>2. CASE m # 0
      <4>1. h[i - 1] = g[m] /\ i # 1
        BY <1>1, <2>2, <3>2
      <4> QED BY <1>0, <2>2, <3>0, <3>2, <4>1
    <3> QED BY <3>1, <3>2
  <2> QED BY <2>1, <2>2
<1>3. PICK h2 : h2 = [i \in 1 .. m + 1 |-> IF i = 1 THEN seqs[i] ELSE h[i - 1] \o seqs[i]]
  OBVIOUS
<1>4. DOMAIN h = 1 .. m + 1 /\ h = [i \in 1 .. m + 1 |-> h[i]]
  BY <1>1
<1>5. \A i \in 1 .. m + 1 : h[i] = h2[i]
  BY <1>2, <1>3
<1>6. h = h2
  BY <1>3, <1>4, <1>5
<1> QED BY <1>3, <1>6 DEF Folded

LEMMA FoldedAll ==
  ASSUME NEW seqs, NEW m \in Nat
  PROVE  \E g : Folded(seqs, m, g)
<1>1. PICK S : S = {n \in Nat : \E g : Folded(seqs, n, g)}
  OBVIOUS
<1>2. 0 \in S
  <2>1. PICK g : g = [i \in 1 .. 0 |-> seqs[i]]
    OBVIOUS
  <2>2. g = [i \in 1 .. 0 |-> IF i = 1 THEN seqs[i] ELSE g[i - 1] \o seqs[i]]
    BY <2>1
  <2> QED BY <1>1, <2>2 DEF Folded
<1>3. \A n \in S : n + 1 \in S
  BY <1>1, FoldedMore
<1>4. S \subseteq Nat
  BY <1>1
<1>5. m \in S
  BY ONLY m \in Nat, <1>2, <1>3, <1>4, CountedUp
<1> QED BY <1>1, <1>5

\* w[n] is the first n texts of s, one after the other.
Gathered(C, s, w) ==
  /\ w \in [0 .. Len(s) -> Seq(C)] /\ w[0] = <<>>
  /\ \A n \in 1 .. Len(s) : w[n] = w[n - 1] \o s[n]

LEMMA FlattenIs ==
  ASSUME NEW C, NEW s \in Seq(Seq(C))
  PROVE  \E w : Gathered(C, s, w) /\ FlattenSeq(s) = w[Len(s)]
<1>1. PICK m \in Nat : m = Len(s)
  OBVIOUS
<1>2. \A n \in 1 .. m : s[n] \in Seq(C)
  BY <1>1
<1>3. CASE m = 0
  <2>1. PICK w : w = [n \in 0 .. 0 |-> <<>>]
    OBVIOUS
  <2>2. Gathered(C, s, w)
    BY <1>1, <1>3, <2>1 DEF Gathered
  <2>3. FlattenSeq(s) = s
    BY <1>1, <1>3 DEF FlattenSeq
  <2>4. s = <<>>
    <3>1. PICK Q : s \in Seq(Q)
      OBVIOUS
    <3>2. Len(s) = 0
      BY <1>1, <1>3
    <3> QED BY ONLY <3>1, <3>2
  <2>5. w[Len(s)] = <<>>
    BY <1>1, <1>3, <2>1
  <2> QED BY <2>2, <2>3, <2>4, <2>5
<1>4. CASE m # 0
  <2>1. \E g : g = [i \in 1 .. m |-> IF i = 1 THEN s[i] ELSE g[i - 1] \o s[i]]
    BY <1>1, FoldedAll, Zenon DEF Folded
  <2>2. PICK f : f = CHOOSE g : g = [i \in 1 .. m |-> IF i = 1 THEN s[i] ELSE g[i - 1] \o s[i]]
    OBVIOUS
  <2>3. f = [i \in 1 .. m |-> IF i = 1 THEN s[i] ELSE f[i - 1] \o s[i]]
    BY <2>1, <2>2
  <2>4. FlattenSeq(s) = f[m]
    BY <1>1, <1>4, <2>2 DEF FlattenSeq
  <2>5. f[1] = s[1] /\ \A i \in 2 .. m : f[i] = f[i - 1] \o s[i]
    <3>1. f[1] = s[1]
      BY <1>4, <2>3
    <3>2. ASSUME NEW i \in 2 .. m PROVE f[i] = f[i - 1] \o s[i]
      <4>1. i \in 1 .. m /\ i # 1
        OBVIOUS
      <4> QED BY <2>3, <4>1
    <3> QED BY <3>1, <3>2
  <2>6. PICK w : w = [n \in 0 .. m |-> IF n = 0 THEN <<>> ELSE f[n]]
    OBVIOUS
  <2>7. w[0] = <<>> /\ \A n \in 1 .. m : w[n] = w[n - 1] \o s[n]
    <3>1. w[0] = <<>> /\ \A n \in 1 .. m : w[n] = f[n]
      BY <2>6
    <3>2. w[1] = w[0] \o s[1]
      <4>1. 1 \in 1 .. m
        BY <1>4
      <4>2. <<>> \o s[1] = s[1]
        BY <1>2, <4>1, ConcatEmpty
      <4> QED BY <2>5, <3>1, <4>1, <4>2
    <3>3. ASSUME NEW n \in 2 .. m PROVE w[n] = w[n - 1] \o s[n]
      <4>1. n \in 1 .. m /\ n - 1 \in 1 .. m
        OBVIOUS
      <4> QED BY <2>5, <3>1, <4>1
    <3>4. ASSUME NEW n \in 1 .. m PROVE w[n] = w[n - 1] \o s[n]
      <4>1. n = 1 \/ n \in 2 .. m
        OBVIOUS
      <4>2. CASE n = 1
        <5>1. n - 1 = 0
          BY <4>2
        <5> QED BY <3>2, <4>2, <5>1
      <4> QED BY <3>3, <4>1, <4>2
    <3> QED BY <3>1, <3>4
  <2>8. \A n \in 0 .. m : w[n] \in Seq(C)
    <3>1. PICK S : S = {n \in Nat : n <= m => w[n] \in Seq(C)}
      OBVIOUS
    <3>2. 0 \in S
      <4>1. <<>> \in Seq(C)
        OBVIOUS
      <4> QED BY <2>7, <3>1, <4>1
    <3>3. ASSUME NEW n \in S PROVE n + 1 \in S
      <4>1. n \in Nat /\ (n <= m => w[n] \in Seq(C))
        BY <3>1
      <4>2. SUFFICES ASSUME n + 1 <= m PROVE w[n + 1] \in Seq(C)
        BY <3>1, <4>1
      <4>3. n + 1 \in 1 .. m /\ (n + 1) - 1 = n /\ n <= m
        BY <4>1, <4>2
      <4>4. w[n + 1] = w[n] \o s[n + 1]
        BY <2>7, <4>3
      <4>5. w[n] \in Seq(C) /\ s[n + 1] \in Seq(C)
        BY <1>2, <4>1, <4>3
      <4> QED BY <4>4, <4>5, ConcatFacts
    <3>4. S \subseteq Nat
      BY <3>1
    <3>5. \A n \in Nat : n \in S
      BY ONLY <3>2, <3>3, <3>4, CountedUp
    <3> QED BY <3>1, <3>5
  <2>9. w \in [0 .. m -> Seq(C)]
    BY <2>6, <2>8
  <2>10. Gathered(C, s, w)
    BY <1>1, <2>7, <2>9 DEF Gathered
  <2>11. w[m] = f[m]
    BY <1>4, <2>6
  <2> QED BY <1>1, <2>4, <2>10, <2>11
<1> QED BY <1>3, <1>4

\* Two lists begin alike; one ends as another.
BeginAlike(s, t, m) == m <= Len(s) /\ m <= Len(t) /\ \A k \in 1 .. m : s[k] = t[k]
EndsAs(s, t, h, m) == m = Len(t) /\ Len(s) = h + m /\ \A k \in 1 .. m : s[h + k] = t[k]

\* The same texts gather to the same.
LEMMA GatherSame ==
  ASSUME NEW C, NEW s \in Seq(Seq(C)), NEW w, Gathered(C, s, w), NEW t \in Seq(Seq(C)), NEW v, Gathered(C, t, v),
         NEW m \in Nat, BeginAlike(s, t, m)
  PROVE  w[m] = v[m]
<1>0. m <= Len(s) /\ m <= Len(t) /\ \A k \in 1 .. m : s[k] = t[k]
  BY DEF BeginAlike
<1>1. PICK S : S = {n \in Nat : n <= m => w[n] = v[n]}
  OBVIOUS
<1>2. 0 \in S
  BY <1>1 DEF Gathered
<1>3. ASSUME NEW n \in S PROVE n + 1 \in S
  <2>1. n \in Nat /\ (n <= m => w[n] = v[n])
    BY <1>1
  <2>2. SUFFICES ASSUME n + 1 <= m PROVE w[n + 1] = v[n + 1]
    BY <1>1, <2>1
  <2>3. n + 1 \in 1 .. Len(s) /\ n + 1 \in 1 .. Len(t) /\ n + 1 \in 1 .. m /\ (n + 1) - 1 = n /\ n <= m
    BY <1>0, <2>1, <2>2
  <2>4. w[n + 1] = w[n] \o s[n + 1] /\ v[n + 1] = v[n] \o t[n + 1]
    BY <2>3 DEF Gathered
  <2> QED BY <1>0, <2>1, <2>3, <2>4
<1>4. S \subseteq Nat
  BY <1>1
<1>5. m \in S
  BY ONLY m \in Nat, <1>2, <1>3, <1>4, CountedUp
<1> QED BY <1>1, <1>5

\* Texts gather piece by piece.
GoesOn(w, v, h, m) == w[h + m] = w[h] \o v[m]

LEMMA GatherOn ==
  ASSUME NEW C, NEW s \in Seq(Seq(C)), NEW w, Gathered(C, s, w), NEW t \in Seq(Seq(C)), NEW v, Gathered(C, t, v),
         NEW h \in Nat, NEW m \in Nat, EndsAs(s, t, h, m)
  PROVE  GoesOn(w, v, h, m)
<1>0. m = Len(t) /\ Len(s) = h + m /\ \A k \in 1 .. m : s[h + k] = t[k]
  BY DEF EndsAs
<1>1. PICK S : S = {n \in Nat : n <= m => w[h + n] = w[h] \o v[n]}
  OBVIOUS
<1>2. PICK x \in Seq(C) : x = w[h]
  <2>1. h \in 0 .. Len(s)
    BY <1>0
  <2> QED BY <2>1 DEF Gathered
<1>3. 0 \in S
  <2>1. v[0] = <<>> /\ h + 0 = h
    BY DEF Gathered
  <2>2. x \o <<>> = x
    BY ConcatEmpty
  <2>3. w[h + 0] = w[h] \o v[0]
    BY <1>2, <2>1, <2>2
  <2> QED BY <1>1, <2>3
<1>4. ASSUME NEW n \in S PROVE n + 1 \in S
  <2>1. n \in Nat /\ (n <= m => w[h + n] = w[h] \o v[n])
    BY <1>1
  <2>2. SUFFICES ASSUME n + 1 <= m PROVE w[h + (n + 1)] = w[h] \o v[n + 1]
    <3>1. n + 1 \in Nat
      BY <2>1
    <3> QED BY <1>1, <3>1
  <2>3. /\ h + (n + 1) \in 1 .. Len(s) /\ n + 1 \in 1 .. m /\ n + 1 \in 1 .. Len(t) /\ (n + 1) - 1 = n /\ n <= m
        /\ (h + (n + 1)) - 1 = h + n /\ n \in 0 .. Len(t)
    BY <1>0, <2>1, <2>2
  <2>4. w[h + (n + 1)] = w[h + n] \o s[h + (n + 1)] /\ v[n + 1] = v[n] \o t[n + 1]
    BY <2>3 DEF Gathered
  <2>5. s[h + (n + 1)] = t[n + 1]
    BY <1>0, <2>3
  <2>6. PICK z \in Seq(C) : z = t[n + 1]
    BY <2>3
  <2>7. PICK y \in Seq(C) : y = v[n]
    BY <2>3 DEF Gathered
  <2>8. (x \o y) \o z = x \o (y \o z)
    BY ONLY x \in Seq(C), y \in Seq(C), z \in Seq(C), ConcatAssoc
  <2>9. w[h + n] = x \o y
    BY <1>2, <2>1, <2>3, <2>7
  <2> QED BY <1>2, <2>4, <2>5, <2>6, <2>7, <2>8, <2>9
<1>5. S \subseteq Nat
  BY <1>1
<1>6. m \in S
  BY ONLY m \in Nat, <1>3, <1>4, <1>5, CountedUp
<1>7. m <= m => w[h + m] = w[h] \o v[m]
  BY ONLY <1>1, <1>6
<1>8. m <= m
  OBVIOUS
<1> QED BY ONLY <1>7, <1>8 DEF GoesOn

\* A list is another, an item and a third.
Around(s, h, a, b) ==
  /\ h \in 1 .. Len(s) /\ Len(a) = h - 1 /\ Len(s) = h + Len(b)
  /\ (\A k \in 1 .. Len(a) : s[k] = a[k]) /\ \A k \in 1 .. Len(b) : s[h + k] = b[k]

Spliced(C, text, a, x, b) == a \in Seq(C) /\ b \in Seq(C) /\ text = (a \o x) \o b

LEMMA FlattenSplit ==
  ASSUME NEW C, NEW s \in Seq(Seq(C)), NEW a \in Seq(Seq(C)), NEW b \in Seq(Seq(C)), NEW h, Around(s, h, a, b)
  PROVE  Spliced(C, FlattenSeq(s), FlattenSeq(a), s[h], FlattenSeq(b))
<1>0. /\ h \in 1 .. Len(s) /\ Len(a) = h - 1 /\ Len(s) = h + Len(b)
      /\ (\A k \in 1 .. Len(a) : s[k] = a[k]) /\ \A k \in 1 .. Len(b) : s[h + k] = b[k]
  BY DEF Around
<1>1. PICK w : Gathered(C, s, w) /\ FlattenSeq(s) = w[Len(s)]
  BY FlattenIs
<1>2. PICK u : Gathered(C, a, u) /\ FlattenSeq(a) = u[Len(a)]
  BY FlattenIs
<1>3. PICK v : Gathered(C, b, v) /\ FlattenSeq(b) = v[Len(b)]
  BY FlattenIs
<1>4. PICK i \in Nat : i = h - 1
  BY <1>0
<1>5. PICK m \in Nat : m = Len(b)
  OBVIOUS
<1>6. i <= Len(s) /\ i <= Len(a) /\ i = Len(a)
  BY <1>0, <1>4
<1>7. \A k \in 1 .. i : s[k] = a[k]
  BY <1>0, <1>6
<1>8. w[i] = u[i]
  <2>1. BeginAlike(s, a, i)
    BY <1>6, <1>7 DEF BeginAlike
  <2>2. Gathered(C, s, w) /\ Gathered(C, a, u)
    BY <1>1, <1>2
  <2> QED BY ONLY s \in Seq(Seq(C)), a \in Seq(Seq(C)), i \in Nat, <2>2, <2>1, GatherSame
<1>9. w[h] = w[i] \o s[h]
  BY <1>0, <1>1, <1>4 DEF Gathered
<1>10. h \in Nat /\ Len(s) = h + m /\ \A k \in 1 .. m : s[h + k] = b[k]
  BY <1>0, <1>5
<1>11. w[h + m] = w[h] \o v[m]
  <2>1. EndsAs(s, b, h, m)
    BY <1>5, <1>10 DEF EndsAs
  <2>2. Gathered(C, s, w) /\ Gathered(C, b, v) /\ h \in Nat
    BY <1>1, <1>3, <1>10
  <2>3. GoesOn(w, v, h, m)
    BY ONLY s \in Seq(Seq(C)), b \in Seq(Seq(C)), m \in Nat, <2>2, <2>1, GatherOn
  <2> QED BY <2>3 DEF GoesOn
<1>12. u[i] \in Seq(C) /\ v[m] \in Seq(C)
  <2>1. i \in 0 .. Len(a) /\ m \in 0 .. Len(b)
    BY <1>5, <1>6
  <2> QED BY <1>2, <1>3, <2>1 DEF Gathered
<1> QED BY <1>1, <1>2, <1>3, <1>5, <1>6, <1>8, <1>9, <1>10, <1>11, <1>12 DEF Spliced

\* What is in a frame is found there.
Opens(a, i, b, t) ==
  /\ IsPrefix(a, t) /\ IsSuffix(b, t) /\ Len(a) + Len(b) <= Len(t)
  /\ SubSeq(t, Len(a) + 1, Len(t) - Len(b)) = i

LEMMA FrameOpens ==
  ASSUME NEW C, NEW a \in Seq(C), NEW i \in Seq(C), NEW b \in Seq(C), NEW t, t = (a \o i) \o b
  PROVE  Opens(a, i, b, t)
<1>1. PICK n \in Nat, m \in Nat, l \in Nat : n = Len(a) /\ m = Len(b) /\ l = Len(i)
  OBVIOUS
<1>2. a \o i \in Seq(C) /\ Len(a \o i) = n + l
  BY <1>1
<1>3. t \in Seq(C) /\ Len(t) = (n + l) + m
  BY <1>1, <1>2, ConcatFacts
<1>4. \A k \in 1 .. n : t[k] = a[k]
  BY <1>1, <1>2, ConcatFacts
<1>5. \A k \in 1 .. l : t[n + k] = i[k]
  BY <1>1, <1>2, ConcatFacts
<1>6. \A k \in 1 .. m : t[(n + l) + k] = b[k]
  BY <1>1, <1>2, ConcatFacts
<1>7. IsPrefix(a, t)
  <2>1. SubSeq(a, 1, n) \in Seq(C) /\ Len(SubSeq(a, 1, n)) = n /\ \A k \in 1 .. n : SubSeq(a, 1, n)[k] = a[k]
    BY <1>1
  <2>2. SubSeq(t, 1, n) \in Seq(C) /\ Len(SubSeq(t, 1, n)) = n /\ \A k \in 1 .. n : SubSeq(t, 1, n)[k] = t[k]
    BY <1>1, <1>3
  <2>3. SubSeq(a, 1, n) = SubSeq(t, 1, n)
    BY <1>4, <2>1, <2>2, TextsEqual
  <2> QED BY <1>1, <1>3, <2>3 DEF IsPrefix
<1>8. IsSuffix(b, t)
  <2>1. PICK rb, rt : rb = Reverse(b) /\ rt = Reverse(t)
    OBVIOUS
  <2>2. rb \in Seq(C) /\ Len(rb) = m /\ \A k \in 1 .. m : rb[k] = b[(m - k) + 1]
    BY <1>1, <2>1 DEF Reverse
  <2>3. /\ rt \in Seq(C) /\ Len(rt) = (n + l) + m
        /\ \A k \in 1 .. (n + l) + m : rt[k] = t[(((n + l) + m) - k) + 1]
    <3>1. PICK q \in Nat : q = (n + l) + m
      OBVIOUS
    <3>2. Len(t) = q
      BY <1>3, <3>1
    <3>3. rt = [k \in 1 .. q |-> t[(q - k) + 1]]
      BY <2>1, <3>2 DEF Reverse
    <3>4. \A k \in 1 .. q : (q - k) + 1 \in 1 .. q
      OBVIOUS
    <3>5. \A k \in 1 .. q : t[k] \in C
      BY <1>3, <3>2
    <3>6. rt \in [1 .. q -> C]
      BY <3>3, <3>4, <3>5
    <3>7. rt \in Seq(C) /\ Len(rt) = q
      BY ONLY q \in Nat, <3>6
    <3> QED BY <3>1, <3>3, <3>7
  <2>4. ASSUME NEW k \in 1 .. m PROVE rt[k] = rb[k]
    <3>1. (m - k) + 1 \in 1 .. m /\ k \in 1 .. (n + l) + m
      OBVIOUS
    <3>2. (((n + l) + m) - k) + 1 = (n + l) + ((m - k) + 1)
      OBVIOUS
    <3> QED BY <1>6, <2>2, <2>3, <3>1, <3>2
  <2>5. SubSeq(rb, 1, m) \in Seq(C) /\ Len(SubSeq(rb, 1, m)) = m /\ \A k \in 1 .. m : SubSeq(rb, 1, m)[k] = rb[k]
    BY <2>2
  <2>6. SubSeq(rt, 1, m) \in Seq(C) /\ Len(SubSeq(rt, 1, m)) = m /\ \A k \in 1 .. m : SubSeq(rt, 1, m)[k] = rt[k]
    BY <2>3
  <2>7. SubSeq(rb, 1, m) = SubSeq(rt, 1, m)
    BY <2>4, <2>5, <2>6, TextsEqual
  <2> QED BY <2>1, <2>2, <2>3, <2>7 DEF IsSuffix, IsPrefix
<1>9. SubSeq(t, Len(a) + 1, Len(t) - Len(b)) = i
  <2>1. Len(t) - Len(b) = n + l /\ Len(a) + 1 = n + 1
    BY <1>1, <1>3
  <2>2. PICK x : x = SubSeq(t, n + 1, n + l)
    OBVIOUS
  <2>3. x \in Seq(C) /\ Len(x) = l /\ \A k \in 1 .. l : x[k] = t[n + k]
    <3>1. n + 1 \in 1 .. Len(t) + 1 /\ n + l \in 0 .. Len(t) /\ (n + l) - (n + 1) + 1 = l
      BY <1>3
    <3> QED BY <1>3, <2>2, <3>1
  <2>4. x = i
    BY <1>1, <1>5, <2>3, TextsEqual
  <2> QED BY <2>1, <2>2, <2>4
<1>10. Len(a) + Len(b) <= Len(t)
  BY <1>1, <1>3
<1> QED BY <1>7, <1>8, <1>9, <1>10 DEF Opens

-----------------------------------------------------------------------------
(* Ids and their frames. *)

LEMMA HolesApart == BodyHole # PartitionHole
  BY DEF BodyHole, PartitionHole

\* A text is one over any set that has its characters.
LEMMA TextOver ==
  ASSUME NEW t, t \in Seq(Range(t)), NEW C, Range(t) \subseteq C
  PROVE  t \in Seq(C)
<1>1. PICK R : R = Range(t)
  OBVIOUS
<1>2. t \in Seq(R) /\ R \subseteq C
  BY <1>1
<1> QED BY ONLY <1>2

\* What the pieces of a template contribute.
Pieces(template, p, id) == [k \in DOMAIN template |-> filled(template[k], p, id)]

PiecedOver(C, template, s, p, id) ==
  /\ s \in Seq(Seq(C)) /\ Len(s) = Len(template)
  /\ \A k \in 1 .. Len(template) : s[k] = filled(template[k], p, id)

LEMMA PiecesAre ==
  ASSUME NEW C, NEW template \in Seq(C), NEW p \in Seq(C), NEW id \in Seq(C)
  PROVE  PiecedOver(C, template, Pieces(template, p, id), p, id)
<1>1. PICK n \in Nat : n = Len(template)
  OBVIOUS
<1>2. DOMAIN template = 1 .. n /\ \A k \in 1 .. n : template[k] \in C
  BY <1>1
<1>3. \A k \in 1 .. n : filled(template[k], p, id) \in Seq(C)
  BY <1>2 DEF filled
<1>4. PICK Q : Q = Seq(C)
  OBVIOUS
<1>5. PICK s : s = Pieces(template, p, id)
  OBVIOUS
<1>6. s = [k \in 1 .. n |-> filled(template[k], p, id)]
  BY <1>2, <1>5 DEF Pieces
<1>7. \A k \in 1 .. n : s[k] = filled(template[k], p, id)
  BY <1>6
<1>8. s \in [1 .. n -> Q]
  BY <1>3, <1>4, <1>6
<1>9. s \in Seq(Q) /\ Len(s) = n
  BY ONLY n \in Nat, <1>8
<1> QED BY <1>1, <1>4, <1>5, <1>7, <1>9 DEF PiecedOver

\* The text of an id is in the frame of a template.
InFrame(C, f, id, text) == f.prefix \in Seq(C) /\ f.suffix \in Seq(C) /\ text = (f.prefix \o id) \o f.suffix

LEMMA BuiltInFrame ==
  ASSUME NEW C, NEW template \in Seq(C), NEW p \in Seq(C), NEW id \in Seq(C), reversible(template)
  PROVE  InFrame(C, id_frame(template, p), id, construct_id(template, p, id))
<1>1. PICK H : H = {k \in DOMAIN template : template[k] = BodyHole}
  OBVIOUS
<1>2. PICK n \in Nat : n = Len(template)
  OBVIOUS
<1>3. DOMAIN template = 1 .. n
  BY <1>2
<1>4. PICK x : H = {x}
  <2>1. Cardinality(H) = 1
    BY <1>1 DEF reversible
  <2>2. IsFiniteSet(H)
    <3>1. H \subseteq 1 .. n /\ IsFiniteSet(1 .. n)
      BY <1>1, <1>3, FS_Interval
    <3> QED BY <3>1, FS_Subset
  <2> QED BY <2>1, <2>2, FS_Singleton
<1>5. PICK h : h = CHOOSE k \in DOMAIN template : template[k] = BodyHole
  OBVIOUS
<1>6. h \in 1 .. n /\ template[h] = BodyHole
  <2>1. x \in DOMAIN template /\ template[x] = BodyHole
    BY <1>1, <1>4
  <2> QED BY <1>3, <1>5, <2>1
<1>7. \A k \in 1 .. n : k # h => template[k] # BodyHole
  <2>1. h \in H
    BY <1>1, <1>3, <1>6
  <2> QED BY <1>1, <1>3, <1>4, <2>1
<1>8. PICK before, after : before = SubSeq(template, 1, h - 1) /\ after = SubSeq(template, h + 1, n)
  OBVIOUS
<1>9. before \in Seq(C) /\ Len(before) = h - 1 /\ \A k \in 1 .. h - 1 : before[k] = template[k]
  BY <1>2, <1>6, <1>8
<1>10. after \in Seq(C) /\ Len(after) = n - h /\ \A k \in 1 .. n - h : after[k] = template[h + k]
  BY <1>2, <1>6, <1>8
<1>11. PICK s, a, b : s = Pieces(template, p, id) /\ a = Pieces(before, p, <<>>) /\ b = Pieces(after, p, <<>>)
  OBVIOUS
<1>12. s \in Seq(Seq(C)) /\ Len(s) = n /\ \A k \in 1 .. n : s[k] = filled(template[k], p, id)
  <2>1. PiecedOver(C, template, s, p, id)
    BY <1>11, PiecesAre
  <2> QED BY <1>2, <2>1 DEF PiecedOver
<1>13. PICK none \in Seq(C) : none = <<>>
  <2>1. <<>> \in Seq(C)
    OBVIOUS
  <2> QED BY <2>1, Zenon
<1>14. a \in Seq(Seq(C)) /\ Len(a) = h - 1 /\ \A k \in 1 .. h - 1 : a[k] = filled(before[k], p, <<>>)
  <2>1. PiecedOver(C, before, a, p, none)
    BY <1>9, <1>11, <1>13, PiecesAre
  <2> QED BY <1>9, <1>13, <2>1 DEF PiecedOver
<1>15. b \in Seq(Seq(C)) /\ Len(b) = n - h /\ \A k \in 1 .. n - h : b[k] = filled(after[k], p, <<>>)
  <2>1. PiecedOver(C, after, b, p, none)
    BY <1>10, <1>11, <1>13, PiecesAre
  <2> QED BY <1>10, <1>13, <2>1 DEF PiecedOver
<1>16. \A q : q # BodyHole => filled(q, p, id) = filled(q, p, <<>>)
  BY DEF filled
<1>17. ASSUME NEW k \in 1 .. h - 1 PROVE s[k] = a[k]
  <2>1. k \in 1 .. n /\ k # h
    BY <1>6
  <2>2. template[k] # BodyHole /\ before[k] = template[k]
    BY <1>7, <1>9, <2>1
  <2> QED BY <1>12, <1>14, <1>16, <2>1, <2>2
<1>18. ASSUME NEW k \in 1 .. n - h PROVE s[h + k] = b[k]
  <2>1. h + k \in 1 .. n /\ h + k # h
    BY <1>6
  <2>2. template[h + k] # BodyHole /\ after[k] = template[h + k]
    BY <1>7, <1>10, <2>1
  <2> QED BY <1>12, <1>15, <1>16, <2>1, <2>2
<1>19. s[h] = id
  BY <1>6, <1>12, HolesApart DEF filled
<1>20. Around(s, h, a, b)
  BY <1>6, <1>12, <1>14, <1>15, <1>17, <1>18 DEF Around
<1>21. Spliced(C, FlattenSeq(s), FlattenSeq(a), s[h], FlattenSeq(b))
  BY ONLY <1>12, <1>14, <1>15, <1>20, FlattenSplit
<1>22. PICK f : f = id_frame(template, p)
  OBVIOUS
<1>23. f.prefix = FlattenSeq(a) /\ f.suffix = FlattenSeq(b)
  <2>1. FlattenSeq(a) = construct_id(before, p, <<>>) /\ FlattenSeq(b) = construct_id(after, p, <<>>)
    BY <1>11 DEF construct_id, Pieces
  <2>2. f = [prefix |-> construct_id(SubSeq(template, 1, h - 1), p, <<>>),
             suffix |-> construct_id(SubSeq(template, h + 1, Len(template)), p, <<>>)]
    BY <1>5, <1>22 DEF id_frame
  <2>3. f = [prefix |-> construct_id(before, p, <<>>), suffix |-> construct_id(after, p, <<>>)]
    BY <1>2, <1>8, <2>2
  <2>4. f.prefix = construct_id(before, p, <<>>) /\ f.suffix = construct_id(after, p, <<>>)
    BY ONLY <2>3
  <2> QED BY ONLY <2>1, <2>4
<1>24. construct_id(template, p, id) = FlattenSeq(s)
  BY <1>11 DEF construct_id, Pieces
<1> QED BY ONLY <1>19, <1>21, <1>22, <1>23, <1>24 DEF InFrame, Spliced

\* An id that the rule has built is mapped to the logical id it was built of, and back.
LEMMA MapsBack ==
  ASSUME conf \in Deployments, NEW p \in Partitions, NEW d, d.partition = p, d.transform.id = conf.rule,
         NEW id, Built(p, id), mappable(d)
  PROVE  map_logical_to_physical(d, map_physical_to_logical(d, id)) = id
<1>1. CASE conf.rule = None
  BY <1>1 DEF map_logical_to_physical, map_physical_to_logical
<1>2. CASE conf.rule # None
  <2>1. PICK template : template = conf.rule.template
    OBVIOUS
  <2>2. PICK i \in Ids : id = construct_id(template, p, i)
    BY <1>2, <2>1 DEF Built
  <2>3. PICK C : Range(template) \subseteq C /\ Range(p) \subseteq C /\ Range(i) \subseteq C
    <3>1. PICK C : C = (Range(template) \cup Range(p)) \cup Range(i)
      OBVIOUS
    <3> QED BY <3>1
  <2>4. template \in Seq(Range(template)) /\ p \in Seq(Range(p)) /\ i \in Seq(Range(i))
    BY <1>2, <2>1, RequestsAssumption, TenancyAssumption
  <2>5. template \in Seq(C) /\ p \in Seq(C) /\ i \in Seq(C)
    BY <2>3, <2>4, TextOver
  <2>6. reversible(template)
    BY <1>2, <2>1 DEF mappable
  <2>7. PICK f : f = id_frame(template, p)
    OBVIOUS
  <2>8. f.prefix \in Seq(C) /\ f.suffix \in Seq(C) /\ id = (f.prefix \o i) \o f.suffix
    <3>1. InFrame(C, f, i, id)
      BY ONLY <2>2, <2>5, <2>6, <2>7, BuiltInFrame
    <3> QED BY ONLY <3>1 DEF InFrame
  <2>9. PICK a \in Seq(C), b \in Seq(C) : a = f.prefix /\ b = f.suffix
    BY <2>8
  <2>10. /\ IsPrefix(a, id) /\ IsSuffix(b, id) /\ Len(a) + Len(b) <= Len(id)
         /\ SubSeq(id, Len(a) + 1, Len(id) - Len(b)) = i
    <3>1. id = (a \o i) \o b
      BY ONLY <2>8, <2>9
    <3>2. Opens(a, i, b, id)
      BY ONLY <2>5, <3>1, a \in Seq(C), b \in Seq(C), FrameOpens
    <3> QED BY ONLY <3>2 DEF Opens
  <2>11. map_physical_to_logical(d, id) = i
    BY <1>2, <2>1, <2>7, <2>9, <2>10 DEF map_physical_to_logical
  <2>12. map_logical_to_physical(d, i) = (a \o i) \o b
    BY <1>2, <2>1, <2>7, <2>9 DEF map_logical_to_physical, framed_id
  <2> QED BY <2>8, <2>9, <2>11, <2>12
<1> QED BY <1>1, <1>2

\* A document of its own that a partition is shown stands for itself.
LEMMA ShapedWell ==
  ASSUME conf \in Deployments, NEW d, NEW p, DecOK(d, p), NEW x, DocOK(x), NEW index,
         NEW h, h = [hit |-> shape_hit(d, index, x), doc |-> x]
  PROVE  ShownWell(d, index, h)
<1>1. p \in Partitions /\ d.partition = p /\ d.transform.id = conf.rule
  BY DEF DecOK, build_transform
<1>2. mappable(d) /\ x.owner = d.partition => map_logical_to_physical(d, map_physical_to_logical(d, x.id)) = x.id
  BY <1>1, MapsBack DEF DocOK
<1>3. h.doc = x /\ h.hit = shape_hit(d, index, x)
  OBVIOUS
<1>4. /\ h.hit.index = index /\ h.hit.id = map_physical_to_logical(d, x.id)
      /\ d.transform.inject => h.hit.field = None
  BY <1>3 DEF shape_hit
<1> QED BY <1>2, <1>3, <1>4 DEF ShownWell

\* A document that was asked for by its id is shown under that id.
LEMMA FoundWell ==
  ASSUME NEW d, NEW id, NEW x \in Found(d, id), NEW index,
         NEW h, h = [hit |-> shape_found(d, index, id, x), doc |-> x]
  PROVE  ShownWell(d, index, h)
<1>1. x.id = map_logical_to_physical(d, id)
  BY DEF Found, At, Place
<1>2. PICK s : s = shape_hit(d, index, x)
  OBVIOUS
<1>3. /\ DOMAIN s = {"index", "id", "field"} /\ s.index = index
      /\ d.transform.inject => s.field = None
  BY <1>2 DEF shape_hit
<1>4. h.doc = x /\ h.hit = [s EXCEPT !.id = id]
  BY <1>2 DEF shape_found
<1>5. h.hit.id = id /\ h.hit.index = s.index /\ h.hit.field = s.field
  BY <1>3, <1>4
<1> QED BY <1>1, <1>3, <1>4, <1>5 DEF ShownWell

-----------------------------------------------------------------------------
(* Homes: a dedicated one is one partition's alone. *)

LEMMA HomesApart ==
  ASSUME conf \in Deployments, NEW p \in Partitions, NEW q \in Partitions, p # q,
         NEW a \in conf.homes[p], NEW b \in conf.homes[q], NEW cluster, NEW index,
         Lies(cluster, index, a), Lies(cluster, index, b)
  PROVE  a.kind = "SharedIndex" /\ b.kind = "SharedIndex"
<1>1. a.cluster = b.cluster
  BY DEF Lies
<1>2. \/ a.kind = "SharedIndex" /\ b.kind = "SharedIndex"
      \/ a.kind # "DedicatedCluster" /\ b.kind # "DedicatedCluster" /\ a.index # b.index
  BY <1>1, RequestsAssumption
<1> QED BY <1>2 DEF Lies

\* What a partition's decision finds by its filter was written by that partition.
LEMMA FilteredOwned ==
  ASSUME conf \in Deployments, NEW p \in Partitions, NEW a \in conf.homes[p], NEW d, d.partition = p,
         d.transform = build_transform(a, conf.rule), NEW x, DocOK(x),
         Lies(x.cluster, x.index, a), filter_terms(d) # None => x.field = filter_terms(d)
  PROVE  x.owner = p
<1> SUFFICES ASSUME x.owner # p
             PROVE  FALSE
  OBVIOUS
<1>1. PICK b \in conf.homes[x.owner] :
        /\ Lies(x.cluster, x.index, b)
        /\ b.kind = "SharedIndex" => x.field = x.owner
  BY DEF DocOK
<1>2. x.owner \in Partitions
  BY DEF DocOK
<1>3. a.kind = "SharedIndex" /\ b.kind = "SharedIndex"
  BY <1>1, <1>2, HomesApart
<1>4. d.transform.inject = (a.kind = "SharedIndex")
  BY DEF build_transform
<1>5. filter_terms(d) = p
  BY <1>3, <1>4 DEF filter_terms
<1> QED BY <1>1, <1>3, <1>5, TenancyAssumption

\* Without a filter the whole target is the partition's.
LEMMA UnfilteredOwned ==
  ASSUME conf \in Deployments, NEW p \in Partitions, NEW a \in conf.homes[p],
         a.kind # "SharedIndex", NEW x, DocOK(x), Lies(x.cluster, x.index, a)
  PROVE  x.owner = p
  BY HomesApart DEF DocOK

\* What lies under an id that a partition has built was written by it or by one whose
\* ids collide with its own.
LEMMA IdentifiedOwned ==
  ASSUME conf \in Deployments, NEW p \in Partitions, NEW a \in conf.homes[p], NEW x, DocOK(x),
         Lies(x.cluster, x.index, a),
         a.kind = "SharedIndex" => conf.rule # None /\ Built(p, x.id)
  PROVE  Meets(p, x.owner)
<1> SUFFICES ASSUME x.owner # p
             PROVE  Collide(p, x.owner)
  BY DEF Meets
<1>1. x.owner \in Partitions /\ Built(x.owner, x.id) /\ \E b \in conf.homes[x.owner] : Lies(x.cluster, x.index, b)
  BY DEF DocOK
<1>2. a.kind = "SharedIndex"
  BY <1>1, HomesApart
<1>3. PICK i \in Ids, j \in Ids : /\ x.id = construct_id(conf.rule.template, p, i)
                                /\ x.id = construct_id(conf.rule.template, x.owner, j)
  BY <1>1, <1>2 DEF Built
<1> QED BY <1>2, <1>3 DEF Collide

\* An id mapped for a read is the one that a write would build.
LEMMA MappedBuilt ==
  ASSUME conf \in Deployments, NEW p \in Partitions, NEW d, d.partition = p, d.transform.id = conf.rule,
         mappable(d), NEW i \in Ids
  PROVE  Built(p, map_logical_to_physical(d, i))
<1> SUFFICES ASSUME conf.rule # None
             PROVE  map_logical_to_physical(d, i) = construct_id(conf.rule.template, p, i)
  BY DEF Built
<1>1. PICK template : template = conf.rule.template
  OBVIOUS
<1>2. PICK C : Range(template) \subseteq C /\ Range(p) \subseteq C /\ Range(i) \subseteq C
  <2>1. PICK C : C = (Range(template) \cup Range(p)) \cup Range(i)
    OBVIOUS
  <2> QED BY <2>1
<1>3. template \in Seq(Range(template)) /\ p \in Seq(Range(p)) /\ i \in Seq(Range(i))
  BY <1>1, RequestsAssumption, TenancyAssumption
<1>4. template \in Seq(C) /\ p \in Seq(C) /\ i \in Seq(C)
  BY <1>2, <1>3, TextOver
<1>5. reversible(template)
  BY <1>1 DEF mappable
<1>6. InFrame(C, id_frame(template, p), i, construct_id(template, p, i))
  BY ONLY <1>4, <1>5, BuiltInFrame
<1>7. map_logical_to_physical(d, i) = (id_frame(template, p).prefix \o i) \o id_frame(template, p).suffix
  BY <1>1 DEF map_logical_to_physical, framed_id
<1> QED BY <1>1, <1>6, <1>7 DEF InFrame

LEMMA FoundOwned ==
  ASSUME conf \in Deployments, \A x \in docs : DocOK(x), NEW d, NEW p, DecOK(d, p), mappable(d),
         NEW i \in Ids, NEW x \in Found(d, i)
  PROVE  Meets(p, x.owner)
<1>1. PICK a \in conf.homes[p] :
        /\ Lies(d.target.cluster, d.target.index, a)
        /\ d.transform = build_transform(a, conf.rule) /\ scoped_enough(a, conf.rule)
  BY DEF DecOK
<1>2. /\ x \in docs /\ x.cluster = d.target.cluster /\ x.index = d.target.index
      /\ x.id = map_logical_to_physical(d, i)
  BY DEF Found, At, Place
<1>3. p \in Partitions /\ d.partition = p /\ d.transform.id = conf.rule
  BY <1>1 DEF DecOK, build_transform
<1>4. Built(p, x.id)
  BY <1>2, <1>3, MappedBuilt
<1>5. a.kind = "SharedIndex" => conf.rule # None
  BY <1>1 DEF scoped_enough
<1> QED BY <1>1, <1>2, <1>3, <1>4, <1>5, IdentifiedOwned

LEMMA QueriedOwned ==
  ASSUME conf \in Deployments, \A x \in docs : DocOK(x), NEW d, NEW p, DecOK(d, p),
         NEW x \in wrap_query(d, OnTarget(d))
  PROVE  x.owner = p
<1>1. PICK a \in conf.homes[p] :
        /\ Lies(d.target.cluster, d.target.index, a)
        /\ d.transform = build_transform(a, conf.rule) /\ scoped_enough(a, conf.rule)
  BY DEF DecOK
<1>2. /\ x \in docs /\ x.cluster = d.target.cluster /\ x.index = d.target.index
      /\ filter_terms(d) # None => x.field = filter_terms(d)
  BY DEF wrap_query, OnTarget
<1>3. p \in Partitions /\ d.partition = p
  BY DEF DecOK
<1> QED BY <1>1, <1>2, <1>3, FilteredOwned

\* What an aggregation that is let through may look at.
LEMMA AggregatedOwned ==
  ASSUME conf \in Deployments, \A x \in docs : DocOK(x), NEW d, NEW p, DecOK(d, p),
         NEW query \in Queries, ~reject_unfilterable(d, query),
         NEW x \in aggregated(d, query)
  PROVE  x.owner = p
<1>1. CASE query = "plain"
  BY <1>1, QueriedOwned DEF aggregated
<1>2. CASE query \in {"global", "suggest"}
  <2>1. filter_terms(d) = None /\ x \in OnTarget(d)
    BY <1>2 DEF reject_unfilterable, aggregated
  <2>2. x \in wrap_query(d, OnTarget(d))
    BY <2>1 DEF wrap_query
  <2> QED BY <2>2, QueriedOwned
<1> QED BY <1>1, <1>2 DEF Queries

-----------------------------------------------------------------------------
(* What the clients ask. *)

LEMMA RequestFacts ==
  ASSUME conf \in Deployments, NEW p \in Partitions \cup {None}, NEW r \in RequestsOf(p)
  PROVE  RequestOK(r)
<1>0. /\ conf.ids \subseteq Ids /\ conf.queries \subseteq Queries /\ "plain" \in Queries
      /\ \A tok \in MayPresent : Presented(tok)
  BY RequestsAssumption DEF MayPresent, Presented, Queries
<1>1. ASSUME NEW i \in Indices, NEW d \in conf.ids \cup {None}, NEW f \in {p, None}
      PROVE  RequestOK(Ingest(p, i, d, f))
  BY <1>0 DEF Ingest, For, Base, is_write, is_multi, is_pinned, PartitionOf, resolve_partition, RequestOK
<1>2. ASSUME NEW i \in Indices, NEW d \in conf.ids, NEW m \in {"Async", None}, NEW v \in BOOLEAN
      PROVE  RequestOK(KeyedIngest(p, i, d, m, v))
  BY <1>0 DEF KeyedIngest, For, Base, is_write, is_multi, is_pinned, PartitionOf, resolve_partition, RequestOK
<1>3. ASSUME NEW e \in {"GetById", "DeleteById"}, NEW i \in Indices, NEW d \in conf.ids
      PROVE  RequestOK(ById(p, e, i, d))
  BY <1>0 DEF ById, For, Base, is_write, is_multi, is_pinned, PartitionOf, resolve_partition, RequestOK
<1>4. ASSUME NEW i \in Indices, NEW q \in conf.queries, NEW v \in BOOLEAN
      PROVE  RequestOK(SearchFor(p, i, q, v))
  BY <1>0 DEF SearchFor, For, Base, is_write, is_multi, is_pinned, PartitionOf, resolve_partition, RequestOK
<1>5. ASSUME NEW e \in {"Count", "DeleteByQuery"}, NEW i \in Indices, NEW q \in conf.queries
      PROVE  RequestOK(QueryFor(p, e, i, q))
  BY <1>0 DEF QueryFor, For, Base, is_write, is_multi, is_pinned, PartitionOf, resolve_partition, RequestOK
<1>6. ASSUME NEW e \in {"MultiGet", "MultiSearch"}, NEW I, NEW x \in I, NEW y \in I, NEW q,
             q = Multi(p, e, x, y), I \subseteq ItemsOf(q)
      PROVE  RequestOK(q)
  <2>1. x \in ItemsOf(q) /\ y \in ItemsOf(q)
    BY <1>6
  <2>2. PICK J : J = ItemsOf(q)
    OBVIOUS
  <2>3. <<x, y>> \in Seq(J)
    BY <2>1, <2>2
  <2>4. q.items = <<x, y>> /\ q.endpoint = e /\ q.field = None /\ q.header = p /\ q.query = "plain"
    BY <1>6 DEF Multi, For, Base
  <2>5. q.items \in Seq(ItemsOf(q))
    BY <2>2, <2>3, <2>4
  <2> QED BY <1>0, <2>4, <2>5 DEF is_write, is_multi, is_pinned, PartitionOf, resolve_partition, RequestOK
<1>7. ASSUME NEW x \in GetItems, NEW y \in GetItems
      PROVE  RequestOK(Multi(p, "MultiGet", x, y))
  <2>1. Multi(p, "MultiGet", x, y).endpoint = "MultiGet"
    BY DEF Multi, For, Base
  <2>2. GetItems \subseteq ItemsOf(Multi(p, "MultiGet", x, y))
    BY <1>0, <2>1 DEF GetItems, ItemsOf
  <2> QED BY <1>6, <2>2
<1>8. ASSUME NEW x \in SearchItems, NEW y \in SearchItems
      PROVE  RequestOK(Multi(p, "MultiSearch", x, y))
  <2>1. Multi(p, "MultiSearch", x, y).endpoint = "MultiSearch"
    BY DEF Multi, For, Base
  <2>2. SearchItems \subseteq ItemsOf(Multi(p, "MultiSearch", x, y))
    BY <1>0, <2>1 DEF SearchItems, ItemsOf
  <2> QED BY <1>6, <2>2
<1>9. ASSUME NEW e \in {"Scroll", "ScrollClear"}, NEW t \in MayPresent
      PROVE  RequestOK(ScrollOn(p, e, t))
  BY <1>0 DEF ScrollOn, For, Base, is_write, is_multi, is_pinned, PartitionOf, resolve_partition, RequestOK
<1>10. ASSUME NEW i \in Indices
       PROVE  RequestOK(PitCreate(p, i))
  BY <1>0 DEF PitCreate, For, Base, is_write, is_multi, is_pinned, PartitionOf, resolve_partition, RequestOK
<1>11. ASSUME NEW t \in MayPresent, NEW i \in Indices
       PROVE  RequestOK(PitSearch(p, t, i))
  BY <1>0 DEF PitSearch, For, Base, is_write, is_multi, is_pinned, PartitionOf, resolve_partition, RequestOK
<1>12. ASSUME NEW t \in MayPresent, NEW u \in MayPresent
       PROVE  RequestOK(PitDelete(p, t, u))
  BY <1>0 DEF PitDelete, For, Base, is_write, is_multi, is_pinned, PartitionOf, resolve_partition, RequestOK
<1>13. ASSUME NEW e \in {"Admin", "Unknown", "Introspection"}
       PROVE  RequestOK(For(p, e))
  BY <1>0 DEF For, Base, is_write, is_multi, is_pinned, PartitionOf, resolve_partition, RequestOK
<1> QED BY <1>1, <1>2, <1>3, <1>4, <1>5, <1>7, <1>8, <1>9, <1>10, <1>11, <1>12, <1>13 DEF RequestsOf

-----------------------------------------------------------------------------
(* What a step leaves as it is. *)

SameContext(x, y) == x.cluster = y.cluster /\ x.id = y.id

\* Contexts are opened under ids that were not in use, and closed.
Evolves ==
  /\ conf' = conf /\ issued \subseteq issued'
  /\ \A x \in cursors : \E y \in cursors' : SameContext(x, y) /\ y.under = x.under /\ y.by = x.by
  /\ \A y \in cursors' : /\ y.id # 0
                         /\ \A x \in cursors : SameContext(x, y) => (y.live => x.live) /\ y.kind = x.kind

LEMMA WrapsApart ==
  ASSUME NEW a, NEW i, NEW b, NEW j
  PROVE  /\ wrap(a, i) = wrap(b, j) <=> a = b /\ i = j
         /\ wrap(a, i) = StaleToken => i = 0
  BY DEF wrap, StaleToken, binding

LEMMA NamedSame ==
  ASSUME NEW x, NEW y, SameContext(x, y), NEW tok
  PROVE  Named(tok, x) <=> Named(tok, y)
  BY DEF SameContext, Named

LEMMA NamesOne ==
  ASSUME NEW x, NEW y, NEW tok, Named(tok, x), Named(tok, y)
  PROVE  SameContext(x, y)
  BY WrapsApart DEF SameContext, Named

\* A token that no context will answer to stays one.
LEMMA SettledStays ==
  ASSUME Evolves, NEW tok, NEW kind, Settled(tok, kind)
  PROVE  Settled(tok, kind)'
<1>1. tok = StaleToken \/ \E y \in cursors' : Named(tok, y)
  BY NamedSame DEF Evolves, Settled
<1>2. ASSUME NEW y \in cursors', Named(tok, y), y.kind = kind, y.live
      PROVE  FALSE
  <2>1. tok # StaleToken
    BY <1>2, WrapsApart DEF Named, Evolves
  <2>2. PICK x \in cursors : Named(tok, x)
    BY <2>1 DEF Settled
  <2>3. SameContext(x, y)
    BY <1>2, <2>2, NamesOne
  <2> QED BY <1>2, <2>2, <2>3 DEF Evolves, Settled
<1> QED BY <1>1, <1>2 DEF Settled, Named

LEMMA RequestStays ==
  ASSUME Evolves, NEW r, RequestOK(r)
  PROVE  RequestOK(r)'
<1>1. \A tok : Presented(tok) => Presented(tok)'
  BY DEF Evolves, Presented
<1> QED BY <1>1 DEF RequestOK, ItemsOf, PartitionOf, is_write, is_multi, is_pinned, resolve_partition

\* The context of a token is there still.
LEMMA BornStays ==
  ASSUME Evolves, NEW r, NEW x \in cursors, Bears(r, x)
  PROVE  \E y \in cursors' : Bears(r, y)' /\ y.under = x.under /\ y.by = x.by
  BY NamedSame DEF Bears, Evolves, Named

LEMMA MayShowStays ==
  ASSUME Evolves, NEW r, NEW q, MayShow(r, q)
  PROVE  MayShow(r, q)'
<1>1. Collide(PartitionOf(r), q) => Collide(PartitionOf(r), q)'
  BY DEF Evolves, Collide, PartitionOf
<1> QED BY <1>1, BornStays DEF MayShow, PartitionOf

LEMMA DecStays ==
  ASSUME Evolves, NEW d, NEW p, DecOK(d, p)
  PROVE  DecOK(d, p)'
  BY DEF Evolves, DecOK

LEMMA DocStays ==
  ASSUME Evolves, NEW x, DocOK(x)
  PROVE  DocOK(x)'
  BY DEF Evolves, DocOK, Built

LEMMA SlotsStay ==
  ASSUME Evolves, NEW r, NEW slots, SlotsOK(r, slots)
  PROVE  SlotsOK(r, slots)'
<1>1. \A p, q : Collide(p, q) => Collide(p, q)'
  BY DEF Evolves, Collide
<1>2. ASSUME NEW k \in DOMAIN slots
      PROVE  SlotOK(r, slots[k], k)'
  <2>1. SlotOK(r, slots[k], k)
    BY DEF SlotsOK
  <2>2. slots[k].d # NoDecision => DecOK(slots[k].d, PartitionOf(r))'
    BY <2>1, DecStays DEF SlotOK, PartitionOf
  <2> QED BY <1>1, <2>1, <2>2 DEF SlotOK, PartitionOf
<1> QED BY <1>2 DEF SlotsOK

\* What is known of a request that does not move stays so.
LEMMA TaskStays ==
  ASSUME Evolves, NEW t, TaskOK(t)
  PROVE  TaskOK(t)'
<1>1. ProgressOK(t) => ProgressOK(t)'
  <2> SUFFICES ASSUME ProgressOK(t) PROVE ProgressOK(t)'
    OBVIOUS
  <2>1. RequestOK(t.r)' /\ (is_passthrough(t.r)' <=> is_passthrough(t.r))
    BY RequestStays DEF ProgressOK, is_passthrough, Evolves
  <2>2. /\ \A p : DecOK(t.d, p) => DecOK(t.d, p)'
        /\ \A tok \in t.todo : Settled(tok, "pit") => Settled(tok, "pit")'
        /\ \A x \in t.todo : DocOK(x) => DocOK(x)'
    BY DecStays, SettledStays, DocStays
  <2>3. SlotsOK(t.r, t.slots) => SlotsOK(t.r, t.slots)'
    BY SlotsStay
  <2> QED BY <2>1, <2>2, <2>3 DEF ProgressOK, PartitionOf, is_pinned, is_multi, is_write, unfit, merged, Busy
<1>2. AnswerOK(t) => AnswerOK(t)'
  <2> SUFFICES ASSUME AnswerOK(t) PROVE AnswerOK(t)'
    OBVIOUS
  <2>1. \A x : MayShow(t.r, x.owner) => MayShow(t.r, x.owner)'
    BY MayShowStays
  <2>2. ReshapedBy(t.r, t.d, t.resp.status) => ReshapedBy(t.r, t.d, t.resp.status)'
    BY BornStays DEF ReshapedBy
  <2>3. SlotsOK(t.r, t.resp.slots)'
    BY SlotsStay DEF AnswerOK, AnswerFit
  <2>4. \A tok, kind : Settled(tok, kind) => Settled(tok, kind)'
    BY SettledStays
  <2> QED BY <2>1, <2>2, <2>3, <2>4 DEF AnswerOK, AnswerFit
<1> QED BY <1>1, <1>2 DEF TaskOK, Busy

-----------------------------------------------------------------------------
(* Steps of one request. *)

\* Only client c's request moves.
Only(c) == task' = [d \in Clients |-> task'[d]] /\ \A d \in Clients \ {c} : task'[d] = task[d]

LEMMA TasksKept ==
  ASSUME TasksOK, Evolves, NEW c \in Clients, Only(c), TaskRec(task'[c]), TaskOK(task[c])'
  PROVE  TasksOK'
<1>1. ASSUME NEW d \in Clients, d # c
      PROVE  TaskRec(task[d])' /\ TaskOK(task[d])'
  <2>1. PICK t : t = task[d]
    OBVIOUS
  <2>2. TaskRec(t) /\ TaskOK(t)
    BY <2>1 DEF TasksOK
  <2>3. TaskRec(t)' /\ TaskOK(t)'
    BY <2>2, TaskStays DEF TaskRec, RespRec, SlotRec
  <2>4. task'[d] = t
    BY <1>1, <2>1 DEF Only
  <2> QED BY <2>3, <2>4
<1>2. TaskRec(task[c])'
  OBVIOUS
<1> QED BY <1>1, <1>2 DEF TasksOK, Only

LEMMA StayEvolves ==
  ASSUME CursorsOK, conf' = conf, cursors' = cursors, issued' = issued
  PROVE  Evolves /\ CursorsOK'
<1>1. \A x \in cursors : x.id # 0
  BY DEF CursorsOK, Counted
<1>2. Evolves
  BY <1>1 DEF Evolves, SameContext, CursorsOK
<1>3. ASSUME NEW x
      PROVE  (Counted(x)' <=> Counted(x)) /\ (ContextOK(x)' <=> ContextOK(x))
  <2>1. {y \in cursors : y.cluster = x.cluster}' = {y \in cursors : y.cluster = x.cluster}
    OBVIOUS
  <2>2. Counted(x)' <=> Counted(x)
    BY <2>1 DEF Counted
  <2> QED BY <2>2 DEF ContextOK, DocOK, Built
<1>4. CursorsOK'
  BY <1>3 DEF CursorsOK, Named, CursorRec
<1> QED BY <1>2, <1>4

LEMMA OpStays ==
  ASSUME conf' = conf, NEW op, OpOK(op)
  PROVE  OpOK(op)'
  BY DEF OpOK, Built

LEMMA DocsStay ==
  ASSUME conf' = conf
  PROVE  /\ table' = table /\ TableOK => TableOK'
         /\ docs' = docs /\ DocsOK => DocsOK'
         /\ queue' = queue /\ QueueOK => QueueOK'
<1>1. table' = table /\ TableOK => TableOK'
  BY DEF TableOK, HomeRec
<1>2. docs' = docs /\ DocsOK => DocsOK'
  BY DEF DocsOK, DocOK, Built
<1>3. queue' = queue /\ QueueOK => QueueOK'
  BY DEF QueueOK, OpOK, Built
<1> QED BY <1>1, <1>2, <1>3

LEMMA StayKeeps ==
  ASSUME RequestsInv, Stay, NEW c \in Clients, Only(c), TaskRec(task'[c]), TaskOK(task[c])'
  PROVE  RequestsInv'
<1>1. Evolves /\ CursorsOK'
  BY StayEvolves DEF RequestsInv, Stay
<1>2. TasksOK'
  BY <1>1, TasksKept DEF RequestsInv
<1>3. TableOK' /\ DocsOK' /\ QueueOK'
  BY DocsStay DEF RequestsInv, Stay
<1> QED BY <1>1, <1>2, <1>3 DEF RequestsInv, Stay

\* The request after Answer(c, resp).
Over(t, resp) == [pc |-> "done", r |-> t.r, d |-> t.d, slots |-> <<>>, todo |-> {}, resp |-> resp]

LEMMA AnswerFacts ==
  ASSUME TasksOK, NEW c \in Clients, NEW resp, Answer(c, resp)
  PROVE  Only(c) /\ task'[c] = Over(task[c], resp)
<1>1. task = [d \in Clients |-> task[d]] /\ TaskRec(task[c])
  BY DEF TasksOK
<1>2. task' = [task EXCEPT ![c].pc = "done", ![c].slots = <<>>, ![c].todo = {}, ![c].resp = resp]
  BY DEF Answer
<1>3. task'[c] = [task[c] EXCEPT !.pc = "done", !.slots = <<>>, !.todo = {}, !.resp = resp]
  BY <1>1, <1>2
<1>4. task'[c] = Over(task[c], resp)
  BY <1>1, <1>3 DEF TaskRec, Over
<1>5. Only(c)
  BY <1>1, <1>2 DEF Only
<1> QED BY <1>4, <1>5

\* A response that fits its request leaves an answered request.
LEMMA OverOK ==
  ASSUME NEW t, NEW resp, RespRec(resp), AnswerFit(t.r, t.d, resp)
  PROVE  TaskRec(Over(t, resp)) /\ TaskOK(Over(t, resp))
<1>1. PICK u : u = Over(t, resp)
  OBVIOUS
<1>2. u = [pc |-> "done", r |-> t.r, d |-> t.d, slots |-> <<>>, todo |-> {}, resp |-> resp]
  BY <1>1 DEF Over
<1>3. TaskRec(u)
  BY <1>2 DEF TaskRec
<1>4. u.pc = "done" /\ AnswerFit(u.r, u.d, u.resp)
  BY <1>2
<1> QED BY <1>1, <1>3, <1>4 DEF TaskOK, AnswerOK, Busy

LEMMA AnswerKeeps ==
  ASSUME TasksOK, Evolves, NEW c \in Clients, NEW resp, RespRec(resp), Answer(c, resp),
         AnswerFit(task[c].r, task[c].d, resp)
  PROVE  TasksOK'
<1>1. Only(c) /\ task'[c] = Over(task[c], resp)
  BY AnswerFacts
<1>2. PICK u : u = Over(task[c], resp)
  OBVIOUS
<1>3. TaskRec(u) /\ TaskOK(u)
  BY <1>2, OverOK
<1>4. TaskOK(u)'
  BY <1>3, TaskStays
<1>5. task'[c] = u
  BY <1>1, <1>2
<1>6. TaskRec(task'[c]) /\ TaskOK(task[c])'
  BY <1>3, <1>4, <1>5
<1> QED BY <1>1, <1>6, TasksKept

LEMMA AnswerStays ==
  ASSUME RequestsInv, Stay, NEW c \in Clients, NEW resp, RespRec(resp), Answer(c, resp),
         AnswerFit(task[c].r, task[c].d, resp)
  PROVE  RequestsInv'
<1>1. Evolves /\ CursorsOK'
  BY StayEvolves DEF RequestsInv, Stay
<1>2. TasksOK'
  BY <1>1, AnswerKeeps DEF RequestsInv
<1>3. TableOK' /\ DocsOK' /\ QueueOK'
  BY DocsStay DEF RequestsInv, Stay
<1> QED BY <1>1, <1>2, <1>3 DEF RequestsInv, Stay

LEMMA StatusFacts ==
  ASSUME NEW status
  PROVE  LET u == Status(status) IN
         RespRec(u) /\ u.status = status /\ u.hits = {} /\ u.aggs = {} /\ u.slots = <<>> /\ u.missing = None
<1>1. PICK s : s = NoResponse
  OBVIOUS
<1>2. RespRec(s)
  BY <1>1 DEF RespRec, NoResponse
<1>3. PICK u : u = [s EXCEPT !.status = status]
  OBVIOUS
<1>4. RespRec(u) /\ u.status = status /\ u.hits = s.hits /\ u.aggs = s.aggs /\ u.slots = s.slots /\ u.missing = s.missing
  BY <1>2, <1>3 DEF RespRec
<1>5. Status(status) = u
  BY <1>1, <1>3 DEF Status
<1>6. s.hits = {} /\ s.aggs = {} /\ s.slots = <<>> /\ s.missing = None
  BY <1>1 DEF NoResponse
<1> QED BY <1>4, <1>5, <1>6

LEMMA ShowingFacts ==
  ASSUME NEW status, NEW hits, NEW aggs
  PROVE  LET u == Showing(status, hits, aggs) IN
         RespRec(u) /\ u.status = status /\ u.hits = hits /\ u.aggs = aggs /\ u.slots = <<>> /\ u.missing = None
<1>1. PICK s : s = NoResponse
  OBVIOUS
<1>2. RespRec(s)
  BY <1>1 DEF RespRec, NoResponse
<1>3. PICK u : u = [s EXCEPT !.status = status, !.hits = hits, !.aggs = aggs]
  OBVIOUS
<1>4. RespRec(u) /\ u.status = status /\ u.hits = hits /\ u.aggs = aggs /\ u.slots = s.slots /\ u.missing = s.missing
  BY <1>2, <1>3 DEF RespRec
<1>5. Showing(status, hits, aggs) = u
  BY <1>1, <1>3 DEF Showing
<1>6. s.hits = {} /\ s.aggs = {} /\ s.slots = <<>> /\ s.missing = None
  BY <1>1 DEF NoResponse
<1> QED BY <1>4, <1>5, <1>6

LEMMA MissingFacts ==
  ASSUME NEW tok
  PROVE  LET u == Missing(tok) IN
         RespRec(u) /\ u.status = 404 /\ u.hits = {} /\ u.aggs = {} /\ u.slots = <<>> /\ u.missing = tok
<1>1. PICK s : s = NoResponse
  OBVIOUS
<1>2. RespRec(s)
  BY <1>1 DEF RespRec, NoResponse
<1>3. PICK u : u = [s EXCEPT !.status = 404, !.missing = tok]
  OBVIOUS
<1>4. RespRec(u) /\ u.status = 404 /\ u.hits = s.hits /\ u.aggs = s.aggs /\ u.slots = s.slots /\ u.missing = tok
  BY <1>2, <1>3 DEF RespRec
<1>5. Missing(tok) = u
  BY <1>1, <1>3 DEF Missing
<1>6. s.hits = {} /\ s.aggs = {} /\ s.slots = <<>> /\ s.missing = None
  BY <1>1 DEF NoResponse
<1> QED BY <1>4, <1>5, <1>6

LEMMA SlottedFacts ==
  ASSUME NEW slots
  PROVE  LET u == Slotted(slots) IN
         RespRec(u) /\ u.status = 200 /\ u.hits = {} /\ u.aggs = {} /\ u.slots = slots /\ u.missing = None
<1>1. PICK s : s = NoResponse
  OBVIOUS
<1>2. RespRec(s)
  BY <1>1 DEF RespRec, NoResponse
<1>3. PICK u : u = [s EXCEPT !.status = 200, !.slots = slots]
  OBVIOUS
<1>4. RespRec(u) /\ u.status = 200 /\ u.hits = s.hits /\ u.aggs = s.aggs /\ u.slots = slots /\ u.missing = s.missing
  BY <1>2, <1>3 DEF RespRec
<1>5. Slotted(slots) = u
  BY <1>1, <1>3 DEF Slotted
<1>6. s.hits = {} /\ s.aggs = {} /\ s.slots = <<>> /\ s.missing = None
  BY <1>1 DEF NoResponse
<1> QED BY <1>4, <1>5, <1>6

LEMMA StatusFit ==
  ASSUME NEW r, NEW d, NEW status, r.endpoint = "PitDelete" => status # 200
  PROVE  RespRec(Status(status)) /\ AnswerFit(r, d, Status(status))
<1>1. SlotsOK(r, <<>>)
  BY DEF SlotsOK
<1> QED BY <1>1, StatusFacts DEF AnswerFit

LEMMA RespondKeeps ==
  ASSUME RequestsInv, NEW c \in Clients, NEW status, task[c].r.endpoint = "PitDelete" => status # 200,
         Respond(c, status)
  PROVE  RequestsInv'
<1>1. Stay /\ Answer(c, Status(status))
  BY DEF Respond
<1>2. RespRec(Status(status)) /\ AnswerFit(task[c].r, task[c].d, Status(status))
  BY StatusFit
<1> QED BY <1>1, <1>2, AnswerStays

LEMMA FailKeeps ==
  ASSUME RequestsInv, NEW c \in Clients, NEW code, Fail(c, code)
  PROVE  RequestsInv'
<1>1. status_for(code) # 200
  BY DEF status_for
<1>2. Respond(c, status_for(code))
  BY DEF Respond, Fail
<1> QED BY <1>1, <1>2, RespondKeeps

-----------------------------------------------------------------------------
(* Admission, and what needs no decision. *)

LEMMA IdleRec ==
  TaskRec(Idle) /\ TaskOK(Idle) /\ Idle.slots = <<>> /\ Idle.todo = {}
<1>1. RespRec(NoResponse)
  BY DEF RespRec, NoResponse
<1>2. \E S : <<>> \in Seq(S)
  OBVIOUS
<1> QED BY <1>1, <1>2 DEF TaskRec, TaskOK, Idle, Busy

LEMMA ArriveKeeps ==
  ASSUME RequestsInv, NEW c \in Clients, NEW p \in Partitions \cup {None}, NEW r \in RequestsOf(p),
         NEW secure, NEW known, NEW allowed, Arrive(c, r, secure, known, allowed)
  PROVE  RequestsInv'
<1>1. task = [d \in Clients |-> task[d]] /\ Stay
  BY DEF RequestsInv, TasksOK, Arrive
<1>2. PICK t : task' = [task EXCEPT ![c] = t] /\
        \/ \E resp \in {Status(200), Status(status_for(gate(r, secure, known, allowed)))} :
              t = [Idle EXCEPT !.pc = "refused", !.resp = resp]
        \/ t = [Idle EXCEPT !.pc = "admitted", !.r = r]
  BY DEF Arrive
<1>3. Only(c) /\ task'[c] = t
  BY <1>1, <1>2 DEF Only
<1>4. TaskRec(t) /\ TaskOK(t)
  <2>1. PICK i : i = Idle
    OBVIOUS
  <2>2. TaskRec(i) /\ i.slots = <<>> /\ i.todo = {}
    BY <2>1, IdleRec
  <2>3. ASSUME NEW resp, RespRec(resp), t = [i EXCEPT !.pc = "refused", !.resp = resp]
        PROVE  TaskRec(t) /\ TaskOK(t)
    BY <2>2, <2>3 DEF TaskRec, TaskOK, Busy
  <2>4. ASSUME t = [i EXCEPT !.pc = "admitted", !.r = r]
        PROVE  TaskRec(t) /\ TaskOK(t)
    <3>1. t.pc = "admitted" /\ t.r = r /\ t.slots = <<>> /\ t.todo = {} /\ TaskRec(t)
      BY <2>2, <2>4 DEF TaskRec
    <3>2. RequestOK(r)
      BY RequestFacts DEF RequestsInv
    <3> QED BY <3>1, <3>2 DEF TaskOK, Busy, ProgressOK
  <2>5. \A status : RespRec(Status(status))
    BY StatusFacts
  <2> QED BY <1>2, <2>1, <2>3, <2>4, <2>5
<1>5. TaskOK(t)'
  BY <1>1, <1>4, StayEvolves, TaskStays DEF RequestsInv, Stay
<1>6. TaskRec(task'[c]) /\ TaskOK(task[c])'
  BY <1>3, <1>4, <1>5
<1> QED BY <1>1, <1>3, <1>6, StayKeeps

LEMMA FinishKeeps ==
  ASSUME RequestsInv, NEW c \in Clients, Finish(c)
  PROVE  RequestsInv'
<1>1. task = [d \in Clients |-> task[d]] /\ Stay /\ task' = [task EXCEPT ![c] = Idle]
  BY DEF RequestsInv, TasksOK, Finish
<1>2. Only(c) /\ task'[c] = Idle
  BY <1>1 DEF Only
<1>3. TaskOK(Idle)'
  BY <1>1, IdleRec, StayEvolves, TaskStays DEF RequestsInv, Stay
<1>4. TaskRec(task'[c]) /\ TaskOK(task[c])'
  BY <1>2, <1>3, IdleRec
<1> QED BY <1>1, <1>2, <1>4, StayKeeps

LEMMA PassedOnKeeps ==
  ASSUME RequestsInv, NEW c \in Clients,
         forward(c) \/ forward_stream(c) \/ admin(c) \/ dispatch_other(c) \/ ResolveUnavailable(c)
  PROVE  RequestsInv'
<1>1. task[c].pc = "admitted" => RequestOK(task[c].r)
  BY DEF RequestsInv, TasksOK, TaskOK, ProgressOK, Busy
<1>2. \A code : Fail(c, code) => RequestsInv'
  BY FailKeeps
<1>3. task[c].r.endpoint # "PitDelete" /\ Respond(c, 200) => RequestsInv'
  BY RespondKeeps
<1>4. task[c].pc = "admitted" /\ is_passthrough(task[c].r) => task[c].r.endpoint # "PitDelete"
  BY <1>1, RequestsAssumption DEF RequestOK, is_passthrough, is_pinned, RequestsInv
<1> QED BY <1>2, <1>3, <1>4 DEF forward, forward_stream, admin, dispatch_other, ResolveUnavailable, forward_plan

\* A request that moves beside an unchanged state.
LEMMA MoveKeeps ==
  ASSUME RequestsInv, Stay, NEW c \in Clients, NEW u, Only(c), task'[c] = u, TaskRec(u), TaskOK(u)
  PROVE  RequestsInv'
<1>1. TaskOK(u)'
  BY StayEvolves, TaskStays DEF RequestsInv, Stay
<1>2. TaskRec(task'[c]) /\ TaskOK(task[c])'
  BY <1>1
<1> QED BY <1>2, StayKeeps

-----------------------------------------------------------------------------
(* Resolution. *)

LEMMA GotoFacts ==
  ASSUME RequestsInv, NEW c \in Clients, NEW pc, Goto(c, pc)
  PROVE  /\ Only(c) /\ Stay /\ TaskRec(task'[c]) /\ task'[c].pc = pc /\ task'[c].r = task[c].r /\ task'[c].d = task[c].d
         /\ task'[c].slots = task[c].slots /\ task'[c].todo = task[c].todo /\ task'[c].resp = task[c].resp
<1>1. task = [d \in Clients |-> task[d]] /\ TaskRec(task[c])
  BY DEF RequestsInv, TasksOK
<1>2. task' = [task EXCEPT ![c].pc = pc] /\ Stay
  BY DEF Goto
<1>3. Only(c) /\ task'[c] = [task[c] EXCEPT !.pc = pc]
  BY <1>1, <1>2 DEF Only
<1> QED BY <1>1, <1>2, <1>3 DEF TaskRec

LEMMA PrecheckKeeps ==
  ASSUME RequestsInv, NEW c \in Clients, Precheck(c)
  PROVE  RequestsInv'
<1> DEFINE r == task[c].r
<1>1. /\ RequestOK(r) /\ task[c].slots = <<>> /\ task[c].todo = {} /\ ~is_passthrough(r)
  BY DEF RequestsInv, TasksOK, TaskOK, ProgressOK, Busy, Precheck
<1>2. CASE r.endpoint = "DeleteByQuery" /\ Respond(c, dbq_refusal(r))
  BY <1>2, RespondKeeps
<1>3. CASE Fail(c, precheck(r))
  BY <1>3, FailKeeps
<1>4. ASSUME NEW pc, pc = IF is_pinned(r) THEN "pinned" ELSE IF is_multi(r) THEN "multi" ELSE "resolving",
             precheck(r) = "None", Goto(c, pc)
      PROVE  RequestsInv'
  <2>1. PICK u : u = task'[c]
    OBVIOUS
  <2>2. /\ Only(c) /\ Stay /\ TaskRec(u) /\ u.pc = pc /\ u.r = r /\ u.slots = <<>> /\ u.todo = {}
    BY <1>1, <1>4, <2>1, GotoFacts
  <2>3. ~is_pinned(r) => PartitionOf(r) \in Partitions
    BY <1>1, <1>4 DEF precheck, RequestOK, PartitionOf
  <2>4. SlotsOK(r, <<>>)
    BY DEF SlotsOK
  <2>5. ProgressOK(u)
    BY <1>1, <1>4, <2>2, <2>3, <2>4 DEF ProgressOK, is_pinned, Busy
  <2>6. TaskOK(u)
    BY <1>4, <2>2, <2>5 DEF TaskOK, Busy
  <2> QED BY <2>1, <2>2, <2>6, MoveKeeps
<1> QED BY <1>2, <1>3, <1>4 DEF Precheck

\* A read of the placement gives a decision about one of the partition's homes.
LEMMA DecisionOK ==
  ASSUME TableOK, NEW p \in Partitions, NEW index, scoped_enough(table[p].placement, conf.rule)
  PROVE  DecOK(decision(p, table[p], conf.rule, index), p)
<1>1. table[p].placement \in conf.homes[p]
  BY DEF TableOK
<1>2. Lies(target_for(table[p].placement, index).cluster, target_for(table[p].placement, index).index,
           table[p].placement)
  BY DEF target_for, Lies
<1> QED BY <1>1, <1>2 DEF DecOK, decision

LEMMA ResolveKeeps ==
  ASSUME RequestsInv, NEW c \in Clients, Resolve(c)
  PROVE  RequestsInv'
<1> DEFINE r == task[c].r
           p == PartitionOf(r)
           d == decision(p, table[p], conf.rule, r.index)
<1>1. /\ task[c].pc = "resolving" /\ RequestOK(r) /\ task[c].slots = <<>> /\ task[c].todo = {} /\ ~is_passthrough(r)
      /\ p \in Partitions /\ ~is_pinned(r)
  BY DEF RequestsInv, TasksOK, TaskOK, ProgressOK, Busy, Resolve
<1>2. CASE Fail(c, "UnsupportedEndpoint")
  BY <1>2, FailKeeps
<1>3. ASSUME scoped_enough(table[p].placement, conf.rule), ~unfit(r, d), Stay,
             task' = [task EXCEPT ![c].pc = "resolved", ![c].d = d]
      PROVE  RequestsInv'
  <2>1. task = [e \in Clients |-> task[e]] /\ TaskRec(task[c])
    BY DEF RequestsInv, TasksOK
  <2>2. PICK u, b : u = task'[c] /\ b = d
    OBVIOUS
  <2>3. Only(c) /\ u = [task[c] EXCEPT !.pc = "resolved", !.d = b]
    BY <1>3, <2>1, <2>2 DEF Only
  <2>4. /\ TaskRec(u) /\ u.pc = "resolved" /\ u.r = r /\ u.d = b /\ u.slots = <<>> /\ u.todo = {}
    BY <1>1, <2>1, <2>3 DEF TaskRec
  <2>5. DecOK(b, p)
    BY <1>1, <1>3, <2>2, DecisionOK DEF RequestsInv
  <2>6. ProgressOK(u)
    BY <1>1, <1>3, <2>2, <2>4, <2>5 DEF ProgressOK, Busy
  <2>7. TaskOK(u)
    BY <2>4, <2>6 DEF TaskOK, Busy
  <2> QED BY <1>3, <2>2, <2>3, <2>4, <2>7, MoveKeeps
<1> QED BY <1>2, <1>3 DEF Resolve, PartitionOf

-----------------------------------------------------------------------------
(* Writes. *)

LEMMA WriteOpOK ==
  ASSUME conf \in Deployments, NEW r, RequestOK(r), NEW d, NEW p, DecOK(d, p), ~unfit(r, d), is_write(r)
  PROVE  OpOK(write_op(r, d)) /\ write_op(r, d).partition_key = p
<1>1. PICK a \in conf.homes[p] :
        /\ Lies(d.target.cluster, d.target.index, a)
        /\ d.transform = build_transform(a, conf.rule) /\ scoped_enough(a, conf.rule)
  BY DEF DecOK
<1>2. p \in Partitions /\ d.partition = p
  BY DEF DecOK
<1>3. PICK op : op = write_op(r, d)
  OBVIOUS
<1>4. d.transform.inject = (a.kind = "SharedIndex") /\ d.transform.id = conf.rule
  BY <1>1 DEF build_transform
<1>5. CASE r.endpoint = "IngestDoc"
  <2>1. /\ op.kind = "Index" /\ op.partition_key = p /\ op.place.cluster = d.target.cluster
        /\ op.place.index = d.target.index /\ op.place.id = build_id(d, r.id)
        /\ op.field = inject_fields(d, r.carries)
    BY <1>2, <1>3, <1>5 DEF write_op, build_write_batch, Place
  <2>2. conf.rule # None => op.place.id # None /\ Built(p, op.place.id)
    <3> SUFFICES ASSUME conf.rule # None PROVE op.place.id # None /\ Built(p, op.place.id)
      OBVIOUS
    <3>1. r.id \in Ids
      BY <1>4, <1>5 DEF unfit, RequestOK, is_write
    <3>2. op.place.id = construct_id(conf.rule.template, p, r.id)
      BY <1>2, <1>4, <2>1 DEF build_id
    <3> QED BY <1>2, <3>1, <3>2, RequestsAssumption DEF Built
  <2>3. a.kind = "SharedIndex" => conf.rule # None /\ op.field = p
    BY <1>1, <1>2, <1>4, <2>1 DEF scoped_enough, inject_fields
  <2> QED BY <1>1, <1>2, <1>3, <2>1, <2>2, <2>3 DEF OpOK
<1>6. CASE r.endpoint = "DeleteById"
  <2>1. /\ op.kind = "Delete" /\ op.partition_key = p /\ op.place.cluster = d.target.cluster
        /\ op.place.index = d.target.index /\ op.place.id = map_logical_to_physical(d, r.id)
    BY <1>2, <1>3, <1>6 DEF write_op, build_delete_op, delete_op, Place
  <2>2. mappable(d) /\ r.id \in Ids
    BY <1>6 DEF unfit, RequestOK, is_write
  <2>3. Built(p, op.place.id) /\ (a.kind = "SharedIndex" => conf.rule # None)
    BY <1>1, <1>2, <1>4, <2>1, <2>2, MappedBuilt DEF scoped_enough
  <2> QED BY <1>1, <1>2, <1>3, <2>1, <2>3 DEF OpOK
<1> QED BY <1>5, <1>6 DEF is_write

\* A match of a delete-by-query is deleted under its own id.
LEMMA DeleteOpOK ==
  ASSUME conf \in Deployments, NEW d, NEW p, DecOK(d, p), NEW x, DocOK(x), x.owner = p,
         x.cluster = d.target.cluster, x.index = d.target.index
  PROVE  OpOK(delete_op(d, x.id))
<1>1. PICK a \in conf.homes[p] : Lies(d.target.cluster, d.target.index, a) /\ scoped_enough(a, conf.rule)
  BY DEF DecOK
<1>2. p \in Partitions /\ d.partition = p
  BY DEF DecOK
<1>3. Built(p, x.id) /\ (a.kind = "SharedIndex" => conf.rule # None)
  BY <1>1 DEF DocOK, scoped_enough
<1>4. PICK op : op = delete_op(d, x.id)
  OBVIOUS
<1>5. /\ op.kind = "Delete" /\ op.partition_key = p /\ op.place.cluster = d.target.cluster
      /\ op.place.index = d.target.index /\ op.place.id = x.id
  BY <1>2, <1>4 DEF delete_op, Place
<1> QED BY <1>1, <1>2, <1>3, <1>4, <1>5 DEF OpOK

\* An operation leaves documents of its own partition, and touches none but those that its
\* ids meet.
LEMMA EffectsOK ==
  ASSUME conf \in Deployments, DocsOK, NEW op, OpOK(op), NEW e \in Effects(op)
  PROVE  /\ \A x \in e.docs : DocOK(x)
         /\ \A x \in e.shown : x \in e.docs /\ x.owner = op.partition_key
         /\ \A x \in docs \ e.docs : Meets(op.partition_key, x.owner)
<1> DEFINE p == op.partition_key
           rest == {x \in docs : ~At(x, op.place)}
<1>1. PICK a \in conf.homes[p] :
        /\ Lies(op.place.cluster, op.place.index, a)
        /\ a.kind = "SharedIndex" =>
             /\ conf.rule # None /\ Built(p, op.place.id)
             /\ op.kind = "Index" => op.field = p
  BY DEF OpOK
<1>2. /\ p \in Partitions /\ op.kind \in {"Index", "Delete"}
      /\ op.kind = "Index" /\ conf.rule # None => op.place.id # None /\ Built(p, op.place.id)
  BY DEF OpOK
<1>3. \A x \in docs \ rest : Meets(p, x.owner)
  <2> SUFFICES ASSUME NEW x \in docs, At(x, op.place)
               PROVE  Meets(p, x.owner)
    OBVIOUS
  <2>1. DocOK(x) /\ x.cluster = op.place.cluster /\ x.index = op.place.index /\ x.id = op.place.id
    BY DEF DocsOK, At
  <2> QED BY <1>1, <1>2, <2>1, IdentifiedOwned
<1>4. \A x \in rest : DocOK(x)
  BY DEF DocsOK
<1>5. CASE op.kind = "Delete"
  <2>1. e.docs = rest /\ e.shown = {}
    BY <1>5 DEF Effects
  <2> QED BY <1>3, <1>4, <2>1
<1>6. CASE op.kind = "Index"
  <2>1. PICK g : /\ e.docs = rest \cup {Stored(op, g)} /\ e.shown = {Stored(op, g)}
                 /\ op.place.id # None => g = op.place.id
    BY <1>6 DEF Effects
  <2>2. PICK x : x = Stored(op, g)
    OBVIOUS
  <2>3. /\ x.cluster = op.place.cluster /\ x.index = op.place.index /\ x.id = g /\ x.field = op.field
        /\ x.owner = p
    BY <2>2 DEF Stored
  <2>4. Built(p, x.id)
    BY <1>2, <1>6, <2>1, <2>3 DEF Built
  <2>5. DocOK(x)
    BY <1>1, <1>2, <1>6, <2>1, <2>3, <2>4 DEF DocOK
  <2> QED BY <1>3, <1>4, <2>1, <2>2, <2>3, <2>5
<1> QED BY <1>2, <1>5, <1>6

\* A response fits that shows documents its request may see.
LEMMA OwnFit ==
  ASSUME NEW r, NEW d, NEW status, NEW hits, NEW aggs, r.endpoint # "PitDelete",
         \A h \in hits : MayShow(r, h.doc.owner) \/ ReshapedBy(r, d, status),
         \A x \in aggs : x.owner = PartitionOf(r),
         \A h \in hits : r.endpoint = "Scroll" \/ ShownWell(d, r.index, h)
  PROVE  RespRec(Showing(status, hits, aggs)) /\ AnswerFit(r, d, Showing(status, hits, aggs))
<1>1. SlotsOK(r, <<>>)
  BY DEF SlotsOK
<1>2. PICK u : u = Showing(status, hits, aggs)
  OBVIOUS
<1>3. /\ RespRec(u) /\ u.hits = hits /\ u.aggs = aggs /\ u.slots = <<>> /\ u.missing = None
      /\ u.status = status
  BY <1>2, ShowingFacts
<1>4. \A x \in {h.doc : h \in hits} \cup aggs : MayShow(r, x.owner) \/ ReshapedBy(r, d, status)
  BY DEF MayShow
<1>5. AnswerFit(r, d, u)
  BY <1>1, <1>3, <1>4 DEF AnswerFit
<1> QED BY <1>2, <1>3, <1>5

LEMMA ResolvedFacts ==
  ASSUME RequestsInv, NEW c \in Clients, task[c].pc \in {"resolved", "gated", "expanding"}
  PROVE  /\ RequestOK(task[c].r) /\ DecOK(task[c].d, PartitionOf(task[c].r)) /\ ~unfit(task[c].r, task[c].d)
         /\ ~is_pinned(task[c].r) /\ task[c].r.endpoint # "PitDelete" /\ task[c].slots = <<>>
         /\ ~is_passthrough(task[c].r) /\ PartitionOf(task[c].r) \in Partitions
         /\ task[c].pc # "expanding" => task[c].todo = {}
         /\ task[c].pc = "gated" => is_write(task[c].r)
  BY DEF RequestsInv, TasksOK, TaskOK, ProgressOK, Busy, is_pinned

\* A step that leaves the contexts alone and answers.
LEMMA WroteKeeps ==
  ASSUME RequestsInv, NEW c \in Clients, NEW resp, RespRec(resp), Answer(c, resp),
         AnswerFit(task[c].r, task[c].d, resp), UNCHANGED <<conf, table, cursors, issued>>, DocsOK', QueueOK'
  PROVE  RequestsInv'
<1>1. Evolves /\ CursorsOK'
  BY StayEvolves DEF RequestsInv
<1>2. TasksOK'
  BY <1>1, AnswerKeeps DEF RequestsInv
<1>3. TableOK'
  BY DocsStay DEF RequestsInv
<1> QED BY <1>1, <1>2, <1>3 DEF RequestsInv

LEMMA AppliedOK ==
  ASSUME RequestsInv, conf' = conf, docs' \subseteq docs \/ \A x \in docs' : DocOK(x)
  PROVE  DocsOK'
  BY DEF RequestsInv, DocsOK, DocOK, Built

LEMMA WriteKeeps ==
  ASSUME RequestsInv, NEW c \in Clients, Write(c)
  PROVE  RequestsInv'
<1> DEFINE r == task[c].r
           d == task[c].d
           op == write_op(r, d)
<1>1. /\ RequestOK(r) /\ DecOK(d, PartitionOf(r)) /\ ~unfit(r, d) /\ r.endpoint # "PitDelete" /\ is_write(r)
  BY ResolvedFacts DEF Write
<1>2. OpOK(op) /\ op.partition_key = PartitionOf(r)
  BY <1>1, WriteOpOK DEF RequestsInv
<1>3. PICK e \in Effects(op) :
        /\ docs' = e.docs
        /\ Answer(c, Showing(200, Shown(d, r.index, e.shown), {}))
  BY DEF Write
<1>4. (\A x \in e.docs : DocOK(x)) /\ \A x \in e.shown : x \in e.docs /\ x.owner = PartitionOf(r)
  BY <1>2, EffectsOK DEF RequestsInv
<1>5. PICK resp : resp = Showing(200, Shown(d, r.index, e.shown), {})
  OBVIOUS
<1>6. \A h \in Shown(d, r.index, e.shown) : ShownWell(d, r.index, h)
  BY <1>1, <1>4, ShapedWell DEF Shown, RequestsInv
<1>7. \A h \in Shown(d, r.index, e.shown) : h.doc.owner = PartitionOf(r)
  BY <1>4 DEF Shown
<1>8. RespRec(resp) /\ AnswerFit(r, d, resp)
  <2>1. PICK hits : hits = Shown(d, r.index, e.shown)
    OBVIOUS
  <2>2. \A h \in hits : MayShow(r, h.doc.owner) /\ ShownWell(d, r.index, h)
    BY <1>6, <1>7, <2>1 DEF MayShow
  <2>3. RespRec(Showing(200, hits, {})) /\ AnswerFit(r, d, Showing(200, hits, {}))
    BY <1>1, <2>2, OwnFit
  <2> QED BY <1>5, <2>1, <2>3
<1>9. UNCHANGED <<conf, table, cursors, queue, issued>>
  BY DEF Write
<1>10. DocsOK' /\ QueueOK'
  BY <1>3, <1>4, <1>9, AppliedOK, DocsStay DEF RequestsInv
<1> QED BY <1>3, <1>5, <1>8, <1>9, <1>10, WroteKeeps

LEMMA WriteFailsKeeps ==
  ASSUME RequestsInv, NEW c \in Clients, WriteFails(c)
  PROVE  RequestsInv'
<1> DEFINE r == task[c].r
           d == task[c].d
           op == write_op(r, d)
<1>1. /\ RequestOK(r) /\ DecOK(d, PartitionOf(r)) /\ ~unfit(r, d) /\ r.endpoint # "PitDelete" /\ is_write(r)
  BY ResolvedFacts DEF WriteFails
<1>2. OpOK(op)
  BY <1>1, WriteOpOK DEF RequestsInv
<1>3. docs' = docs \/ \E e \in Effects(op) : docs' = e.docs
  BY DEF WriteFails
<1>4. docs' \subseteq docs \/ \A x \in docs' : DocOK(x)
  BY <1>2, <1>3, EffectsOK DEF RequestsInv
<1>5. PICK resp : resp = Status(status_for("UpstreamFailed"))
  OBVIOUS
<1>6. RespRec(resp) /\ AnswerFit(r, d, resp)
  BY <1>1, <1>5, StatusFit
<1>7. UNCHANGED <<conf, table, cursors, queue, issued>> /\ Answer(c, resp)
  BY <1>5 DEF WriteFails
<1>8. DocsOK' /\ QueueOK'
  BY <1>4, <1>7, AppliedOK, DocsStay DEF RequestsInv
<1> QED BY <1>6, <1>7, <1>8, WroteKeeps

LEMMA EnqueueKeeps ==
  ASSUME RequestsInv, NEW c \in Clients, Enqueue(c)
  PROVE  RequestsInv'
<1> DEFINE r == task[c].r
           d == task[c].d
<1>1. /\ RequestOK(r) /\ DecOK(d, PartitionOf(r)) /\ ~unfit(r, d) /\ r.endpoint # "PitDelete" /\ is_write(r)
  BY ResolvedFacts DEF Enqueue
<1>2. CASE \E status : Respond(c, status)
  BY <1>1, <1>2, RespondKeeps
<1>3. ASSUME queue' = <<write_op(r, d)>>, Answer(c, Status(202)), UNCHANGED <<conf, table, docs, cursors, issued>>
      PROVE  RequestsInv'
  <2>1. PICK op : op = write_op(r, d)
    OBVIOUS
  <2>2. OpOK(op)
    BY <1>1, <2>1, WriteOpOK DEF RequestsInv
  <2>3. OpOK(op)' /\ queue' = <<op>> /\ Head(<<op>>) = op
    BY <1>3, <2>1, <2>2, OpStays
  <2>4. QueueOK' /\ DocsOK'
    BY <1>3, <2>3, DocsStay DEF QueueOK, RequestsInv
  <2>5. RespRec(Status(202)) /\ AnswerFit(r, d, Status(202))
    BY <1>1, StatusFit
  <2> QED BY <1>3, <2>4, <2>5, WroteKeeps
<1> QED BY <1>2, <1>3 DEF Enqueue

LEMMA GateKeeps ==
  ASSUME RequestsInv, NEW c \in Clients, gate_write(c)
  PROVE  RequestsInv'
<1>1. CASE Fail(c, "StaleEpoch")
  BY <1>1, FailKeeps
<1>2. CASE Goto(c, "gated")
  <2>1. PICK u : u = task'[c]
    OBVIOUS
  <2>2. /\ Only(c) /\ Stay /\ TaskRec(u) /\ u.pc = "gated" /\ u.r = task[c].r /\ u.slots = <<>> /\ u.todo = {}
        /\ u.d = task[c].d
    BY <1>2, <2>1, GotoFacts, ResolvedFacts DEF gate_write
  <2>3. ProgressOK(u)
    BY <2>2, ResolvedFacts DEF ProgressOK, gate_write, Busy
  <2>4. TaskOK(u)
    BY <2>2, <2>3 DEF TaskOK, Busy
  <2> QED BY <2>1, <2>2, <2>4, MoveKeeps
<1> QED BY <1>1, <1>2 DEF gate_write

LEMMA ConsumeKeeps ==
  ASSUME RequestsInv, Consume
  PROVE  RequestsInv'
<1>1. OpOK(Head(queue)) /\ queue = <<Head(queue)>>
  BY DEF RequestsInv, QueueOK, Consume
<1>2. DocsOK'
  BY <1>1, EffectsOK, AppliedOK DEF RequestsInv, Consume
<1>3. queue' = <<>>
  <2>1. PICK op : queue = <<op>>
    BY <1>1
  <2> QED BY <2>1 DEF Consume
<1>4. UNCHANGED <<conf, table, cursors, issued, task>>
  BY DEF Consume
<1>5. Evolves /\ CursorsOK' /\ TableOK'
  BY <1>4, StayEvolves, DocsStay DEF RequestsInv
<1>6. TasksOK'
  <2>1. ASSUME NEW c \in Clients
        PROVE  TaskRec(task[c])' /\ TaskOK(task[c])'
    <3>1. PICK t : t = task[c]
      OBVIOUS
    <3>2. TaskRec(t) /\ TaskOK(t)
      BY <3>1 DEF RequestsInv, TasksOK
    <3>3. TaskOK(t)' /\ task'[c] = t
      BY <1>4, <1>5, <3>1, <3>2, TaskStays
    <3> QED BY <3>2, <3>3
  <2> QED BY <1>4, <2>1 DEF RequestsInv, TasksOK
<1> QED BY <1>2, <1>3, <1>4, <1>5, <1>6 DEF RequestsInv, QueueOK

-----------------------------------------------------------------------------
(* Reads. *)

LEMMA ReadKeeps ==
  ASSUME RequestsInv, NEW c \in Clients, get_by_id(c) \/ count(c)
  PROVE  RequestsInv'
<1> DEFINE r == task[c].r
           d == task[c].d
<1>1. /\ RequestOK(r) /\ DecOK(d, PartitionOf(r)) /\ ~unfit(r, d) /\ r.endpoint # "PitDelete"
  BY ResolvedFacts DEF get_by_id, count
<1>2. conf \in Deployments /\ \A x \in docs : DocOK(x)
  BY DEF RequestsInv, DocsOK
<1>3. CASE get_by_id(c)
  <2>1. mappable(d) /\ r.id \in Ids
    BY <1>1, <1>3 DEF get_by_id, unfit, RequestOK
  <2>2. \A x \in Found(d, r.id) : MayShow(r, x.owner)
    BY <1>1, <1>2, <1>3, <2>1, FoundOwned DEF Meets, MayShow, get_by_id
  <2>3. PICK hits : hits = {[hit |-> shape_found(d, r.index, r.id, x), doc |-> x] : x \in Found(d, r.id)}
    OBVIOUS
  <2>4. \A h \in hits : MayShow(r, h.doc.owner)
    BY <2>2, <2>3
  <2>5. PICK status : Stay /\ Answer(c, Showing(status, hits, {}))
    BY <1>3, <2>3 DEF get_by_id
  <2>6. \A h \in hits : ShownWell(d, r.index, h)
    BY <2>3, FoundWell
  <2>7. RespRec(Showing(status, hits, {})) /\ AnswerFit(r, d, Showing(status, hits, {}))
    BY <1>1, <2>4, <2>6, OwnFit
  <2> QED BY <2>5, <2>7, AnswerStays
<1>4. CASE count(c)
  <2>1. ~reject_unfilterable(d, r.query) /\ r.query \in Queries
    BY <1>1, <1>4 DEF count, unfit, RequestOK
  <2>2. PICK aggs : aggs = aggregated(d, r.query)
    OBVIOUS
  <2>3. \A x \in aggs : x.owner = PartitionOf(r)
    BY <1>1, <1>2, <2>1, <2>2, AggregatedOwned
  <2>4. Stay /\ Answer(c, Showing(200, {}, aggs))
    BY <1>4, <2>2 DEF count
  <2>5. RespRec(Showing(200, {}, aggs)) /\ AnswerFit(r, d, Showing(200, {}, aggs))
    BY <1>1, <2>3, OwnFit
  <2> QED BY <2>4, <2>5, AnswerStays
<1> QED BY <1>3, <1>4

LEMMA MatchKeeps ==
  ASSUME RequestsInv, NEW c \in Clients, run_match_search(c)
  PROVE  RequestsInv'
<1> DEFINE r == task[c].r
           d == task[c].d
<1>1. /\ RequestOK(r) /\ DecOK(d, PartitionOf(r)) /\ ~unfit(r, d) /\ r.endpoint # "PitDelete" /\ ~is_pinned(r)
      /\ ~is_passthrough(r) /\ PartitionOf(r) \in Partitions /\ task[c].slots = <<>>
  BY ResolvedFacts DEF run_match_search
<1>2. PICK found, u : found = wrap_query(d, OnTarget(d)) /\ u = task'[c]
  OBVIOUS
<1>3. \A x \in found : /\ DocOK(x) /\ x.owner = PartitionOf(r)
                       /\ x.cluster = d.target.cluster /\ x.index = d.target.index
  <2>1. conf \in Deployments /\ \A x \in docs : DocOK(x)
    BY DEF RequestsInv, DocsOK
  <2>2. \A x \in found : x.owner = PartitionOf(r)
    BY <1>1, <1>2, <2>1, QueriedOwned
  <2>3. \A x \in found : x \in docs /\ x.cluster = d.target.cluster /\ x.index = d.target.index
    BY <1>2 DEF wrap_query, OnTarget
  <2> QED BY <2>1, <2>2, <2>3
<1>4. task = [e \in Clients |-> task[e]] /\ TaskRec(task[c])
  BY DEF RequestsInv, TasksOK
<1>5. Stay /\ task' = [task EXCEPT ![c].pc = "expanding", ![c].todo = found]
  BY <1>2 DEF run_match_search
<1>6. Only(c) /\ u = [task[c] EXCEPT !.pc = "expanding", !.todo = found]
  BY <1>2, <1>4, <1>5 DEF Only
<1>7. /\ TaskRec(u) /\ u.pc = "expanding" /\ u.r = r /\ u.d = d /\ u.slots = <<>> /\ u.todo = found
  BY <1>1, <1>4, <1>6 DEF TaskRec
<1>8. ProgressOK(u)
  BY <1>1, <1>3, <1>7 DEF ProgressOK, Busy
<1>9. TaskOK(u)
  BY <1>7, <1>8 DEF TaskOK, Busy
<1> QED BY <1>2, <1>5, <1>6, <1>7, <1>9, MoveKeeps

LEMMA EnqueueDeletesKeeps ==
  ASSUME RequestsInv, NEW c \in Clients, enqueue_deletes(c)
  PROVE  RequestsInv'
<1> DEFINE r == task[c].r
           d == task[c].d
<1>1. /\ RequestOK(r) /\ DecOK(d, PartitionOf(r)) /\ ~unfit(r, d) /\ r.endpoint # "PitDelete" /\ ~is_pinned(r)
      /\ ~is_passthrough(r) /\ PartitionOf(r) \in Partitions /\ task[c].slots = <<>> /\ task[c].pc = "expanding"
  BY ResolvedFacts DEF enqueue_deletes
<1>2. UNCHANGED <<conf, table, docs, cursors, issued>>
  BY DEF enqueue_deletes
<1>3. ASSUME Answer(c, Status(200)), UNCHANGED queue
      PROVE  RequestsInv'
  <2>1. Respond(c, 200)
    BY <1>2, <1>3 DEF Respond, Stay
  <2> QED BY <1>1, <2>1, RespondKeeps
<1>4. ASSUME NEW x \in task[c].todo, task' = [task EXCEPT ![c].todo = @ \ {x}],
             queue' = queue \/ queue' = <<delete_op(d, x.id)>>
      PROVE  RequestsInv'
  <2>1. \A y \in task[c].todo : /\ DocOK(y) /\ y.owner = PartitionOf(r)
                                /\ y.cluster = d.target.cluster /\ y.index = d.target.index
    BY <1>1 DEF RequestsInv, TasksOK, TaskOK, ProgressOK, Busy
  <2>2. task = [e \in Clients |-> task[e]] /\ TaskRec(task[c])
    BY DEF RequestsInv, TasksOK
  <2>3. PICK u, left : u = task'[c] /\ left = task[c].todo \ {x}
    OBVIOUS
  <2>4. Only(c) /\ u = [task[c] EXCEPT !.todo = left]
    BY <1>4, <2>2, <2>3 DEF Only
  <2>5. /\ TaskRec(u) /\ u.pc = "expanding" /\ u.r = r /\ u.d = d /\ u.slots = <<>> /\ u.todo = left
    BY <1>1, <2>2, <2>4 DEF TaskRec
  <2>6. ProgressOK(u)
    BY <1>1, <2>1, <2>3, <2>5 DEF ProgressOK, Busy
  <2>7. TaskOK(u)
    BY <2>5, <2>6 DEF TaskOK, Busy
  <2>8. Evolves /\ CursorsOK' /\ TableOK' /\ DocsOK'
    BY <1>2, StayEvolves, DocsStay DEF RequestsInv
  <2>9. TaskOK(u)'
    BY <2>7, <2>8, TaskStays
  <2>10. TasksOK'
    BY <2>3, <2>4, <2>5, <2>8, <2>9, TasksKept DEF RequestsInv
  <2>11. QueueOK'
    <3>1. CASE queue' = queue
      BY <1>2, <3>1, DocsStay DEF RequestsInv
    <3>2. CASE queue' = <<delete_op(d, x.id)>>
      <4>1. PICK op : op = delete_op(d, x.id)
        OBVIOUS
      <4>2. OpOK(op)
        BY <1>1, <2>1, <4>1, DeleteOpOK DEF RequestsInv
      <4>3. OpOK(op)' /\ queue' = <<op>> /\ Head(<<op>>) = op
        BY <1>2, <3>2, <4>1, <4>2, OpStays
      <4> QED BY <4>3 DEF QueueOK
    <3> QED BY <1>4, <3>1, <3>2
  <2> QED BY <1>2, <2>8, <2>10, <2>11 DEF RequestsInv
<1> QED BY <1>3, <1>4 DEF enqueue_deletes

-----------------------------------------------------------------------------
(* Moves of placements. *)

LEMMA MovesKeep ==
  ASSUME RequestsInv, NEW p \in Partitions, Cutover(p) \/ Flip(p)
  PROVE  RequestsInv'
<1>1. UNCHANGED <<conf, docs, cursors, queue, issued, task>>
  BY DEF Cutover, Flip
<1>2. Evolves /\ CursorsOK' /\ DocsOK' /\ QueueOK'
  BY <1>1, StayEvolves, DocsStay DEF RequestsInv
<1>3. TasksOK'
  <2>1. ASSUME NEW c \in Clients
        PROVE  TaskRec(task[c])' /\ TaskOK(task[c])'
    <3>1. PICK t : t = task[c]
      OBVIOUS
    <3>2. TaskRec(t) /\ TaskOK(t)
      BY <3>1 DEF RequestsInv, TasksOK
    <3>3. TaskOK(t)' /\ task'[c] = t
      BY <1>1, <1>2, <3>1, <3>2, TaskStays
    <3> QED BY <3>2, <3>3
  <2> QED BY <1>1, <2>1 DEF RequestsInv, TasksOK
<1>4. table = [q \in Partitions |-> table[q]] /\ \A q \in Partitions : HomeRec(table[q]) /\ table[q].placement \in conf.homes[q]
  BY DEF RequestsInv, TableOK
<1>5. /\ table' = [q \in Partitions |-> table'[q]] /\ \A q \in Partitions \ {p} : table'[q] = table[q]
      /\ HomeRec(table'[p]) /\ table'[p].placement \in conf.homes[p]
  <2>1. CASE Cutover(p)
    <3>1. PICK n, v : table' = [table EXCEPT ![p].open = v, ![p].epoch = n]
      BY <2>1 DEF Cutover
    <3>2. table'[p] = [table[p] EXCEPT !.open = v, !.epoch = n]
      BY <1>4, <3>1
    <3>3. HomeRec(table'[p]) /\ table'[p].placement = table[p].placement
      BY <1>4, <3>2 DEF HomeRec
    <3> QED BY <1>4, <3>1, <3>3
  <2>2. CASE Flip(p)
    <3>1. PICK to, n, v : /\ to \in conf.homes[p]
                          /\ table' = [table EXCEPT ![p] = [placement |-> to, epoch |-> n, open |-> v]]
      BY <2>2 DEF Flip
    <3>2. table'[p] = [placement |-> to, epoch |-> n, open |-> v]
      BY <1>4, <3>1
    <3> QED BY <1>4, <3>1, <3>2 DEF HomeRec
  <2> QED BY <2>1, <2>2
<1>6. TableOK'
  BY <1>1, <1>4, <1>5 DEF TableOK, HomeRec
<1> QED BY <1>1, <1>2, <1>3, <1>6 DEF RequestsInv

-----------------------------------------------------------------------------
(* Contexts of cursors. *)

LEMMA ContextStays ==
  ASSUME conf' = conf, NEW x, NEW y, ContextOK(x), y.kind = x.kind, y.held = x.held, y.under = x.under, y.by = x.by
  PROVE  ContextOK(y)'
  BY DEF ContextOK, DocOK, Built

\* On a cluster: its contexts.
OnCluster(S, cluster) == {x \in S : x.cluster = cluster}

LEMMA ClosedFacts ==
  ASSUME NEW x, CursorRec(x)
  PROVE  LET y == closed(x) IN
         /\ CursorRec(y) /\ y.cluster = x.cluster /\ y.id = x.id /\ y.kind = x.kind /\ y.held = x.held
         /\ y.under = x.under /\ y.by = x.by /\ y.lost = x.lost /\ ~y.live
<1>1. PICK y, v : v = FALSE /\ y = [x EXCEPT !.live = v]
  OBVIOUS
<1>2. /\ CursorRec(y) /\ y.cluster = x.cluster /\ y.id = x.id /\ y.kind = x.kind /\ y.held = x.held
      /\ y.under = x.under /\ y.by = x.by /\ y.lost = x.lost /\ y.live = v
  BY <1>1 DEF CursorRec
<1>3. closed(x) = y
  BY <1>1 DEF closed
<1> QED BY <1>1, <1>2, <1>3

Closes(shut, f, old) ==
  f = [x \in cursors |-> IF x \in shut THEN closed(x) ELSE x] /\ old = {f[x] : x \in cursors}

\* Contexts that are closed in place stay where they are, and as many.
InPlace(shut, f, old) ==
  /\ \A x \in cursors : /\ CursorRec(f[x]) /\ SameContext(x, f[x]) /\ f[x].kind = x.kind
                        /\ f[x].held = x.held /\ f[x].under = x.under /\ f[x].by = x.by
                        /\ f[x].lost = x.lost /\ (f[x].live => x.live) /\ (x \in shut => ~f[x].live)
  /\ \A x, y \in cursors : SameContext(x, f[y]) => x = y
  /\ IsFiniteSet(old)
  /\ \A cluster : /\ IsFiniteSet(OnCluster(cursors, cluster)) /\ IsFiniteSet(OnCluster(old, cluster))
                  /\ Cardinality(OnCluster(cursors, cluster)) <= Cardinality(OnCluster(old, cluster))

LEMMA ClosedInPlace ==
  ASSUME CursorsOK, NEW shut, NEW f, NEW old, Closes(shut, f, old)
  PROVE  InPlace(shut, f, old)
<1>0. f = [x \in cursors |-> IF x \in shut THEN closed(x) ELSE x] /\ old = {f[x] : x \in cursors}
  BY DEF Closes
<1>1. ASSUME NEW x \in cursors
      PROVE  /\ CursorRec(f[x]) /\ SameContext(x, f[x]) /\ f[x].kind = x.kind
             /\ f[x].held = x.held /\ f[x].under = x.under /\ f[x].by = x.by
             /\ f[x].lost = x.lost /\ (f[x].live => x.live) /\ (x \in shut => ~f[x].live)
  <2>1. CursorRec(x)
    BY DEF CursorsOK
  <2>2. CASE x \notin shut
    <3>1. f[x] = x
      BY <1>0, <2>2
    <3> QED BY <2>1, <2>2, <3>1 DEF SameContext
  <2>3. CASE x \in shut
    <3>1. f[x] = closed(x)
      BY <1>0, <2>3
    <3> QED BY <2>1, <3>1, ClosedFacts DEF SameContext
  <2> QED BY <2>2, <2>3
<1>2. \A x, y \in cursors : SameContext(x, y) => x = y
  BY DEF CursorsOK, SameContext
<1>3. ASSUME NEW x \in cursors, NEW y \in cursors, SameContext(x, f[y])
      PROVE  x = y
  BY <1>1, <1>2, <1>3 DEF SameContext
<1>4. IsFiniteSet(old)
  <2>1. f \in Surjection(cursors, old)
    BY <1>0 DEF Surjection
  <2> QED BY <2>1, FS_Surjection DEF CursorsOK
<1>5. ASSUME NEW cluster
      PROVE  /\ IsFiniteSet(OnCluster(cursors, cluster)) /\ IsFiniteSet(OnCluster(old, cluster))
             /\ Cardinality(OnCluster(cursors, cluster)) <= Cardinality(OnCluster(old, cluster))
  <2> DEFINE S == OnCluster(cursors, cluster)
             T == OnCluster(old, cluster)
             g == [y \in T |-> CHOOSE x \in S : SameContext(x, y)]
  <2>1. ASSUME NEW y \in T
        PROVE  g[y] \in S /\ SameContext(g[y], y)
    <3>1. PICK x \in cursors : y = f[x]
      BY <1>0 DEF OnCluster
    <3>2. x \in S /\ SameContext(x, y)
      BY <1>1, <3>1 DEF OnCluster, SameContext
    <3> QED BY <3>2
  <2>2. ASSUME NEW x \in S
        PROVE  \E y \in T : g[y] = x
    <3>1. x \in cursors /\ f[x] \in T
      BY <1>0, <1>1 DEF OnCluster, SameContext
    <3>2. g[f[x]] \in S /\ SameContext(g[f[x]], f[x])
      BY <2>1, <3>1
    <3>3. g[f[x]] = x
      BY <1>3, <3>1, <3>2 DEF OnCluster
    <3> QED BY <3>1, <3>3
  <2>3. g \in [T -> S]
    BY <2>1
  <2> HIDE DEF g
  <2>4. g \in Surjection(T, S)
    BY <2>2, <2>3 DEF Surjection
  <2>5. T \in SUBSET old /\ S \in SUBSET cursors
    BY DEF OnCluster
  <2>6. IsFiniteSet(T) /\ IsFiniteSet(S)
    BY <1>4, <2>5, FS_Subset DEF CursorsOK
  <2> QED BY <2>4, <2>6, FS_Surjection
<1> QED BY <1>1, <1>3, <1>4, <1>5 DEF InPlace

\* Contexts are closed in place and at most one is opened, under the next id of its
\* cluster; its client is given the token unless the answer was lost.
LEMMA ContextsKeep ==
  ASSUME CursorsOK, conf' = conf, NEW shut, NEW opened, NEW new, opened \in {{}, {new}},
         cursors' = Contexts(shut, opened),
         opened # {} => /\ CursorRec(new) /\ ContextOK(new) /\ new.id = NextId(new.cluster)
                        /\ conf.signer => new.lost \/ wrap(new.cluster, new.id) \in issued',
         issued \subseteq issued', \A tok \in issued' \ issued : opened # {} /\ Named(tok, new)
  PROVE  /\ Evolves /\ CursorsOK'
         /\ \A x \in shut \cap cursors : \A y \in cursors' : SameContext(x, y) => ~y.live
<1>1. PICK f : f = [x \in cursors |-> IF x \in shut THEN closed(x) ELSE x]
  OBVIOUS
<1>2. PICK old : old = {f[x] : x \in cursors}
  OBVIOUS
<1>3. cursors' = old \cup opened
  <2>1. {IF x \in shut THEN closed(x) ELSE x : x \in cursors} = old
    BY <1>1, <1>2
  <2> QED BY <2>1 DEF Contexts
<1>0. InPlace(shut, f, old)
  BY <1>1, <1>2, ClosedInPlace DEF Closes
<1>4. \A x \in cursors : /\ CursorRec(f[x]) /\ SameContext(x, f[x]) /\ f[x].kind = x.kind
                         /\ f[x].held = x.held /\ f[x].under = x.under /\ f[x].by = x.by
                         /\ f[x].lost = x.lost /\ (f[x].live => x.live) /\ (x \in shut => ~f[x].live)
  BY <1>0 DEF InPlace
<1>5. \A x, y \in cursors : SameContext(x, f[y]) => x = y
  BY <1>0 DEF InPlace
<1>6. /\ IsFiniteSet(old)
      /\ \A cluster : /\ IsFiniteSet(OnCluster(cursors, cluster)) /\ IsFiniteSet(OnCluster(old, cluster))
                      /\ Cardinality(OnCluster(cursors, cluster)) <= Cardinality(OnCluster(old, cluster))
  BY <1>0 DEF InPlace
<1>7. \A x \in cursors : x.id \in Nat \ {0} /\ x.id <= Cardinality(OnCluster(cursors, x.cluster))
  BY DEF CursorsOK, Counted, OnCluster
<1>8. \A cluster : Cardinality(OnCluster(cursors, cluster)) \in Nat /\ Cardinality(OnCluster(old, cluster)) \in Nat
  BY <1>6, FS_CardinalityType
<1>9. opened # {} => new.id = 1 + Cardinality(OnCluster(cursors, new.cluster))
  BY DEF NextId, OnCluster
<1>10. ASSUME opened # {}, NEW x \in cursors, SameContext(x, new)
       PROVE  FALSE
  <2>1. PICK n : n = Cardinality(OnCluster(cursors, new.cluster))
    OBVIOUS
  <2>2. x.id \in Nat /\ x.id <= n /\ n \in Nat /\ x.id = 1 + n
    BY <1>7, <1>8, <1>9, <1>10, <2>1 DEF SameContext
  <2> QED BY <2>2
<1>11. ASSUME NEW y \in old
       PROVE  \E x \in cursors : y = f[x] /\ SameContext(x, y)
  BY <1>2, <1>4
<1>12. ASSUME opened # {}, NEW y \in old, SameContext(y, new)
       PROVE  FALSE
  BY <1>10, <1>11, <1>12 DEF SameContext
<1>13. ASSUME NEW x \in cursors, NEW y \in cursors', SameContext(x, y)
       PROVE  y = f[x]
  <2>1. y \in old
    BY <1>3, <1>10, <1>13
  <2> QED BY <1>2, <1>5, <1>13, <2>1
<1>14. \A y \in cursors' : y.id \in Nat \ {0}
  BY <1>3, <1>7, <1>8, <1>9, <1>11 DEF SameContext
<1>15. Evolves
  <2>1. \A x \in cursors : \E y \in cursors' : SameContext(x, y) /\ y.under = x.under /\ y.by = x.by
    BY <1>2, <1>3, <1>4
  <2>2. \A x \in cursors, y \in cursors' : SameContext(x, y) => (y.live => x.live) /\ y.kind = x.kind
    BY <1>4, <1>13
  <2> QED BY <1>14, <2>1, <2>2 DEF Evolves
<1>16. IsFiniteSet(cursors')
  <2>1. CASE opened = {}
    BY <1>3, <1>6, <2>1
  <2>2. CASE opened = {new}
    BY <1>3, <1>6, <2>2, FS_AddElement
  <2> QED BY <2>1, <2>2
<1>17. \A x, y \in cursors' : SameContext(x, y) => x = y
  <2>1. ASSUME NEW x \in old, NEW y \in old, SameContext(x, y)
        PROVE  x = y
    <3>1. PICK a \in cursors, b \in cursors : x = f[a] /\ SameContext(a, x) /\ y = f[b] /\ SameContext(b, y)
      BY <1>11
    <3>2. a = b
      BY <1>5, <2>1, <3>1 DEF SameContext
    <3> QED BY <3>1, <3>2
  <2>2. \A x, y : SameContext(x, y) => SameContext(y, x)
    BY DEF SameContext
  <2> QED BY <1>3, <1>12, <2>1, <2>2
<1>18. ASSUME NEW x \in cursors'
       PROVE  x.id <= Cardinality(OnCluster(cursors', x.cluster))
  <2>1. PICK k, m, n : /\ k = Cardinality(OnCluster(cursors, x.cluster))
                       /\ m = Cardinality(OnCluster(old, x.cluster))
                       /\ n = Cardinality(OnCluster(cursors', x.cluster))
    OBVIOUS
  <2>2. OnCluster(cursors', x.cluster) \in SUBSET cursors' /\ OnCluster(old, x.cluster) \in SUBSET OnCluster(cursors', x.cluster)
    BY <1>3 DEF OnCluster
  <2>3. IsFiniteSet(OnCluster(cursors', x.cluster))
    BY <1>16, <2>2, FS_Subset
  <2>4. k \in Nat /\ m \in Nat /\ n \in Nat /\ k <= m /\ m <= n
    BY <1>6, <1>8, <2>1, <2>2, <2>3, FS_CardinalityType, FS_Subset
  <2>5. CASE x \in old
    <3>1. PICK y \in cursors : SameContext(y, x)
      BY <1>11, <2>5
    <3>2. y.id <= k /\ y.id = x.id /\ y.id \in Nat
      BY <1>7, <2>1, <3>1 DEF SameContext
    <3> QED BY <2>1, <2>4, <3>2
  <2>6. CASE opened # {} /\ x = new
    <3>1. new \notin OnCluster(old, x.cluster)
      BY <1>12, <2>6 DEF OnCluster, SameContext
    <3>2. OnCluster(cursors', x.cluster) = OnCluster(old, x.cluster) \cup {new}
      BY <1>3, <2>6 DEF OnCluster
    <3>3. n = m + 1
      BY <1>6, <2>1, <3>1, <3>2, FS_AddElement
    <3>4. x.id = 1 + k
      BY <1>9, <2>1, <2>6
    <3> QED BY <2>1, <2>4, <3>3, <3>4
  <2> QED BY <1>3, <2>5, <2>6
<1>19. \A x \in cursors' : Counted(x)'
  BY <1>14, <1>18 DEF Counted, OnCluster
<1>20. ASSUME NEW x \in cursors'
       PROVE  /\ CursorRec(x) /\ ContextOK(x)'
              /\ conf.signer => x.lost \/ wrap(x.cluster, x.id) \in issued'
  <2>1. CASE x \in old
    <3>1. PICK y \in cursors : x = f[y] /\ SameContext(y, x)
      BY <1>11, <2>1
    <3>2. ContextOK(y) /\ (conf.signer => y.lost \/ wrap(y.cluster, y.id) \in issued)
      BY DEF CursorsOK
    <3>3. x.kind = y.kind /\ x.held = y.held /\ x.under = y.under /\ x.by = y.by /\ x.lost = y.lost /\ CursorRec(x)
      BY <1>4, <3>1
    <3>4. ContextOK(x)'
      BY <3>2, <3>3, ContextStays
    <3> QED BY <3>1, <3>2, <3>3, <3>4 DEF SameContext
  <2>2. CASE opened # {} /\ x = new
    BY <2>2, ContextStays
  <2> QED BY <1>3, <2>1, <2>2
<1>21. ASSUME NEW tok \in issued'
       PROVE  \E x \in cursors' : Named(tok, x)
  <2>1. CASE tok \in issued
    BY <1>15, <2>1, NamedSame DEF Evolves, CursorsOK
  <2>2. CASE tok \notin issued
    BY <1>3, <2>2
  <2> QED BY <2>1, <2>2
<1>22. CursorsOK'
  BY <1>16, <1>17, <1>19, <1>20, <1>21 DEF CursorsOK, Named, CursorRec, SameContext
<1>23. \A x \in shut \cap cursors : \A y \in cursors' : SameContext(x, y) => ~y.live
  BY <1>4, <1>13
<1> QED BY <1>15, <1>22, <1>23

\* A token that is presented names a context, or none.
LEMMA TokenFacts ==
  ASSUME CursorsOK, NEW tok, Presented(tok), NEW r
  PROVE  /\ \A x \in Context(tok, r) : Named(tok, x) /\ x \in cursors /\ x.kind = cursor_kind(r)
         /\ \A x \in cursors : Named(tok, x) /\ x.kind = cursor_kind(r) => x \in Context(tok, r) \/ ~x.live
         /\ tok = StaleToken \/ \E x \in cursors : Named(tok, x)
         /\ \A x, y \in Context(tok, r) : x = y
<1>1. \A x \in cursors : x.id # 0
  BY DEF CursorsOK, Counted
<1>2. CASE tok = StaleToken
  <2>1. tok.id = 0
    BY <1>2 DEF StaleToken
  <2>2. Context(tok, r) = {}
    BY <1>1, <2>1 DEF Context
  <2>3. \A x \in cursors : ~Named(tok, x)
    BY <1>1, <1>2, WrapsApart DEF Named
  <2> QED BY <1>2, <2>2, <2>3
<1>3. CASE tok # StaleToken
  <2>1. PICK y \in cursors : Named(tok, y)
    BY <1>3 DEF Presented, CursorsOK
  <2>2. tok.cluster = y.cluster /\ tok.id = y.id
    BY <2>1 DEF Named, wrap
  <2>3. \A x \in cursors : SameContext(x, y) => x = y
    BY DEF CursorsOK, SameContext
  <2>4. \A x \in Context(tok, r) : x = y /\ x.kind = cursor_kind(r)
    BY <2>2, <2>3 DEF Context, cursor_cluster, SameContext
  <2>5. \A x \in cursors : Named(tok, x) => x = y
    BY <2>1, <2>3, NamesOne DEF SameContext
  <2>6. y.kind = cursor_kind(r) => y \in Context(tok, r) \/ ~y.live
    BY <2>2 DEF Context, cursor_cluster
  <2> QED BY <2>1, <2>4, <2>5, <2>6
<1> QED BY <1>2, <1>3

\* A cursor that is answered as missing is.
LEMMA MissingFit ==
  ASSUME CursorsOK, NEW tok, Presented(tok), NEW r, NEW d, Context(tok, r) = {}
  PROVE  RespRec(Missing(tok)) /\ AnswerFit(r, d, Missing(tok))
<1>1. Settled(tok, cursor_kind(r))
  BY TokenFacts DEF Settled
<1>2. PICK u : u = Missing(tok)
  OBVIOUS
<1>3. RespRec(u) /\ u.status = 404 /\ u.hits = {} /\ u.aggs = {} /\ u.slots = <<>> /\ u.missing = tok
  BY <1>2, MissingFacts
<1>4. SlotsOK(r, <<>>)
  BY DEF SlotsOK
<1>5. AnswerFit(r, d, u)
  BY <1>1, <1>3, <1>4 DEF AnswerFit
<1> QED BY <1>2, <1>3, <1>5

\* Once the context of a token is closed, the token is settled.
LEMMA ClosedSettled ==
  ASSUME CursorsOK, Evolves, NEW shut, NEW tok, Presented(tok), NEW r, NEW kind, cursor_kind(r) = kind,
         Context(tok, r) \subseteq shut,
         \A x \in shut \cap cursors : \A y \in cursors' : SameContext(x, y) => ~y.live
  PROVE  Settled(tok, kind)'
<1>1. tok = StaleToken \/ \E x \in cursors : Named(tok, x)
  BY TokenFacts
<1>2. tok = StaleToken \/ \E y \in cursors' : Named(tok, y)
  BY <1>1, NamedSame DEF Evolves
<1>3. ASSUME NEW y \in cursors', Named(tok, y), y.kind = kind
      PROVE  ~y.live
  <2>1. tok # StaleToken
    BY <1>3, WrapsApart DEF Named, Evolves
  <2>2. PICK x \in cursors : Named(tok, x)
    BY <1>1, <2>1
  <2>3. SameContext(x, y) /\ x.kind = kind
    BY <1>3, <2>2, NamesOne DEF Evolves
  <2>4. x \in Context(tok, r) \/ ~x.live
    BY <2>2, <2>3, TokenFacts
  <2> QED BY <2>3, <2>4 DEF Evolves
<1> QED BY <1>2, <1>3 DEF Settled, Named

LEMMA PinnedFacts ==
  ASSUME RequestsInv, NEW c \in Clients, task[c].pc = "pinned"
  PROVE  /\ RequestOK(task[c].r) /\ is_pinned(task[c].r) /\ task[c].slots = <<>> /\ ~is_passthrough(task[c].r)
         /\ merged(task[c]) = 200 => \A tok \in task[c].todo : Settled(tok, "pit")
  BY DEF RequestsInv, TasksOK, TaskOK, ProgressOK, Busy

\* A request that opens or closes contexts and answers.
LEMMA OpenedKeeps ==
  ASSUME RequestsInv, NEW c \in Clients, NEW resp, RespRec(resp), Answer(c, resp),
         AnswerFit(task[c].r, task[c].d, resp), UNCHANGED <<conf, table, docs, queue>>, Evolves, CursorsOK'
  PROVE  RequestsInv'
<1>1. TasksOK'
  BY AnswerKeeps DEF RequestsInv
<1>2. TableOK' /\ DocsOK' /\ QueueOK'
  BY DocsStay DEF RequestsInv
<1> QED BY <1>1, <1>2 DEF RequestsInv

\* Contexts are closed and none is opened.
LEMMA OnlyCloses ==
  ASSUME CursorsOK, conf' = conf, issued' = issued, NEW shut, cursors' = Contexts(shut, {})
  PROVE  /\ Evolves /\ CursorsOK'
         /\ \A x \in shut \cap cursors : \A y \in cursors' : SameContext(x, y) => ~y.live
<1>1. PICK opened : opened = {}
  OBVIOUS
<1>2. cursors' = Contexts(shut, opened)
  BY <1>1
<1> QED BY <1>1, <1>2, ContextsKeep

\* A context goes on under another id, with or without the client being told.
LEMMA RenewedKeeps ==
  ASSUME CursorsOK, conf' = conf, NEW tok, Presented(tok), NEW r, NEW lost \in BOOLEAN,
         cursors' = Contexts(Context(tok, r), Renewed(Context(tok, r), lost)),
         issued' = issued \cup (IF lost THEN {} ELSE wrap_ids(Renewed(Context(tok, r), lost)))
  PROVE  Evolves /\ CursorsOK'
<1>1. PICK open, fresh : open = Context(tok, r) /\ fresh = Renewed(open, lost)
  OBVIOUS
<1>2. CASE open = {}
  <2>1. fresh = {} /\ wrap_ids(fresh) = {}
    BY <1>1, <1>2 DEF Renewed, wrap_ids
  <2>2. issued' = issued /\ cursors' = Contexts(open, {})
    BY <1>1, <2>1
  <2> QED BY <2>2, OnlyCloses
<1>3. CASE open # {}
  <2>1. PICK x \in open : TRUE
    BY <1>3
  <2>2. x \in cursors /\ open = {x}
    BY <1>1, <2>1, TokenFacts
  <2>3. PICK n, y : n = NextId(x.cluster) /\ y = [x EXCEPT !.id = n, !.lost = lost]
    OBVIOUS
  <2>4. fresh = {y}
    BY <1>1, <2>2, <2>3 DEF Renewed
  <2>5. CursorRec(x) /\ ContextOK(x)
    BY <2>2 DEF CursorsOK
  <2>6. /\ CursorRec(y) /\ y.cluster = x.cluster /\ y.id = n /\ y.kind = x.kind /\ y.held = x.held
        /\ y.under = x.under /\ y.by = x.by /\ y.lost = lost
    BY <2>3, <2>5 DEF CursorRec
  <2>7. ContextOK(y)
    BY <2>5, <2>6 DEF ContextOK
  <2>8. y.id = NextId(y.cluster)
    BY <2>3, <2>6
  <2>9. \A k \in issued' \ issued : Named(k, y)
    BY <1>1, <2>4 DEF wrap_ids, Named
  <2>10. conf.signer => y.lost \/ wrap(y.cluster, y.id) \in issued'
    BY <1>1, <2>4, <2>6 DEF wrap_ids
  <2>11. issued \subseteq issued'
    OBVIOUS
  <2>12. cursors' = Contexts(open, fresh) /\ fresh # {}
    BY <1>1, <2>4
  <2> QED BY <2>4, <2>6, <2>7, <2>8, <2>9, <2>10, <2>11, <2>12, ContextsKeep
<1> QED BY <1>2, <1>3

LEMMA ContinuedKeeps ==
  ASSUME CursorsOK, NEW tok, Presented(tok), NEW r, Continued(Context(tok, r))
  PROVE  Evolves /\ CursorsOK' /\ UNCHANGED <<conf, table, docs, queue>>
<1>1. PICK open : open = Context(tok, r)
  OBVIOUS
<1>2. PICK fresh \in {{}, Renewed(open, FALSE)} :
        /\ cursors' = Contexts(IF fresh = {} THEN {} ELSE open, fresh)
        /\ issued' = issued \cup wrap_ids(fresh)
  BY <1>1 DEF Continued, Become
<1>3. UNCHANGED <<conf, table, docs, queue>>
  BY DEF Continued
<1>4. CASE fresh = {}
  <2>1. issued' = issued /\ cursors' = Contexts({}, {})
    BY <1>2, <1>4 DEF wrap_ids
  <2> QED BY <1>3, <2>1, OnlyCloses
<1>5. CASE fresh # {}
  <2>1. /\ cursors' = Contexts(open, Renewed(open, FALSE))
        /\ issued' = issued \cup wrap_ids(Renewed(open, FALSE))
    BY <1>2, <1>5
  <2> QED BY <1>1, <1>3, <2>1, RenewedKeeps
<1> QED BY <1>4, <1>5

LEMMA ScrollKeeps ==
  ASSUME RequestsInv, NEW c \in Clients, scroll(c)
  PROVE  RequestsInv'
<1> DEFINE r == task[c].r
           d == task[c].d
           tok == r.tokens[1]
           open == Context(tok, r)
<1>1. Presented(tok) /\ r.endpoint = "Scroll" /\ 1 \in DOMAIN r.tokens /\ cursor_kind(r) = "scroll"
  BY PinnedFacts DEF scroll, RequestOK, cursor_kind
<1>2. CursorsOK
  BY DEF RequestsInv
<1>3. Evolves /\ CursorsOK' /\ UNCHANGED <<conf, table, docs, queue>>
  BY <1>1, <1>2, ContinuedKeeps DEF scroll
<1>4. CASE open = {}
  <2>1. Answer(c, Missing(tok))
    BY <1>4 DEF scroll
  <2>2. RespRec(Missing(tok)) /\ AnswerFit(r, d, Missing(tok))
    BY <1>1, <1>2, <1>4, MissingFit
  <2> QED BY <1>3, <2>1, <2>2, OpenedKeeps
<1>5. CASE open # {}
  <2>1. PICK hits : hits = {[hit |-> raw_hit(x), doc |-> x] : x \in UNION {y.held : y \in open}}
    OBVIOUS
  <2>2. Answer(c, Showing(200, hits, {}))
    BY <1>5, <2>1 DEF scroll
  <2>3. \A y \in open : Named(tok, y) /\ y \in cursors /\ y.kind = "scroll"
    BY <1>1, <1>2, TokenFacts
  <2>4. \A y \in open : Bears(r, y) /\ ContextOK(y)
    BY <1>1, <1>2, <2>3 DEF Bears, CursorsOK
  <2>5. \A y \in open : \A x \in y.held : MayShow(r, x.owner)
    BY <2>3, <2>4 DEF ContextOK, MayShow
  <2>6. \A h \in hits : MayShow(r, h.doc.owner)
    BY <2>1, <2>5
  <2>7. RespRec(Showing(200, hits, {})) /\ AnswerFit(r, d, Showing(200, hits, {}))
    BY <1>1, <2>6, OwnFit
  <2> QED BY <1>3, <2>2, <2>7, OpenedKeeps
<1> QED BY <1>4, <1>5

LEMMA ScrollClearKeeps ==
  ASSUME RequestsInv, NEW c \in Clients, scroll_clear(c)
  PROVE  RequestsInv'
<1> DEFINE r == task[c].r
           d == task[c].d
           tok == r.tokens[1]
           open == Context(tok, r)
<1>1. Presented(tok) /\ r.endpoint = "ScrollClear"
  BY PinnedFacts DEF scroll_clear, RequestOK
<1>2. CursorsOK /\ UNCHANGED <<conf, table, docs, queue, issued>>
  BY DEF RequestsInv, scroll_clear
<1>3. Evolves /\ CursorsOK'
  BY <1>2, OnlyCloses DEF scroll_clear, Become
<1>4. CASE open = {}
  <2>1. Answer(c, Missing(tok))
    BY <1>4 DEF scroll_clear
  <2>2. RespRec(Missing(tok)) /\ AnswerFit(r, d, Missing(tok))
    BY <1>1, <1>2, <1>4, MissingFit
  <2> QED BY <1>2, <1>3, <2>1, <2>2, OpenedKeeps
<1>5. CASE open # {}
  <2>1. Answer(c, Status(200))
    BY <1>5 DEF scroll_clear
  <2>2. RespRec(Status(200)) /\ AnswerFit(r, d, Status(200))
    BY <1>1, StatusFit
  <2> QED BY <1>2, <1>3, <2>1, <2>2, OpenedKeeps
<1> QED BY <1>4, <1>5

\* The filter of a placement of the same kind finds the documents of the partition that
\* asks, or of the one that opened the point in time.
LEMMA PitOwned ==
  ASSUME conf \in Deployments, NEW d, NEW p, DecOK(d, p), NEW y, ContextOK(y), y.kind = "pit",
         y.under.inject = d.transform.inject, NEW x \in wrap_query(d, y.held)
  PROVE  x.owner = p \/ x.owner = y.by
<1>1. PICK a \in conf.homes[y.by] :
        /\ y.by \in Partitions /\ y.under = build_transform(a, conf.rule)
        /\ \A z \in y.held : DocOK(z) /\ Lies(z.cluster, z.index, a)
  BY DEF ContextOK
<1>2. y.under.inject = (a.kind = "SharedIndex")
  BY <1>1 DEF build_transform
<1>3. x \in y.held /\ (filter_terms(d) # None => x.field = filter_terms(d))
  BY DEF wrap_query
<1>4. DocOK(x) /\ Lies(x.cluster, x.index, a)
  BY <1>1, <1>3
<1>5. CASE a.kind # "SharedIndex"
  BY <1>1, <1>4, <1>5, UnfilteredOwned
<1>6. CASE a.kind = "SharedIndex"
  <2>1. d.transform.inject /\ d.partition = p /\ p \in Partitions
    BY <1>2, <1>6 DEF DecOK
  <2>2. filter_terms(d) = p
    BY <2>1 DEF filter_terms
  <2>3. x.field = p
    BY <1>3, <2>1, <2>2, TenancyAssumption
  <2>4. PICK b \in conf.homes[x.owner] :
          x.owner \in Partitions /\ Lies(x.cluster, x.index, b) /\ (b.kind = "SharedIndex" => x.field = x.owner)
    BY <1>4 DEF DocOK
  <2>5. x.owner # y.by => b.kind = "SharedIndex"
    BY <1>1, <1>4, <2>4, HomesApart
  <2> QED BY <2>3, <2>4, <2>5
<1> QED BY <1>5, <1>6

LEMMA PitSearchKeeps ==
  ASSUME RequestsInv, NEW c \in Clients, pit_search(c)
  PROVE  RequestsInv'
<1> DEFINE r == task[c].r
           d == task[c].d
           tok == r.tokens[1]
           open == Context(tok, r)
           found == wrap_query(d, UNION {y.held : y \in open})
<1>1. /\ r.endpoint = "PitSearch" /\ RequestOK(r) /\ DecOK(d, PartitionOf(r))
  BY ResolvedFacts DEF pit_search
<1>2. Presented(tok) /\ 1 \in DOMAIN r.tokens /\ cursor_kind(r) = "pit"
  BY <1>1 DEF RequestOK, cursor_kind
<1>3. CursorsOK /\ conf \in Deployments
  BY DEF RequestsInv
<1>4. Evolves /\ CursorsOK' /\ UNCHANGED <<conf, table, docs, queue>>
  BY <1>2, <1>3, ContinuedKeeps DEF pit_search
<1>5. CASE open = {}
  <2>1. Answer(c, Missing(tok))
    BY <1>5 DEF pit_search
  <2>2. RespRec(Missing(tok)) /\ AnswerFit(r, d, Missing(tok))
    BY <1>2, <1>3, <1>5, MissingFit
  <2> QED BY <1>4, <2>1, <2>2, OpenedKeeps
<1>6. CASE open # {}
  <2>1. PICK hits : hits = Shown(d, r.index, found)
    OBVIOUS
  <2>2. Answer(c, Showing(200, hits, {}))
    BY <1>6, <2>1 DEF pit_search
  <2>3. \A y \in open : Named(tok, y) /\ y \in cursors /\ y.kind = "pit"
    BY <1>2, <1>3, TokenFacts
  <2>4. \A y \in open : Bears(r, y) /\ ContextOK(y)
    BY <1>2, <1>3, <2>3 DEF Bears, CursorsOK
  <2>5. ASSUME NEW x \in found
        PROVE  DocOK(x) /\ (MayShow(r, x.owner) \/ ReshapedBy(r, d, 200))
    <3>1. PICK y \in open : x \in y.held
      BY DEF wrap_query
    <3>2. x \in wrap_query(d, y.held)
      BY <3>1 DEF wrap_query
    <3>3. DocOK(x)
      BY <2>3, <2>4, <3>1 DEF ContextOK
    <3>4. y.under.inject = d.transform.inject => x.owner = PartitionOf(r) \/ x.owner = y.by
      BY <1>1, <1>3, <2>3, <2>4, <3>2, PitOwned
    <3>5. x.owner = PartitionOf(r) \/ x.owner = y.by => MayShow(r, x.owner)
      BY <2>3, <2>4 DEF MayShow
    <3>6. y.under.inject # d.transform.inject => ReshapedBy(r, d, 200)
      BY <1>1, <2>3, <2>4 DEF ReshapedBy
    <3> QED BY <3>3, <3>4, <3>5, <3>6
  <2>6. \A h \in hits : h.doc \in found /\ h = [hit |-> shape_hit(d, r.index, h.doc), doc |-> h.doc]
    BY <2>1 DEF Shown
  <2> HIDE DEF found
  <2>7. \A h \in hits : ShownWell(d, r.index, h)
    BY <1>1, <1>3, <2>5, <2>6, ShapedWell
  <2>8. \A h \in hits : MayShow(r, h.doc.owner) \/ ReshapedBy(r, d, 200)
    BY <2>5, <2>6
  <2>9. RespRec(Showing(200, hits, {})) /\ AnswerFit(r, d, Showing(200, hits, {}))
    BY <1>1, <2>7, <2>8, OwnFit
  <2> QED BY <1>4, <2>2, <2>9, OpenedKeeps
<1> QED BY <1>5, <1>6

LEMMA NewContextFacts ==
  ASSUME NEW d, NEW kind, NEW held, NEW lost
  PROVE  LET x == NewContext(d, kind, held, lost) IN
         /\ CursorRec(x) /\ x.id = NextId(x.cluster) /\ x.kind = kind /\ x.held = held /\ x.under = d.transform
         /\ x.by = d.partition /\ x.lost = lost
<1>1. PICK n, m : n = NextId(m) /\ m = d.target.cluster
  OBVIOUS
<1>2. PICK t, p : t = d.transform /\ p = d.partition
  OBVIOUS
<1>3. PICK v : v = TRUE
  OBVIOUS
<1>4. PICK x : x = [cluster |-> m, id |-> n, kind |-> kind, held |-> held, live |-> v, under |-> t, by |-> p,
                    lost |-> lost]
  OBVIOUS
<1>5. NewContext(d, kind, held, lost) = x
  BY <1>1, <1>2, <1>3, <1>4 DEF NewContext
<1>6. /\ CursorRec(x) /\ x.cluster = m /\ x.id = n /\ x.kind = kind /\ x.held = held /\ x.under = t
      /\ x.by = p /\ x.lost = lost
  BY <1>4 DEF CursorRec
<1> QED BY <1>1, <1>2, <1>5, <1>6

\* The contexts that a request of a partition opens.
LEMMA OpensOwn ==
  ASSUME conf \in Deployments, \A x \in docs : DocOK(x), NEW d, NEW p, DecOK(d, p), NEW lost
  PROVE  /\ ContextOK(NewContext(d, "scroll", wrap_query(d, OnTarget(d)), lost))
         /\ ContextOK(NewContext(d, "pit", OnTarget(d), lost))
<1>1. PICK a \in conf.homes[p] : Lies(d.target.cluster, d.target.index, a) /\ d.transform = build_transform(a, conf.rule)
  BY DEF DecOK
<1>2. d.partition = p /\ p \in Partitions
  BY DEF DecOK
<1>3. \A y \in OnTarget(d) : DocOK(y) /\ Lies(y.cluster, y.index, a)
  BY <1>1 DEF OnTarget
<1>4. \A y \in wrap_query(d, OnTarget(d)) : y.owner = p
  BY QueriedOwned
<1>5. PICK x : x = NewContext(d, "scroll", wrap_query(d, OnTarget(d)), lost)
  OBVIOUS
<1>6. x.kind = "scroll" /\ x.held = wrap_query(d, OnTarget(d)) /\ x.by = p
  BY <1>2, <1>5, NewContextFacts
<1>7. ContextOK(x)
  BY <1>2, <1>4, <1>6 DEF ContextOK
<1>8. PICK y : y = NewContext(d, "pit", OnTarget(d), lost)
  OBVIOUS
<1>9. y.kind = "pit" /\ y.held = OnTarget(d) /\ y.by = p /\ y.under = d.transform
  BY <1>2, <1>8, NewContextFacts
<1>10. ContextOK(y)
  BY <1>1, <1>2, <1>3, <1>9 DEF ContextOK
<1> QED BY <1>5, <1>7, <1>8, <1>10

\* One context is opened, and the client told unless the answer is lost.
LEMMA OpenKeeps ==
  ASSUME CursorsOK, conf' = conf, NEW d, NEW kind, NEW held, NEW lost \in BOOLEAN, NEW x,
         x = NewContext(d, kind, held, lost), ContextOK(x), cursors' = Contexts({}, {x}),
         issued' = issued \cup (IF lost THEN {} ELSE wrap_ids({x}))
  PROVE  Evolves /\ CursorsOK'
<1>1. CursorRec(x) /\ x.id = NextId(x.cluster) /\ x.lost = lost
  BY NewContextFacts
<1>2. \A tok \in issued' \ issued : Named(tok, x)
  BY DEF wrap_ids, Named
<1>3. conf.signer => x.lost \/ wrap(x.cluster, x.id) \in issued'
  BY <1>1 DEF wrap_ids
<1>4. issued \subseteq issued' /\ {x} # {}
  OBVIOUS
<1>5. PICK shut, opened : shut = {} /\ opened = {x}
  OBVIOUS
<1>6. cursors' = Contexts(shut, opened)
  BY <1>5
<1> QED BY <1>1, <1>2, <1>3, <1>4, <1>5, <1>6, ContextsKeep

LEMMA SearchKeeps ==
  ASSUME RequestsInv, NEW c \in Clients, search(c) \/ run_search_stream(c)
  PROVE  RequestsInv'
<1> DEFINE r == task[c].r
           d == task[c].d
           found == wrap_query(d, OnTarget(d))
           resp == Showing(200, Shown(d, r.index, found), aggregated(d, r.query))
<1>1. PICK streamed \in BOOLEAN : Searched(c, streamed) /\ (streamed => wants_search_stream(r))
  BY DEF search, run_search_stream
<1>2. /\ RequestOK(r) /\ DecOK(d, PartitionOf(r)) /\ ~unfit(r, d) /\ r.endpoint = "Search"
  BY <1>1, ResolvedFacts DEF Searched
<1>3. conf \in Deployments /\ (\A x \in docs : DocOK(x)) /\ CursorsOK
  BY DEF RequestsInv, DocsOK
<1>4. \A x \in found : x.owner = PartitionOf(r)
  BY <1>2, <1>3, QueriedOwned
<1>5. \A x \in aggregated(d, r.query) : x.owner = PartitionOf(r)
  <2>1. ~reject_unfilterable(d, r.query) /\ r.query \in Queries
    BY <1>2 DEF unfit, RequestOK
  <2> QED BY <1>2, <1>3, <2>1, AggregatedOwned
<1>6. \A h \in Shown(d, r.index, found) : MayShow(r, h.doc.owner)
  BY <1>4 DEF Shown, MayShow
<1>7. \A h \in Shown(d, r.index, found) : ShownWell(d, r.index, h)
  <2>1. \A x \in found : DocOK(x)
    BY <1>3 DEF wrap_query, OnTarget
  <2> QED BY <1>2, <1>3, <2>1, ShapedWell DEF Shown
<1>8. RespRec(resp) /\ AnswerFit(r, d, resp)
  <2>1. PICK hits, aggs : hits = Shown(d, r.index, found) /\ aggs = aggregated(d, r.query)
    OBVIOUS
  <2>2. /\ \A h \in hits : MayShow(r, h.doc.owner)
        /\ \A y \in aggs : y.owner = PartitionOf(r)
        /\ r.endpoint # "PitDelete" /\ \A h \in hits : ShownWell(d, r.index, h)
    BY <1>2, <1>5, <1>6, <1>7, <2>1
  <2>3. RespRec(Showing(200, hits, aggs)) /\ AnswerFit(r, d, Showing(200, hits, aggs))
    BY <2>2, OwnFit
  <2> QED BY <2>1, <2>3
<1>9. Answer(c, resp) /\ UNCHANGED <<conf, table, docs, queue>>
  BY <1>1 DEF Searched
<1>10. Evolves /\ CursorsOK'
  <2>1. CASE r.scroll
    <3>1. streamed = FALSE
      BY <1>1, <2>1 DEF wants_search_stream
    <3>2. PICK x : x = NewContext(d, "scroll", found, FALSE)
      OBVIOUS
    <3>3. cursors' = Contexts({}, {x}) /\ issued' = issued \cup wrap_ids({x})
      BY <1>1, <2>1, <3>1, <3>2 DEF Searched, Become
    <3>4. ContextOK(x)
      BY <1>2, <1>3, <3>2, OpensOwn
    <3> QED BY <1>3, <1>9, <3>2, <3>3, <3>4, OpenKeeps
  <2>2. CASE ~r.scroll
    <3>1. cursors' = Contexts({}, {}) /\ issued' = issued
      BY <1>1, <2>2 DEF Searched, wrap_ids, Become
    <3> QED BY <1>3, <1>9, <3>1, OnlyCloses
  <2> QED BY <2>1, <2>2
<1> QED BY <1>8, <1>9, <1>10, OpenedKeeps

LEMMA PitCreateKeeps ==
  ASSUME RequestsInv, NEW c \in Clients, pit_create(c)
  PROVE  RequestsInv'
<1> DEFINE r == task[c].r
           d == task[c].d
<1>1. /\ RequestOK(r) /\ DecOK(d, PartitionOf(r)) /\ r.endpoint # "PitDelete"
  BY ResolvedFacts DEF pit_create
<1>2. conf \in Deployments /\ (\A x \in docs : DocOK(x)) /\ CursorsOK
  BY DEF RequestsInv, DocsOK
<1>3. PICK x : x = NewContext(d, "pit", OnTarget(d), FALSE)
  OBVIOUS
<1>4. /\ cursors' = Contexts({}, {x}) /\ issued' = issued \cup wrap_ids({x})
      /\ Answer(c, Status(200)) /\ UNCHANGED <<conf, table, docs, queue>>
  BY <1>3 DEF pit_create, Become
<1>5. ContextOK(x)
  BY <1>1, <1>2, <1>3, OpensOwn
<1>6. Evolves /\ CursorsOK'
  BY <1>2, <1>3, <1>4, <1>5, OpenKeeps
<1>7. RespRec(Status(200)) /\ AnswerFit(r, d, Status(200))
  BY <1>1, StatusFit
<1> QED BY <1>4, <1>6, <1>7, OpenedKeeps

\* A call whose answer never comes.
LEMMA ReadFailsKeeps ==
  ASSUME RequestsInv, NEW c \in Clients, ReadFails(c)
  PROVE  RequestsInv'
<1> DEFINE r == task[c].r
           d == task[c].d
<1>1. UNCHANGED <<conf, table, docs, queue, issued>> /\ Answer(c, Status(status_for("UpstreamFailed")))
  BY DEF ReadFails
<1>2. conf \in Deployments /\ (\A x \in docs : DocOK(x)) /\ CursorsOK
  BY DEF RequestsInv, DocsOK
<1>3. RequestOK(r) /\ (~is_pinned(r) => DecOK(d, PartitionOf(r)))
  <2>1. CASE task[c].pc = "resolved"
    BY <2>1, ResolvedFacts
  <2>2. CASE task[c].pc = "pinned"
    BY <2>2, PinnedFacts
  <2> QED BY <2>1, <2>2 DEF ReadFails
<1>4. \/ \E shut : cursors' = Contexts(shut, {})
      \/ r.endpoint = "Search" /\ cursors' = Contexts({}, {NewContext(d, "scroll", wrap_query(d, OnTarget(d)), TRUE)})
      \/ r.endpoint = "PitCreate" /\ cursors' = Contexts({}, {NewContext(d, "pit", OnTarget(d), TRUE)})
      \/ /\ r.endpoint \in {"Scroll", "PitSearch"}
         /\ cursors' = Contexts(Context(r.tokens[1], r), Renewed(Context(r.tokens[1], r), TRUE))
  BY DEF ReadFails, Unheard, Become
<1>5. Evolves /\ CursorsOK'
  <2>1. CASE \E shut : cursors' = Contexts(shut, {})
    BY <1>1, <1>2, <2>1, OnlyCloses
  <2>2. ASSUME NEW x, ~is_pinned(r), cursors' = Contexts({}, {x}),
               \/ x = NewContext(d, "scroll", wrap_query(d, OnTarget(d)), TRUE)
               \/ x = NewContext(d, "pit", OnTarget(d), TRUE)
        PROVE  Evolves /\ CursorsOK'
    <3>1. ContextOK(x) /\ issued' = issued \cup {}
      BY <1>1, <1>2, <1>3, <2>2, OpensOwn
    <3> QED BY <1>1, <1>2, <2>2, <3>1, OpenKeeps
  <2>3. CASE /\ r.endpoint = "Search"
             /\ cursors' = Contexts({}, {NewContext(d, "scroll", wrap_query(d, OnTarget(d)), TRUE)})
    BY <2>2, <2>3 DEF is_pinned
  <2>4. CASE r.endpoint = "PitCreate" /\ cursors' = Contexts({}, {NewContext(d, "pit", OnTarget(d), TRUE)})
    BY <2>2, <2>4 DEF is_pinned
  <2>5. CASE /\ r.endpoint \in {"Scroll", "PitSearch"}
             /\ cursors' = Contexts(Context(r.tokens[1], r), Renewed(Context(r.tokens[1], r), TRUE))
    <3>1. PICK tok : tok = r.tokens[1]
      OBVIOUS
    <3>2. Presented(tok)
      BY <1>3, <2>5, <3>1 DEF RequestOK
    <3>3. cursors' = Contexts(Context(tok, r), Renewed(Context(tok, r), TRUE)) /\ issued' = issued \cup {}
      BY <1>1, <2>5, <3>1
    <3> QED BY <1>1, <1>2, <3>2, <3>3, RenewedKeeps
  <2> QED BY <1>4, <2>1, <2>3, <2>4, <2>5
<1>6. PICK status : status = status_for("UpstreamFailed") /\ status # 200
  BY DEF status_for
<1>7. RespRec(Status(status)) /\ AnswerFit(r, d, Status(status))
  BY <1>6, StatusFit
<1> QED BY <1>1, <1>5, <1>6, <1>7, OpenedKeeps

LEMMA PitDeleteKeeps ==
  ASSUME RequestsInv, NEW c \in Clients, pit_delete(c)
  PROVE  RequestsInv'
<1> DEFINE r == task[c].r
           d == task[c].d
<1>1. /\ r.endpoint = "PitDelete" /\ RequestOK(r) /\ is_pinned(r) /\ task[c].slots = <<>> /\ ~is_passthrough(r)
      /\ merged(task[c]) = 200 => \A tok \in task[c].todo : Settled(tok, "pit")
      /\ task[c].pc = "pinned"
  BY PinnedFacts DEF pit_delete
<1>2. UNCHANGED <<conf, table, docs, queue, issued>> /\ CursorsOK
  BY DEF pit_delete, RequestsInv
<1>3. (\A k \in DOMAIN r.tokens : Presented(r.tokens[k])) /\ cursor_kind(r) = "pit"
  BY <1>1 DEF RequestOK, cursor_kind
<1>4. ASSUME Left(c) = {}, Answer(c, Status(merged(task[c]))), cursors' = cursors
      PROVE  RequestsInv'
  <2>1. PICK status : status = merged(task[c])
    OBVIOUS
  <2>2. status = 200 => \A k \in DOMAIN r.tokens : Settled(r.tokens[k], "pit")
    BY <1>1, <1>4, <2>1 DEF Left
  <2>3. PICK u : u = Status(status)
    OBVIOUS
  <2>4. RespRec(u) /\ u.status = status /\ u.hits = {} /\ u.aggs = {} /\ u.slots = <<>> /\ u.missing = None
    BY <2>3, StatusFacts
  <2>5. SlotsOK(r, <<>>)
    BY DEF SlotsOK
  <2>6. AnswerFit(r, d, u)
    BY <2>2, <2>4, <2>5 DEF AnswerFit
  <2>7. Stay /\ Answer(c, u)
    BY <1>2, <1>4, <2>1, <2>3 DEF Stay
  <2> QED BY <2>4, <2>6, <2>7, AnswerStays
<1>5. ASSUME NEW group, group # {}, group \subseteq Left(c), NEW status \in {200, 404},
             pit_delete_group(c, group, status)
      PROVE  RequestsInv'
  <2>1. ASSUME NEW tok \in group
        PROVE  Presented(tok)
    BY <1>3, <1>5 DEF Left
  <2>2. PICK shut : shut = ContextsOf(c, group)
    OBVIOUS
  <2>3. \E gone : (status = 200 => gone = shut) /\ cursors' = Contexts(gone, {})
    <3>1. CASE status = 200
      BY <1>5, <2>2, <3>1 DEF pit_delete_group, Become
    <3>2. CASE status = 404
      BY <1>5, <3>2 DEF pit_delete_group, Become
    <3> QED BY <3>1, <3>2
  <2>4. PICK gone : (status = 200 => gone = shut) /\ cursors' = Contexts(gone, {})
    BY <2>3
  <2>5. Evolves /\ CursorsOK' /\ \A x \in gone \cap cursors : \A y \in cursors' : SameContext(x, y) => ~y.live
    BY <1>2, <2>4, OnlyCloses
  <2>6. ASSUME status = 200, NEW tok \in group
        PROVE  Settled(tok, "pit")'
    <3>1. Context(tok, r) \subseteq gone
      BY <2>2, <2>4, <2>6 DEF ContextsOf
    <3>2. Presented(tok) /\ cursor_kind(r) = "pit" /\ CursorsOK /\ Evolves
      BY <1>2, <1>3, <2>1, <2>5
    <3>3. PICK q : q = r
      OBVIOUS
    <3>4. PICK kind : kind = "pit"
      OBVIOUS
    <3>5. Context(tok, q) \subseteq gone /\ cursor_kind(q) = kind
      BY ONLY <3>1, <3>2, <3>3, <3>4
    <3>6. \A x \in gone \cap cursors : \A y \in cursors' : SameContext(x, y) => ~y.live
      BY <2>5
    <3>7. Settled(tok, kind)'
      BY ONLY <3>2, <3>5, <3>6, ClosedSettled
    <3> QED BY <3>4, <3>7
  <2>7. task = [e \in Clients |-> task[e]] /\ TaskRec(task[c])
    BY DEF RequestsInv, TasksOK
  <2>8. PICK u : u = task'[c]
    OBVIOUS
  <2>9. PICK left : left = task[c].todo \cup group
    OBVIOUS
  <2>10. PICK code : code = merge_status(merged(task[c]), status)
    OBVIOUS
  <2>11. PICK resp : resp = Status(code)
    OBVIOUS
  <2>12. RespRec(resp) /\ resp.status = code
    BY <2>11, StatusFacts
  <2>13. task' = [task EXCEPT ![c].todo = left, ![c].resp = resp]
    BY <1>5, <2>9, <2>10, <2>11 DEF pit_delete_group
  <2>14. Only(c) /\ u = [task[c] EXCEPT !.todo = left, !.resp = resp]
    BY <2>7, <2>8, <2>13 DEF Only
  <2>15. /\ TaskRec(u) /\ u.pc = "pinned" /\ u.r = r /\ u.slots = <<>> /\ u.todo = left /\ u.resp = resp
    <3>1. PICK q : q = task[c]
      OBVIOUS
    <3>2. q = [pc |-> q.pc, r |-> q.r, d |-> q.d, slots |-> q.slots, todo |-> q.todo, resp |-> q.resp]
      BY <2>7, <3>1 DEF TaskRec
    <3>3. u = [q EXCEPT !.todo = left, !.resp = resp]
      BY <2>14, <3>1
    <3>4. u = [pc |-> q.pc, r |-> q.r, d |-> q.d, slots |-> q.slots, todo |-> left, resp |-> resp]
      BY <3>2, <3>3
    <3>5. u.pc = q.pc /\ u.r = q.r /\ u.d = q.d /\ u.slots = q.slots /\ u.todo = left /\ u.resp = resp
      BY <3>4
    <3>6. u = [pc |-> u.pc, r |-> u.r, d |-> u.d, slots |-> u.slots, todo |-> u.todo, resp |-> u.resp]
      BY <3>4, <3>5
    <3>7. TaskRec(u)
      BY <2>7, <2>12, <3>1, <3>5, <3>6 DEF TaskRec
    <3> QED BY <1>1, <3>1, <3>5, <3>7
  <2>16. left # {}
    BY <1>5, <2>9
  <2>17. merged(u) = code
    BY <2>12, <2>15, <2>16 DEF merged
  <2>18. code = 200 => status = 200 /\ merged(task[c]) = 200
    BY <2>10 DEF merge_status
  <2>19. ASSUME merged(u) = 200, NEW tok \in u.todo
         PROVE  Settled(tok, "pit")'
    <3>1. CASE tok \in group
      BY <2>6, <2>17, <2>18, <2>19, <3>1
    <3>2. CASE tok \in task[c].todo
      BY <1>1, <2>5, <2>17, <2>18, <2>19, <3>2, SettledStays
    <3> QED BY <2>9, <2>15, <3>1, <3>2
  <2>20. RequestOK(u.r) /\ ~is_passthrough(u.r) /\ is_pinned(u.r)
    BY <1>1, <2>15
  <2>21. RequestOK(u.r)' /\ ~is_passthrough(u.r)'
    BY <1>2, <2>5, <2>20, RequestStays DEF is_passthrough
  <2>22. ProgressOK(u)'
    BY <2>15, <2>19, <2>20, <2>21 DEF ProgressOK, Busy, is_pinned, merged
  <2>23. TaskOK(u)'
    BY <2>15, <2>22 DEF TaskOK, Busy
  <2>24. TasksOK'
    BY <2>5, <2>8, <2>14, <2>15, <2>23, TasksKept DEF RequestsInv
  <2>25. TableOK' /\ DocsOK' /\ QueueOK'
    BY <1>2, DocsStay DEF RequestsInv
  <2> QED BY <1>2, <2>5, <2>24, <2>25 DEF RequestsInv
<1>6. CASE Left(c) = {}
  BY <1>4, <1>6 DEF pit_delete
<1>7. CASE Left(c) # {}
  <2>1. PICK t \in Left(c), status \in {200, 404} : pit_delete_group(c, Grouped(c, t.cluster), status)
    BY <1>7 DEF pit_delete
  <2>2. PICK group : group = Grouped(c, t.cluster)
    OBVIOUS
  <2>3. group # {} /\ group \subseteq Left(c) /\ pit_delete_group(c, group, status)
    BY <2>1, <2>2 DEF Grouped
  <2> QED BY <1>5, <2>3
<1> QED BY <1>6, <1>7

-----------------------------------------------------------------------------
(* Multi requests. *)

LEMMA MultiFacts ==
  ASSUME RequestsInv, NEW c \in Clients, task[c].pc = "multi"
  PROVE  /\ RequestOK(task[c].r) /\ ~is_passthrough(task[c].r) /\ is_multi(task[c].r)
         /\ PartitionOf(task[c].r) \in Partitions /\ PartitionOf(task[c].r) = task[c].r.header
         /\ SlotsOK(task[c].r, task[c].slots) /\ task[c].todo = {}
         /\ task[c].r.items \in Seq(ItemsOf(task[c].r))
<1>1. /\ RequestOK(task[c].r) /\ ~is_passthrough(task[c].r) /\ is_multi(task[c].r)
      /\ PartitionOf(task[c].r) \in Partitions /\ SlotsOK(task[c].r, task[c].slots) /\ task[c].todo = {}
  BY DEF RequestsInv, TasksOK, TaskOK, ProgressOK, Busy
<1> QED BY <1>1 DEF RequestOK, PartitionOf, resolve_partition

\* A request whose slots change.
LEMMA SlotsMove ==
  ASSUME RequestsInv, NEW c \in Clients, task[c].pc = "multi", Stay, NEW S, NEW slots \in Seq(S),
         \A k \in DOMAIN slots : SlotRec(slots[k]), SlotsOK(task[c].r, slots),
         task' = [task EXCEPT ![c].slots = slots]
  PROVE  RequestsInv'
<1>1. task = [e \in Clients |-> task[e]] /\ TaskRec(task[c])
  BY DEF RequestsInv, TasksOK
<1>2. PICK u : u = task'[c]
  OBVIOUS
<1>3. Only(c) /\ u = [task[c] EXCEPT !.slots = slots]
  BY <1>1, <1>2 DEF Only
<1>4. /\ u = [pc |-> u.pc, r |-> u.r, d |-> u.d, slots |-> u.slots, todo |-> u.todo, resp |-> u.resp]
      /\ u.pc = "multi" /\ u.r = task[c].r /\ u.slots = slots /\ u.todo = task[c].todo /\ u.resp = task[c].resp
  BY <1>1, <1>3 DEF TaskRec
<1>5. TaskRec(u)
  BY <1>1, <1>4 DEF TaskRec
<1>6. ProgressOK(u)
  BY <1>4, MultiFacts DEF ProgressOK, is_multi, Busy
<1>7. TaskOK(u)
  BY <1>4, <1>6 DEF TaskOK, Busy
<1> QED BY <1>2, <1>3, <1>5, <1>7, MoveKeeps

LEMMA PrepareKeeps ==
  ASSUME RequestsInv, NEW c \in Clients, prepare(c)
  PROVE  RequestsInv'
<1> DEFINE t == task[c]
           k == Len(t.slots) + 1
           item == t.r.items[k]
           p == t.r.header
           hit == cached(t, item.index)
           d == IF hit # {} THEN t.slots[CHOOSE j \in hit : TRUE].d
                ELSE decision(p, table[p], conf.rule, item.index)
           slot == [d |-> d, state |-> IF item_fits(t.r, item, d) THEN "ready" ELSE "error",
                    hits |-> {}, aggs |-> {}, of |-> item]
           known == hit # {} \/ scoped_enough(table[p].placement, conf.rule)
<1>1. t.pc = "multi" /\ k <= Len(t.r.items) /\ Stay
  BY DEF prepare
<1>2. PICK new : /\ task' = [task EXCEPT ![c].slots = Append(@, new)]
                 /\ (known /\ new = slot) \/ new = [slot EXCEPT !.d = NoDecision, !.state = "error"]
  BY DEF prepare
<1>3. PICK S : t.slots \in Seq(S)
  BY DEF RequestsInv, TasksOK, TaskRec
<1>4. \A j \in DOMAIN t.slots : SlotRec(t.slots[j])
  BY DEF RequestsInv, TasksOK, TaskRec
<1>5. /\ SlotsOK(t.r, t.slots) /\ p \in Partitions /\ PartitionOf(t.r) = p
  BY <1>1, MultiFacts
<1>6. \A j \in DOMAIN t.slots : j \in hit <=> t.slots[j].of.index = item.index /\ t.slots[j].d # NoDecision
  BY DEF cached
<1>7. hit \subseteq DOMAIN t.slots
  BY DEF cached
<1>8. known => DecOK(d, p)
  <2>1. CASE hit # {}
    <3>1. PICK j \in hit : d = t.slots[j].d
      BY <2>1
    <3>2. DecOK(t.slots[j].d, p)
      BY <1>5, <1>6, <1>7 DEF SlotsOK, SlotOK
    <3> QED BY <3>1, <3>2
  <2>2. CASE hit = {}
    BY <1>5, <2>2, DecisionOK DEF RequestsInv
  <2> QED BY <2>1, <2>2
<1>9. \A j \in hit : t.slots[j].d = d
  <2> SUFFICES ASSUME NEW j \in hit
               PROVE  t.slots[j].d = d
    OBVIOUS
  <2>1. PICK i \in hit : d = t.slots[i].d
    OBVIOUS
  <2>2. /\ i \in DOMAIN t.slots /\ j \in DOMAIN t.slots /\ t.slots[i].d # NoDecision /\ t.slots[j].d # NoDecision
        /\ t.slots[i].of.index = t.slots[j].of.index
    BY <1>6, <1>7
  <2>3. t.slots[i].d = t.slots[j].d
    BY <1>5, <2>2 DEF SlotsOK
  <2> QED BY <2>1, <2>3
<1>10. PICK b, it, fits : b = d /\ it = item /\ fits = item_fits(t.r, it, b)
  OBVIOUS
<1>11. /\ SlotRec(new) /\ new.hits = {} /\ new.aggs = {} /\ new.of = it
       /\ \/ known /\ new.d = b /\ new.state \in {"ready", "error"} /\ (new.state = "ready" => item_fits(t.r, it, b))
          \/ new.d = NoDecision /\ new.state = "error"
  <2>1. PICK st : st = IF item_fits(t.r, it, b) THEN "ready" ELSE "error"
    OBVIOUS
  <2>2. st \in {"ready", "error"} /\ (st = "ready" => item_fits(t.r, it, b))
    BY <2>1
  <2>3. PICK old : old = [d |-> b, state |-> st, hits |-> {}, aggs |-> {}, of |-> it]
    OBVIOUS
  <2>4. slot = old
    BY <1>10, <2>1, <2>3
  <2> HIDE DEF slot, known, d, hit, item
  <2>5. CASE known /\ new = old
    BY <2>2, <2>3, <2>5 DEF SlotRec
  <2>6. CASE new = [old EXCEPT !.d = NoDecision, !.state = "error"]
    <3>1. PICK none : none = NoDecision
      OBVIOUS
    <3>2. new = [d |-> none, state |-> "error", hits |-> {}, aggs |-> {}, of |-> it]
      BY <2>3, <2>6, <3>1
    <3> QED BY <3>1, <3>2 DEF SlotRec
  <2> QED BY <1>2, <2>4, <2>5, <2>6
<1>12. DecOK(b, p) => b # NoDecision
  BY TenancyAssumption DEF DecOK, NoDecision
<1>13. PICK old, slots, n : old = t.slots /\ slots = Append(old, new) /\ n = Len(old)
  OBVIOUS
<1>14. task' = [task EXCEPT ![c].slots = slots]
  BY <1>2, <1>13
<1>15. /\ old \in Seq(S) /\ slots \in Seq(S \cup {new}) /\ n \in Nat /\ DOMAIN old = 1 .. n
       /\ DOMAIN slots = 1 .. (n + 1) /\ slots[n + 1] = new /\ \A j \in 1 .. n : slots[j] = old[j]
  BY <1>3, <1>13
<1>16. \A j \in DOMAIN slots : (j \in DOMAIN old /\ slots[j] = old[j]) \/ (j = n + 1 /\ slots[j] = new)
  <2> SUFFICES ASSUME NEW j \in DOMAIN slots
               PROVE  (j \in DOMAIN old /\ slots[j] = old[j]) \/ (j = n + 1 /\ slots[j] = new)
    OBVIOUS
  <2>1. j \in 1 .. n \/ j = n + 1
    BY <1>15
  <2>2. j \in 1 .. n => j \in DOMAIN old /\ slots[j] = old[j]
    BY <1>15
  <2>3. j = n + 1 => slots[j] = new
    BY <1>15
  <2> QED BY <2>1, <2>2, <2>3
<1>17. it = t.r.items[n + 1] /\ n + 1 <= Len(t.r.items)
  BY <1>1, <1>10, <1>13
<1>18. known => DecOK(b, p)
  BY <1>8, <1>10
<1>19. \A j \in DOMAIN old : old[j].of.index = it.index /\ old[j].d # NoDecision => old[j].d = b
  BY <1>6, <1>9, <1>10, <1>13
<1> HIDE DEF hit, d, slot, known, item
<1>20. SlotOK(t.r, new, n + 1)
  BY <1>5, <1>11, <1>12, <1>17, <1>18 DEF SlotOK
<1>21. SlotsOK(t.r, slots)
  <2>1. \A j \in DOMAIN slots : SlotOK(t.r, slots[j], j)
    BY <1>5, <1>13, <1>16, <1>20 DEF SlotsOK
  <2>2. ASSUME NEW i \in DOMAIN slots, NEW j \in DOMAIN slots, slots[i].d # NoDecision, slots[j].d # NoDecision,
               slots[i].of.index = slots[j].of.index
        PROVE  slots[i].d = slots[j].d
    <3>1. CASE i \in DOMAIN old /\ j \in DOMAIN old /\ slots[i] = old[i] /\ slots[j] = old[j]
      BY <1>5, <1>13, <2>2, <3>1 DEF SlotsOK
    <3>2. ASSUME NEW l \in DOMAIN old, old[l].d # NoDecision, new.d # NoDecision, old[l].of.index = new.of.index
          PROVE  old[l].d = new.d
      BY <1>11, <1>19, <3>2
    <3> QED BY <1>16, <2>2, <3>1, <3>2
  <2> QED BY <2>1, <2>2 DEF SlotsOK
<1>22. \A j \in DOMAIN slots : SlotRec(slots[j])
  BY <1>4, <1>11, <1>13, <1>16
<1> QED BY <1>1, <1>14, <1>15, <1>21, <1>22, SlotsMove

LEMMA FetchKeeps ==
  ASSUME RequestsInv, NEW c \in Clients, NEW k \in DOMAIN task[c].slots, fetch(c, k)
  PROVE  RequestsInv'
<1> DEFINE t == task[c]
<1>1. t.pc = "multi" /\ t.slots[k].state = "ready" /\ Stay
  BY DEF fetch
<1>2. PICK old, s : old = t.slots /\ s = old[k]
  OBVIOUS
<1>3. PICK S : old \in Seq(S)
  BY <1>2 DEF RequestsInv, TasksOK, TaskRec
<1>4. \A j \in DOMAIN old : SlotRec(old[j])
  BY <1>2 DEF RequestsInv, TasksOK, TaskRec
<1>5. SlotsOK(t.r, old) /\ is_multi(t.r) /\ t.r.items \in Seq(ItemsOf(t.r))
  BY <1>1, <1>2, MultiFacts
<1>6. /\ k \in DOMAIN old /\ SlotRec(s) /\ s.state = "ready" /\ SlotOK(t.r, s, k)
  BY <1>1, <1>2, <1>4, <1>5 DEF SlotsOK
<1>7. PICK found, aggs :
        /\ found = IF t.r.endpoint = "MultiGet"
                   THEN {[hit |-> shape_found(s.d, s.of.index, s.of.id, x), doc |-> x] : x \in Found(s.d, s.of.id)}
                   ELSE Shown(s.d, s.of.index, wrap_query(s.d, OnTarget(s.d)))
        /\ aggs = IF t.r.endpoint = "MultiGet" THEN {} ELSE aggregated(s.d, s.of.query)
  OBVIOUS
<1>8. /\ \A h \in found :
           /\ h.doc.owner = PartitionOf(t.r) \/ (t.r.endpoint = "MultiGet" /\ Collide(PartitionOf(t.r), h.doc.owner))
           /\ ShownWell(s.d, s.of.index, h)
      /\ \A x \in aggs : x.owner = PartitionOf(t.r)
  <2>1. DecOK(s.d, PartitionOf(t.r)) /\ item_fits(t.r, s.of, s.d)
    BY <1>6 DEF SlotOK
  <2>2. conf \in Deployments /\ \A x \in docs : DocOK(x)
    BY DEF RequestsInv, DocsOK
  <2>3. s.of \in ItemsOf(t.r)
    <3>1. PICK I : I = ItemsOf(t.r) /\ t.r.items \in Seq(I)
      BY <1>5
    <3>2. k \in 1 .. Len(t.r.items) /\ s.of = t.r.items[k]
      BY <1>3, <1>6, <3>1 DEF SlotOK
    <3>3. s.of \in I
      BY <3>1, <3>2
    <3> QED BY <3>1, <3>3
  <2>4. CASE t.r.endpoint = "MultiGet"
    <3>1. s.of.id \in Ids /\ mappable(s.d)
      BY <2>1, <2>3, <2>4 DEF ItemsOf, item_fits
    <3>2. \A x \in Found(s.d, s.of.id) : Meets(PartitionOf(t.r), x.owner)
      BY <2>1, <2>2, <3>1, FoundOwned
    <3>3. /\ found = {[hit |-> shape_found(s.d, s.of.index, s.of.id, x), doc |-> x] : x \in Found(s.d, s.of.id)}
          /\ aggs = {}
      BY <1>7, <2>4
    <3>4. \A h \in found : ShownWell(s.d, s.of.index, h)
      BY <3>3, FoundWell
    <3>5. \A h \in found : Meets(PartitionOf(t.r), h.doc.owner)
      BY <3>2, <3>3
    <3> QED BY <2>4, <3>3, <3>4, <3>5 DEF Meets
  <2>5. CASE t.r.endpoint # "MultiGet"
    <3>1. \A x \in wrap_query(s.d, OnTarget(s.d)) : x.owner = PartitionOf(t.r)
      BY <2>1, <2>2, QueriedOwned
    <3>2. \A x \in wrap_query(s.d, OnTarget(s.d)) : DocOK(x)
      BY <2>2 DEF wrap_query, OnTarget
    <3>3. found = Shown(s.d, s.of.index, wrap_query(s.d, OnTarget(s.d))) /\ aggs = aggregated(s.d, s.of.query)
      BY <1>7, <2>5
    <3>4. \A h \in found : ShownWell(s.d, s.of.index, h)
      BY <2>1, <2>2, <3>2, <3>3, ShapedWell DEF Shown
    <3>5. \A h \in found : h.doc.owner = PartitionOf(t.r)
      BY <3>1, <3>3 DEF Shown
    <3>6. s.of.query \in Queries /\ ~reject_unfilterable(s.d, s.of.query)
      BY <2>1, <2>3, <2>5 DEF ItemsOf, item_fits
    <3>7. \A x \in aggs : x.owner = PartitionOf(t.r)
      BY <2>1, <2>2, <3>3, <3>6, AggregatedOwned
    <3> QED BY <3>4, <3>5, <3>7
  <2> QED BY <2>4, <2>5
<1>9. \E new : /\ task' = [task EXCEPT ![c].slots = [old EXCEPT ![k] = new]] /\ SlotRec(new)
               /\ new.d = s.d /\ new.of = s.of
               /\ \/ new.state = "ok" /\ new.hits = found /\ new.aggs = aggs
                  \/ new.state = "error" /\ new.hits = s.hits /\ new.aggs = s.aggs
  <2>1. task = [e \in Clients |-> task[e]] /\ TaskRec(task[c])
    BY DEF RequestsInv, TasksOK
  <2>2. PICK new : new = [s EXCEPT !.state = "ok", !.hits = found, !.aggs = aggs]
    OBVIOUS
  <2>3. CASE task' = [task EXCEPT ![c].slots[k] = new]
    <3>1. SlotRec(new) /\ new.d = s.d /\ new.of = s.of /\ new.state = "ok" /\ new.hits = found /\ new.aggs = aggs
      BY <1>6, <2>2 DEF SlotRec
    <3>2. task' = [task EXCEPT ![c].slots = [old EXCEPT ![k] = new]]
      BY <1>2, <2>1, <2>3 DEF TaskRec
    <3> QED BY <3>1, <3>2
  <2>4. CASE task' = [task EXCEPT ![c].slots[k].state = "error"]
    <3>1. PICK bad : bad = [s EXCEPT !.state = "error"]
      OBVIOUS
    <3>2. SlotRec(bad) /\ bad.d = s.d /\ bad.of = s.of /\ bad.state = "error" /\ bad.hits = s.hits /\ bad.aggs = s.aggs
      BY <1>6, <3>1 DEF SlotRec
    <3>3. task' = [task EXCEPT ![c].slots = [old EXCEPT ![k] = bad]]
      BY <1>2, <2>1, <2>4, <3>1 DEF TaskRec
    <3> QED BY <3>2, <3>3
  <2>5. t.slots[k] = s
    BY <1>2
  <2>6. task' = [task EXCEPT ![c].slots[k] = new] \/ task' = [task EXCEPT ![c].slots[k].state = "error"]
    BY <1>7, <2>2, <2>5 DEF fetch
  <2> QED BY <2>3, <2>4, <2>6
<1>10. PICK new : /\ task' = [task EXCEPT ![c].slots = [old EXCEPT ![k] = new]] /\ SlotRec(new)
                  /\ new.d = s.d /\ new.of = s.of
                  /\ \/ new.state = "ok" /\ new.hits = found /\ new.aggs = aggs
                     \/ new.state = "error" /\ new.hits = s.hits /\ new.aggs = s.aggs
  BY <1>9
<1>11. PICK slots : slots = [old EXCEPT ![k] = new]
  OBVIOUS
<1>12. /\ slots \in Seq(S \cup {new}) /\ DOMAIN slots = DOMAIN old /\ slots[k] = new
       /\ \A j \in DOMAIN old : j # k => slots[j] = old[j]
  BY <1>3, <1>6, <1>11
<1>13. SlotOK(t.r, new, k)
  BY <1>6, <1>8, <1>10 DEF SlotOK
<1>14. SlotsOK(t.r, slots)
  <2>1. \A j \in DOMAIN slots : SlotOK(t.r, slots[j], j)
    BY <1>5, <1>12, <1>13 DEF SlotsOK
  <2>2. \A j \in DOMAIN slots : slots[j].d = old[j].d /\ slots[j].of = old[j].of
    BY <1>2, <1>6, <1>10, <1>12
  <2> QED BY <1>5, <1>12, <2>1, <2>2 DEF SlotsOK
<1>15. \A j \in DOMAIN slots : SlotRec(slots[j])
  BY <1>4, <1>10, <1>12
<1>16. task' = [task EXCEPT ![c].slots = slots]
  BY <1>10, <1>11
<1> QED BY <1>1, <1>12, <1>14, <1>15, <1>16, SlotsMove

LEMMA MultiRespondKeeps ==
  ASSUME RequestsInv, NEW c \in Clients, multi_respond(c)
  PROVE  RequestsInv'
<1> DEFINE t == task[c]
<1>1. t.pc = "multi" /\ Len(t.slots) = Len(t.r.items) /\ Stay /\ Answer(c, Slotted(t.slots))
  BY DEF multi_respond
<1>2. SlotsOK(t.r, t.slots) /\ is_multi(t.r)
  BY <1>1, MultiFacts
<1>3. PICK u : u = Slotted(t.slots)
  OBVIOUS
<1>4. RespRec(u) /\ u.status = 200 /\ u.hits = {} /\ u.aggs = {} /\ u.slots = t.slots /\ u.missing = None
  BY <1>3, SlottedFacts
<1>5. AnswerFit(t.r, t.d, u)
  BY <1>1, <1>2, <1>4 DEF AnswerFit, is_multi
<1> QED BY <1>1, <1>3, <1>4, <1>5, AnswerStays

-----------------------------------------------------------------------------
(* The invariant, and what it says. *)

LEMMA InitOK ==
  RequestsInit => RequestsInv
<1> SUFFICES ASSUME RequestsInit PROVE RequestsInv
  OBVIOUS
<1>1. conf \in Deployments /\ docs = {} /\ cursors = {} /\ queue = <<>> /\ issued = {}
  BY DEF RequestsInit
<1>2. TableOK
  <2>1. table \in [Partitions -> [placement : UNION {conf.homes[p] : p \in Partitions}, epoch : {1}, open : {TRUE}]]
    BY DEF RequestsInit
  <2>2. \A p \in Partitions : table[p].placement \in conf.homes[p]
    BY DEF RequestsInit
  <2>3. \A p \in Partitions : HomeRec(table[p])
    <3> SUFFICES ASSUME NEW p \in Partitions
                 PROVE  HomeRec(table[p])
      OBVIOUS
    <3>1. PICK A, B, C : table[p] \in [placement : A, epoch : B, open : C]
      BY <2>1
    <3> QED BY <3>1 DEF HomeRec
  <2> QED BY <2>1, <2>2, <2>3 DEF TableOK
<1>3. CursorsOK
  BY <1>1, FS_EmptySet DEF CursorsOK
<1>4. TasksOK
  <2>1. task = [c \in Clients |-> Idle]
    BY DEF RequestsInit
  <2> QED BY <2>1, IdleRec DEF TasksOK
<1> QED BY <1>1, <1>2, <1>3, <1>4 DEF RequestsInv, DocsOK, QueueOK

LEMMA ServeKeeps ==
  ASSUME RequestsInv, NEW c \in Clients, Serve(c)
  PROVE  RequestsInv'
<1>1. CASE forward(c) \/ forward_stream(c) \/ admin(c) \/ dispatch_other(c) \/ ResolveUnavailable(c)
  BY <1>1, PassedOnKeeps
<1>2. CASE Precheck(c) \/ Resolve(c)
  BY <1>2, PrecheckKeeps, ResolveKeeps
<1>3. CASE Enqueue(c) \/ gate_write(c) \/ Write(c) \/ WriteFails(c)
  BY <1>3, EnqueueKeeps, GateKeeps, WriteKeeps, WriteFailsKeeps
<1>4. CASE get_by_id(c) \/ count(c)
  BY <1>4, ReadKeeps
<1>5. CASE search(c) \/ run_search_stream(c)
  BY <1>5, SearchKeeps
<1>6. CASE run_match_search(c) \/ enqueue_deletes(c)
  BY <1>6, MatchKeeps, EnqueueDeletesKeeps
<1>7. CASE prepare(c) \/ (\E k \in DOMAIN task[c].slots : fetch(c, k)) \/ multi_respond(c)
  BY <1>7, PrepareKeeps, FetchKeeps, MultiRespondKeeps
<1>8. CASE scroll(c) \/ scroll_clear(c) \/ pit_create(c) \/ pit_search(c) \/ pit_delete(c) \/ ReadFails(c)
  BY <1>8, ScrollKeeps, ScrollClearKeeps, PitCreateKeeps, PitSearchKeeps, PitDeleteKeeps, ReadFailsKeeps
<1> QED BY <1>1, <1>2, <1>3, <1>4, <1>5, <1>6, <1>7, <1>8 DEF Serve

LEMMA NextKeeps ==
  ASSUME RequestsInv, [RequestsNext]_reqVars
  PROVE  RequestsInv'
<1>1. CASE UNCHANGED reqVars
  <2>1. UNCHANGED <<conf, table, docs, cursors, queue, issued, task>>
    BY <1>1 DEF reqVars
  <2>2. Evolves /\ CursorsOK' /\ TableOK' /\ DocsOK' /\ QueueOK'
    BY <2>1, StayEvolves, DocsStay DEF RequestsInv
  <2>3. ASSUME NEW c \in Clients
        PROVE  TaskRec(task[c])' /\ TaskOK(task[c])'
    <3>1. PICK t : t = task[c]
      OBVIOUS
    <3>2. TaskRec(t) /\ TaskOK(t)
      BY <3>1 DEF RequestsInv, TasksOK
    <3>3. TaskOK(t)' /\ task'[c] = t
      BY <2>1, <2>2, <3>1, <3>2, TaskStays
    <3> QED BY <3>2, <3>3
  <2> QED BY <2>1, <2>2, <2>3 DEF RequestsInv, TasksOK
<1>2. ASSUME NEW c \in Clients, NEW p \in Partitions \cup {None}, NEW r \in RequestsOf(p), NEW g \in Credentials,
             Arrive(c, r, g[1], g[2], g[3])
      PROVE  RequestsInv'
  BY <1>2, ArriveKeeps
<1>3. ASSUME NEW c \in Clients, Serve(c) \/ Finish(c)
      PROVE  RequestsInv'
  BY <1>3, ServeKeeps, FinishKeeps
<1>4. CASE Consume
  BY <1>4, ConsumeKeeps
<1>5. ASSUME NEW p \in Partitions, Cutover(p) \/ Flip(p)
      PROVE  RequestsInv'
  BY <1>5, MovesKeep
<1> QED BY <1>1, <1>2, <1>3, <1>4, <1>5 DEF RequestsNext

\* The invariant of requests: documents lie where their owners' homes are, operations and
\* decisions are about those homes, contexts hold what their partition may see, and an
\* answer fits its request (pipeline.rs, endpoints.rs, pit.rs, mget.rs, msearch.rs, dbq.rs).
THEOREM RequestsInvariant == RequestsSpec => []RequestsInv
<1>1. RequestsInit => RequestsInv
  BY InitOK
<1>2. RequestsInv /\ [RequestsNext]_reqVars => RequestsInv'
  BY NextKeeps
<1> QED BY <1>1, <1>2, PTL DEF RequestsSpec

LEMMA DoneFacts ==
  ASSUME RequestsInv, NEW c \in Clients, Done(c)
  PROVE  AnswerFit(task[c].r, task[c].d, task[c].resp)
  BY DEF RequestsInv, TasksOK, TaskOK, AnswerOK, Done

\* Whatever a response shows was written by the partition that asks, or by one that opened
\* a context whose token it presents; where two partitions have a built id in common, a get
\* may find the other's document.  However many partitions share an index and whenever
\* placements move (Isolation).
THEOREM RequestsIsolation == RequestsSpec => []Isolation
<1>1. RequestsInv => Isolation
  <2> SUFFICES ASSUME RequestsInv, NEW c \in Clients, Done(c), ~Reshaped(c), NEW x \in Revealed(c)
               PROVE  \/ x.owner \in Entitled(c)
                      \/ task[c].r.endpoint \in {"GetById", "MultiGet"} /\ Collide(Requester(c), x.owner)
    BY DEF Isolation
  <2> DEFINE r == task[c].r
             resp == task[c].resp
             all == resp.slots
  <2>1. AnswerFit(r, task[c].d, resp)
    BY DoneFacts
  <2>2. ~ReshapedBy(r, task[c].d, resp.status)
    BY DEF Reshaped, ReshapedBy, Tokened, Bears, Named
  <2>3. Requester(c) = PartitionOf(r) /\ Requester(c) \in Entitled(c)
    BY DEF Requester, PartitionOf, Entitled
  <2>4. \A y \in cursors : Bears(r, y) => y.by \in Entitled(c)
    BY DEF Entitled, Tokened, Bears, Named
  <2>5. ASSUME x \in {h.doc : h \in resp.hits} \cup resp.aggs
        PROVE  x.owner \in Entitled(c) \/ (r.endpoint = "GetById" /\ Collide(Requester(c), x.owner))
    <3>1. MayShow(r, x.owner)
      BY <2>1, <2>2, <2>5 DEF AnswerFit
    <3> QED BY <2>3, <2>4, <3>1 DEF MayShow
  <2>6. ASSUME NEW k \in DOMAIN all,
               x \in {h.doc : h \in all[k].hits} \cup all[k].aggs
        PROVE  x.owner \in Entitled(c) \/ (r.endpoint = "MultiGet" /\ Collide(Requester(c), x.owner))
    <3>1. PICK s : s = all[k]
      OBVIOUS
    <3>2. SlotOK(r, s, k)
      BY <2>1, <3>1 DEF AnswerFit, SlotsOK
    <3>3. x \in {h.doc : h \in s.hits} \cup s.aggs
      BY <2>6, <3>1
    <3>4. x.owner = PartitionOf(r) \/ (r.endpoint = "MultiGet" /\ Collide(PartitionOf(r), x.owner))
      BY <3>2, <3>3 DEF SlotOK
    <3> QED BY <2>3, <3>4
  <2>7. \/ x \in {h.doc : h \in resp.hits} \cup resp.aggs
        \/ \E k \in DOMAIN all : x \in {h.doc : h \in all[k].hits} \cup all[k].aggs
    BY DEF Revealed
  <2> QED BY <2>5, <2>6, <2>7
<1> QED BY <1>1, RequestsInvariant, PTL

LEMMA SeparatedNames ==
  ASSUME NEW C, NEW p \in Seq(C), NEW i \in Seq(C), NEW q \in Seq(C), NEW j \in Seq(C), NEW sep \in C,
         sep \notin Range(q), (p \o <<sep>>) \o i = (q \o <<sep>>) \o j
  PROVE  ~(Len(p) < Len(q))
<1> SUFFICES ASSUME Len(p) < Len(q) PROVE FALSE
  OBVIOUS
<1>1. PICK one \in Seq(C) : one = <<sep>> /\ Len(one) = 1 /\ one[1] = sep
  <2>1. <<sep>> \in Seq(C) /\ Len(<<sep>>) = 1 /\ <<sep>>[1] = sep
    OBVIOUS
  <2> QED BY <2>1, Zenon
<1>2. PICK m \in Nat, n \in Nat : m = Len(p) /\ n = Len(q) /\ m < n
  OBVIOUS
<1>3. PICK a \in Seq(C), b \in Seq(C) : a = p \o one /\ b = q \o one
  BY ConcatFacts
<1>4. Len(a) = m + 1 /\ a[m + 1] = sep
  BY <1>1, <1>2, <1>3, ConcatFacts
<1>5. Len(b) = n + 1 /\ b[m + 1] = q[m + 1]
  BY <1>1, <1>2, <1>3, ConcatFacts
<1>6. (a \o i)[m + 1] = sep
  BY <1>2, <1>4, ConcatFacts
<1>7. (b \o j)[m + 1] = q[m + 1]
  BY <1>2, <1>5, ConcatFacts
<1>8. q[m + 1] = sep
  BY <1>1, <1>3, <1>6, <1>7
<1> QED BY <1>2, <1>8 DEF Range

LEMMA SeparatedText ==
  ASSUME NEW C, NEW p \in Seq(C), NEW i \in Seq(C), NEW sep \in C, PartitionHole \in C, BodyHole \in C,
         sep \notin {PartitionHole, BodyHole}
  PROVE  construct_id(<<PartitionHole, sep, BodyHole>>, p, i) = (p \o <<sep>>) \o i
<1>1. PICK template \in Seq(C) : template = <<PartitionHole, sep, BodyHole>>
  <2>1. <<PartitionHole, sep, BodyHole>> \in Seq(C)
    OBVIOUS
  <2> QED BY <2>1, Zenon
<1>2. Len(template) = 3 /\ template[1] = PartitionHole /\ template[2] = sep /\ template[3] = BodyHole
  BY <1>1
<1>3. PICK s : s = Pieces(template, p, i)
  OBVIOUS
<1>4. PiecedOver(C, template, s, p, i)
  BY <1>3, PiecesAre
<1>5. s \in Seq(Seq(C)) /\ Len(s) = 3 /\ s[1] = filled(PartitionHole, p, i)
      /\ s[2] = filled(sep, p, i) /\ s[3] = filled(BodyHole, p, i)
  BY <1>2, <1>4 DEF PiecedOver
<1>6. s[1] = p /\ s[2] = <<sep>> /\ s[3] = i
  BY <1>5, HolesApart DEF filled
<1>7. PICK w : Gathered(C, s, w) /\ FlattenSeq(s) = w[Len(s)]
  BY <1>5, FlattenIs
<1>8. w[1] = w[0] \o s[1] /\ w[2] = w[1] \o s[2] /\ w[3] = w[2] \o s[3] /\ w[0] = <<>>
  <2>1. 1 \in 1 .. Len(s) /\ 2 \in 1 .. Len(s) /\ 3 \in 1 .. Len(s) /\ 1 - 1 = 0 /\ 2 - 1 = 1 /\ 3 - 1 = 2
    BY <1>5
  <2>2. w[0] = <<>> /\ \A n \in 1 .. Len(s) : w[n] = w[n - 1] \o s[n]
    BY <1>7 DEF Gathered
  <2>3. w[1] = w[1 - 1] \o s[1] /\ w[2] = w[2 - 1] \o s[2] /\ w[3] = w[3 - 1] \o s[3]
    BY ONLY <2>1, <2>2
  <2> QED BY ONLY <2>1, <2>2, <2>3
<1>9. w[1] = p
  BY <1>6, <1>8, ConcatEmpty
<1>10. FlattenSeq(s) = (p \o <<sep>>) \o i
  BY <1>5, <1>6, <1>7, <1>8, <1>9
<1> QED BY <1>1, <1>3, <1>10 DEF construct_id, Pieces

\* Under a template of the partition, a separator and the id, two partitions whose names do
\* not contain the separator never have a built id in common: the contract under which
\* nobody meets another's document (id.rs construct_id, router.rs build_transform, which
\* checks the template's reference to the partition and not the names).
THEOREM SeparatedIds ==
  ASSUME conf \in Deployments, conf.rule # None,
         NEW sep, sep \notin {PartitionHole, BodyHole}, conf.rule.template = <<PartitionHole, sep, BodyHole>>,
         NEW p \in Partitions, NEW q \in Partitions, sep \notin Range(p), sep \notin Range(q), Collide(p, q)
  PROVE  p = q
<1>1. PICK template : template = <<PartitionHole, sep, BodyHole>>
  OBVIOUS
<1>2. PICK i \in Ids, j \in Ids : construct_id(template, p, i) = construct_id(template, q, j)
  BY <1>1 DEF Collide
<1>3. PICK C : /\ Range(p) \subseteq C /\ Range(q) \subseteq C /\ Range(i) \subseteq C /\ Range(j) \subseteq C
               /\ sep \in C /\ PartitionHole \in C /\ BodyHole \in C
  <2>1. PICK C : C = Range(p) \cup Range(q) \cup Range(i) \cup Range(j) \cup {sep, PartitionHole, BodyHole}
    OBVIOUS
  <2> QED BY <2>1
<1>4. p \in Seq(Range(p)) /\ q \in Seq(Range(q)) /\ i \in Seq(Range(i)) /\ j \in Seq(Range(j))
  BY RequestsAssumption, TenancyAssumption
<1>5. p \in Seq(C) /\ q \in Seq(C) /\ i \in Seq(C) /\ j \in Seq(C)
  BY <1>3, <1>4, TextOver
<1>6. (p \o <<sep>>) \o i = (q \o <<sep>>) \o j
  <2>1. construct_id(<<PartitionHole, sep, BodyHole>>, p, i) = (p \o <<sep>>) \o i
    BY <1>3, <1>5, SeparatedText
  <2>2. construct_id(<<PartitionHole, sep, BodyHole>>, q, j) = (q \o <<sep>>) \o j
    BY <1>3, <1>5, SeparatedText
  <2> QED BY <1>1, <1>2, <2>1, <2>2
<1>7. ~(Len(p) < Len(q)) /\ ~(Len(q) < Len(p))
  <2>1. ~(Len(p) < Len(q))
    BY ONLY sep \notin Range(q), <1>3, <1>5, <1>6, SeparatedNames
  <2>2. (q \o <<sep>>) \o j = (p \o <<sep>>) \o i
    BY <1>6
  <2>3. ~(Len(q) < Len(p))
    BY ONLY sep \notin Range(p), <1>3, <1>5, <2>2, SeparatedNames
  <2> QED BY <2>1, <2>3
<1>8. PICK n \in Nat : n = Len(p) /\ n = Len(q)
  BY <1>5, <1>7
<1>9. ASSUME NEW k \in 1 .. n
      PROVE  p[k] = q[k]
  <2>1. PICK one \in Seq(C) : one = <<sep>>
    <3>1. <<sep>> \in Seq(C)
      BY <1>3
    <3> QED BY <3>1, Zenon
  <2>2. PICK a \in Seq(C), b \in Seq(C) : a = p \o one /\ b = q \o one
    BY <1>5, ConcatFacts
  <2>3. k \in 1 .. Len(a) /\ a[k] = p[k] /\ k \in 1 .. Len(b) /\ b[k] = q[k]
    <3>1. Len(one) \in Nat /\ Len(a) = n + Len(one) /\ Len(b) = n + Len(one)
      <4>1. Len(p \o one) = Len(p) + Len(one)
        BY ONLY <1>5, one \in Seq(C), ConcatFacts
      <4>2. Len(q \o one) = Len(q) + Len(one)
        BY ONLY <1>5, one \in Seq(C), ConcatFacts
      <4>3. Len(one) \in Nat
        BY ONLY one \in Seq(C)
      <4> QED BY ONLY <1>8, <2>2, <4>1, <4>2, <4>3
    <3>2. a[k] = p[k]
      <4>1. k \in 1 .. Len(p)
        BY <1>8
      <4>2. \A m \in 1 .. Len(p) : (p \o one)[m] = p[m]
        BY ONLY <1>5, one \in Seq(C), ConcatFacts
      <4> QED BY ONLY <2>2, <4>1, <4>2
    <3>3. b[k] = q[k]
      <4>1. k \in 1 .. Len(q)
        BY <1>8
      <4>2. \A m \in 1 .. Len(q) : (q \o one)[m] = q[m]
        BY ONLY <1>5, one \in Seq(C), ConcatFacts
      <4> QED BY ONLY <2>2, <4>1, <4>2
    <3> QED BY <3>1, <3>2, <3>3
  <2>4. (a \o i)[k] = p[k] /\ (b \o j)[k] = q[k]
    BY <1>5, <2>3, ConcatFacts
  <2> QED BY <1>6, <2>1, <2>2, <2>4
<1> QED BY <1>5, <1>8, <1>9, TextsEqual

\* Every hit is shown under the index the client named, without the injected field and
\* under an id with which the same placement finds its document again: an id that a rule
\* has built is mapped back to the one it was built of, whatever the template
\* (LogicalView).
THEOREM RequestsView == RequestsSpec => []LogicalView
<1>1. RequestsInv => LogicalView
  <2> SUFFICES ASSUME RequestsInv, NEW c \in Clients, Done(c), task[c].r.endpoint # "Scroll"
               PROVE  /\ \A h \in task[c].resp.hits : ShownWell(task[c].d, task[c].r.index, h)
                      /\ \A k \in DOMAIN task[c].resp.slots : \A h \in task[c].resp.slots[k].hits :
                           ShownWell(task[c].resp.slots[k].d, task[c].r.items[k].index, h)
    BY DEF LogicalView
  <2>1. AnswerFit(task[c].r, task[c].d, task[c].resp)
    BY DoneFacts
  <2>3. \A h \in task[c].resp.hits : ShownWell(task[c].d, task[c].r.index, h)
    BY <2>1 DEF AnswerFit
  <2>4. \A k \in DOMAIN task[c].resp.slots : SlotOK(task[c].r, task[c].resp.slots[k], k)
    BY <2>1 DEF AnswerFit, SlotsOK
  <2>5. ASSUME NEW k \in DOMAIN task[c].resp.slots, NEW h \in task[c].resp.slots[k].hits
        PROVE  ShownWell(task[c].resp.slots[k].d, task[c].r.items[k].index, h)
    <3>1. PICK s : s = task[c].resp.slots[k]
      OBVIOUS
    <3>2. s.of = task[c].r.items[k] /\ ShownWell(s.d, s.of.index, h)
      BY <2>4, <3>1 DEF SlotOK
    <3> QED BY <3>1, <3>2
  <2> QED BY <2>3, <2>5
<1> QED BY <1>1, RequestsInvariant, PTL

\* A cursor the proxy has handed out works for as long as its context lives (CursorsHold).
THEOREM RequestsCursors == RequestsSpec => []CursorsHold
<1>1. RequestsInv => CursorPinned
  <2> SUFFICES ASSUME RequestsInv, NEW c \in Clients, Done(c), task[c].resp.missing # None
               PROVE  ~ \E x \in cursors : /\ x.live /\ x.kind = cursor_kind(task[c].r)
                                            /\ wrap(x.cluster, x.id) = task[c].resp.missing
    BY DEF CursorPinned
  <2>1. Settled(task[c].resp.missing, cursor_kind(task[c].r))
    BY DoneFacts DEF AnswerFit
  <2> QED BY <2>1 DEF Settled, Named
<1>2. RequestsInv => CursorsUsable
  BY DEF RequestsInv, CursorsOK, CursorsUsable, Named
<1>3. RequestsInv => CursorsHold
  BY <1>1, <1>2 DEF CursorsHold
<1> QED BY <1>3, RequestsInvariant, PTL

\* Items of a multi request that name one index are answered from one placement, each
\* slot about its own item (SlotsConsistent).
THEOREM RequestsSlots == RequestsSpec => []SlotsConsistent
<1>1. RequestsInv => SlotsConsistent
  <2> SUFFICES ASSUME RequestsInv, NEW c \in Clients, Done(c), task[c].resp.slots # <<>>
               PROVE  LET s == task[c].resp.slots IN
                      /\ Len(s) = Len(task[c].r.items)
                      /\ \A j, k \in DOMAIN s :
                           /\ s[k].of = task[c].r.items[k]
                           /\ (s[j].state = "ok" /\ s[k].state = "ok" /\ s[j].of.index = s[k].of.index) => s[j].d = s[k].d
    BY DEF SlotsConsistent
  <2>1. AnswerFit(task[c].r, task[c].d, task[c].resp)
    BY DoneFacts
  <2> QED BY <2>1 DEF AnswerFit, SlotsOK, SlotOK
<1> QED BY <1>1, RequestsInvariant, PTL

\* A point-in-time delete that is answered 200 has closed every context it named, on
\* every cluster (PitDeleteTruthful).
THEOREM RequestsPits == RequestsSpec => []PitDeleteTruthful
<1>1. RequestsInv => PitDeleteTruthful
  <2> SUFFICES ASSUME RequestsInv, NEW c \in Clients, Done(c), task[c].r.endpoint = "PitDelete",
                      task[c].resp.status = 200, NEW k \in DOMAIN task[c].r.tokens, NEW x \in cursors,
                      x.kind = "pit", wrap(x.cluster, x.id) = task[c].r.tokens[k]
               PROVE  ~x.live
    BY DEF PitDeleteTruthful
  <2>1. Settled(task[c].r.tokens[k], "pit")
    BY DoneFacts DEF AnswerFit
  <2> QED BY <2>1 DEF Settled, Named
<1> QED BY <1>1, RequestsInvariant, PTL

LEMMA ServeDocs ==
  ASSUME NEW c \in Clients, Serve(c)
  PROVE  docs' = docs \/ Write(c) \/ WriteFails(c)
<1>1. CASE forward(c) \/ forward_stream(c) \/ admin(c) \/ dispatch_other(c) \/ ResolveUnavailable(c) \/ ReadFails(c)
  BY <1>1 DEF forward, forward_stream, admin, dispatch_other, ResolveUnavailable, ReadFails, Respond, Fail, Stay
<1>2. CASE Precheck(c) \/ Resolve(c)
  BY <1>2 DEF Precheck, Resolve, Respond, Fail, Goto, Stay
<1>3. CASE Enqueue(c) \/ gate_write(c)
  BY <1>3 DEF Enqueue, gate_write, Respond, Fail, Goto, Stay
<1>4. CASE get_by_id(c) \/ count(c) \/ search(c) \/ run_search_stream(c)
  BY <1>4 DEF get_by_id, count, search, run_search_stream, Searched, Stay
<1>5. CASE run_match_search(c) \/ enqueue_deletes(c)
  BY <1>5 DEF run_match_search, enqueue_deletes, Stay
<1>6. CASE prepare(c) \/ (\E k \in DOMAIN task[c].slots : fetch(c, k)) \/ multi_respond(c)
  BY <1>6 DEF prepare, fetch, multi_respond, Stay
<1>7. CASE scroll(c) \/ scroll_clear(c) \/ pit_create(c) \/ pit_search(c) \/ pit_delete(c)
  BY <1>7 DEF scroll, scroll_clear, Continued, pit_create, pit_search, pit_delete
<1> QED BY <1>1, <1>2, <1>3, <1>4, <1>5, <1>6, <1>7 DEF Serve

\* A document is replaced or removed only by a write, queued or direct, of the partition
\* that owns it or of one that has a built id in common with it (OwnWritesOnly).
THEOREM RequestsOwnWrites == RequestsSpec => OwnWritesOnly
<1> DEFINE Writes(p) ==
       \/ \E c \in Clients : task[c].pc = "gated" /\ task'[c].pc = "done" /\ task[c].d.partition = p
       \/ queue # <<>> /\ queue' = Tail(queue) /\ Head(queue).partition_key = p
           OwnWrites == \A x \in docs \ docs' : \E p \in Partitions :
       /\ p = x.owner \/ Collide(p, x.owner)
       /\ \/ \E c \in Clients : task[c].pc = "gated" /\ task'[c].pc = "done" /\ task[c].d.partition = p
          \/ queue # <<>> /\ queue' = Tail(queue) /\ Head(queue).partition_key = p
<1>1. RequestsInv /\ [RequestsNext]_reqVars => [OwnWrites]_reqVars
  <2> SUFFICES ASSUME RequestsInv, RequestsNext, NEW x \in docs \ docs'
               PROVE  \E p \in Partitions : (p = x.owner \/ Collide(p, x.owner)) /\ Writes(p)
    OBVIOUS
  <2>1. ASSUME NEW c \in Clients, Write(c) \/ WriteFails(c)
        PROVE  \E p \in Partitions : (p = x.owner \/ Collide(p, x.owner)) /\ Writes(p)
    <3> DEFINE op == write_op(task[c].r, task[c].d)
    <3>1. task[c].pc = "gated" /\ \E resp : Answer(c, resp)
      BY <2>1 DEF Write, WriteFails
    <3>2. task'[c].pc = "done"
      <4>1. PICK resp : task'[c] = Over(task[c], resp)
        BY <3>1, AnswerFacts DEF RequestsInv
      <4> QED BY <4>1 DEF Over
    <3>3. PICK p \in Partitions : p = PartitionOf(task[c].r) /\ task[c].d.partition = p
      BY <3>1, ResolvedFacts DEF DecOK
    <3>4. OpOK(op) /\ op.partition_key = p
      BY <3>1, <3>3, ResolvedFacts, WriteOpOK DEF RequestsInv
    <3>5. PICK e \in Effects(op) : docs' = e.docs
      <4>1. docs' = docs \/ \E e \in Effects(op) : docs' = e.docs
        BY <2>1 DEF Write, WriteFails
      <4> QED BY <4>1
    <3>6. x \in docs \ e.docs
      BY <3>5
    <3>7. Meets(p, x.owner)
      BY <3>4, <3>6, EffectsOK DEF RequestsInv
    <3>8. Writes(p)
      BY <3>1, <3>2, <3>3
    <3> QED BY <3>7, <3>8 DEF Meets
  <2>2. CASE Consume
    <3>1. OpOK(Head(queue)) /\ queue # <<>> /\ queue' = Tail(queue)
      BY <2>2 DEF RequestsInv, QueueOK, Consume
    <3>2. PICK e \in Effects(Head(queue)) : docs' = e.docs
      BY <2>2 DEF Consume
    <3>3. PICK p \in Partitions : p = Head(queue).partition_key
      BY <3>1 DEF OpOK
    <3>4. Meets(p, x.owner)
      BY <3>1, <3>2, <3>3, EffectsOK DEF RequestsInv
    <3>5. Writes(p)
      BY <3>1, <3>3
    <3> QED BY <3>4, <3>5 DEF Meets
  <2>3. ASSUME NEW c \in Clients, NEW p \in Partitions \cup {None}, NEW r \in RequestsOf(p), NEW g \in Credentials,
               Arrive(c, r, g[1], g[2], g[3])
        PROVE  FALSE
    BY <2>3 DEF Arrive, Stay
  <2>4. ASSUME NEW c \in Clients, Finish(c)
        PROVE  FALSE
    BY <2>4 DEF Finish, Stay
  <2>5. ASSUME NEW p \in Partitions, Cutover(p) \/ Flip(p)
        PROVE  FALSE
    BY <2>5 DEF Cutover, Flip
  <2>6. ASSUME NEW c \in Clients, Serve(c)
        PROVE  Write(c) \/ WriteFails(c)
    BY <2>6, ServeDocs
  <2> QED BY <2>1, <2>2, <2>3, <2>4, <2>5, <2>6 DEF RequestsNext
<1> QED BY <1>1, RequestsInvariant, PTL DEF RequestsSpec, OwnWritesOnly

-----------------------------------------------------------------------------
(* One request to an upstream. *)

LEMMA LeastExists ==
  ASSUME NEW S \in SUBSET Nat, S # {}
  PROVE  \E x \in S : \A y \in S : x <= y
<1>1. \E x \in S : \A y \in S : ~ (<<y, x>> \in OpToRel(<, Nat))
  BY WFMin, NatLessThanWellFounded
<1>2. PICK x \in S : \A y \in S : ~ (<<y, x>> \in OpToRel(<, Nat))
  BY <1>1
<1>3. \A y \in S : x <= y
  <2> SUFFICES ASSUME NEW y \in S PROVE x <= y
    OBVIOUS
  <2>1. y < x => <<y, x>> \in OpToRel(<, Nat)
    BY DEF OpToRel
  <2>2. ~ (y < x)
    BY <1>2, <2>1, Zenon
  <2> QED BY <2>2
<1> QED BY <1>3

LEMMA Least ==
  ASSUME NEW S \in SUBSET Nat, S # {}
  PROVE  Min(S) \in S
  BY LeastExists DEF Min

\* The last of some positions is the one with the fewest behind it.
LEMMA LastExists ==
  ASSUME NEW n \in Nat, NEW S \in SUBSET (1 .. n), S # {}
  PROVE  \E x \in S : \A y \in S : x >= y
<1> DEFINE Behind == {d \in Nat : n - d \in S}
<1>1. Behind \in SUBSET Nat
  OBVIOUS
<1>2. \A k \in S : k \in Nat /\ n - k \in Nat /\ n - (n - k) = k
  OBVIOUS
<1>3. \A k \in S : n - k \in Behind
  BY <1>2
<1>4. Behind # {}
  BY <1>3
<1>5. PICK m \in Behind : \A y \in Behind : m <= y
  BY <1>1, <1>4, LeastExists
<1>6. \A k \in S : m <= n - k
  BY <1>3, <1>5
<1>7. \A k \in S : n - m >= k
  BY <1>2, <1>5, <1>6
<1>8. n - m \in S
  BY <1>5
<1> QED BY <1>7, <1>8

LEMMA Latest ==
  ASSUME NEW n \in Nat, NEW S \in SUBSET (1 .. n), S # {}
  PROVE  Max(S) \in S
<1>1. \E x \in S : \A y \in S : x >= y
  BY LastExists
<1>2. Max(S) = CHOOSE x \in S : \A y \in S : x >= y
  BY DEF Max
<1> QED BY <1>1, <1>2

\* A case of the specification, as the assumption has it.
LEMMA CaseFacts ==
  ASSUME NEW case \in Cases
  PROVE  LET headers == case.call.headers IN
         /\ Len(headers) \in Nat /\ DOMAIN headers = 1 .. Len(headers)
         /\ Nil \notin [trace : Nat, span : Nat, sampled : BOOLEAN,
                        tracestate : {Nil} \cup
                          {headers[k].value : k \in {j \in DOMAIN headers : headers[j].name = "tracestate"}}]
         /\ case.dep.credentials # Nil => case.dep.credentials.name \notin {"traceparent", "tracestate"}
  BY EgressAssumption

LEMMA CaseTexts ==
  ASSUME NEW case \in Cases
  PROVE  /\ case.call.path \in Seq(Range(case.call.path))
         /\ \A text \in {case.call.op.id, case.call.op.routing} : text # Nil => text \in Seq(Range(text))
  BY EgressAssumption

\* What HeaderView::get() finds is of that name.
LEMMA GetFinds ==
  ASSUME NEW headers, NEW name, Len(headers) \in Nat, DOMAIN headers = 1 .. Len(headers)
  PROVE  get(headers, name) \in {Nil} \cup {headers[k].value : k \in {j \in DOMAIN headers : headers[j].name = name}}
<1> DEFINE I == {i \in 1 .. Len(headers) : headers[i].name = name}
<1>1. get(headers, name) = IF I # {} THEN IF Min(I) = 0 THEN Nil ELSE headers[Min(I)].value ELSE Nil
  BY DEF get, SelectInSeq
<1>2. CASE I = {}
  BY <1>1, <1>2
<1>3. CASE I # {}
  <2>1. I \in SUBSET Nat
    OBVIOUS
  <2>2. Min(I) \in I
    BY <1>3, <2>1, Least
  <2> QED BY <1>1, <1>3, <2>2
<1> QED BY <1>2, <1>3

\* Whatever a client sent, the context that goes on is usable, and it is the client's if
\* the client's is usable.
Usable(t) == t.trace \in Nat \ {0} /\ t.span \in Nat \ {0} /\ t.sampled \in BOOLEAN

LEMMA ParsedContext ==
  ASSUME NEW value
  PROVE  parse(value) # Nil => Usable(parse(value))
<1> SUFFICES ASSUME parse(value) # Nil PROVE Usable(parse(value))
  OBVIOUS
<1>1. /\ IsHex(value[2]) /\ IsHex(value[3]) /\ value[2] # 0 /\ value[3] # 0
      /\ parse(value) = [trace |-> value[2], span |-> value[3], sampled |-> value[4] % 2 = 1]
  BY DEF parse
<1>2. (value[4] % 2 = 1) \in BOOLEAN
  OBVIOUS
<1>3. PICK b \in BOOLEAN : b = (value[4] % 2 = 1)
  BY <1>2
<1>4. parse(value) = [trace |-> value[2], span |-> value[3], sampled |-> b]
  BY <1>1, <1>3
<1> QED BY <1>1, <1>4 DEF Usable, IsHex

LEMMA ParsedB3 ==
  ASSUME NEW value
  PROVE  parse_b3(value) # Nil => Usable(parse_b3(value))
<1> SUFFICES ASSUME parse_b3(value) # Nil PROVE Usable(parse_b3(value))
  OBVIOUS
<1>1. /\ IsHex(value[1]) /\ IsHex(value[2]) /\ value[1] # 0 /\ value[2] # 0
      /\ parse_b3(value) = [trace |-> value[1], span |-> value[2], sampled |-> Len(value) = 2 \/ value[3] # "0"]
  BY DEF parse_b3
<1>2. (Len(value) = 2 \/ value[3] # "0") \in BOOLEAN
  OBVIOUS
<1>3. PICK b \in BOOLEAN : b = (Len(value) = 2 \/ value[3] # "0")
  BY <1>2
<1>4. parse_b3(value) = [trace |-> value[1], span |-> value[2], sampled |-> b]
  BY <1>1, <1>3
<1> QED BY <1>1, <1>4 DEF Usable, IsHex

LEMMA ParentContext ==
  ASSUME NEW headers
  PROVE  parent(headers) # Nil => Usable(parent(headers))
  BY ParsedContext, ParsedB3 DEF parent

LEMMA Propagated ==
  ASSUME NEW case \in Cases, NEW hash \in Hashes
  PROVE  LET headers == case.call.headers
             t == propagate_with_b3(headers, hash)
         IN /\ t # Nil /\ Usable(t)
            /\ parent(headers) # Nil => t.trace = parent(headers).trace /\ t.sampled = parent(headers).sampled
<1> DEFINE headers == case.call.headers
           t == propagate_with_b3(headers, hash)
           States == {Nil} \cup {headers[k].value : k \in {j \in DOMAIN headers : headers[j].name = "tracestate"}}
<1>1. Nil \notin [trace : Nat, span : Nat, sampled : BOOLEAN, tracestate : States]
  BY CaseFacts
<1>2. derive(hash) \in Nat \ {0}
  BY EgressAssumption DEF derive
<1>3. PICK state : state = IF parse(get(headers, "traceparent")) = Nil THEN Nil
                           ELSE sanitize_tracestate(get(headers, "tracestate"))
  OBVIOUS
<1>4. state \in States
  <2>1. get(headers, "tracestate") \in States
    BY CaseFacts, GetFinds
  <2> QED BY <1>3, <2>1 DEF sanitize_tracestate
<1>5. PICK span : span = derive(hash)
  OBVIOUS
<1>6. CASE parent(headers) # Nil
  <2>1. PICK p : p = parent(headers)
    OBVIOUS
  <2>2. t = [trace |-> p.trace, span |-> span, sampled |-> p.sampled, tracestate |-> state]
    BY <1>3, <1>5, <1>6, <2>1 DEF propagate_with_b3
  <2>3. p.trace \in Nat \ {0} /\ p.sampled \in BOOLEAN
    BY <1>6, <2>1, ParentContext DEF Usable
  <2>4. t \in [trace : Nat, span : Nat, sampled : BOOLEAN, tracestate : States]
    BY <1>2, <1>4, <1>5, <2>2, <2>3
  <2>5. t.trace = p.trace /\ t.span = span /\ t.sampled = p.sampled
    BY <2>2
  <2>6. t # Nil /\ Usable(t)
    BY <1>1, <1>2, <1>5, <2>3, <2>4, <2>5 DEF Usable
  <2> QED BY <2>1, <2>5, <2>6
<1>7. CASE parent(headers) = Nil
  <2>1. PICK yes, none : yes = TRUE /\ none = Nil
    OBVIOUS
  <2>2. t = [trace |-> span, span |-> span, sampled |-> yes, tracestate |-> none]
    BY <1>5, <1>7, <2>1 DEF propagate_with_b3
  <2>3. yes \in BOOLEAN /\ none \in States
    BY <2>1
  <2>4. t \in [trace : Nat, span : Nat, sampled : BOOLEAN, tracestate : States]
    BY <1>2, <1>5, <2>2, <2>3
  <2>5. t.trace = span /\ t.span = span /\ t.sampled = yes
    BY <2>2
  <2>6. t # Nil /\ Usable(t)
    BY <1>1, <1>2, <1>5, <2>3, <2>4, <2>5 DEF Usable
  <2> QED BY <1>7, <2>6
<1> QED BY <1>6, <1>7

\* The call that was sent, and what was put on it.
SentFor(case, hash) ==
  LET t == upstream_trace(case.dep, case.call.headers, hash) IN
  /\ egress.dep = case.dep /\ egress.call = case.call /\ egress.trace = t
  /\ egress.class = classify(case.call.method, case.call.path)
  /\ egress.uri = Addressed(case.call.method, case.call.op)[2]
  /\ egress.headers = UpstreamHeaders(case.dep, BuilderHeaders(case.call.op),
                                      forward_set(case.dep, case.call.headers), t)

EgressInv ==
  /\ egress.pc \in {"idle", "sent", "answered"}
  /\ Sent => \E case \in Cases, hash \in Hashes : SentFor(case, hash)

LEMMA EgressInitInv == EgressInit => EgressInv
  BY DEF EgressInit, EgressInv, Waiting, Sent

LEMMA SendSent ==
  ASSUME NEW case \in Cases, NEW hash \in Hashes, send_upstream(case.dep, case.call, hash)
  PROVE  EgressInv'
<1>1. PICK dep, call, class, t, address, headers, hold, rest :
        /\ dep = case.dep /\ call = case.call
        /\ class = classify(call.method, call.path)
        /\ t = upstream_trace(dep, call.headers, hash)
        /\ address = Addressed(call.method, call.op)
        /\ headers = UpstreamHeaders(dep, BuilderHeaders(call.op), forward_set(dep, call.headers), t)
        /\ hold = Waiting.outcome /\ rest = [Waiting EXCEPT !.pc = "answered"]
  OBVIOUS
<1>9. PICK nil, empty, start :
        /\ nil = Nil /\ empty = <<>> /\ start = "idle"
        /\ Waiting = [pc |-> start, dep |-> nil, call |-> nil, class |-> nil, trace |-> nil, method |-> nil,
                      uri |-> empty, headers |-> empty, outcome |-> hold]
  <2>1. PICK nil, empty, start, out : nil = Nil /\ empty = <<>> /\ start = "idle" /\ out = NoOutcome
    OBVIOUS
  <2>2. Waiting = [pc |-> start, dep |-> nil, call |-> nil, class |-> nil, trace |-> nil, method |-> nil,
                   uri |-> empty, headers |-> empty, outcome |-> out]
    BY <2>1 DEF Waiting
  <2>3. hold = out
    BY <1>1, <2>2
  <2> QED BY <2>1, <2>2, <2>3
<1>2. PICK sent : sent = [pc |-> "sent", dep |-> dep, call |-> call, class |-> class, trace |-> t,
                          method |-> address[1], uri |-> address[2], headers |-> headers, outcome |-> hold]
  OBVIOUS
<1>3. egress' = rest \/ egress' = sent
  <2>1. PICK new : new = [Waiting EXCEPT !.dep = dep, !.call = call, !.class = class, !.trace = t]
    OBVIOUS
  <2>2. new = [pc |-> start, dep |-> dep, call |-> call, class |-> class, trace |-> t, method |-> nil,
               uri |-> empty, headers |-> empty, outcome |-> hold]
    BY <1>9, <2>1
  <2>3. PICK full : full = [new EXCEPT !.pc = "sent", !.method = address[1], !.uri = address[2], !.headers = headers]
    OBVIOUS
  <2>4. full = sent
    <3>1. PICK gone, verb, uri : gone = "sent" /\ verb = address[1] /\ uri = address[2]
      OBVIOUS
    <3>2. full = [new EXCEPT !.pc = gone, !.method = verb, !.uri = uri, !.headers = headers]
      BY <2>3, <3>1, Zenon
    <3>3. full = [pc |-> gone, dep |-> dep, call |-> call, class |-> class, trace |-> t, method |-> verb,
                  uri |-> uri, headers |-> headers, outcome |-> hold]
      BY <2>2, <3>2
    <3>4. sent = [pc |-> gone, dep |-> dep, call |-> call, class |-> class, trace |-> t, method |-> verb,
                  uri |-> uri, headers |-> headers, outcome |-> hold]
      BY <1>2, <3>1, Zenon
    <3> QED BY <3>3, <3>4
  <2>5. send_upstream(dep, call, hash)
    BY <1>1
  <2>6. egress' = IF call.op.kind = "forward" /\ reject_path_traversal(call.op.path)
                  THEN [Waiting EXCEPT !.pc = "answered"]
                  ELSE [new EXCEPT !.pc = "sent", !.method = address[1], !.uri = address[2], !.headers = headers]
    BY <1>1, <2>1, <2>5, Zenon DEF send_upstream
  <2>7. egress' = rest \/ egress' = full
    BY <1>1, <2>3, <2>6, Zenon
  <2> QED BY <2>4, <2>7
<1>4. CASE egress' = rest
  <2>1. rest.pc = "answered"
    BY <1>1 DEF Waiting
  <2> QED BY <1>4, <2>1 DEF EgressInv, Sent
<1>5. CASE egress' = sent
  <2>1. /\ egress'.pc = "sent" /\ egress'.dep = dep /\ egress'.call = call /\ egress'.class = class
        /\ egress'.trace = t /\ egress'.uri = address[2] /\ egress'.headers = headers
    BY <1>2, <1>5
  <2>2. SentFor(case, hash)'
    BY <1>1, <2>1 DEF SentFor
  <2> QED BY <2>1, <2>2 DEF EgressInv, Sent
<1> QED BY <1>3, <1>4, <1>5

LEMMA EgressNextInv == EgressInv /\ [EgressNext]_egress => EgressInv'
<1> SUFFICES ASSUME EgressInv, [EgressNext]_egress PROVE EgressInv'
  OBVIOUS
<1>1. ASSUME NEW case \in Cases, NEW hash \in Hashes, send_upstream(case.dep, case.call, hash)
      PROVE  EgressInv'
  BY <1>1, SendSent
<1>2. ASSUME NEW status, answer(status)
      PROVE  EgressInv'
  <2>1. egress'.pc = "answered"
    BY <1>2 DEF answer, Waiting
  <2> QED BY <2>1 DEF EgressInv, Sent
<1>3. CASE UNCHANGED egress
  BY <1>3 DEF EgressInv, Sent, SentFor
<1> QED BY <1>1, <1>2, <1>3 DEF EgressNext

THEOREM EgressInvariant == EgressSpec => []EgressInv
  BY EgressInitInv, EgressNextInv, PTL DEF EgressSpec

\* What each insertion leaves of the headers.
LEMMA Inserted ==
  ASSUME NEW headers, NEW h
  PROVE  /\ DOMAIN insert(headers, h) = DOMAIN headers \cup {h.name}
         /\ insert(headers, h)[h.name] = h.value
         /\ \A n \in DOMAIN headers : n # h.name => insert(headers, h)[n] = headers[n]
  BY DEF insert

LEMMA CreditedHeaders ==
  ASSUME NEW headers, NEW credentials
  PROVE  /\ ~(credentials # Nil /\ wire_valid(credentials)) => apply_credentials(headers, credentials) = headers
         /\ credentials # Nil /\ wire_valid(credentials) =>
              /\ DOMAIN apply_credentials(headers, credentials) = DOMAIN headers \cup {credentials.name}
              /\ apply_credentials(headers, credentials)[credentials.name] = credentials.value
              /\ \A n \in DOMAIN headers :
                   n # credentials.name => apply_credentials(headers, credentials)[n] = headers[n]
  BY Inserted DEF apply_credentials

LEMMA Traced ==
  ASSUME NEW headers, NEW t
  PROVE  /\ t = Nil => inject_trace(headers, t) = headers
         /\ t # Nil =>
              /\ DOMAIN inject_trace(headers, t) =
                   DOMAIN headers \cup {"traceparent"} \cup (IF t.tracestate = Nil THEN {} ELSE {"tracestate"})
              /\ inject_trace(headers, t)["traceparent"] = to_traceparent(t)
              /\ \A n \in DOMAIN headers :
                   n \notin {"traceparent", "tracestate"} => inject_trace(headers, t)[n] = headers[n]
<1>1. CASE t = Nil
  BY <1>1 DEF inject_trace
<1>2. CASE t # Nil
  <2>1. PICK p : p = [name |-> "traceparent", value |-> to_traceparent(t)]
    OBVIOUS
  <2>2. PICK s : s = [name |-> "tracestate", value |-> t.tracestate]
    OBVIOUS
  <2>3. p.name = "traceparent" /\ p.value = to_traceparent(t) /\ s.name = "tracestate"
    BY <2>1, <2>2
  <2>4. PICK traced : traced = insert(headers, p)
    OBVIOUS
  <2>5. /\ DOMAIN traced = DOMAIN headers \cup {"traceparent"}
        /\ traced["traceparent"] = to_traceparent(t)
        /\ \A n \in DOMAIN headers : n # "traceparent" => traced[n] = headers[n]
    <3>1. /\ DOMAIN traced = DOMAIN headers \cup {p.name} /\ traced[p.name] = p.value
          /\ \A n \in DOMAIN headers : n # p.name => traced[n] = headers[n]
      BY <2>4, Inserted, Zenon
    <3> QED BY <2>3, <3>1, Zenon
  <2>6. PICK both : both = insert(traced, s)
    OBVIOUS
  <2>7. /\ DOMAIN both = DOMAIN traced \cup {"tracestate"}
        /\ \A n \in DOMAIN traced : n # "tracestate" => both[n] = traced[n]
    <3>1. /\ DOMAIN both = DOMAIN traced \cup {s.name}
          /\ \A n \in DOMAIN traced : n # s.name => both[n] = traced[n]
      BY <2>6, Inserted, Zenon
    <3> QED BY <2>3, <3>1, Zenon
  <2>8. inject_trace(headers, t) = IF t.tracestate = Nil THEN traced ELSE both
    BY <1>2, <2>1, <2>2, <2>4, <2>6, Zenon DEF inject_trace
  <2>9. CASE t.tracestate = Nil
    BY <1>2, <2>5, <2>8, <2>9
  <2>10. CASE t.tracestate # Nil
    BY <1>2, <2>5, <2>7, <2>8, <2>10
  <2> QED BY <2>9, <2>10
<1> QED BY <1>1, <1>2

\* A header that is on the request after apply_forward_headers() and is not of the
\* request's own is one of the client's, relayed as the policy says.
LEMMA Relayed ==
  ASSUME NEW own, NEW policy, NEW headers, Len(headers) \in Nat, DOMAIN headers = 1 .. Len(headers)
  PROVE  LET passed == forward_set(policy, headers)
             on == apply_forward_headers(own, passed) IN
         \A n \in DOMAIN on :
           \/ n \in DOMAIN own
           \/ \E k \in DOMAIN passed : /\ passed[k].name = n /\ passed[k].value = on[n]
                                        /\ k \in DOMAIN headers /\ headers[k] = passed[k]
                                        /\ n \notin NEVER_FORWARD /\ ~denied(policy.deny, n)
<1> DEFINE K == {k \in DOMAIN headers : /\ policy.forward
                                        /\ headers[k].name \notin NEVER_FORWARD
                                        /\ ~denied(policy.deny, headers[k].name)}
<1>1. PICK sent : sent = forward_set(policy, headers)
  OBVIOUS
<1>2. DOMAIN sent = K /\ \A k \in K : sent[k] = headers[k]
  BY <1>1 DEF forward_set, Restrict
<1>3. PICK on : on = apply_forward_headers(own, sent)
  OBVIOUS
<1>4. SUFFICES ASSUME NEW n \in DOMAIN on, n \notin DOMAIN own
               PROVE  \E k \in K : sent[k].name = n /\ sent[k].value = on[n]
  BY <1>1, <1>2, <1>3
<1>5. PICK valid, at : /\ valid = {k \in DOMAIN sent : wire_valid(sent[k])}
                       /\ at = {k \in valid : sent[k].name = n}
  OBVIOUS
<1>6. /\ n \in {sent[k].name : k \in valid}
      /\ at # {} => on[n] = sent[Max(at)].value
  BY <1>3, <1>4, <1>5 DEF apply_forward_headers
<1>7. at # {}
  BY <1>5, <1>6
<1>8. at \in SUBSET (1 .. Len(headers))
  BY <1>2, <1>5
<1>9. Max(at) \in at
  BY <1>7, <1>8, Latest
<1>10. PICK k : k = Max(at)
  OBVIOUS
<1>11. k \in K /\ sent[k].name = n
  BY <1>2, <1>5, <1>9, <1>10
<1>12. on[n] = sent[k].value
  BY <1>6, <1>7, <1>10
<1> QED BY <1>11, <1>12

\* What the upstream reads in the traceparent is the context it was made of.
LEMMA RoundTrip ==
  ASSUME NEW t, Usable(t)
  PROVE  /\ parse(to_traceparent(t)) # Nil
         /\ parse(to_traceparent(t)).trace = t.trace /\ parse(to_traceparent(t)).sampled = t.sampled
<1>1. PICK flag \in {0, 1} : flag = IF t.sampled THEN 1 ELSE 0
  OBVIOUS
<1>2. PICK v : v = <<"00", t.trace, t.span, flag>>
  OBVIOUS
<1>3. to_traceparent(t) = v
  BY <1>1, <1>2 DEF to_traceparent
<1>4. v \in {"00"} \X Nat \X Nat \X {0, 1}
  BY <1>2 DEF Usable
<1>5. v # Nil
  BY <1>4, EgressAssumption
<1>6. Len(v) = 4 /\ v[1] = "00" /\ v[2] = t.trace /\ v[3] = t.span /\ v[4] = flag
  BY <1>2
<1>7. (flag % 2 = 1) = t.sampled
  <2>1. PICK odd \in BOOLEAN : odd = (flag % 2 = 1)
    OBVIOUS
  <2>2. t.sampled \in BOOLEAN
    BY DEF Usable
  <2>3. t.sampled => flag = 1
    BY <1>1
  <2>4. ~t.sampled => flag = 0
    BY <1>1
  <2>5. 1 % 2 = 1 /\ 0 % 2 # 1
    OBVIOUS
  <2>6. odd <=> t.sampled
    BY <2>1, <2>3, <2>4, <2>5, Zenon
  <2> QED BY <2>1, <2>2, <2>6, Zenon
<1>8. parse(v) = [trace |-> v[2], span |-> v[3], sampled |-> v[4] % 2 = 1]
  BY <1>5, <1>6 DEF parse, IsHex, Usable
<1>9. parse(v) = [trace |-> t.trace, span |-> t.span, sampled |-> t.sampled]
  BY <1>6, <1>7, <1>8
<1>10. t.trace \in Nat /\ t.span \in Nat /\ t.sampled \in BOOLEAN
  BY DEF Usable
<1>11. parse(v) \in [trace : Nat, span : Nat, sampled : BOOLEAN]
  BY <1>9, <1>10
<1> QED BY <1>3, <1>9, <1>11, EgressAssumption

\* The headers of one request, put together.
LEMMA Composed ==
  ASSUME NEW case \in Cases, NEW hash \in Hashes, Sent, SentFor(case, hash)
  PROVE  HeadersComposed
<1>1. PICK dep, call, headers, credentials, t, own :
        /\ dep = case.dep /\ call = case.call /\ headers = call.headers /\ credentials = dep.credentials
        /\ t = upstream_trace(dep, headers, hash) /\ own = BuilderHeaders(call.op)
  OBVIOUS
<1>2. PICK relayed : relayed = apply_forward_headers(own, forward_set(dep, headers))
  OBVIOUS
<1>3. PICK credited : credited = apply_credentials(relayed, credentials)
  OBVIOUS
<1>4. PICK on : on = inject_trace(credited, t)
  OBVIOUS
<1>5. egress.dep = dep /\ egress.call = call /\ egress.trace = t /\ egress.headers = on
  BY <1>1, <1>2, <1>3, <1>4 DEF SentFor, UpstreamHeaders
<1>6. Len(headers) \in Nat /\ DOMAIN headers = 1 .. Len(headers)
  BY <1>1, CaseFacts
<1>7. credentials # Nil => credentials.name \notin {"traceparent", "tracestate"}
  BY <1>1, CaseFacts
<1>8. PICK passed : /\ passed = forward_set(dep, headers)
                     /\ \A n \in DOMAIN relayed :
                          \/ n \in DOMAIN own
                          \/ \E k \in DOMAIN passed :
                               /\ passed[k].name = n /\ passed[k].value = relayed[n]
                               /\ k \in DOMAIN headers /\ headers[k] = passed[k]
                               /\ n \notin NEVER_FORWARD /\ ~denied(dep.deny, n)
  BY <1>2, <1>6, Relayed
<1> DEFINE valid == credentials # Nil /\ wire_valid(credentials)
<1>9. /\ ~valid => credited = relayed
      /\ valid =>
           /\ DOMAIN credited = DOMAIN relayed \cup {credentials.name}
           /\ credited[credentials.name] = credentials.value
           /\ \A n \in DOMAIN relayed : n # credentials.name => credited[n] = relayed[n]
  BY <1>3, CreditedHeaders, Zenon
<1>10. /\ t = Nil => on = credited
       /\ t # Nil =>
            /\ DOMAIN on = DOMAIN credited \cup {"traceparent"} \cup (IF t.tracestate = Nil THEN {} ELSE {"tracestate"})
            /\ on["traceparent"] = to_traceparent(t)
            /\ \A n \in DOMAIN credited : n \notin {"traceparent", "tracestate"} => on[n] = credited[n]
  BY <1>4, Traced, Zenon
<1>11. CredentialsWin
  <2>1. Credited <=> valid
    BY <1>1, <1>5 DEF Credited
  <2>2. ASSUME valid PROVE on[credentials.name] = credentials.value
    <3>1. credentials.name \in DOMAIN credited /\ credited[credentials.name] = credentials.value
      BY <1>9, <2>2
    <3> QED BY <1>7, <1>10, <2>2, <3>1
  <2>3. ASSUME credentials # Nil, ~valid, credentials.name \in DOMAIN on, credentials.name \notin DOMAIN own
        PROVE  \E k \in DOMAIN passed : passed[k].name = credentials.name /\ passed[k].value = on[credentials.name]
    <3>1. credentials.name \in DOMAIN credited /\ on[credentials.name] = credited[credentials.name]
      BY <1>7, <1>10, <2>3
    <3>2. credentials.name \in DOMAIN relayed /\ on[credentials.name] = relayed[credentials.name]
      BY <1>9, <2>3, <3>1
    <3> QED BY <1>8, <2>3, <3>2
  <2> HIDE DEF valid
  <2> QED BY <1>1, <1>5, <1>8, <2>1, <2>2, <2>3 DEF CredentialsWin
<1>12. HeadersKeptBack
  <2>1. OwnHeaders = (IF valid THEN {credentials.name} ELSE {})
                       \cup (IF t = Nil THEN {} ELSE {"traceparent"})
                       \cup (IF t = Nil \/ t.tracestate = Nil THEN {} ELSE {"tracestate"})
                       \cup DOMAIN own
    BY <1>1, <1>5 DEF OwnHeaders, Credited
  <2>2. SUFFICES ASSUME NEW n \in DOMAIN on, n \notin OwnHeaders
                 PROVE  n \notin NEVER_FORWARD /\ ~denied(dep.deny, n)
    BY <1>5 DEF HeadersKeptBack, denied
  <2>3. n \in DOMAIN credited
    BY <1>10, <2>1, <2>2
  <2>4. n \in DOMAIN relayed /\ n \notin DOMAIN own
    BY <1>9, <2>1, <2>2, <2>3
  <2> QED BY <1>8, <2>4
<1>13. TraceContinued
  <2>1. CASE dep.exporting
    <3>1. t = propagate_with_b3(headers, hash)
      BY <1>1, <2>1 DEF upstream_trace
    <3>2. /\ t # Nil /\ Usable(t)
          /\ parent(headers) # Nil => t.trace = parent(headers).trace /\ t.sampled = parent(headers).sampled
      BY <1>1, <3>1, Propagated
    <3>3. PICK out : out = parse(to_traceparent(t))
      OBVIOUS
    <3>4. out # Nil /\ out.trace = t.trace /\ out.sampled = t.sampled
      BY <3>2, <3>3, RoundTrip
    <3>5. on["traceparent"] = to_traceparent(t)
      BY <1>10, <3>2
    <3>6. PICK caller : caller = parent(headers)
      OBVIOUS
    <3>7. caller # Nil => out.trace = caller.trace /\ out.sampled = caller.sampled
      BY <3>2, <3>4, <3>6
    <3>8. caller = IF parse(get(headers, "traceparent")) # Nil THEN parse(get(headers, "traceparent"))
                   ELSE parse_b3(b3_single(headers))
      BY <3>6 DEF parent
    <3> QED BY <1>1, <1>5, <2>1, <3>3, <3>4, <3>5, <3>7, <3>8, Zenon DEF TraceContinued
  <2>2. CASE ~dep.exporting
    <3>1. t = Nil
      BY <1>1, <2>2 DEF upstream_trace
    <3>2. on = credited
      BY <1>10, <3>1
    <3>3. "traceparent" \notin DOMAIN own
      BY <1>1 DEF BuilderHeaders
    <3>4. ASSUME "traceparent" \in DOMAIN on
          PROVE  \E k \in DOMAIN headers : headers[k].name = "traceparent" /\ headers[k].value = on["traceparent"]
      <4>1. "traceparent" \in DOMAIN relayed /\ credited["traceparent"] = relayed["traceparent"]
        BY <1>7, <1>9, <3>2, <3>4
      <4> QED BY <1>8, <3>2, <3>3, <4>1
    <3> QED BY <1>1, <1>5, <2>2, <3>4, Zenon DEF TraceContinued
  <2> QED BY <2>1, <2>2
<1> QED BY <1>11, <1>12, <1>13 DEF HeadersComposed

\* The headers of an upstream request are put together right, whatever the client sent
\* and the operator configured: credentials of the cluster that are valid on the wire win
\* over the client's (others are not set, and only what the client sent stands there), no header of one hop or on the deny list is relayed, and the upstream's span hangs in the
\* client's trace (opensearch.rs send).
THEOREM EgressHeaders == EgressSpec => []HeadersComposed
<1>1. EgressInv => HeadersComposed
  <2> SUFFICES ASSUME EgressInv PROVE HeadersComposed
    OBVIOUS
  <2>1. CASE Sent
    BY <2>1, Composed DEF EgressInv
  <2>2. CASE ~Sent
    BY <2>2 DEF HeadersComposed, CredentialsWin, HeadersKeptBack, TraceContinued
  <2> QED BY <2>1, <2>2
<1> QED BY <1>1, EgressInvariant, PTL

\* No arm of the match in classify() names more than three segments.
LEMMA RouteShapes ==
  /\ Len(Routes) = 17
  /\ \A i \in 1 .. 17 : Len(Routes[i].shape) \in 1 .. 3
  BY DEF Routes

LEMMA LongUnmatched ==
  ASSUME NEW T, NEW segments \in Seq(T), NEW method, Len(segments) > 3
  PROVE  Match(segments, method) =
           IF segments[1] \in {<<"_cat">>, <<"_cluster">>, <<"_nodes">>}
           THEN [endpoint |-> "Admin", index |-> <<>>, doc_id |-> Nil]
           ELSE [endpoint |-> "Unknown", index |-> segments[1], doc_id |-> Nil]
<1>1. ASSUME NEW i \in 1 .. Len(Routes)
      PROVE  ~matches(Routes[i].shape, segments)
  <2>1. PICK shape : shape = Routes[i].shape
    OBVIOUS
  <2>2. Len(shape) \in 1 .. 3
    BY <2>1, RouteShapes
  <2>3. Len(segments) \in Nat
    OBVIOUS
  <2>4. Len(shape) # Len(segments)
    <3>1. PICK short \in 1 .. 3 : short = Len(shape)
      BY <2>2
    <3>2. PICK long \in Nat : long = Len(segments) /\ long > 3
      BY <2>3
    <3>3. short # long
      BY <3>2
    <3> QED BY <3>1, <3>2, <3>3, Zenon
  <2> QED BY <2>1, <2>4 DEF matches
<1>2. SelectInSeq(Routes, LAMBDA r : matches(r.shape, segments)) = 0
  BY <1>1 DEF SelectInSeq
<1>3. segments # <<>>
  OBVIOUS
<1> QED BY <1>2, <1>3, Zenon DEF Match

\* The buffer of four segments in classify() never makes a path look like another one:
\* every list of segments is classified from its first four as it is in full.
THEOREM BufferSuffices ==
  ASSUME NEW T, NEW segments \in Seq(T), NEW method
  PROVE  Match(kept(segments), method) = Match(segments, method)
<1>1. CASE Len(segments) < 4
  <2>1. kept(segments) = segments
    BY <1>1 DEF kept
  <2> QED BY <2>1
<1>2. CASE ~(Len(segments) < 4)
  <2>1. PICK four : four = kept(segments)
    OBVIOUS
  <2>2. four \in Seq(T) /\ Len(four) > 3 /\ four[1] = segments[1]
    BY <1>2, <2>1 DEF kept
  <2>3. Len(segments) > 3
    BY <1>2
  <2> QED BY <2>1, <2>2, <2>3, LongUnmatched, Zenon
<1> QED BY <1>1, <1>2

-----------------------------------------------------------------------------
(* Percent-encoding. *)

LEMMA CodeFacts ==
  /\ DOMAIN Code = {Slash, Question, Percent, Ampersand}
  /\ Percent \notin {Slash, Question}
  /\ \A c \in DOMAIN Code : Code[c] \notin {Slash, Question, Percent}
  /\ \A c, d \in DOMAIN Code : Code[c] = Code[d] => c = d
<1>1. DOMAIN Code = {Slash, Question, Percent, Ampersand}
  BY DEF Code
<1>2. /\ Slash # Question /\ Slash # Percent /\ Slash # Ampersand /\ Question # Percent /\ Question # Ampersand
      /\ Percent # Ampersand
  BY Zenon DEF Slash, Question, Percent, Ampersand
<1>3. Code[Slash] = "2F" /\ Code[Question] = "3F" /\ Code[Percent] = "25" /\ Code[Ampersand] = "26"
  BY <1>2 DEF Code
<1>4. \A v \in {"2F", "3F", "25", "26"} : v \notin {Slash, Question, Percent}
  BY Zenon DEF Slash, Question, Percent
<1> QED BY <1>1, <1>2, <1>3, <1>4

\* What encode() makes of a character, and the character a code stands for.
Piece(c) == IF c \in DOMAIN Code THEN <<Percent, Code[c]>> ELSE <<c>>
CharOf(v) == CHOOSE c \in DOMAIN Code : Code[c] = v

LEMMA CharIs ==
  ASSUME NEW c \in DOMAIN Code
  PROVE  CharOf(Code[c]) = c
  BY CodeFacts DEF CharOf

\* A list of texts over some characters.
LEMMA ListOf ==
  ASSUME NEW C, NEW n \in Nat, NEW s, DOMAIN s = 1 .. n, s = [k \in 1 .. n |-> s[k]], \A k \in 1 .. n : s[k] \in Seq(C)
  PROVE  s \in Seq(Seq(C)) /\ Len(s) = n
<1>1. PICK Q : Q = Seq(C)
  OBVIOUS
<1>2. s \in [1 .. n -> Q]
  BY <1>1
<1>3. s \in Seq(Q) /\ Len(s) = n
  BY ONLY n \in Nat, <1>2
<1> QED BY <1>1, <1>3

\* The pieces of an encoded text, and what they add up to.
Alphabet(C) == Percent \in C /\ \A c \in DOMAIN Code : c \in C /\ Code[c] \in C
Encodes(C, text, s, w) ==
  /\ Gathered(C, s, w) /\ Len(s) = Len(text) /\ encode(text) = w[Len(text)]
  /\ \A k \in 1 .. Len(text) : s[k] = Piece(text[k]) /\ s[k] \in Seq(C)

LEMMA EncodeIs ==
  ASSUME NEW C, Alphabet(C), NEW text \in Seq(C)
  PROVE  \E s, w : Encodes(C, text, s, w)
<1>1. PICK n \in Nat : n = Len(text)
  OBVIOUS
<1>2. DOMAIN text = 1 .. n /\ \A k \in 1 .. n : text[k] \in C
  BY <1>1
<1>3. \A c \in C : Piece(c) \in Seq(C)
  BY DEF Piece, Alphabet
<1>4. PICK s : s = [k \in 1 .. n |-> Piece(text[k])]
  OBVIOUS
<1>5. \A k \in 1 .. n : s[k] = Piece(text[k]) /\ s[k] \in Seq(C)
  BY <1>2, <1>3, <1>4
<1>6. DOMAIN s = 1 .. n /\ s = [k \in 1 .. n |-> s[k]]
  BY <1>4
<1>7. s \in Seq(Seq(C)) /\ Len(s) = n
  BY <1>5, <1>6, ListOf
<1>8. encode(text) = FlattenSeq(s)
  BY <1>2, <1>4 DEF encode, Piece
<1>9. PICK w : Gathered(C, s, w) /\ FlattenSeq(s) = w[Len(s)]
  BY <1>7, FlattenIs
<1> QED BY <1>1, <1>5, <1>7, <1>8, <1>9 DEF Encodes

\* No slash and no question mark, and no percent sign at the end.
Tidy(t) == (\A k \in 1 .. Len(t) : t[k] \notin {Slash, Question}) /\ (Len(t) # 0 => t[Len(t)] # Percent)

LEMMA PieceTidy ==
  ASSUME NEW c
  PROVE  Tidy(Piece(c)) /\ Len(Piece(c)) \in {1, 2}
<1>1. CASE c \in DOMAIN Code
  <2>1. PICK v, p : v = Code[c] /\ p = Percent
    OBVIOUS
  <2>2. v \notin {Slash, Question, Percent} /\ p \notin {Slash, Question}
    BY <1>1, <2>1, CodeFacts
  <2>3. PICK t : t = <<p, v>>
    OBVIOUS
  <2>4. Len(t) = 2 /\ t[1] = p /\ t[2] = v
    BY <2>3
  <2>5. Piece(c) = t
    BY <1>1, <2>1, <2>3 DEF Piece
  <2>6. Tidy(t)
    BY <2>1, <2>2, <2>4 DEF Tidy
  <2> QED BY <2>4, <2>5, <2>6
<1>2. CASE c \notin DOMAIN Code
  <2>1. c \notin {Slash, Question, Percent}
    BY <1>2, CodeFacts
  <2>2. PICK t : t = <<c>>
    OBVIOUS
  <2>3. Len(t) = 1 /\ t[1] = c
    BY <2>2
  <2>4. Piece(c) = t
    BY <1>2, <2>2 DEF Piece
  <2> QED BY <2>1, <2>3, <2>4 DEF Tidy
<1> QED BY <1>1, <1>2

LEMMA TidyMore ==
  ASSUME NEW C, NEW a \in Seq(C), NEW b \in Seq(C), Tidy(a), Tidy(b), Len(b) # 0
  PROVE  Tidy(a \o b)
<1>1. PICK m \in Nat, n \in Nat : m = Len(a) /\ n = Len(b)
  OBVIOUS
<1>2. PICK t : t = a \o b
  OBVIOUS
<1>3. Len(t) = m + n /\ (\A k \in 1 .. m : t[k] = a[k]) /\ \A k \in 1 .. n : t[m + k] = b[k]
  BY <1>1, <1>2, ConcatFacts
<1>4. ASSUME NEW k \in 1 .. m + n PROVE t[k] \notin {Slash, Question}
  <2>1. CASE k \in 1 .. m
    BY <1>1, <1>3, <2>1 DEF Tidy
  <2>2. CASE k \notin 1 .. m
    <3>1. k - m \in 1 .. n /\ m + (k - m) = k
      BY <2>2
    <3> QED BY <1>1, <1>3, <3>1 DEF Tidy
  <2> QED BY <2>1, <2>2
<1>5. t[m + n] # Percent
  BY <1>1, <1>3 DEF Tidy
<1> QED BY <1>2, <1>3, <1>4, <1>5 DEF Tidy

LEMMA EncodedTidy ==
  ASSUME NEW C, NEW text, NEW s, NEW w, NEW n \in Nat, n = Len(text), Encodes(C, text, s, w)
  PROVE  \A k \in 0 .. n : Tidy(w[k])
<1>1. PICK S : S = {k \in Nat : k <= n => Tidy(w[k])}
  OBVIOUS
<1>2. 0 \in S
  <2>1. Tidy(<<>>)
    BY DEF Tidy
  <2> QED BY <1>1, <2>1 DEF Encodes, Gathered
<1>3. ASSUME NEW k \in S PROVE k + 1 \in S
  <2>1. k \in Nat /\ (k <= n => Tidy(w[k]))
    BY <1>1
  <2>2. SUFFICES ASSUME k + 1 <= n PROVE Tidy(w[k + 1])
    BY <1>1, <2>1
  <2>3. k + 1 \in 1 .. n /\ (k + 1) - 1 = k /\ k <= n /\ k \in 0 .. n
    BY <2>1, <2>2
  <2>4. w[k + 1] = w[k] \o s[k + 1] /\ w[k] \in Seq(C)
    BY <2>3 DEF Encodes, Gathered
  <2>5. s[k + 1] = Piece(text[k + 1]) /\ s[k + 1] \in Seq(C)
    BY <2>3 DEF Encodes
  <2>6. PICK a \in Seq(C), b \in Seq(C) : a = w[k] /\ b = s[k + 1]
    BY <2>4, <2>5
  <2>7. Tidy(a) /\ Tidy(b) /\ Len(b) # 0
    <3>1. Tidy(b) /\ Len(b) \in {1, 2}
      BY <2>5, <2>6, PieceTidy, Zenon
    <3>2. Tidy(w[k])
      BY <2>1, <2>3
    <3>3. Tidy(a)
      BY <2>6, <3>2, Zenon
    <3>4. Len(b) # 0
      BY ONLY <3>1
    <3> QED BY <3>1, <3>3, <3>4, Zenon
  <2>8. Tidy(a \o b)
    BY ONLY a \in Seq(C), b \in Seq(C), <2>7, TidyMore
  <2> QED BY <2>4, <2>6, <2>8
<1>4. S \subseteq Nat
  BY <1>1
<1>5. \A k \in Nat : k \in S
  BY ONLY <1>2, <1>3, <1>4, CountedUp
<1> QED BY <1>1, <1>5

\* The first texts of a list are at the beginning of all that follow.
LEMMA GatheredBegins ==
  ASSUME NEW C, NEW s, NEW w, NEW n \in Nat, n = Len(s), Gathered(C, s, w), \A j \in 1 .. n : s[j] \in Seq(C),
         NEW k \in 0 .. n
  PROVE  BeginAlike(w[k], w[n], Len(w[k]))
<1>1. PICK S : S = {d \in Nat : k + d <= n => BeginAlike(w[k], w[k + d], Len(w[k]))}
  OBVIOUS
<1>2. PICK a \in Seq(C), m \in Nat : a = w[k] /\ m = Len(a)
  <2>1. w[k] \in Seq(C)
    BY DEF Gathered
  <2>2. PICK a \in Seq(C) : a = w[k]
    BY <2>1
  <2>3. Len(a) \in Nat
    OBVIOUS
  <2> QED BY <2>2, <2>3
<1>3. 0 \in S
  <2>1. k + 0 = k
    OBVIOUS
  <2>2. BeginAlike(a, a, m)
    BY <1>2 DEF BeginAlike
  <2> QED BY <1>1, <1>2, <2>1, <2>2
<1>4. ASSUME NEW d \in S PROVE d + 1 \in S
  <2>1. d \in Nat /\ (k + d <= n => BeginAlike(a, w[k + d], m))
    BY <1>1, <1>2
  <2>2. SUFFICES ASSUME k + (d + 1) <= n PROVE BeginAlike(a, w[k + (d + 1)], m)
    BY <1>1, <1>2, <2>1
  <2>3. k + (d + 1) \in 1 .. n /\ (k + (d + 1)) - 1 = k + d /\ k + d <= n /\ k + d \in 0 .. n
    BY <2>1, <2>2
  <2>4. w[k + (d + 1)] = w[k + d] \o s[k + (d + 1)] /\ w[k + d] \in Seq(C) /\ s[k + (d + 1)] \in Seq(C)
    BY <2>3 DEF Gathered
  <2>5. PICK b \in Seq(C), c \in Seq(C) : b = w[k + d] /\ c = s[k + (d + 1)]
    BY <2>4
  <2>6. BeginAlike(a, b, m)
    BY <2>1, <2>3, <2>5
  <2>7. Len(b \o c) = Len(b) + Len(c) /\ \A i \in 1 .. Len(b) : (b \o c)[i] = b[i]
    BY ConcatFacts
  <2>8. BeginAlike(a, b \o c, m)
    <3>1. PICK x \in Nat, y \in Nat : x = Len(b) /\ y = Len(c)
      OBVIOUS
    <3>2. m <= x /\ m <= Len(a) /\ \A i \in 1 .. m : a[i] = b[i]
      BY <2>6, <3>1 DEF BeginAlike
    <3>3. PICK t : t = b \o c
      OBVIOUS
    <3>4. Len(t) = x + y /\ \A i \in 1 .. x : t[i] = b[i]
      BY <2>7, <3>1, <3>3
    <3>5. m <= Len(t)
      BY <3>2, <3>4
    <3>6. \A i \in 1 .. m : a[i] = t[i]
      BY <3>2, <3>4
    <3> QED BY <3>2, <3>3, <3>5, <3>6 DEF BeginAlike
  <2> QED BY <2>4, <2>5, <2>8
<1>5. S \subseteq Nat
  BY <1>1
<1>6. n - k \in Nat
  OBVIOUS
<1>7. n - k \in S
  BY ONLY <1>3, <1>4, <1>5, <1>6, CountedUp
<1>8. k + (n - k) = n
  OBVIOUS
<1>9. n <= n => BeginAlike(w[k], w[n], Len(w[k]))
  BY <1>1, <1>7, <1>8
<1> QED BY <1>9

\* What Decoded() makes of a position.
Unescaped(text, k) ==
  IF Escaped(text, k) THEN <<CharOf(text[k])>> ELSE IF k < Len(text) /\ Escaped(text, k + 1) THEN <<>> ELSE <<text[k]>>
Decodes(C, text, s, w) ==
  /\ Gathered(C, s, w) /\ Len(s) = Len(text) /\ Decoded(text) = w[Len(text)]
  /\ \A k \in 1 .. Len(text) : s[k] = Unescaped(text, k)

LEMMA DecodeIs ==
  ASSUME NEW C, Alphabet(C), NEW text \in Seq(C)
  PROVE  \E s, w : Decodes(C, text, s, w)
<1>1. PICK n \in Nat : n = Len(text)
  OBVIOUS
<1>2. DOMAIN text = 1 .. n /\ \A k \in 1 .. n : text[k] \in C
  BY <1>1
<1>3. ASSUME NEW k \in 1 .. n PROVE Unescaped(text, k) \in Seq(C)
  <2>1. CASE Escaped(text, k)
    <3>1. PICK c \in DOMAIN Code : Code[c] = text[k]
      BY <2>1 DEF Escaped
    <3>2. CharOf(text[k]) = c /\ c \in C
      BY <3>1, CharIs DEF Alphabet
    <3>3. Unescaped(text, k) = <<c>>
      BY <2>1, <3>2 DEF Unescaped
    <3> QED BY <3>2, <3>3
  <2>2. CASE ~Escaped(text, k)
    <3>1. Unescaped(text, k) \in {<<>>, <<text[k]>>}
      BY <2>2 DEF Unescaped
    <3>2. PICK x \in C : x = text[k]
      BY <1>2
    <3>3. <<>> \in Seq(C) /\ <<x>> \in Seq(C)
      OBVIOUS
    <3> QED BY <3>1, <3>2, <3>3
  <2> QED BY <2>1, <2>2
<1>4. PICK s : s = [k \in 1 .. n |-> Unescaped(text, k)]
  OBVIOUS
<1>5. \A k \in 1 .. n : s[k] = Unescaped(text, k) /\ s[k] \in Seq(C)
  BY <1>3, <1>4
<1>6. DOMAIN s = 1 .. n /\ s = [k \in 1 .. n |-> s[k]]
  BY <1>4
<1>7. s \in Seq(Seq(C)) /\ Len(s) = n
  BY <1>5, <1>6, ListOf
<1>8. Decoded(text) = FlattenSeq(s)
  BY <1>2, <1>4, Zenon DEF Decoded, Unescaped, CharOf
<1>9. PICK w : Gathered(C, s, w) /\ FlattenSeq(s) = w[Len(s)]
  BY <1>7, FlattenIs
<1> QED BY <1>1, <1>5, <1>7, <1>8, <1>9 DEF Decodes

\* The first k + 1 characters of a text are the first k and one more.
LEMMA TakeMore ==
  ASSUME NEW C, NEW text \in Seq(C), NEW k \in Nat, k + 1 <= Len(text)
  PROVE  SubSeq(text, 1, k + 1) = SubSeq(text, 1, k) \o <<text[k + 1]>>
<1>1. PICK n \in Nat : n = Len(text)
  OBVIOUS
<1>2. \A i \in 1 .. n : text[i] \in C
  BY <1>1
<1>3. PICK a, b, c : a = SubSeq(text, 1, k) /\ b = SubSeq(text, 1, k + 1) /\ c = text[k + 1]
  OBVIOUS
<1>4. k <= n /\ k + 1 <= n /\ k + 1 \in 1 .. n
  BY <1>1
<1>5. a \in Seq(C) /\ Len(a) = k /\ \A i \in 1 .. k : a[i] = text[i]
  BY <1>1, <1>3, <1>4
<1>6. b \in Seq(C) /\ Len(b) = k + 1 /\ \A i \in 1 .. k + 1 : b[i] = text[i]
  BY <1>1, <1>3, <1>4
<1>7. c \in C
  BY <1>2, <1>3, <1>4
<1>8. PICK d : d = a \o <<c>>
  OBVIOUS
<1>9. d \in Seq(C) /\ Len(d) = k + 1 /\ (\A i \in 1 .. k : d[i] = a[i]) /\ d[k + 1] = c
  BY <1>5, <1>7, <1>8
<1>10. \A i \in 1 .. k + 1 : b[i] = d[i]
  BY <1>3, <1>5, <1>6, <1>9
<1>11. b = d
  BY ONLY <1>6, <1>9, <1>10, TextsEqual
<1> QED BY <1>3, <1>8, <1>11

\* Encoded and decoded, a text is what it was.
LEMMA DecodeEncode ==
  ASSUME NEW C, Alphabet(C), NEW text \in Seq(C)
  PROVE  encode(text) \in Seq(C) /\ Tidy(encode(text)) /\ Decoded(encode(text)) = text
<1>1. PICK n \in Nat : n = Len(text)
  OBVIOUS
<1>2. PICK s, w : Encodes(C, text, s, w)
  BY EncodeIs
<1>3. /\ Gathered(C, s, w) /\ Len(s) = n /\ encode(text) = w[n]
      /\ \A k \in 1 .. n : s[k] = Piece(text[k]) /\ s[k] \in Seq(C)
  BY <1>1, <1>2 DEF Encodes
<1>4. \A k \in 0 .. n : Tidy(w[k])
  BY <1>1, <1>2, EncodedTidy
<1>5. \A k \in 0 .. n : w[k] \in Seq(C)
  BY <1>3 DEF Gathered
<1>6. n \in 0 .. n
  OBVIOUS
<1>7. PICK e \in Seq(C), l \in Nat : e = encode(text) /\ l = Len(e)
  <2>1. encode(text) \in Seq(C)
    BY <1>3, <1>5, <1>6
  <2>2. PICK e \in Seq(C) : e = encode(text)
    BY <2>1
  <2>3. Len(e) \in Nat
    OBVIOUS
  <2> QED BY <2>2, <2>3
<1>8. PICK d, v : Decodes(C, e, d, v)
  BY DecodeIs
<1>9. /\ Gathered(C, d, v) /\ Len(d) = l /\ Decoded(e) = v[l] /\ \A k \in 1 .. l : d[k] = Unescaped(e, k)
  BY <1>7, <1>8 DEF Decodes
<1>10. v[0] = <<>> /\ \A k \in 1 .. l : v[k] = v[k - 1] \o d[k]
  BY <1>9 DEF Gathered
<1>11. PICK S : S = {k \in Nat : k <= n => v[Len(w[k])] = SubSeq(text, 1, k)}
  OBVIOUS
<1>12. 0 \in S
  <2>1. w[0] = <<>>
    BY <1>3 DEF Gathered
  <2>2. Len(w[0]) = 0
    BY <2>1
  <2>3. SubSeq(text, 1, 0) = <<>>
    OBVIOUS
  <2> QED BY <1>10, <1>11, <2>2, <2>3
<1>13. ASSUME NEW k \in S PROVE k + 1 \in S
  <2>1. k \in Nat /\ (k <= n => v[Len(w[k])] = SubSeq(text, 1, k))
    BY <1>11
  <2>2. SUFFICES ASSUME k + 1 <= n PROVE v[Len(w[k + 1])] = SubSeq(text, 1, k + 1)
    BY <1>11, <2>1
  <2>3. k + 1 \in 1 .. n /\ (k + 1) - 1 = k /\ k <= n /\ k \in 0 .. n /\ k + 1 \in 0 .. n
    BY <2>1, <2>2
  <2>4. PICK a \in Seq(C), b \in Seq(C), c \in C : a = w[k] /\ b = w[k + 1] /\ c = text[k + 1]
    BY <1>1, <1>5, <2>3
  <2>5. s[k + 1] = Piece(c) /\ Piece(c) \in Seq(C)
    BY <1>3, <2>3, <2>4
  <2>6. b = a \o Piece(c)
    BY <1>3, <2>3, <2>4, <2>5 DEF Gathered
  <2>7. PICK m \in Nat : m = Len(a)
    OBVIOUS
  <2>8. PICK p \in Seq(C), h \in Nat : p = Piece(c) /\ h = Len(p)
    <3>1. PICK p \in Seq(C) : p = Piece(c)
      BY <2>5
    <3>2. Len(p) \in Nat
      OBVIOUS
    <3> QED BY <3>1, <3>2
  <2>9. Len(b) = m + h /\ (\A i \in 1 .. m : b[i] = a[i]) /\ \A i \in 1 .. h : b[m + i] = p[i]
    <3>1. b = a \o p
      BY <2>6, <2>8
    <3> QED BY <2>7, <2>8, <3>1, ConcatFacts
  <2>10. m + h <= l /\ \A i \in 1 .. m + h : b[i] = e[i]
    <3>1. BeginAlike(w[k + 1], w[n], Len(w[k + 1]))
      BY <1>3, <2>3, GatheredBegins
    <3>2. BeginAlike(b, e, m + h)
      BY <1>3, <1>7, <2>4, <2>9, <3>1
    <3> QED BY <1>7, <3>2 DEF BeginAlike
  <2>11. m # 0 => e[m] # Percent
    <3>1. Tidy(a)
      BY <1>4, <2>3, <2>4
    <3>2. m # 0 => a[m] # Percent
      BY <2>7, <3>1 DEF Tidy
    <3>3. m # 0 => m \in 1 .. m /\ m \in 1 .. m + h
      OBVIOUS
    <3> QED BY <2>9, <2>10, <3>2, <3>3
  <2>12. ~Escaped(e, m + 1)
    <3>1. m + 1 > 1 => m # 0
      OBVIOUS
    <3>2. (m + 1) - 1 = m
      OBVIOUS
    <3> QED BY <2>11, <3>1, <3>2 DEF Escaped
  <2>13. PICK q : q = SubSeq(text, 1, k)
    OBVIOUS
  <2>14. q \in Seq(C) /\ v[m] = q /\ SubSeq(text, 1, k + 1) = q \o <<c>>
    <3>1. SubSeq(text, 1, k + 1) = SubSeq(text, 1, k) \o <<text[k + 1]>>
      BY <1>1, <2>1, <2>2, TakeMore
    <3>2. q \in Seq(C)
      BY <1>1, <2>3, <2>13
    <3> QED BY <2>1, <2>3, <2>4, <2>7, <2>13, <3>1, <3>2
  <2>15. CASE c \notin DOMAIN Code
    <3>1. p = <<c>> /\ h = 1
      BY <2>8, <2>15 DEF Piece
    <3>2. p[1] = c
      BY <3>1
    <3>3. 1 \in 1 .. h /\ m + 1 \in 1 .. m + h /\ m + 1 <= l /\ m + 1 \in 1 .. l /\ (m + 1) - 1 = m /\ Len(b) = m + 1
      BY <2>9, <2>10, <3>1
    <3>4. e[m + 1] = c
      BY <2>9, <2>10, <3>2, <3>3
    <3>5. c # Percent
      BY <2>15, CodeFacts
    <3>6. ~Escaped(e, (m + 1) + 1)
      <4>1. ((m + 1) + 1) - 1 = m + 1
        OBVIOUS
      <4> QED BY <3>4, <3>5, <4>1 DEF Escaped
    <3>7. d[m + 1] = <<c>>
      <4>1. Unescaped(e, m + 1) = <<e[m + 1]>>
        BY <2>12, <3>6, Zenon DEF Unescaped
      <4> QED BY <1>9, <3>3, <3>4, <4>1
    <3>8. v[m + 1] = v[m] \o d[m + 1]
      BY <1>10, <3>3
    <3> QED BY <2>4, <2>14, <3>3, <3>7, <3>8
  <2>16. CASE c \in DOMAIN Code
    <3>1. PICK x, y : x = Percent /\ y = Code[c]
      OBVIOUS
    <3>2. p = <<x, y>>
      BY <2>8, <2>16, <3>1 DEF Piece
    <3>3. h = 2 /\ p[1] = x /\ p[2] = y
      BY <2>8, <3>2
    <3>4. /\ 1 \in 1 .. h /\ 2 \in 1 .. h /\ m + 1 \in 1 .. m + h /\ m + 2 \in 1 .. m + h /\ m + 1 \in 1 .. l
          /\ m + 2 \in 1 .. l /\ (m + 1) - 1 = m /\ (m + 2) - 1 = m + 1 /\ Len(b) = m + 2 /\ (m + 1) + 1 = m + 2
          /\ m + 1 < l /\ m + 2 > 1
      BY <2>9, <2>10, <3>3
    <3>5. e[m + 1] = x /\ e[m + 2] = y
      BY <2>9, <2>10, <3>3, <3>4
    <3>6. Escaped(e, m + 2)
      BY <2>16, <3>1, <3>4, <3>5 DEF Escaped
    <3>7. d[m + 1] = <<>>
      <4>1. Unescaped(e, m + 1) = <<>>
        BY <1>7, <2>12, <3>4, <3>6 DEF Unescaped
      <4> QED BY <1>9, <3>4, <4>1
    <3>8. d[m + 2] = <<c>>
      <4>1. CharOf(e[m + 2]) = c
        BY <2>16, <3>1, <3>5, CharIs
      <4>2. Unescaped(e, m + 2) = <<c>>
        BY <3>6, <4>1 DEF Unescaped
      <4> QED BY <1>9, <3>4, <4>2
    <3>9. v[m + 1] = v[m] \o d[m + 1] /\ v[m + 2] = v[m + 1] \o d[m + 2]
      BY <1>10, <3>4
    <3>10. v[m + 1] = q
      BY <2>14, <3>7, <3>9, ConcatEmpty
    <3> QED BY <2>4, <2>14, <3>4, <3>8, <3>9, <3>10
  <2> QED BY <2>15, <2>16
<1>14. S \subseteq Nat
  BY <1>11
<1>15. n \in S
  BY ONLY n \in Nat, <1>12, <1>13, <1>14, CountedUp
<1>16. v[l] = SubSeq(text, 1, n)
  BY <1>3, <1>7, <1>11, <1>15
<1>17. SubSeq(text, 1, n) = text
  BY <1>1
<1> QED BY <1>3, <1>4, <1>6, <1>7, <1>9, <1>16, <1>17

-----------------------------------------------------------------------------
(* Reading a URI. *)

\* The first position of a character, or none.
FirstOf(t, x) == LET I == {i \in 1 .. Len(t) : t[i] = x} IN IF I # {} THEN Min(I) ELSE 0

LEMMA FirstIs ==
  ASSUME NEW t, NEW x, NEW p \in Nat, p \in 1 .. Len(t), t[p] = x, \A k \in 1 .. p - 1 : t[k] # x, Len(t) \in Nat
  PROVE  FirstOf(t, x) = p
<1>1. PICK I : I = {i \in 1 .. Len(t) : t[i] = x}
  OBVIOUS
<1>2. p \in I /\ I \in SUBSET Nat /\ I # {}
  BY <1>1
<1>3. \A y \in I : p <= y
  BY <1>1
<1>4. PICK m : m = Min(I)
  OBVIOUS
<1>5. m \in I /\ \A y \in I : m <= y
  BY <1>2, <1>4, LeastExists DEF Min
<1>6. m = p
  BY <1>2, <1>3, <1>5
<1>7. FirstOf(t, x) = IF I # {} THEN Min(I) ELSE 0
  BY <1>1, Zenon DEF FirstOf
<1> QED BY <1>2, <1>4, <1>6, <1>7

LEMMA FirstNone ==
  ASSUME NEW t, NEW x, \A k \in 1 .. Len(t) : t[k] # x
  PROVE  FirstOf(t, x) = 0
  BY DEF FirstOf

\* What is read in the two parts of a URI.
SlashesOf(path) == {k \in DOMAIN path : path[k] = Slash}
IdOf(path) == IF Len(path) < 5 THEN Nil ELSE Decoded(SubSeq(path, 6, Len(path)))
RoutingOf(query) ==
  IF FirstOf(query, RoutingIs) = 0 THEN Nil
  ELSE Decoded(SubSeq(query, FirstOf(query, RoutingIs) + 1, Len(query)))
Parts(path, query) == [slashes |-> SlashesOf(path), id |-> IdOf(path), routing |-> RoutingOf(query)]

LEMMA ReadAsParts ==
  ASSUME NEW uri
  PROVE  ReadAs(uri) =
           IF FirstOf(uri, Question) = 0 THEN Parts(uri, <<>>)
           ELSE Parts(SubSeq(uri, 1, FirstOf(uri, Question) - 1), SubSeq(uri, FirstOf(uri, Question) + 1, Len(uri)))
<1>1. PICK cut : cut = FirstOf(uri, Question)
  OBVIOUS
<1>2. PICK path, query : /\ path = IF cut = 0 THEN uri ELSE SubSeq(uri, 1, cut - 1)
                         /\ query = IF cut = 0 THEN <<>> ELSE SubSeq(uri, cut + 1, Len(uri))
  OBVIOUS
<1>3. ReadAs(uri) = Parts(path, query)
  BY <1>1, <1>2, Zenon DEF ReadAs, SelectInSeq, FirstOf, Parts, SlashesOf, IdOf, RoutingOf
<1> QED BY <1>1, <1>2, <1>3

\* A text is another, one character and a third.
Joined(t, a, x, b, m, n) ==
  /\ Len(t) = (m + 1) + n /\ (\A k \in 1 .. m : t[k] = a[k]) /\ t[m + 1] = x
  /\ \A k \in 1 .. n : t[(m + 1) + k] = b[k]

\* A text is two others.
Follows(C, t, a, b, m, n) ==
  /\ t \in Seq(C) /\ Len(t) = m + n
  /\ (\A k \in 1 .. m : t[k] = a[k]) /\ \A k \in 1 .. n : t[m + k] = b[k]

LEMMA ConcatIs ==
  ASSUME NEW C, NEW a, NEW b, a \in Seq(C), b \in Seq(C), NEW m \in Nat, NEW n \in Nat, m = Len(a), n = Len(b)
  PROVE  Follows(C, a \o b, a, b, m, n)
  BY ConcatFacts DEF Follows

CutAt(t, x, a, b, m) ==
  FirstOf(t, x) = m + 1 /\ SubSeq(t, 1, m) = a /\ SubSeq(t, (m + 1) + 1, Len(t)) = b

LEMMA JoinedCut ==
  ASSUME NEW C, NEW t \in Seq(C), NEW a \in Seq(C), NEW x, NEW b \in Seq(C), NEW m \in Nat, NEW n \in Nat,
         m = Len(a), n = Len(b), Joined(t, a, x, b, m, n), \A k \in 1 .. m : a[k] # x
  PROVE  CutAt(t, x, a, b, m)
<1>1. /\ Len(t) = (m + 1) + n /\ (\A k \in 1 .. m : t[k] = a[k]) /\ t[m + 1] = x
      /\ \A k \in 1 .. n : t[(m + 1) + k] = b[k]
  BY DEF Joined
<1>2. FirstOf(t, x) = m + 1
  <2>1. m + 1 \in Nat /\ m + 1 \in 1 .. Len(t) /\ (m + 1) - 1 = m /\ Len(t) \in Nat
    BY <1>1
  <2>2. \A k \in 1 .. (m + 1) - 1 : t[k] # x
    BY <1>1, <2>1
  <2> QED BY <1>1, <2>1, <2>2, FirstIs
<1>3. SubSeq(t, 1, m) = a
  <2>1. PICK c : c = SubSeq(t, 1, m)
    OBVIOUS
  <2>2. m <= Len(t)
    BY <1>1
  <2>3. c \in Seq(C) /\ Len(c) = m /\ \A k \in 1 .. m : c[k] = t[k]
    BY <2>1, <2>2
  <2>4. \A k \in 1 .. Len(c) : c[k] = a[k]
    BY <1>1, <2>3
  <2>5. c = a
    BY ONLY a \in Seq(C), m = Len(a), <2>3, <2>4, TextsEqual
  <2> QED BY <2>1, <2>5
<1>4. SubSeq(t, (m + 1) + 1, Len(t)) = b
  <2>1. PICK c, l : c = SubSeq(t, (m + 1) + 1, Len(t)) /\ l = Len(t)
    OBVIOUS
  <2>2. l = (m + 1) + n /\ l \in Nat
    BY <1>1, <2>1
  <2>3. c \in Seq(C) /\ Len(c) = n /\ \A k \in 1 .. n : c[k] = t[(m + 1) + k]
    <3>1. c = SubSeq(t, m + 2, l)
      BY <2>1
    <3>2. c \in Seq(C) /\ Len(c) = n
      <4>1. (m + 2) - 1 <= l /\ m + 2 \in 1 .. l + 1 /\ (l - (m + 2)) + 1 = n
        BY <2>2
      <4>2. l = Len(t)
        BY <2>1
      <4> QED BY ONLY t \in Seq(C), m \in Nat, n \in Nat, <2>2, <3>1, <4>1, <4>2
    <3>3. \A k \in 1 .. n : c[k] = t[(m + 2) + k - 1]
      BY <2>1, <2>2, <3>1
    <3>4. \A k \in 1 .. n : (m + 2) + k - 1 = (m + 1) + k
      OBVIOUS
    <3> QED BY <3>2, <3>3, <3>4
  <2>4. \A k \in 1 .. Len(c) : c[k] = b[k]
    BY <1>1, <2>3
  <2>5. c = b
    BY ONLY b \in Seq(C), n = Len(b), <2>3, <2>4, TextsEqual
  <2> QED BY <2>1, <2>5
<1> QED BY <1>2, <1>3, <1>4 DEF CutAt

LEMMA ReadJoined ==
  ASSUME NEW C, NEW t \in Seq(C), NEW a \in Seq(C), NEW b \in Seq(C), NEW m \in Nat, NEW n \in Nat,
         m = Len(a), n = Len(b), Joined(t, a, Question, b, m, n), \A k \in 1 .. m : a[k] # Question
  PROVE  ReadAs(t) = Parts(a, b)
<1>1. PICK x : x = Question
  OBVIOUS
<1>2. Joined(t, a, x, b, m, n) /\ \A k \in 1 .. m : a[k] # x
  BY <1>1
<1>3. CutAt(t, x, a, b, m)
  BY ONLY t \in Seq(C), a \in Seq(C), b \in Seq(C), m \in Nat, n \in Nat, m = Len(a), n = Len(b), <1>2, JoinedCut
<1>4. m + 1 # 0 /\ (m + 1) - 1 = m
  OBVIOUS
<1> QED BY <1>1, <1>3, <1>4, ReadAsParts DEF CutAt

LEMMA ReadPlain ==
  ASSUME NEW t, \A k \in 1 .. Len(t) : t[k] # Question
  PROVE  ReadAs(t) = Parts(t, <<>>)
  BY FirstNone, ReadAsParts

LEMMA RoutingJoined ==
  ASSUME NEW C, NEW t \in Seq(C), NEW a \in Seq(C), NEW b \in Seq(C), NEW m \in Nat, NEW n \in Nat,
         m = Len(a), n = Len(b), Joined(t, a, RoutingIs, b, m, n), \A k \in 1 .. m : a[k] # RoutingIs
  PROVE  RoutingOf(t) = Decoded(b)
<1>1. PICK x : x = RoutingIs
  OBVIOUS
<1>2. Joined(t, a, x, b, m, n) /\ \A k \in 1 .. m : a[k] # x
  BY <1>1
<1>3. CutAt(t, x, a, b, m)
  BY ONLY t \in Seq(C), a \in Seq(C), b \in Seq(C), m \in Nat, n \in Nat, m = Len(a), n = Len(b), <1>2, JoinedCut
<1>4. m + 1 # 0
  OBVIOUS
<1> QED BY <1>1, <1>3, <1>4 DEF RoutingOf, CutAt

LEMMA RoutingNone ==
  ASSUME NEW t, \A k \in 1 .. Len(t) : t[k] # RoutingIs
  PROVE  RoutingOf(t) = Nil
  BY FirstNone DEF RoutingOf

Verbs == {"_doc", "_create", "_update"}
IndexName == "idx"

LEMMA WordsApart ==
  /\ \A v \in Verbs : v \notin {Slash, Question}
  /\ IndexName \notin {Slash, Question} /\ Slash # Question
  /\ RoutingIs \notin {OpTypeCreate, Ampersand}
  BY Zenon DEF Verbs, IndexName, Slash, Question, Ampersand, RoutingIs, OpTypeCreate

\* Characters enough for every URI.
Enough(C) ==
  /\ Alphabet(C) /\ Verbs \subseteq C
  /\ Slash \in C /\ Question \in C /\ Ampersand \in C /\ IndexName \in C /\ RoutingIs \in C /\ OpTypeCreate \in C

\* The path of a document.
Stem(verb) == <<Slash, IndexName, Slash, verb>>
PathFor(verb, id) == Stem(verb) \o (IF id = Nil THEN <<>> ELSE <<Slash>> \o encode(id))

\* What is read in the path is what was put there.
PathReads(C, path, id) ==
  /\ path \in Seq(C) /\ SlashesOf(path) = (IF id = Nil THEN {1, 3} ELSE {1, 3, 5}) /\ IdOf(path) = id
  /\ \A k \in 1 .. Len(path) : path[k] # Question

LEMMA StemFacts ==
  ASSUME NEW C, Enough(C), NEW verb \in Verbs
  PROVE  /\ Stem(verb) \in Seq(C) /\ Len(Stem(verb)) = 4
         /\ Stem(verb)[1] = Slash /\ Stem(verb)[2] = IndexName /\ Stem(verb)[3] = Slash /\ Stem(verb)[4] = verb
<1>1. PICK a \in C, b \in C, c \in C : a = Slash /\ b = IndexName /\ c = verb
  BY DEF Enough
<1>2. PICK t : t = <<a, b, a, c>>
  OBVIOUS
<1>3. t \in Seq(C) /\ Len(t) = 4 /\ t[1] = a /\ t[2] = b /\ t[3] = a /\ t[4] = c
  BY <1>2
<1>4. Stem(verb) = t
  BY <1>1, <1>2 DEF Stem
<1> QED BY <1>1, <1>3, <1>4

LEMMA PathBare ==
  ASSUME NEW C, Enough(C), NEW verb \in Verbs
  PROVE  PathReads(C, PathFor(verb, Nil), Nil)
<1>1. PICK t \in Seq(C) : t = Stem(verb)
  BY StemFacts
<1>2. Len(t) = 4 /\ t[1] = Slash /\ t[2] = IndexName /\ t[3] = Slash /\ t[4] = verb
  BY <1>1, StemFacts
<1>3. PathFor(verb, Nil) = t
  BY <1>1, ConcatEmpty DEF PathFor
<1>4. \A k \in 1 .. 4 : k \in {1, 2, 3, 4}
  OBVIOUS
<1>5. \A k \in 1 .. 4 : t[k] # Question
  BY <1>2, <1>4, WordsApart
<1>6. SlashesOf(t) = {1, 3}
  <2>1. DOMAIN t = 1 .. 4
    BY <1>2
  <2>2. \A k \in 1 .. 4 : t[k] = Slash <=> k \in {1, 3}
    BY <1>2, <1>4, WordsApart
  <2>3. {1, 3} \subseteq 1 .. 4
    OBVIOUS
  <2> QED BY <2>1, <2>2, <2>3 DEF SlashesOf
<1>7. IdOf(t) = Nil
  BY <1>2 DEF IdOf
<1> QED BY <1>2, <1>3, <1>5, <1>6, <1>7 DEF PathReads

LEMMA PathWithId ==
  ASSUME NEW C, Enough(C), NEW verb \in Verbs, NEW id \in Seq(C), id # Nil
  PROVE  PathReads(C, PathFor(verb, id), id)
<1>1. PICK t \in Seq(C) : t = Stem(verb)
  BY StemFacts
<1>2. Len(t) = 4 /\ t[1] = Slash /\ t[2] = IndexName /\ t[3] = Slash /\ t[4] = verb
  BY <1>1, StemFacts
<1>3. PICK e \in Seq(C) : e = encode(id) /\ Tidy(e) /\ Decoded(e) = id
  BY DecodeEncode DEF Enough
<1>4. PICK n \in Nat : n = Len(e)
  OBVIOUS
<1>5. PICK x \in C : x = Slash
  BY DEF Enough
<1>6. PICK f : f = <<x>> \o e
  OBVIOUS
<1>7. f \in Seq(C) /\ Len(f) = 1 + n /\ f[1] = x /\ \A k \in 1 .. n : f[1 + k] = e[k]
  <2>1. PICK g : g = <<x>>
    OBVIOUS
  <2>2. g \in Seq(C) /\ Len(g) = 1 /\ g[1] = x
    BY <2>1
  <2> QED BY <1>4, <1>6, <2>1, <2>2, ConcatFacts
<1>8. PICK p : p = t \o f
  OBVIOUS
<1>9. /\ p \in Seq(C) /\ Len(p) = 4 + (1 + n)
      /\ \A k \in 1 .. 4 : p[k] = t[k]
      /\ \A k \in 1 .. 1 + n : p[4 + k] = f[k]
  <2>1. 4 \in Nat /\ 1 + n \in Nat /\ 4 = Len(t) /\ 1 + n = Len(f)
    BY <1>2, <1>7
  <2>2. Follows(C, t \o f, t, f, 4, 1 + n)
    BY ONLY t \in Seq(C), <1>7, <2>1, ConcatIs
  <2> QED BY <1>8, <2>2 DEF Follows
<1>10. PathFor(verb, id) = p
  BY <1>1, <1>3, <1>5, <1>6, <1>8 DEF PathFor
<1>11. Joined(p, t, x, e, 4, n)
  <2>1. Len(p) = (4 + 1) + n
    BY <1>9
  <2>2. p[4 + 1] = x
    BY <1>7, <1>9
  <2>3. ASSUME NEW k \in 1 .. n PROVE p[(4 + 1) + k] = e[k]
    <3>1. 1 + k \in 1 .. 1 + n /\ 4 + (1 + k) = (4 + 1) + k
      OBVIOUS
    <3> QED BY <1>7, <1>9, <3>1
  <2> QED BY <1>9, <2>1, <2>2, <2>3 DEF Joined
<1>12. p[1] = Slash /\ p[2] = IndexName /\ p[3] = Slash /\ p[4] = verb /\ p[5] = Slash
  BY <1>2, <1>5, <1>9, <1>11 DEF Joined
<1>13. \A k \in 1 .. n : p[5 + k] \notin {Slash, Question}
  BY <1>3, <1>4, <1>11 DEF Joined, Tidy
<1>14. \A k \in 1 .. 5 + n : k \in {1, 2, 3, 4, 5} \/ (k - 5 \in 1 .. n /\ 5 + (k - 5) = k)
  OBVIOUS
<1>15. Len(p) = 5 + n /\ DOMAIN p = 1 .. 5 + n
  BY <1>9
<1>16. \A k \in 1 .. 5 + n : p[k] # Question
  BY <1>12, <1>13, <1>14, WordsApart
<1>17. SlashesOf(p) = {1, 3, 5}
  <2>1. \A k \in 1 .. 5 + n : p[k] = Slash <=> k \in {1, 3, 5}
    BY <1>12, <1>13, <1>14, WordsApart
  <2>2. {1, 3, 5} \subseteq 1 .. 5 + n
    OBVIOUS
  <2> QED BY <1>15, <2>1, <2>2 DEF SlashesOf
<1>18. IdOf(p) = id
  <2>1. SubSeq(p, 6, Len(p)) = e
    <3>1. PICK c, l : l = 5 + n /\ c = SubSeq(p, 6, l)
      OBVIOUS
    <3>2. l \in Nat /\ l = Len(p) /\ (6 - 1) <= l /\ 6 \in 1 .. l + 1 /\ (l - 6) + 1 = n
      BY <1>15, <3>1
    <3>3. c \in Seq(C) /\ Len(c) = n
      BY ONLY n \in Nat, <1>9, <3>1, <3>2
    <3>4. \A k \in 1 .. n : c[k] = p[6 + k - 1]
      BY <1>9, <3>1, <3>2
    <3>5. \A k \in 1 .. n : 6 + k - 1 = (4 + 1) + k
      OBVIOUS
    <3>6. \A k \in 1 .. Len(c) : c[k] = e[k]
      BY <1>11, <3>3, <3>4, <3>5 DEF Joined
    <3>7. c = e
      BY ONLY e \in Seq(C), n = Len(e), <3>3, <3>6, TextsEqual
    <3> QED BY <3>1, <3>2, <3>7
  <2>2. ~(Len(p) < 5)
    BY <1>15
  <2> QED BY <1>3, <2>1, <2>2 DEF IdOf
<1> QED BY <1>9, <1>10, <1>15, <1>16, <1>17, <1>18 DEF PathReads

\* A document's id, or none.
TextOf(C, t) == t = Nil \/ t \in Seq(C)

LEMMA PathIsRead ==
  ASSUME NEW C, Enough(C), NEW verb \in Verbs, NEW id, TextOf(C, id)
  PROVE  PathReads(C, PathFor(verb, id), id)
  BY PathBare, PathWithId DEF TextOf

LEMMA PairIs ==
  ASSUME NEW C, NEW x \in C, NEW y \in C
  PROVE  <<x, y>> = <<x>> \o <<y>>
<1>1. PICK g, h, w : g = <<x>> /\ h = <<y>> /\ w = <<x, y>>
  OBVIOUS
<1>2. g \in Seq(C) /\ Len(g) = 1 /\ g[1] = x /\ h \in Seq(C) /\ Len(h) = 1 /\ h[1] = y
  BY <1>1
<1>3. w \in Seq(C) /\ Len(w) = 2 /\ w[1] = x /\ w[2] = y
  BY <1>1
<1>4. 1 \in Nat
  OBVIOUS
<1>5. PICK t : t = g \o h
  OBVIOUS
<1>6. Follows(C, g \o h, g, h, 1, 1)
  BY ONLY <1>2, <1>4, ConcatIs
<1>7. t \in Seq(C) /\ Len(t) = 2 /\ t[1] = x /\ t[2] = y
  BY <1>2, <1>5, <1>6 DEF Follows
<1>8. Len(w) = Len(t) /\ \A k \in 1 .. Len(w) : w[k] = t[k]
  BY <1>3, <1>7
<1>9. w = t
  BY ONLY <1>3, <1>7, <1>8, TextsEqual
<1> QED BY <1>1, <1>5, <1>9

\* What is read in the query is what was put there.
LEMMA QueryRead ==
  ASSUME NEW C, Enough(C), NEW a \in Seq(C), \A k \in 1 .. Len(a) : a[k] # RoutingIs, NEW r \in Seq(C)
  PROVE  /\ (a \o <<RoutingIs>>) \o encode(r) \in Seq(C)
         /\ RoutingOf((a \o <<RoutingIs>>) \o encode(r)) = r
<1>1. PICK e \in Seq(C) : e = encode(r) /\ Decoded(e) = r
  BY DecodeEncode DEF Enough
<1>2. PICK m \in Nat, n \in Nat : m = Len(a) /\ n = Len(e)
  OBVIOUS
<1>3. PICK x \in C : x = RoutingIs
  BY DEF Enough
<1>4. PICK h : h = a \o <<x>>
  OBVIOUS
<1>5. h \in Seq(C) /\ Len(h) = m + 1 /\ h[m + 1] = x /\ \A k \in 1 .. m : h[k] = a[k]
  BY <1>2, <1>4
<1>6. PICK t : t = h \o e
  OBVIOUS
<1>7. /\ t \in Seq(C) /\ Len(t) = (m + 1) + n /\ (\A k \in 1 .. m + 1 : t[k] = h[k])
      /\ \A k \in 1 .. n : t[(m + 1) + k] = e[k]
  <2>1. m + 1 \in Nat /\ m + 1 = Len(h)
    BY <1>5
  <2>2. Follows(C, h \o e, h, e, m + 1, n)
    BY ONLY e \in Seq(C), n \in Nat, <1>2, <1>5, <2>1, ConcatIs
  <2> QED BY <1>6, <2>2 DEF Follows
<1>8. Joined(t, a, x, e, m, n)
  <2>1. t[m + 1] = x /\ \A k \in 1 .. m : t[k] = a[k]
    BY <1>5, <1>7
  <2> QED BY <1>7, <2>1 DEF Joined
<1>9. Joined(t, a, RoutingIs, e, m, n) /\ \A k \in 1 .. m : a[k] # RoutingIs
  BY <1>2, <1>3, <1>8
<1>10. RoutingOf(t) = Decoded(e)
  BY ONLY <1>2, <1>7, <1>9, a \in Seq(C), e \in Seq(C), m \in Nat, n \in Nat, RoutingJoined
<1>11. t = (a \o <<RoutingIs>>) \o encode(r)
  BY <1>1, <1>3, <1>4, <1>6
<1> QED BY <1>1, <1>7, <1>10, <1>11

\* A path and what follows it.
LEMMA ReadBehind ==
  ASSUME NEW C, NEW path, NEW id, PathReads(C, path, id), NEW query \in Seq(C), Question \in C
  PROVE  ReadAs(path \o (<<Question>> \o query)) = Parts(path, query)
<1>1. path \in Seq(C) /\ \A k \in 1 .. Len(path) : path[k] # Question
  BY DEF PathReads
<1>2. PICK a \in Seq(C) : a = path
  BY <1>1
<1>3. PICK m \in Nat, n \in Nat : m = Len(a) /\ n = Len(query)
  OBVIOUS
<1>4. PICK x \in C : x = Question
  OBVIOUS
<1>5. PICK g : g = <<x>>
  OBVIOUS
<1>6. g \in Seq(C) /\ Len(g) = 1 /\ g[1] = x
  BY <1>5
<1>7. PICK h : h = g \o query
  OBVIOUS
<1>8. h \in Seq(C) /\ Len(h) = 1 + n /\ h[1] = x /\ \A k \in 1 .. n : h[1 + k] = query[k]
  <2>1. 1 \in Nat
    OBVIOUS
  <2>2. Follows(C, g \o query, g, query, 1, n)
    BY ONLY query \in Seq(C), n \in Nat, <1>3, <1>6, <2>1, ConcatIs
  <2>3. 1 \in 1 .. 1
    OBVIOUS
  <2> QED BY <1>6, <1>7, <2>2, <2>3 DEF Follows
<1>9. PICK t : t = a \o h
  OBVIOUS
<1>10. /\ t \in Seq(C) /\ Len(t) = m + (1 + n) /\ (\A k \in 1 .. m : t[k] = a[k])
       /\ \A k \in 1 .. 1 + n : t[m + k] = h[k]
  <2>1. 1 + n \in Nat
    OBVIOUS
  <2>2. Follows(C, a \o h, a, h, m, 1 + n)
    BY ONLY a \in Seq(C), m \in Nat, <1>3, <1>8, <2>1, ConcatIs
  <2> QED BY <1>9, <2>2 DEF Follows
<1>11. Joined(t, a, x, query, m, n)
  <2>1. Len(t) = (m + 1) + n
    BY <1>10
  <2>2. t[m + 1] = x
    BY <1>8, <1>10
  <2>3. ASSUME NEW k \in 1 .. n PROVE t[(m + 1) + k] = query[k]
    <3>1. 1 + k \in 1 .. 1 + n /\ m + (1 + k) = (m + 1) + k
      OBVIOUS
    <3> QED BY <1>8, <1>10, <3>1
  <2> QED BY <1>10, <2>1, <2>2, <2>3 DEF Joined
<1>12. Joined(t, a, Question, query, m, n) /\ \A k \in 1 .. m : a[k] # Question
  BY <1>1, <1>2, <1>3, <1>4, <1>11
<1>13. ReadAs(t) = Parts(a, query)
  BY ONLY <1>3, <1>10, <1>12, a \in Seq(C), query \in Seq(C), m \in Nat, n \in Nat, ReadJoined
<1> QED BY <1>2, <1>4, <1>5, <1>7, <1>9, <1>13

\* What a document's URI should be read as.
Meant(id, routing) ==
  [slashes |-> IF id = Nil THEN {1, 3} ELSE {1, 3, 5}, id |-> id, routing |-> routing]

LEMMA PartsMeant ==
  ASSUME NEW C, NEW path, NEW id, PathReads(C, path, id), NEW query, NEW routing, RoutingOf(query) = routing
  PROVE  Parts(path, query) = Meant(id, routing)
  BY DEF PathReads, Parts, Meant

LEMMA RoutingEmpty == RoutingOf(<<>>) = Nil
  BY RoutingNone

LEMMA ActionRead ==
  ASSUME NEW C, Enough(C), NEW verb \in Verbs, NEW op, TextOf(C, op.id), TextOf(C, op.routing)
  PROVE  ReadAs(action_uri(verb, op)) = Meant(op.id, op.routing)
<1>1. PICK path, r : path = PathFor(verb, op.id) /\ r = op.routing
  OBVIOUS
<1>2. PathReads(C, path, op.id)
  BY <1>1, PathIsRead
<1>3. path \in Seq(C) /\ \A k \in 1 .. Len(path) : path[k] # Question
  BY <1>2 DEF PathReads
<1>4. action_uri(verb, op) = path \o (IF r = Nil THEN <<>> ELSE <<Question, RoutingIs>> \o encode(r))
  BY <1>1, Zenon DEF action_uri, PathFor, Stem, IndexName
<1>5. CASE r = Nil
  <2>1. action_uri(verb, op) = path \o <<>>
    BY <1>4, <1>5
  <2>2. path \o <<>> = path
    BY <1>3, ConcatEmpty
  <2>3. ReadAs(path) = Parts(path, <<>>)
    BY <1>3, ReadPlain
  <2>4. Parts(path, <<>>) = Meant(op.id, Nil)
    BY <1>2, RoutingEmpty, PartsMeant
  <2> QED BY <1>1, <1>5, <2>1, <2>2, <2>3, <2>4
<1>6. CASE r # Nil
  <2>1. r \in Seq(C)
    BY <1>1, <1>6 DEF TextOf
  <2>2. PICK e \in Seq(C) : e = encode(r)
    BY <2>1, DecodeEncode DEF Enough
  <2>3. PICK x \in C, y \in C : x = Question /\ y = RoutingIs
    BY DEF Enough
  <2>4. PICK none \in Seq(C) : none = <<>>
    <3>1. <<>> \in Seq(C)
      OBVIOUS
    <3> QED BY <3>1, Zenon
  <2>5. /\ (none \o <<RoutingIs>>) \o encode(r) \in Seq(C)
        /\ RoutingOf((none \o <<RoutingIs>>) \o encode(r)) = r
    <3>1. \A k \in 1 .. Len(none) : none[k] # RoutingIs
      BY <2>4
    <3> QED BY <2>1, <3>1, QueryRead
  <2>6. PICK query : query = (none \o <<y>>) \o e
    OBVIOUS
  <2>7. query \in Seq(C) /\ RoutingOf(query) = r
    BY <2>2, <2>3, <2>5, <2>6
  <2>8. <<x, y>> \o e = <<x>> \o query
    <3>1. <<x>> \in Seq(C) /\ <<y>> \in Seq(C)
      OBVIOUS
    <3>2. none \o <<y>> = <<y>>
      BY <2>4
    <3>3. <<x, y>> = <<x>> \o <<y>>
      BY PairIs
    <3>4. PICK g \in Seq(C), h \in Seq(C) : g = <<x>> /\ h = <<y>>
      BY <3>1
    <3>5. (g \o h) \o e = g \o (h \o e)
      BY ONLY g \in Seq(C), h \in Seq(C), e \in Seq(C), ConcatAssoc
    <3> QED BY <2>6, <3>2, <3>3, <3>4, <3>5
  <2>9. action_uri(verb, op) = path \o (<<Question>> \o query)
    BY <1>4, <1>6, <2>2, <2>3, <2>8
  <2>10. ReadAs(path \o (<<Question>> \o query)) = Parts(path, query)
    BY <1>2, <2>7, ReadBehind DEF Enough
  <2>11. Parts(path, query) = Meant(op.id, r)
    BY <1>2, <2>7, PartsMeant
  <2> QED BY <1>1, <2>9, <2>10, <2>11
<1> QED BY <1>5, <1>6

LEMMA CreateAutoRead ==
  ASSUME NEW C, Enough(C), NEW op, op.id = Nil, TextOf(C, op.routing)
  PROVE  ReadAs(create_auto_uri(op)) = Meant(op.id, op.routing)
<1>1. PICK verb \in Verbs : verb = "_doc"
  BY DEF Verbs
<1>2. PICK path \in Seq(C) : path = Stem(verb)
  BY StemFacts
<1>3. Len(path) = 4 /\ path[1] = Slash /\ path[2] = IndexName /\ path[3] = Slash /\ path[4] = verb
  BY <1>2, StemFacts
<1>4. PathReads(C, path, Nil)
  <2>1. PathFor(verb, Nil) = path
    BY <1>2, ConcatEmpty DEF PathFor
  <2> QED BY <2>1, PathBare
<1>5. \A k \in 1 .. 4 : path[k] # Question
  BY <1>3, <1>4 DEF PathReads
<1>6. PICK a \in C, b \in C, c \in C, d \in C :
        a = Question /\ b = OpTypeCreate /\ c = Ampersand /\ d = RoutingIs
  BY DEF Enough
<1>7. PICK i \in C, j \in C, v \in C : i = Slash /\ j = IndexName /\ v = verb
  BY DEF Enough
<1>8. PICK h : h = <<i, j, i, v, a, b>>
  OBVIOUS
<1>9. h \in Seq(C) /\ Len(h) = 6 /\ h[1] = i /\ h[2] = j /\ h[3] = i /\ h[4] = v /\ h[5] = a /\ h[6] = b
  BY <1>8
<1>10. PICK r : r = op.routing
  OBVIOUS
<1>11. create_auto_uri(op) = h \o (IF r = Nil THEN <<>> ELSE <<c, d>> \o encode(r))
  BY <1>1, <1>6, <1>7, <1>8, <1>10, Zenon DEF create_auto_uri, IndexName
<1>12. \A k \in 1 .. 4 : h[k] = path[k]
  BY <1>3, <1>7, <1>9
<1>13. 4 \in Nat /\ 1 \in Nat /\ 2 \in Nat /\ 6 \in Nat
  OBVIOUS
<1>14. CASE r = Nil
  <2>1. create_auto_uri(op) = h
    BY <1>9, <1>11, <1>14, ConcatEmpty
  <2>2. PICK q : q = <<b>>
    OBVIOUS
  <2>3. q \in Seq(C) /\ Len(q) = 1 /\ q[1] = b
    BY <2>2
  <2>4. Joined(h, path, Question, q, 4, 1)
    BY <1>6, <1>9, <1>12, <2>3 DEF Joined
  <2>5. ReadAs(h) = Parts(path, q)
    BY ONLY <1>3, <1>5, <1>9, <1>13, <2>3, <2>4, path \in Seq(C), ReadJoined
  <2>6. RoutingOf(q) = Nil
    <3>1. \A k \in 1 .. Len(q) : q[k] # RoutingIs
      BY <1>6, <2>3, WordsApart
    <3> QED BY <3>1, RoutingNone
  <2>7. Parts(path, q) = Meant(Nil, Nil)
    BY <1>4, <2>6, PartsMeant
  <2> QED BY <1>10, <1>14, <2>1, <2>5, <2>7
<1>15. CASE r # Nil
  <2>1. r \in Seq(C)
    BY <1>10, <1>15 DEF TextOf
  <2>2. PICK e \in Seq(C) : e = encode(r)
    BY <2>1, DecodeEncode DEF Enough
  <2>3. PICK n \in Nat : n = Len(e)
    OBVIOUS
  <2>4. PICK x, y : x = <<b, c>> /\ y = <<c, d>>
    OBVIOUS
  <2>5. /\ x \in Seq(C) /\ Len(x) = 2 /\ x[1] = b /\ x[2] = c
        /\ y \in Seq(C) /\ Len(y) = 2 /\ y[1] = c /\ y[2] = d
    BY <2>4
  <2>6. PICK tail : tail = y \o e
    OBVIOUS
  <2>7. Follows(C, tail, y, e, 2, n)
    BY ONLY <1>13, <2>3, <2>5, <2>6, e \in Seq(C), n \in Nat, ConcatIs
  <2>8. tail \in Seq(C) /\ Len(tail) = 2 + n /\ tail[1] = c /\ tail[2] = d /\ \A k \in 1 .. n : tail[2 + k] = e[k]
    BY <2>5, <2>7 DEF Follows
  <2>9. PICK uri : uri = h \o tail
    OBVIOUS
  <2>10. Follows(C, uri, h, tail, 6, 2 + n)
    <3>1. 2 + n \in Nat
      OBVIOUS
    <3> QED BY ONLY <1>9, <1>13, <2>8, <2>9, <3>1, ConcatIs
  <2>11. /\ uri \in Seq(C) /\ Len(uri) = 6 + (2 + n) /\ (\A k \in 1 .. 6 : uri[k] = h[k])
         /\ \A k \in 1 .. 2 + n : uri[6 + k] = tail[k]
    BY <2>10 DEF Follows
  <2>12. create_auto_uri(op) = uri
    BY <1>11, <1>15, <2>2, <2>4, <2>6, <2>9
  <2>13. \A k \in 1 .. Len(x) : x[k] # RoutingIs
    BY <1>6, <2>5, WordsApart
  <2>14. /\ (x \o <<RoutingIs>>) \o encode(r) \in Seq(C)
         /\ RoutingOf((x \o <<RoutingIs>>) \o encode(r)) = r
    BY <2>1, <2>5, <2>13, QueryRead
  <2>15. PICK g, q : g = x \o <<d>> /\ q = g \o e
    OBVIOUS
  <2>16. q \in Seq(C) /\ RoutingOf(q) = r
    BY <1>6, <2>2, <2>14, <2>15
  <2>17. g \in Seq(C) /\ Len(g) = 3 /\ g[1] = b /\ g[2] = c /\ g[3] = d
    <3>1. PICK z : z = <<d>>
      OBVIOUS
    <3>2. z \in Seq(C) /\ Len(z) = 1 /\ z[1] = d
      BY <3>1
    <3>3. Follows(C, x \o z, x, z, 2, 1)
      BY ONLY <1>13, <2>5, <3>2, ConcatIs
    <3>4. g = x \o z
      BY <2>15, <3>1
    <3> QED BY <2>5, <3>2, <3>3, <3>4 DEF Follows
  <2>18. Follows(C, q, g, e, 3, n)
    <3>1. 3 \in Nat
      OBVIOUS
    <3> QED BY ONLY <2>3, <2>15, <2>17, <3>1, e \in Seq(C), n \in Nat, ConcatIs
  <2>19. Len(q) = 3 + n /\ q[1] = b /\ q[2] = c /\ q[3] = d /\ \A k \in 1 .. n : q[3 + k] = e[k]
    BY <2>17, <2>18 DEF Follows
  <2>20. Joined(uri, path, Question, q, 4, 3 + n)
    <3>1. Len(uri) = (4 + 1) + (3 + n)
      BY <2>11
    <3>2. (\A k \in 1 .. 4 : uri[k] = path[k]) /\ uri[4 + 1] = Question
      BY <1>6, <1>9, <1>12, <2>11
    <3>3. uri[6] = b /\ uri[7] = c /\ uri[8] = d
      <4>1. uri[6] = b
        BY <1>9, <2>11
      <4>2. 1 \in 1 .. 2 + n /\ 2 \in 1 .. 2 + n /\ 6 + 1 = 7 /\ 6 + 2 = 8
        OBVIOUS
      <4> QED BY <2>8, <2>11, <4>1, <4>2
    <3>4. ASSUME NEW k \in 1 .. 3 + n PROVE uri[(4 + 1) + k] = q[k]
      <4>1. CASE k \in {1, 2, 3}
        BY <2>19, <3>3, <4>1
      <4>2. CASE k \notin {1, 2, 3}
        <5>1. PICK l \in 1 .. n : k = 3 + l
          <6>1. k - 3 \in 1 .. n /\ k = 3 + (k - 3)
            BY <4>2
          <6> QED BY <6>1
        <5>2. 2 + l \in 1 .. 2 + n /\ 6 + (2 + l) = (4 + 1) + k
          BY <5>1
        <5>3. uri[(4 + 1) + k] = e[l]
          BY <2>8, <2>11, <5>2
        <5> QED BY <2>19, <5>1, <5>3
      <4> QED BY <4>1, <4>2
    <3> QED BY <3>1, <3>2, <3>4 DEF Joined
  <2>21. ReadAs(uri) = Parts(path, q)
    <3>1. PICK m, l : m = 4 /\ l = 3 + n
      OBVIOUS
    <3>2. /\ m \in Nat /\ l \in Nat /\ m = Len(path) /\ l = Len(q)
          /\ Joined(uri, path, Question, q, m, l) /\ \A k \in 1 .. m : path[k] # Question
      BY <1>3, <1>5, <2>19, <2>20, <3>1
    <3>3. uri \in Seq(C) /\ q \in Seq(C)
      BY <2>11, <2>16
    <3> QED BY ONLY <3>2, <3>3, path \in Seq(C), ReadJoined
  <2>22. Parts(path, q) = Meant(Nil, r)
    BY <1>4, <2>16, PartsMeant
  <2> QED BY <1>10, <2>12, <2>21, <2>22
<1> QED BY <1>14, <1>15

\* The upstream reads out of the URI of a document's operation the id and the routing the
\* operation has.
LEMMA AddressRead ==
  ASSUME NEW C, Enough(C), NEW method, NEW op, TextOf(C, op.id), TextOf(C, op.routing),
         op.kind \in {"index", "create", "update", "delete", "get"}
  PROVE  ReadAs(Addressed(method, op)[2]) = Meant(op.id, op.routing)
<1>1. {"_doc", "_create", "_update"} \subseteq Verbs
  BY DEF Verbs
<1>2. \A verb \in Verbs : ReadAs(action_uri(verb, op)) = Meant(op.id, op.routing)
  BY ActionRead
<1>3. op.id = Nil => ReadAs(create_auto_uri(op)) = Meant(op.id, op.routing)
  BY CreateAutoRead
<1>4. PICK uri, verb : /\ Addressed(method, op) = <<verb, uri>>
                       /\ \/ \E v \in {"_doc", "_create", "_update"} : uri = action_uri(v, op)
                          \/ op.id = Nil /\ uri = create_auto_uri(op)
  <2>1. CASE op.kind = "index"
    BY <2>1 DEF Addressed, request_parts
  <2>2. CASE op.kind = "create" /\ op.id # Nil
    BY <2>2 DEF Addressed, request_parts
  <2>3. CASE op.kind = "create" /\ op.id = Nil
    BY <2>3 DEF Addressed, request_parts
  <2>4. CASE op.kind = "update"
    BY <2>4 DEF Addressed, request_parts
  <2>5. CASE op.kind = "delete"
    BY <2>5 DEF Addressed, request_parts
  <2>6. CASE op.kind = "get"
    BY <2>6 DEF Addressed
  <2> QED BY <2>1, <2>2, <2>3, <2>4, <2>5, <2>6
<1>5. ReadAs(uri) = Meant(op.id, op.routing)
  BY <1>1, <1>2, <1>3, <1>4
<1> QED BY <1>4, <1>5

\* A character set for the texts of an operation.
LEMMA CharactersFor ==
  ASSUME NEW id, NEW routing, id # Nil => id \in Seq(Range(id)), routing # Nil => routing \in Seq(Range(routing))
  PROVE  \E C : Enough(C) /\ TextOf(C, id) /\ TextOf(C, routing)
<1>1. PICK I, R : I = Range(id) /\ R = Range(routing)
  OBVIOUS
<1>2. PICK W : W = DOMAIN Code \cup {Code[c] : c \in DOMAIN Code} \cup Verbs \cup {IndexName, RoutingIs, OpTypeCreate}
  OBVIOUS
<1>3. PICK C : C = (I \cup R) \cup W
  OBVIOUS
<1>4. Enough(C)
  BY <1>2, <1>3, CodeFacts DEF Enough, Alphabet
<1>5. TextOf(C, id)
  BY <1>1, <1>3, TextOver DEF TextOf
<1>6. TextOf(C, routing)
  BY <1>1, <1>3, TextOver DEF TextOf
<1> QED BY <1>4, <1>5, <1>6

\* The segments that are not empty are a list.
LEMMA NonemptyList ==
  ASSUME NEW path, path \in Seq(Range(path))
  PROVE  nonempty(path) \in Seq(Range(path))
<1>1. PICK C : C = Range(path)
  OBVIOUS
<1>2. path \in Seq(C)
  BY <1>1
<1>3. PICK n \in Nat : n = Len(path)
  BY <1>2
<1>4. DOMAIN path = 1 .. n /\ \A k \in 1 .. n : path[k] \in C
  BY <1>2, <1>3
<1>5. PICK s : s = [k \in 1 .. n |-> IF path[k] = <<>> THEN <<>> ELSE <<path[k]>>]
  OBVIOUS
<1>6. ASSUME NEW k \in 1 .. n PROVE s[k] \in Seq(C)
  <2>1. PICK x \in C : x = path[k]
    BY <1>4
  <2>2. <<>> \in Seq(C) /\ <<x>> \in Seq(C)
    OBVIOUS
  <2>3. s[k] \in {<<>>, <<x>>}
    BY <1>5, <2>1
  <2> QED BY <2>2, <2>3
<1>7. DOMAIN s = 1 .. n /\ s = [k \in 1 .. n |-> s[k]]
  BY <1>5
<1>8. s \in Seq(Seq(C)) /\ Len(s) = n
  BY <1>6, <1>7, ListOf
<1>9. PICK w : Gathered(C, s, w) /\ FlattenSeq(s) = w[Len(s)]
  BY <1>8, FlattenIs
<1>10. n \in 0 .. n
  OBVIOUS
<1>11. w[n] \in Seq(C)
  BY <1>8, <1>9, <1>10 DEF Gathered
<1>12. nonempty(path) = FlattenSeq(s)
  BY <1>4, <1>5 DEF nonempty
<1> QED BY <1>1, <1>8, <1>9, <1>11, <1>12

\* Wherever a request came from, it goes where its path means: it is classified as the whole
\* of its path is, however long, and the upstream reads out of the URI the very id and
\* routing of the operation, whatever characters are in them (classify.rs classify, wire.rs
\* action_uri, encode).
THEOREM EgressAddressed == EgressSpec => []GoesWhereMeant
<1>1. EgressInv => GoesWhereMeant
  <2> SUFFICES ASSUME EgressInv, Sent PROVE GoesWhereMeant
    BY DEF GoesWhereMeant, ClassifiedInFull, DocumentAddressed
  <2>1. PICK case \in Cases, hash \in Hashes : SentFor(case, hash)
    BY DEF EgressInv
  <2>2. PICK call, op : call = case.call /\ op = call.op
    OBVIOUS
  <2>3. /\ egress.call = call /\ egress.class = classify(call.method, call.path)
        /\ egress.uri = Addressed(call.method, op)[2]
    BY <2>1, <2>2 DEF SentFor
  <2>4. /\ call.path \in Seq(Range(call.path))
        /\ op.id # Nil => op.id \in Seq(Range(op.id))
        /\ op.routing # Nil => op.routing \in Seq(Range(op.routing))
    BY <2>2, CaseTexts
  <2>5. ClassifiedInFull
    <3>1. PICK T, segments : T = Range(call.path) /\ segments = nonempty(call.path)
      OBVIOUS
    <3>2. segments \in Seq(T)
      BY <2>4, <3>1, NonemptyList
    <3>3. Match(kept(segments), call.method) = Match(segments, call.method)
      BY ONLY <3>2, BufferSuffices
    <3> QED BY <2>3, <3>1, <3>3 DEF ClassifiedInFull, classify
  <2>6. DocumentAddressed
    <3>1. SUFFICES ASSUME op.kind \in {"index", "create", "update", "delete", "get"}
                   PROVE  ReadAs(egress.uri) = Meant(op.id, op.routing)
      BY <2>2, <2>3 DEF DocumentAddressed, Meant
    <3>2. PICK C : Enough(C) /\ TextOf(C, op.id) /\ TextOf(C, op.routing)
      BY <2>4, CharactersFor
    <3> QED BY <2>3, <3>1, <3>2, AddressRead
  <2> QED BY <2>5, <2>6 DEF GoesWhereMeant
<1> QED BY <1>1, EgressInvariant, PTL
=============================================================================
