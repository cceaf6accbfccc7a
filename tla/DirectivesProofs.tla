-------------------------- MODULE DirectivesProofs --------------------------
(***************************************************************************)
(* Proofs about directives, for any number of threads, any documents,       *)
(* requests and settings: a request is judged by one published document, a  *)
(* watch that has passed over nothing has the present one in force, and     *)
(* what concurrent requests record adds up.                                 *)
(***************************************************************************)
EXTENDS Directives, FiniteSetTheorems, WellFoundedInduction, TLAPS

-----------------------------------------------------------------------------
(* The inductive invariant. *)

Values == Documents \cup {None}

StoreShape ==
  store = [pc |-> store.pc, set |-> store.set, doc |-> store.doc, rev |-> store.rev, read |-> store.read,
           seen |-> store.seen, missed |-> store.missed, faults |-> store.faults]

\* The watch task never knows of a revision that is not in the log, and a watch is
\* never behind the value in force.  Without etcd there is no watch.
StoreBounds ==
  /\ store.pc \in {"off", "connecting", "read", "watching", "waiting"}
  /\ setting.etcd \/ store.pc = "off"
  /\ store.rev \in 0 .. Len(log) /\ store.read \in 0 .. Len(log) /\ store.seen \in 0 .. Len(log)
  /\ store.faults \in Nat /\ store.missed \in BOOLEAN
  /\ store.pc = "watching" => store.rev <= store.seen

\* A set of directives is one published document, decoded at one time.
InForce(set, time) == \E doc \in Published, at \in 0 .. time : set = decode_directive_set(doc, at)

\* The document that the r-th value stands for: a deleted key is an empty one.
Document(r) == IF Value(r) = None THEN {} ELSE Value(r)

\* What was read last, or delivered last, is in force if it decodes and nothing has
\* been passed over.
Tracks(r) == ~store.missed /\ decodes(Document(r)) => store.doc = Document(r)

StoreTracks ==
  /\ store.pc = "read" => Tracks(store.read)
  /\ store.pc = "watching" => Tracks(store.seen)

StoreInv ==
  /\ now \in Nat /\ setting \in Settings /\ log \in Seq(Values)
  /\ StoreShape /\ StoreBounds /\ StoreTracks
  /\ InForce(store.set, now)

TaskPcs == {"idle", "dispatched", "recorded", "loaded", "counting", "counted", "answered"}

\* A request under way has an id that the counter has given; it is judged after it has
\* loaded a set that was in force.  With a capture sink wired none is streamed.
TaskOK(x) ==
  /\ x = [pc |-> x.pc, id |-> x.id, attrs |-> x.attrs, header |-> x.header, ok |-> x.ok,
          streamed |-> x.streamed, at |-> x.at, set |-> x.set, out |-> x.out]
  /\ x.pc \in TaskPcs /\ x.id \in 0 .. obs.seq /\ x.at \in Nat
  /\ x.header = None \/ (x.header.level \in Levels /\ x.header.exp \in Nat)
  /\ x.pc = "loaded" => InForce(x.set, x.at)
  /\ x.streamed => ~setting.sink

TasksInv ==
  /\ DOMAIN task = Threads
  /\ \A t \in Threads : TaskOK(task[t])
  /\ \A t, u \in Threads : t # u /\ task[t].pc # "idle" /\ task[u].pc # "idle" => task[t].id # task[u].id
  /\ OneDocument

\* Requests that are counted in neither counter, and those counted in the total only.
Uncounted == {t \in Threads : task[t].pc \in {"dispatched", "recorded", "loaded", "counting"}}
HalfCounted == {t \in Threads : task[t].pc = "counted"}

\* A trace bears an id that was given, and the tenant of the request of that id.
TracesOwn ==
  \A k \in 1 .. Len(obs.explain) :
    /\ obs.explain[k].id \in 0 .. obs.seq
    /\ \A t \in Threads : task[t].pc # "idle" /\ task[t].id = obs.explain[k].id =>
         obs.explain[k].tenant = task[t].attrs.tenant

ObsShape ==
  /\ obs = [seq |-> obs.seq, explain |-> obs.explain, tape |-> obs.tape, total |-> obs.total, ok |-> obs.ok,
            error |-> obs.error, tenants |-> obs.tenants, teed |-> obs.teed, away |-> obs.away]
  /\ obs.seq \in Nat /\ obs.away \in Nat /\ obs.total \in Nat /\ obs.ok \in Nat /\ obs.error \in Nat
  /\ \E S : obs.explain \in Seq(S)
  /\ \E S : obs.tenants \in Seq(S)

TenantsOwn == \A k \in 1 .. Len(obs.tenants) : obs.tenants[k].tenant = obs.tenants[k].of

\* What is captured are answered exchanges that the decision selected.
TeedOwn ==
  /\ \A id \in obs.teed : id \in 0 .. obs.seq
  /\ ~setting.sink => obs.teed = {}
  /\ \A t \in Threads : task[t].pc # "idle" =>
       (task[t].id \in obs.teed <=> task[t].pc = "answered" /\ tee_capture(t))

\* Every id given is a counted request's, that of one that has not come to it yet, or was
\* taken by one that was turned away.
CountersExact ==
  /\ obs.total = obs.ok + obs.error + Cardinality(HalfCounted)
  /\ obs.seq = obs.total + obs.away + Cardinality(Uncounted)

ObsInv == ObsShape /\ TracesOwn /\ TenantsOwn /\ TeedOwn /\ CountersExact

DirectivesInv == StoreInv /\ TasksInv /\ ObsInv

-----------------------------------------------------------------------------
(* The decision on a request. *)

LEMMA MaxOfLevels ==
  ASSUME NEW S \in SUBSET Levels, NEW x \in S
  PROVE  /\ Max(S) \in S
         /\ \A y \in S : y <= Max(S)
<1>1. \E m \in S : \A y \in S : m >= y
  <2>1. CASE 3 \in S
    BY <2>1 DEF Levels
  <2>2. CASE 3 \notin S /\ 2 \in S
    BY <2>2 DEF Levels
  <2>3. CASE 3 \notin S /\ 2 \notin S /\ 1 \in S
    BY <2>3 DEF Levels
  <2>4. CASE 3 \notin S /\ 2 \notin S /\ 1 \notin S
    BY <2>4 DEF Levels
  <2> QED BY <2>1, <2>2, <2>3, <2>4
<1>2. Max(S) \in S /\ \A y \in S : Max(S) >= y
  BY <1>1 DEF Max
<1>3. S \subseteq Int
  BY DEF Levels
<1> QED BY <1>2, <1>3

LEMMA MaxMerged ==
  ASSUME NEW L \in SUBSET Levels, NEW s \in Levels
  PROVE  Max({Max({0} \cup L), s}) = Max({s} \cup L)
<1> DEFINE A == {0} \cup L
           B == {Max(A), s}
           C == {s} \cup L
<1>1. A \in SUBSET Levels /\ 0 \in A /\ C \in SUBSET Levels /\ s \in C
  BY DEF Levels
<1>2. Max(A) \in A /\ (\A y \in A : y <= Max(A))
  BY <1>1, MaxOfLevels
<1>3. B \in SUBSET Levels /\ s \in B
  BY <1>1, <1>2
<1>4. Max(B) \in B /\ (\A y \in B : y <= Max(B))
  BY <1>3, MaxOfLevels
<1>5. Max(C) \in C /\ (\A y \in C : y <= Max(C))
  BY <1>1, MaxOfLevels
<1> HIDE DEF A, B, C
<1>6. Max(A) \in Levels /\ Max(B) \in Levels /\ Max(C) \in Levels
  BY <1>1, <1>2, <1>3, <1>4, <1>5
<1>7. Max(B) = s \/ Max(B) = Max(A)
  BY <1>4 DEF B
<1>8. Max(A) = 0 \/ Max(A) \in L
  BY <1>2 DEF A
<1>9. Max(B) <= Max(C)
  <2>1. s <= Max(C) /\ (\A y \in L : y <= Max(C))
    BY <1>5 DEF C
  <2> QED BY <2>1, <1>6, <1>7, <1>8 DEF Levels
<1>10. Max(C) <= Max(B)
  <2>1. s <= Max(B) /\ Max(A) <= Max(B)
    BY <1>4 DEF B
  <2>2. \A y \in L : y <= Max(A)
    BY <1>2 DEF A
  <2>3. Max(C) = s \/ Max(C) \in L
    BY <1>5 DEF C
  <2> QED BY <2>1, <2>2, <2>3, <1>6 DEF Levels
<1>11. Max(B) = Max(C)
  BY <1>6, <1>9, <1>10 DEF Levels
<1> QED BY <1>11 DEF A, B, C

\* The directive that a document's entry, or a header, is turned into.
Decoded(w, at) ==
  [match |-> w.match, level |-> w.level, sample_per_mille |-> w.sample_per_mille,
   ring_buffer |-> w.ring_buffer, capture |-> w.capture, expires_at |-> at + w.ttl_secs]

Verified(h) ==
  [match |-> h.match, level |-> h.level, sample_per_mille |-> 1000,
   ring_buffer |-> h.ring_buffer, capture |-> h.capture, expires_at |-> h.exp]

LEMMA PublishedSound ==
  ASSUME log \in Seq(Values), NEW doc \in Published
  PROVE  \A w \in doc : decodable(w) /\ w.ttl_secs \in Nat
<1>1. CASE doc = {}
  BY <1>1
<1>2. CASE doc # {}
  <2>1. PICK r \in 1 .. Len(log) : doc = log[r] /\ log[r] # None /\ \A w \in log[r] : decodable(w)
    BY <1>2 DEF Published
  <2>2. log[r] \in Documents
    BY <2>1 DEF Values
  <2> QED BY <2>1, <2>2, DirectivesAssumption
<1> QED BY <1>1, <1>2

LEMMA DecodedDocument ==
  ASSUME log \in Seq(Values), NEW doc \in Published, NEW at
  PROVE  /\ \A w \in doc : Decoded(w, at) \in decode_directive_set(doc, at)
         /\ \A d \in decode_directive_set(doc, at) : \E w \in doc : d = Decoded(w, at)
BY PublishedSound DEF decode_directive_set, Decoded

LEMMA BucketRange ==
  ASSUME NEW id \in Nat
  PROVE  bucket(id) < 1000
<1>1. \A n \in Nat : n % 1000 < 1000
  OBVIOUS
<1>2. id * 400 \in Nat
  OBVIOUS
<1> QED BY <1>1, <1>2 DEF bucket

\* A request is judged by what the document, the header and the baseline ask for.
LEMMA JudgedAsked ==
  ASSUME NEW t \in Threads, TaskOK(task[t]), setting \in Settings, log \in Seq(Values), obs.seq \in Nat,
         NEW doc \in Published, NEW at \in Nat, task[t].set = decode_directive_set(doc, at)
  PROVE  judged(t) = Asked(t, doc, at)
<1> DEFINE x == task[t]
           all == decode_directive_set(doc, at) \cup verify(x.header, x.at)
           on == {d \in all : applies(d, x.attrs, x.at, x.id)}
           asking == Asking(t, doc, at)
<1>1. /\ x.at \in Nat /\ x.id \in Nat
      /\ x.header = None \/ (x.header.level \in Levels /\ x.header.exp \in Nat)
  BY DEF TaskOK
<1>2. \A w \in doc : decodable(w) /\ w.ttl_secs \in Nat
  BY PublishedSound
<1>3. bucket(x.id) < 1000
  BY <1>1, BucketRange
<1>4. ASSUME NEW w \in asking
      PROVE  \E d \in on : d.level = w.level /\ d.ring_buffer = w.ring_buffer /\ d.capture = w.capture
  <2>1. CASE /\ w \in doc /\ x.at < at + w.ttl_secs
             /\ matches(w.match, x.attrs) /\ is_sampled(w, x.id)
    <3>1. Decoded(w, at) \in decode_directive_set(doc, at)
      BY <2>1, DecodedDocument
    <3>2. applies(Decoded(w, at), x.attrs, x.at, x.id)
      BY <2>1 DEF applies, Decoded, is_sampled
    <3>3. Decoded(w, at) \in on
      BY <3>1, <3>2
    <3> QED BY <3>3 DEF Decoded
  <2>2. CASE w = x.header /\ x.header # None /\ w.signed /\ x.at < w.exp /\ matches(w.match, x.attrs)
    <3>1. w.exp > x.at
      BY <1>1, <2>2
    <3>2. Verified(w) \in verify(x.header, x.at)
      BY <2>2, <3>1 DEF verify, Verified
    <3>3. applies(Verified(w), x.attrs, x.at, x.id)
      <4>1. Verified(w).expires_at = w.exp /\ Verified(w).match = w.match /\ Verified(w).sample_per_mille = 1000
        BY DEF Verified
      <4>2. is_sampled(Verified(w), x.id)
        BY <4>1, <1>3 DEF is_sampled
      <4> QED BY <4>1, <4>2, <2>2 DEF applies
    <3>4. Verified(w) \in on
      BY <3>2, <3>3
    <3> QED BY <3>4 DEF Verified
  <2> QED BY <2>1, <2>2 DEF Asking
<1>5. ASSUME NEW d \in on
      PROVE  \E w \in asking : d.level = w.level /\ d.ring_buffer = w.ring_buffer /\ d.capture = w.capture
  <2>1. CASE d \in decode_directive_set(doc, at)
    <3>1. PICK w \in doc : d = Decoded(w, at)
      BY <2>1, DecodedDocument
    <3>2. applies(Decoded(w, at), x.attrs, x.at, x.id)
      BY <3>1
    <3>3. x.at < at + w.ttl_secs /\ matches(w.match, x.attrs) /\ is_sampled(w, x.id)
      BY <3>2 DEF applies, Decoded, is_sampled
    <3>4. w \in asking
      BY <3>3 DEF Asking
    <3>5. d.level = w.level /\ d.ring_buffer = w.ring_buffer /\ d.capture = w.capture
      BY <3>1 DEF Decoded
    <3> QED BY <3>4, <3>5
  <2>2. CASE d \in verify(x.header, x.at)
    <3>1. x.header # None /\ x.header.signed /\ x.header.exp > x.at /\ d = Verified(x.header)
      BY <2>2 DEF verify, Verified
    <3>2. applies(Verified(x.header), x.attrs, x.at, x.id)
      BY <3>1
    <3>3. x.at < x.header.exp /\ matches(x.header.match, x.attrs)
      BY <3>2 DEF applies, Verified
    <3>4. x.header \in asking
      BY <3>1, <3>3 DEF Asking
    <3>5. d.level = x.header.level /\ d.ring_buffer = x.header.ring_buffer /\ d.capture = x.header.capture
      BY <3>1 DEF Verified
    <3> QED BY <3>4, <3>5
  <2> QED BY <2>1, <2>2
<1>6. \A w \in asking : w.level \in Levels
  BY <1>1, <1>2 DEF Asking, decodable
<1> HIDE DEF on, asking
<1> DEFINE levels == {d.level : d \in on}
           asked == {w.level : w \in asking}
<1>7. levels = asked
  BY <1>4, <1>5
<1>8. asked \in SUBSET Levels
  BY <1>6
<1>9. (\E d \in on : d.ring_buffer) <=> (\E w \in asking : w.ring_buffer)
  BY <1>4, <1>5
<1>10. (\E d \in on : d.capture) <=> (\E w \in asking : w.capture)
  BY <1>4, <1>5
<1>11. setting.level \in Levels
  BY DirectivesAssumption DEF Levels
<1>12. Max({Max({0} \cup levels), setting.level}) = Max({setting.level} \cup asked)
  BY <1>7, <1>8, <1>11, MaxMerged
<1>13. judged(t) = [level |-> Max({Max({0} \cup levels), setting.level}),
                    ring |-> \E d \in on : d.ring_buffer,
                    traffic |-> (\E d \in on : d.capture) \/ setting.capture]
  <2> DEFINE e == evaluate(x.set \cup verify(x.header, x.at), x.attrs, x.at, x.id)
  <2>1. e = [level |-> Max({0} \cup levels), ring |-> \E d \in on : d.ring_buffer,
             traffic |-> \E d \in on : d.capture]
    BY DEF evaluate, on
  <2>2. judged(t) = [e EXCEPT !.level = Max({@, setting.level}), !.traffic = @ \/ setting.capture]
    BY DEF judged, diagnostics
  <2> HIDE DEF e, on, levels
  <2> QED BY <2>1, <2>2
<1>14. Asked(t, doc, at) = [level |-> Max({setting.level} \cup asked),
                            ring |-> \E w \in asking : w.ring_buffer,
                            traffic |-> setting.capture \/ \E w \in asking : w.capture]
  BY DEF Asked, asking
<1> HIDE DEF levels, asked
<1> QED BY <1>9, <1>10, <1>12, <1>13, <1>14

-----------------------------------------------------------------------------
(* The watch task. *)

Shaped(s) ==
  s = [pc |-> s.pc, set |-> s.set, doc |-> s.doc, rev |-> s.rev, read |-> s.read,
       seen |-> s.seen, missed |-> s.missed, faults |-> s.faults]

LEMMA PublishedGrows ==
  ASSUME log \in Seq(Values), NEW v \in Values, log' = Append(log, v)
  PROVE  /\ log' \in Seq(Values) /\ Len(log') = Len(log) + 1
         /\ \A k \in 1 .. Len(log) : log'[k] = log[k]
         /\ log'[Len(log) + 1] = v
         /\ Published \subseteq Published'
<1>1. /\ log' \in Seq(Values) /\ Len(log') = Len(log) + 1
      /\ \A k \in 1 .. Len(log) : log'[k] = log[k]
      /\ log'[Len(log) + 1] = v
  OBVIOUS
<1>2. ASSUME NEW doc \in Published
      PROVE  doc \in Published'
  <2>1. CASE doc = {}
    BY <2>1 DEF Published
  <2>2. CASE doc # {}
    <3>1. PICK r \in 1 .. Len(log) : doc = log[r] /\ log[r] # None /\ \A w \in log[r] : decodable(w)
      BY <2>2 DEF Published
    <3>2. r \in 1 .. Len(log') /\ log'[r] = log[r]
      BY <1>1, <3>1
    <3> QED BY <3>1, <3>2 DEF Published
  <2> QED BY <2>1, <2>2
<1> QED BY <1>1, <1>2

LEMMA InForceKept ==
  ASSUME NEW set, NEW from \in Nat, NEW to \in Nat, from <= to, InForce(set, from), Published \subseteq Published'
  PROVE  \E doc \in Published', at \in 0 .. to : set = decode_directive_set(doc, at)
BY DEF InForce

LEMMA EmptyInForce ==
  ASSUME NEW time \in Nat
  PROVE  InForce({}, time)
<1>1. {} = decode_directive_set({}, 0)
  BY DEF decode_directive_set
<1>2. {} \in Published /\ 0 \in 0 .. time
  BY DEF Published
<1> QED BY <1>1, <1>2 DEF InForce

LEMMA ValueKnown ==
  ASSUME log \in Seq(Values), NEW r \in 0 .. Len(log), Value(r) # None
  PROVE  r \in 1 .. Len(log) /\ Value(r) = log[r] /\ Value(r) \in Documents
BY DEF Value, Values

\* apply_value() changes where the set comes from, and nothing else.
LEMMA AppliedValue ==
  ASSUME log \in Seq(Values), now \in Nat, NEW s, Shaped(s), s.missed \in BOOLEAN, InForce(s.set, now),
         NEW r \in 0 .. Len(log), Value(r) # None
  PROVE  LET a == apply_value(s, r) IN
         /\ Shaped(a)
         /\ a.pc = s.pc /\ a.read = s.read /\ a.seen = s.seen /\ a.faults = s.faults
         /\ a.missed \in BOOLEAN /\ (a.rev = s.rev \/ a.rev = r)
         /\ InForce(a.set, now)
         /\ decodes(Value(r)) => a.doc = Value(r)
<1> DEFINE a == apply_value(s, r)
           v == decode_directive_set(Value(r), now)
<1>0. r \in 1 .. Len(log) /\ Value(r) = log[r] /\ Value(r) \in Documents
  BY ValueKnown
<1>1. CASE decodes(Value(r))
  <2>1. a = [pc |-> s.pc, set |-> v, doc |-> Value(r), rev |-> r, read |-> s.read, seen |-> s.seen,
             missed |-> FALSE, faults |-> s.faults]
    BY <1>1 DEF apply_value, Shaped
  <2>2. Value(r) \in Published
    BY <1>0, <1>1 DEF Published, decodes
  <2>3. InForce(v, now)
    BY <2>2 DEF InForce
  <2> HIDE DEF a, v
  <2>4. a.set = v /\ a.doc = Value(r) /\ a.rev = r /\ a.missed = FALSE
    BY <2>1
  <2>5. Shaped(a) /\ a.pc = s.pc /\ a.read = s.read /\ a.seen = s.seen /\ a.faults = s.faults
    BY <2>1 DEF Shaped
  <2> QED BY <2>3, <2>4, <2>5 DEF a
<1>2. CASE ~decodes(Value(r))
  <2>1. a = s
    BY <1>2 DEF apply_value
  <2> QED BY <1>2, <2>1
<1> QED BY <1>1, <1>2

\* A store that the watch task has left in order; log, time and setting are as before.
Good(s) ==
  /\ Shaped(s)
  /\ s.pc \in {"off", "connecting", "read", "watching", "waiting"}
  /\ setting.etcd \/ s.pc = "off"
  /\ s.rev \in 0 .. Len(log) /\ s.read \in 0 .. Len(log) /\ s.seen \in 0 .. Len(log)
  /\ s.faults \in Nat /\ s.missed \in BOOLEAN
  /\ s.pc = "watching" => s.rev <= s.seen
  /\ s.pc = "read" /\ ~s.missed /\ decodes(Document(s.read)) => s.doc = Document(s.read)
  /\ s.pc = "watching" /\ ~s.missed /\ decodes(Document(s.seen)) => s.doc = Document(s.seen)
  /\ InForce(s.set, now)

LEMMA StoreGood ==
  ASSUME StoreInv
  PROVE  Good(store)
BY DEF StoreInv, StoreShape, StoreBounds, StoreTracks, Tracks, Good, Shaped

LEMMA GoodStore ==
  ASSUME StoreInv, UNCHANGED <<now, setting, log>>, Good(store')
  PROVE  StoreInv'
<1>1. /\ now' \in Nat /\ setting' \in Settings /\ log' \in Seq(Values)
  BY DEF StoreInv
<1>2. Published' = Published /\ Len(log') = Len(log)
  BY DEF Published
<1>3. \A r : Document(r)' = Document(r)
  BY DEF Document, Value
<1>4. StoreShape' /\ StoreBounds'
  BY <1>2 DEF Good, Shaped, StoreShape, StoreBounds
<1>5. StoreTracks'
  BY <1>3 DEF Good, StoreTracks, Tracks
<1>6. InForce(store.set, now)'
  BY <1>2 DEF Good, InForce
<1> QED BY <1>1, <1>4, <1>5, <1>6 DEF StoreInv

LEMMA Cleared ==
  ASSUME NEW s, Shaped(s), NEW set, NEW doc, NEW rev, NEW missed
  PROVE  [s EXCEPT !.set = set, !.doc = doc, !.rev = rev, !.missed = missed]
           = [pc |-> s.pc, set |-> set, doc |-> doc, rev |-> rev, read |-> s.read,
              seen |-> s.seen, missed |-> missed, faults |-> s.faults]
<1>1. PICK c : c = [s EXCEPT !.set = set, !.doc = doc, !.rev = rev, !.missed = missed]
  OBVIOUS
<1>2. c = [pc |-> s.pc, set |-> set, doc |-> doc, rev |-> rev, read |-> s.read,
           seen |-> s.seen, missed |-> missed, faults |-> s.faults]
  BY <1>1 DEF Shaped
<1> QED BY <1>1, <1>2

LEMMA ClearedGood ==
  ASSUME StoreInv, NEW r \in 0 .. Len(log)
  PROVE  clear(store, r) = [pc |-> store.pc, set |-> {}, doc |-> {}, rev |-> r, read |-> store.read,
                            seen |-> store.seen, missed |-> FALSE, faults |-> store.faults]
<1>1. Shaped(store)
  BY StoreGood DEF Good
<1>2. PICK no, none : no = FALSE /\ none = {}
  OBVIOUS
<1>3. clear(store, r) = [store EXCEPT !.set = none, !.doc = none, !.rev = r, !.missed = no]
  BY <1>2 DEF clear
<1>4. clear(store, r) = [pc |-> store.pc, set |-> none, doc |-> none, rev |-> r, read |-> store.read,
                         seen |-> store.seen, missed |-> no, faults |-> store.faults]
  BY <1>1, <1>3, Cleared, Zenon
<1> QED BY <1>2, <1>4

LEMMA StartKeeps ==
  ASSUME StoreInv, Start
  PROVE  StoreInv' /\ log' = log
<1> DEFINE r == Len(log)
           empty == [clear(store, r) EXCEPT !.pc = "connecting"]
<1>1. r \in 0 .. Len(log) /\ log \in Seq(Values) /\ now \in Nat
  BY DEF StoreInv
<1>2. empty = [pc |-> "connecting", set |-> {}, doc |-> {}, rev |-> r, read |-> store.read,
               seen |-> store.seen, missed |-> FALSE, faults |-> store.faults]
  <2>1. PICK c : c = clear(store, r)
    OBVIOUS
  <2>2. PICK no, none : no = FALSE /\ none = {}
    OBVIOUS
  <2>3. c = [pc |-> store.pc, set |-> none, doc |-> none, rev |-> r, read |-> store.read,
             seen |-> store.seen, missed |-> no, faults |-> store.faults]
    BY <1>1, <2>1, <2>2, ClearedGood
  <2>4. [c EXCEPT !.pc = "connecting"]
          = [pc |-> "connecting", set |-> none, doc |-> none, rev |-> r, read |-> store.read,
             seen |-> store.seen, missed |-> no, faults |-> store.faults]
    BY <2>3
  <2> QED BY <2>1, <2>2, <2>4
<1>3. /\ store.read \in 0 .. Len(log) /\ store.seen \in 0 .. Len(log) /\ store.faults \in Nat
  BY StoreGood DEF Good
<1>4. Shaped(empty) /\ empty.pc = "connecting" /\ empty.set = {} /\ empty.rev = r
      /\ empty.read = store.read /\ empty.seen = store.seen /\ empty.missed = FALSE /\ empty.faults = store.faults
  BY <1>2 DEF Shaped
<1>5. store' = (IF Value(r) = None THEN empty ELSE apply_value(empty, r)) /\ UNCHANGED <<now, setting, log>>
      /\ setting.etcd
  BY DEF Start
<1>6. InForce(empty.set, now)
  BY <1>1, <1>4, EmptyInForce
<1> HIDE DEF r, empty
<1>7. CASE Value(r) = None
  <2>1. store' = empty
    BY <1>5, <1>7
  <2>2. Good(store')
    BY <2>1, <1>1, <1>3, <1>4, <1>5, <1>6 DEF Good
  <2> QED BY <2>2, <1>5, GoodStore
<1>8. CASE Value(r) # None
  <2>1. /\ Shaped(store')
        /\ store'.pc = "connecting" /\ store'.read = store.read /\ store'.seen = store.seen
        /\ store'.faults = store.faults /\ store'.missed \in BOOLEAN /\ store'.rev = r
        /\ InForce(store'.set, now)
    BY <1>1, <1>4, <1>5, <1>6, <1>8, AppliedValue
  <2>2. Good(store')
    BY <2>1, <1>1, <1>3, <1>5 DEF Good
  <2> QED BY <2>2, <1>5, GoodStore
<1> QED BY <1>7, <1>8

LEMMA RereadKeeps ==
  ASSUME StoreInv, Reread
  PROVE  StoreInv' /\ log' = log
<1> DEFINE r == Len(log)
           a == reread_value(store, r)
<1>1. r \in 0 .. Len(log) /\ log \in Seq(Values) /\ now \in Nat
  BY DEF StoreInv
<1>2. Good(store) /\ Shaped(store)
  BY StoreGood DEF Good
<1>3. store' = [a EXCEPT !.pc = "read", !.read = r] /\ UNCHANGED <<now, setting, log>>
  BY DEF Reread
<1>4. Document(r) = IF Value(r) = None THEN {} ELSE Value(r)
  BY DEF Document
<1>5. /\ Shaped(a) /\ a.rev \in 0 .. Len(log) /\ a.seen = store.seen /\ a.faults = store.faults
      /\ a.missed \in BOOLEAN /\ InForce(a.set, now)
      /\ ~a.missed /\ decodes(Document(r)) => a.doc = Document(r)
  <2>1. CASE Value(r) # None
    <3>1. a = apply_value(store, r) /\ Document(r) = Value(r)
      BY <2>1, <1>4 DEF reread_value
    <3>2. store.missed \in BOOLEAN /\ InForce(store.set, now) /\ store.rev \in 0 .. Len(log)
      BY <1>2 DEF Good
    <3> HIDE DEF r, a
    <3> QED BY <1>1, <1>2, <2>1, <3>1, <3>2, AppliedValue
  <2>2. CASE Value(r) = None
    <3>1. Document(r) = {}
      BY <2>2, <1>4
    <3>2. a = [pc |-> store.pc, set |-> store.set, doc |-> store.doc, rev |-> store.rev, read |-> store.read,
               seen |-> store.seen, missed |-> store.missed \/ store.doc # {}, faults |-> store.faults]
      BY <1>2, <2>2 DEF reread_value, Shaped
    <3> HIDE DEF r, a
    <3>3. Shaped(a) /\ a.rev = store.rev /\ a.seen = store.seen /\ a.faults = store.faults /\ a.set = store.set
          /\ a.doc = store.doc /\ a.missed = (store.missed \/ store.doc # {})
      BY <3>2 DEF Shaped
    <3>4. a.rev \in 0 .. Len(log) /\ InForce(a.set, now)
      BY <3>3, <1>2 DEF Good
    <3>5. a.missed \in BOOLEAN /\ (~a.missed => a.doc = {})
      BY <3>3
    <3> QED BY <3>1, <3>3, <3>4, <3>5
  <2> QED BY <2>1, <2>2
<1> HIDE DEF a
<1>6. /\ Shaped(store') /\ store'.pc = "read" /\ store'.read = r /\ store'.rev = a.rev /\ store'.seen = a.seen
      /\ store'.faults = a.faults /\ store'.missed = a.missed /\ store'.set = a.set /\ store'.doc = a.doc
  BY <1>3, <1>5 DEF Shaped
<1>7. store.seen \in 0 .. Len(log) /\ store.faults \in Nat /\ setting.etcd
  <2>1. store.pc = "connecting"
    BY DEF Reread
  <2> QED BY <1>2, <2>1 DEF Good
<1> HIDE DEF r
<1>8. Good(store')
  BY <1>1, <1>5, <1>6, <1>7 DEF Good
<1> QED BY <1>3, <1>8, GoodStore

LEMMA WatchKeeps ==
  ASSUME StoreInv, Watch
  PROVE  StoreInv' /\ log' = log
<1>1. Good(store) /\ Shaped(store) /\ Len(log) \in Nat
  BY StoreGood DEF Good, StoreInv
<1>2. /\ store.pc = "read" /\ UNCHANGED <<now, setting, log>>
      /\ store' = [store EXCEPT !.pc = "watching", !.seen = Len(log), !.missed = @ \/ store.read < Len(log)]
  BY DEF Watch, watch_from
<1>3. /\ Shaped(store') /\ store'.pc = "watching" /\ store'.read = store.read /\ store'.rev = store.rev
      /\ store'.seen = Len(log) /\ store'.faults = store.faults /\ store'.set = store.set /\ store'.doc = store.doc
      /\ store'.missed = (store.missed \/ store.read < Len(log))
  BY <1>1, <1>2 DEF Shaped
<1>4. store'.missed \in BOOLEAN /\ (~store'.missed => ~store.missed /\ store.read = Len(log))
  <2>1. store.read \in 0 .. Len(log) /\ store.missed \in BOOLEAN
    BY <1>1 DEF Good
  <2>2. store.read < Len(log) \/ store.read = Len(log)
    BY <1>1, <2>1
  <2> QED BY <1>3, <2>1, <2>2
<1>5. Good(store')
  BY <1>1, <1>2, <1>3, <1>4 DEF Good
<1> QED BY <1>2, <1>5, GoodStore

LEMMA EventKeeps ==
  ASSUME StoreInv, Event
  PROVE  StoreInv' /\ log' = log /\ store'.rev >= store.rev
<1> DEFINE r == store.seen + 1
           a == IF Value(r) = None THEN clear(store, r) ELSE apply_value(store, r)
<1>1. Good(store) /\ Shaped(store) /\ Len(log) \in Nat /\ log \in Seq(Values) /\ now \in Nat
  BY StoreGood DEF Good, StoreInv
<1>2. /\ store.pc = "watching" /\ r <= Len(log) /\ UNCHANGED <<now, setting, log>>
      /\ store' = [a EXCEPT !.seen = r]
  BY DEF Event
<1>3. store.seen \in 0 .. Len(log) /\ store.rev \in 0 .. Len(log) /\ store.rev <= store.seen
      /\ store.read \in 0 .. Len(log) /\ store.faults \in Nat /\ store.missed \in BOOLEAN /\ InForce(store.set, now) /\ setting.etcd
  BY <1>1, <1>2 DEF Good
<1>4. r \in 0 .. Len(log) /\ store.rev <= r
  BY <1>1, <1>2, <1>3
<1> HIDE DEF r
<1>5. Document(r) = IF Value(r) = None THEN {} ELSE Value(r)
  BY DEF Document
<1>6. /\ Shaped(a) /\ a.pc = store.pc /\ (a.rev = store.rev \/ a.rev = r) /\ a.read = store.read
      /\ a.faults = store.faults /\ a.missed \in BOOLEAN /\ InForce(a.set, now)
      /\ decodes(Document(r)) => a.doc = Document(r)
  <2>1. CASE Value(r) # None
    <3>1. a = apply_value(store, r) /\ Document(r) = Value(r)
      BY <2>1, <1>5
    <3> HIDE DEF a
    <3> QED BY <1>1, <1>3, <1>4, <2>1, <3>1, AppliedValue
  <2>2. CASE Value(r) = None
    <3>1. a = [pc |-> store.pc, set |-> {}, doc |-> {}, rev |-> r, read |-> store.read,
               seen |-> store.seen, missed |-> FALSE, faults |-> store.faults]
      BY <2>2, <1>4, ClearedGood
    <3> HIDE DEF a
    <3>2. Shaped(a) /\ a.pc = store.pc /\ a.rev = r /\ a.read = store.read /\ a.faults = store.faults
          /\ a.missed = FALSE /\ a.set = {} /\ a.doc = {}
      BY <3>1 DEF Shaped
    <3>3. InForce(a.set, now)
      BY <3>2, <1>1, EmptyInForce
    <3> QED BY <3>2, <3>3, <2>2, <1>5
  <2> QED BY <2>1, <2>2
<1> HIDE DEF a
<1>7. /\ Shaped(store') /\ store'.pc = store.pc /\ store'.read = store.read /\ store'.rev = a.rev /\ store'.seen = r
      /\ store'.faults = store.faults /\ store'.missed = a.missed /\ store'.set = a.set /\ store'.doc = a.doc
  BY <1>2, <1>6 DEF Shaped
<1>8. a.rev \in 0 .. Len(log) /\ a.rev <= r /\ a.rev >= store.rev
  BY <1>1, <1>3, <1>4, <1>6
<1>9. Good(store')
  BY <1>2, <1>3, <1>4, <1>6, <1>7, <1>8 DEF Good
<1> QED BY <1>2, <1>7, <1>8, <1>9, GoodStore

LEMMA DisconnectKeeps ==
  ASSUME StoreInv, Disconnect \/ Restart \/ Reconnect
  PROVE  StoreInv' /\ log' = log /\ (store'.pc = "off" \/ store'.rev = store.rev)
<1>1. Good(store) /\ Shaped(store) /\ Len(log) \in Nat /\ now \in Nat
  BY StoreGood DEF Good, StoreInv
<1>2. UNCHANGED <<now, setting, log>>
  BY DEF Disconnect, Restart, Reconnect
<1>3. CASE Disconnect
  <2>1. store' = [store EXCEPT !.pc = "waiting", !.faults = @ + 1] /\ store.pc # "off"
    BY <1>3 DEF Disconnect
  <2>2. /\ Shaped(store') /\ store'.pc = "waiting" /\ store'.read = store.read /\ store'.rev = store.rev
        /\ store'.seen = store.seen /\ store'.faults = store.faults + 1 /\ store'.missed = store.missed
        /\ store'.set = store.set
    BY <1>1, <2>1 DEF Shaped
  <2>3. Good(store')
    BY <1>1, <2>1, <2>2 DEF Good
  <2> QED BY <1>2, <2>2, <2>3, GoodStore
<1>4. CASE Reconnect
  <2>1. store' = [store EXCEPT !.pc = "connecting"] /\ store.pc # "off"
    BY <1>4 DEF Reconnect, watch_loop
  <2>2. /\ Shaped(store') /\ store'.pc = "connecting" /\ store'.read = store.read /\ store'.rev = store.rev
        /\ store'.seen = store.seen /\ store'.faults = store.faults /\ store'.missed = store.missed
        /\ store'.set = store.set
    BY <1>1, <2>1 DEF Shaped
  <2>3. Good(store')
    BY <1>1, <2>1, <2>2 DEF Good
  <2> QED BY <1>2, <2>2, <2>3, GoodStore
<1>5. CASE Restart
  <2>1. store' = [Off EXCEPT !.faults = store.faults + 1]
    BY <1>5 DEF Restart
  <2>2. store.faults + 1 \in Nat
    BY <1>1 DEF Good
  <2>3. /\ Shaped(store') /\ store'.pc = "off" /\ store'.read = 0 /\ store'.rev = 0
        /\ store'.seen = 0 /\ store'.faults = store.faults + 1 /\ store'.missed = FALSE
        /\ store'.set = {}
    BY <2>1 DEF Shaped, Off
  <2>4. InForce(store'.set, now)
    BY <1>1, <2>3, EmptyInForce
  <2>5. store'.missed \in BOOLEAN /\ 0 \in 0 .. Len(log) /\ store'.faults \in Nat
    <3>1. store'.missed \in BOOLEAN
      BY <2>3, Zenon
    <3>2. 0 \in 0 .. Len(log)
      BY <1>1
    <3>3. store'.faults \in Nat
      BY <2>2, <2>3
    <3> QED BY <3>1, <3>2, <3>3
  <2>6. Good(store')
    BY <2>3, <2>4, <2>5 DEF Good
  <2> QED BY <1>2, <2>3, <2>6, GoodStore
<1> QED BY <1>3, <1>4, <1>5

\* The key changes, or a set is posted: the log grows by one value.
LEMMA PublishKeeps ==
  ASSUME StoreInv, NEW v \in Values, log' = Append(log, v), UNCHANGED <<now, setting>>,
         \/ UNCHANGED store
         \/ /\ ~setting.etcd /\ v \in Documents /\ decodes(v)
            /\ store' = [store EXCEPT !.set = decode_directive_set(v, now), !.doc = v, !.rev = Len(log) + 1]
  PROVE  StoreInv'
<1>1. Good(store) /\ Shaped(store) /\ Len(log) \in Nat /\ now \in Nat /\ log \in Seq(Values)
  BY StoreGood DEF Good, StoreInv
<1>2. /\ log' \in Seq(Values) /\ Len(log') = Len(log) + 1
      /\ \A k \in 1 .. Len(log) : log'[k] = log[k]
      /\ log'[Len(log) + 1] = v
      /\ Published \subseteq Published'
  BY <1>1, PublishedGrows
<1>3. now' \in Nat /\ setting' \in Settings
  BY DEF StoreInv
<1>4. CASE UNCHANGED store
  <2>1. \A r \in 0 .. Len(log) : Document(r)' = Document(r)
    BY <1>2 DEF Document, Value
  <2>2. StoreShape' /\ StoreBounds'
    BY <1>1, <1>2, <1>4 DEF Good, Shaped, StoreShape, StoreBounds
  <2>3. StoreTracks'
    BY <1>1, <1>4, <2>1 DEF Good, StoreTracks, Tracks
  <2>4. InForce(store.set, now)
    BY <1>1 DEF Good
  <2>5. InForce(store.set, now)'
    BY <1>1, <1>2, <1>4, <2>4 DEF InForce
  <2> QED BY <1>2, <1>3, <2>2, <2>3, <2>5 DEF StoreInv
<1>5. CASE /\ ~setting.etcd /\ v \in Documents /\ decodes(v)
           /\ store' = [store EXCEPT !.set = decode_directive_set(v, now), !.doc = v, !.rev = Len(log) + 1]
  <2> DEFINE set == decode_directive_set(v, now)
  <2>1. store' = [store EXCEPT !.set = set, !.doc = v, !.rev = Len(log) + 1]
    BY <1>5
  <2> HIDE DEF set
  <2>2. /\ Shaped(store') /\ store'.pc = store.pc /\ store'.read = store.read /\ store'.rev = Len(log) + 1
        /\ store'.seen = store.seen /\ store'.faults = store.faults /\ store'.missed = store.missed
        /\ store'.set = set
    BY <1>1, <2>1 DEF Shaped
  <2>3. store'.pc = "off"
    BY <1>1, <1>5, <2>2 DEF Good
  <2>4. StoreShape' /\ StoreBounds'
    BY <1>1, <1>2, <2>2, <2>3 DEF Good, Shaped, StoreShape, StoreBounds
  <2>5. StoreTracks'
    BY <2>3 DEF StoreTracks
  <2>6. v \in Published'
    <3>1. v # None /\ \A w \in v : decodable(w)
      BY <1>5, DirectivesAssumption DEF decodes
    <3>2. Len(log) + 1 \in 1 .. Len(log')
      BY <1>1, <1>2
    <3> QED BY <1>2, <3>1, <3>2 DEF Published
  <2>7. InForce(store.set, now)'
    <3>1. store'.set = decode_directive_set(v, now) /\ now \in 0 .. now'
      BY <1>1, <2>2 DEF set
    <3> QED BY <2>6, <3>1 DEF InForce
  <2> QED BY <1>2, <1>3, <2>4, <2>5, <2>7 DEF StoreInv
<1> QED BY <1>4, <1>5

-----------------------------------------------------------------------------
(* Requests. *)

\* While the watch task, an operator or the clock moves, requests stay as they are.
LEMMA RequestsRest ==
  ASSUME TasksInv, ObsInv, UNCHANGED <<task, obs, setting>>, Published \subseteq Published'
  PROVE  TasksInv' /\ ObsInv'
<1>1. \A x : TaskOK(x) => TaskOK(x)'
  <2> SUFFICES ASSUME NEW x, TaskOK(x) PROVE TaskOK(x)'
    OBVIOUS
  <2>1. x.pc = "loaded" => InForce(x.set, x.at)'
    BY DEF TaskOK, InForce
  <2> QED BY <2>1 DEF TaskOK
<1>2. \A t \in Threads : TaskOK(task[t])'
  BY <1>1 DEF TasksInv
<1>3. \A t, doc, at : Asked(t, doc, at)' = Asked(t, doc, at)
  BY DEF Asked, Asking
<1>4. OneDocument'
  BY <1>3 DEF TasksInv, OneDocument, Decided
<1>5. TasksInv'
  BY <1>2, <1>4 DEF TasksInv
<1>6. ObsInv'
  BY DEF ObsInv, ObsShape, TracesOwn, TenantsOwn, TeedOwn, tee_capture, CountersExact, Uncounted, HalfCounted
<1> QED BY <1>5, <1>6

\* A step of one request.
LEMMA TaskStep ==
  ASSUME TasksInv, NEW t \in Threads, NEW x, task' = [task EXCEPT ![t] = x], UNCHANGED <<log, setting>>,
         obs.seq \in Nat, obs'.seq \in Nat, obs.seq <= obs'.seq, TaskOK(x)',
         x.pc # "idle" => \A u \in Threads : u # t /\ task[u].pc # "idle" => task[u].id # x.id,
         x.pc \in {"counting", "counted", "answered"} /\ ~x.streamed =>
           \E doc \in Published, at \in 0 .. x.at : x.out = Asked(t, doc, at)'
  PROVE  TasksInv'
<1>1. DOMAIN task' = Threads /\ task'[t] = x /\ \A u \in Threads : u # t => task'[u] = task[u]
  BY DEF TasksInv
<1>2. Published' = Published
  BY DEF Published
<1>3. ASSUME NEW u \in Threads
      PROVE  TaskOK(task[u])'
  <2>1. CASE u = t
    BY <1>1, <2>1
  <2>2. CASE u # t
    <3>1. TaskOK(task[u]) /\ task'[u] = task[u]
      BY <1>1, <2>2 DEF TasksInv
    <3>2. task[u].id \in 0 .. obs'.seq
      BY <3>1 DEF TaskOK
    <3>3. task[u].pc = "loaded" => InForce(task[u].set, task[u].at)'
      BY <3>1, <1>2 DEF TaskOK, InForce
    <3> QED BY <3>1, <3>2, <3>3 DEF TaskOK
  <2> QED BY <2>1, <2>2
<1>4. \A u, v \in Threads : u # v /\ task'[u].pc # "idle" /\ task'[v].pc # "idle" => task'[u].id # task'[v].id
  BY <1>1 DEF TasksInv
<1>5. ASSUME NEW u \in Threads, Decided(u)'
      PROVE  \E doc \in Published', at \in 0 .. task'[u].at : task'[u].out = Asked(u, doc, at)'
  <2>1. CASE u = t
    BY <1>1, <1>2, <1>5, <2>1 DEF Decided
  <2>2. CASE u # t
    <3>1. task'[u] = task[u]
      BY <1>1, <2>2
    <3>2. \A doc, at : Asked(u, doc, at)' = Asked(u, doc, at)
      <4>1. \A doc, at : Asking(u, doc, at)' = Asking(u, doc, at)
        BY <3>1 DEF Asking
      <4>2. setting' = setting
        OBVIOUS
      <4> DEFINE G(asking, s) == [level |-> Max({s.level} \cup {w.level : w \in asking}),
                                 ring |-> \E w \in asking : w.ring_buffer,
                                 traffic |-> s.capture \/ \E w \in asking : w.capture]
      <4>3. ASSUME NEW doc, NEW at
            PROVE  /\ Asked(u, doc, at) = G(Asking(u, doc, at), setting)
                   /\ Asked(u, doc, at)' = G(Asking(u, doc, at)', setting')
        BY DEF Asked
      <4> HIDE DEF G
      <4> QED BY <4>1, <4>2, <4>3
    <3>3. \E doc \in Published, at \in 0 .. task[u].at : task[u].out = Asked(u, doc, at)
      BY <1>5, <3>1 DEF TasksInv, OneDocument, Decided
    <3>4. PICK doc \in Published, at \in 0 .. task[u].at : task[u].out = Asked(u, doc, at)
      BY <3>3
    <3>5. task'[u].out = Asked(u, doc, at)' /\ doc \in Published' /\ at \in 0 .. task'[u].at
      BY <1>2, <3>1, <3>2, <3>4
    <3> QED BY <3>5
  <2> QED BY <2>1, <2>2
<1>6. OneDocument'
  BY <1>5 DEF OneDocument
<1> QED BY <1>1, <1>3, <1>4, <1>6 DEF TasksInv

\* Only the program counter moves.
LEMMA PcStep ==
  ASSUME TasksInv, NEW t \in Threads, task[t].pc # "idle", NEW p \in {"recorded", "counting", "counted", "answered"},
         task' = [task EXCEPT ![t].pc = p], UNCHANGED <<log, setting>>,
         p = "recorded" \/ task[t].streamed \/ task[t].pc \in {"counting", "counted"},
         obs.seq \in Nat, obs'.seq = obs.seq
  PROVE  TasksInv'
<1>1. PICK x : x = [task[t] EXCEPT !.pc = p]
  OBVIOUS
<1>2. task' = [task EXCEPT ![t] = x]
  BY <1>1
<1>3. TaskOK(task[t])
  BY DEF TasksInv
<1>4. /\ x = [pc |-> x.pc, id |-> x.id, attrs |-> x.attrs, header |-> x.header, ok |-> x.ok,
              streamed |-> x.streamed, at |-> x.at, set |-> x.set, out |-> x.out]
      /\ x.pc = p /\ x.id = task[t].id /\ x.attrs = task[t].attrs /\ x.header = task[t].header
      /\ x.at = task[t].at /\ x.set = task[t].set /\ x.out = task[t].out /\ x.streamed = task[t].streamed
  BY <1>1, <1>3 DEF TaskOK
<1>5. TaskOK(x)'
  BY <1>3, <1>4 DEF TaskOK, TaskPcs
<1>6. \A u \in Threads : u # t /\ task[u].pc # "idle" => task[u].id # x.id
  BY <1>4 DEF TasksInv
<1>7. \A doc, at : Asked(t, doc, at)' = Asked(t, doc, at)
  <2>1. task'[t] = x
    BY <1>2 DEF TasksInv
  <2> QED BY <1>4, <2>1 DEF Asked, Asking
<1>8. x.pc \in {"counting", "counted", "answered"} /\ ~x.streamed =>
        \E doc \in Published, at \in 0 .. x.at : x.out = Asked(t, doc, at)'
  BY <1>4, <1>7 DEF TasksInv, OneDocument, Decided
<1>9. obs.seq <= obs'.seq /\ obs'.seq \in Nat
  OBVIOUS
<1> HIDE DEF TasksInv
<1> QED BY <1>2, <1>5, <1>6, <1>8, <1>9, TaskStep

LEMMA PushedFrom ==
  ASSUME NEW S, NEW deque \in Seq(S), NEW e
  PROVE  /\ pushed(deque, e) \in Seq(S \cup {e})
         /\ \A k \in 1 .. Len(pushed(deque, e)) :
              pushed(deque, e)[k] = e \/ \E j \in 1 .. Len(deque) : pushed(deque, e)[k] = deque[j]
<1>1. deque \in Seq(S \cup {e})
  OBVIOUS
<1>2. CASE Len(deque) >= Capacity
  <2>1. deque # <<>>
    BY <1>2, DirectivesAssumption
  <2>2. /\ Tail(deque) \in Seq(S \cup {e})
        /\ Len(Tail(deque)) = Len(deque) - 1
        /\ \A k \in 1 .. Len(Tail(deque)) : Tail(deque)[k] = deque[k + 1]
    BY <1>1, <2>1
  <2>3. pushed(deque, e) = Append(Tail(deque), e)
    BY <1>2 DEF pushed
  <2>4. /\ pushed(deque, e) \in Seq(S \cup {e}) /\ Len(pushed(deque, e)) = Len(deque)
        /\ pushed(deque, e)[Len(deque)] = e
        /\ \A k \in 1 .. Len(deque) - 1 : pushed(deque, e)[k] = Tail(deque)[k]
    BY <1>1, <2>1, <2>2, <2>3
  <2>5. ASSUME NEW k \in 1 .. Len(deque) - 1
        PROVE  \E j \in 1 .. Len(deque) : pushed(deque, e)[k] = deque[j]
    <3>1. k + 1 \in 1 .. Len(deque) /\ k \in 1 .. Len(Tail(deque))
      BY <1>1, <2>2
    <3>2. pushed(deque, e)[k] = deque[k + 1]
      BY <2>2, <2>4, <3>1
    <3> QED BY <3>1, <3>2
  <2>6. \A k \in 1 .. Len(deque) : k \in 1 .. Len(deque) - 1 \/ k = Len(deque)
    BY <1>1
  <2> QED BY <2>4, <2>5, <2>6
<1>3. CASE ~(Len(deque) >= Capacity)
  <2>1. pushed(deque, e) = Append(deque, e)
    BY <1>3 DEF pushed
  <2> QED BY <1>1, <2>1
<1> QED BY <1>2, <1>3

\* How the two groups of requests change with one of them.
UncountedPcs == {"dispatched", "recorded", "loaded", "counting"}

LEMMA CountStep ==
  ASSUME DOMAIN task = Threads, NEW t \in Threads, NEW x, task' = [task EXCEPT ![t] = x]
  PROVE  /\ Cardinality(Uncounted) \in Nat /\ Cardinality(Uncounted') \in Nat
         /\ Cardinality(HalfCounted) \in Nat /\ Cardinality(HalfCounted') \in Nat
         /\ (x.pc \in UncountedPcs <=> task[t].pc \in UncountedPcs) => Cardinality(Uncounted') = Cardinality(Uncounted)
         /\ x.pc \in UncountedPcs /\ task[t].pc \notin UncountedPcs =>
              Cardinality(Uncounted') = Cardinality(Uncounted) + 1
         /\ x.pc \notin UncountedPcs /\ task[t].pc \in UncountedPcs =>
              Cardinality(Uncounted') = Cardinality(Uncounted) - 1
         /\ (x.pc = "counted" <=> task[t].pc = "counted") => Cardinality(HalfCounted') = Cardinality(HalfCounted)
         /\ x.pc = "counted" /\ task[t].pc # "counted" => Cardinality(HalfCounted') = Cardinality(HalfCounted) + 1
         /\ x.pc # "counted" /\ task[t].pc = "counted" => Cardinality(HalfCounted') = Cardinality(HalfCounted) - 1
<1>1. task'[t] = x /\ \A u \in Threads : u # t => task'[u] = task[u]
  OBVIOUS
<1>2. IsFiniteSet(Threads)
  BY DirectivesAssumption
<1>3. IsFiniteSet(Uncounted) /\ IsFiniteSet(HalfCounted) /\ IsFiniteSet(Uncounted') /\ IsFiniteSet(HalfCounted')
  <2>1. Uncounted \in SUBSET Threads /\ HalfCounted \in SUBSET Threads
        /\ Uncounted' \in SUBSET Threads /\ HalfCounted' \in SUBSET Threads
    BY DEF Uncounted, HalfCounted
  <2> QED BY <1>2, <2>1, FS_Subset
<1>4. /\ Cardinality(Uncounted) \in Nat /\ Cardinality(Uncounted') \in Nat
      /\ Cardinality(HalfCounted) \in Nat /\ Cardinality(HalfCounted') \in Nat
  BY <1>3, FS_CardinalityType
<1>5. /\ t \in Uncounted <=> task[t].pc \in UncountedPcs
      /\ t \in HalfCounted <=> task[t].pc = "counted"
  BY DEF Uncounted, HalfCounted, UncountedPcs
<1>6. Uncounted' = IF x.pc \in UncountedPcs THEN Uncounted \cup {t} ELSE Uncounted \ {t}
  BY <1>1 DEF Uncounted, UncountedPcs
<1>7. HalfCounted' = IF x.pc = "counted" THEN HalfCounted \cup {t} ELSE HalfCounted \ {t}
  BY <1>1 DEF HalfCounted
<1>8. /\ Cardinality(Uncounted \cup {t}) = IF t \in Uncounted THEN Cardinality(Uncounted) ELSE Cardinality(Uncounted) + 1
      /\ Cardinality(HalfCounted \cup {t})
           = IF t \in HalfCounted THEN Cardinality(HalfCounted) ELSE Cardinality(HalfCounted) + 1
  BY <1>3, FS_AddElement
<1>9. /\ Cardinality(Uncounted \ {t}) = IF t \in Uncounted THEN Cardinality(Uncounted) - 1 ELSE Cardinality(Uncounted)
      /\ Cardinality(HalfCounted \ {t})
           = IF t \in HalfCounted THEN Cardinality(HalfCounted) - 1 ELSE Cardinality(HalfCounted)
  BY <1>3, FS_RemoveElement
<1> HIDE DEF Uncounted, HalfCounted, UncountedPcs
<1>10. /\ (x.pc \in UncountedPcs <=> task[t].pc \in UncountedPcs) => Cardinality(Uncounted') = Cardinality(Uncounted)
       /\ x.pc \in UncountedPcs /\ task[t].pc \notin UncountedPcs =>
            Cardinality(Uncounted') = Cardinality(Uncounted) + 1
       /\ x.pc \notin UncountedPcs /\ task[t].pc \in UncountedPcs =>
            Cardinality(Uncounted') = Cardinality(Uncounted) - 1
  BY <1>5, <1>6, <1>8, <1>9
<1>11. /\ (x.pc = "counted" <=> task[t].pc = "counted") => Cardinality(HalfCounted') = Cardinality(HalfCounted)
       /\ x.pc = "counted" /\ task[t].pc # "counted" => Cardinality(HalfCounted') = Cardinality(HalfCounted) + 1
       /\ x.pc # "counted" /\ task[t].pc = "counted" => Cardinality(HalfCounted') = Cardinality(HalfCounted) - 1
  BY <1>5, <1>7, <1>8, <1>9
<1> QED BY <1>4, <1>10, <1>11

LEMMA TracesStep ==
  ASSUME TasksInv, TracesOwn, NEW t \in Threads, NEW x, task' = [task EXCEPT ![t] = x],
         obs.seq \in Nat, obs'.seq \in Nat, obs.seq <= obs'.seq,
         \/ x.pc = "idle"
         \/ x.id = task[t].id /\ x.attrs = task[t].attrs /\ task[t].pc # "idle"
         \/ x.id = obs.seq + 1,
         x.pc # "idle" => \A u \in Threads : u # t /\ task[u].pc # "idle" => task[u].id # x.id,
         \A k \in 1 .. Len(obs'.explain) :
           \/ \E j \in 1 .. Len(obs.explain) : obs'.explain[k] = obs.explain[j]
           \/ /\ x.pc # "idle" /\ x.id \in 0 .. obs'.seq
              /\ obs'.explain[k].id = x.id /\ obs'.explain[k].tenant = x.attrs.tenant
  PROVE  TracesOwn'
<1>1. task'[t] = x /\ \A u \in Threads : u # t => task'[u] = task[u]
  BY DEF TasksInv
<1> SUFFICES ASSUME NEW k \in 1 .. Len(obs'.explain)
             PROVE  /\ obs'.explain[k].id \in 0 .. obs'.seq
                    /\ \A u \in Threads : task'[u].pc # "idle" /\ task'[u].id = obs'.explain[k].id =>
                         obs'.explain[k].tenant = task'[u].attrs.tenant
  BY DEF TracesOwn
<1>2. CASE \E j \in 1 .. Len(obs.explain) : obs'.explain[k] = obs.explain[j]
  <2>1. PICK j \in 1 .. Len(obs.explain) : obs'.explain[k] = obs.explain[j]
    BY <1>2
  <2>2. /\ obs.explain[j].id \in 0 .. obs.seq
        /\ \A u \in Threads : task[u].pc # "idle" /\ task[u].id = obs.explain[j].id =>
             obs.explain[j].tenant = task[u].attrs.tenant
    BY <2>1 DEF TracesOwn
  <2>3. obs'.explain[k].id \in 0 .. obs'.seq /\ obs.explain[j].id # obs.seq + 1
    BY <2>1, <2>2
  <2> QED BY <1>1, <2>1, <2>2, <2>3
<1>3. CASE /\ x.pc # "idle" /\ x.id \in 0 .. obs'.seq
           /\ obs'.explain[k].id = x.id /\ obs'.explain[k].tenant = x.attrs.tenant
  BY <1>1, <1>3
<1> QED BY <1>2, <1>3

\* A step that leaves the traces and the request's id and tenant alone.
LEMMA TracesKept ==
  ASSUME TasksInv, TracesOwn, NEW t \in Threads, NEW x, task' = [task EXCEPT ![t] = x],
         obs'.seq = obs.seq, obs'.explain = obs.explain,
         x.id = task[t].id, x.attrs = task[t].attrs, task[t].pc # "idle"
  PROVE  TracesOwn'
<1>1. task'[t] = x /\ \A u \in Threads : u # t => task'[u] = task[u]
  BY DEF TasksInv
<1>2. \A u \in Threads : task'[u].id = task[u].id /\ task'[u].attrs = task[u].attrs
  BY <1>1
<1>3. \A u \in Threads : task'[u].pc # "idle" => task[u].pc # "idle"
  BY <1>1
<1> QED BY <1>2, <1>3 DEF TracesOwn

\* A step that captures nothing, of a request that is not answered by it.
LEMMA TeedKept ==
  ASSUME TasksInv, TeedOwn, NEW t \in Threads, NEW x, task' = [task EXCEPT ![t] = x], setting' = setting,
         obs.seq \in Nat, obs'.seq \in Nat, obs.seq <= obs'.seq, obs'.teed = obs.teed, x.pc # "answered",
         \/ x.pc = "idle"
         \/ x.id = task[t].id /\ task[t].pc \notin {"idle", "answered"}
         \/ x.id = obs.seq + 1
  PROVE  TeedOwn'
<1>1. task'[t] = x /\ \A u \in Threads : u # t => task'[u] = task[u]
  BY DEF TasksInv
<1>2. \A id \in obs'.teed : id \in 0 .. obs'.seq
  BY DEF TeedOwn
<1>3. ~setting'.sink => obs'.teed = {}
  BY DEF TeedOwn
<1>4. obs.seq + 1 \notin obs.teed
  BY DEF TeedOwn
<1>5. ASSUME NEW u \in Threads, task'[u].pc # "idle"
      PROVE  task'[u].id \in obs'.teed <=> task'[u].pc = "answered" /\ tee_capture(u)'
  <2>1. CASE u = t
    BY <1>1, <1>4, <1>5, <2>1 DEF TeedOwn
  <2>2. CASE u # t
    <3>1. task'[u] = task[u] /\ (tee_capture(u)' <=> tee_capture(u))
      BY <1>1, <2>2 DEF tee_capture
    <3> QED BY <1>5, <3>1 DEF TeedOwn
  <2> QED BY <2>1, <2>2
<1> QED BY <1>2, <1>3, <1>5 DEF TeedOwn

LEMMA ReceiveKeeps ==
  ASSUME TasksInv, ObsInv, NEW t \in Threads, NEW a \in Arrivals, Receive(t, a)
  PROVE  TasksInv' /\ ObsInv'
<1>1. PICK x : x = [Idle EXCEPT !.pc = "dispatched", !.id = obs.seq + 1, !.attrs = a.attrs,
                                !.header = a.header, !.ok = a.ok, !.streamed = streams(a)]
  OBVIOUS
<1>2. /\ task[t].pc = "idle" /\ task' = [task EXCEPT ![t] = x] /\ obs' = [obs EXCEPT !.seq = obs.seq + 1]
      /\ UNCHANGED <<now, setting, log, store>>
  BY <1>1 DEF Receive, next_request_id
<1>3. /\ x = [pc |-> x.pc, id |-> x.id, attrs |-> x.attrs, header |-> x.header, ok |-> x.ok,
              streamed |-> x.streamed, at |-> x.at, set |-> x.set, out |-> x.out]
      /\ x.pc = "dispatched" /\ x.id = obs.seq + 1 /\ x.header = a.header /\ x.at = 0 /\ x.streamed = streams(a)
  BY <1>1 DEF Idle
<1>4. ObsShape /\ obs.seq \in Nat
  BY DEF ObsInv, ObsShape
<1>5. /\ ObsShape' /\ obs'.seq = obs.seq + 1 /\ obs'.explain = obs.explain /\ obs'.total = obs.total
      /\ obs'.ok = obs.ok /\ obs'.error = obs.error /\ obs'.tenants = obs.tenants
      /\ obs'.teed = obs.teed /\ obs'.away = obs.away
  BY <1>2, <1>4 DEF ObsShape
<1>6. obs'.seq \in Nat /\ obs.seq <= obs'.seq /\ x.id \in 0 .. obs'.seq /\ x.at \in Nat
  BY <1>3, <1>4, <1>5
<1>7. x.header = None \/ (x.header.level \in Levels /\ x.header.exp \in Nat)
  BY <1>3, DirectivesAssumption DEF Levels
<1>8. TaskOK(x)'
  <2>1. x.streamed => ~setting'.sink
    BY <1>2, <1>3 DEF streams
  <2> QED BY <1>3, <1>6, <1>7, <2>1 DEF TaskOK, TaskPcs
<1>9. \A u \in Threads : u # t /\ task[u].pc # "idle" => task[u].id # x.id
  <2>1. \A u \in Threads : task[u].id \in 0 .. obs.seq
    BY DEF TasksInv, TaskOK
  <2> QED BY <1>3, <1>4, <2>1
<1>10. TasksInv'
  BY <1>2, <1>3, <1>4, <1>6, <1>8, <1>9, TaskStep
<1>11. \A k \in 1 .. Len(obs'.explain) : \E j \in 1 .. Len(obs.explain) : obs'.explain[k] = obs.explain[j]
  BY <1>5
<1>12. TracesOwn'
  BY <1>2, <1>3, <1>4, <1>6, <1>9, <1>11, TracesStep DEF ObsInv
<1>13. TenantsOwn'
  BY <1>5 DEF ObsInv, TenantsOwn
<1>14. CountersExact'
  <2>1. DOMAIN task = Threads /\ CountersExact
    BY DEF TasksInv, ObsInv
  <2>2. /\ Cardinality(Uncounted) \in Nat /\ Cardinality(HalfCounted') = Cardinality(HalfCounted)
        /\ Cardinality(Uncounted') = Cardinality(Uncounted) + 1
    BY <1>2, <1>3, <2>1, CountStep DEF UncountedPcs
  <2>3. obs.total \in Nat /\ obs.ok \in Nat /\ obs.error \in Nat /\ obs.away \in Nat
    BY <1>4 DEF ObsShape
  <2> QED BY <1>4, <1>5, <2>1, <2>2, <2>3 DEF CountersExact
<1>15. TeedOwn'
  BY <1>2, <1>3, <1>4, <1>5, <1>6, TeedKept DEF ObsInv
<1> QED BY <1>5, <1>10, <1>12, <1>13, <1>14, <1>15 DEF ObsInv

\* A step that leaves a request's id and attributes alone, and the counters, keeps what
\* is recorded true.
LEMMA QuietStep ==
  ASSUME TasksInv, ObsInv, NEW t \in Threads, NEW x, task' = [task EXCEPT ![t] = x],
         task[t].pc \in UncountedPcs, x.pc \in UncountedPcs, x.id = task[t].id, x.attrs = task[t].attrs,
         ObsShape', obs'.seq = obs.seq, obs'.total = obs.total, obs'.ok = obs.ok, obs'.error = obs.error,
         obs'.tenants = obs.tenants, obs'.teed = obs.teed, obs'.away = obs.away, setting' = setting,
         \A k \in 1 .. Len(obs'.explain) :
           \/ \E j \in 1 .. Len(obs.explain) : obs'.explain[k] = obs.explain[j]
           \/ obs'.explain[k].id = x.id /\ obs'.explain[k].tenant = x.attrs.tenant
  PROVE  ObsInv'
<1>1. obs.seq \in Nat /\ obs'.seq \in Nat /\ obs.seq <= obs'.seq /\ TracesOwn
  BY DEF ObsInv, ObsShape
<1>2. x.pc # "idle" /\ task[t].pc # "idle" /\ x.id \in 0 .. obs'.seq
  BY DEF TasksInv, TaskOK, UncountedPcs
<1>3. \A u \in Threads : u # t /\ task[u].pc # "idle" => task[u].id # x.id
  BY <1>2 DEF TasksInv
<1>4. \A k \in 1 .. Len(obs'.explain) :
        \/ \E j \in 1 .. Len(obs.explain) : obs'.explain[k] = obs.explain[j]
        \/ /\ x.pc # "idle" /\ x.id \in 0 .. obs'.seq
           /\ obs'.explain[k].id = x.id /\ obs'.explain[k].tenant = x.attrs.tenant
  BY <1>2
<1>5. TracesOwn'
  BY <1>1, <1>2, <1>3, <1>4, TracesStep
<1>6. TenantsOwn'
  BY DEF ObsInv, TenantsOwn
<1>7. CountersExact'
  <2>1. DOMAIN task = Threads /\ CountersExact
    BY DEF TasksInv, ObsInv
  <2>2. x.pc # "counted" /\ task[t].pc # "counted"
    BY DEF UncountedPcs
  <2>3. Cardinality(Uncounted') = Cardinality(Uncounted) /\ Cardinality(HalfCounted') = Cardinality(HalfCounted)
    BY <2>1, <2>2, CountStep
  <2> QED BY <2>1, <2>3 DEF CountersExact
<1>8. TeedOwn'
  <2>1. x.pc # "answered" /\ task[t].pc \notin {"idle", "answered"} /\ TeedOwn
    BY DEF UncountedPcs, ObsInv
  <2> QED BY <1>1, <2>1, TeedKept
<1> QED BY <1>5, <1>6, <1>7, <1>8 DEF ObsInv

LEMMA RecordKeeps ==
  ASSUME TasksInv, ObsInv, NEW t \in Threads, record(t)
  PROVE  TasksInv' /\ ObsInv'
<1> DEFINE e == [id |-> task[t].id, tenant |-> task[t].attrs.tenant]
           p == IF task[t].streamed THEN "counting" ELSE "recorded"
<1>1. /\ task[t].pc = "dispatched" /\ task' = [task EXCEPT ![t].pc = p]
      /\ obs' = [obs EXCEPT !.explain = pushed(obs.explain, e)] /\ UNCHANGED <<now, setting, log, store>>
  BY DEF record
<1>2. ObsShape /\ obs.seq \in Nat
  BY DEF ObsInv, ObsShape
<1>3. /\ e.id = task[t].id /\ e.tenant = task[t].attrs.tenant
      /\ p = "recorded" \/ (p = "counting" /\ task[t].streamed)
  OBVIOUS
<1> HIDE DEF e, p
<1>4. /\ \E S : pushed(obs.explain, e) \in Seq(S)
      /\ \A k \in 1 .. Len(pushed(obs.explain, e)) :
           pushed(obs.explain, e)[k] = e \/ \E j \in 1 .. Len(obs.explain) : pushed(obs.explain, e)[k] = obs.explain[j]
  <2>1. PICK S : obs.explain \in Seq(S)
    BY <1>2 DEF ObsShape
  <2>2. PICK deque, f : deque \in Seq(S) /\ deque = obs.explain /\ f = e
    BY <2>1
  <2>3. /\ pushed(deque, f) \in Seq(S \cup {f})
        /\ \A k \in 1 .. Len(pushed(deque, f)) :
             pushed(deque, f)[k] = f \/ \E j \in 1 .. Len(deque) : pushed(deque, f)[k] = deque[j]
    BY <2>2, PushedFrom
  <2> QED BY <2>2, <2>3
<1>5. /\ ObsShape' /\ obs'.seq = obs.seq /\ obs'.explain = pushed(obs.explain, e) /\ obs'.total = obs.total
      /\ obs'.ok = obs.ok /\ obs'.error = obs.error /\ obs'.tenants = obs.tenants
      /\ obs'.teed = obs.teed /\ obs'.away = obs.away
  BY <1>1, <1>2, <1>4 DEF ObsShape
<1>6. TasksInv'
  BY <1>1, <1>2, <1>3, <1>5, PcStep
<1>7. PICK x : x = [task[t] EXCEPT !.pc = p]
  OBVIOUS
<1>8. task' = [task EXCEPT ![t] = x]
  BY <1>1, <1>7
<1>9. x.pc = p /\ x.id = task[t].id /\ x.attrs = task[t].attrs
  BY <1>7 DEF TasksInv, TaskOK
<1>10. task[t].pc \in UncountedPcs /\ x.pc \in UncountedPcs
  BY <1>1, <1>3, <1>9 DEF UncountedPcs
<1>11. \A k \in 1 .. Len(obs'.explain) :
         \/ \E j \in 1 .. Len(obs.explain) : obs'.explain[k] = obs.explain[j]
         \/ obs'.explain[k].id = x.id /\ obs'.explain[k].tenant = x.attrs.tenant
  BY <1>3, <1>4, <1>5, <1>9
<1>12. ObsInv'
  BY <1>1, <1>5, <1>8, <1>9, <1>10, <1>11, QuietStep
<1> QED BY <1>6, <1>12

LEMMA LoadKeeps ==
  ASSUME StoreInv, TasksInv, ObsInv, NEW t \in Threads, load(t)
  PROVE  TasksInv' /\ ObsInv'
<1>1. PICK x : x = [task[t] EXCEPT !.pc = "loaded", !.at = now, !.set = store.set]
  OBVIOUS
<1>2. /\ task[t].pc = "recorded" /\ task' = [task EXCEPT ![t] = x] /\ UNCHANGED <<now, setting, log, store, obs>>
  BY <1>1 DEF load
<1>3. TaskOK(task[t])
  BY DEF TasksInv
<1>4. /\ x = [pc |-> x.pc, id |-> x.id, attrs |-> x.attrs, header |-> x.header, ok |-> x.ok,
              streamed |-> x.streamed, at |-> x.at, set |-> x.set, out |-> x.out]
      /\ x.pc = "loaded" /\ x.id = task[t].id /\ x.attrs = task[t].attrs /\ x.header = task[t].header
      /\ x.at = now /\ x.set = store.set /\ x.streamed = task[t].streamed
  BY <1>1, <1>3 DEF TaskOK
<1>5. InForce(x.set, x.at) /\ x.at \in Nat
  BY <1>4 DEF StoreInv
<1>6. InForce(x.set, x.at)'
  <2>1. Published' = Published
    BY <1>2 DEF Published
  <2> QED BY <1>5, <2>1 DEF InForce
<1>7. TaskOK(x)'
  BY <1>2, <1>3, <1>4, <1>5, <1>6 DEF TaskOK, TaskPcs
<1>8. \A u \in Threads : u # t /\ task[u].pc # "idle" => task[u].id # x.id
  BY <1>2, <1>4 DEF TasksInv
<1>9. ObsShape /\ obs.seq \in Nat /\ obs'.seq \in Nat /\ obs.seq <= obs'.seq
  BY <1>2 DEF ObsInv, ObsShape
<1>10. TasksInv'
  BY <1>2, <1>4, <1>7, <1>8, <1>9, TaskStep
<1>11. task[t].pc \in UncountedPcs /\ x.pc \in UncountedPcs
  BY <1>2, <1>4 DEF UncountedPcs
<1>12. ObsShape'
  BY <1>2, <1>9 DEF ObsShape
<1>13. obs' = obs
  BY <1>2
<1>14. ObsInv'
  BY <1>2, <1>4, <1>11, <1>12, <1>13, QuietStep
<1> QED BY <1>10, <1>14

LEMMA DiagnoseKeeps ==
  ASSUME StoreInv, TasksInv, ObsInv, NEW t \in Threads, diagnose(t)
  PROVE  TasksInv' /\ ObsInv'
<1>1. PICK x : x = [task[t] EXCEPT !.pc = "counting", !.out = judged(t)]
  OBVIOUS
<1>2. /\ task[t].pc = "loaded" /\ task' = [task EXCEPT ![t] = x] /\ UNCHANGED <<now, setting, log, store>>
      /\ obs' = IF judged(t).ring THEN [obs EXCEPT !.tape = pushed(@, task[t].id)] ELSE obs
  BY <1>1 DEF diagnose
<1>3. TaskOK(task[t])
  BY DEF TasksInv
<1>4. /\ x = [pc |-> x.pc, id |-> x.id, attrs |-> x.attrs, header |-> x.header, ok |-> x.ok,
              streamed |-> x.streamed, at |-> x.at, set |-> x.set, out |-> x.out]
      /\ x.pc = "counting" /\ x.id = task[t].id /\ x.attrs = task[t].attrs /\ x.header = task[t].header
      /\ x.at = task[t].at /\ x.set = task[t].set /\ x.out = judged(t)
      /\ x.streamed = task[t].streamed
  BY <1>1, <1>3 DEF TaskOK
<1>5. ObsShape /\ obs.seq \in Nat
  BY DEF ObsInv, ObsShape
<1>6. /\ ObsShape' /\ obs'.seq = obs.seq /\ obs'.explain = obs.explain /\ obs'.total = obs.total
      /\ obs'.ok = obs.ok /\ obs'.error = obs.error /\ obs'.tenants = obs.tenants
      /\ obs'.teed = obs.teed /\ obs'.away = obs.away
  <2>1. CASE obs' = obs
    BY <1>5, <2>1 DEF ObsShape
  <2>2. CASE obs' = [obs EXCEPT !.tape = pushed(@, task[t].id)]
    BY <1>5, <2>2 DEF ObsShape
  <2> QED BY <1>2, <2>1, <2>2
<1>7. TaskOK(x)'
  BY <1>2, <1>3, <1>4, <1>6 DEF TaskOK, TaskPcs
<1>8. \A u \in Threads : u # t /\ task[u].pc # "idle" => task[u].id # x.id
  BY <1>2, <1>4 DEF TasksInv
<1>9. \E doc \in Published, at \in 0 .. x.at : x.out = Asked(t, doc, at)'
  <2>1. PICK doc \in Published, at \in 0 .. task[t].at : task[t].set = decode_directive_set(doc, at)
    BY <1>2, <1>3 DEF TaskOK, InForce
  <2>2. at \in Nat /\ setting \in Settings /\ log \in Seq(Values) /\ task[t].at \in Nat
    BY <1>3, <2>1 DEF TaskOK, StoreInv
  <2>3. judged(t) = Asked(t, doc, at)
    BY <1>3, <1>5, <2>1, <2>2, JudgedAsked
  <2>4. task'[t] = x /\ setting' = setting
    BY <1>2 DEF TasksInv
  <2>5. Asked(t, doc, at)' = Asked(t, doc, at)
    BY <1>4, <2>4 DEF Asked, Asking
  <2> QED BY <1>4, <2>1, <2>3, <2>5
<1>10. obs'.seq \in Nat /\ obs.seq <= obs'.seq
  BY <1>5, <1>6
<1>11. TasksInv'
  BY <1>2, <1>5, <1>7, <1>8, <1>9, <1>10, TaskStep
<1>12. task[t].pc \in UncountedPcs /\ x.pc \in UncountedPcs
  BY <1>2, <1>4 DEF UncountedPcs
<1>13. ObsInv'
  BY <1>2, <1>4, <1>6, <1>12, QuietStep
<1> QED BY <1>11, <1>13

LEMMA MinOfNaturals ==
  ASSUME NEW S \in SUBSET Nat, S # {}
  PROVE  Min(S) \in S
<1>1. \E x \in S : \A y \in S : ~ (<<y, x>> \in OpToRel(<, Nat))
  BY WFMin, NatLessThanWellFounded
<1>2. PICK x \in S : \A y \in S : ~ (<<y, x>> \in OpToRel(<, Nat))
  BY <1>1
<1>3. \A y \in S : x <= y
  <2> SUFFICES ASSUME NEW y \in S PROVE x <= y
    OBVIOUS
  <2>1. y < x => <<y, x>> \in OpToRel(<, Nat)
    BY DEF OpToRel
  <2>2. ~ (y < x)
    BY <1>2, <2>1, Zenon
  <2> QED BY <2>2
<1> QED BY <1>3 DEF Min

\* What is explained under the id of a request is that request's.
LEMMA ExplainedIsOwn ==
  ASSUME TasksInv, ObsInv, NEW t \in Threads, task[t].pc # "idle", explained(task[t].id) # {}
  PROVE  explain(task[t].id).tenant = task[t].attrs.tenant
<1> DEFINE E == explained(task[t].id)
           k == Min(E)
<1>1. PICK S : obs.explain \in Seq(S)
  BY DEF ObsInv, ObsShape
<1>2. E \in SUBSET Nat /\ E \in SUBSET (1 .. Len(obs.explain)) /\ \A j \in E : obs.explain[j].id = task[t].id
  BY <1>1 DEF explained
<1>3. k \in E
  BY <1>2, MinOfNaturals
<1> HIDE DEF k, E
<1>4. k \in 1 .. Len(obs.explain) /\ obs.explain[k].id = task[t].id
  BY <1>2, <1>3
<1>5. obs.explain[k].tenant = task[t].attrs.tenant
  BY <1>4 DEF ObsInv, TracesOwn
<1> QED BY <1>5 DEF explain, k, E

LEMMA CountKeeps ==
  ASSUME TasksInv, ObsInv, NEW t \in Threads, count(t)
  PROVE  TasksInv' /\ ObsInv'
<1>1. PICK x : x = [task[t] EXCEPT !.pc = "counted"]
  OBVIOUS
<1>2. /\ task[t].pc = "counting" /\ task' = [task EXCEPT ![t] = x] /\ task' = [task EXCEPT ![t].pc = "counted"]
      /\ UNCHANGED <<now, setting, log, store>> /\ obs' = [obs EXCEPT !.total = @ + 1]
  BY <1>1 DEF count, count_first
<1>3. x.pc = "counted" /\ x.id = task[t].id /\ x.attrs = task[t].attrs
  BY <1>1 DEF TasksInv, TaskOK
<1>4. ObsShape /\ obs.seq \in Nat /\ TracesOwn
  BY DEF ObsInv, ObsShape
<1>5. /\ ObsShape' /\ obs'.seq = obs.seq /\ obs'.explain = obs.explain /\ obs'.total = obs.total + 1
      /\ obs'.ok = obs.ok /\ obs'.error = obs.error /\ obs'.tenants = obs.tenants
      /\ obs'.teed = obs.teed /\ obs'.away = obs.away
  BY <1>2, <1>4 DEF ObsShape
<1>6. TasksInv'
  BY <1>2, <1>4, <1>5, PcStep
<1>10. TracesOwn'
  <2>1. task[t].pc # "idle" /\ task' = [task EXCEPT ![t] = x]
    BY <1>2
  <2> QED BY <1>3, <1>4, <1>5, <2>1, TracesKept
<1>11. TenantsOwn'
  BY <1>5 DEF ObsInv, TenantsOwn
<1>12. CountersExact'
  <2>1. DOMAIN task = Threads /\ CountersExact
    BY DEF TasksInv, ObsInv
  <2>2. /\ Cardinality(Uncounted) \in Nat /\ Cardinality(HalfCounted) \in Nat
        /\ Cardinality(Uncounted') = Cardinality(Uncounted) - 1
        /\ Cardinality(HalfCounted') = Cardinality(HalfCounted) + 1
    BY <1>2, <1>3, <2>1, CountStep DEF UncountedPcs
  <2>3. obs.total \in Nat /\ obs.ok \in Nat /\ obs.error \in Nat /\ obs.away \in Nat
    BY <1>4 DEF ObsShape
  <2> QED BY <1>4, <1>5, <2>1, <2>2, <2>3 DEF CountersExact
<1>13. TeedOwn'
  <2>1. TeedOwn /\ x.pc # "answered" /\ task[t].pc \notin {"idle", "answered"} /\ setting' = setting
    BY <1>2, <1>3 DEF ObsInv
  <2>2. task' = [task EXCEPT ![t] = x] /\ obs'.seq \in Nat /\ obs.seq <= obs'.seq
    BY <1>2, <1>4, <1>5
  <2> QED BY <1>3, <1>4, <1>5, <2>1, <2>2, TeedKept
<1> QED BY <1>5, <1>6, <1>10, <1>11, <1>12, <1>13 DEF ObsInv

LEMMA AfterKeeps ==
  ASSUME TasksInv, ObsInv, NEW t \in Threads, after_response(t)
  PROVE  TasksInv' /\ ObsInv'
<1>1. PICK x : x = [task[t] EXCEPT !.pc = "answered"]
  OBVIOUS
<1> DEFINE tn == tenant_of(t)
           new == [tenant |-> tn, of |-> task[t].attrs.tenant]
           more == obs.teed \cup (IF tee_capture(t) THEN {task[t].id} ELSE {})
<1>2. PICK counted : counted = IF task[t].ok THEN [obs EXCEPT !.ok = @ + 1, !.teed = more]
                               ELSE [obs EXCEPT !.error = @ + 1, !.teed = more]
  OBVIOUS
<1>3. /\ task[t].pc = "counted" /\ task' = [task EXCEPT ![t] = x] /\ task' = [task EXCEPT ![t].pc = "answered"]
      /\ UNCHANGED <<now, setting, log, store>>
      /\ obs' = IF tn = None THEN counted ELSE [counted EXCEPT !.tenants = Append(@, new)]
  BY <1>1, <1>2 DEF after_response
<1>4. x.pc = "answered" /\ x.id = task[t].id /\ x.attrs = task[t].attrs
  BY <1>1 DEF TasksInv, TaskOK
<1>5. ObsShape /\ obs.seq \in Nat /\ TracesOwn
  BY DEF ObsInv, ObsShape
<1>6. PICK S : obs.tenants \in Seq(S)
  BY <1>5 DEF ObsShape
<1> HIDE DEF more
<1>7. /\ counted = [seq |-> obs.seq, explain |-> obs.explain, tape |-> obs.tape, total |-> obs.total,
                    ok |-> counted.ok, error |-> counted.error, tenants |-> obs.tenants,
                    teed |-> more, away |-> obs.away]
      /\ counted.ok \in Nat /\ counted.error \in Nat /\ counted.ok + counted.error = obs.ok + obs.error + 1
  <2>0. obs.ok \in Nat /\ obs.error \in Nat
    BY <1>5 DEF ObsShape
  <2>1. CASE counted = [obs EXCEPT !.ok = @ + 1, !.teed = more]
    <3>1. /\ counted = [seq |-> obs.seq, explain |-> obs.explain, tape |-> obs.tape, total |-> obs.total,
                        ok |-> counted.ok, error |-> counted.error, tenants |-> obs.tenants,
                        teed |-> more, away |-> obs.away]
          /\ counted.ok = obs.ok + 1 /\ counted.error = obs.error
      BY <1>5, <2>1 DEF ObsShape
    <3> QED BY <2>0, <3>1
  <2>2. CASE counted = [obs EXCEPT !.error = @ + 1, !.teed = more]
    <3>1. /\ counted = [seq |-> obs.seq, explain |-> obs.explain, tape |-> obs.tape, total |-> obs.total,
                        ok |-> counted.ok, error |-> counted.error, tenants |-> obs.tenants,
                        teed |-> more, away |-> obs.away]
          /\ counted.ok = obs.ok /\ counted.error = obs.error + 1
      BY <1>5, <2>2 DEF ObsShape
    <3> QED BY <2>0, <3>1
  <2> QED BY <1>2, <2>1, <2>2
<1>8. tn # None => new.tenant = new.of
  BY <1>3, ExplainedIsOwn DEF tenant_of
<1> HIDE DEF new, tn
<1>9. /\ obs' = [seq |-> obs.seq, explain |-> obs.explain, tape |-> obs.tape, total |-> obs.total,
                 ok |-> counted.ok, error |-> counted.error, tenants |-> obs'.tenants,
                 teed |-> more, away |-> obs.away]
      /\ obs'.tenants = obs.tenants \/ (tn # None /\ obs'.tenants = Append(obs.tenants, new))
  <2>1. CASE tn = None
    BY <1>3, <1>7, <2>1
  <2>2. CASE tn # None
    <3>1. PICK longer : longer = Append(counted.tenants, new)
      OBVIOUS
    <3>2. obs' = [counted EXCEPT !.tenants = longer]
      BY <1>3, <2>2, <3>1
    <3>3. counted.tenants = obs.tenants
      BY <1>7
    <3>4. obs' = [seq |-> obs.seq, explain |-> obs.explain, tape |-> obs.tape, total |-> obs.total,
                  ok |-> counted.ok, error |-> counted.error, tenants |-> longer,
                  teed |-> more, away |-> obs.away]
      BY <1>7, <3>2
    <3>5. obs'.tenants = longer
      BY <3>4
    <3> QED BY <2>2, <3>1, <3>3, <3>4, <3>5
  <2> QED BY <2>1, <2>2
<1>10. /\ obs'.seq = obs.seq /\ obs'.explain = obs.explain /\ obs'.total = obs.total
       /\ obs'.ok = counted.ok /\ obs'.error = counted.error /\ obs'.teed = more /\ obs'.away = obs.away
  BY <1>9
<1>11. /\ \E T : obs'.tenants \in Seq(T)
       /\ TenantsOwn'
  <2>1. TenantsOwn
    BY DEF ObsInv
  <2>2. CASE obs'.tenants = obs.tenants
    BY <1>6, <2>1, <2>2 DEF TenantsOwn
  <2>3. CASE tn # None /\ obs'.tenants = Append(obs.tenants, new)
    <3>1. obs.tenants \in Seq(S \cup {new})
      BY <1>6
    <3>2. /\ obs'.tenants \in Seq(S \cup {new}) /\ Len(obs'.tenants) = Len(obs.tenants) + 1
          /\ obs'.tenants[Len(obs.tenants) + 1] = new
          /\ \A k \in 1 .. Len(obs.tenants) : obs'.tenants[k] = obs.tenants[k]
      BY <2>3, <3>1
    <3>3. Len(obs.tenants) \in Nat
      BY <1>6
    <3> QED BY <1>8, <2>1, <2>3, <3>2, <3>3 DEF TenantsOwn
  <2> QED BY <1>9, <2>2, <2>3
<1>12. ObsShape'
  BY <1>5, <1>7, <1>9, <1>10, <1>11 DEF ObsShape
<1>13. TasksInv'
  BY <1>3, <1>5, <1>10, PcStep
<1>17. TracesOwn'
  <2>1. task[t].pc # "idle" /\ task' = [task EXCEPT ![t] = x]
    BY <1>3
  <2> QED BY <1>4, <1>5, <1>10, <2>1, TracesKept
<1>18. CountersExact'
  <2>1. DOMAIN task = Threads /\ CountersExact
    BY DEF TasksInv, ObsInv
  <2>2. /\ Cardinality(HalfCounted) \in Nat
        /\ Cardinality(Uncounted') = Cardinality(Uncounted)
        /\ Cardinality(HalfCounted') = Cardinality(HalfCounted) - 1
    BY <1>3, <1>4, <2>1, CountStep DEF UncountedPcs
  <2>3. obs.total \in Nat /\ obs.ok \in Nat /\ obs.error \in Nat /\ obs.away \in Nat
    BY <1>5 DEF ObsShape
  <2> QED BY <1>7, <1>10, <2>1, <2>2, <2>3 DEF CountersExact
<1>19. TeedOwn'
  <2>1. /\ TeedOwn /\ task'[t] = x /\ \A u \in Threads : u # t => task'[u] = task[u]
        /\ \A u \in Threads : u # t /\ task[u].pc # "idle" => task[u].id # task[t].id
        /\ task[t].id \in 0 .. obs.seq
    BY <1>3 DEF ObsInv, TasksInv, TaskOK
  <2>2. x.streamed = task[t].streamed /\ x.out = task[t].out
    BY <1>1 DEF TasksInv, TaskOK
  <2>3. \A u \in Threads : tee_capture(u)' <=> tee_capture(u)
    BY <1>3, <2>1, <2>2 DEF tee_capture
  <2>4. ~setting.sink => more = {}
    BY <2>1 DEF more, TeedOwn, tee_capture
  <2>5. \A id \in more : id \in 0 .. obs'.seq
    BY <1>10, <2>1 DEF more, TeedOwn
  <2>6. task[t].id \in more <=> tee_capture(t)
    BY <1>3, <2>1 DEF more, TeedOwn
  <2>7. \A u \in Threads : u # t /\ task[u].pc # "idle" => (task[u].id \in more <=> task[u].id \in obs.teed)
    BY <2>1 DEF more
  <2>8. ASSUME NEW u \in Threads, task'[u].pc # "idle"
        PROVE  task'[u].id \in obs'.teed <=> task'[u].pc = "answered" /\ tee_capture(u)'
    <3>1. CASE u = t
      BY <1>4, <1>10, <2>1, <2>3, <2>6, <3>1
    <3>2. CASE u # t
      BY <1>10, <2>1, <2>3, <2>7, <2>8, <3>2 DEF TeedOwn
    <3> QED BY <3>1, <3>2
  <2> QED BY <1>3, <1>10, <2>4, <2>5, <2>8 DEF TeedOwn
<1> QED BY <1>11, <1>12, <1>13, <1>17, <1>18, <1>19 DEF ObsInv

LEMMA LeaveKeeps ==
  ASSUME TasksInv, ObsInv, NEW t \in Threads, Leave(t)
  PROVE  TasksInv' /\ ObsInv'
<1>1. task[t].pc = "answered" /\ task' = [task EXCEPT ![t] = Idle] /\ UNCHANGED <<now, setting, log, store, obs>>
  BY DEF Leave
<1>2. PICK x : x = Idle
  OBVIOUS
<1>3. /\ x = [pc |-> x.pc, id |-> x.id, attrs |-> x.attrs, header |-> x.header, ok |-> x.ok,
              streamed |-> x.streamed, at |-> x.at, set |-> x.set, out |-> x.out]
      /\ x.pc = "idle" /\ x.id = 0 /\ x.header = None /\ x.at = 0 /\ ~x.streamed
  BY <1>2 DEF Idle
<1>4. obs.seq \in Nat /\ obs'.seq \in Nat /\ obs.seq <= obs'.seq /\ TracesOwn
  BY <1>1 DEF ObsInv, ObsShape
<1>5. TaskOK(x)'
  BY <1>3, <1>4 DEF TaskOK, TaskPcs
<1>6. task' = [task EXCEPT ![t] = x]
  BY <1>1, <1>2
<1>7. TasksInv'
  BY <1>1, <1>3, <1>4, <1>5, <1>6, TaskStep
<1>8. \A k \in 1 .. Len(obs'.explain) : \E j \in 1 .. Len(obs.explain) : obs'.explain[k] = obs.explain[j]
  BY <1>1
<1>9. TracesOwn'
  BY <1>3, <1>4, <1>6, <1>8, TracesStep
<1>10. Cardinality(Uncounted') = Cardinality(Uncounted) /\ Cardinality(HalfCounted') = Cardinality(HalfCounted)
  <2>1. DOMAIN task = Threads
    BY DEF TasksInv
  <2> QED BY <1>1, <1>3, <1>6, <2>1, CountStep DEF UncountedPcs
<1>11. ObsShape' /\ TenantsOwn' /\ CountersExact'
  BY <1>1, <1>10 DEF ObsInv, ObsShape, TenantsOwn, CountersExact
<1>12. TeedOwn'
  BY <1>1, <1>3, <1>4, <1>6, TeedKept DEF ObsInv
<1> QED BY <1>7, <1>9, <1>11, <1>12 DEF ObsInv

\* A request that is turned away takes an id, and nothing else.
LEMMA TurnedAwayKeeps ==
  ASSUME TasksInv, ObsInv, obs' = turned_away, UNCHANGED <<task, setting>>, Published \subseteq Published'
  PROVE  TasksInv' /\ ObsInv'
<1>1. ObsShape /\ obs.seq \in Nat /\ obs.away \in Nat
  BY DEF ObsInv, ObsShape
<1>0. PICK seq, away : seq = obs.seq + 1 /\ away = obs.away + 1
  OBVIOUS
<1>2. /\ ObsShape' /\ obs'.seq = obs.seq + 1 /\ obs'.away = obs.away + 1 /\ obs'.explain = obs.explain
      /\ obs'.total = obs.total /\ obs'.ok = obs.ok /\ obs'.error = obs.error /\ obs'.tenants = obs.tenants
      /\ obs'.teed = obs.teed
  <2>1. seq \in Nat /\ away \in Nat /\ obs' = [obs EXCEPT !.seq = seq, !.away = away]
    BY <1>0, <1>1 DEF turned_away, next_request_id
  <2>2. obs' = [seq |-> seq, explain |-> obs.explain, tape |-> obs.tape, total |-> obs.total, ok |-> obs.ok,
                error |-> obs.error, tenants |-> obs.tenants, teed |-> obs.teed, away |-> away]
    BY <1>1, <2>1 DEF ObsShape
  <2> QED BY <1>0, <1>1, <2>1, <2>2 DEF ObsShape
<1>3. obs.seq <= obs'.seq /\ \A i \in 0 .. obs.seq : i \in 0 .. obs'.seq
  BY <1>1, <1>2
<1>4. \A t \in Threads : TaskOK(task[t])'
  <2> SUFFICES ASSUME NEW t \in Threads PROVE TaskOK(task[t])'
    OBVIOUS
  <2>1. TaskOK(task[t])
    BY DEF TasksInv
  <2>2. task[t].pc = "loaded" => InForce(task[t].set, task[t].at)'
    BY <2>1 DEF TaskOK, InForce
  <2> QED BY <1>3, <2>1, <2>2 DEF TaskOK
<1>5. \A t, doc, at : Asked(t, doc, at)' = Asked(t, doc, at)
  BY DEF Asked, Asking
<1>6. OneDocument'
  BY <1>5 DEF TasksInv, OneDocument, Decided
<1>7. TasksInv'
  BY <1>4, <1>6 DEF TasksInv
<1>8. TracesOwn' /\ TenantsOwn' /\ TeedOwn'
  BY <1>2, <1>3 DEF ObsInv, TracesOwn, TenantsOwn, TeedOwn, tee_capture
<1>9. CountersExact'
  <2>1. CountersExact /\ Uncounted' = Uncounted /\ HalfCounted' = HalfCounted
    BY DEF ObsInv, Uncounted, HalfCounted
  <2>2. IsFiniteSet(Uncounted)
    BY FS_Subset, DirectivesAssumption DEF Uncounted
  <2>3. Cardinality(Uncounted) \in Nat
    BY <2>2, FS_CardinalityType
  <2>4. obs.total \in Nat
    BY <1>1 DEF ObsShape
  <2> QED BY <1>1, <1>2, <2>1, <2>3, <2>4 DEF CountersExact
<1> QED BY <1>2, <1>7, <1>8, <1>9 DEF ObsInv

-----------------------------------------------------------------------------
(* The theorems. *)

LEMMA InitInv == DirectivesInit => DirectivesInv
<1> SUFFICES ASSUME DirectivesInit PROVE DirectivesInv
  OBVIOUS
<1> USE DEF DirectivesInit
<1>1. now \in Nat /\ setting \in Settings /\ log \in Seq(Values) /\ Len(log) = 0
  OBVIOUS
<1>2. /\ Shaped(store) /\ store.pc = "off" /\ store.set = {} /\ store.rev = 0 /\ store.read = 0 /\ store.seen = 0
      /\ store.missed = FALSE /\ store.faults = 0
  BY DEF Off, Shaped
<1>3. store.missed \in BOOLEAN
  BY <1>2, Zenon
<1>4. StoreShape /\ StoreBounds /\ StoreTracks
  BY <1>1, <1>2, <1>3 DEF StoreShape, Shaped, StoreBounds, StoreTracks
<1>5. InForce(store.set, now)
  BY <1>1, <1>2, EmptyInForce
<1>6. /\ obs = [seq |-> 0, explain |-> <<>>, tape |-> <<>>, total |-> 0, ok |-> 0, error |-> 0, tenants |-> <<>>,
              teed |-> {}, away |-> 0]
      /\ obs.teed = {} /\ obs.away = 0
      /\ obs.seq = 0 /\ obs.explain = <<>> /\ obs.tenants = <<>> /\ obs.total = 0 /\ obs.ok = 0 /\ obs.error = 0
  BY DEF Records
<1>7. ObsShape
  <2>1. \E S : obs.explain \in Seq(S)
    BY <1>6
  <2>2. \E S : obs.tenants \in Seq(S)
    BY <1>6
  <2> QED BY <1>6, <2>1, <2>2 DEF ObsShape
<1>8. \A t \in Threads : task[t] = Idle
  OBVIOUS
<1>9. /\ Idle = [pc |-> Idle.pc, id |-> Idle.id, attrs |-> Idle.attrs, header |-> Idle.header, ok |-> Idle.ok,
                 streamed |-> Idle.streamed, at |-> Idle.at, set |-> Idle.set, out |-> Idle.out]
      /\ Idle.pc = "idle" /\ Idle.id = 0 /\ Idle.header = None /\ Idle.at = 0 /\ ~Idle.streamed
  BY DEF Idle
<1>10. TaskOK(Idle)
  BY <1>6, <1>9 DEF TaskOK, TaskPcs
<1>11. TasksInv
  BY <1>8, <1>9, <1>10 DEF TasksInv, OneDocument, Decided
<1>12. TracesOwn /\ TenantsOwn /\ TeedOwn
  BY <1>6, <1>8, <1>9 DEF TracesOwn, TenantsOwn, TeedOwn
<1>13. Uncounted = {} /\ HalfCounted = {}
  BY <1>8, <1>9 DEF Uncounted, HalfCounted
<1>14. CountersExact
  BY <1>6, <1>13, FS_EmptySet DEF CountersExact
<1> QED BY <1>1, <1>4, <1>5, <1>7, <1>11, <1>12, <1>14 DEF DirectivesInv, StoreInv, ObsInv

LEMMA StepInv ==
  ASSUME DirectivesInv, [DirectivesNext]_dirVars
  PROVE  DirectivesInv'
<1>1. StoreInv /\ TasksInv /\ ObsInv
  BY DEF DirectivesInv
\* The watch task: the log does not change, and requests rest.
<1>2. ASSUME StoreInv', log' = log, UNCHANGED <<task, obs, setting>>
      PROVE  DirectivesInv'
  <2>1. Published \subseteq Published'
    BY <1>2 DEF Published
  <2> QED BY <1>1, <1>2, <2>1, RequestsRest DEF DirectivesInv
\* A request: what the watch task has stays.
<1>3. ASSUME TasksInv', ObsInv', UNCHANGED <<now, setting, log, store>>
      PROVE  DirectivesInv'
  <2>1. Good(store')
    BY <1>1, <1>3, StoreGood
  <2> QED BY <1>1, <1>3, <2>1, GoodStore DEF DirectivesInv
<1>4. CASE UNCHANGED dirVars
  <2>1. UNCHANGED <<now, setting, log, store, obs, task>>
    BY <1>4 DEF dirVars
  <2>2. Good(store')
    BY <1>1, <2>1, StoreGood
  <2> QED BY <1>1, <1>2, <2>1, <2>2, GoodStore
<1>5. ASSUME NEW doc \in Documents \cup {None}, Publish(doc)
      PROVE  DirectivesInv'
  <2>1. /\ doc \in Values /\ log' = Append(log, doc) /\ UNCHANGED <<now, setting, store, obs, task>>
    BY <1>5 DEF Publish, Values
  <2>2. StoreInv' /\ Published \subseteq Published'
    BY <1>1, <2>1, PublishKeeps, PublishedGrows DEF StoreInv
  <2> QED BY <1>1, <2>1, <2>2, RequestsRest DEF DirectivesInv
<1>6. ASSUME NEW doc \in Documents, publish_directives(doc)
      PROVE  DirectivesInv'
  <2>1. /\ doc \in Values /\ log' = Append(log, doc) /\ UNCHANGED <<now, setting, task>> /\ obs' = turned_away
        /\ ~setting.etcd /\ decodes(doc)
        /\ store' = [store EXCEPT !.set = decode_directive_set(doc, now), !.doc = doc, !.rev = Len(log) + 1]
    BY <1>6 DEF publish_directives, Values
  <2>2. StoreInv'
    BY <1>1, <2>1, PublishKeeps
  <2>3. Published \subseteq Published'
    BY <1>1, <2>1, PublishedGrows DEF StoreInv
  <2> QED BY <1>1, <2>1, <2>2, <2>3, TurnedAwayKeeps DEF DirectivesInv
<1>7. CASE Start
  BY <1>1, <1>2, <1>7, StartKeeps DEF Start
<1>8. CASE WatchTask
  <2>1. CASE Reread
    BY <1>1, <1>2, <2>1, RereadKeeps DEF Reread
  <2>2. CASE Watch
    BY <1>1, <1>2, <2>2, WatchKeeps DEF Watch
  <2>3. CASE Event
    BY <1>1, <1>2, <2>3, EventKeeps DEF Event
  <2>4. CASE Reconnect
    BY <1>1, <1>2, <2>4, DisconnectKeeps DEF Reconnect
  <2> QED BY <1>8, <2>1, <2>2, <2>3, <2>4 DEF WatchTask
<1>9. CASE Disconnect \/ Restart
  BY <1>1, <1>2, <1>9, DisconnectKeeps DEF Disconnect, Restart
<1>10. ASSUME NEW t \in Threads, NEW a \in Arrivals, Receive(t, a)
       PROVE  DirectivesInv'
  BY <1>1, <1>3, <1>10, ReceiveKeeps DEF Receive
<1>13. ASSUME NEW a \in Arrivals, TurnAway(a)
       PROVE  DirectivesInv'
  <2>1. obs' = turned_away /\ UNCHANGED <<now, setting, log, store, task>>
    BY <1>13 DEF TurnAway
  <2>2. Published \subseteq Published'
    BY <2>1 DEF Published
  <2> QED BY <1>1, <1>3, <2>1, <2>2, TurnedAwayKeeps
<1>11. ASSUME NEW t \in Threads, record(t) \/ load(t) \/ diagnose(t) \/ count(t) \/ after_response(t) \/ Leave(t)
       PROVE  DirectivesInv'
  <2>1. CASE record(t)
    BY <1>1, <1>3, <2>1, RecordKeeps DEF record
  <2>2. CASE load(t)
    BY <1>1, <1>3, <2>2, LoadKeeps DEF load
  <2>3. CASE diagnose(t)
    BY <1>1, <1>3, <2>3, DiagnoseKeeps DEF diagnose
  <2>4. CASE count(t)
    BY <1>1, <1>3, <2>4, CountKeeps DEF count
  <2>5. CASE after_response(t)
    <3>1. UNCHANGED <<now, setting, log, store>>
      BY <2>5 DEF after_response
    <3> QED BY <1>1, <1>3, <2>5, <3>1, AfterKeeps
  <2>6. CASE Leave(t)
    BY <1>1, <1>3, <2>6, LeaveKeeps DEF Leave
  <2> QED BY <1>11, <2>1, <2>2, <2>3, <2>4, <2>5, <2>6
<1>12. CASE ClockTick /\ UNCHANGED <<setting, log, store, obs, task>>
  <2>1. now' = now + 1 /\ now \in Nat /\ now' \in Nat /\ now <= now'
    BY <1>1, <1>12 DEF ClockTick, StoreInv
  <2>2. Published' = Published /\ \A r : Document(r)' = Document(r)
    BY <1>12 DEF Published, Document, Value
  <2>3. InForce(store.set, now)'
    BY <1>1, <1>12, <2>1, <2>2, InForceKept DEF StoreInv, InForce
  <2>4. StoreShape' /\ StoreBounds' /\ StoreTracks'
    BY <1>1, <1>12, <2>2 DEF StoreInv, StoreShape, StoreBounds, StoreTracks, Tracks
  <2>5. StoreInv'
    BY <1>1, <1>12, <2>1, <2>3, <2>4 DEF StoreInv
  <2> QED BY <1>2, <1>12, <2>5
<1> QED BY <1>4, <1>5, <1>6, <1>7, <1>8, <1>9, <1>10, <1>11, <1>12, <1>13 DEF DirectivesNext

\* The invariant the others rest on: where the set in force and every loaded set come
\* from, what the watch task knows, and how the records relate to the requests.
THEOREM DirectivesInvariant == DirectivesSpec => []DirectivesInv
<1>1. DirectivesInit => DirectivesInv
  BY InitInv
<1>2. DirectivesInv /\ [DirectivesNext]_dirVars => DirectivesInv'
  BY StepInv
<1> QED BY <1>1, <1>2, PTL DEF DirectivesSpec

\* A request is subjected to what the baseline, its own signed header and one published
\* document ask for (pipeline.rs diagnostics), whatever is published while it runs.
THEOREM DirectivesOneDocument == DirectivesSpec => []OneDocument
<1>1. DirectivesInv => OneDocument
  BY DEF DirectivesInv, TasksInv
<1> QED BY <1>1, DirectivesInvariant, PTL

\* With a capture sink wired no answered exchange gets past it on a path that keeps no
\* body, and each is captured exactly if what it was judged by asked for it; without a
\* sink nothing is captured (handler.rs forward_plan, tee_capture).
THEOREM DirectivesCapture == DirectivesSpec => []CaptureFollows
<1>1. ASSUME DirectivesInv PROVE CaptureFollows
  <2>1. TasksInv /\ TeedOwn
    BY <1>1 DEF DirectivesInv, ObsInv
  <2>2. ASSUME setting.sink, NEW t \in Threads, task[t].pc = "answered"
        PROVE  \E doc \in Published, at \in 0 .. task[t].at :
                 task[t].out = Asked(t, doc, at) /\ (task[t].id \in obs.teed <=> Asked(t, doc, at).traffic)
    <3>1. ~task[t].streamed
      BY <2>1, <2>2 DEF TasksInv, TaskOK
    <3>2. PICK doc \in Published, at \in 0 .. task[t].at : task[t].out = Asked(t, doc, at)
      BY <2>1, <2>2, <3>1 DEF TasksInv, OneDocument, Decided
    <3>3. task[t].id \in obs.teed <=> task[t].out.traffic
      BY <2>1, <2>2, <3>1 DEF TeedOwn, tee_capture
    <3> QED BY <3>2, <3>3
  <2>3. ~setting.sink => obs.teed = {}
    BY <2>1 DEF TeedOwn
  <2> QED BY <2>2, <2>3 DEF CaptureFollows
<1> QED BY <1>1, DirectivesInvariant, PTL

\* A watch that has delivered everything has the present value in force, unless it does
\* not decode or a change was passed over (watch.rs watch_once).
THEOREM DirectivesCurrent == DirectivesSpec => []CurrentUnlessMissed
<1>1. DirectivesInv => CurrentUnlessMissed
  <2> SUFFICES ASSUME DirectivesInv, store.pc = "watching", store.seen = Len(log), decodes(Latest), ~store.missed
               PROVE  store.doc = Latest
    BY DEF CurrentUnlessMissed
  <2>1. Document(store.seen) = Latest
    BY DEF Document, Latest
  <2>2. Tracks(store.seen)
    BY DEF DirectivesInv, StoreInv, StoreTracks
  <2> QED BY <2>1, <2>2 DEF Tracks
<1> QED BY <1>1, DirectivesInvariant, PTL

\* What concurrent requests record is true: explanations and tenant counts are each
\* request's own, and the counters add up (stats.rs record, explain.rs, handler.rs).
THEOREM DirectivesRecords == DirectivesSpec => []RecordsTruthful
<1>1. ASSUME DirectivesInv PROVE ExplainOwn
  <2>1. TasksInv /\ ObsInv
    BY <1>1 DEF DirectivesInv
  <2>2. ASSUME NEW t \in Threads, task[t].pc \in {"recorded", "loaded", "counting", "counted"},
               explained(task[t].id) # {}
        PROVE  explain(task[t].id).tenant = task[t].attrs.tenant
    <3>1. task[t].pc # "idle"
      BY <2>2
    <3> QED BY <2>1, <2>2, <3>1, ExplainedIsOwn
  <2>3. PICK S : obs.tenants \in Seq(S)
    BY <2>1 DEF ObsInv, ObsShape
  <2>4. \A k \in DOMAIN obs.tenants : obs.tenants[k].tenant = obs.tenants[k].of
    BY <2>1, <2>3 DEF ObsInv, TenantsOwn
  <2> QED BY <2>2, <2>4 DEF ExplainOwn
<1>2. ASSUME DirectivesInv PROVE Tallies
  <2>1. /\ CountersExact
        /\ obs.seq \in Nat /\ obs.total \in Nat /\ obs.ok \in Nat /\ obs.error \in Nat /\ obs.away \in Nat
    BY <1>2 DEF DirectivesInv, ObsInv, ObsShape
  <2>2. Uncounted \in SUBSET Threads /\ HalfCounted \in SUBSET Threads
    BY DEF Uncounted, HalfCounted
  <2>3. IsFiniteSet(Uncounted) /\ IsFiniteSet(HalfCounted)
    BY <2>2, FS_Subset, DirectivesAssumption
  <2>4. Cardinality(Uncounted) \in Nat /\ Cardinality(HalfCounted) \in Nat
    BY <2>3, FS_CardinalityType
  <2>5. obs.ok + obs.error <= obs.total
    BY <2>1, <2>4 DEF CountersExact
  <2>6. ASSUME \A t \in Threads : task[t].pc \in {"idle", "answered"}
        PROVE  obs.ok + obs.error = obs.total /\ obs.total + obs.away = obs.seq
    <3>1. Uncounted = {} /\ HalfCounted = {}
      BY <2>6 DEF Uncounted, HalfCounted
    <3>2. Cardinality(Uncounted) = 0 /\ Cardinality(HalfCounted) = 0
      BY <3>1, FS_EmptySet
    <3> QED BY <2>1, <3>2 DEF CountersExact
  <2> QED BY <2>5, <2>6 DEF Tallies
<1>3. DirectivesInv => RecordsTruthful
  BY <1>1, <1>2 DEF RecordsTruthful
<1> QED BY <1>3, DirectivesInvariant, PTL

\* Without a restart an instance never goes back to an older published value than the
\* one it applies (watch.rs watch_once): the part of CatchesUp that is safety.
THEOREM DirectivesForward == DirectivesSpec => NeverBackwards
<1> DEFINE Forward == store'.pc # "off" /\ store.pc # "off" => store'.rev >= store.rev
<1>1. DirectivesInv /\ [DirectivesNext]_dirVars => [Forward]_dirVars
  <2> SUFFICES ASSUME DirectivesInv, DirectivesNext, store'.pc # "off", store.pc # "off"
               PROVE  store'.rev >= store.rev
    OBVIOUS
  <2>1. StoreInv /\ Good(store)
    BY StoreGood DEF DirectivesInv
  <2>2. /\ store.rev \in 0 .. Len(log) /\ Len(log) \in Nat /\ Shaped(store) /\ setting.etcd /\ now \in Nat
        /\ log \in Seq(Values) /\ store.missed \in BOOLEAN /\ InForce(store.set, now)
    BY <2>1 DEF Good, StoreInv
  <2>3. CASE UNCHANGED store
    BY <2>2, <2>3
  <2>4. CASE Reread
    <3> DEFINE r == Len(log)
               a == reread_value(store, r)
    <3>1. store' = [a EXCEPT !.pc = "read", !.read = r]
      BY <2>4 DEF Reread
    <3>2. Shaped(a) /\ (a.rev = store.rev \/ a.rev = r)
      <4>1. CASE Value(r) # None
        <5>1. a = apply_value(store, r)
          BY <4>1 DEF reread_value
        <5>2. r \in 0 .. Len(log)
          BY <2>2
        <5> HIDE DEF r, a
        <5> QED BY <2>2, <4>1, <5>1, <5>2, AppliedValue
      <4>2. CASE Value(r) = None
        <5>1. a = [store EXCEPT !.missed = @ \/ store.doc # {}]
          BY <4>2 DEF reread_value
        <5> HIDE DEF r, a
        <5> QED BY <2>2, <5>1 DEF Shaped
      <4> QED BY <4>1, <4>2
    <3> HIDE DEF a
    <3>3. store'.rev = a.rev
      BY <3>1, <3>2 DEF Shaped
    <3> QED BY <2>2, <3>2, <3>3
  <2>5. CASE Watch
    <3>1. store'.rev = store.rev
      BY <2>2, <2>5 DEF Watch, Shaped
    <3> QED BY <2>2, <3>1
  <2>6. CASE Event
    BY <2>1, <2>6, EventKeeps
  <2>7. CASE Disconnect \/ Restart \/ Reconnect
    BY <2>1, <2>2, <2>7, DisconnectKeeps
  <2>8. CASE Start
    BY <2>8 DEF Start
  <2>9. ASSUME NEW doc \in Documents, publish_directives(doc)
        PROVE  FALSE
    BY <2>2, <2>9 DEF publish_directives
  <2>10. \/ UNCHANGED store \/ Start \/ WatchTask \/ Disconnect \/ Restart
         \/ \E doc \in Documents : publish_directives(doc)
    BY DEF DirectivesNext, Publish, TurnAway, Receive, record, load, diagnose, count, after_response, Leave
  <2> QED BY <2>3, <2>4, <2>5, <2>6, <2>7, <2>8, <2>9, <2>10 DEF WatchTask
<1>2. DirectivesSpec => [][Forward]_dirVars
  BY <1>1, DirectivesInvariant, PTL DEF DirectivesSpec
<1> QED BY <1>2 DEF NeverBackwards
=============================================================================
