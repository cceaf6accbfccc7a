---------------------------- MODULE BodiesProofs ----------------------------
(***************************************************************************)
(* Proofs about the bodies read as they arrive: the response of a streamed  *)
(* search (SearchScan) and the lines of a bulk request (BulkText); and of   *)
(* the scan of a JSON string (StringScan).                                  *)
(***************************************************************************)
EXTENDS SearchScan, BulkText, StringScan, SequenceTheorems, WellFoundedInduction, TLAPS

-----------------------------------------------------------------------------
(* The document, as a reader of its grammar sees it: where in the grammar it is *)
(* (st), and the objects and arrays that are open (stk).                        *)

OpenFrame == [kind : {"lbrace", "["}, key : {"empty", "hits", "other"}, hits : BOOLEAN]

KeyStates == {"first", "key", "key_text", "key_escape", "colon"}
ValueStates == {"value", "elem", "text", "escape", "scalar", "after", "end"}

Framed(n, f) == \A i \in 1 .. n : f[i] \in OpenFrame

WellNested(st, n, f) ==
  /\ Framed(n, f)
  /\ st \in KeyStates \cup ValueStates
  /\ st \in KeyStates => n > 0 /\ f[n].kind = "lbrace"
  /\ st = "elem" => n > 0 /\ f[n].kind = "["
  /\ st = "after" => n > 0
  /\ st = "end" => n = 0

DocumentOK(j) ==
  /\ DOMAIN j = {"st", "stack", "len", "odd", "due"}
  /\ j.stack \in Seq(OpenFrame)
  /\ WellNested(j.st, Len(j.stack), j.stack)

Ended(n) == IF n = 0 THEN "end" ELSE "after"

\* The open objects and arrays stay as they are.
MoveStays(st, n, f, b, st2) ==
  \/ b = "sp" /\ st2 = st /\ st \in {"value", "elem", "key", "first", "colon", "after", "end"}
  \/ st \in {"value", "elem"} /\ b = "q" /\ st2 = "text"
  \/ st \in {"value", "elem"} /\ b = "x" /\ st2 = "scalar"
  \/ st = "colon" /\ b = ":" /\ st2 = "value"
  \/ st = "text" /\ b \in {"x", "u", "rbrace", "]", "lbrace", "comma"} /\ st2 = "text"
  \/ st = "text" /\ b = "\\" /\ st2 = "escape"
  \/ st = "text" /\ b = "q" /\ st2 = Ended(n)
  \/ st = "escape" /\ b \in {"x", "q", "\\"} /\ st2 = "text"
  \/ st = "scalar" /\ b = "x" /\ st2 = "scalar"
  \/ st = "scalar" /\ b = "sp" /\ st2 = Ended(n)
  \/ st \in {"after", "scalar"} /\ n > 0 /\ b = "comma" /\ st2 = (IF f[n].kind = "lbrace" THEN "key" ELSE "value")
  \/ st = "key_text" /\ b = "\\" /\ st2 = "key_escape"

Pushed(n, f, n2, f2, b) ==
  /\ n2 = n + 1
  /\ \A i \in 1 .. n : f2[i] = f[i]
  /\ f2[n2] \in OpenFrame /\ f2[n2].kind = b /\ f2[n2].key = "empty" /\ f2[n2].hits = FALSE

Popped(n, f, n2, f2) ==
  /\ n2 \in Nat /\ n = n2 + 1
  /\ \A i \in 1 .. n2 : f2[i] = f[i]

\* Only the innermost object changes, in its key and whether it has had the key hits.
Rekeyed(n, f, n2, f2, key, hits) ==
  /\ n2 = n /\ f2[n] \in OpenFrame
  /\ \A i \in 1 .. n : i # n => f2[i] = f[i]
  /\ f2[n].kind = f[n].kind /\ f2[n].key = key /\ f2[n].hits = hits

MoveOpens(st, n, f, b, st2, n2, f2) ==
  /\ st \in {"value", "elem"} /\ b \in {"lbrace", "["}
  /\ Pushed(n, f, n2, f2, b)
  /\ st2 = IF b = "lbrace" THEN "first" ELSE "elem"

MoveCloses(st, n, f, b, st2, n2, f2) ==
  /\ Popped(n, f, n2, f2) /\ st2 = Ended(n2)
  /\ st \in {"after", "scalar", "elem", "first"}
  /\ b = IF f[n].kind = "lbrace" THEN "rbrace" ELSE "]"

KeyByte(st, b) ==
  \/ st = "key_text" /\ b \in {"h", "x"}
  \/ st = "key_escape" /\ b \in {"h", "q", "\\"}

MoveKeys(st, n, f, b, st2, n2, f2) ==
  /\ n > 0
  /\ \/ /\ st \in {"first", "key"} /\ b = "q" /\ st2 = "key_text"
        /\ Rekeyed(n, f, n2, f2, "empty", f[n].hits)
     \/ /\ KeyByte(st, b)
        /\ st2 = "key_text"
        /\ Rekeyed(n, f, n2, f2, IF f[n].key = "empty" /\ b = "h" /\ n <= 2 THEN "hits" ELSE "other", f[n].hits)
     \/ /\ st = "key_text" /\ b = "q" /\ st2 = "colon"
        /\ ~(f[n].key = "hits" /\ f[n].hits)
        /\ Rekeyed(n, f, n2, f2, f[n].key, f[n].hits \/ f[n].key = "hits")

Move(st, n, f, b, st2, n2, f2) ==
  \/ MoveStays(st, n, f, b, st2) /\ n2 = n /\ f2 = f
  \/ MoveOpens(st, n, f, b, st2, n2, f2)
  \/ MoveCloses(st, n, f, b, st2, n2, f2)
  \/ MoveKeys(st, n, f, b, st2, n2, f2)

MovesTo(j, b, k) ==
  /\ DOMAIN k = {"st", "stack", "len", "odd", "due"} /\ k.stack \in Seq(OpenFrame)
  /\ Move(j.st, Len(j.stack), j.stack, b, k.st, Len(k.stack), k.stack)

LEMMA FrameFields ==
  ASSUME NEW e \in OpenFrame
  PROVE  e.kind \in {"lbrace", "["} /\ e.key \in {"empty", "hits", "other"} /\ e.hits \in BOOLEAN
  BY DEF OpenFrame

LEMMA FramedAt ==
  ASSUME NEW n \in Nat, NEW f, Framed(n, f), NEW i \in 1 .. n
  PROVE  f[i].kind \in {"lbrace", "["} /\ f[i].key \in {"empty", "hits", "other"} /\ f[i].hits \in BOOLEAN
  <1>1. f[i] \in OpenFrame
    BY DEF Framed
  <1>2. QED
    BY <1>1, FrameFields

LEMMA AppendPushes ==
  ASSUME NEW S, NEW s \in Seq(S), NEW e \in S, S = OpenFrame, e.key = "empty", e.hits = FALSE
  PROVE  Append(s, e) \in Seq(S) /\ Pushed(Len(s), s, Len(Append(s, e)), Append(s, e), e.kind)
  <1>1. Append(s, e) \in Seq(S) /\ Len(Append(s, e)) = Len(s) + 1
    BY ONLY s \in Seq(S), e \in S
  <1>2. (\A i \in 1 .. Len(s) : Append(s, e)[i] = s[i]) /\ Append(s, e)[Len(s) + 1] = e
    BY ONLY s \in Seq(S), e \in S
  <1>3. QED
    BY <1>1, <1>2 DEF Pushed

LEMMA NonEmptyLen ==
  ASSUME NEW S, NEW s \in Seq(S), s # <<>>
  PROVE  Len(s) \in Nat /\ Len(s) > 0 /\ Len(s) \in 1 .. Len(s) /\ DOMAIN s = 1 .. Len(s) /\ s[Len(s)] \in S
  <1>1. Len(s) \in Nat /\ Len(s) # 0 /\ DOMAIN s = 1 .. Len(s)
    BY EmptySeq
  <1>2. Len(s) > 0 /\ Len(s) \in 1 .. Len(s)
    BY <1>1
  <1>3. s[Len(s)] \in S
    BY <1>2, ElementOfSeq
  <1>4. QED
    BY <1>1, <1>2, <1>3

\* A document opened by an object or an array.
LEMMA OpenedMoves ==
  ASSUME NEW j, DocumentOK(j), j.st \in {"value", "elem"}, NEW b \in {"lbrace", "["}
  PROVE  MovesTo(j, b, Opened(j, b))
  <1>1. PICK e : e = [kind |-> b, key |-> "empty", hits |-> FALSE]
    OBVIOUS
  <1>2. e \in OpenFrame /\ e.kind = b /\ e.key = "empty" /\ e.hits = FALSE
    BY <1>1 DEF OpenFrame
  <1>3. PICK stk \in Seq(OpenFrame) : stk = j.stack
    BY DEF DocumentOK
  <1>4. Append(stk, e) \in Seq(OpenFrame) /\ Pushed(Len(stk), stk, Len(Append(stk, e)), Append(stk, e), e.kind)
    BY <1>2, AppendPushes
  <1>5. Opened(j, b).stack = Append(stk, e)
    BY <1>1, <1>3 DEF DocumentOK, Opened
  <1>6. Opened(j, b).st = (IF b = "lbrace" THEN "first" ELSE "elem") /\ DOMAIN Opened(j, b) = {"st", "stack", "len", "odd", "due"}
    BY DEF DocumentOK, Opened
  <1>7. Opened(j, b).stack \in Seq(OpenFrame) /\ Pushed(Len(j.stack), j.stack, Len(Opened(j, b).stack), Opened(j, b).stack, b)
    BY <1>2, <1>3, <1>4, <1>5
  <1>8. QED
    BY <1>6, <1>7 DEF MovesTo, Move, MoveOpens

LEMMA FrontPops ==
  ASSUME NEW S, NEW s \in Seq(S), s # <<>>, NEW m, m = Len(s) - 1
  PROVE  SubSeq(s, 1, m) \in Seq(S) /\ Popped(Len(s), s, Len(SubSeq(s, 1, m)), SubSeq(s, 1, m))
  <1>1. Len(s) \in Nat /\ Len(s) > 0
    BY NonEmptyLen
  <1>2. m \in Nat /\ Len(s) = m + 1
    BY <1>1
  <1>3. SubSeq(s, 1, m) \in Seq(S) /\ Len(SubSeq(s, 1, m)) = m /\ \A i \in 1 .. m : SubSeq(s, 1, m)[i] = s[i]
    BY ONLY s \in Seq(S), <1>2
  <1>4. QED
    BY <1>2, <1>3 DEF Popped

LEMMA ClosedMoves ==
  ASSUME NEW j, DocumentOK(j), j.stack # <<>>, j.st \in {"after", "scalar", "elem", "first"},
         NEW b, b = IF j.stack[Len(j.stack)].kind = "lbrace" THEN "rbrace" ELSE "]"
  PROVE  MovesTo(j, b, Closed(j))
  <1>1. PICK stk \in Seq(OpenFrame) : stk = j.stack
    BY DEF DocumentOK
  <1>2. PICK m : m = Len(stk) - 1
    OBVIOUS
  <1>3. SubSeq(stk, 1, m) \in Seq(OpenFrame) /\ Popped(Len(stk), stk, Len(SubSeq(stk, 1, m)), SubSeq(stk, 1, m))
    BY <1>1, <1>2, FrontPops
  <1>4. Closed(j).stack = SubSeq(stk, 1, m) /\ DOMAIN Closed(j) = {"st", "stack", "len", "odd", "due"}
    BY <1>1, <1>2 DEF DocumentOK, Closed, AfterValue
  <1>5. Closed(j).st = IF Closed(j).stack = <<>> THEN "end" ELSE "after"
    BY DEF DocumentOK, Closed, AfterValue
  <1>6. Closed(j).stack = <<>> <=> Len(Closed(j).stack) = 0
    BY <1>3, <1>4, EmptySeq
  <1>7. QED
    BY <1>1, <1>3, <1>4, <1>5, <1>6 DEF MovesTo, Move, MoveCloses, Ended

LEMMA RekeyedByFrame ==
  ASSUME NEW S, S = OpenFrame, NEW s \in Seq(S), s # <<>>, NEW e \in S, e.kind = s[Len(s)].kind
  PROVE  LET s2 == [s EXCEPT ![Len(s)] = e] IN s2 \in Seq(S) /\ Rekeyed(Len(s), s, Len(s2), s2, e.key, e.hits)
  <1>1. PICK n \in Nat : n = Len(s)
    BY NonEmptyLen
  <1>2. n \in 1 .. Len(s)
    BY <1>1, NonEmptyLen
  <1>3. /\ [s EXCEPT ![n] = e] \in Seq(S) /\ Len([s EXCEPT ![n] = e]) = Len(s)
    BY ONLY s \in Seq(S), n \in 1 .. Len(s), e \in S, <1>2, ExceptSeq
  <1>4. [s EXCEPT ![n] = e][n] = e /\ \A i \in 1 .. n : i # n => [s EXCEPT ![n] = e][i] = s[i]
    BY <1>1, <1>2
  <1>5. QED
    BY <1>1, <1>3, <1>4 DEF Rekeyed

LEMMA RekeyedByKey ==
  ASSUME NEW stk \in Seq(OpenFrame), stk # <<>>, NEW key \in {"empty", "hits", "other"}
  PROVE  LET s2 == [stk EXCEPT ![Len(stk)].key = key]
         IN s2 \in Seq(OpenFrame) /\ Rekeyed(Len(stk), stk, Len(s2), s2, key, stk[Len(stk)].hits)
  <1>1. stk[Len(stk)] \in OpenFrame
    BY NonEmptyLen
  <1>2. PICK e : e = [stk[Len(stk)] EXCEPT !.key = key]
    OBVIOUS
  <1>3. e \in OpenFrame /\ e.kind = stk[Len(stk)].kind /\ e.key = key /\ e.hits = stk[Len(stk)].hits
    BY <1>1, <1>2 DEF OpenFrame
  <1>4. LET s2 == [stk EXCEPT ![Len(stk)] = e] IN s2 \in Seq(OpenFrame) /\ Rekeyed(Len(stk), stk, Len(s2), s2, e.key, e.hits)
    BY <1>3, RekeyedByFrame
  <1>5. QED
    BY <1>2, <1>3, <1>4

LEMMA RekeyedByHits ==
  ASSUME NEW stk \in Seq(OpenFrame), stk # <<>>, NEW hits \in BOOLEAN
  PROVE  LET s2 == [stk EXCEPT ![Len(stk)].hits = hits]
         IN s2 \in Seq(OpenFrame) /\ Rekeyed(Len(stk), stk, Len(s2), s2, stk[Len(stk)].key, hits)
  <1>1. stk[Len(stk)] \in OpenFrame
    BY NonEmptyLen
  <1>2. PICK e : e = [stk[Len(stk)] EXCEPT !.hits = hits]
    OBVIOUS
  <1>3. e \in OpenFrame /\ e.kind = stk[Len(stk)].kind /\ e.key = stk[Len(stk)].key /\ e.hits = hits
    BY <1>1, <1>2 DEF OpenFrame
  <1>4. LET s2 == [stk EXCEPT ![Len(stk)] = e] IN s2 \in Seq(OpenFrame) /\ Rekeyed(Len(stk), stk, Len(s2), s2, e.key, e.hits)
    BY <1>3, RekeyedByFrame
  <1>5. QED
    BY <1>2, <1>3, <1>4

LEMMA OpenStack ==
  ASSUME NEW j, DocumentOK(j)
  PROVE  j.stack # <<>> <=> Len(j.stack) > 0
  <1>1. PICK s \in Seq(OpenFrame) : s = j.stack
    BY DEF DocumentOK
  <1>2. s # <<>> <=> Len(s) > 0
    BY EmptySeq
  <1>3. QED
    BY <1>1, <1>2

LEMMA InKey ==
  ASSUME NEW j, DocumentOK(j), j.st \in KeyStates
  PROVE  /\ j.stack \in Seq(OpenFrame) /\ j.stack # <<>> /\ Len(j.stack) > 0
         /\ Len(j.stack) \in DOMAIN j.stack
         /\ j.stack[Len(j.stack)] \in OpenFrame /\ j.stack[Len(j.stack)].kind = "lbrace"
  <1>1. j.stack \in Seq(OpenFrame) /\ Len(j.stack) > 0 /\ j.stack[Len(j.stack)].kind = "lbrace"
    BY DEF DocumentOK, WellNested
  <1>2. j.stack # <<>>
    BY <1>1, OpenStack
  <1>3. QED
    BY <1>1, <1>2, NonEmptyLen

LEMMA KeyedMoves ==
  ASSUME NEW j, DocumentOK(j), NEW b, NEW h \in BOOLEAN, h <=> b = "h",
         KeyByte(j.st, b)
  PROVE  MovesTo(j, b, Keyed(j, h))
  <1> DEFINE n == Len(j.stack)
  <1>1. PICK ky \in {"empty", "hits", "other"} : ky = IF j.stack[n].key = "empty" /\ b = "h" /\ n <= 2 THEN "hits" ELSE "other"
    OBVIOUS
  <1>2. j.stack \in Seq(OpenFrame) /\ j.stack # <<>> /\ n > 0 /\ n \in DOMAIN j.stack /\ j.stack[n] \in OpenFrame
    BY InKey DEF KeyStates, KeyByte
  <1>3. [j.stack EXCEPT ![n].key = IF @ = "empty" /\ h /\ n <= 2 THEN "hits" ELSE "other"] = [j.stack EXCEPT ![n].key = ky]
    BY <1>1, <1>2 DEF OpenFrame
  <1>4. Keyed(j, h).stack = [j.stack EXCEPT ![n].key = IF @ = "empty" /\ h /\ n <= 2 THEN "hits" ELSE "other"]
    BY DEF DocumentOK, Keyed
  <1>5. Keyed(j, h).st = "key_text" /\ DOMAIN Keyed(j, h) = {"st", "stack", "len", "odd", "due"}
    BY DEF DocumentOK, Keyed
  <1>6. Keyed(j, h).stack \in Seq(OpenFrame) /\ Rekeyed(Len(j.stack), j.stack, Len(Keyed(j, h).stack), Keyed(j, h).stack, ky, j.stack[n].hits)
    <2>1. PICK stk : stk = j.stack
      OBVIOUS
    <2>2. LET s2 == [stk EXCEPT ![Len(stk)].key = ky]
          IN s2 \in Seq(OpenFrame) /\ Rekeyed(Len(stk), stk, Len(s2), s2, ky, stk[Len(stk)].hits)
      BY <1>2, <2>1, RekeyedByKey
    <2>3. QED
      BY <1>3, <1>4, <2>1, <2>2
  <1>7. QED
    BY <1>1, <1>2, <1>5, <1>6 DEF MovesTo, Move, MoveKeys

LEMMA StaysMoves ==
  ASSUME NEW j, DocumentOK(j), NEW b, NEW s2, MoveStays(j.st, Len(j.stack), j.stack, b, s2)
  PROVE  MovesTo(j, b, [j EXCEPT !.st = s2])
  BY DEF DocumentOK, MovesTo, Move

LEMMA SameMoves ==
  ASSUME NEW j, DocumentOK(j), NEW b, MoveStays(j.st, Len(j.stack), j.stack, b, j.st)
  PROVE  MovesTo(j, b, j)
  BY DEF DocumentOK, MovesTo, Move

LEMMA AfterValueMoves ==
  ASSUME NEW j, DocumentOK(j), NEW b, MoveStays(j.st, Len(j.stack), j.stack, b, Ended(Len(j.stack)))
  PROVE  MovesTo(j, b, AfterValue(j))
  <1>1. AfterValue(j) = [j EXCEPT !.st = Ended(Len(j.stack))]
    BY DEF AfterValue, Ended
  <1>2. QED
    BY <1>1, StaysMoves

\* The quote before a key, and the one behind it.
LEMMA KeyOpens ==
  ASSUME NEW j, DocumentOK(j), j.st \in {"first", "key"}, NEW m \in KeyMoves(j)
  PROVE  MovesTo(j, m[1], m[2])
  <1> DEFINE n == Len(j.stack)
  <1>1. j.stack \in Seq(OpenFrame) /\ j.stack # <<>> /\ n > 0
    BY InKey DEF KeyStates
  <1>2. m = <<"q", [j EXCEPT !.st = "key_text", !.stack[n].key = "empty", !.len = 0]>>
    BY DEF KeyMoves
  <1>3. /\ m[1] = "q" /\ m[2].stack = [j.stack EXCEPT ![n].key = "empty"] /\ m[2].st = "key_text"
        /\ DOMAIN m[2] = {"st", "stack", "len", "odd", "due"}
    BY <1>2 DEF DocumentOK
  <1>4. m[2].stack \in Seq(OpenFrame) /\ Rekeyed(Len(j.stack), j.stack, Len(m[2].stack), m[2].stack, "empty", j.stack[n].hits)
    BY <1>1, <1>3, RekeyedByKey
  <1>5. QED
    BY <1>1, <1>3, <1>4 DEF MovesTo, Move, MoveKeys

LEMMA KeyCloses ==
  ASSUME NEW j, DocumentOK(j), j.st = "key_text", ~(Top(j).key = "hits" /\ Top(j).hits)
  PROVE  MovesTo(j, "q", [j EXCEPT !.st = "colon", !.len = 0, !.stack[Len(j.stack)].hits = @ \/ Top(j).key = "hits"])
  <1> DEFINE n == Len(j.stack)
             k == [j EXCEPT !.st = "colon", !.len = 0, !.stack[Len(j.stack)].hits = @ \/ Top(j).key = "hits"]
  <1>1. j.stack \in Seq(OpenFrame) /\ j.stack # <<>> /\ n > 0 /\ n \in DOMAIN j.stack /\ j.stack[n] \in OpenFrame
    BY InKey DEF KeyStates
  <1>2. PICK h : h = (j.stack[n].hits \/ j.stack[n].key = "hits")
    OBVIOUS
  <1>3. h \in BOOLEAN
    BY <1>2, Zenon
  <1>4. k.stack = [j.stack EXCEPT ![n].hits = @ \/ Top(j).key = "hits"] /\ k.st = "colon" /\ DOMAIN k = {"st", "stack", "len", "odd", "due"}
    BY DEF DocumentOK
  <1>5. [j.stack EXCEPT ![n].hits = @ \/ Top(j).key = "hits"] = [j.stack EXCEPT ![n].hits = h]
    BY <1>1, <1>2 DEF Top, OpenFrame
  <1>6. k.stack \in Seq(OpenFrame) /\ Rekeyed(Len(j.stack), j.stack, Len(k.stack), k.stack, j.stack[n].key, h)
    BY <1>1, <1>3, <1>4, <1>5, RekeyedByHits
  <1>7. QED
    BY <1>1, <1>2, <1>4, <1>6 DEF MovesTo, Move, MoveKeys, Top

LEMMA ValueGoes ==
  ASSUME NEW j, DocumentOK(j), j.st \in {"value", "elem"}, NEW m \in ValueMoves(j)
  PROVE  MovesTo(j, m[1], m[2])
  <1>1. CASE m = <<"q", [j EXCEPT !.st = "text"]>>
    BY <1>1, StaysMoves DEF MoveStays
  <1>2. CASE m = <<"x", [j EXCEPT !.st = "scalar"]>>
    BY <1>2, StaysMoves DEF MoveStays
  <1>3. CASE \E b \in {"lbrace", "["} : m = <<b, Opened(j, b)>>
    <2>1. PICK b \in {"lbrace", "["} : m = <<b, Opened(j, b)>>
      BY <1>3
    <2>2. MovesTo(j, b, Opened(j, b))
      BY OpenedMoves
    <2>3. QED
      BY <2>1, <2>2
  <1>4. QED
    BY <1>1, <1>2, <1>3 DEF ValueMoves

LEMMA AfterGoes ==
  ASSUME NEW j, DocumentOK(j), j.st \in {"after", "scalar"}, j.stack # <<>>, NEW m \in AfterMoves(j)
  PROVE  MovesTo(j, m[1], m[2])
  <1>2. CASE m[2] = Closed(j) /\ m[1] = IF j.stack[Len(j.stack)].kind = "lbrace" THEN "rbrace" ELSE "]"
    BY <1>2, ClosedMoves
  <1>3. CASE m[1] = "comma" /\ m[2] = [j EXCEPT !.st = IF j.stack[Len(j.stack)].kind = "lbrace" THEN "key" ELSE "value"]
    <2>1. PICK e : e = IF j.stack[Len(j.stack)].kind = "lbrace" THEN "key" ELSE "value"
      OBVIOUS
    <2>2. MoveStays(j.st, Len(j.stack), j.stack, "comma", e)
      BY <2>1, OpenStack DEF MoveStays
    <2>3. MovesTo(j, "comma", [j EXCEPT !.st = e])
      BY <2>2, StaysMoves
    <2>4. QED
      BY <1>3, <2>1, <2>3
  <1>4. QED
    <2>1. CASE j.stack[Len(j.stack)].kind = "lbrace"
      <3>1. m \in {<<"comma", [j EXCEPT !.st = "key"]>>, <<"rbrace", Closed(j)>>}
        BY <2>1 DEF AfterMoves, Top
      <3>2. QED
        <4>1. CASE m = <<"comma", [j EXCEPT !.st = "key"]>>
          BY <1>3, <2>1, <4>1
        <4>2. CASE m = <<"rbrace", Closed(j)>>
          BY <1>2, <2>1, <4>2
        <4>3. QED
          BY <3>1, <4>1, <4>2
    <2>2. CASE j.stack[Len(j.stack)].kind # "lbrace"
      <3>1. m \in {<<"comma", [j EXCEPT !.st = "value"]>>, <<"]", Closed(j)>>}
        BY <2>2 DEF AfterMoves, Top
      <3>2. QED
        <4>1. CASE m = <<"comma", [j EXCEPT !.st = "value"]>>
          BY <1>3, <2>2, <4>1
        <4>2. CASE m = <<"]", Closed(j)>>
          BY <1>2, <2>2, <4>2
        <4>3. QED
          BY <3>1, <4>1, <4>2
    <2>3. QED
      BY <2>1, <2>2

\* Every byte the grammar admits is one of the moves.
LEMMA GrammarMoves ==
  ASSUME NEW j, DocumentOK(j), NEW m \in Spaced(j)
  PROVE  MovesTo(j, m[1], m[2])
  <1>1. CASE m = <<"sp", j>> /\ j.st \in {"value", "elem", "key", "first", "colon", "after", "end"}
    BY <1>1, SameMoves DEF MoveStays
  <1>2. CASE m \in Moves(j)
    <2>1. CASE j.st = "value"
      BY <1>2, <2>1, ValueGoes DEF Moves
    <2>2. CASE j.st = "elem"
      <3>1. CASE m = <<"]", Closed(j)>>
        <4>1. j.stack # <<>> /\ j.stack[Len(j.stack)].kind = "["
          BY <2>2, OpenStack DEF DocumentOK, WellNested
        <4>2. QED
          BY <2>2, <3>1, <4>1, ClosedMoves
      <3>2. QED
        BY <1>2, <2>2, <3>1, ValueGoes DEF Moves
    <2>3. CASE j.st = "key"
      BY <1>2, <2>3, KeyOpens DEF Moves
    <2>4. CASE j.st = "first"
      <3>1. CASE m = <<"rbrace", Closed(j)>>
        <4>1. j.stack # <<>> /\ j.stack[Len(j.stack)].kind = "lbrace"
          BY <2>4, InKey DEF KeyStates
        <4>2. QED
          BY <2>4, <3>1, <4>1, ClosedMoves
      <3>2. QED
        BY <1>2, <2>4, <3>1, KeyOpens DEF Moves
    <2>5. CASE j.st = "key_text"
      <3>1. CASE m = <<"h", Keyed(j, TRUE)>>
        BY <2>5, <3>1, KeyedMoves DEF KeyByte
      <3>2. CASE m = <<"x", Keyed(j, FALSE)>>
        <4>1. m[1] \in {"x"} /\ m[2] = Keyed(j, FALSE)
          BY <3>2
        <4>2. KeyByte(j.st, "x")
          BY <2>5 DEF KeyByte
        <4>3. QED
          BY <3>2, <4>2, KeyedMoves
      <3>3. CASE m = <<"\\", [j EXCEPT !.st = "key_escape"]>>
        BY <2>5, <3>3, StaysMoves DEF MoveStays
      <3>4. CASE /\ m = <<"q", [j EXCEPT !.st = "colon", !.len = 0, !.stack[Len(j.stack)].hits = @ \/ Top(j).key = "hits"]>>
                 /\ ~(Top(j).key = "hits" /\ Top(j).hits)
        BY <2>5, <3>4, KeyCloses
      <3>5. QED
        BY <1>2, <2>5, <3>1, <3>2, <3>3, <3>4 DEF Moves
    <2>6. CASE j.st = "key_escape"
      <3>1. CASE m = <<"h", Keyed(j, TRUE)>>
        BY <2>6, <3>1, KeyedMoves DEF KeyByte
      <3>2. CASE m[1] \in {"q", "\\"} /\ m[2] = Keyed(j, FALSE)
        BY <2>6, <3>2, KeyedMoves DEF KeyByte
      <3>3. m \in {<<"h", Keyed(j, TRUE)>>, <<"q", Keyed(j, FALSE)>>, <<"\\", Keyed(j, FALSE)>>}
        BY <1>2, <2>6 DEF Moves
      <3>4. CASE m = <<"q", Keyed(j, FALSE)>>
        BY <3>2, <3>4
      <3>5. CASE m = <<"\\", Keyed(j, FALSE)>>
        BY <3>2, <3>5
      <3>6. QED
        BY <3>1, <3>3, <3>4, <3>5
    <2>7. CASE j.st = "colon"
      <3>1. m = <<":", [j EXCEPT !.st = "value"]>>
        BY <1>2, <2>7 DEF Moves
      <3>2. QED
        BY <2>7, <3>1, StaysMoves DEF MoveStays
    <2>8. CASE j.st = "text"
      <3>1. CASE \E b \in {"x", "u", "rbrace", "]", "lbrace", "comma"} : m = <<b, j>>
        <4>1. PICK b \in {"x", "u", "rbrace", "]", "lbrace", "comma"} : m = <<b, j>>
          BY <3>1
        <4>2. MoveStays(j.st, Len(j.stack), j.stack, b, j.st)
          BY <2>8 DEF MoveStays
        <4>3. QED
          BY <4>1, <4>2, SameMoves
      <3>2. CASE m = <<"\\", [j EXCEPT !.st = "escape"]>>
        BY <2>8, <3>2, StaysMoves DEF MoveStays
      <3>3. CASE m = <<"q", AfterValue(j)>>
        BY <2>8, <3>3, AfterValueMoves DEF MoveStays
      <3>4. QED
        BY <1>2, <2>8, <3>1, <3>2, <3>3 DEF Moves
    <2>9. CASE j.st = "escape"
      <3>1. PICK b \in {"x", "q", "\\"} : m = <<b, [j EXCEPT !.st = "text"]>>
        BY <1>2, <2>9 DEF Moves
      <3>2. MoveStays(j.st, Len(j.stack), j.stack, b, "text")
        BY <2>9 DEF MoveStays
      <3>3. QED
        BY <3>1, <3>2, StaysMoves
    <2>10. CASE j.st = "scalar"
      <3>1. CASE m = <<"x", j>>
        BY <2>10, <3>1, SameMoves DEF MoveStays
      <3>2. CASE m = <<"sp", AfterValue(j)>>
        BY <2>10, <3>2, AfterValueMoves DEF MoveStays
      <3>3. CASE j.stack # <<>> /\ m \in AfterMoves(j)
        BY <2>10, <3>3, AfterGoes
      <3>4. QED
        BY <1>2, <2>10, <3>1, <3>2, <3>3 DEF Moves
    <2>11. CASE j.st = "after"
      <3>1. j.stack # <<>> /\ m \in AfterMoves(j)
        BY <1>2, <2>11, OpenStack DEF Moves, DocumentOK, WellNested
      <3>2. QED
        BY <2>11, <3>1, AfterGoes
    <2>12. CASE j.st = "end"
      BY <1>2, <2>12 DEF Moves
    <2>13. QED
      BY <2>1, <2>2, <2>3, <2>4, <2>5, <2>6, <2>7, <2>8, <2>9, <2>10, <2>11, <2>12 DEF DocumentOK, WellNested, KeyStates, ValueStates
  <1>3. QED
    BY <1>1, <1>2 DEF Spaced


LEMMA MoveNested ==
  ASSUME NEW st, NEW n \in Nat, NEW f, NEW b, NEW st2, NEW n2, NEW f2,
         WellNested(st, n, f), Move(st, n, f, b, st2, n2, f2)
  PROVE  n2 \in Nat /\ WellNested(st2, n2, f2)
  <1>1. CASE MoveStays(st, n, f, b, st2) /\ n2 = n /\ f2 = f
    <2>1. n > 0 => f[n].kind \in {"lbrace", "["}
      <3>1. Framed(n, f)
        BY DEF WellNested
      <3>2. n > 0 => n \in 1 .. n
        OBVIOUS
      <3>3. QED
        BY <3>1, <3>2, FramedAt
    <2>2. /\ st2 \in KeyStates \cup ValueStates
          /\ st2 \in KeyStates => n > 0 /\ f[n].kind = "lbrace"
          /\ st2 = "elem" => n > 0 /\ f[n].kind = "["
          /\ st2 = "after" => n > 0
          /\ st2 = "end" => n = 0
      BY <1>1, <2>1 DEF WellNested, MoveStays, Ended, KeyStates, ValueStates
    <2>3. QED
      BY <1>1, <2>2 DEF WellNested
  <1>2. CASE MoveOpens(st, n, f, b, st2, n2, f2)
    <2>1. n2 = n + 1 /\ f2[n2] \in OpenFrame /\ f2[n2].kind = b /\ (\A i \in 1 .. n : f2[i] = f[i])
      BY <1>2 DEF MoveOpens, Pushed
    <2>2. Framed(n2, f2)
      <3>1. \A i \in 1 .. n : f[i] \in OpenFrame
        BY DEF WellNested, Framed
      <3>2. \A i \in 1 .. n2 : f2[i] \in OpenFrame
        BY <2>1, <3>1
      <3>3. QED
        BY <3>2 DEF Framed
    <2>3. QED
      BY <1>2, <2>1, <2>2 DEF WellNested, MoveOpens, KeyStates, ValueStates
  <1>3. CASE MoveCloses(st, n, f, b, st2, n2, f2)
    <2>1. n2 \in Nat /\ n = n2 + 1 /\ \A i \in 1 .. n2 : f2[i] = f[i]
      BY <1>3 DEF MoveCloses, Popped
    <2>2. Framed(n2, f2)
      <3>1. \A i \in 1 .. n : f[i] \in OpenFrame
        BY DEF WellNested, Framed
      <3>2. \A i \in 1 .. n2 : f2[i] \in OpenFrame
        BY <2>1, <3>1
      <3>3. QED
        BY <3>2 DEF Framed
    <2>3. QED
      BY <1>3, <2>1, <2>2 DEF WellNested, MoveCloses, Ended, KeyStates, ValueStates
  <1>4. CASE MoveKeys(st, n, f, b, st2, n2, f2)
    <2>1. /\ n2 = n /\ f2[n] \in OpenFrame /\ f2[n].kind = f[n].kind /\ n > 0
          /\ \A i \in 1 .. n : i # n => f2[i] = f[i]
          /\ st \in KeyStates /\ st2 \in {"key_text", "colon"}
      BY <1>4 DEF MoveKeys, Rekeyed, KeyByte, KeyStates
    <2>2. Framed(n2, f2)
      <3>1. \A i \in 1 .. n : f[i] \in OpenFrame
        BY DEF WellNested, Framed
      <3>2. \A i \in 1 .. n2 : f2[i] \in OpenFrame
        BY <2>1, <3>1
      <3>3. QED
        BY <3>2 DEF Framed
    <2>3. QED
      BY <2>1, <2>2 DEF WellNested, KeyStates
  <1>5. QED
    BY <1>1, <1>2, <1>3, <1>4 DEF Move

-----------------------------------------------------------------------------
(* What the scanner's state says of the document. *)

\* An object that has had its key hits, and is not at the value of it.
Past(st, n, f, l) == f[l].hits /\ (n = l /\ st \in {"colon", "value"} => f[l].key # "hits")

\* No element of hits.hits can come any more: the value of hits, or of hits in it, is no
\* object or no array, or it is behind us.
NoHitsIn(st, n, f) ==
  \/ f[2].kind = "["
  \/ Past(st, n, f, 2) /\ (n > 2 => f[2].key # "hits" \/ f[3].kind = "lbrace")

NoHits(st, n, f) ==
  \/ n = 0 /\ st # "value"
  \/ n > 0 /\ f[1].kind = "["
  \/ n > 0 /\ Past(st, n, f, 1) /\ (n > 1 => f[1].key # "hits" \/ NoHitsIn(st, n, f))

\* Once there can be no more hits there never will be.
LEMMA NoHitsStays ==
  ASSUME NEW st, NEW n \in Nat, NEW f, NEW b, NEW st2, NEW n2 \in Nat, NEW f2,
         WellNested(st, n, f), Move(st, n, f, b, st2, n2, f2), NoHits(st, n, f)
  PROVE  NoHits(st2, n2, f2)
  <1>1. /\ n > 0 => f[1].kind \in {"lbrace", "["}
        /\ n > 1 => f[2].kind \in {"lbrace", "["}
    <2>1. Framed(n, f)
      BY DEF WellNested
    <2>2. (n > 0 => 1 \in 1 .. n) /\ (n > 1 => 2 \in 1 .. n)
      OBVIOUS
    <2>3. QED
      BY <2>1, <2>2, FramedAt
  <1>2. CASE MoveStays(st, n, f, b, st2) /\ n2 = n /\ f2 = f
    <2>1. n = 0 => st2 # "value"
      BY <1>2 DEF MoveStays, Ended, WellNested, KeyStates, NoHits
    <2>2. ASSUME NEW l \in {1, 2}, n = l, f[l].kind = "lbrace", Past(st, n, f, l)
          PROVE  Past(st2, n, f, l)
      BY <1>2, <2>2 DEF MoveStays, Past, Ended, WellNested, KeyStates
    <2>3. ASSUME NEW l \in {1, 2}, n > l, Past(st, n, f, l)
          PROVE  Past(st2, n, f, l)
      BY <2>3 DEF Past
    <2>4. CASE n = 0
      BY <1>2, <2>1, <2>4 DEF NoHits
    <2>5. CASE n = 1
      BY <1>1, <1>2, <2>2, <2>5 DEF NoHits
    <2>6. CASE n = 2
      BY <1>1, <1>2, <2>2, <2>3, <2>6 DEF NoHits, NoHitsIn
    <2>7. CASE n > 2
      BY <1>2, <2>3, <2>7 DEF NoHits, NoHitsIn
    <2>8. QED
      BY <2>4, <2>5, <2>6, <2>7
  <1>3. CASE MoveOpens(st, n, f, b, st2, n2, f2)
    <2>1. n # 0
      BY <1>3 DEF MoveOpens, WellNested, NoHits
    <2>2. n2 = n + 1 /\ \A i \in 1 .. n : f2[i] = f[i]
      BY <1>3 DEF MoveOpens, Pushed
    <2>3. st = "value" \/ f[n].kind = "["
      BY <1>3 DEF MoveOpens, WellNested
    <2>4. CASE n = 1
      BY <2>2, <2>3, <2>4 DEF NoHits, Past
    <2>5. CASE n = 2
      BY <2>2, <2>3, <2>5 DEF NoHits, NoHitsIn, Past
    <2>6. CASE n > 2
      BY <2>2, <2>6 DEF NoHits, NoHitsIn, Past
    <2>7. QED
      BY <2>1, <2>4, <2>5, <2>6
  <1>4. CASE MoveCloses(st, n, f, b, st2, n2, f2)
    <2>1. n = n2 + 1 /\ \A i \in 1 .. n2 : f2[i] = f[i]
      BY <1>4 DEF MoveCloses, Popped
    <2>2. st2 = IF n2 = 0 THEN "end" ELSE "after"
      BY <1>4 DEF MoveCloses, Ended
    <2>3. CASE n2 = 0
      BY <2>1, <2>2, <2>3 DEF NoHits
    <2>4. CASE n2 = 1
      BY <2>1, <2>2, <2>4 DEF NoHits, Past
    <2>5. CASE n2 = 2
      BY <2>1, <2>2, <2>5 DEF NoHits, NoHitsIn, Past
    <2>6. CASE n2 > 2
      BY <2>1, <2>6 DEF NoHits, NoHitsIn, Past
    <2>7. QED
      BY <2>3, <2>4, <2>5, <2>6
  <1>5. CASE MoveKeys(st, n, f, b, st2, n2, f2)
    <2>1. n2 = n /\ n > 0 /\ f2[n].kind = f[n].kind /\ \A i \in 1 .. n : i # n => f2[i] = f[i]
      BY <1>5 DEF MoveKeys, Rekeyed
    <2>2. f[n].hits => f2[n].hits
      BY <1>5 DEF MoveKeys, Rekeyed
    <2>3. st2 \in {"key_text", "colon"} /\ (st2 = "colon" /\ f[n].hits => f2[n].key # "hits")
      BY <1>5 DEF MoveKeys, Rekeyed
    <2>4. CASE n = 1
      BY <2>1, <2>2, <2>3, <2>4 DEF NoHits, Past
    <2>5. CASE n = 2
      BY <2>1, <2>2, <2>3, <2>5 DEF NoHits, NoHitsIn, Past
    <2>6. CASE n = 3
      BY <2>1, <2>6 DEF NoHits, NoHitsIn, Past
    <2>7. CASE n > 3
      BY <2>1, <2>7 DEF NoHits, NoHitsIn, Past
    <2>8. QED
      BY <2>1, <2>4, <2>5, <2>6, <2>7
  <1>6. QED
    BY <1>2, <1>3, <1>4, <1>5 DEF Move

\* A value followed by its depth and its strings: the document is as deep in it, and in a
\* string, behind a backslash, as the scanner counts.
Inside(st, n, base, t) ==
  /\ n = base + t.depth
  /\ t.in_str => /\ st \in {"text", "escape"} \/ (t.depth > 0 /\ st \in {"key_text", "key_escape"})
                 /\ t.esc <=> st \in {"escape", "key_escape"}
  /\ ~t.in_str => t.depth > 0 /\ ~t.esc /\ st \in {"first", "key", "colon", "value", "elem", "after", "scalar"}

Track == [depth : Nat, in_str : BOOLEAN, esc : BOOLEAN]

tracked(t, b) == IF t.in_str THEN in_string(t, b) ELSE in_struct(t, b)

\* No byte reaches below the innermost frame.
LEMMA LowerFrames ==
  ASSUME NEW st, NEW n \in Nat, NEW f, NEW b, NEW st2, NEW n2 \in Nat, NEW f2,
         Move(st, n, f, b, st2, n2, f2), NEW i \in 1 .. n, i < n
  PROVE  f2[i] = f[i]
  <1>1. CASE MoveStays(st, n, f, b, st2) /\ n2 = n /\ f2 = f
    BY <1>1
  <1>2. CASE MoveOpens(st, n, f, b, st2, n2, f2)
    BY <1>2 DEF MoveOpens, Pushed
  <1>3. CASE MoveCloses(st, n, f, b, st2, n2, f2)
    BY <1>3 DEF MoveCloses, Popped
  <1>4. CASE MoveKeys(st, n, f, b, st2, n2, f2)
    <2>1. \A j \in 1 .. n : j # n => f2[j] = f[j]
      BY <1>4 DEF MoveKeys, Rekeyed
    <2>2. QED
      BY <2>1
  <1>5. QED
    BY <1>1, <1>2, <1>3, <1>4 DEF Move

LEMMA TrackStep ==
  ASSUME NEW t \in Track, NEW b
  PROVE  /\ t.in_str => /\ tracked(t, b).depth = t.depth
                        /\ tracked(t, b).in_str <=> t.esc \/ b # "q"
                        /\ tracked(t, b).esc <=> ~t.esc /\ b = "\\"
         /\ ~t.in_str => /\ tracked(t, b).depth = t.depth + (IF b \in {"lbrace", "["} THEN 1 ELSE 0) - (IF b \in {"rbrace", "]"} THEN 1 ELSE 0)
                         /\ tracked(t, b).in_str <=> b = "q"
                         /\ tracked(t, b).esc = t.esc
         /\ tracked(t, b).in_str \in BOOLEAN /\ tracked(t, b).esc \in BOOLEAN
         /\ tracked(t, b).depth \in Nat => tracked(t, b) \in Track
  BY DEF Track, tracked, in_string, in_struct

\* The frames up to base are as they were, and so is what is followed, or it has ended.
StillInside(st2, n2, base, f, f2, k) ==
  /\ \A i \in 1 .. base : f2[i] = f[i]
  /\ IF k.depth = 0 /\ ~k.in_str THEN n2 = base /\ st2 = "after"
     ELSE k \in Track /\ Inside(st2, n2, base, k)

LEMMA InsideStep ==
  ASSUME NEW st, NEW n \in Nat, NEW f, NEW b, NEW st2, NEW n2 \in Nat, NEW f2,
         WellNested(st, n, f), Move(st, n, f, b, st2, n2, f2),
         NEW base \in Nat, base > 0, NEW t \in Track, Inside(st, n, base, t)
  PROVE  StillInside(st2, n2, base, f, f2, tracked(t, b))
  <1>1. PICK k : k = tracked(t, b)
    OBVIOUS
  <1>2. /\ t.in_str => k.depth = t.depth /\ (k.in_str <=> t.esc \/ b # "q") /\ (k.esc <=> ~t.esc /\ b = "\\")
        /\ ~t.in_str => /\ k.depth = t.depth + (IF b \in {"lbrace", "["} THEN 1 ELSE 0) - (IF b \in {"rbrace", "]"} THEN 1 ELSE 0)
                        /\ k.in_str <=> b = "q"
                        /\ k.esc = t.esc
        /\ k.depth \in Nat => k \in Track
    BY <1>1, TrackStep
  <1>3. PICK d \in Nat : d = t.depth /\ n = base + d
    BY DEF Track, Inside
  <1>4. ASSUME d = 0 => f2 = f
        PROVE  \A i \in 1 .. base : f2[i] = f[i]
    <2>1. CASE d = 0
      BY <1>4, <2>1
    <2>2. CASE d > 0
      <3>1. ASSUME NEW i \in 1 .. base
            PROVE  f2[i] = f[i]
        <4>1. i \in 1 .. n /\ i < n
          BY <1>3, <2>2
        <4>2. QED
          BY <4>1, LowerFrames
      <3>2. QED
        BY <3>1
    <2>3. QED
      BY <2>1, <2>2
  <1>5. ASSUME \A i \in 1 .. base : f2[i] = f[i],
               IF k.depth = 0 /\ ~k.in_str THEN n2 = base /\ st2 = "after" ELSE k.depth \in Nat /\ Inside(st2, n2, base, k)
        PROVE  StillInside(st2, n2, base, f, f2, k)
    BY <1>2, <1>5 DEF StillInside
  <1>6. CASE t.in_str
    <2>1. st \in {"text", "escape"} \/ (d > 0 /\ st \in {"key_text", "key_escape"})
      BY <1>3, <1>6 DEF Inside
    <2>2. t.esc <=> st \in {"escape", "key_escape"}
      BY <1>6 DEF Inside
    <2>3. n2 = n
      BY <2>1 DEF Move, MoveStays, MoveOpens, MoveCloses, MoveKeys, Rekeyed
    <2>4. d = 0 => f2 = f
      <3>1. CASE d = 0
        <4>1. st \in {"text", "escape"}
          BY <2>1, <3>1
        <4>2. ~MoveOpens(st, n, f, b, st2, n2, f2) /\ ~MoveCloses(st, n, f, b, st2, n2, f2)
          BY <4>1 DEF MoveOpens, MoveCloses
        <4>3. ~MoveKeys(st, n, f, b, st2, n2, f2)
          BY <4>1 DEF MoveKeys, KeyByte
        <4>4. QED
          BY <4>2, <4>3 DEF Move
      <3>2. QED
        BY <3>1
    <2>5. \A i \in 1 .. base : f2[i] = f[i]
      BY <1>4, <2>4
    <2>6. CASE ~t.esc /\ b = "q"
      <3>1. st2 \in {"after", "colon"} /\ (st2 = "colon" => d > 0)
        <4>1. n # 0
          BY <1>3
        <4>2. QED
          BY <2>1, <2>2, <2>6, <4>1 DEF Move, MoveStays, MoveOpens, MoveCloses, MoveKeys, KeyByte, Ended
      <3>2. k.depth = d /\ ~k.in_str /\ ~k.esc
        BY <1>2, <1>3, <1>6, <2>6
      <3>3. n2 = base + d /\ (d = 0 => n2 = base)
        BY <1>3, <2>3
      <3>4. QED
        BY <1>1, <1>5, <2>5, <3>1, <3>2, <3>3 DEF Inside
    <2>7. CASE t.esc \/ b # "q"
      <3>1. /\ st2 \in {"text", "escape"} \/ (d > 0 /\ st2 \in {"key_text", "key_escape"})
            /\ st2 \in {"escape", "key_escape"} <=> ~t.esc /\ b = "\\"
        BY <2>1, <2>2, <2>7 DEF Move, MoveStays, MoveOpens, MoveCloses, MoveKeys, KeyByte
      <3>2. k.depth = d /\ k.in_str /\ (k.esc <=> st2 \in {"escape", "key_escape"})
        BY <1>2, <1>3, <1>6, <2>7, <3>1
      <3>3. n2 = base + d
        BY <1>3, <2>3
      <3>4. QED
        BY <1>1, <1>5, <2>5, <3>1, <3>2, <3>3 DEF Inside
    <2>8. QED
      BY <2>6, <2>7
  <1>7. CASE ~t.in_str
    <2>1. d > 0 /\ ~t.esc /\ st \in {"first", "key", "colon", "value", "elem", "after", "scalar"}
      BY <1>3, <1>7 DEF Inside
    <2>2. \A i \in 1 .. base : f2[i] = f[i]
      BY <1>4, <2>1
    <2>3. /\ k.depth = d + (IF b \in {"lbrace", "["} THEN 1 ELSE 0) - (IF b \in {"rbrace", "]"} THEN 1 ELSE 0)
          /\ k.in_str <=> b = "q"
          /\ ~k.esc
      BY <1>2, <1>3, <1>7, <2>1
    <2>4. CASE MoveStays(st, n, f, b, st2) /\ n2 = n /\ f2 = f
      <3>1. /\ b \notin {"lbrace", "[", "rbrace", "]"}
            /\ st2 \in {"first", "key", "colon", "value", "elem", "after", "scalar", "text"} /\ (st2 = "text" <=> b = "q")
        BY <1>3, <2>1, <2>4 DEF MoveStays, Ended
      <3>2. k.depth = d
        BY <2>3, <3>1
      <3>3. QED
        BY <1>1, <1>3, <1>5, <2>1, <2>2, <2>3, <2>4, <3>1, <3>2 DEF Inside
    <2>5. CASE MoveOpens(st, n, f, b, st2, n2, f2)
      <3>1. b \in {"lbrace", "["} /\ n2 = n + 1 /\ st2 \in {"first", "elem"}
        BY <2>5 DEF MoveOpens, Pushed
      <3>2. k.depth = d + 1 /\ ~k.in_str
        BY <2>3, <3>1
      <3>3. QED
        BY <1>1, <1>3, <1>5, <2>2, <2>3, <3>1, <3>2 DEF Inside
    <2>6. CASE MoveCloses(st, n, f, b, st2, n2, f2)
      <3>1. b \in {"rbrace", "]"} /\ n = n2 + 1 /\ st2 = "after"
        BY <1>3, <2>1, <2>6 DEF MoveCloses, Popped, Ended
      <3>2. k.depth = d - 1 /\ ~k.in_str
        BY <2>3, <3>1
      <3>3. QED
        BY <1>1, <1>3, <1>5, <2>1, <2>2, <2>3, <3>1, <3>2 DEF Inside
    <2>7. CASE MoveKeys(st, n, f, b, st2, n2, f2)
      <3>1. b = "q" /\ n2 = n /\ st2 = "key_text"
        BY <2>1, <2>7 DEF MoveKeys, KeyByte, Rekeyed
      <3>2. k.depth = d /\ k.in_str
        BY <2>3, <3>1
      <3>3. QED
        BY <1>1, <1>3, <1>5, <2>1, <2>2, <2>3, <3>1, <3>2 DEF Inside
    <2>8. QED
      BY <2>4, <2>5, <2>6, <2>7 DEF Move
  <1>8. QED
    BY <1>1, <1>6, <1>7

-----------------------------------------------------------------------------
(* What one byte does to the scanner, phase by phase. *)

ScannerFields == {"phase", "level", "key_is_hits", "key_buf", "key_esc", "skip", "elem", "out", "redo", "stage"}

Fresh(s) == DOMAIN s = ScannerFields /\ s.out = <<>> /\ ~s.redo /\ s.stage = "Active"

\* A byte was looked at: the scanner is again between two bytes.
Looked(t) == DOMAIN t = ScannerFields /\ ~t.redo /\ t.stage = "Active"

LEMMA AppendPair ==
  ASSUME NEW a, NEW b
  PROVE  Append(<<a>>, b) = <<a, b>>
  <1>1. PICK S : S = {a, b}
    OBVIOUS
  <1>2. PICK s : s = Append(<<a>>, b)
    OBVIOUS
  <1>3. PICK t : t = <<a, b>>
    OBVIOUS
  <1>4. s \in Seq(S) /\ Len(s) = 2 /\ s[1] = a /\ s[2] = b
    BY <1>1, <1>2
  <1>5. t \in Seq(S) /\ Len(t) = 2 /\ t[1] = a /\ t[2] = b
    BY <1>1, <1>3
  <1>6. Len(s) = Len(t) /\ \A i \in 1 .. Len(s) : s[i] = t[i]
    BY <1>4, <1>5
  <1>7. s = t
    BY ONLY <1>4, <1>5, <1>6, SeqEqual
  <1>8. QED
    BY <1>2, <1>3, <1>7

LEMMA PutOut ==
  ASSUME NEW b
  PROVE  Append(<<>>, b) = <<b>>
  OBVIOUS

LEMMA AtRoot ==
  ASSUME NEW s, Fresh(s), NEW b, s.phase = "SeekRoot"
  PROVE  LET t == step(s, b) IN
         /\ Looked(t) /\ t.out = <<b>>
         /\ b = "lbrace" => t.level = 1 /\ t.phase = "ObjExpectKey"
         /\ b = "sp" => t.phase = "SeekRoot"
         /\ b \notin {"lbrace", "sp"} => t.phase = "Passthrough"
  BY PutOut DEF Fresh, Looked, ScannerFields, step, at, at_seek_root, expected, push, to, is_ws

LEMMA AtExpectKey ==
  ASSUME NEW s, Fresh(s), NEW b, s.phase = "ObjExpectKey"
  PROVE  LET t == step(s, b) IN
         /\ Looked(t) /\ t.out = <<b>> /\ t.level = s.level
         /\ b = "q" => t.key_buf = <<>> /\ ~t.key_esc /\ t.phase = "ObjReadKey"
         /\ b = "sp" => t.phase = "ObjExpectKey"
         /\ b \notin {"q", "sp"} => t.phase = "Passthrough"
  BY PutOut DEF Fresh, Looked, ScannerFields, step, at, at_obj_expect_key, expected, push, to, is_ws

LEMMA AtReadKey ==
  ASSUME NEW s, Fresh(s), NEW b, s.phase = "ObjReadKey"
  PROVE  LET t == step(s, b) IN
         /\ Looked(t) /\ t.out = <<b>> /\ t.level = s.level
         /\ ~s.key_esc /\ b = "q" => (t.key_is_hits <=> decoded_key_is_hits(s.key_buf)) /\ t.phase = "ObjExpectColon"
         /\ s.key_esc \/ b # "q" => /\ t.phase = "ObjReadKey" /\ t.key_buf = Append(s.key_buf, b)
                                    /\ t.key_esc <=> ~s.key_esc /\ b = "\\"
  BY PutOut DEF Fresh, Looked, ScannerFields, step, at, at_obj_read_key, push

LEMMA AtExpectColon ==
  ASSUME NEW s, Fresh(s), NEW b, s.phase = "ObjExpectColon"
  PROVE  LET t == step(s, b) IN
         /\ Looked(t) /\ t.out = <<b>> /\ t.level = s.level /\ t.key_is_hits = s.key_is_hits
         /\ b = ":" => t.phase = "ObjExpectValue"
         /\ b = "sp" => t.phase = "ObjExpectColon"
         /\ b \notin {":", "sp"} => t.phase = "Passthrough"
  BY PutOut DEF Fresh, Looked, ScannerFields, step, at, at_obj_expect_colon, expected, push, to, is_ws

LEMMA AtExpectValue ==
  ASSUME NEW s, Fresh(s), NEW b, s.phase = "ObjExpectValue"
  PROVE  LET t == step(s, b) IN
         /\ Looked(t) /\ t.out = <<b>>
         /\ b = "sp" => t.phase = "ObjExpectValue" /\ t.level = s.level /\ t.key_is_hits = s.key_is_hits
         /\ b # "sp" /\ ~s.key_is_hits => t.skip = begin(b) /\ t.phase = "SkipValue" /\ t.level = s.level
         /\ b # "sp" /\ s.key_is_hits => /\ s.level = 1 /\ b = "lbrace" => t.level = 2 /\ t.phase = "ObjExpectKey"
                                         /\ s.level = 2 /\ b = "[" => t.phase = "ArrExpectElem"
                                         /\ ~(s.level = 1 /\ b = "lbrace") /\ ~(s.level = 2 /\ b = "[") => t.phase = "Passthrough"
  BY PutOut DEF Fresh, Looked, ScannerFields, step, at, at_obj_expect_value, push, to, is_ws

LEMMA AtExpectComma ==
  ASSUME NEW s, Fresh(s), NEW b, s.phase = "ObjExpectComma"
  PROVE  LET t == step(s, b) IN
         /\ Looked(t) /\ t.out = <<b>> /\ t.level = s.level
         /\ b = "comma" => t.phase = "ObjExpectKey"
         /\ b = "sp" => t.phase = "ObjExpectComma"
         /\ b \notin {"comma", "sp"} => t.phase = "Passthrough"
  BY PutOut DEF Fresh, Looked, ScannerFields, step, at, at_obj_expect_comma, expected, push, to, is_ws

\* The value of some other key: a number ends before the byte behind it.
LEMMA AtSkipValue ==
  ASSUME NEW s, Fresh(s), NEW b, s.phase = "SkipValue"
  PROVE  LET t == step(s, b)
             k == tracked(s.skip, b) IN
         /\ Looked(t) /\ t.out = <<b>> /\ t.level = s.level
         /\ ~s.skip.in_str /\ s.skip.depth = 0 =>
              /\ b = "sp" => t.phase = "ObjExpectComma"
              /\ b = "comma" => t.phase = "ObjExpectKey"
              /\ b = "rbrace" => t.phase = "Passthrough"
              /\ b \notin {"sp", "comma", "rbrace"} => t.phase = "SkipValue" /\ t.skip = s.skip
         /\ s.skip.in_str \/ s.skip.depth # 0 =>
              /\ k.depth = 0 /\ ~k.in_str => t.phase = "ObjExpectComma"
              /\ k.depth # 0 \/ k.in_str => t.phase = "SkipValue" /\ t.skip = k
  <1>1. CASE ~s.skip.in_str /\ s.skip.depth = 0
    <2>1. CASE b \in {"sp", "comma", "rbrace"}
      <3>1. at(s, b) = redo(s, "ObjExpectComma")
        BY <1>1, <2>1 DEF at, at_skip_value, is_ws
      <3>2. PICK f : f = [redo(s, "ObjExpectComma") EXCEPT !.redo = FALSE]
        OBVIOUS
      <3>3. /\ DOMAIN f = ScannerFields /\ f.out = <<>> /\ ~f.redo /\ f.stage = "Active"
            /\ f.phase = "ObjExpectComma" /\ f.level = s.level
        BY <3>2 DEF Fresh, ScannerFields, redo
      <3>4. redo(s, "ObjExpectComma").redo
        BY DEF Fresh, ScannerFields, redo
      <3>5. step(s, b) = at_obj_expect_comma(f, b)
        BY <3>1, <3>2, <3>3, <3>4 DEF step, at
      <3>6. QED
        BY <1>1, <2>1, <3>3, <3>5, PutOut DEF Looked, ScannerFields, at_obj_expect_comma, expected, push, to, is_ws
    <2>2. CASE b \notin {"sp", "comma", "rbrace"}
      <3>1. at(s, b) = push(s, b)
        BY <1>1, <2>2 DEF at, at_skip_value, is_ws
      <3>2. QED
        BY <1>1, <2>2, <3>1, PutOut DEF Fresh, Looked, ScannerFields, step, push
    <2>3. QED
      BY <2>1, <2>2
  <1>2. CASE s.skip.in_str \/ s.skip.depth # 0
    BY <1>2, PutOut DEF Fresh, Looked, ScannerFields, step, at, at_skip_value, push, tracked
  <1>3. QED
    BY <1>1, <1>2

\* How far into an element the scanner is.
ElemTrack(e) == [x \in DOMAIN NoSkip |-> e[x]]

KindOf(b) == IF b = "q" THEN "Str" ELSE IF b \in {"lbrace", "["} THEN "Struct" ELSE "Scalar"

LEMMA ElemTracks ==
  ASSUME NEW e, e.depth \in Nat, e.in_str \in BOOLEAN, e.esc \in BOOLEAN
  PROVE  /\ ElemTrack(e) \in Track
         /\ ElemTrack(e).depth = e.depth /\ ElemTrack(e).in_str = e.in_str /\ ElemTrack(e).esc = e.esc
  BY DEF ElemTrack, NoSkip, Track

LEMMA Begins ==
  ASSUME NEW b
  PROVE  /\ begin(b) \in Track /\ ~begin(b).esc
         /\ begin(b).in_str <=> b = "q"
         /\ begin(b).depth = IF b \in {"lbrace", "["} THEN 1 ELSE 0
  BY DEF begin, NoSkip, Track

LEMMA AtExpectElem ==
  ASSUME NEW s, Fresh(s), NEW b, s.phase = "ArrExpectElem"
  PROVE  LET t == step(s, b) IN
         /\ Looked(t)
         /\ b = "sp" => t.phase = "ArrExpectElem" /\ t.out = <<b>>
         /\ b = "]" => t.phase = "Passthrough" /\ t.out = <<b>>
         /\ b \notin {"sp", "]"} => /\ t.phase = "ArrReadElem" /\ t.out = <<>>
                                    /\ t.elem = [kind |-> KindOf(b), depth |-> begin(b).depth, in_str |-> begin(b).in_str, esc |-> FALSE, odd |-> FALSE \/ refuses(b, begin(b).depth)]
  <1>1. CASE b \in {"sp", "]"}
    BY <1>1, PutOut DEF Fresh, Looked, ScannerFields, step, at, at_arr_expect_elem, push, to, is_ws
  <1>2. CASE b \notin {"sp", "]"}
    <2>1. PICK r : r = [redo([s EXCEPT !.elem = NoElem], "ArrReadElem") EXCEPT !.redo = FALSE]
      OBVIOUS
    <2>2. /\ DOMAIN r = ScannerFields /\ r.phase = "ArrReadElem" /\ r.elem = NoElem /\ r.out = <<>> /\ r.redo = FALSE /\ r.stage = "Active"
      BY <2>1 DEF Fresh, redo, ScannerFields
    <2>3. step(s, b) = at(r, b)
      BY <1>2, <2>1 DEF Fresh, ScannerFields, step, at, at_arr_expect_elem, redo, is_ws
    <2>4. at(r, b) = read_elem(r, b)
      BY <2>2 DEF at
    <2>5. PICK e : e = [begin(b) EXCEPT !.esc = FALSE]
      OBVIOUS
    <2>6. e.depth = begin(b).depth /\ e.in_str = begin(b).in_str /\ e.esc = FALSE
      BY <2>5 DEF begin, NoSkip
    <2>7. ~(KindOf(b) # "Scalar" /\ e.depth = 0 /\ ~e.in_str)
      BY <2>6, Begins DEF KindOf
    <2>8. r.elem.kind = "Unknown" /\ r.elem.in_str = FALSE /\ r.elem.odd = FALSE
      BY <2>2 DEF NoElem
    <2>9. read_elem(r, b) = [r EXCEPT !.elem = [kind |-> KindOf(b), depth |-> e.depth, in_str |-> e.in_str, esc |-> e.esc, odd |-> FALSE \/ refuses(b, e.depth)]]
      BY <2>5, <2>7, <2>8 DEF read_elem, KindOf
    <2>10. PICK el : el = [kind |-> KindOf(b), depth |-> begin(b).depth, in_str |-> begin(b).in_str, esc |-> FALSE, odd |-> FALSE \/ refuses(b, begin(b).depth)]
      OBVIOUS
    <2>11. step(s, b) = [r EXCEPT !.elem = el]
      BY <2>3, <2>4, <2>6, <2>9, <2>10
    <2>12. LET t == step(s, b) IN Looked(t) /\ t.phase = "ArrReadElem" /\ t.out = <<>> /\ t.elem = el
      BY <2>2, <2>11 DEF Looked, ScannerFields
    <2>13. QED
      BY <1>2, <2>10, <2>12
  <1>3. QED
    BY <1>1, <1>2

LEMMA AtArrComma ==
  ASSUME NEW s, DOMAIN s = ScannerFields, ~s.redo, s.stage = "Active", s.phase = "ArrExpectComma", NEW b
  PROVE  LET t == at(s, b) IN
         /\ Looked(t) /\ t.out = Append(s.out, b)
         /\ b = "comma" => t.phase = "ArrExpectElem"
         /\ b = "sp" => t.phase = "ArrExpectComma"
         /\ b \notin {"comma", "sp"} => t.phase = "Passthrough"
  BY DEF Looked, ScannerFields, at, at_arr_expect_comma, expected, push, to, is_ws

LEMMA AtArrExpectComma ==
  ASSUME NEW s, Fresh(s), NEW b, s.phase = "ArrExpectComma"
  PROVE  LET t == step(s, b) IN
         /\ Looked(t) /\ t.out = <<b>>
         /\ b = "comma" => t.phase = "ArrExpectElem"
         /\ b = "sp" => t.phase = "ArrExpectComma"
         /\ b \notin {"comma", "sp"} => t.phase = "Passthrough"
  <1>1. step(s, b) = at(s, b)
    BY AtArrComma DEF Fresh, Looked, step
  <1>2. QED
    BY <1>1, AtArrComma, PutOut DEF Fresh

LEMMA AtScalar ==
  ASSUME NEW s, Fresh(s), NEW b, s.phase = "ArrReadElem", s.elem.kind = "Scalar"
  PROVE  LET t == step(s, b) IN
         /\ Looked(t)
         /\ b \in {"sp", "comma", "]"} => t.out = <<transform(s.elem), b>>
         /\ b = "sp" => t.phase = "ArrExpectComma"
         /\ b = "comma" => t.phase = "ArrExpectElem"
         /\ b = "]" => t.phase = "Passthrough"
         /\ b \notin {"sp", "comma", "]"} => t = s
  <1>1. CASE b \in {"sp", "comma", "]"}
    <2>1. PICK r : r = [redo(finish_elem(s), "ArrExpectComma") EXCEPT !.redo = FALSE]
      OBVIOUS
    <2>2. /\ DOMAIN r = ScannerFields /\ r.phase = "ArrExpectComma" /\ r.out = <<transform(s.elem)>> /\ r.redo = FALSE /\ r.stage = "Active"
      BY <2>1, PutOut DEF Fresh, redo, finish_elem, push, ScannerFields
    <2>3. at(s, b) = redo(finish_elem(s), "ArrExpectComma")
      BY <1>1 DEF at, read_elem, is_ws
    <2>4. redo(finish_elem(s), "ArrExpectComma").redo
      BY DEF Fresh, ScannerFields, redo, finish_elem, push
    <2>5. step(s, b) = at(r, b)
      BY <2>1, <2>3, <2>4 DEF step
    <2>6. PICK t : t = at(r, b)
      OBVIOUS
    <2>7. /\ Looked(t) /\ t.out = Append(r.out, b)
          /\ b = "comma" => t.phase = "ArrExpectElem"
          /\ b = "sp" => t.phase = "ArrExpectComma"
          /\ b \notin {"comma", "sp"} => t.phase = "Passthrough"
      BY <2>2, <2>6, AtArrComma
    <2>8. PICK hit : hit = transform(s.elem)
      OBVIOUS
    <2>9. t.out = <<hit, b>>
      BY <2>2, <2>7, <2>8, AppendPair
    <2>10. QED
      BY <1>1, <2>5, <2>6, <2>7, <2>8, <2>9
  <1>2. CASE b \notin {"sp", "comma", "]"}
    <2>1. at(s, b) = s
      BY <1>2 DEF at, read_elem, is_ws
    <2>2. step(s, b) = s
      BY <2>1 DEF Fresh, step
    <2>3. QED
      BY <1>2, <2>2 DEF Fresh, Looked
  <1>3. QED
    BY <1>1, <1>2

LEMMA AtReadElem ==
  ASSUME NEW s, Fresh(s), NEW b, s.phase = "ArrReadElem", s.elem.kind \in {"Str", "Struct"}
  PROVE  LET t == step(s, b)
             k == tracked(ElemTrack(s.elem), b) IN
         /\ Looked(t)
         /\ k.depth = 0 /\ ~k.in_str => t.phase = "ArrExpectComma" /\ t.out = <<IF s.elem.odd \/ refuses(b, 0) THEN "raw" ELSE "hit">>
         /\ k.depth # 0 \/ k.in_str => /\ t.phase = "ArrReadElem" /\ t.out = <<>>
                                       /\ t.elem = [kind |-> s.elem.kind, depth |-> k.depth, in_str |-> k.in_str, esc |-> k.esc, odd |-> s.elem.odd \/ refuses(b, k.depth)]
  <1>1. PICK k : k = tracked(ElemTrack(s.elem), b)
    OBVIOUS
  <1>2. ElemTrack(s.elem).in_str = s.elem.in_str
    BY DEF ElemTrack, NoSkip
  <1>3. PICK r : r = [s EXCEPT !.elem = [kind |-> s.elem.kind, depth |-> k.depth, in_str |-> k.in_str, esc |-> k.esc, odd |-> s.elem.odd \/ refuses(b, k.depth)]]
    OBVIOUS
  <1>4. at(s, b) = IF k.depth = 0 /\ ~k.in_str THEN finish_elem(r) ELSE r
    BY <1>1, <1>2, <1>3 DEF at, read_elem, tracked, ElemTrack
  <1>5. /\ DOMAIN r = ScannerFields /\ r.phase = "ArrReadElem" /\ r.out = <<>> /\ ~r.redo /\ r.stage = "Active"
        /\ r.elem = [kind |-> s.elem.kind, depth |-> k.depth, in_str |-> k.in_str, esc |-> k.esc, odd |-> s.elem.odd \/ refuses(b, k.depth)]
    BY <1>3 DEF Fresh, ScannerFields
  <1>6. /\ DOMAIN finish_elem(r) = ScannerFields /\ finish_elem(r).phase = "ArrExpectComma" /\ finish_elem(r).out = <<transform(r.elem)>>
        /\ ~finish_elem(r).redo /\ finish_elem(r).stage = "Active"
    BY <1>5, PutOut DEF finish_elem, push, ScannerFields
  <1>7. step(s, b) = at(s, b)
    BY <1>4, <1>5, <1>6 DEF step
  <1>8. k.depth = 0 => transform(r.elem) = IF s.elem.odd \/ refuses(b, 0) THEN "raw" ELSE "hit"
    <2>1. r.elem.odd = (s.elem.odd \/ refuses(b, k.depth))
      BY <1>5
    <2>2. QED
      BY <2>1 DEF transform
  <1>9. QED
    BY <1>1, <1>4, <1>5, <1>6, <1>7, <1>8 DEF Looked

LEMMA AtPassthrough ==
  ASSUME NEW s, Fresh(s), NEW b, s.phase = "Passthrough"
  PROVE  LET t == step(s, b) IN Looked(t) /\ t.out = <<b>> /\ t.phase = "Passthrough"
  BY PutOut DEF Fresh, Looked, ScannerFields, step, at, push

-----------------------------------------------------------------------------
(* The scanner follows the document. *)

JsonBytes == {"h", "x", "q", "sp", "comma", "lbrace", "rbrace", "[", "]", ":", "\\"}

\* The root object (l = 1), or the object its key hits holds (l = 2), is open.
OnPath(n, f, l) ==
  /\ l \in {1, 2} /\ n >= l
  /\ f[1].kind = "lbrace"
  /\ l = 2 => f[1].key = "hits" /\ f[1].hits /\ f[2].kind = "lbrace"

\* At an entry of that object, which has not had its key hits yet.
Unkeyed(n, f, l) == OnPath(n, f, l) /\ n = l /\ ~f[l].hits

\* What is read of a key tells it from hits as its decoded text does.
KeyRead(st, key, raw) ==
  /\ st = "key_text" => \/ key = "empty" /\ raw = <<>>
                        \/ key = "hits" /\ decoded_key_is_hits(raw)
                        \/ key = "other" /\ raw # <<>> /\ raw # <<"\\">> /\ ~decoded_key_is_hits(raw)
  /\ st = "key_escape" => IF key = "empty" THEN raw = <<"\\">> ELSE Len(raw) >= 2

ReadingKey(st, key, s) ==
  /\ s.key_buf \in Seq(JsonBytes)
  /\ st \in {"key_text", "key_escape"} /\ (s.key_esc <=> st = "key_escape")
  /\ KeyRead(st, key, s.key_buf)

\* Behind a key.
HasKey(n, f, s) ==
  /\ OnPath(n, f, s.level) /\ n = s.level
  /\ s.key_is_hits <=> f[n].key = "hits"
  /\ f[n].hits <=> f[n].key = "hits"

Skipping(st, n, f, s) ==
  /\ OnPath(n, f, s.level) /\ f[s.level].key # "hits" /\ ~f[s.level].hits
  /\ s.skip \in Track
  /\ IF ~s.skip.in_str /\ s.skip.depth = 0 THEN n = s.level /\ st = "scalar" ELSE Inside(st, n, s.level, s.skip)

InArray(n, f) == OnPath(n, f, 2) /\ n >= 3 /\ f[2].key = "hits" /\ f[2].hits /\ f[3].kind = "["

Reading(st, n, e) ==
  \/ e.kind = "Scalar" /\ n = 3 /\ st = "scalar"
  \/ /\ e.kind \in {"Str", "Struct"} /\ (e.kind = "Struct" <=> e.depth # 0)
     /\ ElemTrack(e) \in Track /\ Inside(st, n, 3, ElemTrack(e))

Coupled(st, n, f, s) ==
  \/ s.phase = "SeekRoot" /\ st = "value" /\ n = 0
  \/ s.phase = "ObjExpectKey" /\ Unkeyed(n, f, s.level) /\ st \in {"first", "key"}
  \/ s.phase = "ObjReadKey" /\ Unkeyed(n, f, s.level) /\ ReadingKey(st, f[n].key, s)
  \/ s.phase = "ObjExpectColon" /\ HasKey(n, f, s) /\ st = "colon"
  \/ s.phase = "ObjExpectValue" /\ HasKey(n, f, s) /\ st = "value"
  \/ s.phase = "SkipValue" /\ Skipping(st, n, f, s)
  \/ s.phase = "ObjExpectComma" /\ Unkeyed(n, f, s.level) /\ st = "after"
  \/ s.phase = "ArrExpectElem" /\ InArray(n, f) /\ n = 3 /\ st \in {"elem", "value"}
  \/ s.phase = "ArrReadElem" /\ InArray(n, f) /\ Reading(st, n, s.elem)
  \/ s.phase = "ArrExpectComma" /\ InArray(n, f) /\ n = 3 /\ st = "after"
  \/ s.phase = "Passthrough" /\ NoHits(st, n, f)

\* The object ends: there will be no more hits.
LEMMA PathCloses ==
  ASSUME NEW st, NEW n \in Nat, NEW f, NEW b, NEW st2, NEW n2 \in Nat, NEW f2,
         MoveCloses(st, n, f, b, st2, n2, f2), OnPath(n, f, n)
  PROVE  NoHits(st2, n2, f2) /\ b = "rbrace"
  <1>1. n \in {1, 2} /\ n = n2 + 1 /\ st2 = IF n2 = 0 THEN "end" ELSE "after"
    BY DEF MoveCloses, Popped, OnPath, Ended
  <1>2. f[n].kind = "lbrace"
    BY <1>1 DEF OnPath
  <1>3. b = "rbrace"
    BY <1>2 DEF MoveCloses
  <1>4. CASE n = 1
    BY <1>1, <1>3, <1>4 DEF NoHits
  <1>5. CASE n = 2
    <2>1. f[1].hits
      BY <1>5 DEF OnPath
    <2>2. f2[1] = f[1] /\ n2 = 1
      BY <1>1, <1>5 DEF MoveCloses, Popped
    <2>3. QED
      BY <1>1, <1>3, <2>1, <2>2 DEF NoHits, Past
  <1>6. QED
    BY <1>1, <1>4, <1>5

LEMMA PathRekeyed ==
  ASSUME NEW n \in Nat, NEW f, NEW n2 \in Nat, NEW f2, NEW key, NEW hits,
         OnPath(n, f, n), Rekeyed(n, f, n2, f2, key, hits)
  PROVE  n2 = n /\ OnPath(n2, f2, n2) /\ f2[n].key = key /\ f2[n].hits = hits
  <1>1. n2 = n /\ f2[n].kind = f[n].kind /\ f2[n].key = key /\ f2[n].hits = hits
    BY DEF Rekeyed
  <1>2. \A i \in 1 .. n : i # n => f2[i] = f[i]
    BY DEF Rekeyed
  <1>3. n \in {1, 2}
    BY DEF OnPath
  <1>4. n = 2 => f2[1] = f[1]
    BY <1>2
  <1>5. OnPath(n2, f2, n2)
    BY <1>1, <1>3, <1>4 DEF OnPath
  <1>6. QED
    BY <1>1, <1>5

LEMMA RootFollowed ==
  ASSUME NEW st, NEW n \in Nat, NEW f, NEW b, NEW st2, NEW n2 \in Nat, NEW f2,
         Move(st, n, f, b, st2, n2, f2), NEW s, Fresh(s), s.phase = "SeekRoot", st = "value", n = 0
  PROVE  Coupled(st2, n2, f2, step(s, b))
  <1>1. PICK t : t = step(s, b)
    OBVIOUS
  <1>2. /\ b = "lbrace" => t.level = 1 /\ t.phase = "ObjExpectKey"
        /\ b = "sp" => t.phase = "SeekRoot"
        /\ b \notin {"lbrace", "sp"} => t.phase = "Passthrough"
    BY <1>1, AtRoot
  <1>3. CASE MoveStays(st, n, f, b, st2) /\ n2 = n /\ f2 = f
    <2>1. (b = "sp" /\ st2 = "value") \/ (b \in {"q", "x"} /\ st2 \in {"text", "scalar"})
      BY <1>3 DEF MoveStays
    <2>2. QED
      BY <1>1, <1>2, <1>3, <2>1 DEF Coupled, NoHits
  <1>4. CASE MoveOpens(st, n, f, b, st2, n2, f2)
    <2>1. b \in {"lbrace", "["} /\ Pushed(n, f, n2, f2, b) /\ (b = "lbrace" => st2 = "first")
      BY <1>4 DEF MoveOpens
    <2>2. n2 = 1 /\ f2[1].kind = b /\ ~f2[1].hits
      <3>1. f2[n2].kind = b /\ ~f2[n2].hits /\ n2 = n + 1
        BY <2>1 DEF Pushed
      <3>2. n2 = 1
        BY <3>1
      <3>3. QED
        BY <3>1, <3>2
    <2>3. QED
      BY <1>1, <1>2, <2>1, <2>2 DEF Coupled, NoHits, Unkeyed, OnPath
  <1>5. ~MoveCloses(st, n, f, b, st2, n2, f2) /\ ~MoveKeys(st, n, f, b, st2, n2, f2)
    BY DEF MoveCloses, MoveKeys
  <1>6. QED
    BY <1>3, <1>4, <1>5 DEF Move

LEMMA ExpectKeyFollowed ==
  ASSUME NEW st, NEW n \in Nat, NEW f, NEW b, NEW st2, NEW n2 \in Nat, NEW f2,
         Move(st, n, f, b, st2, n2, f2), NEW s, Fresh(s), s.phase = "ObjExpectKey",
         Unkeyed(n, f, s.level), st \in {"first", "key"}
  PROVE  Coupled(st2, n2, f2, step(s, b))
  <1>1. PICK t : t = step(s, b)
    OBVIOUS
  <1>2. /\ t.level = s.level
        /\ b = "q" => t.key_buf = <<>> /\ ~t.key_esc /\ t.phase = "ObjReadKey"
        /\ b = "sp" => t.phase = "ObjExpectKey"
        /\ b \notin {"q", "sp"} => t.phase = "Passthrough"
    BY <1>1, AtExpectKey
  <1>3. OnPath(n, f, n) /\ s.level = n /\ n \in {1, 2} /\ ~f[n].hits
    BY DEF Unkeyed, OnPath
  <1>4. CASE MoveStays(st, n, f, b, st2) /\ n2 = n /\ f2 = f
    <2>1. b = "sp" /\ st2 = st
      BY <1>4 DEF MoveStays
    <2>2. QED
      BY <1>1, <1>2, <1>4, <2>1 DEF Coupled
  <1>5. CASE MoveCloses(st, n, f, b, st2, n2, f2)
    <2>1. NoHits(st2, n2, f2) /\ b = "rbrace"
      BY <1>3, <1>5, PathCloses
    <2>2. QED
      BY <1>1, <1>2, <2>1 DEF Coupled
  <1>6. CASE MoveKeys(st, n, f, b, st2, n2, f2)
    <2>1. b = "q" /\ st2 = "key_text" /\ Rekeyed(n, f, n2, f2, "empty", f[n].hits)
      BY <1>6 DEF MoveKeys, KeyByte
    <2>2. Unkeyed(n2, f2, n2) /\ n2 = n /\ f2[n2].key = "empty"
      <3>1. n2 = n /\ OnPath(n2, f2, n2) /\ f2[n].key = "empty" /\ f2[n].hits = f[n].hits
        <4>1. PICK h : h = f[n].hits
          OBVIOUS
        <4>2. Rekeyed(n, f, n2, f2, "empty", h) /\ OnPath(n, f, n)
          BY <1>3, <2>1, <4>1
        <4>3. n2 = n /\ OnPath(n2, f2, n2) /\ f2[n].key = "empty" /\ f2[n].hits = h
          BY ONLY n \in Nat, n2 \in Nat, <4>2, PathRekeyed
        <4>4. QED
          BY <4>1, <4>3
      <3>2. QED
        BY <1>3, <3>1 DEF Unkeyed
    <2>3. ReadingKey(st2, f2[n2].key, t)
      <3>1. t.key_buf = <<>> /\ ~t.key_esc
        BY <1>2, <2>1
      <3>2. <<>> \in Seq(JsonBytes)
        OBVIOUS
      <3>3. QED
        BY <2>1, <2>2, <3>1, <3>2 DEF ReadingKey, KeyRead
    <2>4. QED
      BY <1>1, <1>2, <1>3, <2>1, <2>2, <2>3 DEF Coupled
  <1>7. ~MoveOpens(st, n, f, b, st2, n2, f2)
    BY DEF MoveOpens
  <1>8. QED
    BY <1>4, <1>5, <1>6, <1>7 DEF Move

LEMMA ExpectCommaFollowed ==
  ASSUME NEW st, NEW n \in Nat, NEW f, NEW b, NEW st2, NEW n2 \in Nat, NEW f2,
         Move(st, n, f, b, st2, n2, f2), NEW s, Fresh(s), s.phase = "ObjExpectComma",
         Unkeyed(n, f, s.level), st = "after"
  PROVE  Coupled(st2, n2, f2, step(s, b))
  <1>1. PICK t : t = step(s, b)
    OBVIOUS
  <1>2. /\ t.level = s.level
        /\ b = "comma" => t.phase = "ObjExpectKey"
        /\ b = "sp" => t.phase = "ObjExpectComma"
        /\ b \notin {"comma", "sp"} => t.phase = "Passthrough"
    BY <1>1, AtExpectComma
  <1>3. OnPath(n, f, n) /\ s.level = n /\ n \in {1, 2} /\ f[n].kind = "lbrace"
    BY DEF Unkeyed, OnPath
  <1>4. CASE MoveStays(st, n, f, b, st2) /\ n2 = n /\ f2 = f
    <2>1. (b = "sp" /\ st2 = st) \/ (b = "comma" /\ st2 = "key")
      BY <1>3, <1>4 DEF MoveStays
    <2>2. QED
      BY <1>1, <1>2, <1>4, <2>1 DEF Coupled
  <1>5. CASE MoveCloses(st, n, f, b, st2, n2, f2)
    <2>1. NoHits(st2, n2, f2) /\ b = "rbrace"
      BY <1>3, <1>5, PathCloses
    <2>2. QED
      BY <1>1, <1>2, <2>1 DEF Coupled
  <1>6. ~MoveOpens(st, n, f, b, st2, n2, f2) /\ ~MoveKeys(st, n, f, b, st2, n2, f2)
    BY DEF MoveOpens, MoveKeys, KeyByte
  <1>7. QED
    BY <1>4, <1>5, <1>6 DEF Move

LEMMA ExpectColonFollowed ==
  ASSUME NEW st, NEW n \in Nat, NEW f, NEW b, NEW st2, NEW n2 \in Nat, NEW f2,
         Move(st, n, f, b, st2, n2, f2), NEW s, Fresh(s), s.phase = "ObjExpectColon",
         HasKey(n, f, s), st = "colon"
  PROVE  Coupled(st2, n2, f2, step(s, b))
  <1>1. PICK t : t = step(s, b)
    OBVIOUS
  <1>2. /\ t.level = s.level /\ t.key_is_hits = s.key_is_hits
        /\ b = ":" => t.phase = "ObjExpectValue"
        /\ b = "sp" => t.phase = "ObjExpectColon"
    BY <1>1, AtExpectColon
  <1>3. MoveStays(st, n, f, b, st2) /\ n2 = n /\ f2 = f
    BY DEF Move, MoveOpens, MoveCloses, MoveKeys, KeyByte
  <1>4. (b = "sp" /\ st2 = "colon") \/ (b = ":" /\ st2 = "value")
    BY <1>3 DEF MoveStays
  <1>5. HasKey(n2, f2, t)
    BY <1>2, <1>3 DEF HasKey
  <1>6. QED
    BY <1>1, <1>2, <1>4, <1>5 DEF Coupled

LEMMA PassthroughFollowed ==
  ASSUME NEW st, NEW n \in Nat, NEW f, NEW b, NEW st2, NEW n2 \in Nat, NEW f2, WellNested(st, n, f),
         Move(st, n, f, b, st2, n2, f2), NEW s, Fresh(s), s.phase = "Passthrough", NoHits(st, n, f)
  PROVE  Coupled(st2, n2, f2, step(s, b))
  BY NoHitsStays, AtPassthrough DEF Coupled

LEMMA AppendIsOne ==
  ASSUME NEW S, NEW raw \in Seq(S), NEW b \in S, NEW c
  PROVE  Append(raw, b) = <<c>> <=> raw = <<>> /\ b = c
  <1>1. ASSUME Append(raw, b) = <<c>>
        PROVE  raw = <<>> /\ b = c
    <2>1. Len(raw) \in Nat /\ Len(Append(raw, b)) = Len(raw) + 1 /\ Append(raw, b)[Len(raw) + 1] = b
      OBVIOUS
    <2>2. Len(<<c>>) = 1 /\ <<c>>[1] = c
      OBVIOUS
    <2>3. Len(raw) = 0
      BY <1>1, <2>1, <2>2
    <2>4. QED
      BY <1>1, <2>1, <2>2, <2>3, EmptySeq
  <1>2. ASSUME raw = <<>>, b = c
        PROVE  Append(raw, b) = <<c>>
    BY <1>2, PutOut
  <1>3. QED
    BY <1>1, <1>2

LEMMA AppendIsTwo ==
  ASSUME NEW S, NEW raw \in Seq(S), NEW b \in S, NEW c, NEW d
  PROVE  Append(raw, b) = <<c, d>> <=> raw = <<c>> /\ b = d
  <1>1. ASSUME Append(raw, b) = <<c, d>>
        PROVE  raw = <<c>> /\ b = d
    <2>1. /\ Len(raw) \in Nat /\ Len(Append(raw, b)) = Len(raw) + 1 /\ Append(raw, b)[Len(raw) + 1] = b
          /\ \A k \in 1 .. Len(raw) : Append(raw, b)[k] = raw[k]
      OBVIOUS
    <2>2. Len(<<c, d>>) = 2 /\ <<c, d>>[1] = c /\ <<c, d>>[2] = d
      OBVIOUS
    <2>3. Len(raw) = 1
      <3>1. PICK m \in Nat : m = Len(raw)
        BY <2>1
      <3>2. PICK l : l = Len(Append(raw, b))
        OBVIOUS
      <3>3. l = 2
        BY <1>1, <2>2, <3>2
      <3>4. l = m + 1
        BY <2>1, <3>1, <3>2
      <3>5. m = 1
        BY ONLY m \in Nat, <3>3, <3>4
      <3>6. QED
        BY <3>1, <3>5
    <2>4. b = d /\ raw[1] = c
      BY <1>1, <2>1, <2>2, <2>3
    <2>5. raw[1] \in S
      <3>1. 1 \in 1 .. Len(raw)
        BY <2>3
      <3>2. QED
        BY <3>1, ElementOfSeq
    <2>6. PICK one : one = <<raw[1]>>
      OBVIOUS
    <2>7. one \in Seq(S) /\ Len(one) = 1 /\ one[1] = raw[1]
      BY <2>5, <2>6
    <2>8. Len(raw) = Len(one) /\ \A k \in 1 .. Len(raw) : raw[k] = one[k]
      BY <2>3, <2>7
    <2>9. raw = one
      BY ONLY raw \in Seq(S), <2>7, <2>8, SeqEqual
    <2>10. QED
      BY <2>4, <2>6, <2>9
  <1>2. ASSUME raw = <<c>>, b = d
        PROVE  Append(raw, b) = <<c, d>>
    BY <1>2, AppendPair
  <1>3. QED
    BY <1>1, <1>2

\* One more byte of a key.
LEMMA RawGrows ==
  ASSUME NEW raw \in Seq(JsonBytes), NEW b \in JsonBytes, NEW r2, r2 = Append(raw, b)
  PROVE  /\ r2 \in Seq(JsonBytes) /\ Len(raw) \in Nat /\ Len(r2) = Len(raw) + 1 /\ r2 # <<>>
         /\ r2 = <<"\\">> <=> raw = <<>> /\ b = "\\"
         /\ decoded_key_is_hits(r2) <=> b = "h" /\ (raw = <<>> \/ raw = <<"\\">>)
         /\ Len(raw) = 0 <=> raw = <<>>
  <1>1. PICK S : S = JsonBytes
    OBVIOUS
  <1>2. raw \in Seq(S) /\ b \in S
    BY <1>1
  <1>3. r2 \in Seq(S) /\ Len(raw) \in Nat /\ Len(r2) = Len(raw) + 1 /\ r2 # <<>>
    BY ONLY <1>2, r2 = Append(raw, b), AppendProperties
  <1>4. r2 = <<"\\">> <=> raw = <<>> /\ b = "\\"
    BY <1>2, AppendIsOne
  <1>5. r2 = <<"h">> <=> raw = <<>> /\ b = "h"
    BY <1>2, AppendIsOne
  <1>6. r2 = <<"\\", "h">> <=> raw = <<"\\">> /\ b = "h"
    BY <1>2, AppendIsTwo
  <1>7. Len(raw) = 0 <=> raw = <<>>
    BY <1>2, EmptySeq
  <1>8. decoded_key_is_hits(r2) <=> r2 = <<"h">> \/ r2 = <<"\\", "h">>
    BY DEF decoded_key_is_hits
  <1>9. QED
    BY <1>1, <1>3, <1>4, <1>5, <1>6, <1>7, <1>8

LEMMA OneByteNotHits ==
  ~decoded_key_is_hits(<<"\\">>) /\ ~decoded_key_is_hits(<<>>) /\ Len(<<"\\">>) = 1 /\ Len(<<"h">>) = 1 /\ Len(<<"\\", "h">>) = 2
  BY DEF decoded_key_is_hits

LEMMA TextRead ==
  ASSUME NEW key \in {"empty", "hits", "other"}, NEW raw, KeyRead("key_text", key, raw)
  PROVE  (key = "empty" <=> raw = <<>>) /\ raw # <<"\\">> /\ (key = "hits" <=> decoded_key_is_hits(raw))
  <1>1. PICK esc : esc = <<"\\">>
    OBVIOUS
  <1>2. PICK nil : nil = <<>>
    OBVIOUS
  <1>3. ~decoded_key_is_hits(esc) /\ ~decoded_key_is_hits(nil) /\ esc # nil
    BY <1>1, <1>2, OneByteNotHits
  <1>4. \/ key = "empty" /\ raw = nil
        \/ key = "hits" /\ decoded_key_is_hits(raw)
        \/ key = "other" /\ raw # nil /\ raw # esc /\ ~decoded_key_is_hits(raw)
    BY <1>1, <1>2 DEF KeyRead
  <1>5. (key = "empty" <=> raw = nil) /\ raw # esc /\ (key = "hits" <=> decoded_key_is_hits(raw))
    BY <1>3, <1>4
  <1>6. QED
    BY <1>1, <1>2, <1>5

LEMMA EscapeRead ==
  ASSUME NEW key \in {"empty", "hits", "other"}, NEW raw, KeyRead("key_escape", key, raw)
  PROVE  (key = "empty" <=> raw = <<"\\">>) /\ raw # <<>>
  <1>1. PICK esc : esc = <<"\\">>
    OBVIOUS
  <1>2. PICK nil : nil = <<>>
    OBVIOUS
  <1>3. Len(esc) = 1 /\ Len(nil) = 0
    BY <1>1, <1>2
  <1>4. IF key = "empty" THEN raw = esc ELSE Len(raw) >= 2
    BY <1>1 DEF KeyRead
  <1>5. (key = "empty" <=> raw = esc) /\ raw # nil
    <2>1. PICK l : l = Len(raw)
      OBVIOUS
    <2>2. CASE key = "empty"
      BY <1>3, <1>4, <2>2
    <2>3. CASE key # "empty"
      <3>1. l >= 2
        BY <1>4, <2>1, <2>3
      <3>2. l # 1 /\ l # 0
        BY <3>1
      <3>3. QED
        BY <1>3, <2>1, <2>3, <3>2, Zenon
    <2>4. QED
      BY <2>2, <2>3
  <1>6. QED
    BY <1>1, <1>2, <1>5

LEMMA KeyGrows ==
  ASSUME NEW st, NEW b \in JsonBytes, KeyByte(st, b), NEW key \in {"empty", "hits", "other"}, NEW raw \in Seq(JsonBytes),
         KeyRead(st, key, raw), NEW key2, key2 = IF key = "empty" /\ b = "h" THEN "hits" ELSE "other"
  PROVE  KeyRead("key_text", key2, Append(raw, b))
  <1>1. PICK r2 : r2 = Append(raw, b)
    OBVIOUS
  <1>2. /\ Len(raw) \in Nat /\ Len(r2) = Len(raw) + 1 /\ r2 # <<>>
        /\ r2 = <<"\\">> <=> raw = <<>> /\ b = "\\"
        /\ decoded_key_is_hits(r2) <=> b = "h" /\ (raw = <<>> \/ raw = <<"\\">>)
        /\ Len(raw) = 0 <=> raw = <<>>
    BY <1>1, RawGrows
  <1>3. CASE st = "key_text"
    <2>1. b \in {"h", "x"}
      BY <1>3 DEF KeyByte
    <2>2. (key = "empty" <=> raw = <<>>) /\ raw # <<"\\">>
      BY <1>3, TextRead
    <2>3. QED
      BY <1>1, <1>2, <2>1, <2>2 DEF KeyRead
  <1>4. CASE st = "key_escape"
    <2>1. (key = "empty" <=> raw = <<"\\">>) /\ raw # <<>>
      BY <1>4, EscapeRead
    <2>2. QED
      BY <1>1, <1>2, <2>1 DEF KeyRead
  <1>5. QED
    BY <1>3, <1>4 DEF KeyByte

LEMMA KeyEscapes ==
  ASSUME NEW key \in {"empty", "hits", "other"}, NEW raw \in Seq(JsonBytes), KeyRead("key_text", key, raw)
  PROVE  KeyRead("key_escape", key, Append(raw, "\\"))
  <1>1. PICK r2 : r2 = Append(raw, "\\")
    OBVIOUS
  <1>2. /\ Len(raw) \in Nat /\ Len(r2) = Len(raw) + 1
        /\ r2 = <<"\\">> <=> raw = <<>>
        /\ Len(raw) = 0 <=> raw = <<>>
    BY <1>1, RawGrows DEF JsonBytes
  <1>3. key = "empty" <=> raw = <<>>
    BY TextRead
  <1>4. IF key = "empty" THEN r2 = <<"\\">> ELSE Len(r2) >= 2
    BY <1>2, <1>3
  <1>5. QED
    BY <1>1, <1>4 DEF KeyRead

LEMMA ReadKeyFollowed ==
  ASSUME NEW st, NEW n \in Nat, NEW f, NEW b, NEW st2, NEW n2 \in Nat, NEW f2, WellNested(st, n, f),
         Move(st, n, f, b, st2, n2, f2), NEW s, Fresh(s), s.phase = "ObjReadKey",
         Unkeyed(n, f, s.level), ReadingKey(st, f[n].key, s)
  PROVE  Coupled(st2, n2, f2, step(s, b))
  <1>1. PICK t : t = step(s, b)
    OBVIOUS
  <1>2. /\ t.level = s.level
        /\ ~s.key_esc /\ b = "q" => (t.key_is_hits <=> decoded_key_is_hits(s.key_buf)) /\ t.phase = "ObjExpectColon"
        /\ s.key_esc \/ b # "q" => /\ t.phase = "ObjReadKey" /\ t.key_buf = Append(s.key_buf, b)
                                   /\ t.key_esc <=> ~s.key_esc /\ b = "\\"
    BY <1>1, AtReadKey
  <1>3. OnPath(n, f, n) /\ s.level = n /\ n \in {1, 2} /\ ~f[n].hits
    BY DEF Unkeyed, OnPath
  <1>4. s.key_buf \in Seq(JsonBytes) /\ st \in {"key_text", "key_escape"} /\ (s.key_esc <=> st = "key_escape") /\ KeyRead(st, f[n].key, s.key_buf)
    BY DEF ReadingKey
  <1>5. f[n].key \in {"empty", "hits", "other"}
    <2>1. Framed(n, f) /\ n \in 1 .. n
      BY <1>3 DEF WellNested
    <2>2. QED
      BY <2>1, FramedAt
  <1>6. CASE MoveStays(st, n, f, b, st2) /\ n2 = n /\ f2 = f
    <2>1. st = "key_text" /\ b = "\\" /\ st2 = "key_escape"
      BY <1>4, <1>6 DEF MoveStays
    <2>2. KeyRead("key_escape", f[n].key, Append(s.key_buf, "\\"))
      BY <1>4, <1>5, <2>1, KeyEscapes
    <2>3. Append(s.key_buf, "\\") \in Seq(JsonBytes)
      BY <1>4, RawGrows DEF JsonBytes
    <2>4. t.phase = "ObjReadKey" /\ t.key_buf = Append(s.key_buf, "\\") /\ t.key_esc
      BY <1>2, <1>4, <2>1
    <2>5. ReadingKey(st2, f2[n2].key, t)
      BY <1>6, <2>1, <2>2, <2>3, <2>4 DEF ReadingKey
    <2>6. QED
      BY <1>1, <1>2, <1>6, <2>4, <2>5 DEF Coupled
  <1>7. CASE MoveKeys(st, n, f, b, st2, n2, f2)
    <2>1. CASE KeyByte(st, b)
      <3>1. PICK key2 : key2 = IF f[n].key = "empty" /\ b = "h" THEN "hits" ELSE "other"
        OBVIOUS
      <3>2. PICK h : h = f[n].hits
        OBVIOUS
      <3>3. st2 = "key_text" /\ Rekeyed(n, f, n2, f2, key2, h)
        <4>1. st \notin {"first", "key"} /\ ~(st = "key_text" /\ b = "q") /\ n <= 2
          BY <1>3, <1>4, <2>1 DEF KeyByte
        <4>2. st2 = "key_text" /\ Rekeyed(n, f, n2, f2, IF f[n].key = "empty" /\ b = "h" /\ n <= 2 THEN "hits" ELSE "other", f[n].hits)
          BY <1>7, <4>1 DEF MoveKeys
        <4>3. (IF f[n].key = "empty" /\ b = "h" /\ n <= 2 THEN "hits" ELSE "other") = key2
          BY <3>1, <4>1
        <4>4. QED
          BY <3>2, <4>2, <4>3
      <3>4. n2 = n /\ OnPath(n2, f2, n2) /\ f2[n].key = key2 /\ f2[n].hits = h
        BY ONLY n \in Nat, n2 \in Nat, <1>3, <3>3, PathRekeyed
      <3>5. b \in JsonBytes
        BY <2>1 DEF KeyByte, JsonBytes
      <3>6. KeyRead("key_text", key2, Append(s.key_buf, b))
        BY <1>4, <1>5, <2>1, <3>1, <3>5, KeyGrows
      <3>7. Append(s.key_buf, b) \in Seq(JsonBytes)
        BY <1>4, <3>5, RawGrows
      <3>8. t.phase = "ObjReadKey" /\ t.key_buf = Append(s.key_buf, b) /\ ~t.key_esc
        BY <1>2, <1>4, <2>1 DEF KeyByte
      <3>9. ReadingKey(st2, f2[n2].key, t)
        BY <3>3, <3>4, <3>6, <3>7, <3>8 DEF ReadingKey
      <3>10. Unkeyed(n2, f2, t.level)
        BY <1>2, <1>3, <3>2, <3>4 DEF Unkeyed
      <3>11. QED
        BY <1>1, <3>8, <3>9, <3>10 DEF Coupled
    <2>2. CASE ~KeyByte(st, b)
      <3>1. PICK h : h = (f[n].hits \/ f[n].key = "hits")
        OBVIOUS
      <3>2. st = "key_text" /\ b = "q" /\ st2 = "colon" /\ Rekeyed(n, f, n2, f2, f[n].key, h)
        BY <1>4, <1>7, <2>2, <3>1 DEF MoveKeys
      <3>3. PICK key : key = f[n].key
        OBVIOUS
      <3>4. Rekeyed(n, f, n2, f2, key, h)
        BY <3>2, <3>3
      <3>5. n2 = n /\ OnPath(n2, f2, n2) /\ f2[n].key = key /\ f2[n].hits = h
        BY ONLY n \in Nat, n2 \in Nat, <1>3, <3>4, PathRekeyed
      <3>6. decoded_key_is_hits(s.key_buf) <=> key = "hits"
        BY <1>4, <1>5, <3>2, <3>3, TextRead
      <3>7. t.phase = "ObjExpectColon" /\ (t.key_is_hits <=> key = "hits")
        BY <1>2, <1>4, <3>2, <3>6
      <3>8. h <=> key = "hits"
        BY <1>3, <3>1, <3>3
      <3>9. HasKey(n2, f2, t)
        BY <1>2, <1>3, <3>5, <3>7, <3>8 DEF HasKey
      <3>10. QED
        BY <1>1, <3>2, <3>7, <3>9 DEF Coupled
    <2>3. QED
      BY <2>1, <2>2
  <1>8. ~MoveOpens(st, n, f, b, st2, n2, f2) /\ ~MoveCloses(st, n, f, b, st2, n2, f2)
    BY <1>4 DEF MoveOpens, MoveCloses
  <1>9. QED
    BY <1>6, <1>7, <1>8 DEF Move

\* The moves of a value that begins.
LEMMA ValueBegins ==
  ASSUME NEW st \in {"value", "elem"}, NEW n \in Nat, NEW f, NEW b, NEW st2, NEW n2 \in Nat, NEW f2,
         Move(st, n, f, b, st2, n2, f2), b \notin {"sp", "]", "rbrace"}
  PROVE  \/ n2 = n /\ f2 = f /\ ((b = "q" /\ st2 = "text") \/ (b = "x" /\ st2 = "scalar"))
         \/ b \in {"lbrace", "["} /\ st2 \in {"first", "elem"} /\ Pushed(n, f, n2, f2, b)
  <1>1. CASE MoveStays(st, n, f, b, st2) /\ n2 = n /\ f2 = f
    BY <1>1 DEF MoveStays
  <1>2. CASE MoveOpens(st, n, f, b, st2, n2, f2)
    BY <1>2 DEF MoveOpens
  <1>3. ~MoveCloses(st, n, f, b, st2, n2, f2) /\ ~MoveKeys(st, n, f, b, st2, n2, f2)
    BY DEF MoveCloses, MoveKeys, KeyByte
  <1>4. QED
    BY <1>1, <1>2, <1>3 DEF Move

LEMMA PathPushed ==
  ASSUME NEW n \in Nat, NEW f, NEW n2 \in Nat, NEW f2, NEW b, n > 0, Pushed(n, f, n2, f2, b)
  PROVE  n2 = n + 1 /\ f2[1] = f[1] /\ f2[n] = f[n] /\ f2[n2].kind = b /\ f2[n2].hits = FALSE
  <1>1. \A i \in 1 .. n : f2[i] = f[i]
    BY DEF Pushed
  <1>2. 1 \in 1 .. n /\ n \in 1 .. n
    OBVIOUS
  <1>3. f2[1] = f[1] /\ f2[n] = f[n]
    BY <1>1, <1>2
  <1>4. QED
    BY <1>3 DEF Pushed

\* The value of some other key.
LEMMA OtherValueFollowed ==
  ASSUME NEW n \in Nat, NEW f, NEW b, NEW st2, NEW n2 \in Nat, NEW f2,
         Move("value", n, f, b, st2, n2, f2), OnPath(n, f, n), f[n].key # "hits", ~f[n].hits, b # "sp",
         NEW t, t.phase = "SkipValue", t.level = n, t.skip = begin(b)
  PROVE  Coupled(st2, n2, f2, t)
  <1>1. n \in {1, 2}
    BY DEF OnPath
  <1>2. b \notin {"sp", "]", "rbrace"}
    BY DEF Move, MoveStays, MoveOpens, MoveCloses, MoveKeys, KeyByte
  <1>3. /\ t.skip \in Track /\ ~t.skip.esc /\ (t.skip.in_str <=> b = "q")
        /\ t.skip.depth = IF b \in {"lbrace", "["} THEN 1 ELSE 0
    BY Begins
  <1>4. CASE n2 = n /\ f2 = f /\ ((b = "q" /\ st2 = "text") \/ (b = "x" /\ st2 = "scalar"))
    <2>1. Skipping(st2, n2, f2, t)
      BY <1>3, <1>4 DEF Skipping, Inside
    <2>2. QED
      BY <2>1 DEF Coupled
  <1>5. CASE b \in {"lbrace", "["} /\ st2 \in {"first", "elem"} /\ Pushed(n, f, n2, f2, b)
    <2>1. n2 = n + 1 /\ f2[1] = f[1] /\ f2[n] = f[n] /\ f2[n2].kind = b /\ f2[n2].hits = FALSE
      <3>1. n > 0 /\ Pushed(n, f, n2, f2, b)
        BY <1>1, <1>5
      <3>2. QED
        BY ONLY n \in Nat, n2 \in Nat, <3>1, PathPushed
    <2>2. OnPath(n2, f2, n)
      BY <1>1, <2>1 DEF OnPath
    <2>3. Inside(st2, n2, n, t.skip)
      BY <1>3, <1>5, <2>1 DEF Inside
    <2>4. Skipping(st2, n2, f2, t)
      BY <1>3, <1>5, <2>1, <2>2, <2>3 DEF Skipping
    <2>5. QED
      BY <2>4 DEF Coupled
  <1>6. QED
    BY <1>2, <1>4, <1>5, ValueBegins

\* The value of the key hits.
LEMMA HitsValueFollowed ==
  ASSUME NEW n \in Nat, NEW f, NEW b, NEW st2, NEW n2 \in Nat, NEW f2,
         Move("value", n, f, b, st2, n2, f2), OnPath(n, f, n), f[n].key = "hits", f[n].hits, b # "sp",
         NEW t,
         n = 1 /\ b = "lbrace" => t.level = 2 /\ t.phase = "ObjExpectKey",
         n = 2 /\ b = "[" => t.phase = "ArrExpectElem",
         ~(n = 1 /\ b = "lbrace") /\ ~(n = 2 /\ b = "[") => t.phase = "Passthrough"
  PROVE  Coupled(st2, n2, f2, t)
  <1>1. n \in {1, 2} /\ f[n].kind = "lbrace" /\ f[1].kind = "lbrace" /\ f[1].key = "hits" /\ f[1].hits
    BY DEF OnPath
  <1>2. b \notin {"sp", "]", "rbrace"}
    BY DEF Move, MoveStays, MoveOpens, MoveCloses, MoveKeys, KeyByte
  <1>3. CASE n2 = n /\ f2 = f /\ ((b = "q" /\ st2 = "text") \/ (b = "x" /\ st2 = "scalar"))
    <2>1. NoHits(st2, n2, f2)
      BY <1>1, <1>3 DEF NoHits, NoHitsIn, Past
    <2>2. QED
      BY <1>3, <2>1 DEF Coupled
  <1>4. CASE b \in {"lbrace", "["} /\ st2 \in {"first", "elem"} /\ Pushed(n, f, n2, f2, b)
    <2>1. n2 = n + 1 /\ f2[1] = f[1] /\ f2[n] = f[n] /\ f2[n2].kind = b /\ f2[n2].hits = FALSE
      <3>1. n > 0 /\ Pushed(n, f, n2, f2, b)
        BY <1>1, <1>4
      <3>2. QED
        BY ONLY n \in Nat, n2 \in Nat, <3>1, PathPushed
    <2>2. CASE n = 1
      <3>1. n2 = 2 /\ f2[2].kind = b /\ ~f2[2].hits
        BY <2>1, <2>2
      <3>2. CASE b = "lbrace"
        <4>1. Unkeyed(n2, f2, t.level)
          BY <1>1, <2>1, <2>2, <3>1, <3>2 DEF Unkeyed, OnPath
        <4>2. st2 = "first"
          BY <3>2 DEF Move, MoveStays, MoveOpens, MoveCloses, MoveKeys, KeyByte
        <4>3. QED
          BY <2>2, <3>2, <4>1, <4>2 DEF Coupled
      <3>3. CASE b = "["
        <4>1. NoHits(st2, n2, f2)
          BY <1>1, <2>1, <3>1, <3>3 DEF NoHits, NoHitsIn, Past
        <4>2. QED
          BY <2>2, <3>3, <4>1 DEF Coupled
      <3>4. QED
        BY <1>4, <3>2, <3>3
    <2>3. CASE n = 2
      <3>1. n2 = 3 /\ f2[3].kind = b /\ f2[2] = f[2]
        BY <2>1, <2>3
      <3>2. CASE b = "["
        <4>1. InArray(n2, f2)
          BY <1>1, <2>1, <2>3, <3>1, <3>2 DEF InArray, OnPath
        <4>2. st2 = "elem"
          BY <3>2 DEF Move, MoveStays, MoveOpens, MoveCloses, MoveKeys, KeyByte
        <4>3. QED
          BY <2>3, <3>1, <3>2, <4>1, <4>2 DEF Coupled
      <3>3. CASE b = "lbrace"
        <4>1. NoHits(st2, n2, f2)
          BY <1>1, <2>1, <2>3, <3>1, <3>3 DEF NoHits, NoHitsIn, Past
        <4>2. QED
          BY <2>3, <3>3, <4>1 DEF Coupled
      <3>4. QED
        BY <1>4, <3>2, <3>3
    <2>4. QED
      BY <1>1, <2>2, <2>3
  <1>5. QED
    BY <1>2, <1>3, <1>4, ValueBegins

LEMMA ExpectValueFollowed ==
  ASSUME NEW st, NEW n \in Nat, NEW f, NEW b, NEW st2, NEW n2 \in Nat, NEW f2,
         Move(st, n, f, b, st2, n2, f2), NEW s, Fresh(s), s.phase = "ObjExpectValue",
         HasKey(n, f, s), st = "value"
  PROVE  Coupled(st2, n2, f2, step(s, b))
  <1>1. PICK t : t = step(s, b)
    OBVIOUS
  <1>2. /\ b = "sp" => t.phase = "ObjExpectValue" /\ t.level = s.level /\ t.key_is_hits = s.key_is_hits
        /\ b # "sp" /\ ~s.key_is_hits => t.skip = begin(b) /\ t.phase = "SkipValue" /\ t.level = s.level
        /\ b # "sp" /\ s.key_is_hits => /\ s.level = 1 /\ b = "lbrace" => t.level = 2 /\ t.phase = "ObjExpectKey"
                                        /\ s.level = 2 /\ b = "[" => t.phase = "ArrExpectElem"
                                        /\ ~(s.level = 1 /\ b = "lbrace") /\ ~(s.level = 2 /\ b = "[") => t.phase = "Passthrough"
    BY <1>1, AtExpectValue
  <1>3. OnPath(n, f, n) /\ s.level = n /\ (s.key_is_hits <=> f[n].key = "hits") /\ (f[n].hits <=> f[n].key = "hits")
    BY DEF HasKey
  <1>4. CASE b = "sp"
    <2>1. st2 = "value" /\ n2 = n /\ f2 = f
      BY <1>4 DEF Move, MoveStays, MoveOpens, MoveCloses, MoveKeys, KeyByte
    <2>2. HasKey(n2, f2, t)
      BY <1>2, <1>4, <2>1 DEF HasKey
    <2>3. QED
      BY <1>1, <1>2, <1>4, <2>1, <2>2 DEF Coupled
  <1>5. CASE b # "sp" /\ ~s.key_is_hits
    <2>1. t.phase = "SkipValue" /\ t.level = n /\ t.skip = begin(b) /\ f[n].key # "hits" /\ ~f[n].hits
      BY <1>2, <1>3, <1>5
    <2>2. QED
      BY <1>1, <1>3, <1>5, <2>1, OtherValueFollowed
  <1>6. CASE b # "sp" /\ s.key_is_hits
    <2>1. /\ f[n].key = "hits" /\ f[n].hits
          /\ n = 1 /\ b = "lbrace" => t.level = 2 /\ t.phase = "ObjExpectKey"
          /\ n = 2 /\ b = "[" => t.phase = "ArrExpectElem"
          /\ ~(n = 1 /\ b = "lbrace") /\ ~(n = 2 /\ b = "[") => t.phase = "Passthrough"
      BY <1>2, <1>3, <1>6
    <2>2. QED
      BY <1>1, <1>3, <1>6, <2>1, HitsValueFollowed
  <1>7. QED
    BY <1>4, <1>5, <1>6

\* The frames up to l are as they were, so the path is.
LEMMA PathKept ==
  ASSUME NEW n \in Nat, NEW f, NEW n2 \in Nat, NEW f2, NEW l \in {1, 2}, OnPath(n, f, l),
         n2 >= l, \A i \in 1 .. l : f2[i] = f[i]
  PROVE  OnPath(n2, f2, l) /\ f2[l] = f[l]
  <1>1. f2[1] = f[1] /\ f2[l] = f[l]
    OBVIOUS
  <1>2. QED
    BY <1>1 DEF OnPath

LEMMA SkipValueFollowed ==
  ASSUME NEW st, NEW n \in Nat, NEW f, NEW b, NEW st2, NEW n2 \in Nat, NEW f2, WellNested(st, n, f),
         Move(st, n, f, b, st2, n2, f2), NEW s, Fresh(s), s.phase = "SkipValue", Skipping(st, n, f, s)
  PROVE  Coupled(st2, n2, f2, step(s, b))
  <1>1. PICK t : t = step(s, b)
    OBVIOUS
  <1>2. PICK k : k = tracked(s.skip, b)
    OBVIOUS
  <1>3. PICK l \in {1, 2} : l = s.level
    BY DEF Skipping, OnPath
  <1>4. /\ t.level = l
        /\ ~s.skip.in_str /\ s.skip.depth = 0 =>
              /\ b = "sp" => t.phase = "ObjExpectComma"
              /\ b = "comma" => t.phase = "ObjExpectKey"
              /\ b = "rbrace" => t.phase = "Passthrough"
              /\ b \notin {"sp", "comma", "rbrace"} => t.phase = "SkipValue" /\ t.skip = s.skip
        /\ s.skip.in_str \/ s.skip.depth # 0 =>
              /\ k.depth = 0 /\ ~k.in_str => t.phase = "ObjExpectComma"
              /\ k.depth # 0 \/ k.in_str => t.phase = "SkipValue" /\ t.skip = k
    BY <1>1, <1>2, <1>3, AtSkipValue
  <1>5. OnPath(n, f, l) /\ f[l].key # "hits" /\ ~f[l].hits /\ s.skip \in Track
    BY <1>3 DEF Skipping
  <1>6. CASE ~s.skip.in_str /\ s.skip.depth = 0
    <2>1. n = l /\ st = "scalar" /\ f[n].kind = "lbrace" /\ OnPath(n, f, n)
      BY <1>3, <1>5, <1>6 DEF Skipping, OnPath
    <2>2. CASE MoveStays(st, n, f, b, st2) /\ n2 = n /\ f2 = f
      <3>1. (b = "x" /\ st2 = "scalar") \/ (b = "sp" /\ st2 = "after") \/ (b = "comma" /\ st2 = "key")
        BY <2>1, <2>2 DEF MoveStays, Ended
      <3>2. CASE b = "x" /\ st2 = "scalar"
        <4>1. t.phase = "SkipValue" /\ t.skip = s.skip
          BY <1>4, <1>6, <3>2
        <4>2. Skipping(st2, n2, f2, t)
          BY <1>4, <1>5, <1>6, <2>1, <2>2, <3>2, <4>1 DEF Skipping
        <4>3. QED
          BY <1>1, <4>1, <4>2 DEF Coupled
      <3>3. CASE b \in {"sp", "comma"}
        <4>1. Unkeyed(n2, f2, t.level)
          BY <1>4, <1>5, <2>1, <2>2 DEF Unkeyed
        <4>2. QED
          BY <1>1, <1>4, <1>6, <3>1, <3>3, <4>1 DEF Coupled
      <3>4. QED
        BY <3>1, <3>2, <3>3
    <2>3. CASE MoveCloses(st, n, f, b, st2, n2, f2)
      <3>1. NoHits(st2, n2, f2) /\ b = "rbrace"
        BY <2>1, <2>3, PathCloses
      <3>2. QED
        BY <1>1, <1>4, <1>6, <3>1 DEF Coupled
    <2>4. ~MoveOpens(st, n, f, b, st2, n2, f2) /\ ~MoveKeys(st, n, f, b, st2, n2, f2)
      BY <2>1 DEF MoveOpens, MoveKeys, KeyByte
    <2>5. QED
      BY <2>2, <2>3, <2>4 DEF Move
  <1>7. CASE s.skip.in_str \/ s.skip.depth # 0
    <2>1. Inside(st, n, l, s.skip)
      BY <1>3, <1>7 DEF Skipping
    <2>2. StillInside(st2, n2, l, f, f2, k)
      <3>1. PICK tr \in Track : tr = s.skip
        BY <1>5
      <3>2. PICK base \in Nat : base = l /\ base > 0
        OBVIOUS
      <3>3. StillInside(st2, n2, base, f, f2, tracked(tr, b))
        BY <2>1, <3>1, <3>2, InsideStep
      <3>4. QED
        BY <1>2, <3>1, <3>2, <3>3
    <2>3. \A i \in 1 .. l : f2[i] = f[i]
      BY <2>2 DEF StillInside
    <2>4. CASE k.depth = 0 /\ ~k.in_str
      <3>1. n2 = l /\ st2 = "after"
        BY <2>2, <2>4 DEF StillInside
      <3>2. OnPath(n2, f2, l) /\ f2[l] = f[l]
        BY <1>5, <2>3, <3>1, PathKept
      <3>3. t.phase = "ObjExpectComma" /\ t.level = l
        BY <1>4, <1>7, <2>4
      <3>4. Unkeyed(n2, f2, t.level)
        BY <1>5, <3>1, <3>2, <3>3 DEF Unkeyed
      <3>5. QED
        BY <1>1, <3>1, <3>3, <3>4 DEF Coupled
    <2>5. CASE k.depth # 0 \/ k.in_str
      <3>1. k \in Track /\ Inside(st2, n2, l, k)
        BY <2>2, <2>5 DEF StillInside
      <3>2. n2 >= l
        BY <3>1 DEF Track, Inside
      <3>3. OnPath(n2, f2, l) /\ f2[l] = f[l]
        BY <1>5, <2>3, <3>2, PathKept
      <3>4. t.phase = "SkipValue" /\ t.level = l /\ t.skip = k
        BY <1>4, <1>7, <2>5
      <3>5. Skipping(st2, n2, f2, t)
        <4>1. ~(~k.in_str /\ k.depth = 0)
          BY <2>5
        <4>2. QED
          BY <1>5, <3>1, <3>3, <3>4, <4>1 DEF Skipping
      <3>6. QED
        BY <1>1, <3>4, <3>5 DEF Coupled
    <2>6. QED
      BY <2>4, <2>5
  <1>8. QED
    BY <1>6, <1>7, <1>5 DEF Track

\* The array ends: there will be no more hits.
LEMMA ArrayCloses ==
  ASSUME NEW st, NEW f, NEW b, NEW st2, NEW n2 \in Nat, NEW f2,
         MoveCloses(st, 3, f, b, st2, n2, f2), InArray(3, f)
  PROVE  NoHits(st2, n2, f2) /\ b = "]"
  <1>1. 3 = n2 + 1 /\ \A i \in 1 .. n2 : f2[i] = f[i]
    BY DEF MoveCloses, Popped
  <1>2. n2 = 2
    BY <1>1
  <1>3. f2[1] = f[1] /\ f2[2] = f[2]
    BY <1>1, <1>2
  <1>4. st2 = "after"
    BY <1>2 DEF MoveCloses, Ended
  <1>5. b = "]"
    BY DEF MoveCloses, InArray
  <1>6. f[1].hits /\ f[2].hits
    BY DEF InArray, OnPath
  <1>7. NoHits(st2, n2, f2)
    BY <1>2, <1>3, <1>4, <1>6 DEF NoHits, NoHitsIn, Past
  <1>8. QED
    BY <1>5, <1>7

LEMMA ArrayKept ==
  ASSUME NEW n \in Nat, NEW f, NEW n2 \in Nat, NEW f2, InArray(n, f), n2 >= 3, \A i \in 1 .. 3 : f2[i] = f[i]
  PROVE  InArray(n2, f2)
  <1>1. f2[1] = f[1] /\ f2[2] = f[2] /\ f2[3] = f[3]
    OBVIOUS
  <1>2. QED
    BY <1>1 DEF InArray, OnPath

LEMMA ExpectElemFollowed ==
  ASSUME NEW st, NEW n \in Nat, NEW f, NEW b, NEW st2, NEW n2 \in Nat, NEW f2,
         Move(st, n, f, b, st2, n2, f2), NEW s, Fresh(s), s.phase = "ArrExpectElem",
         InArray(n, f), n = 3, st \in {"elem", "value"}
  PROVE  Coupled(st2, n2, f2, step(s, b))
  <1>1. PICK t : t = step(s, b)
    OBVIOUS
  <1>2. /\ b = "sp" => t.phase = "ArrExpectElem"
        /\ b = "]" => t.phase = "Passthrough"
        /\ b \notin {"sp", "]"} => /\ t.phase = "ArrReadElem"
                                   /\ t.elem = [kind |-> KindOf(b), depth |-> begin(b).depth, in_str |-> begin(b).in_str, esc |-> FALSE, odd |-> FALSE \/ refuses(b, begin(b).depth)]
    BY <1>1, AtExpectElem
  <1>3. CASE b = "sp"
    <2>1. st2 = st /\ n2 = n /\ f2 = f
      BY <1>3 DEF Move, MoveStays, MoveOpens, MoveCloses, MoveKeys, KeyByte
    <2>2. QED
      BY <1>1, <1>2, <1>3, <2>1 DEF Coupled
  <1>4. CASE b \in {"]", "rbrace"}
    <2>1. MoveCloses(st, 3, f, b, st2, n2, f2)
      BY <1>4 DEF Move, MoveStays, MoveOpens, MoveKeys, KeyByte
    <2>2. NoHits(st2, n2, f2) /\ b = "]"
      BY <2>1, ArrayCloses
    <2>3. QED
      BY <1>1, <1>2, <2>2 DEF Coupled
  <1>5. CASE b \notin {"sp", "]", "rbrace"}
    <2>1. PICK e : e = t.elem
      OBVIOUS
    <2>2. t.phase = "ArrReadElem" /\ e = [kind |-> KindOf(b), depth |-> begin(b).depth, in_str |-> begin(b).in_str, esc |-> FALSE, odd |-> FALSE \/ refuses(b, begin(b).depth)]
      BY <1>2, <1>5, <2>1
    <2>3. /\ begin(b).in_str \in BOOLEAN /\ (begin(b).in_str <=> b = "q")
          /\ begin(b).depth = IF b \in {"lbrace", "["} THEN 1 ELSE 0
      BY Begins DEF Track
    <2>4. e.kind = KindOf(b) /\ e.depth = (IF b \in {"lbrace", "["} THEN 1 ELSE 0)
      BY <2>2, <2>3
    <2>5. /\ ElemTrack(e) \in Track /\ ~ElemTrack(e).esc /\ (ElemTrack(e).in_str <=> b = "q")
          /\ ElemTrack(e).depth = IF b \in {"lbrace", "["} THEN 1 ELSE 0
      <3>1. e.depth = begin(b).depth /\ e.in_str = begin(b).in_str /\ e.esc = FALSE
        BY <2>2
      <3>2. begin(b).depth \in Nat
        BY <2>3
      <3>3. ElemTrack(e) \in Track /\ ElemTrack(e).depth = e.depth /\ ElemTrack(e).in_str = e.in_str /\ ElemTrack(e).esc = e.esc
        BY <2>3, <3>1, <3>2, ElemTracks
      <3>4. QED
        BY <2>3, <3>1, <3>3
    <2>6. CASE n2 = n /\ f2 = f /\ ((b = "q" /\ st2 = "text") \/ (b = "x" /\ st2 = "scalar"))
      <3>1. Reading(st2, n2, e)
        BY <2>4, <2>5, <2>6 DEF Reading, KindOf, Inside
      <3>2. QED
        BY <1>1, <2>1, <2>2, <2>6, <3>1 DEF Coupled
    <2>7. CASE b \in {"lbrace", "["} /\ st2 \in {"first", "elem"} /\ Pushed(n, f, n2, f2, b)
      <3>1. n2 = 4 /\ \A i \in 1 .. 3 : f2[i] = f[i]
        BY <2>7 DEF Pushed
      <3>2. InArray(n2, f2)
        BY <3>1, ArrayKept
      <3>3. Reading(st2, n2, e)
        BY <2>4, <2>5, <2>7, <3>1 DEF Reading, KindOf, Inside
      <3>4. QED
        BY <1>1, <2>1, <2>2, <3>2, <3>3 DEF Coupled
    <2>8. QED
      BY <1>5, <2>6, <2>7, ValueBegins
  <1>6. QED
    BY <1>3, <1>4, <1>5

LEMMA ArrCommaFollowed ==
  ASSUME NEW st \in {"after", "scalar"}, NEW n \in Nat, NEW f, NEW b, NEW st2, NEW n2 \in Nat, NEW f2,
         Move(st, n, f, b, st2, n2, f2), InArray(n, f), n = 3, b # "x", NEW t,
         b = "sp" => t.phase = "ArrExpectComma",
         b = "comma" => t.phase = "ArrExpectElem",
         b = "]" => t.phase = "Passthrough"
  PROVE  Coupled(st2, n2, f2, t) /\ b \in {"sp", "comma", "]"}
  <1>1. CASE MoveStays(st, n, f, b, st2) /\ n2 = n /\ f2 = f
    <2>1. f[n].kind = "["
      BY DEF InArray
    <2>2. (b = "sp" /\ st2 = "after") \/ (b = "comma" /\ st2 = "value")
      BY <1>1, <2>1 DEF MoveStays, Ended
    <2>3. QED
      BY <1>1, <2>2 DEF Coupled
  <1>2. CASE MoveCloses(st, n, f, b, st2, n2, f2)
    <2>1. NoHits(st2, n2, f2) /\ b = "]"
      BY <1>2, ArrayCloses
    <2>2. QED
      BY <2>1 DEF Coupled
  <1>3. ~MoveOpens(st, n, f, b, st2, n2, f2) /\ ~MoveKeys(st, n, f, b, st2, n2, f2)
    BY DEF MoveOpens, MoveKeys, KeyByte
  <1>4. QED
    BY <1>1, <1>2, <1>3 DEF Move

LEMMA ArrExpectCommaFollowed ==
  ASSUME NEW st, NEW n \in Nat, NEW f, NEW b, NEW st2, NEW n2 \in Nat, NEW f2,
         Move(st, n, f, b, st2, n2, f2), NEW s, Fresh(s), s.phase = "ArrExpectComma",
         InArray(n, f), n = 3, st = "after"
  PROVE  Coupled(st2, n2, f2, step(s, b))
  <1>1. PICK t : t = step(s, b)
    OBVIOUS
  <1>2. (b = "sp" => t.phase = "ArrExpectComma") /\ (b = "comma" => t.phase = "ArrExpectElem") /\ (b = "]" => t.phase = "Passthrough")
    BY <1>1, AtArrExpectComma
  <1>3. b # "x"
    BY DEF Move, MoveStays, MoveOpens, MoveCloses, MoveKeys, KeyByte
  <1>4. QED
    BY <1>1, <1>2, <1>3, ArrCommaFollowed

LEMMA ReadElemFollowed ==
  ASSUME NEW st, NEW n \in Nat, NEW f, NEW b, NEW st2, NEW n2 \in Nat, NEW f2, WellNested(st, n, f),
         Move(st, n, f, b, st2, n2, f2), NEW s, Fresh(s), s.phase = "ArrReadElem",
         InArray(n, f), Reading(st, n, s.elem)
  PROVE  Coupled(st2, n2, f2, step(s, b))
  <1>1. PICK t : t = step(s, b)
    OBVIOUS
  <1>2. CASE s.elem.kind = "Scalar"
    <2>1. n = 3 /\ st = "scalar"
      BY <1>2 DEF Reading
    <2>2. /\ b = "sp" => t.phase = "ArrExpectComma"
          /\ b = "comma" => t.phase = "ArrExpectElem"
          /\ b = "]" => t.phase = "Passthrough"
          /\ b \notin {"sp", "comma", "]"} => t = s
      BY <1>1, <1>2, AtScalar
    <2>3. CASE b = "x"
      <3>1. st2 = st /\ n2 = n /\ f2 = f
        BY <2>1, <2>3 DEF Move, MoveStays, MoveOpens, MoveCloses, MoveKeys, KeyByte
      <3>2. QED
        BY <1>1, <2>2, <2>3, <3>1 DEF Coupled
    <2>4. CASE b # "x"
      BY <1>1, <2>1, <2>2, <2>4, ArrCommaFollowed
    <2>5. QED
      BY <2>3, <2>4
  <1>3. CASE s.elem.kind # "Scalar"
    <2>1. PICK tr \in Track : tr = ElemTrack(s.elem)
      BY <1>3 DEF Reading
    <2>2. s.elem.kind \in {"Str", "Struct"} /\ (s.elem.kind = "Struct" <=> s.elem.depth # 0) /\ Inside(st, n, 3, tr)
      BY <1>3, <2>1 DEF Reading
    <2>3. PICK k : k = tracked(tr, b)
      OBVIOUS
    <2>4. /\ k.depth = 0 /\ ~k.in_str => t.phase = "ArrExpectComma"
          /\ k.depth # 0 \/ k.in_str => /\ t.phase = "ArrReadElem"
                                        /\ t.elem = [kind |-> s.elem.kind, depth |-> k.depth, in_str |-> k.in_str, esc |-> k.esc, odd |-> s.elem.odd \/ refuses(b, k.depth)]
      BY <1>1, <2>1, <2>2, <2>3, AtReadElem
    <2>5. StillInside(st2, n2, 3, f, f2, k)
      <3>1. PICK base \in Nat : base = 3 /\ base > 0
        OBVIOUS
      <3>2. StillInside(st2, n2, base, f, f2, tracked(tr, b))
        BY <2>2, <3>1, InsideStep
      <3>3. QED
        BY <2>3, <3>1, <3>2
    <2>6. \A i \in 1 .. 3 : f2[i] = f[i]
      BY <2>5 DEF StillInside
    <2>7. CASE k.depth = 0 /\ ~k.in_str
      <3>1. n2 = 3 /\ st2 = "after"
        BY <2>5, <2>7 DEF StillInside
      <3>2. InArray(n2, f2)
        BY <2>6, <3>1, ArrayKept
      <3>3. QED
        BY <1>1, <2>4, <2>7, <3>1, <3>2 DEF Coupled
    <2>8. CASE k.depth # 0 \/ k.in_str
      <3>1. k \in Track /\ Inside(st2, n2, 3, k)
        BY <2>5, <2>8 DEF StillInside
      <3>2. n2 >= 3
        BY <3>1 DEF Track, Inside
      <3>3. InArray(n2, f2)
        BY <2>6, <3>2, ArrayKept
      <3>4. PICK e : e = t.elem
        OBVIOUS
      <3>5. t.phase = "ArrReadElem" /\ e = [kind |-> s.elem.kind, depth |-> k.depth, in_str |-> k.in_str, esc |-> k.esc, odd |-> s.elem.odd \/ refuses(b, k.depth)]
        BY <2>4, <2>8, <3>4
      <3>6. ElemTrack(e) = k
        BY <3>1, <3>5 DEF ElemTrack, NoSkip, Track
      <3>7. k.depth # 0 <=> tr.depth # 0
        <4>1. tr.depth = 0 => tr.in_str
          BY <2>2 DEF Inside
        <4>2. /\ tr.in_str => k.depth = tr.depth
              /\ ~tr.in_str => /\ k.depth = tr.depth + (IF b \in {"lbrace", "["} THEN 1 ELSE 0) - (IF b \in {"rbrace", "]"} THEN 1 ELSE 0)
                               /\ k.in_str <=> b = "q"
          BY <2>3, TrackStep
        <4>3. PICK d \in Nat : d = tr.depth
          BY DEF Track
        <4>4. QED
          BY <2>8, <4>1, <4>2, <4>3
      <3>8. s.elem.depth = tr.depth
        BY <2>1 DEF ElemTrack, NoSkip
      <3>9. e.kind = s.elem.kind /\ e.depth = k.depth
        BY <3>5
      <3>10. Reading(st2, n2, e)
        BY <2>2, <3>1, <3>6, <3>7, <3>8, <3>9 DEF Reading
      <3>11. QED
        BY <1>1, <3>3, <3>4, <3>5, <3>10 DEF Coupled
    <2>9. QED
      BY <2>7, <2>8
  <1>4. QED
    BY <1>2, <1>3

\* Whatever byte comes, the scanner goes on knowing where in the document it is.
LEMMA Followed ==
  ASSUME NEW st, NEW n \in Nat, NEW f, NEW b, NEW st2, NEW n2 \in Nat, NEW f2, WellNested(st, n, f),
         Move(st, n, f, b, st2, n2, f2), NEW s, Fresh(s), Coupled(st, n, f, s)
  PROVE  Coupled(st2, n2, f2, step(s, b))
  <1>1. CASE s.phase = "SeekRoot" /\ st = "value" /\ n = 0
    BY <1>1, RootFollowed
  <1>2. CASE s.phase = "ObjExpectKey" /\ Unkeyed(n, f, s.level) /\ st \in {"first", "key"}
    BY <1>2, ExpectKeyFollowed
  <1>3. CASE s.phase = "ObjReadKey" /\ Unkeyed(n, f, s.level) /\ ReadingKey(st, f[n].key, s)
    BY <1>3, ReadKeyFollowed
  <1>4. CASE s.phase = "ObjExpectColon" /\ HasKey(n, f, s) /\ st = "colon"
    BY <1>4, ExpectColonFollowed
  <1>5. CASE s.phase = "ObjExpectValue" /\ HasKey(n, f, s) /\ st = "value"
    BY <1>5, ExpectValueFollowed
  <1>6. CASE s.phase = "SkipValue" /\ Skipping(st, n, f, s)
    BY <1>6, SkipValueFollowed
  <1>7. CASE s.phase = "ObjExpectComma" /\ Unkeyed(n, f, s.level) /\ st = "after"
    BY <1>7, ExpectCommaFollowed
  <1>8. CASE s.phase = "ArrExpectElem" /\ InArray(n, f) /\ n = 3 /\ st \in {"elem", "value"}
    BY <1>8, ExpectElemFollowed
  <1>9. CASE s.phase = "ArrReadElem" /\ InArray(n, f) /\ Reading(st, n, s.elem)
    BY <1>9, ReadElemFollowed
  <1>10. CASE s.phase = "ArrExpectComma" /\ InArray(n, f) /\ n = 3 /\ st = "after"
    BY <1>10, ArrExpectCommaFollowed
  <1>11. CASE s.phase = "Passthrough" /\ NoHits(st, n, f)
    BY <1>11, PassthroughFollowed
  <1>12. QED
    BY <1>1, <1>2, <1>3, <1>4, <1>5, <1>6, <1>7, <1>8, <1>9, <1>10, <1>11 DEF Coupled

-----------------------------------------------------------------------------
(* What is put out. *)

\* InHit, of a document given by its parts.
AtHit(st, n, f) ==
  /\ n >= 3
  /\ f[1].kind = "lbrace" /\ f[1].key = "hits"
  /\ f[2].kind = "lbrace" /\ f[2].key = "hits"
  /\ f[3].kind = "["
  /\ n > 3 \/ st \in {"text", "escape", "scalar"}

\* The scanner reads an element exactly where the document is in a hit.
LEMMA HitWhereRead ==
  ASSUME NEW st, NEW n \in Nat, NEW f, NEW s, Coupled(st, n, f, s)
  PROVE  AtHit(st, n, f) <=> s.phase = "ArrReadElem"
  <1>1. CASE s.phase = "SeekRoot" /\ n = 0
    BY <1>1 DEF AtHit
  <1>2. CASE s.phase # "ArrReadElem" /\ Unkeyed(n, f, s.level)
    BY <1>2 DEF AtHit, Unkeyed, OnPath
  <1>3. CASE s.phase # "ArrReadElem" /\ HasKey(n, f, s)
    BY <1>3 DEF AtHit, HasKey, OnPath
  <1>4. CASE s.phase = "SkipValue" /\ Skipping(st, n, f, s)
    <2>1. s.level \in {1, 2} /\ f[s.level].key # "hits"
      BY <1>4 DEF Skipping, OnPath
    <2>2. QED
      BY <1>4, <2>1 DEF AtHit
  <1>5. CASE s.phase # "ArrReadElem" /\ n = 3 /\ st \in {"elem", "value", "after"}
    BY <1>5 DEF AtHit
  <1>6. CASE s.phase = "ArrReadElem" /\ InArray(n, f) /\ Reading(st, n, s.elem)
    <2>1. /\ n >= 3 /\ f[1].kind = "lbrace" /\ f[1].key = "hits"
          /\ f[2].kind = "lbrace" /\ f[2].key = "hits" /\ f[3].kind = "["
      BY <1>6 DEF InArray, OnPath
    <2>2. n > 3 \/ st \in {"text", "escape", "scalar"}
      <3>1. CASE s.elem.kind = "Scalar"
        BY <1>6, <3>1 DEF Reading
      <3>2. CASE s.elem.kind # "Scalar"
        <4>1. PICK tr \in Track : tr = ElemTrack(s.elem) /\ Inside(st, n, 3, tr)
          BY <1>6, <3>2 DEF Reading
        <4>2. PICK d \in Nat : d = tr.depth
          BY DEF Track
        <4>3. QED
          BY <4>1, <4>2 DEF Inside
      <3>3. QED
        BY <3>1, <3>2
    <2>3. QED
      BY <1>6, <2>1, <2>2 DEF AtHit
  <1>7. CASE s.phase = "Passthrough" /\ NoHits(st, n, f)
    BY <1>7 DEF AtHit, NoHits, NoHitsIn, Past
  <1>8. QED
    BY <1>1, <1>2, <1>3, <1>4, <1>5, <1>6, <1>7 DEF Coupled

\* A number is an element that ends before the byte behind it.
LEMMA ScalarWhereRead ==
  ASSUME NEW st, NEW n \in Nat, NEW f, NEW s, Coupled(st, n, f, s), s.phase = "ArrReadElem"
  PROVE  s.elem.kind \in {"Scalar", "Str", "Struct"} /\ (s.elem.kind = "Scalar" <=> st = "scalar" /\ n = 3)
  <1>1. Reading(st, n, s.elem)
    BY DEF Coupled
  <1>2. CASE s.elem.kind = "Scalar"
    BY <1>1, <1>2 DEF Reading
  <1>3. CASE s.elem.kind # "Scalar"
    <2>1. s.elem.kind \in {"Str", "Struct"} /\ ElemTrack(s.elem) \in Track /\ Inside(st, n, 3, ElemTrack(s.elem))
      BY <1>1, <1>3 DEF Reading
    <2>2. PICK tr \in Track : tr = ElemTrack(s.elem) /\ Inside(st, n, 3, tr)
      BY <2>1
    <2>3. PICK d \in Nat : d = tr.depth
      BY DEF Track
    <2>4. ~(st = "scalar" /\ n = 3)
      BY <2>2, <2>3 DEF Inside
    <2>5. QED
      BY <1>3, <2>1, <2>4
  <1>4. QED
    BY <1>2, <1>3

\* What a byte puts out, by what the scanner reads before and after it.
Puts(s, b, t) ==
  /\ Looked(t)
  /\ t.phase = "ArrReadElem" => t.out = <<>>
  /\ t.phase # "ArrReadElem" /\ s.phase # "ArrReadElem" => t.out = <<b>>
  /\ t.phase # "ArrReadElem" /\ s.phase = "ArrReadElem" /\ s.elem.kind = "Scalar" => t.out = <<transform(s.elem), b>>
  /\ t.phase # "ArrReadElem" /\ s.phase = "ArrReadElem" /\ s.elem.kind # "Scalar" => t.out = <<IF s.elem.odd \/ refuses(b, 0) THEN "raw" ELSE "hit">>

LEMMA PutsOut ==
  ASSUME NEW st, NEW n \in Nat, NEW f, NEW s, Fresh(s), Coupled(st, n, f, s), NEW b
  PROVE  Puts(s, b, step(s, b))
  <1>1. PICK t : t = step(s, b)
    OBVIOUS
  <1>2. CASE s.phase = "ArrReadElem" /\ s.elem.kind = "Scalar"
    <2>1. /\ Looked(t)
          /\ b \in {"sp", "comma", "]"} => t.out = <<transform(s.elem), b>>
          /\ b = "sp" => t.phase = "ArrExpectComma"
          /\ b = "comma" => t.phase = "ArrExpectElem"
          /\ b = "]" => t.phase = "Passthrough"
          /\ b \notin {"sp", "comma", "]"} => t = s
      BY <1>1, <1>2, AtScalar
    <2>2. s.out = <<>>
      BY DEF Fresh
    <2>3. QED
      BY <1>1, <1>2, <2>1, <2>2 DEF Puts
  <1>3. CASE s.phase = "ArrReadElem" /\ s.elem.kind # "Scalar"
    <2>1. s.elem.kind \in {"Str", "Struct"}
      BY <1>3, ScalarWhereRead
    <2>2. PICK k : k = tracked(ElemTrack(s.elem), b)
      OBVIOUS
    <2>3. /\ Looked(t)
          /\ k.depth = 0 /\ ~k.in_str => t.phase = "ArrExpectComma" /\ t.out = <<IF s.elem.odd \/ refuses(b, 0) THEN "raw" ELSE "hit">>
          /\ k.depth # 0 \/ k.in_str => t.phase = "ArrReadElem" /\ t.out = <<>>
      BY <1>1, <1>3, <2>1, <2>2, AtReadElem
    <2>4. QED
      BY <1>1, <1>3, <2>3 DEF Puts
  <1>4. CASE s.phase = "ArrExpectElem"
    <2>1. /\ Looked(t)
          /\ b = "sp" => t.phase = "ArrExpectElem" /\ t.out = <<b>>
          /\ b = "]" => t.phase = "Passthrough" /\ t.out = <<b>>
          /\ b \notin {"sp", "]"} => t.phase = "ArrReadElem" /\ t.out = <<>>
      BY <1>1, <1>4, AtExpectElem
    <2>2. QED
      BY <1>1, <1>4, <2>1 DEF Puts
  <1>5. CASE s.phase \in {"SeekRoot", "ObjExpectKey", "ObjReadKey"}
    BY <1>5, AtRoot, AtExpectKey, AtReadKey DEF Puts
  <1>6. CASE s.phase = "ObjExpectColon"
    BY <1>6, AtExpectColon DEF Puts
  <1>7. CASE s.phase = "ObjExpectValue"
    BY <1>7, AtExpectValue DEF Puts
  <1>8. CASE s.phase = "SkipValue"
    BY <1>8, AtSkipValue DEF Puts
  <1>9. CASE s.phase \in {"ObjExpectComma", "ArrExpectComma", "Passthrough"}
    BY <1>9, AtExpectComma, AtArrExpectComma, AtPassthrough DEF Puts
  <1>10. QED
    BY <1>2, <1>3, <1>4, <1>5, <1>6, <1>7, <1>8, <1>9 DEF Coupled

\* The scanner marks an element as the document marks the hit.
LEMMA OddWhereRead ==
  ASSUME NEW st, NEW n \in Nat, NEW f, NEW b, NEW st2, NEW n2 \in Nat, NEW f2, Move(st, n, f, b, st2, n2, f2),
         NEW s, Fresh(s), Coupled(st, n, f, s), NEW t, t = step(s, b), Coupled(st2, n2, f2, t), t.phase = "ArrReadElem",
         s.phase = "ArrReadElem" => s.elem.odd \in BOOLEAN
  PROVE  t.elem.odd = ((s.phase = "ArrReadElem" /\ s.elem.odd) \/ b = "u" \/ n2 > 3 + RecursionLimit)
  <1>1. Reading(st2, n2, t.elem)
    BY DEF Coupled
  <1>2. CASE s.phase = "ArrReadElem" /\ s.elem.kind = "Scalar"
    <2>1. st = "scalar" /\ n = 3 /\ t = s
      BY <1>2, AtScalar, ScalarWhereRead
    <2>2. st2 = "scalar" /\ n2 = 3
      <3>1. t.elem.kind = "Scalar"
        BY <1>2, <2>1
      <3>2. QED
        BY <1>1, <3>1 DEF Reading
    <2>3. b # "u"
      BY <2>1 DEF Move, MoveStays, MoveOpens, MoveCloses, MoveKeys, KeyByte
    <2>4. QED
      BY <1>2, <2>1, <2>2, <2>3, RecursionAssumption
  <1>3. CASE s.phase = "ArrReadElem" /\ s.elem.kind # "Scalar"
    <2>1. s.elem.kind \in {"Str", "Struct"}
      BY <1>3, ScalarWhereRead
    <2>2. PICK k : k = tracked(ElemTrack(s.elem), b)
      OBVIOUS
    <2>3. PICK e : e = t.elem
      OBVIOUS
    <2>4. e = [kind |-> s.elem.kind, depth |-> k.depth, in_str |-> k.in_str, esc |-> k.esc, odd |-> s.elem.odd \/ refuses(b, k.depth)]
      BY <1>3, <2>1, <2>2, <2>3, AtReadElem
    <2>5. e.kind = s.elem.kind /\ e.depth = k.depth /\ e.odd = (s.elem.odd \/ refuses(b, k.depth))
      BY <2>4
    <2>6. ElemTrack(e) \in Track /\ Inside(st2, n2, 3, ElemTrack(e)) /\ ElemTrack(e).depth = e.depth
      BY <1>1, <2>1, <2>3, <2>5 DEF Reading, ElemTrack, NoSkip
    <2>7. e.depth \in Nat /\ n2 = 3 + e.depth
      BY <2>6 DEF Inside, Track
    <2>8. QED
      BY <1>3, <2>3, <2>5, <2>7, RecursionAssumption DEF refuses
  <1>4. CASE s.phase # "ArrReadElem"
    <2>1. s.phase = "ArrExpectElem" /\ b \notin {"sp", "]"}
      <3>1. s.phase = "ArrExpectElem"
        <4>1. CASE s.phase \in {"SeekRoot", "ObjExpectKey", "ObjReadKey"}
          BY <4>1, AtRoot, AtExpectKey, AtReadKey
        <4>2. CASE s.phase = "ObjExpectColon"
          BY <4>2, AtExpectColon
        <4>3. CASE s.phase = "ObjExpectValue"
          BY <4>3, AtExpectValue
        <4>4. CASE s.phase = "SkipValue"
          BY <4>4, AtSkipValue
        <4>5. CASE s.phase \in {"ObjExpectComma", "ArrExpectComma", "Passthrough"}
          BY <4>5, AtExpectComma, AtArrExpectComma, AtPassthrough
        <4>6. QED
          BY <1>4, <4>1, <4>2, <4>3, <4>4, <4>5 DEF Coupled
      <3>2. QED
        BY <3>1, AtExpectElem
    <2>2. PICK e : e = t.elem
      OBVIOUS
    <2>3. e = [kind |-> KindOf(b), depth |-> begin(b).depth, in_str |-> begin(b).in_str, esc |-> FALSE, odd |-> FALSE \/ refuses(b, begin(b).depth)]
      BY <2>1, <2>2, AtExpectElem
    <2>4. e.kind = KindOf(b) /\ e.depth = begin(b).depth /\ e.odd = (FALSE \/ refuses(b, begin(b).depth))
      BY <2>3
    <2>5. begin(b).depth = IF b \in {"lbrace", "["} THEN 1 ELSE 0
      BY Begins
    <2>6. n2 = 3 + e.depth
      <3>1. CASE e.kind = "Scalar"
        <4>1. n2 = 3 /\ e.depth = 0
          BY <1>1, <2>2, <2>4, <2>5, <3>1 DEF Reading, KindOf
        <4>2. QED
          BY <4>1
      <3>2. CASE e.kind # "Scalar"
        <4>1. Inside(st2, n2, 3, ElemTrack(e)) /\ ElemTrack(e).depth = e.depth
          BY <1>1, <2>2, <3>2 DEF Reading, ElemTrack, NoSkip
        <4>2. QED
          BY <4>1 DEF Inside
      <3>3. QED
        BY <3>1, <3>2
    <2>7. QED
      BY <1>4, <2>2, <2>4, <2>5, <2>6, RecursionAssumption DEF refuses
  <1>5. QED
    BY <1>2, <1>3, <1>4

-----------------------------------------------------------------------------
(* The streamed response is the buffered one. *)

\* The scanner knows where in the document it is, and has put out what was due.
ScanInv ==
  /\ DocumentOK(json)
  /\ DOMAIN scan = ScannerFields
  /\ scan.stage = "Active" => ~scan.redo /\ Coupled(json.st, Len(json.stack), json.stack, scan)
  /\ json.odd \in BOOLEAN
  /\ scan.stage = "Active" /\ scan.phase = "ArrReadElem" => scan.elem.odd = json.odd
  /\ scan.out = json.due

LEMMA UnwrittenOK ==
  ASSUME NEW due
  PROVE  LET j == [Unwritten EXCEPT !.due = due] IN
         /\ DocumentOK(j) /\ DocumentOK(Unwritten) /\ Unwritten.due = <<>>
         /\ j.due = due /\ j.odd = FALSE /\ Unwritten.odd = FALSE /\ Unwritten.st = "value" /\ Len(Unwritten.stack) = 0
  <1>1. /\ DOMAIN Unwritten = {"st", "stack", "len", "odd", "due"} /\ Unwritten.st = "value" /\ Unwritten.stack = <<>> /\ Unwritten.due = <<>>
        /\ Unwritten.odd = FALSE
    BY DEF Unwritten
  <1>2. PICK j : j = [Unwritten EXCEPT !.due = due]
    OBVIOUS
  <1>3. DOMAIN j = {"st", "stack", "len", "odd", "due"} /\ j.st = "value" /\ j.stack = <<>> /\ j.due = due /\ j.odd = FALSE
    BY <1>1, <1>2
  <1>4. <<>> \in Seq(OpenFrame) /\ Len(<<>>) = 0
    OBVIOUS
  <1>5. WellNested("value", 0, <<>>)
    BY DEF WellNested, Framed, KeyStates, ValueStates
  <1>6. DocumentOK(j) /\ DocumentOK(Unwritten)
    BY <1>1, <1>3, <1>4, <1>5 DEF DocumentOK
  <1>7. QED
    BY <1>1, <1>2, <1>3, <1>4, <1>6

LEMMA ScanInitInv ==
  ASSUME ScanInit
  PROVE  ScanInv
  <1>1. DocumentOK(json) /\ json.due = <<>> /\ json.odd = FALSE /\ json.st = "value" /\ Len(json.stack) = 0
    BY UnwrittenOK DEF ScanInit
  <1>2. DOMAIN scan = ScannerFields /\ scan.phase = "SeekRoot" /\ scan.out = <<>> /\ ~scan.redo
    BY DEF ScanInit, NewScanner, ScannerFields
  <1>3. Coupled(json.st, Len(json.stack), json.stack, scan)
    BY <1>1, <1>2 DEF Coupled
  <1>4. QED
    BY <1>1, <1>2, <1>3 DEF ScanInv

\* One byte of the document.
LEMMA FeedInv ==
  ASSUME ScanInv, feed
  PROVE  ScanInv'
  <1>1. scan.stage = "Active"
    BY DEF feed
  <1>2. PICK m \in Spaced(json) : /\ json' = [m[2] EXCEPT !.due = Due(json, m[1], m[2]), !.odd = Odd(json, m[1], m[2])]
                                  /\ scan' = step([scan EXCEPT !.out = <<>>], m[1])
    BY DEF feed
  <1>3. PICK b : b = m[1]
    OBVIOUS
  <1>4. PICK k : k = m[2]
    OBVIOUS
  <1>5. DocumentOK(json) /\ DOMAIN scan = ScannerFields /\ ~scan.redo /\ Coupled(json.st, Len(json.stack), json.stack, scan)
        /\ json.odd \in BOOLEAN /\ (scan.phase = "ArrReadElem" => scan.elem.odd = json.odd)
    BY <1>1 DEF ScanInv
  <1>6. MovesTo(json, b, k)
    BY <1>2, <1>3, <1>4, <1>5, GrammarMoves
  <1>7. PICK st : st = json.st
    OBVIOUS
  <1>8. PICK f \in Seq(OpenFrame) : f = json.stack
    BY <1>5 DEF DocumentOK
  <1>9. PICK n \in Nat : n = Len(f)
    OBVIOUS
  <1>10. PICK st2 : st2 = k.st
    OBVIOUS
  <1>11. PICK f2 \in Seq(OpenFrame) : f2 = k.stack
    BY <1>6 DEF MovesTo
  <1>12. PICK n2 \in Nat : n2 = Len(f2)
    OBVIOUS
  <1>13. WellNested(st, n, f) /\ Move(st, n, f, b, st2, n2, f2)
    BY <1>5, <1>6, <1>7, <1>8, <1>9, <1>10, <1>11, <1>12 DEF DocumentOK, MovesTo
  <1>14. WellNested(st2, n2, f2)
    BY <1>13, MoveNested
  <1>15. PICK s : s = [scan EXCEPT !.out = <<>>]
    OBVIOUS
  <1>16. /\ Fresh(s) /\ s.phase = scan.phase /\ s.level = scan.level /\ s.key_is_hits = scan.key_is_hits /\ s.key_buf = scan.key_buf
         /\ s.key_esc = scan.key_esc /\ s.skip = scan.skip /\ s.elem = scan.elem
    BY <1>1, <1>5, <1>15 DEF Fresh, ScannerFields
  <1>17. Coupled(st, n, f, scan)
    BY <1>5, <1>7, <1>8, <1>9
  <1>18. Coupled(st, n, f, s)
    BY <1>16, <1>17 DEF Coupled, ReadingKey, HasKey, Skipping
  <1>19. PICK t : t = step(s, b)
    OBVIOUS
  <1>20. Coupled(st2, n2, f2, t)
    BY <1>13, <1>16, <1>18, <1>19, Followed
  <1>21. Puts(s, b, t)
    BY <1>16, <1>18, <1>19, PutsOut
  <1>22. (InHit(json) <=> s.phase = "ArrReadElem") /\ (InHit(k) <=> t.phase = "ArrReadElem")
    <2>1. (AtHit(st, n, f) <=> s.phase = "ArrReadElem") /\ (AtHit(st2, n2, f2) <=> t.phase = "ArrReadElem")
      BY <1>18, <1>20, HitWhereRead
    <2>2. (InHit(json) <=> AtHit(st, n, f)) /\ (InHit(k) <=> AtHit(st2, n2, f2))
      BY <1>7, <1>8, <1>9, <1>10, <1>11, <1>12 DEF InHit, AtHit
    <2>3. QED
      BY <2>1, <2>2
  <1>23. s.phase = "ArrReadElem" => (s.elem.kind = "Scalar" <=> st = "scalar" /\ n = 3)
    BY <1>18, ScalarWhereRead
  <1>24. Due(json, b, k) = t.out
    <2>1. json.st = "scalar" /\ Len(json.stack) = 3 <=> st = "scalar" /\ n = 3
      BY <1>7, <1>8, <1>9
    <2>2. CASE InHit(k)
      BY <1>21, <1>22, <2>2 DEF Due, Puts
    <2>3. CASE ~InHit(k) /\ ~InHit(json)
      BY <1>21, <1>22, <2>3 DEF Due, Puts
    <2>4. CASE ~InHit(k) /\ InHit(json)
      <3>1. s.phase = "ArrReadElem" /\ t.phase # "ArrReadElem" /\ s.elem.odd = json.odd
        BY <1>5, <1>16, <1>22, <2>4
      <3>2. ~refuses(b, 0)
        <4>1. b # "u"
          <5>1. SUFFICES ASSUME b = "u" PROVE FALSE
            OBVIOUS
          <5>2. n2 = n /\ f2 = f /\ st = "text" /\ st2 = "text"
            BY <1>13, <5>1 DEF Move, MoveStays, MoveOpens, MoveCloses, MoveKeys, KeyByte
          <5>3. QED
            BY <1>7, <1>8, <1>10, <1>11, <2>4, <5>2 DEF InHit
        <4>2. QED
          BY <4>1, RecursionAssumption DEF refuses
      <3>3. PICK hit : hit = IF json.odd THEN "raw" ELSE "hit"
        OBVIOUS
      <3>4. transform(s.elem) = hit /\ (IF s.elem.odd \/ refuses(b, 0) THEN "raw" ELSE "hit") = hit
        BY <1>5, <3>1, <3>2, <3>3 DEF transform
      <3>5. t.out = IF s.elem.kind = "Scalar" THEN <<hit, b>> ELSE <<hit>>
        BY <1>21, <3>1, <3>4 DEF Puts
      <3>6. Due(json, b, k) = IF json.st = "scalar" /\ Len(json.stack) = 3 THEN <<hit, b>> ELSE <<hit>>
        BY <2>4, <3>3 DEF Due
      <3>7. QED
        BY <1>23, <2>1, <3>1, <3>5, <3>6
    <2>5. QED
      BY <2>2, <2>3, <2>4
  <1>25. PICK odd \in BOOLEAN : odd = Odd(json, b, k)
    BY DEF Odd
  <1>26. json' = [k EXCEPT !.due = t.out, !.odd = odd] /\ scan' = t
    BY <1>2, <1>3, <1>4, <1>15, <1>19, <1>24, <1>25
  <1>27. /\ json'.st = st2 /\ json'.stack = f2 /\ json'.due = t.out /\ json'.odd = odd
         /\ DOMAIN json' = {"st", "stack", "len", "odd", "due"}
    BY <1>6, <1>10, <1>11, <1>26 DEF MovesTo
  <1>28. t.phase = "ArrReadElem" => t.elem.odd = odd
    <2>1. SUFFICES ASSUME t.phase = "ArrReadElem" PROVE t.elem.odd = odd
      OBVIOUS
    <2>2. s.phase = "ArrReadElem" => s.elem.odd \in BOOLEAN /\ s.elem.odd = json.odd
      BY <1>5, <1>16
    <2>3. t.elem.odd = ((s.phase = "ArrReadElem" /\ s.elem.odd) \/ b = "u" \/ n2 > 3 + RecursionLimit)
      BY <1>13, <1>16, <1>18, <1>19, <1>20, <2>1, <2>2, OddWhereRead
    <2>4. odd = ((InHit(json) /\ json.odd) \/ b = "u" \/ n2 > 3 + RecursionLimit)
      BY <1>11, <1>12, <1>22, <1>25, <2>1 DEF Odd
    <2>5. QED
      BY <1>22, <2>2, <2>3, <2>4
  <1>29. DocumentOK(json')
    BY <1>12, <1>14, <1>27 DEF DocumentOK
  <1>30. Coupled(json'.st, Len(json'.stack), json'.stack, scan')
    BY <1>12, <1>20, <1>26, <1>27
  <1>31. DOMAIN scan' = ScannerFields /\ ~scan'.redo /\ scan'.out = json'.due
    BY <1>21, <1>26, <1>27 DEF Looked, Puts
  <1>32. json'.odd \in BOOLEAN /\ (scan'.phase = "ArrReadElem" => scan'.elem.odd = json'.odd)
    BY <1>26, <1>27, <1>28
  <1>33. QED
    BY <1>29, <1>30, <1>31, <1>32 DEF ScanInv

LEMMA ScanNextInv ==
  ASSUME ScanInv, [ScanNext]_scanVars
  PROVE  ScanInv'
  <1>1. CASE feed
    BY <1>1, FeedInv
  <1>2. CASE UpstreamEnds
    <2>1. scan' = [NewScanner EXCEPT !.stage = "Done"] /\ json' = [Unwritten EXCEPT !.due = <<>>]
      BY <1>2 DEF UpstreamEnds, finish
    <2>2. DocumentOK(json') /\ json'.due = <<>> /\ json'.odd = FALSE
      BY <2>1, UnwrittenOK
    <2>3. DOMAIN scan' = ScannerFields /\ scan'.stage = "Done" /\ scan'.out = <<>>
      BY <2>1 DEF NewScanner, ScannerFields
    <2>4. QED
      BY <2>2, <2>3 DEF ScanInv
  <1>3. CASE UpstreamFails
    <2>1. scan' = [NewScanner EXCEPT !.stage = "Done", !.out = <<"error">>] /\ json' = [Unwritten EXCEPT !.due = <<"error">>]
      BY <1>3 DEF UpstreamFails
    <2>2. DocumentOK(json') /\ json'.due = <<"error">> /\ json'.odd = FALSE
      BY <2>1, UnwrittenOK
    <2>3. DOMAIN scan' = ScannerFields /\ scan'.stage = "Done" /\ scan'.out = <<"error">>
      BY <2>1 DEF NewScanner, ScannerFields
    <2>4. QED
      BY <2>2, <2>3 DEF ScanInv
  <1>4. CASE UNCHANGED scanVars
    BY <1>4 DEF scanVars, ScanInv
  <1>5. QED
    BY <1>1, <1>2, <1>3, <1>4 DEF ScanNext

\* However deep the response nests and however long its keys are, whatever stands before,
\* in and behind its hits, and wherever the upstream ends or fails, the scanner puts out at
\* every byte what it should: each element of hits.hits that serde_json parses shaped, one
\* that it does not parse as it came, and the rest as it came (search_scan.rs step and
\* transform, search_stream.rs next_frame).
THEOREM ShapedTheorem == ScanSpec => []ShapedAsBuffered
  <1>1. ScanInit => ScanInv
    BY ScanInitInv
  <1>2. ScanInv /\ [ScanNext]_scanVars => ScanInv'
    BY ScanNextInv
  <1>3. ScanInv => ShapedAsBuffered
    BY DEF ScanInv, ShapedAsBuffered
  <1>4. QED
    BY <1>1, <1>2, <1>3, PTL DEF ScanSpec

-----------------------------------------------------------------------------
(* The lines of a bulk body. *)

\* Induction over the naturals, for a set of them.
LEMMA AllNaturals ==
  ASSUME NEW S, S \subseteq Nat, 0 \in S, \A n \in S : n + 1 \in S
  PROVE  \A n \in Nat : n \in S
  <1>1. SUFFICES ASSUME NEW m \in Nat, m \notin S
                 PROVE  FALSE
    OBVIOUS
  <1>2. PICK T : T = Nat \ S
    OBVIOUS
  <1>3. T \subseteq Nat /\ T # {}
    BY <1>1, <1>2
  <1>4. \E x \in T : \A y \in T : ~ (<<y, x>> \in OpToRel(<, Nat))
    BY <1>3, WFMin, NatLessThanWellFounded
  <1>5. PICK x \in T : \A y \in T : ~ (<<y, x>> \in OpToRel(<, Nat))
    BY <1>4
  <1>6. \A y \in T : ~(y < x)
    BY <1>3, <1>5 DEF OpToRel
  <1>7. x \in Nat /\ x # 0 /\ x \notin S
    BY <1>2
  <1>8. x - 1 \in Nat /\ x - 1 < x
    BY <1>7
  <1>9. x - 1 \in S
    BY <1>2, <1>6, <1>8
  <1>10. (x - 1) + 1 \in S
    BY <1>9
  <1>11. (x - 1) + 1 = x
    BY <1>7
  <1>12. QED
    BY <1>7, <1>10, <1>11

-----------------------------------------------------------------------------
(* Reading the body whole. *)

\* What byte k of a body does to what has been read of it.
byte_taken(body, k, b) == IF body[k] = "n" THEN take(b, line_before(body, k)) ELSE b

Reads(body, m, g) == g = [k \in 0 .. m |-> IF k = 0 THEN NoBatch ELSE byte_taken(body, k, g[k - 1])]

LEMMA ReadsOneMore ==
  ASSUME NEW body, NEW m \in Nat, NEW g, Reads(body, m, g)
  PROVE  \E h : Reads(body, m + 1, h)
  <1>1. PICK h : h = [k \in 0 .. m + 1 |-> IF k <= m THEN g[k] ELSE byte_taken(body, m + 1, g[m])]
    OBVIOUS
  <1>2. ASSUME NEW k \in 0 .. m + 1
        PROVE  h[k] = IF k = 0 THEN NoBatch ELSE byte_taken(body, k, h[k - 1])
    <2>1. CASE k = 0
      BY <1>1, <2>1 DEF Reads
    <2>2. CASE k \in 1 .. m
      <3>1. h[k] = g[k] /\ h[k - 1] = g[k - 1] /\ k # 0
        BY <1>1, <2>2
      <3>2. g[k] = byte_taken(body, k, g[k - 1])
        BY <2>2, <3>1 DEF Reads
      <3>3. QED
        BY <3>1, <3>2
    <2>3. CASE k = m + 1
      <3>1. h[k] = byte_taken(body, m + 1, g[m]) /\ h[k - 1] = g[m] /\ k # 0
        BY <1>1, <2>3
      <3>2. QED
        BY <2>3, <3>1
    <2>4. QED
      BY <2>1, <2>2, <2>3
  <1>3. Reads(body, m + 1, h)
    <2>1. PICK h2 : h2 = [k \in 0 .. m + 1 |-> IF k = 0 THEN NoBatch ELSE byte_taken(body, k, h[k - 1])]
      OBVIOUS
    <2>2. DOMAIN h = 0 .. m + 1 /\ h = [k \in 0 .. m + 1 |-> h[k]]
      BY <1>1
    <2>3. \A k \in 0 .. m + 1 : h[k] = h2[k]
      BY <1>2, <2>1
    <2>4. h = h2
      BY <2>1, <2>2, <2>3
    <2>5. QED
      BY <2>1, <2>4 DEF Reads
  <1>4. QED
    BY <1>3

LEMMA ReadsExist ==
  ASSUME NEW body, NEW m \in Nat
  PROVE  \E g : Reads(body, m, g)
  <1>1. PICK S : S = {k \in Nat : \E g : Reads(body, k, g)}
    OBVIOUS
  <1>2. 0 \in S
    <2>1. PICK g : g = [k \in 0 .. 0 |-> NoBatch]
      OBVIOUS
    <2>2. g = [k \in 0 .. 0 |-> IF k = 0 THEN NoBatch ELSE byte_taken(body, k, g[k - 1])]
      BY <2>1
    <2>3. Reads(body, 0, g)
      BY <2>2 DEF Reads
    <2>4. QED
      BY <1>1, <2>3
  <1>3. \A k \in S : k + 1 \in S
    BY <1>1, ReadsOneMore
  <1>4. S \subseteq Nat
    BY <1>1
  <1>5. m \in S
    BY ONLY m \in Nat, <1>2, <1>3, <1>4, AllNaturals
  <1>6. QED
    BY <1>1, <1>5

\* The definition, as a fact.
LEMMA LinesTaken ==
  ASSUME NEW body, Len(body) \in Nat
  PROVE  /\ DOMAIN lines_taken(body) = 0 .. Len(body)
         /\ lines_taken(body)[0] = NoBatch
         /\ \A k \in 1 .. Len(body) : lines_taken(body)[k] = byte_taken(body, k, lines_taken(body)[k - 1])
  <1>1. \E g : g = [k \in 0 .. Len(body) |-> IF k = 0 THEN NoBatch
                                             ELSE IF body[k] = "n" THEN take(g[k - 1], line_before(body, k)) ELSE g[k - 1]]
    <2>1. PICK g : Reads(body, Len(body), g)
      BY ReadsExist
    <2>2. g = [k \in 0 .. Len(body) |-> IF k = 0 THEN NoBatch
                                       ELSE IF body[k] = "n" THEN take(g[k - 1], line_before(body, k)) ELSE g[k - 1]]
      BY <2>1, Zenon DEF Reads, byte_taken
    <2>3. QED
      BY <2>2
  <1>2. lines_taken(body) = CHOOSE g : g = [k \in 0 .. Len(body) |-> IF k = 0 THEN NoBatch
                                             ELSE IF body[k] = "n" THEN take(g[k - 1], line_before(body, k)) ELSE g[k - 1]]
    BY DEF lines_taken
  <1>3. PICK w : w = lines_taken(body)
    OBVIOUS
  <1>4. w = [k \in 0 .. Len(body) |-> IF k = 0 THEN NoBatch
                                      ELSE IF body[k] = "n" THEN take(w[k - 1], line_before(body, k)) ELSE w[k - 1]]
    BY <1>1, <1>2, <1>3
  <1>5. DOMAIN w = 0 .. Len(body) /\ w[0] = NoBatch
    BY <1>4
  <1>6. ASSUME NEW k \in 1 .. Len(body)
        PROVE  w[k] = byte_taken(body, k, w[k - 1])
    <2>1. k \in 0 .. Len(body) /\ k # 0
      OBVIOUS
    <2>2. w[k] = IF body[k] = "n" THEN take(w[k - 1], line_before(body, k)) ELSE w[k - 1]
      BY <1>4, <2>1
    <2>3. QED
      BY <2>2 DEF byte_taken
  <1>7. QED
    BY <1>3, <1>5, <1>6

-----------------------------------------------------------------------------
(* Lines and what they say. *)

Items == (Bytes \cup {"none"}) \X (Bytes \cup {"none"})

BatchOK(b) ==
  /\ DOMAIN b = {"items", "action", "outcome"}
  /\ b.items \in Seq(Items)
  /\ b.action \in Bytes \cup {"none"}
  /\ b.outcome \in Errors \cup {"reading"}

Grown(b, b2) ==
  /\ BatchOK(b2)
  /\ b.outcome # "reading" => b2 = b
  /\ IsPrefix(b.items, b2.items)

LEMMA PrefixSelf ==
  ASSUME NEW S, NEW s \in Seq(S)
  PROVE  IsPrefix(s, s)
  <1>1. Len(s) \in Nat
    OBVIOUS
  <1>2. QED
    BY <1>1 DEF IsPrefix

LEMMA PrefixAppend ==
  ASSUME NEW S, NEW s \in Seq(S), NEW e \in S
  PROVE  Append(s, e) \in Seq(S) /\ IsPrefix(s, Append(s, e))
  <1>1. PICK t : t = Append(s, e) /\ t \in Seq(S)
    BY AppendProperties
  <1>2. PICK n \in Nat : n = Len(s)
    OBVIOUS
  <1>3. Len(t) = n + 1 /\ \A i \in 1 .. n : t[i] = s[i]
    BY <1>1, <1>2
  <1>4. SubSeq(s, 1, n) = SubSeq(t, 1, n)
    BY <1>2, <1>3
  <1>5. QED
    BY <1>1, <1>2, <1>3, <1>4 DEF IsPrefix

LEMMA PrefixTrans ==
  ASSUME NEW S, NEW s \in Seq(S), NEW t \in Seq(S), NEW u \in Seq(S), IsPrefix(s, t), IsPrefix(t, u)
  PROVE  IsPrefix(s, u)
  <1>1. PICK n \in Nat : n = Len(s)
    OBVIOUS
  <1>2. PICK m \in Nat : m = Len(t)
    OBVIOUS
  <1>3. PICK l \in Nat : l = Len(u)
    OBVIOUS
  <1>4. n <= m /\ m <= l /\ SubSeq(s, 1, n) = SubSeq(t, 1, n) /\ SubSeq(t, 1, m) = SubSeq(u, 1, m)
    BY <1>1, <1>2, <1>3 DEF IsPrefix
  <1>5. \A i \in 1 .. m : SubSeq(t, 1, m)[i] = t[i] /\ SubSeq(u, 1, m)[i] = u[i]
    BY <1>2, <1>3, <1>4
  <1>6. \A i \in 1 .. m : t[i] = u[i]
    BY <1>4, <1>5
  <1>7. SubSeq(t, 1, n) = SubSeq(u, 1, n)
    BY <1>1, <1>2, <1>3, <1>4, <1>6
  <1>8. QED
    BY <1>1, <1>3, <1>4, <1>7 DEF IsPrefix

LEMMA Says ==
  ASSUME NEW line \in Seq(Bytes), is_json(line)
  PROVE  said(line) \in Bytes /\ said(line) \notin {"r", "?"}
  <1>1. PICK k \in DOMAIN line : line[k] \notin {"r", "?"} /\ \A m \in DOMAIN line : m # k => line[m] = "r"
    BY DEF is_json
  <1>2. PICK c : c = CHOOSE i \in DOMAIN line : line[i] # "r"
    OBVIOUS
  <1>3. c \in DOMAIN line /\ line[c] # "r"
    BY <1>1, <1>2
  <1>4. c = k
    BY <1>1, <1>3
  <1>5. line[k] \in Bytes
    OBVIOUS
  <1>6. QED
    BY <1>1, <1>2, <1>4, <1>5 DEF said

LEMMA ActionSaid ==
  ASSUME NEW line \in Seq(Bytes)
  PROVE  parse_action_line(line) \notin Errors => parse_action_line(line) \in Bytes
  BY Says DEF parse_action_line, Errors

LEMMA TakeGrows ==
  ASSUME NEW b, BatchOK(b), NEW line \in Seq(Bytes)
  PROVE  Grown(b, take(b, line))
  <1>1. b.items \in Seq(Items) /\ IsPrefix(b.items, b.items)
    BY PrefixSelf DEF BatchOK
  <1>2. CASE is_blank(line) \/ b.outcome # "reading"
    BY <1>1, <1>2 DEF take, Grown
  <1>3. CASE ~is_blank(line) /\ b.outcome = "reading" /\ b.action # "none" /\ is_json(line)
    <2>1. PICK e : e = <<b.action, said(line)>>
      OBVIOUS
    <2>2. e \in Items
      BY <1>3, <2>1, Says DEF BatchOK, Items
    <2>3. Append(b.items, e) \in Seq(Items) /\ IsPrefix(b.items, Append(b.items, e))
      BY <1>1, <2>2, PrefixAppend
    <2>4. take(b, line) = [b EXCEPT !.items = Append(@, e), !.action = "none"]
      BY <1>3, <2>1 DEF take
    <2>5. /\ DOMAIN take(b, line) = {"items", "action", "outcome"} /\ take(b, line).items = Append(b.items, e)
          /\ take(b, line).action = "none" /\ take(b, line).outcome = "reading"
      BY <1>3, <2>4 DEF BatchOK
    <2>6. QED
      BY <1>3, <2>3, <2>5 DEF Grown, BatchOK
  <1>4. CASE ~is_blank(line) /\ b.outcome = "reading" /\ b.action # "none" /\ ~is_json(line)
    <2>1. take(b, line) = [b EXCEPT !.outcome = "InvalidJson"]
      BY <1>4 DEF take
    <2>2. QED
      BY <1>1, <1>4, <2>1 DEF Grown, BatchOK, Errors
  <1>5. CASE ~is_blank(line) /\ b.outcome = "reading" /\ b.action = "none"
    <2>1. PICK a : a = parse_action_line(line)
      OBVIOUS
    <2>2. CASE a \in Errors
      <3>1. take(b, line) = [b EXCEPT !.outcome = a]
        BY <1>5, <2>1, <2>2 DEF take
      <3>2. QED
        BY <1>1, <1>5, <2>2, <3>1 DEF Grown, BatchOK
    <2>3. CASE a \notin Errors /\ has_source(a)
      <3>1. take(b, line) = [b EXCEPT !.action = a] /\ a \in Bytes
        BY <1>5, <2>1, <2>3, ActionSaid DEF take
      <3>2. QED
        BY <1>1, <1>5, <3>1 DEF Grown, BatchOK
    <2>4. CASE a \notin Errors /\ ~has_source(a)
      <3>1. PICK e : e = <<a, "none">>
        OBVIOUS
      <3>2. e \in Items
        BY <2>1, <2>4, <3>1, ActionSaid DEF Items
      <3>3. take(b, line) = [b EXCEPT !.items = Append(@, e)]
        BY <1>5, <2>1, <2>4, <3>1 DEF take
      <3>4. Append(b.items, e) \in Seq(Items) /\ IsPrefix(b.items, Append(b.items, e))
        BY <1>1, <3>2, PrefixAppend
      <3>5. QED
        BY <1>5, <3>3, <3>4 DEF Grown, BatchOK
    <2>5. QED
      BY <2>2, <2>3, <2>4
  <1>6. QED
    BY <1>2, <1>3, <1>4, <1>5

\* The reader reads a line as the parser does.
LEMMA ReadsLine ==
  ASSUME NEW b, BatchOK(b), b.outcome = "reading", NEW line, ~is_blank(line)
  PROVE  next_op(b, line) = take(b, line)
  <1>1. PICK a : a = parse_action_line(line)
    OBVIOUS
  <1>2. CASE b.action # "none" /\ is_json(line)
    BY <1>2 DEF next_op, take
  <1>3. CASE b.action # "none" /\ ~is_json(line)
    BY <1>3 DEF next_op, take
  <1>4. CASE b.action = "none" /\ a \in Errors
    BY <1>1, <1>4 DEF next_op, take
  <1>5. CASE b.action = "none" /\ a \notin Errors
    BY <1>1, <1>5 DEF next_op, take
  <1>6. QED
    BY <1>2, <1>3, <1>4, <1>5

\* A carriage return at the end of a line says nothing.
LEMMA CutSays ==
  ASSUME NEW line \in Seq(Bytes), line # <<>>, Last(line) = "r", NEW cut, cut = Front(line)
  PROVE  /\ cut \in Seq(Bytes)
         /\ is_blank(cut) <=> is_blank(line)
         /\ is_json(cut) <=> is_json(line)
         /\ is_json(line) => said(cut) = said(line)
  <1>1. PICK n \in Nat : n = Len(line)
    OBVIOUS
  <1>2. n > 0 /\ line[n] = "r"
    BY <1>1, EmptySeq DEF Last
  <1>3. cut \in Seq(Bytes) /\ Len(cut) = n - 1 /\ \A k \in 1 .. n - 1 : cut[k] = line[k]
    BY <1>1, <1>2 DEF Front
  <1>4. DOMAIN line = 1 .. n /\ DOMAIN cut = 1 .. n - 1
    BY <1>1, <1>2, <1>3
  <1>5. is_blank(cut) <=> is_blank(line)
    BY <1>2, <1>3, <1>4 DEF is_blank
  <1>6. is_json(cut) => is_json(line)
    BY <1>2, <1>3, <1>4 DEF is_json
  <1>7. is_json(line) => is_json(cut) /\ said(cut) = said(line)
    <2>1. SUFFICES ASSUME is_json(line) PROVE is_json(cut) /\ said(cut) = said(line)
      OBVIOUS
    <2>2. PICK k \in 1 .. n : line[k] \notin {"r", "?"} /\ \A m \in 1 .. n : m # k => line[m] = "r"
      BY <1>4, <2>1 DEF is_json
    <2>3. k \in 1 .. n - 1
      BY <1>2, <2>2
    <2>4. cut[k] \notin {"r", "?"} /\ \A m \in 1 .. n - 1 : m # k => cut[m] = "r"
      BY <1>3, <2>2, <2>3
    <2>5. is_json(cut)
      BY <1>4, <2>3, <2>4 DEF is_json
    <2>6. PICK c : c = CHOOSE i \in DOMAIN cut : cut[i] # "r"
      OBVIOUS
    <2>7. PICK d : d = CHOOSE i \in DOMAIN line : line[i] # "r"
      OBVIOUS
    <2>8. c = k
      BY <1>4, <2>3, <2>4, <2>6
    <2>9. d = k
      BY <1>4, <2>2, <2>7
    <2>10. QED
      BY <1>3, <2>3, <2>5, <2>6, <2>7, <2>8, <2>9 DEF said
  <1>8. QED
    BY <1>3, <1>5, <1>6, <1>7

LEMMA CutTakes ==
  ASSUME NEW b, NEW line \in Seq(Bytes), line # <<>>, Last(line) = "r", NEW cut, cut = Front(line)
  PROVE  take(b, cut) = take(b, line)
  <1>1. (is_blank(cut) <=> is_blank(line)) /\ (is_json(cut) <=> is_json(line)) /\ (is_json(line) => said(cut) = said(line))
    BY CutSays
  <1>2. parse_action_line(cut) = parse_action_line(line)
    BY <1>1 DEF parse_action_line
  <1>3. CASE is_blank(line) \/ b.outcome # "reading"
    BY <1>1, <1>3 DEF take
  <1>4. CASE ~is_blank(line) /\ b.outcome = "reading" /\ b.action # "none"
    BY <1>1, <1>4 DEF take
  <1>5. CASE ~is_blank(line) /\ b.outcome = "reading" /\ b.action = "none"
    BY <1>1, <1>2, <1>5 DEF take
  <1>6. QED
    BY <1>3, <1>4, <1>5

-----------------------------------------------------------------------------
(* The lines of a body. *)

\* Nothing but the byte at c, if any, ends a line up to e.
OneLine(body, c, e) == (c = 0 \/ body[c] = "n") /\ \A i \in c + 1 .. e : body[i] # "n"

LEMMA LineIs ==
  ASSUME NEW body \in Seq(Bytes), NEW c \in Nat, NEW k \in Nat, c < k, k <= Len(body) + 1, OneLine(body, c, k - 1)
  PROVE  line_before(body, k) = SubSeq(body, c + 1, k - 1)
  <1>1. PICK d : d = CHOOSE m \in 0 .. k - 1 : (m = 0 \/ body[m] = "n") /\ \A i \in m + 1 .. k - 1 : body[i] # "n"
    OBVIOUS
  <1>2. c \in 0 .. k - 1 /\ (c = 0 \/ body[c] = "n") /\ \A i \in c + 1 .. k - 1 : body[i] # "n"
    BY DEF OneLine
  <1>3. d \in 0 .. k - 1 /\ (d = 0 \/ body[d] = "n") /\ \A i \in d + 1 .. k - 1 : body[i] # "n"
    BY <1>1, <1>2
  <1>4. ~(c < d)
    BY <1>2, <1>3
  <1>5. ~(d < c)
    BY <1>2, <1>3
  <1>6. d = c
    BY <1>2, <1>3, <1>4, <1>5
  <1>7. QED
    BY <1>1, <1>6 DEF line_before

LEMMA LineBytes ==
  ASSUME NEW body \in Seq(Bytes), NEW c \in Nat, NEW e \in Nat, e <= Len(body), c <= e
  PROVE  /\ SubSeq(body, c + 1, e) \in Seq(Bytes) /\ Len(SubSeq(body, c + 1, e)) = e - c
         /\ \A i \in 1 .. e - c : SubSeq(body, c + 1, e)[i] = body[c + i]
  <1>1. \A i \in c + 1 .. e : body[i] \in Bytes
    OBVIOUS
  <1>2. QED
    BY <1>1

\* The last newline before k, or the start.
LEMMA LineStarts ==
  ASSUME NEW body \in Seq(Bytes), NEW e \in Nat, e <= Len(body)
  PROVE  \E c \in 0 .. e : OneLine(body, c, e)
  <1>1. PICK S : S = {k \in Nat : k <= Len(body) => \E c \in 0 .. k : OneLine(body, c, k)}
    OBVIOUS
  <1>2. 0 \in S
    BY <1>1 DEF OneLine
  <1>3. \A k \in S : k + 1 \in S
    <2>1. SUFFICES ASSUME NEW k \in S, k + 1 <= Len(body)
                   PROVE  \E c \in 0 .. k + 1 : OneLine(body, c, k + 1)
      BY <1>1
    <2>2. k \in Nat
      BY <1>1
    <2>3. CASE body[k + 1] = "n"
      <3>1. OneLine(body, k + 1, k + 1)
        BY <2>2, <2>3 DEF OneLine
      <3>2. QED
        BY <2>2, <3>1
    <2>4. CASE body[k + 1] # "n"
      <3>1. PICK c \in 0 .. k : OneLine(body, c, k)
        BY <1>1, <2>1, <2>2
      <3>2. OneLine(body, c, k + 1)
        BY <2>2, <2>4, <3>1 DEF OneLine
      <3>3. QED
        BY <2>2, <3>1, <3>2
    <2>5. QED
      BY <2>3, <2>4
  <1>4. S \subseteq Nat
    BY <1>1
  <1>5. e \in S
    BY ONLY e \in Nat, <1>2, <1>3, <1>4, AllNaturals
  <1>6. QED
    BY <1>1, <1>5

LEMMA LineBefore ==
  ASSUME NEW body \in Seq(Bytes), NEW k \in Nat, k > 0, k <= Len(body) + 1
  PROVE  line_before(body, k) \in Seq(Bytes)
  <1>1. PICK e \in Nat : e = k - 1
    OBVIOUS
  <1>2. e <= Len(body)
    BY <1>1
  <1>3. PICK c \in 0 .. e : OneLine(body, c, e)
    BY <1>2, LineStarts
  <1>4. c \in Nat /\ c < k /\ c <= e
    BY <1>1, <1>3
  <1>5. line_before(body, k) = SubSeq(body, c + 1, e)
    BY <1>1, <1>3, <1>4, LineIs
  <1>6. QED
    BY <1>2, <1>4, <1>5, LineBytes

LEMMA TakenOK ==
  ASSUME NEW body \in Seq(Bytes), NEW k \in 0 .. Len(body)
  PROVE  BatchOK(lines_taken(body)[k])
  <1>1. PICK w : w = lines_taken(body)
    OBVIOUS
  <1>2. PICK n \in Nat : n = Len(body)
    OBVIOUS
  <1>3. w[0] = NoBatch /\ \A i \in 1 .. n : w[i] = byte_taken(body, i, w[i - 1])
    BY <1>1, <1>2, LinesTaken
  <1>4. PICK S : S = {i \in Nat : i <= n => BatchOK(w[i])}
    OBVIOUS
  <1>5. 0 \in S
    <2>1. <<>> \in Seq(Items)
      OBVIOUS
    <2>2. BatchOK(NoBatch)
      BY <2>1 DEF BatchOK, NoBatch
    <2>3. QED
      BY <1>3, <1>4, <2>2
  <1>6. \A i \in S : i + 1 \in S
    <2>1. SUFFICES ASSUME NEW i \in S, i + 1 <= n
                   PROVE  BatchOK(w[i + 1])
      BY <1>4
    <2>2. i \in Nat /\ BatchOK(w[i]) /\ i + 1 \in 1 .. n /\ (i + 1) - 1 = i
      BY <1>4, <2>1
    <2>3. w[i + 1] = byte_taken(body, i + 1, w[i])
      BY <1>3, <2>2
    <2>4. line_before(body, i + 1) \in Seq(Bytes)
      BY <1>2, <2>2, LineBefore
    <2>5. Grown(w[i], take(w[i], line_before(body, i + 1)))
      BY <2>2, <2>4, TakeGrows
    <2>6. QED
      BY <2>2, <2>3, <2>5 DEF byte_taken, Grown
  <1>7. S \subseteq Nat
    BY <1>4
  <1>8. k \in S
    <2>1. k \in Nat
      OBVIOUS
    <2>2. QED
      BY ONLY <2>1, <1>5, <1>6, <1>7, AllNaturals
  <1>9. QED
    BY <1>1, <1>2, <1>4, <1>8

LEMMA GrownTrans ==
  ASSUME NEW a, NEW b, NEW c, BatchOK(a), Grown(a, b), Grown(b, c)
  PROVE  Grown(a, c)
  <1>1. a.items \in Seq(Items) /\ b.items \in Seq(Items) /\ c.items \in Seq(Items)
    BY DEF Grown, BatchOK
  <1>2. IsPrefix(a.items, b.items) /\ IsPrefix(b.items, c.items)
    BY DEF Grown
  <1>3. IsPrefix(a.items, c.items)
    BY <1>1, <1>2, PrefixTrans
  <1>4. QED
    BY <1>3 DEF Grown

LEMMA GrownSelf ==
  ASSUME NEW a, BatchOK(a)
  PROVE  Grown(a, a)
  BY PrefixSelf DEF Grown, BatchOK

\* Reading on never takes back an operation, and an error is the end.
LEMMA TakenGrows ==
  ASSUME NEW body \in Seq(Bytes), NEW k \in Nat, NEW e \in Nat, k <= e, e <= Len(body)
  PROVE  Grown(lines_taken(body)[k], lines_taken(body)[e])
  <1>1. PICK w : w = lines_taken(body)
    OBVIOUS
  <1>2. PICK n \in Nat : n = Len(body)
    OBVIOUS
  <1>3. \A i \in 1 .. n : w[i] = byte_taken(body, i, w[i - 1])
    BY <1>1, <1>2, LinesTaken
  <1>4. \A i \in 0 .. n : BatchOK(w[i])
    BY <1>1, <1>2, TakenOK
  <1>5. PICK S : S = {i \in Nat : k <= i /\ i <= n => Grown(w[k], w[i])}
    OBVIOUS
  <1>6. 0 \in S
    <2>1. k = 0 => BatchOK(w[k])
      BY <1>2, <1>4
    <2>2. k <= 0 => Grown(w[k], w[0])
      BY <2>1, GrownSelf
    <2>3. QED
      BY <1>5, <2>2
  <1>7. \A i \in S : i + 1 \in S
    <2>1. SUFFICES ASSUME NEW i \in S, k <= i + 1, i + 1 <= n
                   PROVE  Grown(w[k], w[i + 1])
      BY <1>5
    <2>2. i \in Nat
      BY <1>5
    <2>3. BatchOK(w[i]) /\ BatchOK(w[k]) /\ BatchOK(w[i + 1])
      BY <1>2, <1>4, <2>1, <2>2
    <2>4. CASE k = i + 1
      BY <2>3, <2>4, GrownSelf
    <2>5. CASE k <= i
      <3>1. Grown(w[k], w[i])
        BY <1>5, <2>1, <2>2, <2>5
      <3>2. Grown(w[i], w[i + 1])
        <4>1. i + 1 \in 1 .. n /\ (i + 1) - 1 = i
          BY <2>1, <2>2
        <4>2. w[i + 1] = byte_taken(body, i + 1, w[i])
          BY <1>3, <4>1
        <4>3. line_before(body, i + 1) \in Seq(Bytes)
          BY <1>2, <2>2, <4>1, LineBefore
        <4>4. Grown(w[i], take(w[i], line_before(body, i + 1)))
          BY <2>3, <4>3, TakeGrows
        <4>5. Grown(w[i], w[i])
          BY <2>3, GrownSelf
        <4>6. QED
          BY <4>2, <4>4, <4>5 DEF byte_taken
      <3>3. QED
        BY <2>3, <3>1, <3>2, GrownTrans
    <2>6. QED
      BY <2>1, <2>2, <2>4, <2>5
  <1>8. S \subseteq Nat
    BY <1>5
  <1>9. e \in S
    BY ONLY e \in Nat, <1>6, <1>7, <1>8, AllNaturals
  <1>10. QED
    BY <1>1, <1>2, <1>5, <1>9

\* Bytes without a newline end no line.
LEMMA NothingTaken ==
  ASSUME NEW body \in Seq(Bytes), NEW c \in Nat, NEW e \in Nat, c <= e, e <= Len(body),
         \A i \in c + 1 .. e : body[i] # "n"
  PROVE  lines_taken(body)[e] = lines_taken(body)[c]
  <1>1. PICK w : w = lines_taken(body)
    OBVIOUS
  <1>2. PICK n \in Nat : n = Len(body)
    OBVIOUS
  <1>3. \A i \in 1 .. n : w[i] = byte_taken(body, i, w[i - 1])
    BY <1>1, <1>2, LinesTaken
  <1>4. PICK S : S = {i \in Nat : c <= i /\ i <= e => w[i] = w[c]}
    OBVIOUS
  <1>5. 0 \in S
    BY <1>4
  <1>6. \A i \in S : i + 1 \in S
    <2>1. SUFFICES ASSUME NEW i \in S, c <= i + 1, i + 1 <= e
                   PROVE  w[i + 1] = w[c]
      BY <1>4
    <2>2. i \in Nat
      BY <1>4
    <2>3. CASE c = i + 1
      BY <2>3
    <2>4. CASE c <= i
      <3>1. w[i] = w[c]
        BY <1>4, <2>1, <2>2, <2>4
      <3>2. i + 1 \in 1 .. n /\ (i + 1) - 1 = i /\ i + 1 \in c + 1 .. e
        BY <1>2, <2>1, <2>2, <2>4
      <3>3. w[i + 1] = byte_taken(body, i + 1, w[i])
        BY <1>3, <3>2
      <3>4. body[i + 1] # "n"
        BY <3>2
      <3>5. QED
        BY <3>1, <3>3, <3>4 DEF byte_taken
    <2>5. QED
      BY <2>1, <2>2, <2>3, <2>4
  <1>7. S \subseteq Nat
    BY <1>4
  <1>8. e \in S
    BY ONLY e \in Nat, <1>5, <1>6, <1>7, AllNaturals
  <1>9. QED
    BY <1>1, <1>4, <1>8

\* The body with its last line, whether or not that line ends.
AllTaken(body) == take(lines_taken(body)[Len(body)], line_before(body, Len(body) + 1))

LEMMA WholeOK ==
  ASSUME NEW body \in Seq(Bytes), NEW k \in Nat, k <= Len(body)
  PROVE  BatchOK(AllTaken(body)) /\ BatchOK(lines_taken(body)[k]) /\ Grown(lines_taken(body)[k], AllTaken(body))
  <1>1. PICK w : w = lines_taken(body)
    OBVIOUS
  <1>2. PICK n \in Nat : n = Len(body)
    OBVIOUS
  <1>3. BatchOK(w[k]) /\ BatchOK(w[n])
    BY <1>1, <1>2, TakenOK
  <1>4. Grown(w[k], w[n])
    BY <1>1, <1>2, TakenGrows
  <1>5. line_before(body, n + 1) \in Seq(Bytes)
    BY <1>2, LineBefore
  <1>6. Grown(w[n], take(w[n], line_before(body, n + 1)))
    BY <1>3, <1>5, TakeGrows
  <1>7. AllTaken(body) = take(w[n], line_before(body, n + 1))
    BY <1>1, <1>2 DEF AllTaken
  <1>8. Grown(w[k], AllTaken(body))
    BY <1>3, <1>4, <1>6, <1>7, GrownTrans
  <1>9. QED
    BY <1>1, <1>3, <1>8 DEF Grown

LEMMA ParseBulk ==
  ASSUME NEW body \in Seq(Bytes)
  PROVE  LET w == AllTaken(body) IN
         /\ parse_bulk(body).items = w.items
         /\ w.outcome # "reading" => parse_bulk(body).outcome = w.outcome
         /\ w.outcome = "reading" => parse_bulk(body).outcome = IF w.action = "none" THEN "ok" ELSE "MalformedBulkAction"
  <1>1. PICK w : w = AllTaken(body)
    OBVIOUS
  <1>2. BatchOK(w)
    BY <1>1, WholeOK
  <1>3. parse_bulk(body) = IF w.outcome # "reading" THEN w
                           ELSE [w EXCEPT !.outcome = IF w.action = "none" THEN "ok" ELSE "MalformedBulkAction", !.action = "none"]
    BY <1>1 DEF parse_bulk, AllTaken
  <1>4. QED
    BY <1>1, <1>2, <1>3 DEF BatchOK

-----------------------------------------------------------------------------
(* The reader. *)

\* The reader holds what has arrived behind the c bytes whose lines it has taken, and has
\* looked for a newline in the first searched of them.
Holds(body, pos, buf, searched, done, c) ==
  /\ c \in Nat /\ pos = c + Len(buf) /\ pos <= Len(body)
  /\ \A i \in 1 .. Len(buf) : buf[i] = body[c + i]
  /\ c = 0 \/ body[c] = "n"
  /\ \A i \in 1 .. searched : buf[i] # "n"
  /\ done = TRUE => pos = Len(body)

Unterminated(body, done) == done = TRUE /\ body # <<>> /\ Last(body) # "n"

LongLine(body) ==
  \E i \in 1 .. Len(body) : i + MaxLineBytes <= Len(body) /\ \A k \in i .. i + MaxLineBytes : body[k] # "n"

StillReads(body, pos, buf, searched, done, b) ==
  searched <= Len(buf) /\ \E c \in Nat : Holds(body, pos, buf, searched, done, c) /\ b = lines_taken(body)[c]

Follows(body, pos, buf, searched, done, b) ==
  \/ b.outcome = "reading" /\ StillReads(body, pos, buf, searched, done, b)
  \/ b.outcome = "reading" /\ searched > Len(buf) /\ Unterminated(body, done) /\ b = AllTaken(body)
  \/ b.outcome = "panic" /\ Unterminated(body, done) /\ b.items = AllTaken(body).items
  \/ b.outcome \in Errors \cup {"ok"} /\ b.items = parse_bulk(body).items /\ b.outcome = parse_bulk(body).outcome
  \/ b.outcome = "PayloadTooLarge" /\ LongLine(body) /\ \E k \in 0 .. Len(body) : b.items = lines_taken(body)[k].items
  \/ b.outcome = "Internal" /\ \E k \in 0 .. Len(body) : b.items = lines_taken(body)[k].items

ReaderTypes(r) ==
  /\ DOMAIN r = {"body", "pos", "buf", "scan", "done", "batch"}
  /\ r.body \in Seq(Bytes) /\ r.pos \in Nat /\ r.buf \in Seq(Bytes) /\ r.scan \in Nat /\ r.done \in BOOLEAN
  /\ DOMAIN r.batch = {"items", "action", "outcome"}

ReaderInv ==
  /\ ReaderTypes(reader)
  /\ Len(reader.buf) <= MaxLineBytes + MaxFrame
  /\ Follows(reader.body, reader.pos, reader.buf, reader.scan, reader.done, reader.batch)

LEMMA ReaderInitInv ==
  ASSUME BulkTextInit
  PROVE  ReaderInv
  <1>1. PICK body \in BoundedSeq(Bytes, MaxBulk) : reader = NewReader(body)
    BY DEF BulkTextInit
  <1>2. body \in Seq(Bytes)
    <2>1. PICK m \in 0 .. MaxBulk : body \in [1 .. m -> Bytes]
      BY DEF BoundedSeq, SeqOf
    <2>2. m \in Nat
      BY BulkTextAssumption
    <2>3. QED
      BY <2>1, <2>2
  <1>3. /\ DOMAIN reader = {"body", "pos", "buf", "scan", "done", "batch"} /\ reader.body = body /\ reader.pos = 0 /\ reader.buf = <<>>
        /\ reader.scan = 0 /\ reader.done = FALSE /\ reader.batch = NoBatch
    BY <1>1 DEF NewReader
  <1>4. DOMAIN NoBatch = {"items", "action", "outcome"} /\ NoBatch.outcome = "reading"
    BY DEF NoBatch
  <1>5. <<>> \in Seq(Bytes) /\ Len(<<>>) = 0 /\ Len(body) \in Nat
    BY <1>2
  <1>6. PICK buf : buf = <<>>
    OBVIOUS
  <1>7. PICK done : done = reader.done
    OBVIOUS
  <1>8. StillReads(body, 0, buf, 0, done, NoBatch)
    <2>1. Len(buf) = 0 /\ done # TRUE
      BY <1>3, <1>5, <1>6, <1>7
    <2>2. Holds(body, 0, buf, 0, done, 0)
      <3>1. 0 \in Nat /\ 0 = 0 + Len(buf) /\ 0 <= Len(body)
        BY <1>5, <2>1
      <3>2. (\A i \in 1 .. Len(buf) : buf[i] = body[0 + i]) /\ (\A i \in 1 .. 0 : buf[i] # "n")
        BY <2>1
      <3>3. QED
        BY ONLY <2>1, <3>1, <3>2, Zenon DEF Holds
    <2>3. lines_taken(body)[0] = NoBatch
      BY <1>5, LinesTaken
    <2>4. 0 <= Len(buf) /\ 0 \in Nat
      BY <2>1
    <2>5. QED
      BY <2>2, <2>3, <2>4 DEF StillReads
  <1>9. Follows(reader.body, reader.pos, reader.buf, reader.scan, reader.done, reader.batch)
    BY <1>3, <1>4, <1>6, <1>7, <1>8 DEF Follows
  <1>10. ReaderTypes(reader)
    <2>1. reader.done \in BOOLEAN
      BY <1>3, Zenon
    <2>2. DOMAIN reader.batch = {"items", "action", "outcome"}
      BY <1>3, <1>4
    <2>3. reader.body \in Seq(Bytes) /\ reader.pos \in Nat /\ reader.buf \in Seq(Bytes) /\ reader.scan \in Nat
      BY <1>2, <1>3, <1>5
    <2>4. QED
      BY <1>3, <2>1, <2>2, <2>3, Zenon DEF ReaderTypes
  <1>11. QED
    BY <1>3, <1>5, <1>9, <1>10, BulkTextAssumption DEF ReaderInv

\* What is read with an outcome that is an error, or goes on.
LEMMA TakenFollows ==
  ASSUME NEW body \in Seq(Bytes), NEW pos, NEW buf, NEW searched, NEW done, NEW c \in Nat, c <= Len(body), NEW b, b = lines_taken(body)[c],
         b.outcome = "reading" => StillReads(body, pos, buf, searched, done, b)
  PROVE  Follows(body, pos, buf, searched, done, b)
  <1>1. BatchOK(b) /\ Grown(b, AllTaken(body))
    BY WholeOK
  <1>2. CASE b.outcome = "reading"
    BY <1>2 DEF Follows
  <1>3. CASE b.outcome # "reading"
    <2>1. AllTaken(body) = b
      BY <1>1, <1>3 DEF Grown
    <2>2. parse_bulk(body).items = b.items /\ parse_bulk(body).outcome = b.outcome
      BY <1>3, <2>1, ParseBulk
    <2>3. b.outcome \in Errors
      BY <1>1, <1>3 DEF BatchOK
    <2>4. QED
      BY <2>2, <2>3 DEF Follows
  <1>4. QED
    BY <1>2, <1>3

-----------------------------------------------------------------------------
(* Its steps. *)

\* The first newline of a buffer.
FirstAt(buf, k) == k \in 1 .. Len(buf) /\ buf[k] = "n" /\ \A i \in 1 .. k - 1 : buf[i] # "n"

\* With that newline the line before it is taken, and the rest is held.
LineGone(body, pos, buf, done, c, nl, line, rest) ==
  /\ line \in Seq(Bytes) /\ rest \in Seq(Bytes) /\ Len(rest) <= Len(buf)
  /\ c + nl \in Nat /\ c + nl <= Len(body)
  /\ lines_taken(body)[c + nl] = take(lines_taken(body)[c], line)
  /\ Holds(body, pos, rest, 0, done, c + nl)

\* The newline at nl of the buffer ends the line behind byte c of the body.
LEMMA LineTaken ==
  ASSUME NEW body \in Seq(Bytes), NEW pos, NEW buf \in Seq(Bytes), NEW searched, NEW done, NEW c \in Nat,
         Holds(body, pos, buf, searched, done, c), NEW nl, FirstAt(buf, nl),
         NEW line, line = SubSeq(buf, 1, nl - 1), NEW rest, rest = SubSeq(buf, nl + 1, Len(buf))
  PROVE  LineGone(body, pos, buf, done, c, nl, line, rest)
  <1>0. nl \in 1 .. Len(buf) /\ buf[nl] = "n" /\ \A i \in 1 .. nl - 1 : buf[i] # "n"
    BY DEF FirstAt
  <1>1. PICK n \in Nat : n = Len(body)
    OBVIOUS
  <1>2. PICK m \in Nat : m = Len(buf)
    OBVIOUS
  <1>3. /\ pos = c + m /\ pos <= n /\ \A i \in 1 .. m : buf[i] = body[c + i]
        /\ c = 0 \/ body[c] = "n"
        /\ done = TRUE => pos = n
    BY <1>1, <1>2 DEF Holds
  <1>4. nl \in Nat /\ 1 <= nl /\ nl <= m /\ c + nl \in Nat /\ c + nl <= n /\ 0 < c + nl
    BY <1>0, <1>2, <1>3
  <1>5. body[c + nl] = "n"
    BY <1>0, <1>2, <1>3, <1>4
  <1>6. \A i \in c + 1 .. (c + nl) - 1 : body[i] # "n"
    <2>1. SUFFICES ASSUME NEW i \in c + 1 .. (c + nl) - 1 PROVE body[i] # "n"
      OBVIOUS
    <2>2. i - c \in 1 .. nl - 1 /\ i - c \in 1 .. m /\ c + (i - c) = i
      BY <1>4
    <2>3. QED
      BY <1>0, <1>3, <2>2
  <1>7. PICK e \in Nat : e = (c + nl) - 1
    BY <1>4
  <1>8. c <= e /\ e <= n
    BY <1>4, <1>7
  <1>9. lines_taken(body)[e] = lines_taken(body)[c]
    BY <1>1, <1>6, <1>7, <1>8, NothingTaken
  <1>10. OneLine(body, c, (c + nl) - 1)
    BY <1>3, <1>6 DEF OneLine
  <1>11. line_before(body, c + nl) = SubSeq(body, c + 1, e)
    BY <1>1, <1>4, <1>7, <1>10, LineIs
  <1>12. /\ SubSeq(body, c + 1, e) \in Seq(Bytes) /\ Len(SubSeq(body, c + 1, e)) = nl - 1
         /\ \A i \in 1 .. nl - 1 : SubSeq(body, c + 1, e)[i] = body[c + i]
    BY <1>1, <1>4, <1>7, <1>8, LineBytes
  <1>13. line \in Seq(Bytes) /\ Len(line) = nl - 1 /\ \A i \in 1 .. nl - 1 : line[i] = buf[i]
    BY <1>2, <1>4
  <1>14. line = SubSeq(body, c + 1, e)
    <2>1. \A i \in 1 .. nl - 1 : line[i] = SubSeq(body, c + 1, e)[i]
      BY <1>2, <1>3, <1>4, <1>12, <1>13
    <2>2. QED
      BY <1>12, <1>13, <2>1, SeqEqual
  <1>15. lines_taken(body)[c + nl] = byte_taken(body, c + nl, lines_taken(body)[e])
    BY <1>1, <1>4, <1>7, LinesTaken
  <1>16. lines_taken(body)[c + nl] = take(lines_taken(body)[c], line)
    BY <1>5, <1>9, <1>11, <1>14, <1>15 DEF byte_taken
  <1>17. rest \in Seq(Bytes) /\ Len(rest) = m - nl /\ \A i \in 1 .. m - nl : rest[i] = buf[nl + i]
    BY <1>2, <1>4
  <1>18. \A i \in 1 .. m - nl : rest[i] = body[(c + nl) + i]
    <2>1. SUFFICES ASSUME NEW i \in 1 .. m - nl PROVE rest[i] = body[(c + nl) + i]
      OBVIOUS
    <2>2. nl + i \in 1 .. m /\ c + (nl + i) = (c + nl) + i
      BY <1>4
    <2>3. QED
      BY <1>3, <1>17, <2>2
  <1>19. Holds(body, pos, rest, 0, done, c + nl)
    <2>1. pos = (c + nl) + Len(rest)
      <3>1. Len(rest) = m - nl /\ pos = c + m /\ nl \in Nat
        BY <1>3, <1>4, <1>17
      <3>2. QED
        BY ONLY <3>1, c \in Nat, m \in Nat
    <2>2. \A i \in 1 .. 0 : rest[i] # "n"
      OBVIOUS
    <2>3. \A i \in 1 .. Len(rest) : rest[i] = body[(c + nl) + i]
      BY <1>17, <1>18
    <2>4. QED
      BY <1>1, <1>3, <1>4, <1>5, <2>1, <2>2, <2>3 DEF Holds
  <1>20. QED
    BY <1>1, <1>2, <1>4, <1>13, <1>16, <1>17, <1>19 DEF LineGone

LEMMA LeastOf ==
  ASSUME NEW S, S \subseteq Nat, S # {}
  PROVE  \E x \in S : \A y \in S : x <= y
  <1>1. \E x \in S : \A y \in S : ~ (<<y, x>> \in OpToRel(<, Nat))
    BY WFMin, NatLessThanWellFounded
  <1>2. PICK x \in S : \A y \in S : ~ (<<y, x>> \in OpToRel(<, Nat))
    BY <1>1
  <1>3. \A y \in S : ~(y < x)
    BY <1>2 DEF OpToRel
  <1>4. \A y \in S : x <= y
    BY <1>3
  <1>5. QED
    BY <1>4

\* While a newline is searched for, the batch is what the lines taken so far say.
LEMMA SearchingReads ==
  ASSUME ReaderInv, Searching
  PROVE  /\ ReaderTypes(reader) /\ Len(reader.buf) <= MaxLineBytes + MaxFrame
         /\ reader.batch.outcome = "reading" /\ BatchOK(reader.batch)
         /\ StillReads(reader.body, reader.pos, reader.buf, reader.scan, reader.done, reader.batch)
  <1>1. ReaderTypes(reader) /\ Len(reader.buf) <= MaxLineBytes + MaxFrame
    BY DEF ReaderInv
  <1>2. PICK body \in Seq(Bytes) : body = reader.body
    BY <1>1 DEF ReaderTypes
  <1>3. PICK buf \in Seq(Bytes) : buf = reader.buf
    BY <1>1 DEF ReaderTypes
  <1>4. PICK searched \in Nat : searched = reader.scan
    BY <1>1 DEF ReaderTypes
  <1>5. PICK pos : pos = reader.pos
    OBVIOUS
  <1>6. PICK done : done = reader.done
    OBVIOUS
  <1>7. PICK b : b = reader.batch
    OBVIOUS
  <1>8. b.outcome = "reading" /\ searched <= Len(buf)
    BY <1>3, <1>4, <1>7 DEF Searching
  <1>9. Follows(body, pos, buf, searched, done, b)
    BY <1>2, <1>3, <1>4, <1>5, <1>6, <1>7 DEF ReaderInv
  <1>10. ~(searched > Len(buf))
    BY <1>8
  <1>11. StillReads(body, pos, buf, searched, done, b)
    BY <1>8, <1>9, <1>10 DEF Follows, Errors
  <1>12. PICK c \in Nat : Holds(body, pos, buf, searched, done, c) /\ b = lines_taken(body)[c]
    BY <1>11 DEF StillReads
  <1>13. c <= Len(body)
    BY <1>12 DEF Holds
  <1>14. BatchOK(b)
    BY <1>12, <1>13, WholeOK
  <1>15. QED
    BY <1>1, <1>2, <1>3, <1>4, <1>5, <1>6, <1>7, <1>8, <1>11, <1>14

LEMMA TakeLineInv ==
  ASSUME ReaderInv, take_line
  PROVE  ReaderInv'
  <1>1. Searching /\ Newlines(reader) # {}
    BY DEF take_line
  <1>2. /\ ReaderTypes(reader) /\ Len(reader.buf) <= MaxLineBytes + MaxFrame
        /\ reader.batch.outcome = "reading" /\ BatchOK(reader.batch)
        /\ StillReads(reader.body, reader.pos, reader.buf, reader.scan, reader.done, reader.batch)
    BY <1>1, SearchingReads
  <1>3. PICK body \in Seq(Bytes) : body = reader.body
    BY <1>2 DEF ReaderTypes
  <1>4. PICK buf \in Seq(Bytes) : buf = reader.buf
    BY <1>2 DEF ReaderTypes
  <1>5. PICK searched \in Nat : searched = reader.scan
    BY <1>2 DEF ReaderTypes
  <1>6. PICK pos \in Nat : pos = reader.pos
    BY <1>2 DEF ReaderTypes
  <1>7. PICK done : done = reader.done
    OBVIOUS
  <1>8. PICK b : b = reader.batch
    OBVIOUS
  <1>9. PICK c \in Nat : Holds(body, pos, buf, searched, done, c) /\ b = lines_taken(body)[c]
    BY <1>2, <1>3, <1>4, <1>5, <1>6, <1>7, <1>8 DEF StillReads
  <1>10. PICK S : S = Newlines(reader)
    OBVIOUS
  <1>11. PICK nl : nl = CHOOSE k \in S : \A m \in S : k <= m
    OBVIOUS
  <1>12. FirstAt(buf, nl)
    <2>1. S = {k \in searched + 1 .. Len(buf) : buf[k] = "n"} /\ S # {}
      BY <1>1, <1>4, <1>5, <1>10 DEF Newlines
    <2>2. \A i \in 1 .. searched : buf[i] # "n"
      BY <1>9 DEF Holds
    <2>3. S \subseteq Nat
      BY <2>1
    <2>4. PICK x \in S : \A y \in S : x <= y
      BY <2>1, <2>3, LeastOf
    <2>5. nl \in S /\ \A m \in S : nl <= m
      BY <1>11, <2>4
    <2>6. nl \in searched + 1 .. Len(buf) /\ buf[nl] = "n"
      BY <2>1, <2>5
    <2>7. ASSUME NEW i \in 1 .. nl - 1 PROVE buf[i] # "n"
      <3>1. nl \in Nat /\ i \in Nat /\ i < nl
        BY <2>6
      <3>2. i \notin S
        BY ONLY <2>5, <3>1
      <3>3. i \in 1 .. searched \/ i \in searched + 1 .. Len(buf)
        BY <2>6
      <3>4. QED
        BY <2>1, <2>2, <3>2, <3>3
    <2>8. nl \in 1 .. Len(buf)
      BY <2>6
    <2>9. QED
      BY <2>6, <2>7, <2>8 DEF FirstAt
  <1>13. PICK line : line = SubSeq(buf, 1, nl - 1)
    OBVIOUS
  <1>14. PICK rest : rest = SubSeq(buf, nl + 1, Len(buf))
    OBVIOUS
  <1>15. /\ line \in Seq(Bytes) /\ rest \in Seq(Bytes) /\ Len(rest) <= Len(buf)
         /\ c + nl \in Nat /\ c + nl <= Len(body)
         /\ lines_taken(body)[c + nl] = take(lines_taken(body)[c], line)
         /\ Holds(body, pos, rest, 0, done, c + nl)
    <2>1. Holds(body, pos, buf, searched, done, c)
      BY <1>9
    <2>2. LineGone(body, pos, buf, done, c, nl, line, rest)
      BY ONLY body \in Seq(Bytes), buf \in Seq(Bytes), c \in Nat, <2>1, <1>12, <1>13, <1>14, LineTaken
    <2>3. QED
      BY <2>2 DEF LineGone
  <1>16. PICK cut : cut = IF line # <<>> /\ Last(line) = "r" THEN Front(line) ELSE line
    OBVIOUS
  <1>17. take(b, cut) = take(b, line)
    BY <1>15, <1>16, CutTakes
  <1>18. PICK b2 : b2 = take(b, line)
    OBVIOUS
  <1>19. reader' = [reader EXCEPT !.buf = rest, !.scan = 0, !.batch = b2]
    <2>1. PICK r : r = [reader EXCEPT !.buf = rest, !.scan = 0]
      OBVIOUS
    <2>2. reader' = IF is_blank(cut) THEN r ELSE [r EXCEPT !.batch = next_op(@, cut)]
      BY <1>4, <1>10, <1>11, <1>13, <1>14, <1>16, <2>1 DEF take_line, resumed
    <2>3. r.batch = b /\ DOMAIN r = DOMAIN reader
      BY <1>2, <1>8, <2>1 DEF ReaderTypes
    <2>4. CASE is_blank(cut)
      <3>1. b2 = b
        BY <1>17, <1>18, <2>4 DEF take
      <3>2. QED
        BY <1>2, <1>8, <2>1, <2>2, <2>4, <3>1 DEF ReaderTypes
    <2>5. CASE ~is_blank(cut)
      <3>1. next_op(b, cut) = b2
        BY <1>2, <1>8, <1>17, <1>18, <2>5, ReadsLine
      <3>2. reader' = [r EXCEPT !.batch = b2]
        BY <1>2, <2>2, <2>3, <2>5, <3>1 DEF ReaderTypes
      <3>3. QED
        BY <1>2, <2>1, <3>2 DEF ReaderTypes
    <2>6. QED
      BY <2>4, <2>5
  <1>20. /\ DOMAIN reader' = {"body", "pos", "buf", "scan", "done", "batch"}
         /\ reader'.body = body /\ reader'.pos = pos /\ reader'.buf = rest /\ reader'.scan = 0
         /\ reader'.done = done /\ reader'.batch = b2
    BY <1>2, <1>3, <1>6, <1>7, <1>19 DEF ReaderTypes
  <1>21. b2 = lines_taken(body)[c + nl]
    BY <1>9, <1>15, <1>18
  <1>22. BatchOK(b2)
    BY <1>15, <1>21, WholeOK
  <1>23. StillReads(body, pos, rest, 0, done, b2)
    <2>1. 0 <= Len(rest)
      BY <1>15
    <2>2. QED
      BY <1>15, <1>21, <2>1 DEF StillReads
  <1>24. Follows(body, pos, rest, 0, done, b2)
    BY <1>15, <1>21, <1>23, TakenFollows
  <1>25. ReaderTypes(reader)'
    <2>1. reader'.done \in BOOLEAN
      BY <1>2, <1>7, <1>20 DEF ReaderTypes
    <2>2. DOMAIN reader'.batch = {"items", "action", "outcome"}
      BY <1>20, <1>22 DEF BatchOK
    <2>3. reader'.body \in Seq(Bytes) /\ reader'.pos \in Nat /\ reader'.buf \in Seq(Bytes) /\ reader'.scan \in Nat
      BY <1>15, <1>20
    <2>4. QED
      BY <1>20, <2>1, <2>2, <2>3, Zenon DEF ReaderTypes
  <1>26. Len(reader'.buf) <= MaxLineBytes + MaxFrame
    BY <1>2, <1>4, <1>15, <1>20, BulkTextAssumption
  <1>27. QED
    BY <1>20, <1>24, <1>25, <1>26, Zenon DEF ReaderInv

NoNewline(buf) == \A i \in 1 .. Len(buf) : buf[i] # "n"

\* When the body has all arrived and no newline is left, the buffer is its last line.
LEMMA LastLine ==
  ASSUME NEW body \in Seq(Bytes), NEW pos, NEW buf \in Seq(Bytes), NEW searched, NEW done, NEW c \in Nat,
         Holds(body, pos, buf, searched, done, c), NoNewline(buf), pos = Len(body)
  PROVE  AllTaken(body) = take(lines_taken(body)[c], buf)
  <1>1. PICK n \in Nat : n = Len(body)
    OBVIOUS
  <1>2. PICK m \in Nat : m = Len(buf)
    OBVIOUS
  <1>3. n = c + m /\ (c = 0 \/ body[c] = "n") /\ \A i \in 1 .. m : buf[i] = body[c + i]
    BY <1>1, <1>2 DEF Holds
  <1>4. \A i \in c + 1 .. n : body[i] # "n"
    <2>1. SUFFICES ASSUME NEW i \in c + 1 .. n PROVE body[i] # "n"
      OBVIOUS
    <2>2. i - c \in 1 .. m /\ c + (i - c) = i
      BY <1>3
    <2>3. QED
      BY <1>2, <1>3, <2>2 DEF NoNewline
  <1>5. c <= n
    BY <1>3
  <1>6. lines_taken(body)[n] = lines_taken(body)[c]
    <2>1. n <= Len(body)
      BY <1>1
    <2>2. QED
      BY <1>4, <1>5, <2>1, NothingTaken
  <1>7. (n + 1) - 1 = n /\ c < n + 1 /\ n + 1 <= Len(body) + 1 /\ n + 1 \in Nat
    BY <1>1, <1>5
  <1>8. OneLine(body, c, (n + 1) - 1)
    BY <1>3, <1>4, <1>7 DEF OneLine
  <1>9. line_before(body, n + 1) = SubSeq(body, c + 1, n)
    BY <1>7, <1>8, LineIs
  <1>10. /\ SubSeq(body, c + 1, n) \in Seq(Bytes) /\ Len(SubSeq(body, c + 1, n)) = n - c
         /\ \A i \in 1 .. n - c : SubSeq(body, c + 1, n)[i] = body[c + i]
    BY <1>1, <1>5, LineBytes
  <1>11. n - c = m
    BY <1>3
  <1>12. SubSeq(body, c + 1, n) = buf
    <2>1. \A i \in 1 .. m : buf[i] = SubSeq(body, c + 1, n)[i]
      BY <1>3, <1>10, <1>11
    <2>2. QED
      BY <1>2, <1>10, <1>11, <2>1, SeqEqual
  <1>13. QED
    BY <1>1, <1>6, <1>9, <1>12 DEF AllTaken

LEMMA AtEndInv ==
  ASSUME ReaderInv, at_end
  PROVE  ReaderInv'
  <1>1. Searching /\ Newlines(reader) = {} /\ reader.done
    BY DEF at_end
  <1>2. /\ ReaderTypes(reader) /\ Len(reader.buf) <= MaxLineBytes + MaxFrame
        /\ reader.batch.outcome = "reading" /\ BatchOK(reader.batch)
        /\ StillReads(reader.body, reader.pos, reader.buf, reader.scan, reader.done, reader.batch)
    BY <1>1, SearchingReads
  <1>3. PICK body \in Seq(Bytes) : body = reader.body
    BY <1>2 DEF ReaderTypes
  <1>4. PICK buf \in Seq(Bytes) : buf = reader.buf
    BY <1>2 DEF ReaderTypes
  <1>5. PICK searched \in Nat : searched = reader.scan
    BY <1>2 DEF ReaderTypes
  <1>6. PICK pos \in Nat : pos = reader.pos
    BY <1>2 DEF ReaderTypes
  <1>7. PICK done : done = reader.done
    OBVIOUS
  <1>8. PICK b : b = reader.batch
    OBVIOUS
  <1>9. PICK c \in Nat : Holds(body, pos, buf, searched, done, c) /\ b = lines_taken(body)[c]
    BY <1>2, <1>3, <1>4, <1>5, <1>6, <1>7, <1>8 DEF StillReads
  <1>10. NoNewline(buf)
    <2>1. {k \in searched + 1 .. Len(buf) : buf[k] = "n"} = {}
      BY <1>1, <1>4, <1>5 DEF Newlines
    <2>2. \A i \in 1 .. searched : buf[i] # "n"
      BY <1>9 DEF Holds
    <2>3. QED
      BY <2>1, <2>2 DEF NoNewline
  <1>11. done = TRUE
    BY <1>1, <1>2, <1>7, Zenon DEF ReaderTypes
  <1>12. pos = Len(body)
    BY <1>9, <1>11 DEF Holds
  <1>13. AllTaken(body) = take(b, buf)
    BY <1>9, <1>10, <1>12, LastLine
  <1>14. PICK w : w = AllTaken(body)
    OBVIOUS
  <1>15. /\ parse_bulk(body).items = w.items
         /\ w.outcome # "reading" => parse_bulk(body).outcome = w.outcome
         /\ w.outcome = "reading" => parse_bulk(body).outcome = IF w.action = "none" THEN "ok" ELSE "MalformedBulkAction"
    BY <1>14, ParseBulk
  <1>16. CASE ~is_blank(buf)
    <2>1. next_op(b, buf) = w
      BY <1>2, <1>8, <1>13, <1>14, <1>16, ReadsLine
    <2>2. /\ DOMAIN reader' = {"body", "pos", "buf", "scan", "done", "batch"}
          /\ reader'.body = body /\ reader'.pos = pos /\ reader'.buf = <<>> /\ reader'.scan = Len(buf)
          /\ reader'.done = done /\ reader'.batch = w
      <3>1. reader' = [reader EXCEPT !.buf = <<>>, !.scan = Len(buf), !.batch = next_op(@, buf)]
        BY <1>4, <1>16 DEF at_end
      <3>2. reader' = [reader EXCEPT !.buf = <<>>, !.scan = Len(buf), !.batch = w]
        BY <1>2, <1>8, <2>1, <3>1 DEF ReaderTypes
      <3>3. QED
        BY <1>2, <1>3, <1>6, <1>7, <3>2 DEF ReaderTypes
    <2>3. BatchOK(w)
      <3>1. 0 \in Nat /\ 0 <= Len(body)
        OBVIOUS
      <3>2. QED
        BY <1>14, <3>1, WholeOK
    <2>4. PICK e : e = <<>>
      OBVIOUS
    <2>5. e \in Seq(Bytes) /\ Len(e) = 0
      BY <2>4
    <2>6. Follows(body, pos, e, Len(buf), done, w)
      <3>1. CASE w.outcome = "reading"
        <4>1. Len(buf) > Len(e)
          BY <1>16, <2>5 DEF is_blank
        <4>2. PICK m \in Nat : m = Len(buf)
          OBVIOUS
        <4>3. PICK n \in Nat : n = Len(body)
          OBVIOUS
        <4>4. n = c + m /\ m \in 1 .. m /\ n > 0
          BY <1>9, <1>12, <2>5, <4>1, <4>2, <4>3 DEF Holds
        <4>5. body[c + m] = buf[m] /\ buf[m] # "n"
          BY <1>9, <1>10, <4>2, <4>4 DEF Holds, NoNewline
        <4>6. Unterminated(body, done)
          <5>1. Last(body) # "n"
            BY <4>3, <4>4, <4>5 DEF Last
          <5>2. Len(body) # 0
            BY <4>3, <4>4
          <5>3. body # <<>>
            BY <5>2
          <5>4. QED
            BY <1>11, <5>1, <5>3, Zenon DEF Unterminated
        <4>7. QED
          BY <1>14, <3>1, <4>1, <4>6 DEF Follows
      <3>2. CASE w.outcome # "reading"
        <4>1. w.outcome \in Errors
          BY <2>3, <3>2 DEF BatchOK
        <4>2. QED
          BY <1>15, <3>2, <4>1 DEF Follows
      <3>3. QED
        BY <3>1, <3>2
    <2>7. ReaderTypes(reader)'
      <3>1. reader'.done \in BOOLEAN
        BY <1>2, <1>7, <2>2 DEF ReaderTypes
      <3>2. DOMAIN reader'.batch = {"items", "action", "outcome"}
        BY <2>2, <2>3 DEF BatchOK
      <3>3. reader'.body \in Seq(Bytes) /\ reader'.pos \in Nat /\ reader'.buf \in Seq(Bytes) /\ reader'.scan \in Nat
        BY <2>2, <2>4, <2>5
      <3>4. QED
        BY <2>2, <3>1, <3>2, <3>3, Zenon DEF ReaderTypes
    <2>8. Len(reader'.buf) <= MaxLineBytes + MaxFrame
      BY <2>2, <2>4, <2>5, BulkTextAssumption
    <2>9. QED
      BY <2>2, <2>4, <2>6, <2>7, <2>8, Zenon DEF ReaderInv
  <1>17. CASE is_blank(buf)
    <2>1. w = b
      BY <1>13, <1>14, <1>17 DEF take
    <2>2. PICK o : o = IF b.action = "none" THEN "ok" ELSE "MalformedBulkAction"
      OBVIOUS
    <2>3. PICK b2 : b2 = [b EXCEPT !.outcome = o, !.action = "none"]
      OBVIOUS
    <2>4. DOMAIN b2 = {"items", "action", "outcome"} /\ b2.items = b.items /\ b2.outcome = o
      BY <1>2, <1>8, <2>3 DEF BatchOK
    <2>5. /\ DOMAIN reader' = {"body", "pos", "buf", "scan", "done", "batch"}
          /\ reader'.body = body /\ reader'.pos = pos /\ reader'.buf = buf /\ reader'.scan = searched
          /\ reader'.done = done /\ reader'.batch = b2
      <3>1. reader' = [reader EXCEPT !.batch.outcome = o, !.batch.action = "none"]
        BY <1>4, <1>8, <1>17, <2>2 DEF at_end
      <3>2. QED
        BY <1>2, <1>3, <1>4, <1>5, <1>6, <1>7, <1>8, <2>3, <3>1 DEF ReaderTypes
    <2>6. b2.outcome = parse_bulk(body).outcome /\ b2.items = parse_bulk(body).items
      BY <1>2, <1>8, <1>15, <2>1, <2>2, <2>4
    <2>7. b2.outcome \in Errors \cup {"ok"}
      BY <2>2, <2>4 DEF Errors
    <2>8. Follows(body, pos, buf, searched, done, b2)
      BY <2>6, <2>7 DEF Follows
    <2>9. ReaderTypes(reader)'
      <3>1. reader'.done \in BOOLEAN
        BY <1>2, <1>7, <2>5 DEF ReaderTypes
      <3>2. QED
        BY <2>4, <2>5, <3>1, Zenon DEF ReaderTypes
    <2>10. QED
      BY <1>2, <1>4, <2>5, <2>8, <2>9, Zenon DEF ReaderInv
  <1>18. QED
    BY <1>16, <1>17

LEMMA TooLongInv ==
  ASSUME ReaderInv, too_long
  PROVE  ReaderInv'
  <1>1. Searching /\ Newlines(reader) = {} /\ over_cap(reader.buf)
    BY DEF too_long
  <1>2. /\ ReaderTypes(reader) /\ Len(reader.buf) <= MaxLineBytes + MaxFrame
        /\ reader.batch.outcome = "reading" /\ BatchOK(reader.batch)
        /\ StillReads(reader.body, reader.pos, reader.buf, reader.scan, reader.done, reader.batch)
    BY <1>1, SearchingReads
  <1>3. PICK body \in Seq(Bytes) : body = reader.body
    BY <1>2 DEF ReaderTypes
  <1>4. PICK buf \in Seq(Bytes) : buf = reader.buf
    BY <1>2 DEF ReaderTypes
  <1>5. PICK searched \in Nat : searched = reader.scan
    BY <1>2 DEF ReaderTypes
  <1>6. PICK pos \in Nat : pos = reader.pos
    BY <1>2 DEF ReaderTypes
  <1>7. PICK done : done = reader.done
    OBVIOUS
  <1>8. PICK b : b = reader.batch
    OBVIOUS
  <1>9. PICK c \in Nat : Holds(body, pos, buf, searched, done, c) /\ b = lines_taken(body)[c]
    BY <1>2, <1>3, <1>4, <1>5, <1>6, <1>7, <1>8 DEF StillReads
  <1>10. NoNewline(buf)
    <2>1. {k \in searched + 1 .. Len(buf) : buf[k] = "n"} = {}
      BY <1>1, <1>4, <1>5 DEF Newlines
    <2>2. \A i \in 1 .. searched : buf[i] # "n"
      BY <1>9 DEF Holds
    <2>3. QED
      BY <2>1, <2>2 DEF NoNewline
  <1>11. PICK n \in Nat : n = Len(body)
    OBVIOUS
  <1>12. PICK m \in Nat : m = Len(buf)
    OBVIOUS
  <1>13. m > MaxLineBytes /\ c + m <= n /\ MaxLineBytes \in Nat
    BY <1>1, <1>4, <1>9, <1>11, <1>12, BulkTextAssumption DEF over_cap, Holds
  <1>14. c + 1 \in 1 .. n /\ (c + 1) + MaxLineBytes <= n /\ c \in 0 .. n
    BY <1>13
  <1>15. \A k \in c + 1 .. (c + 1) + MaxLineBytes : body[k] # "n"
    <2>1. SUFFICES ASSUME NEW k \in c + 1 .. (c + 1) + MaxLineBytes PROVE body[k] # "n"
      OBVIOUS
    <2>2. k - c \in 1 .. m /\ c + (k - c) = k
      BY <1>13
    <2>3. buf[k - c] = body[c + (k - c)] /\ buf[k - c] # "n"
      BY <1>9, <1>10, <1>12, <2>2 DEF Holds, NoNewline
    <2>4. QED
      BY <2>2, <2>3
  <1>16. LongLine(body)
    BY <1>11, <1>14, <1>15 DEF LongLine
  <1>17. PICK b2 : b2 = [b EXCEPT !.outcome = "PayloadTooLarge", !.action = "none"]
    OBVIOUS
  <1>18. DOMAIN b2 = {"items", "action", "outcome"} /\ b2.items = b.items /\ b2.outcome = "PayloadTooLarge"
    BY <1>2, <1>8, <1>17 DEF BatchOK
  <1>19. /\ DOMAIN reader' = {"body", "pos", "buf", "scan", "done", "batch"}
         /\ reader'.body = body /\ reader'.pos = pos /\ reader'.buf = buf /\ reader'.scan = searched
         /\ reader'.done = done /\ reader'.batch = b2
    BY <1>2, <1>3, <1>4, <1>5, <1>6, <1>7, <1>8, <1>17 DEF ReaderTypes, too_long
  <1>20. Follows(body, pos, buf, searched, done, b2)
    BY <1>9, <1>11, <1>14, <1>16, <1>18 DEF Follows
  <1>21. ReaderTypes(reader)'
    <2>1. reader'.done \in BOOLEAN
      BY <1>2, <1>7, <1>19 DEF ReaderTypes
    <2>2. QED
      BY <1>18, <1>19, <2>1, Zenon DEF ReaderTypes
  <1>22. QED
    BY <1>2, <1>4, <1>19, <1>20, <1>21, Zenon DEF ReaderInv

FrameGot(body, pos, buf, done, c, k, more) ==
  /\ more \in Seq(Bytes) /\ Len(more) = Len(buf) + k
  /\ Holds(body, pos + k, more, Len(buf), done, c)

\* A frame of k bytes leaves what is held where it was.
LEMMA FrameHeld ==
  ASSUME NEW body \in Seq(Bytes), NEW pos \in Nat, NEW buf \in Seq(Bytes), NEW searched, NEW done, NEW c \in Nat,
         Holds(body, pos, buf, searched, done, c), NoNewline(buf), done # TRUE,
         NEW k \in Nat, pos + k <= Len(body), NEW more, more = buf \o SubSeq(body, pos + 1, pos + k)
  PROVE  FrameGot(body, pos, buf, done, c, k, more)
  <1>1. PICK n \in Nat : n = Len(body)
    OBVIOUS
  <1>2. PICK m \in Nat : m = Len(buf)
    OBVIOUS
  <1>3. pos = c + m /\ (c = 0 \/ body[c] = "n") /\ \A i \in 1 .. m : buf[i] = body[c + i]
    BY <1>1, <1>2 DEF Holds
  <1>4. PICK f : f = SubSeq(body, pos + 1, pos + k)
    OBVIOUS
  <1>5. pos + k \in Nat /\ pos <= pos + k /\ (pos + k) - pos = k
    OBVIOUS
  <1>6. f \in Seq(Bytes) /\ Len(f) = k /\ \A i \in 1 .. k : f[i] = body[pos + i]
    BY <1>4, <1>5, LineBytes
  <1>7. more = buf \o f
    BY <1>4
  <1>8. more \in Seq(Bytes) /\ Len(more) = m + k
    BY <1>2, <1>6, <1>7
  <1>9. /\ \A i \in 1 .. m : more[i] = buf[i]
        /\ \A i \in m + 1 .. m + k : more[i] = f[i - m]
    BY <1>2, <1>6, <1>7
  <1>10. \A i \in 1 .. m + k : more[i] = body[c + i]
    <2>1. SUFFICES ASSUME NEW i \in 1 .. m + k PROVE more[i] = body[c + i]
      OBVIOUS
    <2>2. CASE i \in 1 .. m
      BY <1>3, <1>9, <2>2
    <2>3. CASE i \in m + 1 .. m + k
      <3>1. i - m \in 1 .. k /\ pos + (i - m) = c + i
        BY <1>3, <2>3
      <3>2. QED
        BY <1>6, <1>9, <2>3, <3>1
    <2>4. i \in 1 .. m \/ i \in m + 1 .. m + k
      BY ONLY i \in 1 .. m + k, m \in Nat, k \in Nat
    <2>5. QED
      BY ONLY <2>2, <2>3, <2>4
  <1>11. \A i \in 1 .. m : more[i] # "n"
    BY <1>2, <1>9 DEF NoNewline
  <1>12. pos + k = c + Len(more) /\ pos + k <= Len(body)
    <2>1. pos = c + m /\ Len(more) = m + k
      BY <1>3, <1>8
    <2>2. pos + k = c + Len(more)
      BY ONLY <2>1, c \in Nat, m \in Nat, k \in Nat
    <2>3. QED
      BY <2>2
  <1>13. Holds(body, pos + k, more, m, done, c)
    BY <1>3, <1>8, <1>10, <1>11, <1>12 DEF Holds
  <1>14. QED
    BY <1>2, <1>8, <1>13 DEF FrameGot

LEMMA FrameInv ==
  ASSUME ReaderInv, frame
  PROVE  ReaderInv'
  <1>1. Searching /\ Newlines(reader) = {} /\ ~reader.done /\ ~over_cap(reader.buf)
    BY DEF frame
  <1>2. /\ ReaderTypes(reader) /\ Len(reader.buf) <= MaxLineBytes + MaxFrame
        /\ reader.batch.outcome = "reading" /\ BatchOK(reader.batch)
        /\ StillReads(reader.body, reader.pos, reader.buf, reader.scan, reader.done, reader.batch)
    BY <1>1, SearchingReads
  <1>3. PICK body \in Seq(Bytes) : body = reader.body
    BY <1>2 DEF ReaderTypes
  <1>4. PICK buf \in Seq(Bytes) : buf = reader.buf
    BY <1>2 DEF ReaderTypes
  <1>5. PICK searched \in Nat : searched = reader.scan
    BY <1>2 DEF ReaderTypes
  <1>6. PICK pos \in Nat : pos = reader.pos
    BY <1>2 DEF ReaderTypes
  <1>7. PICK done : done = reader.done
    OBVIOUS
  <1>8. PICK b : b = reader.batch
    OBVIOUS
  <1>9. PICK c \in Nat : Holds(body, pos, buf, searched, done, c) /\ b = lines_taken(body)[c]
    BY <1>2, <1>3, <1>4, <1>5, <1>6, <1>7, <1>8 DEF StillReads
  <1>10. NoNewline(buf)
    <2>1. {k \in searched + 1 .. Len(buf) : buf[k] = "n"} = {}
      BY <1>1, <1>4, <1>5 DEF Newlines
    <2>2. \A i \in 1 .. searched : buf[i] # "n"
      BY <1>9 DEF Holds
    <2>3. QED
      BY <2>1, <2>2 DEF NoNewline
  <1>11. PICK n \in Nat : n = Len(body)
    OBVIOUS
  <1>12. PICK m \in Nat : m = Len(buf)
    OBVIOUS
  <1>13. m <= MaxLineBytes /\ MaxLineBytes \in Nat /\ MaxFrame \in Nat
    BY <1>1, <1>4, <1>12, BulkTextAssumption DEF over_cap
  <1>14. done = FALSE
    BY <1>1, <1>2, <1>7, Zenon DEF ReaderTypes
  <1>15. /\ pos = c + m /\ pos <= n /\ c \in 0 .. n /\ (c = 0 \/ body[c] = "n")
         /\ \A i \in 1 .. m : buf[i] = body[c + i]
    BY <1>9, <1>11, <1>12 DEF Holds
  <1>16. ASSUME NEW k \in 1 .. MaxFrame, reader.pos + k <= Len(reader.body),
                reader' = [[reader EXCEPT !.scan = Len(reader.buf)]
                             EXCEPT !.buf = @ \o SubSeq(reader.body, reader.pos + 1, reader.pos + k), !.pos = @ + k]
         PROVE  ReaderInv'
    <2>1. PICK more : more = buf \o SubSeq(body, pos + 1, pos + k)
      OBVIOUS
    <2>2. k \in Nat /\ pos + k <= Len(body) /\ k <= MaxFrame /\ done # TRUE
      <3>1. k \in Nat /\ k <= MaxFrame
        BY <1>13
      <3>2. pos + k <= Len(body)
        BY <1>3, <1>6, <1>16
      <3>3. done # TRUE
        BY <1>14
      <3>4. QED
        BY <3>1, <3>2, <3>3
    <2>3. Holds(body, pos, buf, searched, done, c)
      BY <1>9
    <2>4. /\ more \in Seq(Bytes) /\ Len(more) = Len(buf) + k
          /\ Holds(body, pos + k, more, Len(buf), done, c)
      <3>1. FrameGot(body, pos, buf, done, c, k, more)
        BY ONLY body \in Seq(Bytes), pos \in Nat, buf \in Seq(Bytes), c \in Nat, <1>10, <2>1, <2>2, <2>3, FrameHeld
      <3>2. QED
        BY <3>1 DEF FrameGot
    <2>5. /\ DOMAIN reader' = {"body", "pos", "buf", "scan", "done", "batch"}
          /\ reader'.body = body /\ reader'.pos = pos + k /\ reader'.buf = more /\ reader'.scan = m
          /\ reader'.done = done /\ reader'.batch = b
      <3>1. reader' = [reader EXCEPT !.scan = m, !.buf = more, !.pos = pos + k]
        BY <1>2, <1>3, <1>4, <1>6, <1>12, <1>16, <2>1 DEF ReaderTypes
      <3>2. QED
        BY <1>2, <1>3, <1>7, <1>8, <3>1 DEF ReaderTypes
    <2>6. StillReads(body, pos + k, more, m, done, b)
      <3>1. m <= Len(more)
        BY <1>12, <2>2, <2>4
      <3>2. QED
        BY <1>9, <1>12, <2>4, <3>1 DEF StillReads
    <2>7. Follows(body, pos + k, more, m, done, b)
      BY <1>2, <1>8, <2>6 DEF Follows
    <2>8. ReaderTypes(reader)'
      <3>1. reader'.done \in BOOLEAN
        BY <1>2, <1>7, <2>5 DEF ReaderTypes
      <3>2. DOMAIN reader'.batch = {"items", "action", "outcome"}
        BY <1>2, <1>8, <2>5 DEF BatchOK
      <3>3. reader'.body \in Seq(Bytes) /\ reader'.pos \in Nat /\ reader'.buf \in Seq(Bytes) /\ reader'.scan \in Nat
        BY <2>2, <2>4, <2>5
      <3>4. QED
        BY <2>5, <3>1, <3>2, <3>3, Zenon DEF ReaderTypes
    <2>9. Len(reader'.buf) <= MaxLineBytes + MaxFrame
      BY <1>12, <1>13, <2>2, <2>4, <2>5
    <2>10. QED
      BY <2>5, <2>7, <2>8, <2>9, Zenon DEF ReaderInv
  <1>17. ASSUME reader.pos = Len(reader.body),
                reader' = [[reader EXCEPT !.scan = Len(reader.buf)] EXCEPT !.done = TRUE]
         PROVE  ReaderInv'
    <2>1. PICK end : end = TRUE
      OBVIOUS
    <2>2. /\ DOMAIN reader' = {"body", "pos", "buf", "scan", "done", "batch"}
          /\ reader'.body = body /\ reader'.pos = pos /\ reader'.buf = buf /\ reader'.scan = m
          /\ reader'.done = end /\ reader'.batch = b
      BY <1>2, <1>3, <1>4, <1>6, <1>8, <1>12, <1>17, <2>1 DEF ReaderTypes
    <2>3. pos = n
      BY <1>3, <1>6, <1>11, <1>17
    <2>4. Holds(body, pos, buf, m, end, c)
      <3>1. \A i \in 1 .. m : buf[i] # "n"
        BY <1>10, <1>12 DEF NoNewline
      <3>2. pos = c + Len(buf) /\ pos <= Len(body) /\ pos = Len(body) /\ \A i \in 1 .. Len(buf) : buf[i] = body[c + i]
        BY <1>11, <1>12, <1>15, <2>3
      <3>3. QED
        BY <1>15, <3>1, <3>2, Zenon DEF Holds
    <2>5. StillReads(body, pos, buf, m, end, b)
      <3>1. m <= Len(buf)
        BY <1>12
      <3>2. QED
        BY <1>9, <2>4, <3>1 DEF StillReads
    <2>6. Follows(body, pos, buf, m, end, b)
      BY <1>2, <1>8, <2>5 DEF Follows
    <2>7. ReaderTypes(reader)'
      <3>1. reader'.done \in BOOLEAN
        BY <2>1, <2>2, Zenon
      <3>2. DOMAIN reader'.batch = {"items", "action", "outcome"}
        BY <1>2, <1>8, <2>2 DEF BatchOK
      <3>3. QED
        BY <2>2, <3>1, <3>2, Zenon DEF ReaderTypes
    <2>8. QED
      BY <1>2, <1>4, <2>2, <2>6, <2>7, Zenon DEF ReaderInv
  <1>18. ASSUME reader' = [[reader EXCEPT !.scan = Len(reader.buf)]
                             EXCEPT !.batch.outcome = "Internal", !.batch.action = "none"]
         PROVE  ReaderInv'
    <2>1. PICK b2 : b2 = [b EXCEPT !.outcome = "Internal", !.action = "none"]
      OBVIOUS
    <2>2. DOMAIN b2 = {"items", "action", "outcome"} /\ b2.items = b.items /\ b2.outcome = "Internal"
      BY <1>2, <1>8, <2>1 DEF BatchOK
    <2>3. /\ DOMAIN reader' = {"body", "pos", "buf", "scan", "done", "batch"}
          /\ reader'.body = body /\ reader'.pos = pos /\ reader'.buf = buf /\ reader'.scan = m
          /\ reader'.done = done /\ reader'.batch = b2
      BY <1>2, <1>3, <1>4, <1>6, <1>7, <1>8, <1>12, <1>18, <2>1 DEF ReaderTypes
    <2>4. Follows(body, pos, buf, m, done, b2)
      BY <1>9, <1>11, <1>15, <2>2 DEF Follows
    <2>5. ReaderTypes(reader)'
      <3>1. reader'.done \in BOOLEAN
        BY <1>2, <1>7, <2>3 DEF ReaderTypes
      <3>2. QED
        BY <2>2, <2>3, <3>1, Zenon DEF ReaderTypes
    <2>6. QED
      BY <1>2, <1>4, <2>3, <2>4, <2>5, Zenon DEF ReaderInv
  <1>19. QED
    BY <1>16, <1>17, <1>18 DEF frame

LEMMA SlicePanicsInv ==
  ASSUME ReaderInv, slice_panics
  PROVE  ReaderInv'
  <1>1. reader.batch.outcome = "reading" /\ reader.scan > Len(reader.buf)
    BY DEF slice_panics
  <1>2. ReaderTypes(reader) /\ Len(reader.buf) <= MaxLineBytes + MaxFrame
    BY DEF ReaderInv
  <1>3. PICK body \in Seq(Bytes) : body = reader.body
    BY <1>2 DEF ReaderTypes
  <1>4. PICK buf \in Seq(Bytes) : buf = reader.buf
    BY <1>2 DEF ReaderTypes
  <1>5. PICK searched \in Nat : searched = reader.scan
    BY <1>2 DEF ReaderTypes
  <1>6. PICK pos \in Nat : pos = reader.pos
    BY <1>2 DEF ReaderTypes
  <1>7. PICK done : done = reader.done
    OBVIOUS
  <1>8. PICK b : b = reader.batch
    OBVIOUS
  <1>9. Follows(body, pos, buf, searched, done, b)
    BY <1>3, <1>4, <1>5, <1>6, <1>7, <1>8 DEF ReaderInv
  <1>10. b.outcome = "reading" /\ ~(searched <= Len(buf))
    BY <1>1, <1>4, <1>5, <1>8
  <1>11. Unterminated(body, done) /\ b = AllTaken(body)
    BY <1>9, <1>10 DEF Follows, StillReads, Errors
  <1>12. PICK b2 : b2 = [b EXCEPT !.outcome = "panic", !.action = "none"]
    OBVIOUS
  <1>13. DOMAIN b2 = {"items", "action", "outcome"} /\ b2.items = b.items /\ b2.outcome = "panic"
    BY <1>2, <1>8, <1>12 DEF ReaderTypes
  <1>14. /\ DOMAIN reader' = {"body", "pos", "buf", "scan", "done", "batch"}
         /\ reader'.body = body /\ reader'.pos = pos /\ reader'.buf = buf /\ reader'.scan = searched
         /\ reader'.done = done /\ reader'.batch = b2
    BY <1>2, <1>3, <1>4, <1>5, <1>6, <1>7, <1>8, <1>12 DEF ReaderTypes, slice_panics
  <1>15. Follows(body, pos, buf, searched, done, b2)
    BY <1>11, <1>13 DEF Follows
  <1>16. ReaderTypes(reader)'
    <2>1. reader'.done \in BOOLEAN
      BY <1>2, <1>7, <1>14 DEF ReaderTypes
    <2>2. QED
      BY <1>13, <1>14, <2>1, Zenon DEF ReaderTypes
  <1>17. QED
    BY <1>2, <1>4, <1>14, <1>15, <1>16, Zenon DEF ReaderInv

LEMMA ReaderNextInv ==
  ASSUME ReaderInv, [BulkTextNext]_reader
  PROVE  ReaderInv'
  <1>1. CASE BulkTextNext
    BY <1>1, TakeLineInv, AtEndInv, TooLongInv, FrameInv, SlicePanicsInv DEF BulkTextNext
  <1>2. CASE UNCHANGED reader
    BY <1>2 DEF ReaderInv
  <1>3. QED
    BY <1>1, <1>2

LEMMA ReaderInvReads ==
  ASSUME ReaderInv
  PROVE  ReadsAsWhole
  <1>2. ReaderTypes(reader) /\ Len(reader.buf) <= MaxLineBytes + MaxFrame
    BY DEF ReaderInv
  <1>3. PICK body \in Seq(Bytes) : body = reader.body
    BY <1>2 DEF ReaderTypes
  <1>4. PICK buf \in Seq(Bytes) : buf = reader.buf
    BY <1>2 DEF ReaderTypes
  <1>5. PICK searched \in Nat : searched = reader.scan
    BY <1>2 DEF ReaderTypes
  <1>6. PICK pos \in Nat : pos = reader.pos
    BY <1>2 DEF ReaderTypes
  <1>7. PICK done : done = reader.done
    OBVIOUS
  <1>8. PICK b : b = reader.batch
    OBVIOUS
  <1>9. Follows(body, pos, buf, searched, done, b)
    BY <1>3, <1>4, <1>5, <1>6, <1>7, <1>8 DEF ReaderInv
  <1>10. PICK w : w = AllTaken(body)
    OBVIOUS
  <1>11. parse_bulk(body).items = w.items
    BY <1>10, ParseBulk
  <1>12. \A k \in 0 .. Len(body) : IsPrefix(lines_taken(body)[k].items, w.items)
    BY <1>10, WholeOK DEF Grown
  <1>13. IsPrefix(w.items, w.items)
    <2>1. 0 \in Nat /\ 0 <= Len(body)
      OBVIOUS
    <2>2. BatchOK(w)
      BY <1>10, <2>1, WholeOK
    <2>3. QED
      BY <2>2, PrefixSelf DEF BatchOK
  <1>14. IsPrefix(b.items, w.items)
    <2>1. CASE StillReads(body, pos, buf, searched, done, b)
      <3>1. PICK c \in Nat : Holds(body, pos, buf, searched, done, c) /\ b = lines_taken(body)[c]
        BY <2>1 DEF StillReads
      <3>2. c \in 0 .. Len(body)
        BY <3>1 DEF Holds
      <3>3. QED
        BY <1>12, <3>1, <3>2
    <2>2. CASE b.items = w.items
      BY <1>13, <2>2
    <2>3. CASE \E k \in 0 .. Len(body) : b.items = lines_taken(body)[k].items
      BY <1>12, <2>3
    <2>4. QED
      BY <1>9, <1>10, <1>11, <2>1, <2>2, <2>3, Zenon DEF Follows
  <1>15. b.outcome \in Errors \cup {"ok"} => b.items = parse_bulk(body).items /\ b.outcome = parse_bulk(body).outcome
    BY <1>9 DEF Follows, Errors
  <1>16. StreamedAsWhole
    BY <1>3, <1>8, <1>11, <1>14, <1>15 DEF StreamedAsWhole
  <1>17. b.outcome = "panic" => Unterminated(body, done)
    BY <1>9 DEF Follows, Errors
  <1>18. PanicsOnlyUnterminated
    BY <1>3, <1>7, <1>8, <1>17 DEF PanicsOnlyUnterminated, Unterminated
  <1>19. b.outcome = "PayloadTooLarge" => LongLine(body)
    BY <1>9 DEF Follows, Errors
  <1>20. LineBounded
    BY <1>2, <1>3, <1>8, <1>19 DEF LineBounded, LongLine
  <1>21. QED
    BY <1>16, <1>18, <1>20 DEF ReadsAsWhole

\* For every body, every cut of it into frames and every cap on a line: what NdjsonReader
\* reads of a bulk body as it arrives is what parse_bulk() reads of it whole, what it
\* holds stays bounded, and only a body without a final newline ends in the slice panic
\* (engine/src/bulk.rs next_line, next_op; rewrite/src/bulk.rs parse_bulk).
THEOREM ReadsAsWholeTheorem == BulkTextSpec => []ReadsAsWhole
  <1>1. BulkTextInit => ReaderInv
    BY ReaderInitInv
  <1>2. ReaderInv /\ [BulkTextNext]_reader => ReaderInv'
    BY ReaderNextInv
  <1>3. ReaderInv => ReadsAsWhole
    BY ReaderInvReads
  <1>4. QED
    BY <1>1, <1>2, <1>3, PTL DEF BulkTextSpec

-----------------------------------------------------------------------------
(* The scan of a string, several bytes at a time. *)

\* A number lies in one of the steps that are counted by the quotient.
LEMMA InStep ==
  ASSUME NEW a \in Nat, NEW s \in Nat \ {0}
  PROVE  a \div s \in Nat /\ (a \div s) * s <= a /\ a < (a \div s) * s + s
  OBVIOUS

LEMMA StepsApart ==
  ASSUME NEW i \in Nat, NEW j \in Nat, NEW s \in Nat, i < j
  PROVE  i * s + s <= j * s
<1>1. PICK d \in Nat : j = (i + 1) + d
  <2>1. j - (i + 1) \in Nat /\ j = (i + 1) + (j - (i + 1))
    OBVIOUS
  <2> QED BY <2>1
<1>2. j * s = (i * s + s) + d * s
  BY <1>1
<1>3. d * s \in Nat /\ i * s \in Nat
  OBVIOUS
<1> QED BY <1>2, <1>3

LEMMA MinIs ==
  ASSUME NEW S, S \subseteq Nat, S # {}
  PROVE  Min(S) \in S /\ \A y \in S : Min(S) <= y
<1>1. \E x \in S : \A y \in S : ~ (<<y, x>> \in OpToRel(<, Nat))
  BY WFMin, NatLessThanWellFounded
<1>2. PICK x \in S : \A y \in S : ~ (<<y, x>> \in OpToRel(<, Nat))
  BY <1>1
<1>3. \A y \in S : x <= y
  <2> SUFFICES ASSUME NEW y \in S PROVE x <= y
    OBVIOUS
  <2>1. y < x => <<y, x>> \in OpToRel(<, Nat)
    BY DEF OpToRel
  <2>2. ~ (y < x)
    BY <1>2, <2>1, Zenon
  <2> QED BY <2>2
<1> QED BY <1>3 DEF Min

LEMMA MinOnly ==
  ASSUME NEW S, S \subseteq Nat, NEW p \in S, \A y \in S : p <= y
  PROVE  Min(S) = p
<1>1. S # {}
  OBVIOUS
<1>2. Min(S) \in S /\ \A y \in S : Min(S) <= y
  BY <1>1, MinIs
<1>3. PICK m : m = Min(S)
  OBVIOUS
<1>4. m \in Nat /\ p \in Nat /\ m <= p /\ p <= m
  BY <1>2, <1>3
<1> QED BY <1>3, <1>4

\* Looking several bytes at a time finds the first boundary of a string, wherever it falls
\* in a step or in the rest, for any width of the step and any string (json.rs
\* next_string_boundary).
THEOREM BoundaryFirst ==
  ASSUME NEW T, NEW bytes \in Seq(T)
  PROVE  LET b == {k \in DOMAIN bytes : is_string_boundary(bytes[k])}
         IN next_string_boundary(bytes) = IF b = {} THEN 0 ELSE Min(b)
<1>1. PICK n \in Nat, s \in Nat \ {0} : n = Len(bytes) /\ s = SimdStep
  BY StepAssumption
<1>2. PICK B : B = {k \in 1 .. n : is_string_boundary(bytes[k])}
  OBVIOUS
<1>3. PICK w : w = n \div s
  OBVIOUS
<1>4. w \in Nat /\ w * s \in Nat /\ w * s <= n
  <2>1. w \in Nat /\ w * s <= n
    BY <1>3, InStep
  <2> QED BY <2>1
<1> DEFINE mask(i) == {k \in 1 .. s : is_string_boundary(bytes[i * s + k])}
           chunks == {i \in 0 .. w - 1 : mask(i) # {}}
           tail == {k \in w * s + 1 .. n : is_string_boundary(bytes[k])}
<1>5. next_string_boundary(bytes) =
        IF chunks # {} THEN Min(chunks) * s + Min(mask(Min(chunks))) ELSE IF tail # {} THEN Min(tail) ELSE 0
  BY <1>1, <1>3 DEF next_string_boundary
<1>6. ASSUME NEW k \in B, k <= w * s
      PROVE  \E i \in chunks, o \in 1 .. s : o \in mask(i) /\ k = i * s + o
  <2>1. k \in Nat /\ k - 1 \in Nat /\ k >= 1 /\ is_string_boundary(bytes[k])
    BY <1>2
  <2>2. PICK i : i = (k - 1) \div s
    OBVIOUS
  <2>3. i \in Nat /\ i * s <= k - 1 /\ k - 1 < i * s + s
    BY <2>1, <2>2, InStep
  <2>4. i * s \in Nat
    BY <2>3
  <2>5. i < w
    <3>1. SUFFICES ASSUME w <= i PROVE FALSE
      BY <1>4, <2>3
    <3>2. w * s <= i * s
      <4>1. CASE w = i
        BY <2>4, <4>1
      <4>2. CASE w < i
        <5>1. w * s + s <= i * s
          BY <1>4, <2>3, <4>2, StepsApart
        <5> QED BY <1>4, <2>4, <5>1
      <4> QED BY <1>4, <2>3, <3>1, <4>1, <4>2
    <3> QED BY <1>4, <1>6, <2>1, <2>3, <2>4, <3>2
  <2>6. PICK p, o : p = i * s /\ o = k - p
    OBVIOUS
  <2>7. p \in Nat /\ p <= k - 1 /\ k - 1 < p + s
    BY <2>3, <2>4, <2>6
  <2>8. o \in 1 .. s /\ k = p + o
    BY <2>1, <2>6, <2>7
  <2>9. o \in mask(i)
    BY <2>1, <2>6, <2>8
  <2>10. i \in chunks
    <3>1. i \in 0 .. w - 1
      BY <1>4, <2>3, <2>5
    <3>2. mask(i) # {}
      BY <2>9
    <3> QED BY <3>1, <3>2
  <2> QED BY <2>6, <2>8, <2>9, <2>10
<1>7. next_string_boundary(bytes) = IF B = {} THEN 0 ELSE Min(B)
  <2>1. CASE chunks = {}
    <3>1. B = tail
      <4>1. \A k \in B : k \in w * s + 1 .. n
        <5> SUFFICES ASSUME NEW k \in B PROVE k \in w * s + 1 .. n
          OBVIOUS
        <5>1. ~(k <= w * s)
          <6> SUFFICES ASSUME k <= w * s PROVE FALSE
            OBVIOUS
          <6>1. \E i \in chunks : TRUE
            BY <1>6
          <6> QED BY <2>1, <6>1
        <5> QED BY <1>2, <1>4, <5>1
      <4>2. \A k \in w * s + 1 .. n : k \in 1 .. n
        BY <1>4
      <4> QED BY <1>2, <4>1, <4>2
    <3> QED BY <1>5, <2>1, <3>1
  <2>2. CASE chunks # {}
    <3>1. PICK c : c = Min(chunks)
      OBVIOUS
    <3>2. c \in chunks /\ \A i \in chunks : c <= i
      <4>1. chunks \subseteq Nat
        OBVIOUS
      <4> QED BY <2>2, <3>1, <4>1, MinIs
    <3>3. PICK M : M = mask(c)
      OBVIOUS
    <3>4. PICK m : m = Min(M)
      OBVIOUS
    <3>5. m \in M /\ \A o \in M : m <= o
      <4>1. M \subseteq Nat /\ M # {}
        BY <3>2, <3>3
      <4> QED BY <3>4, <4>1, MinIs
    <3>6. m \in 1 .. s /\ is_string_boundary(bytes[c * s + m])
      BY <3>3, <3>5
    <3>7. c \in Nat /\ c < w
      BY <1>4, <3>2
    <3>8. PICK q \in Nat : q = c * s
      <4>1. c * s \in Nat
        BY <3>7
      <4> QED BY <4>1
    <3>9. q + s <= w * s
      BY <1>4, <3>7, <3>8, StepsApart
    <3>10. q + m \in B
      <4>1. q + m \in 1 .. n
        BY <1>4, <3>6, <3>9
      <4> QED BY <1>2, <3>6, <3>8, <4>1
    <3>11. ASSUME NEW k \in B PROVE q + m <= k
      <4>1. k \in Nat
        BY <1>2
      <4>2. SUFFICES ASSUME k < q + m PROVE FALSE
        BY <3>6, <4>1
      <4>3. k <= w * s
        BY <1>4, <3>6, <3>9, <4>1, <4>2
      <4>4. PICK i \in chunks, o \in 1 .. s : o \in mask(i) /\ k = i * s + o
        BY <1>6, <4>3
      <4>5. i \in Nat /\ c <= i
        BY <3>2
      <4>6. PICK p \in Nat : p = i * s
        <5>1. i * s \in Nat
          BY <4>5
        <5> QED BY <5>1
      <4>7. CASE i = c
        <5>1. o \in M /\ p = q
          BY <3>3, <3>8, <4>4, <4>6, <4>7
        <5>2. m <= o
          BY <3>5, <5>1
        <5> QED BY <3>6, <4>2, <4>4, <4>6, <5>1, <5>2
      <4>8. CASE c < i
        <5>1. q + s <= p
          BY <3>7, <3>8, <4>5, <4>6, <4>8, StepsApart
        <5> QED BY <3>6, <4>2, <4>4, <4>6, <5>1
      <4> QED BY <3>7, <4>5, <4>7, <4>8
    <3>12. B \subseteq Nat
      BY <1>2
    <3>13. Min(B) = q + m
      BY <3>10, <3>11, <3>12, MinOnly
    <3>14. next_string_boundary(bytes) = c * s + m
      BY <1>5, <2>2, <3>1, <3>3, <3>4
    <3> QED BY <3>8, <3>10, <3>13, <3>14
  <2> QED BY <2>1, <2>2
<1>8. DOMAIN bytes = 1 .. n
  BY <1>1
<1> QED BY <1>2, <1>7, <1>8
=============================================================================
