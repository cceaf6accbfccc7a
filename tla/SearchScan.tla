----------------------------- MODULE SearchScan -----------------------------
(***************************************************************************)
(* A streamed search response, shaped while it passes                       *)
(* (engine/src/search_scan.rs, search_stream.rs).  The upstream writes a    *)
(* well-formed document byte by byte; SearchHitsScanner holds back each     *)
(* element of hits.hits and puts it out shaped if serde_json parses it,     *)
(* everything else as it came.                                              *)
(* Bytes are classes: "h" stands for the text hits, "x" for any other       *)
(* letter or digit, "q" for a quote, "sp" for a space, "comma", "lbrace"    *)
(* and "rbrace" for what they are called, "u" for text that is JSON and     *)
(* that serde_json refuses (half a surrogate pair, escaped).                *)
(***************************************************************************)
EXTENDS Naturals, Sequences

CONSTANTS
  MaxDepth, MaxKey,   \* bounds: nesting of the document, bytes of a key
  RecursionLimit      \* the nesting serde_json parses

ASSUME RecursionAssumption == RecursionLimit \in Nat

VARIABLES
  json,   \* the document so far, as a reader of its grammar sees it
  scan    \* the scanner and what it has just put out

scanVars == <<json, scan>>

-----------------------------------------------------------------------------
(* The upstream's document, and what shaping it as a whole would do. *)

Unwritten == [st |-> "value", stack |-> <<>>, len |-> 0, odd |-> FALSE, due |-> <<>>]

Top(j) == j.stack[Len(j.stack)]

Opened(j, b) ==
  [j EXCEPT !.stack = Append(@, [kind |-> b, key |-> "empty", hits |-> FALSE]),
            !.st = IF b = "lbrace" THEN "first" ELSE "elem"]

AfterValue(j) == [j EXCEPT !.st = IF j.stack = <<>> THEN "end" ELSE "after"]

Closed(j) == AfterValue([j EXCEPT !.stack = SubSeq(@, 1, Len(@) - 1)])

\* A key reads as hits if that is all it says, written plainly or as escapes.  Keys
\* further down make no difference to the reader.
Keyed(j, says_hits) ==
  [j EXCEPT !.stack[Len(j.stack)].key = IF @ = "empty" /\ says_hits /\ Len(j.stack) <= 2 THEN "hits" ELSE "other",
            !.st = "key_text", !.len = @ + 1]

ValueMoves(j) ==
  {<<"q", [j EXCEPT !.st = "text"]>>, <<"x", [j EXCEPT !.st = "scalar"]>>}
    \cup {<<b, Opened(j, b)>> : b \in IF Len(j.stack) < MaxDepth THEN {"lbrace", "["} ELSE {}}

KeyMoves(j) == {<<"q", [j EXCEPT !.st = "key_text", !.stack[Len(j.stack)].key = "empty", !.len = 0]>>}

AfterMoves(j) ==
  IF Top(j).kind = "lbrace" THEN {<<"comma", [j EXCEPT !.st = "key"]>>, <<"rbrace", Closed(j)>>}
  ELSE {<<"comma", [j EXCEPT !.st = "value"]>>, <<"]", Closed(j)>>}

\* The bytes that may come next, each with the document they lead to.
Moves(j) ==
  CASE j.st = "value" -> ValueMoves(j)
    [] j.st = "elem" -> ValueMoves(j) \cup {<<"]", Closed(j)>>}
    [] j.st = "key" -> KeyMoves(j)
    [] j.st = "first" -> KeyMoves(j) \cup {<<"rbrace", Closed(j)>>}
    [] j.st = "key_text" ->
         (IF j.len < MaxKey THEN {<<"h", Keyed(j, TRUE)>>, <<"x", Keyed(j, FALSE)>>, <<"\\", [j EXCEPT !.st = "key_escape"]>>} ELSE {})
           \cup (IF Top(j).key = "hits" /\ Top(j).hits THEN {}      \* keys are not repeated
                 ELSE {<<"q", [j EXCEPT !.st = "colon", !.len = 0, !.stack[Len(j.stack)].hits = @ \/ Top(j).key = "hits"]>>})
    [] j.st = "key_escape" -> {<<"h", Keyed(j, TRUE)>>, <<"q", Keyed(j, FALSE)>>, <<"\\", Keyed(j, FALSE)>>}
    [] j.st = "colon" -> {<<":", [j EXCEPT !.st = "value"]>>}
    [] j.st = "text" -> {<<b, j>> : b \in {"x", "u", "rbrace", "]", "lbrace", "comma"}} \cup {<<"\\", [j EXCEPT !.st = "escape"]>>, <<"q", AfterValue(j)>>}
    [] j.st = "escape" -> {<<b, [j EXCEPT !.st = "text"]>> : b \in {"x", "q", "\\"}}
    [] j.st = "scalar" -> {<<"x", j>>} \cup IF j.stack = <<>> THEN {<<"sp", AfterValue(j)>>} ELSE AfterMoves(j) \cup {<<"sp", AfterValue(j)>>}
    [] j.st = "after" -> AfterMoves(j)
    [] j.st = "end" -> {}

Spaced(j) ==
  Moves(j) \cup IF j.st \in {"value", "elem", "key", "first", "colon", "after", "end"} THEN {<<"sp", j>>} ELSE {}

\* Inside an element of the array hits.hits of the root object.
InHit(j) ==
  /\ Len(j.stack) >= 3
  /\ j.stack[1].kind = "lbrace" /\ j.stack[1].key = "hits"
  /\ j.stack[2].kind = "lbrace" /\ j.stack[2].key = "hits"
  /\ j.stack[3].kind = "["
  /\ Len(j.stack) > 3 \/ j.st \in {"text", "escape", "scalar"}

\* Whether the hit the document is in has so far something serde_json does not parse.
Odd(j, b, after) ==
  /\ InHit(after)
  /\ (InHit(j) /\ j.odd) \/ b = "u" \/ Len(after.stack) > 3 + RecursionLimit

\* What a byte should put out: nothing inside a hit, at its end the hit, shaped if it
\* parses, the byte itself elsewhere.  A number ends before the byte that follows it.
Due(j, b, after) ==
  LET hit == IF j.odd THEN "raw" ELSE "hit" IN
  IF InHit(after) THEN <<>>
  ELSE IF ~InHit(j) THEN <<b>>
  ELSE IF j.st = "scalar" /\ Len(j.stack) = 3 THEN <<hit, b>> ELSE <<hit>>

-----------------------------------------------------------------------------
(* SearchHitsScanner. *)

is_ws(b) == b = "sp"

NoSkip == [depth |-> 0, in_str |-> FALSE, esc |-> FALSE]
NoElem == [kind |-> "Unknown", depth |-> 0, in_str |-> FALSE, esc |-> FALSE, odd |-> FALSE]

NewScanner ==
  [phase |-> "SeekRoot", level |-> 0, key_is_hits |-> FALSE, key_buf |-> <<>>, key_esc |-> FALSE,
   skip |-> NoSkip, elem |-> NoElem, out |-> <<>>, redo |-> FALSE, stage |-> "Active"]

push(s, b) == [s EXCEPT !.out = Append(@, b)]
to(s, phase) == [s EXCEPT !.phase = phase]

\* Flow::Redo: the byte is looked at again in the new phase.
redo(s, phase) == [s EXCEPT !.phase = phase, !.redo = TRUE]

\* The expected byte leads on, a space waits, any other gives up on finding hits.
expected(s, b, want, then) == IF b = want THEN then ELSE IF is_ws(b) THEN push(s, b) ELSE to(push(s, b), "Passthrough")

at_seek_root(s, b) == expected(s, b, "lbrace", [push(s, b) EXCEPT !.level = 1, !.phase = "ObjExpectKey"])

at_obj_expect_key(s, b) ==
  expected(s, b, "q", [push(s, b) EXCEPT !.key_buf = <<>>, !.key_esc = FALSE, !.phase = "ObjReadKey"])

\* Mutant, in no specification.
decoded_key_is_hits_raw(raw) == raw = <<"h">>

\* The key is decoded before it is compared.
decoded_key_is_hits(raw) == raw \in {<<"h">>, <<"\\", "h">>}

at_obj_read_key(s, b) ==
  LET p == push(s, b) IN
  IF ~s.key_esc /\ b = "q"
  THEN [p EXCEPT !.key_is_hits = decoded_key_is_hits(s.key_buf), !.key_buf = <<>>, !.phase = "ObjExpectColon"]
  ELSE [p EXCEPT !.key_buf = Append(@, b), !.key_esc = ~s.key_esc /\ b = "\\"]

at_obj_expect_colon(s, b) == expected(s, b, ":", to(push(s, b), "ObjExpectValue"))

begin(b) ==
  [NoSkip EXCEPT !.in_str = (b = "q"), !.depth = IF b \in {"lbrace", "["} THEN 1 ELSE 0]

at_obj_expect_value(s, b) ==
  LET p == push(s, b) IN
  IF is_ws(b) THEN p
  ELSE IF ~s.key_is_hits THEN [p EXCEPT !.skip = begin(b), !.phase = "SkipValue"]
  ELSE IF s.level = 1 /\ b = "lbrace" THEN [p EXCEPT !.level = 2, !.phase = "ObjExpectKey"]
  ELSE to(p, IF s.level = 2 /\ b = "[" THEN "ArrExpectElem" ELSE "Passthrough")

\* A byte of a string: an escape passes, a quote ends it.
in_string(t, b) == [t EXCEPT !.esc = ~t.esc /\ b = "\\", !.in_str = t.esc \/ b # "q"]

\* A byte of an object or an array outside its strings.
in_struct(t, b) ==
  [t EXCEPT !.in_str = (b = "q"),
            !.depth = @ + (IF b \in {"lbrace", "["} THEN 1 ELSE 0) - (IF b \in {"rbrace", "]"} THEN 1 ELSE 0)]

at_skip_value(s, b) ==
  LET k == IF s.skip.in_str THEN in_string(s.skip, b) ELSE in_struct(s.skip, b) IN
  IF ~s.skip.in_str /\ s.skip.depth = 0
  THEN IF is_ws(b) \/ b \in {"comma", "rbrace"} THEN redo(s, "ObjExpectComma") ELSE push(s, b)
  ELSE [push(s, b) EXCEPT !.skip = k, !.phase = IF k.depth = 0 /\ ~k.in_str THEN "ObjExpectComma" ELSE @]

at_obj_expect_comma(s, b) == expected(s, b, "comma", to(push(s, b), "ObjExpectKey"))

at_arr_expect_elem(s, b) ==
  IF is_ws(b) THEN push(s, b)
  ELSE IF b = "]" THEN to(push(s, b), "Passthrough")
  ELSE redo([s EXCEPT !.elem = NoElem], "ArrReadElem")

\* Whether the byte, or the nesting it leads to, makes serde_json refuse the element.
refuses(b, depth) == b = "u" \/ depth > RecursionLimit

\* HitShaper::transform: the buffered element shaped if it parses, else its own bytes.
transform(e) == IF e.odd THEN "raw" ELSE "hit"

finish_elem(s) == [push(s, transform(s.elem)) EXCEPT !.elem = NoElem, !.phase = "ArrExpectComma"]

read_elem(s, b) ==
  LET e == CASE s.elem.kind = "Unknown" -> [begin(b) EXCEPT !.esc = FALSE]
             [] s.elem.in_str -> in_string([x \in DOMAIN NoSkip |-> s.elem[x]], b)
             [] OTHER -> in_struct([x \in DOMAIN NoSkip |-> s.elem[x]], b)
      kind == IF s.elem.kind # "Unknown" THEN s.elem.kind
              ELSE IF b = "q" THEN "Str" ELSE IF b \in {"lbrace", "["} THEN "Struct" ELSE "Scalar"
      read == [s EXCEPT !.elem = [kind |-> kind, depth |-> e.depth, in_str |-> e.in_str, esc |-> e.esc,
                                  odd |-> s.elem.odd \/ refuses(b, e.depth)]]
  IN IF s.elem.kind = "Scalar"
     THEN IF is_ws(b) \/ b \in {"comma", "]"} THEN redo(finish_elem(s), "ArrExpectComma") ELSE s
     ELSE IF kind # "Scalar" /\ e.depth = 0 /\ ~e.in_str THEN finish_elem(read) ELSE read

at_arr_expect_comma(s, b) == expected(s, b, "comma", to(push(s, b), "ArrExpectElem"))

at(s, b) ==
  CASE s.phase = "SeekRoot" -> at_seek_root(s, b)
    [] s.phase = "ObjExpectKey" -> at_obj_expect_key(s, b)
    [] s.phase = "ObjReadKey" -> at_obj_read_key(s, b)
    [] s.phase = "ObjExpectColon" -> at_obj_expect_colon(s, b)
    [] s.phase = "ObjExpectValue" -> at_obj_expect_value(s, b)
    [] s.phase = "SkipValue" -> at_skip_value(s, b)
    [] s.phase = "ObjExpectComma" -> at_obj_expect_comma(s, b)
    [] s.phase = "ArrExpectElem" -> at_arr_expect_elem(s, b)
    [] s.phase = "ArrReadElem" -> read_elem(s, b)
    [] s.phase = "ArrExpectComma" -> at_arr_expect_comma(s, b)
    [] s.phase = "Passthrough" -> push(s, b)

\* step(): no byte is looked at more than twice.
step(s, b) == LET f == at(s, b) IN IF f.redo THEN at([f EXCEPT !.redo = FALSE], b) ELSE f

\* finish(): an element that was not completed is dropped.
finish(s) == [NewScanner EXCEPT !.stage = "Done"]

-----------------------------------------------------------------------------
(* next_frame(): what the upstream sends, its end, its failure.  The scanner     *)
(* keeps its state between frames, so a frame of several bytes is several steps. *)

feed ==
  /\ scan.stage = "Active"
  /\ \E m \in Spaced(json) :
       /\ json' = [m[2] EXCEPT !.due = Due(json, m[1], m[2]), !.odd = Odd(json, m[1], m[2])]
       /\ scan' = step([scan EXCEPT !.out = <<>>], m[1])

\* The upstream may also end in the middle of its document.
UpstreamEnds ==
  /\ scan.stage = "Active"
  /\ scan' = finish(scan)
  /\ json' = [Unwritten EXCEPT !.due = <<>>]

UpstreamFails ==
  /\ scan.stage = "Active"
  /\ scan' = [NewScanner EXCEPT !.stage = "Done", !.out = <<"error">>]
  /\ json' = [Unwritten EXCEPT !.due = <<"error">>]

ScanOff == json = Unwritten /\ scan = [NewScanner EXCEPT !.stage = "Done"]

ScanInit == json = Unwritten /\ scan = NewScanner

ScanNext == feed \/ UpstreamEnds \/ UpstreamFails

\* One response, byte by byte.
ScanSpec == ScanInit /\ [][ScanNext]_scanVars

-----------------------------------------------------------------------------
(* Property. *)

\* Whatever the response holds before, in and after its hits - brackets and quotes in
\* strings, hits under other keys, keys written as escapes, any spacing - and wherever
\* it is cut off, exactly the elements of hits.hits are held back, and each is put out
\* at once when it ends: shaped, unless that one element itself has what serde_json
\* does not parse, and then as the upstream wrote it.  Every other byte goes out as it
\* came.  A hit that does not parse leaves the ones around it shaped (search_scan.rs
\* step and transform, search_stream.rs next_frame); the buffered path refuses such a
\* response as a whole (read.rs shape_hits).
ShapedAsBuffered == scan.out = json.due
=============================================================================
