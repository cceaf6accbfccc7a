------------------------------ MODULE JsonText ------------------------------
(***************************************************************************)
(* The proxy's own JSON reader (core/src/json.rs) and the splicing of a     *)
(* field into a document without parsing it (rewrite/src/fields.rs).  A     *)
(* text is written token by token along the grammar, and may take one wrong *)
(* token at any point; the reader is checked against the grammar.  A wrong  *)
(* escape inside a string leaves the rest of the text as it was, so there   *)
(* may be several: they are recorded, and no text with one is well formed.  *)
(*                                                                          *)
(* Tokens: "a", "b" and "f" are strings, "~" a string with an escape that   *)
(* JSON does not have, "1" a number, "n" null, "?" what no value starts     *)
(* with, as a control byte or an unfinished string.                         *)
(***************************************************************************)
EXTENDS StringScan, SequencesExt

CONSTANTS MaxTokens, MaxNest, MaxLex   \* bounds

VARIABLE doc   \* the text, where its grammar stands, and what a reader should find in it

-----------------------------------------------------------------------------
(* The grammar, and wrong escapes. *)

Tokens == {"{", "}", "[", "]", ":", ",", "a", "~", "1", "n", "?"}
Scalars == {"a", "~", "1", "n"}

Blank == [text |-> <<>>, st |-> "value", stack |-> <<>>, keys |-> <<>>, found |-> {}, bad |-> {}]

Frame(k) == [kind |-> k, keys |-> {}, key |-> ""]

After(d) == [d EXCEPT !.st = IF d.stack = <<>> THEN "end" ELSE "after"]

Close(d) == After([d EXCEPT !.stack = Front(@)])

\* The keys that lead to the value being written, if only objects do.
PathHere(d) ==
  IF \A k \in DOMAIN d.stack : d.stack[k].kind = "{" THEN {[k \in DOMAIN d.stack |-> d.stack[k].key]} ELSE {}

Scalar(d, t) ==
  After([d EXCEPT !.bad = @ \cup (IF t = "~" THEN {"value"} ELSE {}), !.found = @ \cup {<<p, t>> : p \in IF t \in {"a", "1"} THEN PathHere(d) ELSE {}}])

\* Keys are not repeated.
Key(d, t) ==
  [d EXCEPT !.st = "colon", !.bad = @ \cup (IF t = "~" THEN {"key"} ELSE {}),
            !.stack = [@ EXCEPT ![Len(@)].keys = @ \cup {t}, ![Len(@)].key = t],
            !.keys = IF Len(d.stack) = 1 THEN Append(@, t) ELSE @]

ValueTokens(d) ==
  {<<t, Scalar(d, t)>> : t \in Scalars}
    \cup IF Len(d.stack) = MaxNest THEN {}
         ELSE {<<"{", [d EXCEPT !.stack = Append(@, Frame("{")), !.st = "first"]>>,
               <<"[", [d EXCEPT !.stack = Append(@, Frame("[")), !.st = "elem"]>>}

KeyTokens(d) == {<<t, Key(d, t)>> : t \in {"a", "b", "~"} \ Last(d.stack).keys}

\* Bound: a space at most.
NextTokens(d) ==
  (IF " " \in Range(d.text) THEN {} ELSE {<<" ", d>>}) \cup
  CASE d.st = "value" -> ValueTokens(d)
    [] d.st = "elem" -> ValueTokens(d) \cup {<<"]", Close(d)>>}
    [] d.st = "first" -> KeyTokens(d) \cup {<<"}", Close(d)>>}
    [] d.st = "key" -> KeyTokens(d)
    [] d.st = "colon" -> {<<":", [d EXCEPT !.st = "value"]>>}
    [] d.st = "after" -> IF Last(d.stack).kind = "{" THEN {<<",", [d EXCEPT !.st = "key"]>>, <<"}", Close(d)>>}
                         ELSE {<<",", [d EXCEPT !.st = "value"]>>, <<"]", Close(d)>>}
    [] d.st = "end" -> {}

\* A document but for its escapes, and a document.
Complete == doc.st = "end"
WellFormed == Complete /\ doc.bad = {}

-----------------------------------------------------------------------------
(* json.rs: a position in the text t; 0 where the reader gives up. *)

peek(t, i) == IF i \in DOMAIN t THEN t[i] ELSE "eof"

RECURSIVE skip_ws(_, _)
skip_ws(t, i) == IF peek(t, i) = " " THEN skip_ws(t, i + 1) ELSE i

expect(t, i, token) == IF i # 0 /\ peek(t, i) = token THEN i + 1 ELSE 0

\* skip_string() looks at the length of an escape only; string_decode() at its meaning.
skip_string(t, i) == IF peek(t, i) \in {"a", "b", "f", "~"} THEN i + 1 ELSE 0
string_decode(t, i) == IF peek(t, i) \in {"a", "b", "f"} THEN i + 1 ELSE 0

number(t, i) == expect(t, i, "1")
literal(t, i) == expect(t, i, "n")

RECURSIVE skip_value(_, _), skip_members(_, _), skip_elements(_, _)

skip_array(t, i) ==
  LET j == skip_ws(t, i + 1) IN IF peek(t, j) = "]" THEN j + 1 ELSE skip_elements(t, i + 1)

skip_elements(t, i) ==
  LET v == skip_value(t, i)
      j == skip_ws(t, v)
  IN IF v = 0 THEN 0
     ELSE CASE peek(t, j) = "," -> skip_elements(t, j + 1)
            [] peek(t, j) = "]" -> j + 1
            [] OTHER -> 0

skip_object(t, i) ==
  LET j == skip_ws(t, i + 1) IN IF peek(t, j) = "}" THEN j + 1 ELSE skip_members(t, i + 1)

skip_members(t, i) ==
  LET k == skip_string(t, skip_ws(t, i))
      c == IF k = 0 THEN 0 ELSE expect(t, skip_ws(t, k), ":")
      v == IF c = 0 THEN 0 ELSE skip_value(t, c)
      j == skip_ws(t, v)
  IN IF v = 0 THEN 0
     ELSE CASE peek(t, j) = "," -> skip_members(t, j + 1)
            [] peek(t, j) = "}" -> j + 1
            [] OTHER -> 0

skip_value(t, i) ==
  LET j == skip_ws(t, i) IN
  CASE peek(t, j) = "{" -> skip_object(t, j)
    [] peek(t, j) = "[" -> skip_array(t, j)
    [] peek(t, j) \in {"a", "b", "f", "~"} -> skip_string(t, j)
    [] peek(t, j) = "n" -> literal(t, j)
    [] OTHER -> number(t, j)

validate(t) == LET v == skip_value(t, 1) IN v # 0 /\ peek(t, skip_ws(t, v)) = "eof"

\* object_members(): the keys at the top, decoded, and where the object ends.
RECURSIVE members(_, _, _)
members(t, i, keys) ==
  LET k == skip_ws(t, i)
      e == string_decode(t, k)
      c == IF e = 0 THEN 0 ELSE expect(t, skip_ws(t, e), ":")
      v == IF c = 0 THEN 0 ELSE skip_value(t, c)
      j == skip_ws(t, v)
  IN IF v = 0 THEN [end |-> 0, keys |-> keys]
     ELSE CASE peek(t, j) = "," -> members(t, j + 1, Append(keys, t[k]))
            [] peek(t, j) = "}" -> [end |-> j + 1, keys |-> Append(keys, t[k])]
            [] OTHER -> [end |-> 0, keys |-> keys]

object_top_level(t) ==
  LET o == skip_ws(t, 1)
      j == skip_ws(t, o + 1)
      m == IF peek(t, j) = "}" THEN [end |-> j + 1, keys |-> <<>>] ELSE members(t, o + 1, <<>>)
  IN [ok |-> peek(t, o) = "{" /\ m.end # 0 /\ peek(t, skip_ws(t, m.end)) = "eof",
      insert_at |-> o, empty |-> m.keys = <<>>, keys |-> m.keys]

\* enter_field(): to the value of the first member with a key.
RECURSIVE to_member(_, _, _)
to_member(t, i, key) ==
  LET k == skip_ws(t, i)
      e == string_decode(t, k)
      c == IF e = 0 THEN 0 ELSE expect(t, skip_ws(t, e), ":")
      v == IF c = 0 THEN 0 ELSE skip_value(t, c)
      j == skip_ws(t, v)
  IN IF c = 0 THEN 0
     ELSE IF t[k] = key THEN skip_ws(t, c)
     ELSE IF v # 0 /\ peek(t, j) = "," THEN to_member(t, j + 1, key) ELSE 0

\* Mutant, in no specification.
enter_field_anywhere(t, i, key) ==
  LET at == {k \in i .. Len(t) - 1 : t[k] = key /\ t[k + 1] = ":"}
  IN IF peek(t, skip_ws(t, i)) # "{" \/ at = {} THEN 0 ELSE skip_ws(t, Min(at) + 2)

enter_field(t, i, key) ==
  LET o == skip_ws(t, i) IN
  IF peek(t, o) # "{" \/ peek(t, skip_ws(t, o + 1)) = "}" THEN 0 ELSE to_member(t, o + 1, key)

\* scalar_at_path(): the scalar, or "none".
scalar_at_path(t, path) ==
  LET i == FoldLeft(LAMBDA at, key : IF at = 0 THEN 0 ELSE enter_field(t, at, key), 1, path)
      j == skip_ws(t, i)
  IN IF i # 0 /\ peek(t, j) \in {"a", "b", "1"} THEN t[j] ELSE "none"

-----------------------------------------------------------------------------
(* fields.rs. *)

\* Mutant, in no specification.
injected_always_comma(t, name) ==
  LET top == object_top_level(t)
  IN SubSeq(t, 1, top.insert_at) \o <<name, ":", "1", ",">> \o SubSeq(t, top.insert_at + 1, Len(t))

\* The field goes in behind the opening brace.
injected(t, name) ==
  LET top == object_top_level(t)
  IN SubSeq(t, 1, top.insert_at) \o <<name, ":", "1">> \o (IF top.empty THEN <<>> ELSE <<",">>)
       \o SubSeq(t, top.insert_at + 1, Len(t))

\* inject_fields_bytes(): refused for what is not an object or has the field already.
inject_fields_bytes(t, name) ==
  LET top == object_top_level(t) IN
  IF top.ok /\ name \notin Range(top.keys) THEN injected(t, name) ELSE <<>>

-----------------------------------------------------------------------------
\* A further token, along the grammar or wrong.
WriteToken ==
  /\ Len(doc.text) < MaxTokens /\ doc.st \notin {"wrong", "lex"}
  /\ \/ \E n \in NextTokens(doc) : doc' = [n[2] EXCEPT !.text = Append(@, n[1])]
     \/ \E t \in Tokens \ {n[1] : n \in NextTokens(doc)} :
          doc' = [Blank EXCEPT !.text = Append(doc.text, t), !.st = "wrong"]

\* The bytes of a string are scanned on their own.
JsonInit ==
  doc \in {Blank} \cup {[Blank EXCEPT !.text = t, !.st = "lex"] : t \in BoundedSeq({"a", "?"}, MaxLex)}

JsonOff == doc = [Blank EXCEPT !.st = "lex"]

-----------------------------------------------------------------------------
(* Properties. *)

\* A document is accepted, and what is accepted is a document but for escapes in strings
\* that are skipped: no prefix of a document, no trailing token, nothing wrong between
\* strings passes.  Whoever asks for the keys at the top sees no wrong escape in them
\* (json.rs validate, object_top_level; skip_string looks at an escape's length only,
\* where json.rs:16 calls the scanner strict).
ValidateExact ==
  doc.st # "lex" =>
    /\ WellFormed => validate(doc.text)
    /\ validate(doc.text) => WellFormed \/ (Complete /\ doc.bad # {})
    /\ object_top_level(doc.text).ok => "~" \notin Range(doc.keys)

\* Splicing a field into an object, empty or not and however spaced, gives
\* an object, well formed if the first was, with that field and the members it had, and a field that is
\* there already is never doubled (fields.rs inject_fields_bytes).
SpliceSound ==
  LET in == inject_fields_bytes(doc.text, "f")
      top == object_top_level(doc.text)
  IN doc.st # "lex" =>
     /\ top.ok <=> Complete /\ peek(doc.text, skip_ws(doc.text, 1)) = "{" /\ "~" \notin Range(doc.keys)
     /\ top.ok => /\ top.keys = doc.keys
                  /\ validate(in) /\ object_top_level(in).keys = <<"f">> \o doc.keys
                  /\ \A k \in Range(doc.keys) : inject_fields_bytes(doc.text, k) = <<>>

\* A path leads to the scalar that lies at it in the document, past members of the
\* same name at other depths, and to nothing where there is none (json.rs
\* scalar_at_path).
PathExact ==
  Complete /\ "key" \notin doc.bad =>
    \A path \in BoundedSeq({"a", "b"}, MaxNest) :
      LET r == scalar_at_path(doc.text, path)
      IN {r} \ {"none"} = {f[2] : f \in {g \in doc.found : g[1] = path}}

\* Looking several bytes at a time finds the first boundary, wherever it falls in a
\* step or in the rest (json.rs next_string_boundary).
BoundaryExact ==
  doc.st = "lex" =>
    LET b == {k \in DOMAIN doc.text : doc.text[k] = "?"}
    IN next_string_boundary(doc.text) = IF b = {} THEN 0 ELSE Min(b)

\* The reader is exact: it accepts the grammar's documents and, of other texts, only those
\* that differ from one by an escape in a string it skips, finds what lies at a path and
\* no other, and sees every boundary of a string.
ReaderExact == ValidateExact /\ PathExact /\ BoundaryExact
=============================================================================
