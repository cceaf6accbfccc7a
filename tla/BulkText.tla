------------------------------ MODULE BulkText ------------------------------
(***************************************************************************)
(* The lines of a bulk body, read whole (rewrite/src/bulk.rs parse_bulk,    *)
(* ndjson.rs) or from frames of any size as they arrive (engine/src/bulk.rs *)
(* NdjsonReader).  Bytes are classes: "I" an action that takes a source,    *)
(* "D" a delete, "S" any other JSON value, "?" what is not JSON, "r" and    *)
(* "n" carriage return and newline.                                         *)
(***************************************************************************)
EXTENDS Naturals, Sequences, SequencesExt

CONSTANTS
  MaxBulk, MaxFrame,   \* bounds: bytes of a body and of a frame
  MaxLineBytes         \* MAX_LINE_BYTES

ASSUME BulkTextAssumption == MaxBulk \in Nat /\ MaxFrame \in Nat /\ MaxLineBytes \in Nat

VARIABLE reader   \* the body, how much of it has arrived, and the reader's state

Bytes == {"I", "D", "S", "?", "r", "n"}

is_blank(line) == \A k \in DOMAIN line : line[k] = "r"

\* validate(): one value on the line, and which.
is_json(line) ==
  \E k \in DOMAIN line : line[k] \notin {"r", "?"} /\ \A m \in DOMAIN line : m # k => line[m] = "r"

said(line) == line[CHOOSE k \in DOMAIN line : line[k] # "r"]

\* A batch so far: the operations, the action that waits for its source, the end.
NoBatch == [items |-> <<>>, action |-> "none", outcome |-> "reading"]

has_source(action) == action # "D"

parse_action_line(line) ==
  IF ~is_json(line) THEN "InvalidJson" ELSE IF said(line) = "S" THEN "MalformedBulkAction" ELSE said(line)

Errors == {"InvalidJson", "MalformedBulkAction"}

-----------------------------------------------------------------------------
(* parse_bulk(): the whole body. *)

\* The line that ends before byte k, from behind the newline before it.
line_before(body, k) ==
  LET start == CHOOSE m \in 0 .. k - 1 : (m = 0 \/ body[m] = "n") /\ \A i \in m + 1 .. k - 1 : body[i] # "n"
  IN SubSeq(body, start + 1, k - 1)

\* One more line, an action or the source of the action before it; blank ones are passed
\* over, and an error is the end.
take(b, line) ==
  IF is_blank(line) \/ b.outcome # "reading" THEN b
  ELSE IF b.action # "none"
  THEN IF is_json(line) THEN [b EXCEPT !.items = Append(@, <<b.action, said(line)>>), !.action = "none"]
       ELSE [b EXCEPT !.outcome = "InvalidJson"]
  ELSE LET a == parse_action_line(line)
       IN IF a \in Errors THEN [b EXCEPT !.outcome = a]
          ELSE IF has_source(a) THEN [b EXCEPT !.action = a]
          ELSE [b EXCEPT !.items = Append(@, <<a, "none">>)]

\* non_blank_lines(): the lines that end in the first k bytes, taken one by one.
lines_taken(body) ==
  LET taken[k \in 0 .. Len(body)] ==
        IF k = 0 THEN NoBatch
        ELSE IF body[k] = "n" THEN take(taken[k - 1], line_before(body, k)) ELSE taken[k - 1]
  IN taken

parse_bulk(body) ==
  LET all == take(lines_taken(body)[Len(body)], line_before(body, Len(body) + 1))
  IN IF all.outcome # "reading" THEN all
     ELSE [all EXCEPT !.outcome = IF all.action = "none" THEN "ok" ELSE "MalformedBulkAction", !.action = "none"]

-----------------------------------------------------------------------------
(* NdjsonReader: the same from frames. *)

NewReader(body) == [body |-> body, pos |-> 0, buf |-> <<>>, scan |-> 0, done |-> FALSE, batch |-> NoBatch]

\* next_op() with the line it waits for: parse_bulk_action(), or into_item().
next_op(b, line) ==
  LET a == parse_action_line(line) IN
  CASE b.action # "none" /\ is_json(line) -> [b EXCEPT !.items = Append(@, <<b.action, said(line)>>), !.action = "none"]
    [] b.action # "none" /\ ~is_json(line) -> [b EXCEPT !.outcome = "InvalidJson"]
    [] b.action = "none" /\ a \in Errors -> [b EXCEPT !.outcome = a]
    [] OTHER -> IF has_source(a) THEN [b EXCEPT !.action = a] ELSE [b EXCEPT !.items = Append(@, <<a, "none">>)]

\* next_line() looks for a newline behind what has been searched already.
Searching == reader.batch.outcome = "reading" /\ reader.scan <= Len(reader.buf)

\* Mutant, in no specification.
Newlines_off_by_one(r) == {k \in r.scan + 2 .. Len(r.buf) : r.buf[k] = "n"}

Newlines(r) == {k \in r.scan + 1 .. Len(r.buf) : r.buf[k] = "n"}

\* A buffer shorter than what has been searched: the slice is out of range.
slice_panics ==
  /\ reader.batch.outcome = "reading" /\ reader.scan > Len(reader.buf)
  /\ reader' = [reader EXCEPT !.batch.outcome = "panic", !.batch.action = "none"]

\* Where the search for a newline resumes once a line has been taken.
resumed(r, nl) == 0

\* next_line(): the line up to the first newline, without a carriage return before it;
\* a blank one is passed over.
take_line ==
  LET nl == CHOOSE k \in Newlines(reader) : \A m \in Newlines(reader) : k <= m
      line == SubSeq(reader.buf, 1, nl - 1)
      cut == IF line # <<>> /\ Last(line) = "r" THEN Front(line) ELSE line
      rest == [reader EXCEPT !.buf = SubSeq(@, nl + 1, Len(@)), !.scan = resumed(reader, nl)]
  IN /\ Searching /\ Newlines(reader) # {}
     /\ reader' = IF is_blank(cut) THEN rest ELSE [rest EXCEPT !.batch = next_op(@, cut)]

\* The end of the body: the rest is a line if it is not blank; scan is left as it is.
at_end ==
  /\ Searching /\ Newlines(reader) = {} /\ reader.done
  /\ reader' =
       IF ~is_blank(reader.buf)
       THEN [reader EXCEPT !.buf = <<>>, !.scan = Len(reader.buf), !.batch = next_op(@, reader.buf)]
       ELSE [reader EXCEPT !.batch.outcome = IF reader.batch.action = "none" THEN "ok" ELSE "MalformedBulkAction",
                           !.batch.action = "none"]

over_cap(buf) == Len(buf) > MaxLineBytes

too_long ==
  /\ Searching /\ Newlines(reader) = {} /\ ~reader.done
  /\ over_cap(reader.buf)
  /\ reader' = [reader EXCEPT !.batch.outcome = "PayloadTooLarge", !.batch.action = "none"]

\* A frame arrives, or the end of the body, or its failure.
frame ==
  /\ Searching /\ Newlines(reader) = {} /\ ~reader.done
  /\ ~over_cap(reader.buf)
  /\ LET waiting == [reader EXCEPT !.scan = Len(reader.buf)] IN
     \/ \E k \in 1 .. MaxFrame :
          /\ reader.pos + k <= Len(reader.body)
          /\ reader' = [waiting EXCEPT !.buf = @ \o SubSeq(reader.body, reader.pos + 1, reader.pos + k), !.pos = @ + k]
     \/ reader.pos = Len(reader.body) /\ reader' = [waiting EXCEPT !.done = TRUE]
     \/ reader.pos < Len(reader.body) /\ reader' = [waiting EXCEPT !.batch.outcome = "Internal", !.batch.action = "none"]

BulkTextInit == \E body \in BoundedSeq(Bytes, MaxBulk) : reader = NewReader(body)

BulkTextOff == reader = [NewReader(<<>>) EXCEPT !.batch.outcome = "off"]

BulkTextNext == take_line \/ at_end \/ too_long \/ frame \/ slice_panics

BulkTextSpec == BulkTextInit /\ [][BulkTextNext]_reader

-----------------------------------------------------------------------------
(* Properties. *)

\* However a body is cut into frames - inside a line, between carriage return and
\* newline, with blank lines - what is read of it as it arrives are the operations,
\* and in the end the error, that reading it whole gives (bulk.rs next_line, next_op,
\* rewrite/bulk.rs parse_bulk).
StreamedAsWhole ==
  LET whole == parse_bulk(reader.body) IN
  /\ reader.batch.outcome \in Errors \cup {"ok"} =>
       reader.batch.items = whole.items /\ reader.batch.outcome = whole.outcome
  /\ IsPrefix(reader.batch.items, whole.items)

\* A body is answered whether or not its last line ends in a newline (bulk.rs
\* next_line).
LastLineRead == reader.batch.outcome # "panic"

\* A body whose last line ends in a newline is never the cause of a panic, nor is one
\* whose last line is refused (bulk.rs next_line).
PanicsOnlyUnterminated ==
  reader.batch.outcome = "panic" => reader.body # <<>> /\ Last(reader.body) # "n" /\ reader.done

\* What is held of a line stays within its cap and a frame, and only a line over the
\* cap is refused for its size (bulk.rs next_line).
LineBounded ==
  /\ Len(reader.buf) <= MaxLineBytes + MaxFrame
  /\ reader.batch.outcome = "PayloadTooLarge" =>
       \E i \in 1 .. Len(reader.body) : /\ i + MaxLineBytes <= Len(reader.body)
                                        /\ \A k \in i .. i + MaxLineBytes : reader.body[k] # "n"

\* Reading a bulk body as it arrives is reading it whole, within bounded memory, and
\* without a panic for any body that ends in a newline.
ReadsAsWhole == StreamedAsWhole /\ PanicsOnlyUnterminated /\ LineBounded
=============================================================================
