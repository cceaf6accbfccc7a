----------------------------- MODULE StringScan ------------------------------
(***************************************************************************)
(* How the JSON reader (core/src/json.rs) finds the end of the plain bytes  *)
(* of a string: several bytes at a time.  "a", "b", "1" and "n" stand for   *)
(* plain bytes, all else for a quote, a backslash or a control byte.        *)
(***************************************************************************)
EXTENDS Naturals, Sequences, FiniteSets, FiniteSetsExt

CONSTANT SimdStep   \* how many bytes are looked at together

ASSUME StepAssumption == SimdStep \in Nat \ {0}

is_string_boundary(c) == c \notin {"a", "b", "1", "n"}

\* The first quote, backslash or control byte, SimdStep bytes at a time and then the
\* rest one by one.
next_string_boundary(bytes) ==
  LET whole == Len(bytes) \div SimdStep
      mask(i) == {k \in 1 .. SimdStep : is_string_boundary(bytes[i * SimdStep + k])}
      chunks == {i \in 0 .. whole - 1 : mask(i) # {}}
      tail == {k \in whole * SimdStep + 1 .. Len(bytes) : is_string_boundary(bytes[k])}
  IN IF chunks # {} THEN Min(chunks) * SimdStep + Min(mask(Min(chunks)))
     ELSE IF tail # {} THEN Min(tail) ELSE 0
=============================================================================
