------------------------------ MODULE NomInput ------------------------------
(***************************************************************************)
(* The cursor, the error record and the parsers without an inner parser of *)
(* include/nanom/nom.hpp.  A parser is an operator from a cursor to a      *)
(* result: done(value, rest), or an error record.  A predicate on bytes is *)
(* the set of the bytes that satisfy it; the static "expected" texts of    *)
(* errors are left out.                                                    *)
(***************************************************************************)
EXTENDS Integers, Sequences, SequencesExt, FiniteSets

CONSTANTS max_incomplete_needed,  \* cap of error::needed, 64 KiB in the code
          max_context             \* context frames an error holds, 4 in the code

ASSUME NomAssumption == max_incomplete_needed \in Nat \ {0} /\ max_context \in Nat

Byte == 0 .. 255
Least(a, b) == IF a <= b THEN a ELSE b

-----------------------------------------------------------------------------
(* The cursor [first, last) of a buffer.  A span or string_view value is   *)
(* the pair of positions it lies between: parsers never copy.              *)

from(buf) == [buf |-> buf, first |-> 0, last |-> Len(buf), live |-> FALSE]
streaming(in) == [in EXCEPT !.live = TRUE]

size(in) == in.last - in.first
byte(in, i) == in.buf[in.first + i + 1]
advance(in, n) == [in EXCEPT !.first = @ + n]
with_range(in, span) == [in EXCEPT !.first = span.from, !.last = span.to]
take_span(in, n) == [from |-> in.first, to |-> in.first + n]
Bytes(in, n) == SubSeq(in.buf, in.first + 1, in.first + n)

-----------------------------------------------------------------------------
(* Results.                                                                *)

done(v, rest) == [ok |-> TRUE, value |-> v, rest |-> rest]

make_err(at) ==
  [ok |-> FALSE, kind |-> "err", offset |-> at.first, needed |-> 0, ctx |-> <<>>]

make_incomplete(at, needed) ==
  [ok |-> FALSE, kind |-> IF at.live THEN "incomplete" ELSE "err", offset |-> at.last,
   needed |-> Least(needed, max_incomplete_needed), ctx |-> <<>>]

push_context(e, label, off) ==
  IF Len(e.ctx) < max_context
    THEN [e EXCEPT !.ctx = Append(@, [label |-> label, offset |-> off])]
    ELSE e

\* The window of bytes render() shows around an error's offset.
render(e, whole) ==
  LET off == Least(e.offset, whole.last)
  IN  [lo |-> IF off >= 8 THEN off - 8 ELSE 0, hi |-> Least(off + 8, whole.last),
       clamped |-> e.offset > whole.last]

-----------------------------------------------------------------------------
(* Bytes.                                                                  *)

lower(c) == IF c \in 65 .. 90 THEN c + 32 ELSE c

tag(in, pattern) ==
  LET n == Len(pattern)
  IN  IF size(in) < n THEN make_incomplete(in, n - size(in))
      ELSE IF Bytes(in, n) # pattern THEN make_err(in)
      ELSE done(take_span(in, n), advance(in, n))

tag_no_case(in, pattern) ==
  LET n == Len(pattern)
  IN  IF size(in) < n THEN make_incomplete(in, n - size(in))
      ELSE IF \E i \in 1 .. n : lower(byte(in, i - 1)) # lower(pattern[i]) THEN make_err(in)
      ELSE done(take_span(in, n), advance(in, n))

\* Mutant of take: asks for the whole length again.
takeWhole(in, n) ==
  IF size(in) < n THEN make_incomplete(in, n) ELSE done(take_span(in, n), advance(in, n))

take(in, n) ==
  IF size(in) < n THEN make_incomplete(in, n - size(in))
                  ELSE done(take_span(in, n), advance(in, n))

\* The length of the longest prefix of at most max bytes, all of them in S.
RunLength(in, S, max) ==
  LET cap == Least(max, size(in))
  IN  CHOOSE i \in 0 .. cap : /\ \A j \in 0 .. i - 1 : byte(in, j) \in S
                              /\ i < cap => byte(in, i) \notin S

take_pred(in, S, min, max) ==
  LET i == RunLength(in, S, max)
  IN  IF i >= min THEN done(take_span(in, i), advance(in, i))
      ELSE IF i = size(in) THEN make_incomplete(in, min - i)
      ELSE make_err(advance(in, i))

nmax == 1000000    \* numeric_limits<size_t>::max(), longer than any buffer here

take_while(in, S) == take_pred(in, S, 0, nmax)
take_while1(in, S) == take_pred(in, S, 1, nmax)
take_while_m_n(in, m, n, S) == take_pred(in, S, m, n)
take_till(in, S) == take_pred(in, Byte \ S, 0, nmax)
take_till1(in, S) == take_pred(in, Byte \ S, 1, nmax)
is_a(in, set) == take_pred(in, set, 1, nmax)
is_not(in, set) == take_pred(in, Byte \ set, 1, nmax)

\* std::search answers end() when the needle is absent, and also when the
\* haystack is empty.
take_until(in, needle) ==
  LET Found == {n \in 0 .. size(in) - 1 : /\ n + Len(needle) <= size(in)
                                          /\ Bytes(advance(in, n), Len(needle)) = needle}
      n == CHOOSE i \in Found : \A j \in Found : i <= j
  IN  IF Found = {} THEN make_incomplete(in, 1)
                    ELSE done(take_span(in, n), advance(in, n))

-----------------------------------------------------------------------------
(* Characters.                                                             *)

satisfy(in, S) ==
  IF size(in) = 0 THEN make_incomplete(in, 1)
  ELSE IF byte(in, 0) \notin S THEN make_err(in)
  ELSE done(byte(in, 0), advance(in, 1))

chr(in, c) == satisfy(in, {c})
one_of(in, set) == satisfy(in, set)
none_of(in, set) == satisfy(in, Byte \ set)
anychar(in) == satisfy(in, Byte)

is_alpha == 65 .. 90 \cup 97 .. 122
is_digit == 48 .. 57
is_hex == is_digit \cup 65 .. 70 \cup 97 .. 102
is_oct == 48 .. 55
is_alnum == is_alpha \cup is_digit
is_space == {32, 9}
is_mspace == {32, 9, 13, 10}

klass(in, S, min) == take_pred(in, S, min, nmax)

newline(in) == chr(in, 10)
tab(in) == chr(in, 9)
crlf(in) == tag(in, <<13, 10>>)

\* A lone newline is answered with a static string, not with a view of the
\* buffer.
line_ending(in) ==
  IF size(in) = 0 THEN make_incomplete(in, 1)
  ELSE IF byte(in, 0) = 10 THEN done([static |-> <<10>>], advance(in, 1))
  ELSE IF byte(in, 0) # 13 THEN make_err(in)
  ELSE IF size(in) < 2 THEN make_incomplete(in, 1)
  ELSE IF byte(in, 1) = 10 THEN done(take_span(in, 2), advance(in, 2))
  ELSE make_err(in)

not_line_ending(in) == take_pred(in, Byte \ {13, 10}, 0, nmax)

eof(in) == IF size(in) # 0 THEN make_err(in) ELSE done(<<>>, in)
rest(in) == done(take_span(in, size(in)), advance(in, size(in)))
rest_len(in) == done(size(in), in)
=============================================================================
