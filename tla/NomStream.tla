----------------------------- MODULE NomStream ------------------------------
(***************************************************************************)
(* A caller of the combinators in streaming mode: it parses the bytes it   *)
(* has as the prefix of a stream, and parses again from the start whenever *)
(* more have arrived (nom.hpp's streaming(), errk::incomplete).  When the  *)
(* source ends it parses what it has in whole-buffer mode.                 *)
(***************************************************************************)
EXTENDS NomCombinators

CONSTANTS Families,   \* records: terms, and the byte values and length of their streams
          MaxChunk    \* the most bytes that arrive at once

VARIABLES grammar,    \* the caller's parser
          source,     \* the byte values and the longest length of its stream
          have,       \* the bytes received so far
          closed,     \* the source has ended
          answer      \* the result of the last parse

vars == <<grammar, source, have, closed, answer>>

Init == /\ \E F \in Families : grammar \in F.terms /\ source = [alphabet |-> F.alphabet, most |-> F.most]
        /\ have = <<>>
        /\ closed = FALSE
        /\ answer = Parse(grammar, streaming(from(<<>>)))

\* More bytes arrive; the caller parses again from the start.
Refill ==
  /\ ~closed
  /\ \E n \in 1 .. MaxChunk : \E chunk \in [1 .. n -> source.alphabet] :
       /\ Len(have) + n <= source.most
       /\ have' = have \o chunk
       /\ answer' = Parse(grammar, streaming(from(have')))
  /\ UNCHANGED <<grammar, source, closed>>

\* The source ends; the bytes there are become the whole buffer.
Close ==
  /\ ~closed
  /\ closed' = TRUE
  /\ answer' = Parse(grammar, from(have))
  /\ UNCHANGED <<grammar, source, have>>

Next == Refill \/ Close
Spec == Init /\ [][Next]_vars

-----------------------------------------------------------------------------
(* Which parsers keep their word when the stream grows.                    *)

\* Parsers that read the end of the bytes received as an end: they answer
\* before the stream has decided.
EndReaders == {"take_while", "take_while1", "take_while_m_n", "take_till", "take_till1", "is_a",
               "is_not", "klass", "not_line_ending", "eof", "rest", "rest_len", "dec", "hex",
               "double"}

\* Combinators that turn an inner incomplete into an answer of their own.
Swallowers == {"opt", "not_", "separated_list0", "separated_list1", "complete", "all_consuming"}

\* The slice length_value hands to its second parser is already complete.
RECURSIVE StreamSafe(_)
StreamSafe(g) ==
  /\ g.p \notin EndReaders \cup Swallowers
  /\ \A x \in DOMAIN g \cap (IF g.p = "length_value" THEN {"a"} ELSE {"a", "b", "c"}) :
       StreamSafe(g[x])
  /\ "ps" \in DOMAIN g => \A i \in DOMAIN g.ps : StreamSafe(g.ps[i])
  /\ g.p = "flat_map" => \A v \in DOMAIN g.f : StreamSafe(g.f[v])

Decided(r) == r.ok \/ r.kind # "incomplete"

\* What a result says, apart from the cursor's end and mode.
Says(r) == IF r.ok THEN [value |-> r.value, at |-> r.rest.first]
                   ELSE [error |-> r.kind, at |-> r.offset, ctx |-> r.ctx]

-----------------------------------------------------------------------------
(* Properties.                                                             *)

\* No parser moves its cursor or reports an error past the bytes received, and
\* the bounded fields of an error stay within their bounds (input::advance has
\* no check of its own; make_incomplete and push_context cap needed and ctx).
AnswerInBounds ==
  IF answer.ok
    THEN answer.rest.first \in 0 .. Len(have) /\ answer.rest.last = Len(have)
    ELSE /\ answer.offset \in 0 .. Len(have)
         /\ LET shown == render(answer, from(have))
            IN  ~shown.clamped /\ 0 <= shown.lo /\ shown.lo <= shown.hi /\ shown.hi <= Len(have)
         /\ answer.needed <= max_incomplete_needed
         /\ Len(answer.ctx) <= max_context
         /\ answer.kind = "incomplete" => ~closed /\ answer.needed > 0

\* A slice is parsed in the mode of its stream, so a repetition that reaches the
\* end of a complete slice still asks for more there.
RECURSIVE Slices(_)
Slices(g) == \/ g.p = "length_value"
             \/ "a" \in DOMAIN g /\ Slices(g.a)

\* Once a stream-safe parser has answered anything but incomplete, neither bytes
\* that arrive later nor the end of the source change the answer: the caller may act
\* on it without waiting (incomplete propagates through alt, many0, permutation, ...,
\* and the mode changes only what running out of bytes means).
DecidedStays ==
  [][StreamSafe(grammar) /\ Decided(answer) /\ (closed' => ~Slices(grammar))
       => answer'.ok = answer.ok /\ Says(answer') = Says(answer)]_vars

\* error::needed is never more than what is missing: a stream-safe parser does
\* not succeed before that many bytes have arrived, so a caller that waits for
\* needed bytes waits for nothing it already has.
NeededIsHonest ==
  [][StreamSafe(grammar) /\ ~Decided(answer) /\ ~closed' /\ answer'.ok
       => Len(have') - Len(have) >= answer.needed]_vars

\* n copies of p, with sep between them.
Unrolled(p, sep, n) ==
  [p |-> "seq", ps |-> [i \in 1 .. 2 * n - 1 |-> IF i % 2 = 1 THEN p ELSE sep]]
Odd(s) == [i \in 1 .. (Len(s) + 1) \div 2 |-> s[2 * i - 1]]
Nothing == [p |-> "success", v |-> <<>>]

\* A repetition that answers k values has parsed exactly k copies of its inner
\* parser in sequence, ends where they end (a separator that nothing follows is
\* given back), and stopped because no further copy matched or a limit was met.
RepetitionUnrolls ==
  LET in == IF closed THEN from(have) ELSE streaming(from(have))
      Separated == grammar.p \in {"separated_list0", "separated_list1"}
      p == IF Separated THEN grammar.b ELSE grammar.a
      sep == IF Separated THEN grammar.a ELSE Nothing
      vs == IF grammar.p = "many_till" THEN answer.value[1] ELSE answer.value
      r == Parse(Unrolled(p, sep, Len(vs)), in)
      after == IF vs = <<>> THEN in ELSE r.rest
      again == Parse([p |-> "seq", ps |-> IF vs = <<>> THEN <<p>> ELSE <<sep, p>>], after)
      limit == IF grammar.p \in {"many_m_n", "fold_many_m_n"} THEN grammar.n ELSE nmax
  IN  /\ grammar.p \in {"many0", "checked_many0", "many1", "many_m_n", "many_till", "fold_many0",
                         "fold_many1", "fold_many_m_n", "separated_list0", "separated_list1"}
      /\ answer.ok
      => /\ vs = <<>> \/ (r.ok /\ Odd(r.value) = vs)
         /\ IF grammar.p = "many_till"
              THEN Parse(grammar.b, after) = done(answer.value[2], answer.rest)
              ELSE after.first = answer.rest.first /\ (again.ok => Len(vs) = limit)

\* permutation answers what some order of its parsers answers in sequence: no
\* parser runs twice and none is skipped.
PermutationIsSomeOrder ==
  LET in == IF closed THEN from(have) ELSE streaming(from(have))
      D == DOMAIN grammar.ps
      InOrder(f) == Parse([p |-> "seq", ps |-> [i \in D |-> grammar.ps[f[i]]]], in)
  IN  grammar.p = "permutation" /\ answer.ok
      => \E f \in {g \in [D -> D] : \A i, j \in D : i # j => g[i] # g[j]} :
           /\ InOrder(f).ok /\ InOrder(f).rest = answer.rest
           /\ \A i \in D : InOrder(f).value[i] = answer.value[f[i]]

\* Bit i of the bytes received, counted from the first bit of the first byte.
BitAt(i, ord) ==
  LET b == have[(i \div 8) + 1]
      k == IF ord = "msb0" THEN 7 - (i % 8) ELSE i % 8
  IN  (b \div 2^k) % 2

\* A number parser answers the mathematical value of the bytes it consumed, which
\* fits its type (no wrap, no truncation), and refuses only bytes that have no such
\* value: variable-length integers of every width, decimal text, and bit reads
\* across byte boundaries in both bit orders; arrays hold the integers in order.
NumbersAreExact ==
  LET n == answer.rest.first
      w == grammar.w
      U == FoldLeft(LAMBDA v, b : v * 128 + (b % 128), 0, Reverse(SubSeq(have, 1, n)))
      S == IF have[n] \div 64 = 1 THEN U - 2^(7 * n) ELSE U
      m == grammar.a.n
      Weighed(i) == BitAt(i, grammar.a.ord) * 2^(IF grammar.a.ord = "msb0" THEN m - 1 - i ELSE i)
  IN  /\ grammar.p = "uleb128" /\ answer.ok => answer.value = U /\ U < 2^w
      /\ grammar.p = "sleb128" /\ answer.ok
           => answer.value = S /\ S \in -(2^(w - 1)) .. 2^(w - 1) - 1
      /\ grammar.p = "zigzag_varint" /\ answer.ok
           => zigzag_encode(answer.value) = U /\ answer.value \in -(2^(w - 1)) .. 2^(w - 1) - 1
      /\ grammar.p = "uleb128" /\ ~answer.ok /\ answer.kind = "err" /\ ~closed
           => \A v \in 0 .. 2^w - 1 : ~IsPrefix(uleb128_encode[v], have)
      /\ grammar.p = "bits" /\ grammar.a.p = "take_bits" /\ answer.ok
           => answer.value = FoldLeft(LAMBDA v, i : v + Weighed(i - 1), 0, [i \in 1 .. m |-> i])
      /\ grammar.p = "le_array_of" /\ answer.ok
           => copy_to(answer.rest, answer.value.span, grammar.n, grammar.width, grammar.n)
                = <<count(from(have), [p |-> "uint", n |-> grammar.width, order |-> "little"],
                          grammar.n).value>>

\* The parsers are what their definitions say: the answer lies inside the bytes
\* received, a repetition is its copies in sequence, a permutation some order of
\* its parsers, a number the value of its bytes (the combinators of nom.hpp).
ParsersAreExact ==
  /\ AnswerInBounds
  /\ RepetitionUnrolls
  /\ PermutationIsSomeOrder
  /\ NumbersAreExact
=============================================================================
