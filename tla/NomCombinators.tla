--------------------------- MODULE NomCombinators ---------------------------
(***************************************************************************)
(* The combinators of include/nanom/nom.hpp.  A parser built from other    *)
(* parsers is a term: a record whose field p names the combinator and      *)
(* whose other fields are its arguments (a, b and c inner parsers, ps a    *)
(* list of them).  Parse applies a term to a cursor.                       *)
(***************************************************************************)
EXTENDS NomNumbers

RECURSIVE Parse(_, _)
RECURSIVE BitParse(_, _)

-----------------------------------------------------------------------------
(* Sequence.                                                               *)

RECURSIVE seq_step(_, _, _)
seq_step(acc, in, ps) ==
  LET r == Parse(Head(ps), in)
      acc2 == Append(acc, r.value)
  IN  IF ~r.ok THEN r
      ELSE IF Len(ps) = 1 THEN done(acc2, r.rest)
      ELSE seq_step(acc2, r.rest, Tail(ps))

seq(in, ps) == seq_step(<<>>, in, ps)

pair(in, a, b) ==
  LET ra == Parse(a, in)
      rb == Parse(b, ra.rest)
  IN  IF ~ra.ok THEN ra
      ELSE IF ~rb.ok THEN rb
      ELSE done(<<ra.value, rb.value>>, rb.rest)

separated_pair(in, a, sep, b) ==
  LET ra == Parse(a, in)
      rs == Parse(sep, ra.rest)
      rb == Parse(b, rs.rest)
  IN  IF ~ra.ok THEN ra
      ELSE IF ~rs.ok THEN rs
      ELSE IF ~rb.ok THEN rb
      ELSE done(<<ra.value, rb.value>>, rb.rest)

preceded(in, skip, keep) ==
  LET ra == Parse(skip, in)
  IN  IF ~ra.ok THEN ra ELSE Parse(keep, ra.rest)

terminated(in, keep, skip) ==
  LET ra == Parse(keep, in)
      rb == Parse(skip, ra.rest)
  IN  IF ~ra.ok THEN ra
      ELSE IF ~rb.ok THEN rb
      ELSE done(ra.value, rb.rest)

delimited(in, open, body, close) ==
  LET ro == Parse(open, in)
      rm == Parse(body, ro.rest)
      rc == Parse(close, rm.rest)
  IN  IF ~ro.ok THEN ro
      ELSE IF ~rm.ok THEN rm
      ELSE IF ~rc.ok THEN rc
      ELSE done(rm.value, rc.rest)

-----------------------------------------------------------------------------
(* Branch.  An error other than err stops the search.                      *)

better(a, b) == IF b.offset > a.offset THEN b ELSE a

RECURSIVE alt_step(_, _, _)
alt_step(in, best, ps) ==
  LET r == Parse(Head(ps), in)
      e == IF best = None THEN r ELSE better(best[1], r)
  IN  IF r.ok \/ r.kind # "err" THEN r
      ELSE IF Len(ps) = 1 THEN e
      ELSE alt_step(in, <<e>>, Tail(ps))

alt(in, ps) == alt_step(in, None, ps)

\* slots[i] is None until ps[i] has matched.  One round tries the parsers
\* without a value in order, up to the first that matches or that stops with
\* an error other than err.  deepest starts as a default error at offset 0.
RECURSIVE permutation_round(_, _, _, _)
\* Mutant of permutation_round: every parser starts where the first did.
permutation_roundAtStart(cur, slots, deepest, ps) ==
  LET Open == {i \in DOMAIN ps : slots[i] = None}
      R == [i \in Open |-> Parse(ps[i], cur)]
      Stop == {i \in Open : R[i].ok \/ R[i].kind # "err"}
      first == FirstIn(Stop)
  IN  IF Open = {} THEN done([i \in DOMAIN ps |-> slots[i][1]], cur)
      ELSE IF Stop = {} THEN deepest
      ELSE IF ~R[first].ok THEN R[first]
      ELSE permutation_round(cur, [slots EXCEPT ![first] = <<R[first].value>>], deepest, ps)

permutation_round(cur, slots, deepest, ps) ==
  LET Open == {i \in DOMAIN ps : slots[i] = None}
      R == [i \in Open |-> Parse(ps[i], cur)]
      Stop == {i \in Open : R[i].ok \/ R[i].kind # "err"}
      first == FirstIn(Stop)
      Failed == {i \in Open : Stop = {} \/ i < first}
      deeper == FoldLeft(better, deepest,
                         [i \in DOMAIN ps |-> IF i \in Failed THEN R[i] ELSE deepest])
  IN  IF Open = {} THEN done([i \in DOMAIN ps |-> slots[i][1]], cur)
      ELSE IF Stop = {}
        THEN IF deeper.offset = 0 THEN [deeper EXCEPT !.offset = cur.first] ELSE deeper
      ELSE IF ~R[first].ok THEN R[first]
      ELSE permutation_round(R[first].rest, [slots EXCEPT ![first] = <<R[first].value>>],
                             deeper, ps)

permutation(in, ps) ==
  permutation_round(in, [i \in DOMAIN ps |-> None], [make_err(in) EXCEPT !.offset = 0], ps)

-----------------------------------------------------------------------------
(* Repetition.                                                             *)

\* The loop many0, checked_many0, many_m_n and the folds share: at most max
\* matches, each of which has to consume.  A fold's accumulator is the list
\* of the values folded into it.
RECURSIVE Repeat(_, _, _, _)
\* Mutant of Repeat: any error ends the list.
RepeatToAnyError(p, cur, out, max) ==
  LET r == Parse(p, cur)
  IN  IF Len(out) = max \/ ~r.ok THEN done(out, cur)
      ELSE IF r.rest.first = cur.first THEN make_err(cur)
      ELSE Repeat(p, r.rest, Append(out, r.value), max)

Repeat(p, cur, out, max) ==
  LET r == Parse(p, cur)
  IN  IF Len(out) = max THEN done(out, cur)
      ELSE IF ~r.ok THEN IF r.kind # "err" THEN r ELSE done(out, cur)
      ELSE IF r.rest.first = cur.first THEN make_err(cur)
      ELSE Repeat(p, r.rest, Append(out, r.value), max)

many0(in, p) == Repeat(p, in, <<>>, nmax)

checked_many0(in, p, max_rep) ==
  LET r == Repeat(p, in, <<>>, max_rep)
      probe == Parse(p, r.rest)
  IN  IF ~r.ok \/ Len(r.value) < max_rep THEN r
      ELSE IF probe.ok THEN make_err(r.rest)
      ELSE IF probe.kind # "err" THEN probe
      ELSE r

many1(in, p) ==
  LET r1 == Parse(p, in)
      more == many0(r1.rest, p)
  IN  IF ~r1.ok THEN r1
      ELSE IF ~more.ok THEN more
      ELSE done(<<r1.value>> \o more.value, more.rest)

many_m_n(in, m, n, p) ==
  LET r == Repeat(p, in, <<>>, n)
  IN  IF r.ok /\ Len(r.value) < m THEN make_err(r.rest) ELSE r

fold_many0(in, p) == Repeat(p, in, <<>>, nmax)
fold_many1(in, p) ==
  LET r1 == Parse(p, in)
  IN  IF ~r1.ok THEN r1 ELSE Repeat(p, r1.rest, <<r1.value>>, nmax)
fold_many_m_n(in, m, n, p) ==
  LET r == Repeat(p, in, <<>>, n)
  IN  IF r.ok /\ Len(r.value) < m THEN make_err(r.rest) ELSE r

RECURSIVE many_till_loop(_, _, _, _)
many_till_loop(cur, out, p, end) ==
  LET re == Parse(end, cur)
      r == Parse(p, cur)
  IN  IF re.ok THEN done(<<out, re.value>>, re.rest)
      ELSE IF re.kind # "err" THEN re
      ELSE IF ~r.ok THEN r
      ELSE IF r.rest.first = cur.first THEN make_err(cur)
      ELSE many_till_loop(r.rest, Append(out, r.value), p, end)

many_till(in, p, end) == many_till_loop(in, <<>>, p, end)

\* No progress guard: the number of rounds is given.
RECURSIVE count_loop(_, _, _, _)
count_loop(cur, out, p, n) ==
  LET r == Parse(p, cur)
  IN  IF Len(out) = n THEN done(out, cur)
      ELSE IF ~r.ok THEN r
      ELSE count_loop(r.rest, Append(out, r.value), p, n)

count(in, p, n) == count_loop(in, <<>>, p, n)

\* Any error but fail ends the list before the separator it followed.
RECURSIVE separated_rest(_, _, _, _)
\* Mutant of separated_rest: keeps a separator that nothing follows.
separated_restTrailing(cur, out, sep, p) ==
  LET rs == Parse(sep, cur)
      rp == Parse(p, rs.rest)
  IN  IF ~rs.ok THEN IF rs.kind = "fail" THEN rs ELSE done(out, cur)
      ELSE IF ~rp.ok THEN IF rp.kind = "fail" THEN rp ELSE done(out, rs.rest)
      ELSE separated_rest(rp.rest, Append(out, rp.value), sep, p)

separated_rest(cur, out, sep, p) ==
  LET rs == Parse(sep, cur)
      rp == Parse(p, rs.rest)
  IN  IF ~rs.ok THEN IF rs.kind = "fail" THEN rs ELSE done(out, cur)
      ELSE IF ~rp.ok THEN IF rp.kind = "fail" THEN rp ELSE done(out, cur)
      ELSE IF rp.rest.first = cur.first THEN make_err(cur)
      ELSE separated_rest(rp.rest, Append(out, rp.value), sep, p)

separated_list0(in, sep, p) ==
  LET r == Parse(p, in)
  IN  IF r.ok THEN separated_rest(r.rest, <<r.value>>, sep, p)
      ELSE IF r.kind = "fail" THEN r
      ELSE done(<<>>, in)

separated_list1(in, sep, p) ==
  LET r == separated_list0(in, sep, p)
  IN  IF r.ok /\ r.value = <<>> THEN make_err(in) ELSE r

length_data(in, np) ==
  LET rn == Parse(np, in)
  IN  IF ~rn.ok THEN rn ELSE take(rn.rest, rn.value)

\* p sees the slice alone; the slice cannot grow, so incomplete becomes err.
length_value(in, np, p) ==
  LET rd == length_data(in, np)
      r == Parse(p, with_range(in, rd.value))
  IN  IF ~rd.ok THEN rd
      ELSE IF r.ok THEN done(r.value, rd.rest)
      ELSE IF r.kind = "incomplete" THEN [r EXCEPT !.kind = "err"]
      ELSE r

length_count(in, np, p) ==
  LET rn == Parse(np, in)
  IN  IF ~rn.ok THEN rn ELSE count(rn.rest, p, rn.value)

-----------------------------------------------------------------------------
(* Modifiers.  The callable of map, map_opt and flat_map is a function;    *)
(* outside its domain map_opt's callable answers nullopt.                  *)

map(in, p, f) ==
  LET r == Parse(p, in)
  IN  IF r.ok THEN done(f[r.value], r.rest) ELSE r

map_opt(in, p, f) ==
  LET r == Parse(p, in)
  IN  IF ~r.ok THEN r
      ELSE IF r.value \notin DOMAIN f THEN make_err(in)
      ELSE done(f[r.value], r.rest)

\* Unlike length_value, q's incomplete is passed on.
map_parser(in, p, q) ==
  LET r == Parse(p, in)
      rq == Parse(q, with_range(in, r.value))
  IN  IF ~r.ok THEN r
      ELSE IF ~rq.ok THEN rq
      ELSE done(rq.value, r.rest)

flat_map(in, p, f) ==
  LET r == Parse(p, in)
  IN  IF ~r.ok THEN r ELSE Parse(f[r.value], r.rest)

opt(in, p) ==
  LET r == Parse(p, in)
  IN  IF r.ok THEN done(<<r.value>>, r.rest)
      ELSE IF r.kind = "fail" THEN r
      ELSE done(None, in)

cond(in, b, p) ==
  LET r == Parse(p, in)
  IN  IF ~b THEN done(None, in)
      ELSE IF ~r.ok THEN r
      ELSE done(<<r.value>>, r.rest)

peek(in, p) ==
  LET r == Parse(p, in)
  IN  IF r.ok THEN done(r.value, in) ELSE r

not_(in, p) ==
  LET r == Parse(p, in)
  IN  IF r.ok THEN make_err(in)
      ELSE IF r.kind = "fail" THEN r
      ELSE done(<<>>, in)

recognize(in, p) ==
  LET r == Parse(p, in)
  IN  IF r.ok THEN done(take_span(in, r.rest.first - in.first), r.rest) ELSE r

consumed(in, p) ==
  LET r == Parse(p, in)
  IN  IF r.ok THEN done(<<take_span(in, r.rest.first - in.first), r.value>>, r.rest) ELSE r

value(in, v, p) ==
  LET r == Parse(p, in)
  IN  IF r.ok THEN done(v, r.rest) ELSE r

verify(in, p, S) ==
  LET r == Parse(p, in)
  IN  IF r.ok /\ r.value \notin S THEN make_err(in) ELSE r

success(in, v) == done(v, in)
fail(in) == make_err(in)

cut(in, p) ==
  LET r == Parse(p, in)
  IN  IF ~r.ok /\ r.kind = "err" THEN [r EXCEPT !.kind = "fail"] ELSE r

complete(in, p) ==
  LET r == Parse(p, in)
  IN  IF ~r.ok /\ r.kind = "incomplete" THEN [r EXCEPT !.kind = "err"] ELSE r

all_consuming(in, p) ==
  LET r == Parse(p, in)
  IN  IF r.ok /\ size(r.rest) # 0 THEN make_err(r.rest) ELSE r

context(in, label, p) ==
  LET r == Parse(p, in)
  IN  IF r.ok THEN r ELSE push_context(r, label, in.first)

-----------------------------------------------------------------------------
(* Bit mode.                                                               *)

RECURSIVE bseq_step(_, _, _)
bseq_step(acc, bi, ps) ==
  LET r == BitParse(Head(ps), bi)
      acc2 == Append(acc, r.value)
  IN  IF ~r.ok THEN r
      ELSE IF Len(ps) = 1 THEN done(acc2, r.rest)
      ELSE bseq_step(acc2, r.rest, Tail(ps))

bseq(bi, ps) == bseq_step(<<>>, bi, ps)

\* Mutant of bits: rounds up even from a byte boundary.
bitsRoundUp(in, bp) ==
  LET r == BitParse(bp, [in |-> in, bit |-> 0])
  IN  IF ~r.ok THEN r ELSE done(r.value, advance(r.rest.in, 1))

\* A byte of which some bits were read is dropped.
bits(in, bp) ==
  LET r == BitParse(bp, [in |-> in, bit |-> 0])
  IN  IF ~r.ok THEN r
      ELSE done(r.value, IF r.rest.bit # 0 THEN advance(r.rest.in, 1) ELSE r.rest.in)

bytes_(bi, p) ==
  LET r == Parse(p, bi.in)
  IN  IF bi.bit # 0 THEN make_err(bi.in)
      ELSE IF ~r.ok THEN r
      ELSE done(r.value, [in |-> r.rest, bit |-> 0])

-----------------------------------------------------------------------------
(* Applying a term.                                                        *)

Leaf(g, in) ==
  CASE g.p = "tag" -> tag(in, g.s)
    [] g.p = "tag_no_case" -> tag_no_case(in, g.s)
    [] g.p = "take" -> take(in, g.n)
    [] g.p = "take_while" -> take_while(in, g.set)
    [] g.p = "take_while1" -> take_while1(in, g.set)
    [] g.p = "take_while_m_n" -> take_while_m_n(in, g.m, g.n, g.set)
    [] g.p = "take_till" -> take_till(in, g.set)
    [] g.p = "take_till1" -> take_till1(in, g.set)
    [] g.p = "is_a" -> is_a(in, g.set)
    [] g.p = "is_not" -> is_not(in, g.set)
    [] g.p = "take_until" -> take_until(in, g.s)
    [] g.p = "satisfy" -> satisfy(in, g.set)
    [] g.p = "chr" -> chr(in, g.ch)
    [] g.p = "one_of" -> one_of(in, g.set)
    [] g.p = "none_of" -> none_of(in, g.set)
    [] g.p = "anychar" -> anychar(in)
    [] g.p = "klass" -> klass(in, g.set, g.n)
    [] g.p = "newline" -> newline(in)
    [] g.p = "tab" -> tab(in)
    [] g.p = "crlf" -> crlf(in)
    [] g.p = "line_ending" -> line_ending(in)
    [] g.p = "not_line_ending" -> not_line_ending(in)
    [] g.p = "eof" -> eof(in)
    [] g.p = "rest" -> rest(in)
    [] g.p = "rest_len" -> rest_len(in)
    [] g.p = "uint" -> read_uint(in, g.n, g.order)
    [] g.p = "int" -> read_int(in, g.n, g.order)
    [] g.p = "uleb128" -> read_uleb128(in, g.w)
    [] g.p = "sleb128" -> sleb128(in, g.w)
    [] g.p = "zigzag_varint" -> zigzag_varint(in, g.w, g.wide)
    [] g.p = "le_array_of" -> le_array_of(in, g.n, g.width, g.w)
    [] g.p = "dec" -> dec(in, g.min, g.max)
    [] g.p = "hex" -> hex(in, g.max)
    [] g.p = "double" -> double_(in, g.cap)
    [] g.p = "success" -> success(in, g.v)
    [] g.p = "fail" -> fail(in)

LeafNames ==
  {"tag", "tag_no_case", "take", "take_while", "take_while1", "take_while_m_n", "take_till",
   "take_till1", "is_a", "is_not", "take_until", "satisfy", "chr", "one_of", "none_of",
   "anychar", "klass", "newline", "tab", "crlf", "line_ending", "not_line_ending", "eof",
   "rest", "rest_len", "uint", "int", "uleb128", "sleb128", "zigzag_varint", "le_array_of",
   "dec", "hex", "double", "success", "fail"}

Parse(g, in) ==
  CASE g.p \in LeafNames -> Leaf(g, in)
    [] g.p = "seq" -> seq(in, g.ps)
    [] g.p = "pair" -> pair(in, g.a, g.b)
    [] g.p = "separated_pair" -> separated_pair(in, g.a, g.b, g.c)
    [] g.p = "preceded" -> preceded(in, g.a, g.b)
    [] g.p = "terminated" -> terminated(in, g.a, g.b)
    [] g.p = "delimited" -> delimited(in, g.a, g.b, g.c)
    [] g.p = "alt" -> alt(in, g.ps)
    [] g.p = "permutation" -> permutation(in, g.ps)
    [] g.p = "many0" -> many0(in, g.a)
    [] g.p = "checked_many0" -> checked_many0(in, g.a, g.n)
    [] g.p = "many1" -> many1(in, g.a)
    [] g.p = "many_m_n" -> many_m_n(in, g.m, g.n, g.a)
    [] g.p = "fold_many0" -> fold_many0(in, g.a)
    [] g.p = "fold_many1" -> fold_many1(in, g.a)
    [] g.p = "fold_many_m_n" -> fold_many_m_n(in, g.m, g.n, g.a)
    [] g.p = "many_till" -> many_till(in, g.a, g.b)
    [] g.p = "count" -> count(in, g.a, g.n)
    [] g.p = "separated_list0" -> separated_list0(in, g.a, g.b)
    [] g.p = "separated_list1" -> separated_list1(in, g.a, g.b)
    [] g.p = "length_data" -> length_data(in, g.a)
    [] g.p = "length_value" -> length_value(in, g.a, g.b)
    [] g.p = "length_count" -> length_count(in, g.a, g.b)
    [] g.p = "map" -> map(in, g.a, g.f)
    [] g.p = "map_opt" -> map_opt(in, g.a, g.f)
    [] g.p = "map_parser" -> map_parser(in, g.a, g.b)
    [] g.p = "flat_map" -> flat_map(in, g.a, g.f)
    [] g.p = "opt" -> opt(in, g.a)
    [] g.p = "cond" -> cond(in, g.flag, g.a)
    [] g.p = "peek" -> peek(in, g.a)
    [] g.p = "not_" -> not_(in, g.a)
    [] g.p = "recognize" -> recognize(in, g.a)
    [] g.p = "consumed" -> consumed(in, g.a)
    [] g.p = "value" -> value(in, g.v, g.a)
    [] g.p = "verify" -> verify(in, g.a, g.set)
    [] g.p = "cut" -> cut(in, g.a)
    [] g.p = "complete" -> complete(in, g.a)
    [] g.p = "all_consuming" -> all_consuming(in, g.a)
    [] g.p = "context" -> context(in, g.label, g.a)
    [] g.p = "bits" -> bits(in, g.a)

BitParse(g, bi) ==
  CASE g.p = "take_bits" -> take_bits(bi, g.n, g.ord)
    [] g.p = "tag_bits" -> tag_bits(bi, g.v, g.n, g.ord)
    [] g.p = "bool_bit" -> bool_bit(bi, g.ord)
    [] g.p = "bseq" -> bseq(bi, g.ps)
    [] g.p = "bytes_" -> bytes_(bi, g.a)
=============================================================================
