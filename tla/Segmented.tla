----------------------------- MODULE Segmented -----------------------------
(***************************************************************************)
(* The cursor over a list of disjoint byte ranges of                       *)
(* include/nanom/segmented.hpp.  A part is [at, n], n bytes from address   *)
(* at; segments is [parts, tracked, gen]: the part list and its arena      *)
(* stamp.  Parts are numbered from one here.  mem is the memory the        *)
(* addresses refer to.                                                     *)
(***************************************************************************)
EXTENDS WireLayout

CONSTANTS seg_max_parts    \* part descriptors a subrange holds, 64 in the code

NullPtr == -1

segments_size(s) == FoldLeft(LAMBDA n, part : n + part.n, 0, s.parts)

\* segments::byte_at: linear in the parts, zero out of range.
RECURSIVE byte_at(_, _, _)
byte_at(mem, parts, i) ==
  IF parts = <<>> THEN 0
  ELSE IF i < Head(parts).n THEN mem[Head(parts).at + i + 1]
  ELSE byte_at(mem, Tail(parts), i - Head(parts).n)

-----------------------------------------------------------------------------
(* seg_input.  cur and seg_end are addresses within the current part, or   *)
(* NullPtr once the cursor is exhausted.                                   *)

\* The first non-empty part from i on, past the end when there is none.
SkipEmpty(s, i) ==
  LET Found == {j \in i .. Len(s.parts) : s.parts[j].n > 0}
  IN  IF Found = {} THEN Len(s.parts) + 1 ELSE FirstIn(Found)

enter(in, i) ==
  LET j == SkipEmpty(in.src, i)
      none == j > Len(in.src.parts)
  IN  [in EXCEPT !.seg_i = j,
                 !.cur = IF none THEN NullPtr ELSE in.src.parts[j].at,
                 !.seg_end = IF none THEN NullPtr ELSE in.src.parts[j].at + in.src.parts[j].n]

seg_from(s) ==
  enter([src |-> s, seg_i |-> 1, cur |-> NullPtr, seg_end |-> NullPtr, abs |-> 0, live |-> FALSE], 1)

seg_streaming(in) == [in EXCEPT !.live = TRUE]

single_segment(at, n, tracked, gen) ==
  [parts |-> <<[at |-> at, n |-> n]>>, tracked |-> tracked, gen |-> gen]

seg_size(in) == segments_size(in.src) - in.abs
seg_empty(in) == in.cur = NullPtr
contiguous(in) == IF in.cur = NullPtr THEN 0 ELSE in.seg_end - in.cur

\* The addresses of the next n bytes, as pieces [at, n]: the walk that
\* operator[], gather and subrange each make, n at most seg_size.
RECURSIVE Pieces(_, _, _, _, _)
Pieces(s, c, e, si, n) ==
  LET here == Least(n, e - c)
      sj == SkipEmpty(s, si + 1)
  IN  IF n = 0 THEN <<>>
      ELSE <<[at |-> c, n |-> here]>> \o
           (IF n = here THEN <<>>
            ELSE Pieces(s, s.parts[sj].at, s.parts[sj].at + s.parts[sj].n, sj, n - here))

NextPieces(in, n) == Pieces(in.src, in.cur, in.seg_end, in.seg_i, n)

Gathered(mem, in, n) ==
  FoldLeft(LAMBDA bs, piece : bs \o Window(mem, piece.at, piece.n), <<>>, NextPieces(in, n))

seg_byte(mem, in, i) == Last(Gathered(mem, in, i + 1))
safe_at(mem, in, i) == IF i >= seg_size(in) THEN None ELSE <<seg_byte(mem, in, i)>>

\* Mutant of AdvanceLoop: an empty part after the current one is entered.
RECURSIVE AdvanceLoopPlain(_, _)
AdvanceLoopPlain(o, n) ==
  LET here == o.seg_end - o.cur
      i == o.seg_i + 1
      next == IF i > Len(o.src.parts) THEN enter(o, i)
              ELSE [o EXCEPT !.seg_i = i, !.cur = o.src.parts[i].at,
                             !.seg_end = o.src.parts[i].at + o.src.parts[i].n]
  IN  IF o.cur = NullPtr THEN [o EXCEPT !.abs = segments_size(o.src)]
      ELSE IF n < here THEN [o EXCEPT !.cur = @ + n]
      ELSE IF n = here THEN next
      ELSE AdvanceLoopPlain(next, n - here)

RECURSIVE AdvanceLoop(_, _)
AdvanceLoop(o, n) ==
  LET here == o.seg_end - o.cur
      next == enter(o, o.seg_i + 1)
  IN  IF o.cur = NullPtr THEN [o EXCEPT !.abs = segments_size(o.src)]
      ELSE IF n < here THEN [o EXCEPT !.cur = @ + n]
      ELSE IF n = here THEN next
      ELSE AdvanceLoop(next, n - here)

seg_advance(in, n) == AdvanceLoop([in EXCEPT !.abs = @ + n], n)
checked_advance(in, n) == IF n > seg_size(in) THEN None ELSE <<seg_advance(in, n)>>

\* Mutant of gather: the copy does not leave the current part's memory.
gatherCurrent(mem, in, n) ==
  IF in.cur # NullPtr /\ contiguous(in) >= n
    THEN [ok |-> TRUE, zero_copy |-> TRUE, bytes |-> Window(mem, in.cur, n)]
  ELSE IF seg_size(in) < n THEN [ok |-> FALSE, zero_copy |-> FALSE, bytes |-> <<>>]
  ELSE [ok |-> TRUE, zero_copy |-> FALSE,
        bytes |-> [i \in 1 .. n |-> mem[((in.cur + i - 1) % Len(mem)) + 1]]]

\* gather<N>: a pointer into the current part when the window lies inside
\* it, a copy otherwise.
gather(mem, in, n) ==
  IF in.cur # NullPtr /\ contiguous(in) >= n
    THEN [ok |-> TRUE, zero_copy |-> TRUE, bytes |-> Window(mem, in.cur, n)]
  ELSE IF seg_size(in) < n THEN [ok |-> FALSE, zero_copy |-> FALSE, bytes |-> <<>>]
  ELSE [ok |-> TRUE, zero_copy |-> FALSE, bytes |-> Gathered(mem, in, n)]

\* The runtime-length gather: always a copy, the destination's length asked.
gather_into(mem, in, n) ==
  IF seg_size(in) < n THEN None ELSE <<Gathered(mem, in, n)>>

\* The next n bytes as a part list of their own, None past the cap.
subrange(in, n) ==
  IF n > seg_size(in) \/ Len(NextPieces(in, n)) > seg_max_parts THEN None
  ELSE <<[parts |-> NextPieces(in, n), tracked |-> in.src.tracked, gen |-> in.src.gen]>>

-----------------------------------------------------------------------------
(* Results and parsers.                                                    *)

seg_make_err(at) ==
  [ok |-> FALSE, kind |-> "err", offset |-> at.abs, needed |-> 0, ctx |-> <<>>]

seg_make_incomplete(at, needed) ==
  [ok |-> FALSE, kind |-> IF at.live THEN "incomplete" ELSE "err",
   offset |-> at.abs + seg_size(at), needed |-> Least(needed, max_incomplete_needed), ctx |-> <<>>]

\* The window of bytes the segmented render() shows around an error.
seg_render(mem, e, s) ==
  LET total == segments_size(s)
      off == Least(e.offset, total)
      lo == IF off >= 8 THEN off - 8 ELSE 0
      hi == Least(off + 8, total)
  IN  [bytes |-> [i \in 1 .. hi - lo |-> byte_at(mem, s.parts, lo + i - 1)],
       clamped |-> e.offset > total]

strct_seg(mem, in, T, dflt) ==
  LET need == wire_size(T)
      w == gather(mem, in, need)
  IN  IF ~w.ok THEN seg_make_incomplete(in, need - seg_size(in))
      ELSE done(assign_field(w.bytes, 0, 0, T, dflt), seg_advance(in, need))

seg_uint(mem, in, n, order) ==
  LET w == gather(mem, in, n)
  IN  IF ~w.ok THEN seg_make_incomplete(in, n - seg_size(in))
      ELSE done(ToUint(w.bytes, order), seg_advance(in, n))

seg_skip(in, n) ==
  IF seg_size(in) < n THEN seg_make_incomplete(in, n - seg_size(in))
                      ELSE done(<<>>, seg_advance(in, n))

seg_take(mem, in, n) ==
  LET bs == gather_into(mem, in, n)
  IN  IF bs = None THEN seg_make_incomplete(in, n - seg_size(in))
      ELSE done(bs[1], seg_advance(in, n))

\* A view, never a copy: a struct across a part boundary is an error.
overlay_seg(in, T) ==
  LET need == wire_size(T)
  IN  IF seg_size(in) < need THEN seg_make_incomplete(in, need - seg_size(in))
      ELSE IF contiguous(in) < need THEN seg_make_err(in)
      ELSE done([p |-> in.cur, len |-> need, tracked |-> in.src.tracked, gen |-> in.src.gen],
                seg_advance(in, need))
=============================================================================
