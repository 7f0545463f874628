----------------------------- MODULE FastLanes -----------------------------
(***************************************************************************)
(* The FastLanes transposed bit packing of include/nanom/fastlanes.hpp and *)
(* columnar_encode.hpp, at its real size: blocks of 1024 values of 8, 16,  *)
(* 32 or 64 bits.  All lanes are treated alike, so one lane is followed;   *)
(* its values are symbolic: <<r, b>> stands for bit b of the value of row  *)
(* r, and a word is the set of pairs <<position, symbol>> of its bits that *)
(* may be set.  What holds of the symbols holds for every value.           *)
(***************************************************************************)
EXTENDS Integers, Sequences, SequencesExt

kBlock == 1024
kFlOrder == <<0, 4, 2, 6, 1, 5, 3, 7>>

lanes(bits) == kBlock \div bits
packed_words_1024(bits, width) == (kBlock * width) \div bits
fl_index(row, lane) == kFlOrder[row \div 8 + 1] * 16 + (row % 8) * 128 + lane

Masked(w, width)      == {x \in w : x[1] < width}
ShiftUp(w, n, bits)   == {<<x[1] + n, x[2]>> : x \in {y \in w : y[1] + n < bits}}
ShiftDown(w, n)       == {<<x[1] - n, x[2]>> : x \in {y \in w : y[1] >= n}}

RowValue(bits, row) == {<<b, <<row, b>>>> : b \in 0 .. bits - 1}

\* Mutant of PackRow: the part of a value that opens the next word is shifted
\* by its whole width.
PackRowWidth(s, bits, width) ==
  LET v   == Masked(RowValue(bits, s.row), width)
      tmp == IF s.row = 0 THEN v ELSE s.tmp \cup ShiftUp(v, (s.row * width) % bits, bits)
  IN  IF ((s.row + 1) * width) \div bits > (s.row * width) \div bits
        THEN [row |-> s.row + 1, out |-> Append(s.out, tmp), tmp |-> ShiftDown(v, width)]
        ELSE [s EXCEPT !.row = @ + 1, !.tmp = tmp]

\* A row of pack_w; the word it completes is stored and the next one started.
PackRow(s, bits, width) ==
  LET v    == Masked(RowValue(bits, s.row), width)
      tmp  == IF s.row = 0 THEN v ELSE s.tmp \cup ShiftUp(v, (s.row * width) % bits, bits)
      down == width - (((s.row + 1) * width) % bits)
  IN  IF ((s.row + 1) * width) \div bits > (s.row * width) \div bits
        THEN [row |-> s.row + 1, out |-> Append(s.out, tmp), tmp |-> ShiftDown(v, down)]
        ELSE [s EXCEPT !.row = @ + 1, !.tmp = tmp]

RECURSIVE PackRows(_, _, _)
PackRows(s, bits, width) ==
  IF s.row = bits THEN s.out ELSE PackRows(PackRow(s, bits, width), bits, width)

\* The lane's words; widths 0 and `bits` are plain moves.
pack_1024(bits, width) ==
  IF width = 0 THEN <<>>
  ELSE IF width = bits THEN [r \in 1 .. bits |-> RowValue(bits, r - 1)]
  ELSE PackRows([row |-> 0, out |-> <<>>, tmp |-> {}], bits, width)

\* A row of unpack_w, whose value may lie in two words.
UnpackRow(s, words, bits, width) ==
  LET row   == Len(s.out)
      shift == (row * width) % bits
      next  == ((row + 1) * width) \div bits
      rest  == ((row + 1) * width) % bits
      low   == Masked(ShiftDown(s.src, shift), width - rest)
      src   == words[next + 1]
  IN  IF next = (row * width) \div bits
        THEN [s EXCEPT !.out = Append(@, Masked(ShiftDown(s.src, shift), width))]
      ELSE IF next >= width THEN [s EXCEPT !.out = Append(@, low)]
      ELSE [out |-> Append(s.out, low \cup ShiftUp(Masked(src, rest), width - rest, bits)), src |-> src]

RECURSIVE UnpackRows(_, _, _, _)
UnpackRows(s, words, bits, width) ==
  IF Len(s.out) = bits THEN s.out
  ELSE UnpackRows(UnpackRow(s, words, bits, width), words, bits, width)

unpack_1024(bits, width, words) ==
  IF width = 0 THEN [r \in 1 .. bits |-> {}]
  ELSE IF width = bits THEN words
  ELSE UnpackRows([out |-> <<>>, src |-> words[1]], words, bits, width)
=============================================================================
