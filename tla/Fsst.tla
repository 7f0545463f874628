-------------------------------- MODULE Fsst --------------------------------
(***************************************************************************)
(* The FSST string codec of include/nanom/fsst.hpp and fsst_encode.hpp:    *)
(* training a symbol table, compressing and decoding values, and the       *)
(* serialized table.  A symbol is a sequence of 1 to kMaxSymbolLength      *)
(* bytes and code c stands for symbol c + 1 of a table.  A table's long    *)
(* symbols share slots by the hash of their first three bytes; the 16-bit  *)
(* counters of the code do not saturate here.                              *)
(***************************************************************************)
EXTENDS BlockCodec, FiniteSets, Bitwise

CONSTANTS kMaxSymbolLength,   \* 8 in the code
          kMaxSymbols,        \* 255 in the code; also the escape code
          kSampleTarget,      \* bytes of values a table is trained on, 16384 in the code
          MaxDraws,           \* values drawn for a sample (bound of the model)
          Hash3(_),           \* slot of a long symbol's first three bytes
          ByteCount           \* values a byte takes, 256 in the code

ASSUME FsstAssumption ==
  /\ kMaxSymbolLength \in Nat /\ kMaxSymbolLength >= 3
  /\ kMaxSymbols \in Nat \ {0} /\ kSampleTarget \in Nat /\ MaxDraws \in Nat

kEscape == kMaxSymbols
Round2Frac == <<8, 38, 68, 98, 108, 128>>
Starts(s, with) == Len(with) <= Len(s) /\ SubSeq(s, 1, Len(with)) = with
Rest(s, n) == SubSeq(s, n + 1, Len(s))
Listed(S) == FoldSet(LAMBDA x, l : Append(l, x), <<>>, S)
Total(values) == FoldLeft(LAMBDA t, v : t + Len(v), 0, values)

-----------------------------------------------------------------------------
(* The encoder's table: its symbols, and the symbol in each slot in use.   *)

NoTable == [symbols |-> <<>>, slots |-> <<>>]

\* The next code for a symbol; a long one whose slot is taken is skipped.
add(e, s) ==
  LET slot == Hash3(SubSeq(s, 1, 3))
  IN  IF Len(s) < 3 THEN [e EXCEPT !.symbols = Append(@, s)]
      ELSE IF slot \in DOMAIN e.slots THEN e
      ELSE [symbols |-> Append(e.symbols, s),
            slots   |-> [h \in DOMAIN e.slots \cup {slot} |->
                           IF h = slot THEN Len(e.symbols) + 1 ELSE e.slots[h]]]

\* The codes of the table's symbols equal to s, of one or two bytes.
CodeOf(e, s) == {c \in DOMAIN e.symbols : e.symbols[c] = s}

\* The symbol in the slot of a word's first three bytes, if the word starts with it.
LongAt(e, word) ==
  LET h == Hash3(SubSeq(word, 1, 3))
  IN  IF h \in DOMAIN e.slots /\ Starts(word, e.symbols[e.slots[h]]) THEN {e.slots[h]} ELSE {}

\* The symbols find() can return at the front of s, in its order of preference.
find(e, s) ==
  LET long == IF Len(s) >= 3 THEN LongAt(e, s) ELSE {}
      two  == IF Len(s) >= 2 THEN CodeOf(e, SubSeq(s, 1, 2)) ELSE {}
  IN  IF long # {} THEN long ELSE IF two # {} THEN two ELSE CodeOf(e, SubSeq(s, 1, 1))

-----------------------------------------------------------------------------
(* Training.  A step of the parse is a symbol, or a byte that no symbol    *)
(* covers ("escaped").                                                     *)

Step(e, s) ==
  LET c == find(e, s)
  IN  IF c = {} THEN [sym |-> SubSeq(s, 1, 1), escaped |-> TRUE]
      ELSE [sym |-> e.symbols[CHOOSE x \in c : TRUE], escaped |-> FALSE]
Escaped(s) == [sym |-> SubSeq(s, 1, 1), escaped |-> TRUE]

RECURSIVE Parse(_, _, _)
Parse(e, s, steps) ==
  IF s = <<>> THEN steps
  ELSE Parse(e, Rest(s, Len(Step(e, s).sym)), Append(steps, Step(e, s)))

Gain(steps) ==
  FoldLeft(LAMBDA g, x : g + Most(0, Len(x.sym) - 1 - (IF x.escaped THEN 1 ELSE 0)), 0, steps)

\* What one parsed value adds to the counts of single steps and of pairs.
Singles(ps) ==
  ps \o FlattenSeq([i \in 1 .. Len(ps) - 1 |->
                      IF Len(ps[i].sym) # 1 THEN <<Escaped(ps[i + 1].sym)>> ELSE <<>>])
Pairs(ps) ==
  FlattenSeq([i \in 1 .. Len(ps) - 1 |->
    <<<<ps[i], ps[i + 1]>>>>
      \o (IF Len(ps[i + 1].sym) > 1 THEN <<<<ps[i], Escaped(ps[i + 1].sym)>>>> ELSE <<>>)])

Count(s, x) == Cardinality({i \in DOMAIN s : s[i] = x})
Merge(a, b) == SubSeq(a \o b, 1, Least2(kMaxSymbolLength, Len(a) + Len(b)))

\* Votes <<symbol, weight>> of a round; a count below the round's threshold has none.
Votes(singles, pairs, frac) ==
  LET vote(s, n) == IF n < (5 * frac) \div 128 THEN <<>> ELSE <<<<s, n * Len(s)>>>>
      one == Listed(ToSet(singles))
      two == Listed({x \in ToSet(pairs) : frac < 128 /\ Len(x[1].sym) < kMaxSymbolLength})
  IN  FlattenSeq([i \in DOMAIN one |->
         vote(one[i].sym, (IF Len(one[i].sym) = 1 THEN 8 ELSE 1) * Count(singles, one[i]))])
      \o FlattenSeq([i \in DOMAIN two |->
         vote(Merge(two[i][1].sym, two[i][2].sym), Count(pairs, two[i]))])

WeightOf(votes, s) ==
  FoldLeft(LAMBDA t, v : IF v[1] = s THEN t + v[2] ELSE t, 0, votes)

\* The order of candidates: heavier first, then by their little-endian value;
\* the code's sort leaves the rest open, here the shorter comes first.
Value(s) == FoldLeft(LAMBDA v, b : v * ByteCount + b, 0, Reverse(s))
Ranked(votes) ==
  LET syms == {votes[i][1] : i \in DOMAIN votes}
  IN  SortSeq(Listed(syms), LAMBDA a, b :
        \/ WeightOf(votes, a) > WeightOf(votes, b)
        \/ WeightOf(votes, a) = WeightOf(votes, b) /\ Value(a) < Value(b)
        \/ WeightOf(votes, a) = WeightOf(votes, b) /\ Value(a) = Value(b) /\ Len(a) < Len(b))

\* One round: the gain of the table as it is, and the table built from the votes.
Round(e, sample, frac) ==
  LET full   == SelectSeq(sample, LAMBDA v : v # <<>>)
      parsed == [i \in DOMAIN full |-> Parse(e, full[i], <<>>)]
      votes  == Votes(FlattenSeq([i \in DOMAIN parsed |-> Singles(parsed[i])]),
                      FlattenSeq([i \in DOMAIN parsed |-> Pairs(parsed[i])]), frac)
  IN  [gain |-> FoldLeft(LAMBDA g, ps : g + Gain(ps), 0, parsed),
       next |-> FoldLeft(LAMBDA t, s : IF Len(t.symbols) = kMaxSymbols THEN t ELSE add(t, s),
                         NoTable, Ranked(votes))]

RECURSIVE Rounds(_, _, _, _)
Rounds(sample, fracs, e, best) ==
  IF fracs = <<>> THEN best.table
  ELSE LET r == Round(e, sample, Head(fracs))
       IN  IF r.gain >= best.gain
             THEN Rounds(sample, Tail(fracs), r.next, [table |-> e, gain |-> r.gain])
             ELSE Rounds(sample, Tail(fracs), r.next, best)

\* The samples make_sample can take: every value, or values drawn until the
\* target is reached (the code draws them with a fixed pseudo-random sequence).
make_sample(values) ==
  IF Total(values) <= kSampleTarget THEN {values}
  ELSE {s \in UNION {[1 .. n -> ToSet(values)] : n \in 1 .. MaxDraws} :
          Total(s) >= kSampleTarget /\ Total(Front(s)) < kSampleTarget}

train(sample) == Rounds(sample, Round2Frac, NoTable, [table |-> NoTable, gain |-> 0])

-----------------------------------------------------------------------------
(* Compression: a code per symbol, the escape and the byte where there is  *)
(* none.                                                                   *)

EscapeFirst(s) == <<kEscape, Head(s)>>
Padded(s) == s \o [i \in 1 .. Most(0, kMaxSymbolLength - Len(s)) |-> 0]

\* Mutant of LongMatch: a match may run past the value into the padding.
LongMatchPadded(e, s) == LongAt(e, Padded(s))

\* A long symbol at the front of the word, not past the end of the value.
LongMatch(e, s) == {c \in LongAt(e, Padded(s)) : Len(e.symbols[c]) <= Len(s)}

\* short_or_byte, or the byte's own code for a last byte.
ShortOrByte(e, s) ==
  LET two == IF Len(s) >= 2 THEN CodeOf(e, SubSeq(s, 1, 2)) ELSE {}
  IN  IF two # {} THEN two ELSE CodeOf(e, SubSeq(s, 1, 1))

RECURSIVE CompressRest(_, _, _, _)
CompressRest(e, s, trained, out) ==
  LET c == IF ~trained THEN find(e, s)
           ELSE IF LongMatch(e, s) # {} THEN LongMatch(e, s) ELSE ShortOrByte(e, s)
      code == CHOOSE x \in c : TRUE
  IN  IF s = <<>> THEN out
      ELSE IF c = {} THEN CompressRest(e, Tail(s), trained, out \o EscapeFirst(s))
      ELSE CompressRest(e, Rest(s, Len(e.symbols[code])), trained, Append(out, code - 1))

\* With the lookup tables train() builds, or with the plain lookups.
compress(e, s)      == CompressRest(e, s, TRUE, <<>>)
compress_plain(e, s) == CompressRest(e, s, FALSE, <<>>)

-----------------------------------------------------------------------------
(* The serialized table: a header word, symbols padded to full words, one  *)
(* length per symbol right behind them, and zeros up to its fixed size.    *)

HeaderBytes == 8
kSymbolTableBytes == HeaderBytes + (kMaxSymbols + 1) * (kMaxSymbolLength + 1)
kMagic == <<84, 83, 83, 70>>    \* "FSST", from the header's fifth byte on
CountAt == 1                    \* the header's low byte
SwitchAt == 4                   \* kEncoderSwitchBit is the lowest bit of this one

\* Where n symbols and their lengths are, counting from 1.
SymbolBytes(n) == HeaderBytes + 1 .. HeaderBytes + n * kMaxSymbolLength
LengthByte(n, i) == HeaderBytes + n * kMaxSymbolLength + i

serialize(e) ==
  LET n    == Len(e.symbols)
      used == <<n, 0, 0, 1>> \o kMagic
                \o FlattenSeq([i \in 1 .. n |-> Padded(e.symbols[i])])
                \o [i \in 1 .. n |-> Len(e.symbols[i])]
  IN  used \o [i \in 1 .. kSymbolTableBytes - Len(used) |-> 0]

NoSymbols == [ok |-> FALSE, passthrough |-> TRUE, words |-> <<>>, lengths |-> <<>>]

\* The magic is there when its bits are set, whatever others are.
parse_symbol_table(bytes) ==
  LET n         == bytes[CountAt]
      length(i) == bytes[LengthByte(n, i)]
  IN  IF Len(bytes) # kSymbolTableBytes THEN NoSymbols
      ELSE IF \E i \in DOMAIN kMagic : (bytes[SwitchAt + i] & kMagic[i]) # kMagic[i] THEN NoSymbols
      ELSE IF \E i \in 1 .. n : length(i) \notin 1 .. kMaxSymbolLength THEN NoSymbols
      ELSE [ok          |-> TRUE,
            passthrough |-> bytes[SwitchAt] % 2 = 0,
            words       |-> [i \in 1 .. n |->
                               SubSeq(bytes, HeaderBytes + (i - 1) * kMaxSymbolLength + 1,
                                             HeaderBytes + i * kMaxSymbolLength)],
            lengths     |-> [i \in 1 .. n |-> length(i)]]

max_decoded_size(n) == n * kMaxSymbolLength + kMaxSymbolLength

\* Codes from i on; every symbol is stored as a whole word.
RECURSIVE DecodeFrom(_, _, _, _, _)
DecodeFrom(t, in, i, out, op) ==
  LET code == in[i + 1]
  IN  IF i >= Len(in) THEN [ok |-> TRUE, out |-> out, size |-> op]
      ELSE IF code = kEscape
        THEN IF i + 1 >= Len(in) THEN [ok |-> FALSE, out |-> out, size |-> 0]
             ELSE DecodeFrom(t, in, i + 2, Store(out, op, <<in[i + 2]>>), op + 1)
      ELSE IF code >= Len(t.words) THEN [ok |-> FALSE, out |-> out, size |-> 0]
      ELSE DecodeFrom(t, in, i + 1, Store(out, op, t.words[code + 1]), op + t.lengths[code + 1])

\* Into a buffer that must hold max_decoded_size bytes.
decode(t, in, out) ==
  IF Len(out) < max_decoded_size(Len(in)) THEN [ok |-> FALSE, out |-> out, size |-> 0]
  ELSE IF t.passthrough THEN [ok |-> TRUE, out |-> Store(out, 0, in), size |-> Len(in)]
  ELSE DecodeFrom(t, in, 0, out, 0)
=============================================================================
