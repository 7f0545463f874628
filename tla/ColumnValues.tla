---------------------------- MODULE ColumnValues ----------------------------
(***************************************************************************)
(* Dictionaries, statistics and value kernels of                           *)
(* include/nanom/columnar_encode.hpp and values.hpp: the dictionary        *)
(* builders, gathers, the kernels that append variable-length values to an *)
(* offsets + data pair, the spreading of dense values over nullable slots, *)
(* UTF-8, and the assembly of records from levels.  A value is a sequence  *)
(* of bytes.                                                               *)
(***************************************************************************)
EXTENDS ColumnarBits

CONSTANTS Hash(_),       \* hash_bytes; equal values have equal hashes
          FirstSlots,    \* slots of a dictionary's first table, 64 in the code
          LengthBytes,   \* bytes of a value's length prefix, 4 in the code
          kValueSlack,   \* bytes of the fixed-size copy of a short value, 16 in the code
          MaxElements    \* INT32_MAX, the offsets' type

ASSUME ValuesAssumption ==
  FirstSlots \in Nat \ {0} /\ LengthBytes \in Nat \ {0} /\ kValueSlack \in Nat \ {0}

-----------------------------------------------------------------------------
(* Dictionary builders: open addressing, slots hold entry index + 1.       *)

NoDictionary == [values |-> <<>>, slots |-> <<>>, bytes |-> 0]

needs_grow(entries, slots) == (entries + 1) * 2 > Len(slots)

\* The slot where a probe for hash h stops: the first that `stop` contains.
ProbeStop(slots, h, stop) ==
  LET at(k) == ((h + k) % Len(slots)) + 1
      hits  == {k \in 0 .. Len(slots) - 1 : at(k) \in stop}
  IN  at(CHOOSE k \in hits : \A m \in hits : k <= m)

Empty(slots) == {s \in DOMAIN slots : slots[s] = 0}

Rehash(slots, at, values) ==
  [slots EXCEPT ![ProbeStop(slots, Hash(values[at]), Empty(slots))] = at]

\* Mutant of grow: the entries keep the slots they had in the smaller table.
growInPlace(t) ==
  LET size == IF t.slots = <<>> THEN FirstSlots ELSE 2 * Len(t.slots)
  IN  [t EXCEPT !.slots = [s \in 1 .. size |-> IF s \in DOMAIN t.slots THEN t.slots[s] ELSE 0]]

grow(t) ==
  LET size == IF t.slots = <<>> THEN FirstSlots ELSE 2 * Len(t.slots)
  IN  [t EXCEPT !.slots =
         FoldLeft(LAMBDA sl, at : IF at = 0 THEN sl ELSE Rehash(sl, at, t.values),
                  [s \in 1 .. size |-> 0], t.slots)]

index_of(t, v) ==
  LET u    == IF needs_grow(Len(t.values), t.slots) THEN grow(t) ELSE t
      same == {s \in DOMAIN u.slots : u.slots[s] # 0 /\ u.values[u.slots[s]] = v}
      s    == ProbeStop(u.slots, Hash(v), same \cup Empty(u.slots))
  IN  IF u.slots[s] # 0 THEN [t |-> u, index |-> u.slots[s] - 1]
      ELSE [t |-> [values |-> Append(u.values, v), bytes |-> u.bytes + Len(v),
                   slots  |-> [u.slots EXCEPT ![s] = Len(u.values) + 1]],
            index |-> Len(u.values)]

\* clear() keeps the table's size.
clear(t) == [values |-> <<>>, slots |-> [s \in DOMAIN t.slots |-> 0], bytes |-> 0]

check_indices(idx, dict_size) == \A i \in DOMAIN idx : idx[i] < dict_size
gather_fixed(dict, idx) == [i \in DOMAIN idx |-> dict[idx[i] + 1]]

\* Offsets of a dictionary's values in its data, one more than there are values.
OffsetsOf(values) ==
  [i \in 1 .. Len(values) + 1 |-> Len(FlattenSeq(SubSeq(values, 1, i - 1)))]
gathered_size(offsets, idx) ==
  FoldLeft(LAMBDA total, i : total + offsets[i + 2] - offsets[i + 1], 0, idx)

-----------------------------------------------------------------------------
(* Statistics.  A float is <<number, sign>>, sign -1 only for -0.0.        *)

NaN == <<0, 2>>
Below(a, b) == a[1] < b[1]             \* the code's <, under which the two zeros are equal

NoStats == [has_minmax |-> FALSE, min |-> NaN, max |-> NaN, null_count |-> 0]

StatsOf(s, v) ==
  IF v = NaN THEN s
  ELSE IF ~s.has_minmax THEN [s EXCEPT !.has_minmax = TRUE, !.min = v, !.max = v]
  ELSE [s EXCEPT !.min = IF Below(v, @) THEN v ELSE @, !.max = IF Below(@, v) THEN v ELSE @]

\* Mutant of SignZeros: zeros are reported as they were met.
SignZerosAsMet(s) == s

SignZeros(s) == [s EXCEPT !.min = IF s.has_minmax /\ @[1] = 0 THEN <<0, -1>> ELSE @,
                          !.max = IF s.has_minmax /\ @[1] = 0 THEN <<0, 0>> ELSE @]

compute_stats(values, validity) ==
  SignZeros(FoldLeft(LAMBDA s, i : IF validity[i] = 0 THEN [s EXCEPT !.null_count = @ + 1]
                                   ELSE StatsOf(s, values[i]),
                     NoStats, [i \in DOMAIN values |-> i]))

\* The unsigned lexicographic order of byte strings.
less(a, b) ==
  LET n    == Lesser(Len(a), Len(b))
      diff == {i \in 1 .. n : a[i] # b[i]}
      i    == CHOOSE k \in diff : \A m \in diff : k <= m
  IN  IF diff = {} THEN Len(a) < Len(b) ELSE a[i] < b[i]

compute_binary_stats(views) ==
  FoldLeft(LAMBDA s, v : IF ~s.has_minmax THEN [has_minmax |-> TRUE, min |-> v, max |-> v]
                         ELSE [s EXCEPT !.min = IF less(v, @) THEN v ELSE @,
                                        !.max = IF less(@, v) THEN v ELSE @],
           [has_minmax |-> FALSE, min |-> <<>>, max |-> <<>>], views)

-----------------------------------------------------------------------------
(* Variable-length output: slot r ends at ends[r]; a null slot repeats the *)
(* offset.  A store past the end of a buffer makes the buffer longer.      *)

StoreAt(buf, at, new) ==
  [i \in 1 .. Greatest({Len(buf), at + Len(new)}) |->
     IF i - at \in DOMAIN new THEN new[i - at] ELSE buf[i]]

\* Mutant of copy_value: every value with room behind it moves as one
\* fixed-size copy.
copy_valueShort(data, cur, src, p, len) ==
  IF Len(src) - p >= kValueSlack
    THEN StoreAt(data, cur, SubSeq(src, p + 1, p + kValueSlack))
    ELSE StoreAt(data, cur, SubSeq(src, p + 1, p + len))

\* `len` bytes of src from p to data at cur; a short value with room behind
\* it moves as one fixed-size copy, which may write past the value.
copy_value(data, cur, src, p, len) ==
  IF len <= kValueSlack /\ Len(src) - p >= kValueSlack
    THEN StoreAt(data, cur, SubSeq(src, p + 1, p + kValueSlack))
    ELSE StoreAt(data, cur, SubSeq(src, p + 1, p + len))

Output(data, cur) == [ok |-> TRUE, p |-> 0, data |-> data, cur |-> cur, ends |-> <<>>]
EndSlot(o) == [o EXCEPT !.ends = Append(@, o.cur)]
Refused(o) == [o EXCEPT !.ok = FALSE]

LengthAt(in, p) == Number(Bits(SubSeq(in, p + 1, p + LengthBytes)))

PrefixedSlot(o, in, max_size) ==
  LET len == LengthAt(in, o.p)
      p   == o.p + LengthBytes
      new == [o EXCEPT !.data = copy_value(@, o.cur, in, p, len),
                       !.p = p + len, !.cur = @ + len]
  IN  IF Len(in) - o.p < LengthBytes THEN Refused(o)
      ELSE IF len > Len(in) - p THEN Refused([o EXCEPT !.p = p])
      ELSE IF new.cur > max_size THEN Refused(new)
      ELSE EndSlot(new)

append_length_prefixed(in, validity, data, cur, max_size) ==
  FoldLeft(LAMBDA o, valid : IF ~o.ok THEN o
                             ELSE IF valid = 0 THEN EndSlot(o)
                             ELSE PrefixedSlot(o, in, max_size),
           Output(data, cur), validity)

\* Here p counts the dictionary indices used.
append_gathered(dict, offsets, idx, validity, data, cur) ==
  FoldLeft(LAMBDA o, valid :
             LET a   == offsets[idx[o.p + 1] + 1]
                 len == offsets[idx[o.p + 1] + 2] - a
             IN  IF valid = 0 THEN EndSlot(o)
                 ELSE EndSlot([o EXCEPT !.data = copy_value(@, o.cur, dict, a, len),
                                        !.p = @ + 1, !.cur = @ + len]),
           Output(data, cur), validity)

append_views(views, validity, data, cur) ==
  FoldLeft(LAMBDA o, valid :
             IF valid = 0 THEN EndSlot(o)
             ELSE EndSlot([o EXCEPT !.data = StoreAt(@, o.cur, views[o.p + 1]),
                                    !.p = @ + 1, !.cur = @ + Len(views[o.p + 1])]),
           Output(data, cur), validity)

\* Views: <<from, length>> pairs into the input.
RECURSIVE PrefixedViews(_, _, _, _)
PrefixedViews(in, nn, p, views) ==
  LET len == LengthAt(in, p)
  IN  IF Len(views) = nn THEN [ok |-> TRUE, used |-> p, views |-> views]
      ELSE IF Len(in) - p < LengthBytes \/ len > Len(in) - p - LengthBytes
        THEN [ok |-> FALSE, used |-> 0, views |-> views]
      ELSE PrefixedViews(in, nn, p + LengthBytes + len,
             Append(views, SubSeq(in, p + LengthBytes + 1, p + LengthBytes + len)))

length_prefixed_views(in, nn) == PrefixedViews(in, nn, 0, <<>>)

-----------------------------------------------------------------------------
(* Nulls: the dense values 1 .. j of dst still to be moved to the slots    *)
(* 1 .. r, back to front and in place; a zero value is Zero.  Whole words  *)
(* of validity bits move as a block.                                       *)

Zero == 0
Word(bm, r) == SubSeq(bm, r - WordBits + 1, r)

MoveBlock(s) ==
  [dst |-> [i \in DOMAIN s.dst |->
              IF i \in s.r - WordBits + 1 .. s.r THEN s.dst[i - s.r + s.j] ELSE s.dst[i]],
   r |-> s.r - WordBits, j |-> s.j - WordBits]
ZeroBlock(s, count) ==
  [s EXCEPT !.dst = [i \in DOMAIN @ |-> IF i \in s.r - count + 1 .. s.r THEN Zero ELSE @[i]],
            !.r = @ - count]
MoveSlot(s, bit) ==
  IF bit = 1 THEN [dst |-> [s.dst EXCEPT ![s.r] = s.dst[s.j]], r |-> s.r - 1, j |-> s.j - 1]
             ELSE ZeroBlock(s, 1)

\* Mutant of SpreadStep: an all-valid word is moved without looking at it.
SpreadStepBlind(s, bm) ==
  IF s.j = 0 THEN ZeroBlock(s, s.r)
  ELSE IF s.r % WordBits = 0 /\ s.j >= WordBits THEN MoveBlock(s)
  ELSE MoveSlot(s, bm[s.r])

SpreadStep(s, bm) ==
  LET whole == s.r % WordBits = 0
  IN  IF s.j = 0 THEN ZeroBlock(s, s.r)
      ELSE IF whole /\ \A i \in 1 .. WordBits : Word(bm, s.r)[i] = 1 THEN MoveBlock(s)
      ELSE IF whole /\ \A i \in 1 .. WordBits : Word(bm, s.r)[i] = 0 THEN ZeroBlock(s, WordBits)
      ELSE IF whole /\ s.j >= WordBits
        THEN FoldLeft(MoveSlot, s, Reverse(Word(bm, s.r)))
      ELSE MoveSlot(s, bm[s.r])

RECURSIVE SpreadFrom(_, _)
SpreadFrom(s, bm) == IF s.r = 0 THEN s.dst ELSE SpreadFrom(SpreadStep(s, bm), bm)

\* dst holds nn dense values and then anything, n slots in all.
spread_nulls(dst, nn, validity) ==
  SpreadFrom([dst |-> dst, r |-> Len(dst), j |-> nn], validity)

-----------------------------------------------------------------------------
(* Widening: k big-endian bytes of two's complement as `width` bytes in    *)
(* little-endian order.                                                    *)

\* Mutant of sign_extend_be: the sign is taken from the last byte.
sign_extend_beLast(src, width) ==
  LET k    == Len(src)
      sign == IF k > 0 /\ src[k] >= Septet THEN 2^ByteBits - 1 ELSE 0
  IN  [i \in 1 .. width |-> IF i <= k THEN src[k + 1 - i] ELSE sign]

sign_extend_be(src, width) ==
  LET k    == Len(src)
      sign == IF k > 0 /\ src[1] >= Septet THEN 2^ByteBits - 1 ELSE 0
  IN  [i \in 1 .. width |-> IF i <= k THEN src[k + 1 - i] ELSE sign]

-----------------------------------------------------------------------------
(* UTF-8, over real bytes; the words skipped at once have WordBytes bytes. *)

Continuation == 128 .. 191
Followers(c) == IF c \in 192 .. 223 THEN 1 ELSE IF c \in 224 .. 239 THEN 2
                ELSE IF c \in 240 .. 247 THEN 3 ELSE 0
LeadBits(c) == c % 2^(6 - Followers(c))

\* The code point in the bytes of one character.
PointOf(s) == FoldLeft(LAMBDA v, b : v * 64 + (b % 64), LeadBits(s[1]), Tail(s))

\* Mutant of CodePointOk: the surrogates are let through.
CodePointOkWide(cp, n) ==
  cp >= (CASE n = 1 -> 128 [] n = 2 -> 2048 [] n = 3 -> 65536) /\ cp <= 1114111

CodePointOk(cp, n) ==
  /\ cp >= (CASE n = 1 -> 128 [] n = 2 -> 2048 [] n = 3 -> 65536)
  /\ cp <= 1114111 /\ cp \notin 55296 .. 57343

\* Two words of ASCII are skipped while there are two, or one while there is one.
RECURSIVE ValidFrom(_, _)
ValidFrom(s, p) ==
  LET left == Len(s) - p + 1
      step == IF left >= 2 * WordBytes THEN 2 * WordBytes
              ELSE IF left >= WordBytes THEN WordBytes ELSE 1
      c    == s[p]
      n    == Followers(c)
  IN  IF left = 0 THEN TRUE
      ELSE IF \A i \in p .. p + step - 1 : s[i] < 128 THEN ValidFrom(s, p + step)
      ELSE IF c < 128 THEN ValidFrom(s, p + 1)
      ELSE /\ n > 0 /\ left > n
           /\ \A i \in 1 .. n : s[p + i] \in Continuation
           /\ CodePointOk(PointOf(SubSeq(s, p, p + n)), n)
           /\ ValidFrom(s, p + n + 1)

valid_utf8(s) == ValidFrom(s, 1)

\* No value starts on a continuation byte (starts count from 0).
utf8_starts_ok(data, starts) ==
  \A i \in DOMAIN starts : starts[i] < Len(data) => data[starts[i] + 1] \notin Continuation

-----------------------------------------------------------------------------
(* Record assembly from repetition and definition levels: which level      *)
(* entries are slots of a node, and what each slot holds.  A node carries  *)
(* the levels of its enclosing list (r_enc, d_enc), the level at which it  *)
(* is present, and, for a list, the levels of its elements.  Bitmaps are   *)
(* sequences of bits.                                                      *)

Bit(b) == IF b THEN 1 ELSE 0

\* The slots of a leaf: entries at or above slot_level, non-null at max_def.
level_slots(def, slot_level, max_def) ==
  LET held == SelectSeq(def, LAMBDA d : d >= slot_level)
  IN  [slots    |-> Len(held),
       validity |-> [i \in DOMAIN held |-> Bit(held[i] = max_def)],
       non_null |-> Len(SelectSeq(held, LAMBDA d : d = max_def))]

NoSlots == [ok |-> TRUE, slots |-> 0, validity |-> <<>>, nulls |-> 0,
            elems |-> 0, open |-> FALSE, offsets |-> <<>>]
Fail(s) == [s EXCEPT !.ok = FALSE]

\* One more slot, valid or null.
AddSlot(s, valid) ==
  [s EXCEPT !.slots = @ + 1, !.validity = Append(@, Bit(valid)), !.nulls = @ + 1 - Bit(valid)]

StructEntry(s, rep, def, nd, expected) ==
  IF ~s.ok \/ rep > nd.r_enc \/ def < nd.d_enc THEN s
  ELSE IF s.slots >= expected THEN Fail(s)
  ELSE AddSlot(s, def >= nd.def_present)

struct_slots(rep, def, nd, expected) ==
  LET s == FoldLeft(LAMBDA a, i : StructEntry(a, rep[i], def[i], nd, expected),
                    NoSlots, [i \in DOMAIN def |-> i])
  IN  IF s.ok /\ s.slots # expected THEN Fail(s) ELSE s

\* A slot of a list: its offset, its validity and its first element, if any.
ListSlot(s, def, nd) ==
  LET first == def >= nd.def_elem
  IN  [AddSlot(s, def >= nd.def_present) EXCEPT
         !.offsets = Append(@, s.elems), !.open = first, !.elems = @ + Bit(first)]

\* Mutant of ListEntry: the elements of deeper lists are taken for its own.
ListEntryDeep(s, rep, def, nd, expected) ==
  IF ~s.ok THEN s
  ELSE IF rep <= nd.r_enc
    THEN IF def < nd.d_enc THEN [s EXCEPT !.open = FALSE]
         ELSE IF s.slots >= expected THEN Fail(s)
         ELSE ListSlot(s, def, nd)
  ELSE IF ~s.open THEN Fail(s)
  ELSE [s EXCEPT !.elems = @ + 1]

ListEntry(s, rep, def, nd, expected) ==
  IF ~s.ok THEN s
  ELSE IF rep <= nd.r_enc
    THEN IF def < nd.d_enc THEN [s EXCEPT !.open = FALSE]
         ELSE IF s.slots >= expected THEN Fail(s)
         ELSE ListSlot(s, def, nd)
  ELSE IF rep # nd.rep_elem THEN s
  ELSE IF ~s.open THEN Fail(s)
  ELSE [s EXCEPT !.elems = @ + 1]

Bounded(s) == IF s.elems > MaxElements THEN Fail(s) ELSE s

list_slots(rep, def, nd, expected) ==
  LET s == FoldLeft(LAMBDA a, i : Bounded(ListEntry(a, rep[i], def[i], nd, expected)),
                    NoSlots, [i \in DOMAIN def |-> i])
  IN  IF ~s.ok THEN s
      ELSE IF s.slots # expected THEN Fail(s)
      ELSE [s EXCEPT !.offsets = Append(@, s.elems)]
=============================================================================
