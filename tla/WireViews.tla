----------------------------- MODULE WireViews -----------------------------
(***************************************************************************)
(* A program that writes frames into one buffer with emit.hpp and reads    *)
(* them back, through a segmented cursor and stamped views, while the      *)
(* buffer is reused: WireLayout, Segmented and WireArena together.         *)
(***************************************************************************)
EXTENDS WireArena, Segmented

CONSTANTS Types,        \* described structs; T.values and T.payloads are written
          Cuttings(_),  \* the part lists a buffer of n bytes is presented as
          Lengths,      \* the lengths skipped and narrowed to
          Dflt,         \* the byte order of plain scalars
          MaxViews      \* bound on the structs overlaid in a run

ASSUME ViewsAssumption == Types # {} /\ Dflt \in {"big", "little"} /\ MaxViews \in Nat

VARIABLES used,       \* span_sink::used
          frames,     \* history: the frames in the buffer
          cur,        \* the seg_input
          logical,    \* history: the addresses still ahead of the cursor
          held        \* the views with their struct types

viewVars == <<used, frames, cur, logical, held>>
vars == <<arenaVars, viewVars>>

\* strct, overlay and emit refuse other layouts at compile time.
Accepted == {T \in Types : layout_ok(T)}

Addresses(parts) ==
  FoldLeft(LAMBDA as, q : as \o [i \in 1 .. q.n |-> q.at + i - 1], <<>>, parts)

Cursor(parts, tracked, gen) == seg_from([parts |-> parts, tracked |-> tracked, gen |-> gen])

Init ==
  /\ ArenaInit
  /\ used = 0 /\ frames = <<>> /\ held = {}
  /\ cur = Cursor(<<>>, FALSE, 0) /\ logical = <<>>

-----------------------------------------------------------------------------
(* Writing.                                                                *)

\* span_sink::put: everything, or nothing.
put(m, at, bs) == IF Len(bs) > MemSize - at THEN [ok |-> FALSE, mem |-> m, used |-> at]
                  ELSE [ok |-> TRUE, mem |-> Put(m, at, bs), used |-> at + Len(bs)]

\* The program fills the buffer, parses it, and gives it back.
Filling == cur.src.parts = <<>>

Frame(T, v, payload) == [at |-> used, T |-> T, v |-> v, payload |-> payload]

\* emit_frame through the sink: a payload the sink refuses leaves the
\* header it has already taken.
emit_frame(T, v, payload) ==
  LET b == to_bytes(T, v, payload, Dflt)
      header == put(mem, used, b.mem)
      body == put(header.mem, header.used, payload)
  IN  /\ Filling /\ b.err = "" /\ header.ok
      /\ mem' = body.mem /\ used' = body.used
      /\ frames' = IF body.ok THEN Append(frames, Frame(T, v, payload)) ELSE frames
      /\ UNCHANGED <<arena, views, cur, logical, held>>

\* emit straight into what is left of the buffer: a failed one leaves the
\* bytes it wrote, and claims none.
EmitInPlace(T, v) ==
  LET r == emit(T, v, mem, used, MemSize - used, <<>>, Dflt)
  IN  /\ Filling
      /\ mem' = r.mem
      /\ used' = IF r.err = "" THEN used + wire_size(T) ELSE used
      /\ frames' = IF r.err = "" THEN Append(frames, Frame(T, v, <<>>)) ELSE frames
      /\ UNCHANGED <<arena, views, cur, logical, held>>

\* The buffer is given back and cleared for its next use: invalidate()
\* first, as the header asks.
Reuse ==
  /\ ~Filling
  /\ arena.generation < MaxGen
  /\ arena' = invalidate(arena)
  /\ mem' = [i \in 1 .. MemSize |-> 0]
  /\ UNCHANGED views
  /\ used' = 0 /\ frames' = <<>>
  /\ cur' = Cursor(<<>>, FALSE, 0) /\ logical' = <<>>
  /\ UNCHANGED held

-----------------------------------------------------------------------------
(* Reading.  The cursor is used only while the bytes under it last, which  *)
(* the cursor itself does not check; views may be used at any time.        *)

\* from(bytes, arena), and a cursor over the parts under its stamp.
OpenBuffer(parts) ==
  /\ Filling /\ used > 0
  /\ Open(0, used)
  /\ cur' = Cursor(parts, TRUE, arena'.generation)
  /\ logical' = Addresses(parts)
  /\ UNCHANGED <<used, frames, held>>

Current == cur.src.gen = arena.generation

Step(r, n) ==
  /\ Current /\ r.ok
  /\ cur' = r.rest /\ logical' = SubSeq(logical, n + 1, Len(logical))

Skip(n) == Step(seg_skip(cur, n), n) /\ UNCHANGED <<arenaVars, used, frames, held>>

TakeStruct(T) ==
  Step(strct_seg(mem, cur, T, Dflt), wire_size(T)) /\ UNCHANGED <<arenaVars, used, frames, held>>

Overlay(T) ==
  LET r == overlay_seg(cur, T)
      v == [p |-> r.value.p, len |-> r.value.len, tracked |-> r.value.tracked,
            gen |-> r.value.gen, seen |-> Window(mem, r.value.p, r.value.len)]
  IN  /\ Cardinality(held) < MaxViews
      /\ Step(r, wire_size(T))
      /\ Attest(v)
      /\ held' = held \cup {[span |-> v, T |-> T]}
      /\ UNCHANGED <<used, frames>>

\* Parsing goes on in the next n bytes only.
Narrow(n) ==
  /\ Current /\ subrange(cur, n) # None
  /\ cur' = seg_from(subrange(cur, n)[1])
  /\ logical' = SubSeq(logical, 1, n)
  /\ UNCHANGED <<arenaVars, used, frames, held>>

\* view::get of a nested struct or a byte array: the whole struct is
\* checked, then a part of it handed out.  The other fields are decoded in
\* place, which changes no state.
get(h, i) ==
  LET F == h.T.fields[i]
      part == subspan(h.span, field_bit_offsets(h.T)[i] \div 8, wire_size(F))
  IN  /\ F.k = "struct" \/ (F.k = "array" /\ F.elem.k = "scalar" /\ F.elem.n = 1)
      /\ Access(h.span, part)
      /\ held' = IF F.k = "struct" THEN held \cup {[span |-> part, T |-> F]} ELSE held
      /\ UNCHANGED <<used, frames, cur, logical>>

Next ==
  \/ \E T \in Accepted : \E v \in T.values :
       EmitInPlace(T, v) \/ \E payload \in T.payloads : emit_frame(T, v, payload)
  \/ Reuse
  \/ \E parts \in Cuttings(used) : OpenBuffer(parts)
  \/ \E n \in Lengths : Skip(n) \/ Narrow(n)
  \/ \E T \in Accepted : TakeStruct(T) \/ Overlay(T)
  \/ \E h \in held : \E i \in DOMAIN h.T.fields : get(h, i)

Spec == Init /\ [][Next]_vars

-----------------------------------------------------------------------------
Computed(T) == {T.computed[i].f : i \in DOMAIN T.computed}

\* Every frame in the buffer reads back as it was written: strct decodes
\* each field that is not computed to the value given, view::get decodes
\* every field to the same number, verify_computed accepts the computed ones
\* against the frame's payload, and footer finds the same struct from the
\* other end.
FramesReadBack ==
  \A j \in DOMAIN frames :
    LET f == frames[j]
        wire == Window(mem, f.at, wire_size(f.T))
        back == strct(from(wire), f.T, Dflt)
        Host(i) == IF f.T.fields[i].k = "endian" THEN get_endian(f.T.fields[i], back.value[i])
                   ELSE back.value[i]
    IN  /\ back.ok /\ size(back.rest) = 0 /\ first_bad_field(f.T, f.v, Dflt) = 0
        /\ \A i \in DOMAIN f.T.fields :
             /\ i \notin Computed(f.T) => back.value[i] = f.v[i]
             /\ decode_field(mem, f.at, field_bit_offsets(f.T)[i], f.T.fields[i], Dflt) = Host(i)
        /\ verify_computed(f.T, wire, f.payload, Dflt)
        /\ footer([from(mem) EXCEPT !.last = f.at + wire_size(f.T)], f.T, Dflt).value = back.value

\* The cursor stands at the right byte of the right part after any sequence
\* of skips, parses and narrowings, empty parts included: the bytes ahead
\* of it are the logical remainder, and a null cursor means exhausted.
CursorWalksTheParts ==
  /\ (cur.cur = NullPtr) <=> (logical = <<>>)
  /\ seg_size(cur) = Len(logical)
  /\ Addresses(NextPieces(cur, seg_size(cur))) = logical

\* Reading through the parts and reading the joined bytes agree, for every
\* struct and scalar, on a growing buffer too: the same value or the same
\* shortage, a window that is zero-copy exactly when it lies in one part,
\* and an overlay only of such a window.
SegmentedMatchesJoined ==
  LET joined == [i \in DOMAIN logical |-> mem[logical[i] + 1]]
      flat == streaming(from(joined))
      in == seg_streaming(cur)
      Same(s, f) == /\ s.ok = f.ok
                    /\ IF s.ok THEN s.value = f.value /\ seg_size(s.rest) = size(f.rest)
                       ELSE s.kind = f.kind /\ s.needed = f.needed
      ahead == [parts |-> NextPieces(cur, seg_size(cur))]
  IN  /\ \A T \in Accepted :
           LET o == overlay_seg(in, T)
           IN  /\ Same(strct_seg(mem, in, T, Dflt), strct(flat, T, Dflt))
               /\ o.ok => Window(mem, o.value.p, o.value.len) = Bytes(flat, wire_size(T))
               /\ o.ok <=> gather(mem, in, wire_size(T)).zero_copy
      /\ \A order \in {"big", "little"} : Same(seg_uint(mem, in, 2, order), read_uint(flat, 2, order))
      /\ \A n \in 0 .. Len(logical) :
           /\ seg_take(mem, in, n).value = SubSeq(joined, 1, n)
           /\ safe_at(mem, in, n) = (IF n < Len(logical) THEN <<joined[n + 1]>> ELSE None)
           /\ n < Len(logical) => byte_at(mem, ahead.parts, n) = joined[n + 1]
           /\ checked_advance(in, n) # None /\ seg_size(checked_advance(in, n)[1]) = Len(logical) - n

\* Writing, reusing and parsing keep to the arena's contract: every step is
\* a step of WireArena, so what is proved of ArenaSpec holds here.
ArenaContract == [][ArenaNext]_arenaVars

\* The check has no false alarms: a span or view of the generation that is
\* open, nested ones included, lies inside the arena and may be used.
NoFalseFault ==
  \A v \in views : v.gen = arena.generation => check_wire_access(arena, v) = "none"

\* Where the parts were cut never shows: seg_input stands at the right byte and
\* reads what the joined bytes hold.
CutsNeverShow == CursorWalksTheParts /\ SegmentedMatchesJoined
=============================================================================
