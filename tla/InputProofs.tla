---------------------------- MODULE InputProofs ----------------------------
(***************************************************************************)
(* What a program is handed and reads in place: buffers under a wire_arena *)
(* (WireArena) and capture files (PcapBlocks), two parts that share no     *)
(* state.                                                                  *)
(*                                                                         *)
(* No stamped access that passes check_wire_access reads a reused buffer,  *)
(* for any memory, any number of generations and any fault handler.        *)
(*                                                                         *)
(* For every capture its writer describes rightly, however many sections,  *)
(* blocks and interfaces it has: the scan finds the blocks, packets are    *)
(* framed inside their blocks, and a caller without a scan finds the same  *)
(* packets as run_decode_pass.  Both take a packet's link type from its    *)
(* own section's interface, unless an interface block of that section is   *)
(* too short for its fields.                                               *)
(***************************************************************************)
EXTENDS WireArena, PcapBlocks, FiniteSetTheorems, TLAPS

-----------------------------------------------------------------------------
(* Stamped spans                                                           *)


\* The inductive invariant.  Stamps never run ahead of the arena, and a
\* span of the open generation agrees with memory on every cell that lies
\* inside the arena; cells outside it may have been rewritten.
Agrees(v) ==
  /\ v.p + v.len <= MemSize
  /\ v.seen \in [1 .. v.len -> Value]
  /\ v.gen = arena.generation =>
       \A i \in 1 .. v.len : InArena(arena, v.p + i - 1) => mem[v.p + i] = v.seen[i]

ArenaInv ==
  /\ ArenaTypeOK
  /\ \A v \in views : v.gen <= arena.generation /\ (v.p # Null => Agrees(v))

\* The arena starts closed and no span is held.
LEMMA ArenaInitInv == ArenaInit => ArenaInv
  BY ArenaAssumption DEF ArenaInit, ArenaInv, ArenaTypeOK, Addr, Null, Memory

\* The bytes of a readable span are a sequence of values of its length.
LEMMA ReadType ==
  ASSUME NEW m \in Memory, NEW v \in Span, v.p # Null, v.p + v.len <= MemSize
  PROVE  Read(m, v) \in [1 .. v.len -> Value]
  BY ArenaAssumption DEF Read, Memory, Span, Addr, Null

\* Opening moves to a generation no span has.
LEMMA OpenInv ==
  ASSUME ArenaInv, NEW base \in Addr, NEW n \in 0 .. MemSize, base + n <= MemSize, Open(base, n)
  PROVE  ArenaInv'
<1>1. ArenaTypeOK'
  BY ArenaAssumption DEF ArenaInv, ArenaTypeOK, Open, open
<1>2. ASSUME NEW v \in views'
      PROVE  v.gen <= arena'.generation /\ (v.p # Null => Agrees(v)')
  <2>1. v \in views /\ v \in Span /\ v.gen < arena'.generation
    BY <1>2, ArenaAssumption DEF ArenaInv, ArenaTypeOK, Open, open, Span
  <2>2. QED
    BY <2>1 DEF ArenaInv, ArenaTypeOK, Open, open, Agrees, Span
<1>3. QED
  BY <1>1, <1>2 DEF ArenaInv

\* Rewriting leaves the cells of an open arena alone, and invalidating
\* moves to a generation no span has.
LEMMA WriteInv ==
  ASSUME ArenaInv, Write
  PROVE  ArenaInv'
<1>1. ArenaTypeOK'
  BY ArenaAssumption DEF ArenaInv, ArenaTypeOK, Write, invalidate
<1>2. ASSUME NEW v \in views'
      PROVE  v.gen <= arena'.generation /\ (v.p # Null => Agrees(v)')
  <2>1. v \in views /\ v \in Span /\ v.gen <= arena.generation /\ (v.p # Null => Agrees(v))
    BY <1>2 DEF ArenaInv, ArenaTypeOK, Write
  <2>2. CASE arena' = arena
    <3>1. ASSUME v.p # Null, v.gen = arena'.generation, NEW i \in 1 .. v.len,
                 InArena(arena', v.p + i - 1)
          PROVE  mem'[v.p + i] = v.seen[i]
      <4>1. v.p \in Nat /\ v.p + i - 1 \in Addr
        BY <2>1, <3>1, ArenaAssumption DEF Span, Addr, Null, Agrees
      <4>2. mem'[(v.p + i - 1) + 1] = mem[(v.p + i - 1) + 1]
        BY <3>1, <4>1 DEF Write
      <4>3. (v.p + i - 1) + 1 = v.p + i
        BY <4>1
      <4>4. QED
        BY <2>1, <2>2, <3>1, <4>2, <4>3 DEF Agrees
    <3>2. QED
      BY <2>1, <2>2, <3>1 DEF Agrees
  <2>3. CASE arena' = invalidate(arena)
    <3>1. v.gen < arena'.generation
      BY <2>1, <2>3 DEF ArenaInv, ArenaTypeOK, invalidate, Span
    <3>2. QED
      BY <1>1, <2>1, <3>1 DEF Agrees, ArenaTypeOK, Span
  <2>4. QED
    BY <2>2, <2>3 DEF Write
<1>3. QED
  BY <1>1, <1>2 DEF ArenaInv

\* A new span agrees with the memory it was read from.
LEMMA AttestInv ==
  ASSUME ArenaInv, NEW v, Attest(v)
  PROVE  ArenaInv'
<1>1. ArenaTypeOK'
  BY DEF ArenaInv, ArenaTypeOK, Attest
<1>2. ASSUME NEW w \in views'
      PROVE  w.gen <= arena'.generation /\ (w.p # Null => Agrees(w)')
  <2>1. CASE w \in views
    BY <2>1 DEF ArenaInv, Attest, Agrees
  <2>2. CASE w = v
    <3>1. ASSUME v.p # Null
          PROVE  v.seen \in [1 .. v.len -> Value] /\ \A i \in 1 .. v.len : mem[v.p + i] = v.seen[i]
      BY <3>1, ReadType, ZenonT(40) DEF ArenaInv, ArenaTypeOK, Attest, Read
    <3>2. QED
      BY <2>2, <3>1 DEF ArenaInv, Attest, Agrees
  <2>3. QED
    BY <1>2, <2>1, <2>2 DEF Attest
<1>3. QED
  BY <1>1, <1>2 DEF ArenaInv

\* A part of a span agrees where the span does.
LEMMA AccessInv ==
  ASSUME ArenaInv, NEW v \in views, NEW part, Access(v, part)
  PROVE  ArenaInv'
<1> PICK off \in 0 .. v.len, n \in 0 .. v.len : off + n <= v.len /\ part = subspan(v, off, n)
  BY DEF Access
<1>1. v \in Span /\ v.gen <= arena.generation /\ (v.p # Null => Agrees(v))
  BY DEF ArenaInv, ArenaTypeOK
<1>2. /\ v.p \in 0 .. MemSize /\ Agrees(v)
      /\ part.gen = v.gen /\ part.len = n /\ part.p = v.p + off
      /\ part.seen = [i \in 1 .. n |-> v.seen[off + i]]
  BY <1>1, ZenonT(40) DEF subspan, Span, Access
<1>3. part.seen \in [1 .. n -> Value] /\ part.p + n <= MemSize
  <2>1. \A i \in 1 .. n : off + i \in 1 .. v.len
    BY <1>1 DEF Span
  <2>2. \A i \in 1 .. n : v.seen[off + i] \in Value
    BY <1>2, <2>1, ZenonT(40) DEF Agrees
  <2>3. part.p + n <= MemSize
    BY <1>1, <1>2, ArenaAssumption DEF Agrees, Span
  <2>4. QED
    BY <1>2, <2>2, <2>3
<1>4. part \in Span
  <2>1. part.seen \in Seq(Value)
    BY <1>3
  <2>2. part.p \in 0 .. MemSize /\ n \in 0 .. MemSize
    BY <1>1, <1>2, <1>3, ArenaAssumption DEF Span
  <2>3. QED
    BY <1>1, <1>2, <2>1, <2>2 DEF subspan, Span, Access
<1>5. ArenaTypeOK'
  BY <1>4 DEF ArenaInv, ArenaTypeOK, Access
<1>6. Agrees(part)
  <2>1. ASSUME part.gen = arena.generation, NEW i \in 1 .. n, InArena(arena, part.p + i - 1)
        PROVE  mem[part.p + i] = part.seen[i]
    <3>1. /\ off + i \in 1 .. v.len
          /\ part.p + i = v.p + (off + i) /\ part.p + i - 1 = v.p + (off + i) - 1
      BY <1>1, <1>2 DEF Span
    <3>2. mem[v.p + (off + i)] = v.seen[off + i]
      BY <1>2, <2>1, <3>1 DEF Agrees
    <3>3. QED
      BY <1>2, <3>1, <3>2
  <2>2. QED
    BY <1>2, <1>3, <2>1 DEF Agrees
<1>7. ASSUME NEW w \in views'
      PROVE  w.gen <= arena'.generation /\ (w.p # Null => Agrees(w)')
  <2>1. Agrees(w)' <=> Agrees(w)
    BY DEF Agrees, Access
  <2>2. CASE w \in views
    BY <2>1, <2>2 DEF ArenaInv, Access
  <2>3. CASE w = part
    BY <1>1, <1>2, <1>6, <2>1, <2>3 DEF Access
  <2>4. QED
    BY <1>7, <2>2, <2>3 DEF Access
<1>8. QED
  BY <1>5, <1>7 DEF ArenaInv

\* Every reachable state satisfies the invariant.
THEOREM ArenaInvariant == ArenaSpec => []ArenaInv
<1>1. ArenaInv /\ [ArenaNext]_arenaVars => ArenaInv'
  <2> SUFFICES ASSUME ArenaInv, [ArenaNext]_arenaVars PROVE ArenaInv'
    OBVIOUS
  <2>1. CASE ArenaNext
    BY <2>1, OpenInv, WriteInv, AttestInv, AccessInv DEF ArenaNext
  <2>2. CASE UNCHANGED arenaVars
    BY <2>2 DEF arenaVars, ArenaInv, ArenaTypeOK, Agrees
  <2>3. QED
    BY <2>1, <2>2
<1>2. QED
  BY <1>1, ArenaInitInv, PTL DEF ArenaSpec

\* check_wire_access: a stamped access without a fault reads the bytes its
\* span covered when it was handed out, however often the buffer was
\* reopened, invalidated and rewritten since.
THEOREM StampedReadsAreFresh == ArenaSpec => []NoStaleRead
<1>1. ArenaInv => NoStaleRead
  <2> SUFFICES ASSUME ArenaInv, NEW v \in views, v.tracked,
                      check_wire_access(arena, v) = "none"
               PROVE  Read(mem, v) = v.seen
    BY DEF NoStaleRead
  <2>1. v \in Span /\ v.p # Null /\ arena.generation = v.gen /\ contains(arena, v.p, v.len)
    BY DEF ArenaInv, ArenaTypeOK, check_wire_access
  <2>2. Agrees(v)
    BY <2>1 DEF ArenaInv
  <2>3. ASSUME NEW i \in 1 .. v.len
        PROVE  mem[v.p + i] = v.seen[i]
    <3>1. InArena(arena, v.p + i - 1)
      BY <2>1 DEF contains, InArena, Span, ArenaInv, ArenaTypeOK, Addr, Null
    <3>2. QED
      BY <2>1, <2>2, <3>1 DEF Agrees
  <2>4. QED
    BY <2>2, <2>3, ZenonT(40) DEF Agrees, Read
<1>2. QED
  BY <1>1, ArenaInvariant, PTL

\* wire_arena: a span whose generation has passed is refused for good.
\* Nothing the program does afterwards, reopening the arena over the same
\* bytes included, makes a stale stamp current again.
StaleStaysStale ==
  [][\A v \in views : v.gen # arena.generation => v \in views' /\ v.gen # arena'.generation]_arenaVars

\* Generations only grow, so a stamp that has passed never comes back.
THEOREM StaleForGood == ArenaSpec => StaleStaysStale
<1>1. ArenaInv /\ [ArenaNext]_arenaVars =>
        [\A v \in views : v.gen # arena.generation => v \in views' /\ v.gen # arena'.generation]_arenaVars
  <2> SUFFICES ASSUME ArenaInv, ArenaNext, NEW v \in views, v.gen # arena.generation
               PROVE  v \in views' /\ v.gen # arena'.generation
    BY DEF arenaVars
  <2>1. v.gen \in Nat /\ arena.generation \in Nat /\ v.gen < arena.generation
    BY DEF ArenaInv, ArenaTypeOK, Span
  <2>2. v \in views' /\ (arena' = arena \/ arena'.generation = arena.generation + 1)
    BY DEF ArenaNext, Open, open, Write, invalidate, Attest, Access
  <2>3. QED
    BY <2>1, <2>2
<1>2. QED
  BY <1>1, ArenaInvariant, PTL DEF ArenaSpec, StaleStaysStale


-----------------------------------------------------------------------------
(* Numbers in bytes                                                        *)

Word4 == Byte \X Byte \X Byte \X Byte

\* A number below the modulus is its own remainder.
LEMMA SmallMod ==
  ASSUME NEW x \in Nat, NEW y \in Nat, x < y
  PROVE  x % y = x
OBVIOUS

\* A record of n bytes, its header included, that ends inside a file of m.
LEMMA RecordFits ==
  ASSUME NEW start \in Nat, NEW n \in Nat, NEW m \in Nat, start + n <= m, n >= 16
  PROVE  /\ ~(m - start < 16) /\ start + 8 \in Nat /\ (start + 8) + 4 <= m
OBVIOUS

\* The captured length of such a record stays inside the file, too.
LEMMA RecordEnds ==
  ASSUME NEW start \in Nat, NEW caplen \in Nat, NEW m \in Nat, start + (16 + caplen) <= m
  PROVE  ~(caplen > (m - start) - 16) /\ (start + 16) + caplen = start + (16 + caplen)
OBVIOUS

\* A byte put behind a number gives a number, and can be told from it again.
Put(x, byte) == x * Radix + byte

LEMMA DigitsUnique ==
  ASSUME NEW a \in Nat, NEW b \in Byte, NEW c \in Nat, NEW d \in Byte
  PROVE  Put(a, b) \in Nat /\ (Put(a, b) = Put(c, d) => a = c /\ b = d)
<1> USE DEF Put
<1> Radix \in Nat /\ b \in Nat /\ d \in Nat /\ b < Radix /\ d < Radix
  BY RadixAssumption DEF Byte
<1>1. ASSUME NEW x \in Nat, NEW y \in Nat, x < y
      PROVE  x * Radix + Radix <= y * Radix
  <2>1. PICK k \in Nat : y = x + 1 + k
    <3>1. y - x - 1 \in Nat /\ y = x + 1 + (y - x - 1)
      BY <1>1
    <3> QED BY <3>1
  <2>2. (x + 1 + k) * Radix = x * Radix + Radix + k * Radix
    OBVIOUS
  <2>3. k * Radix >= 0 /\ k * Radix \in Nat /\ x * Radix \in Nat
    OBVIOUS
  <2> QED BY <2>1, <2>2, <2>3
<1>2. a * Radix \in Nat /\ c * Radix \in Nat
  OBVIOUS
<1>3. a * Radix + b = c * Radix + d => ~(a < c) /\ ~(c < a)
  <2>1. a < c => a * Radix + Radix <= c * Radix
    BY <1>1
  <2>2. c < a => c * Radix + Radix <= a * Radix
    BY <1>1
  <2> HIDE <1>1
  <2> QED BY <2>1, <2>2, <1>2
<1>4. a * Radix + b = c * Radix + d => a = c
  BY <1>3
<1> QED BY <1>2, <1>4

\* Four bytes give a number, which gives them back.
Parts(n) == CHOOSE w \in Word4 : n = Number(w[1], w[2], w[3], w[4])

LEMMA NumberParts ==
  ASSUME NEW a \in Byte, NEW b \in Byte, NEW c \in Byte, NEW d \in Byte
  PROVE  /\ Number(a, b, c, d) \in Nat
         /\ Parts(Number(a, b, c, d)) = <<a, b, c, d>>
<1>1. \A x \in Byte : x \in Nat
  BY RadixAssumption DEF Byte
<1>2. \A x, y \in Nat : \A u, v \in Byte : Put(x, u) \in Nat /\ (Put(x, u) = Put(y, v) => x = y /\ u = v)
  BY DigitsUnique, Zenon
<1>3. \A p, q, r, s : Number(p, q, r, s) = Put(Put(Put(p, q), r), s)
  BY Zenon DEF Number, Put
<1>4. Number(a, b, c, d) \in Nat
  BY <1>1, <1>2, <1>3, Zenon
<1> DEFINE n == Number(a, b, c, d)
           w == Parts(n)
<1>5. w \in Word4 /\ n = Number(w[1], w[2], w[3], w[4])
  <2>1. <<a, b, c, d>> \in Word4
    BY DEF Word4
  <2>2. \E v \in Word4 : n = Number(v[1], v[2], v[3], v[4])
    BY <2>1
  <2> QED BY <2>2, Zenon DEF Parts
<1>6. w[1] \in Byte /\ w[2] \in Byte /\ w[3] \in Byte /\ w[4] \in Byte /\ w = <<w[1], w[2], w[3], w[4]>>
  BY <1>5 DEF Word4
<1> HIDE DEF w
<1>7. a = w[1] /\ b = w[2] /\ c = w[3] /\ d = w[4]
  <2>1. /\ Put(a, b) \in Nat /\ Put(Put(a, b), c) \in Nat
        /\ Put(w[1], w[2]) \in Nat /\ Put(Put(w[1], w[2]), w[3]) \in Nat
    <3>1. Put(a, b) \in Nat /\ Put(w[1], w[2]) \in Nat
      BY <1>1, <1>2, <1>6
    <3> QED BY <1>2, <1>6, <3>1
  <2>2. Put(Put(a, b), c) = Put(Put(w[1], w[2]), w[3]) /\ d = w[4]
    <3>1. Put(Put(Put(a, b), c), d) = Put(Put(Put(w[1], w[2]), w[3]), w[4])
      BY <1>3, <1>5, Zenon
    <3> QED BY <1>2, <1>6, <2>1, <3>1
  <2>3. Put(a, b) = Put(w[1], w[2]) /\ c = w[3]
    BY <1>2, <1>6, <2>1, <2>2
  <2> QED BY <1>1, <1>2, <1>6, <2>2, <2>3
<1> QED BY <1>4, <1>6, <1>7 DEF w

\* The bytes of the constants.
LEMMA ConstantNumbers ==
  /\ kShb = Number(10, 13, 13, 10) /\ Parts(kShb) = <<10, 13, 13, 10>>
  /\ Parts(kIdb) = <<0, 0, 0, 1>> /\ Parts(kEpb) = <<0, 0, 0, 6>> /\ Parts(kSpb) = <<0, 0, 0, 3>>
  /\ \A m \in {kMagicUsLE, kMagicNsLE, kMagicUsBE, kMagicNsBE} : Parts(m)[1] # 10 /\ Parts(m)[2] # 0
<1> DEFINE h(x) == x % Radix
<1>1. \A x \in Nat : h(x) \in Byte
  <2>1. CASE Radix = 16
    BY <2>1 DEF Byte
  <2>2. CASE Radix = 256
    BY <2>2 DEF Byte
  <2> QED BY <2>1, <2>2, RadixAssumption
<1>2. /\ h(0) = 0 /\ h(1) = 1 /\ h(3) = 3 /\ h(6) = 6 /\ h(10) = 10 /\ h(13) = 13
      /\ h(161) # 10 /\ h(212) # 10 /\ h(77) # 10 /\ h(178) # 0 /\ h(195) # 0 /\ h(60) # 0
  <2>1. CASE Radix = 16
    BY <2>1
  <2>2. CASE Radix = 256
    BY <2>2
  <2> QED BY <2>1, <2>2, RadixAssumption
<1>3. \A a, b, c, d : Constant(a, b, c, d) = Number(h(a), h(b), h(c), h(d))
  BY Zenon DEF Constant
<1> HIDE DEF h
<1>4. \A a, b, c, d \in Nat : Parts(Constant(a, b, c, d)) = <<h(a), h(b), h(c), h(d)>>
  BY <1>1, <1>3, NumberParts, Zenon
<1>5. /\ 0 \in Nat /\ 1 \in Nat /\ 3 \in Nat /\ 6 \in Nat /\ 10 \in Nat /\ 13 \in Nat /\ 60 \in Nat
      /\ 77 \in Nat /\ 161 \in Nat /\ 178 \in Nat /\ 195 \in Nat /\ 212 \in Nat
  OBVIOUS
<1>10. Parts(kShb) = <<h(10), h(13), h(13), h(10)>>
  BY <1>4, <1>5 DEF kShb
<1>11. Parts(kIdb) = <<h(0), h(0), h(0), h(1)>>
  BY <1>4, <1>5 DEF kIdb
<1>12. Parts(kEpb) = <<h(0), h(0), h(0), h(6)>>
  BY <1>4, <1>5 DEF kEpb
<1>13. Parts(kSpb) = <<h(0), h(0), h(0), h(3)>>
  BY <1>4, <1>5 DEF kSpb
<1>14. Parts(kMagicUsLE) = <<h(161), h(178), h(195), h(212)>>
  BY <1>4, <1>5 DEF kMagicUsLE
<1>15. Parts(kMagicNsLE) = <<h(161), h(178), h(60), h(77)>>
  BY <1>4, <1>5 DEF kMagicNsLE
<1>16. Parts(kMagicUsBE) = <<h(212), h(195), h(178), h(161)>>
  BY <1>4, <1>5 DEF kMagicUsBE
<1>17. Parts(kMagicNsBE) = <<h(77), h(60), h(178), h(161)>>
  BY <1>4, <1>5 DEF kMagicNsBE
<1>6. kShb = Number(10, 13, 13, 10)
  BY <1>2, <1>3, Zenon DEF kShb
<1>7. Parts(kMagicUsLE)[1] = h(161) /\ Parts(kMagicUsLE)[2] = h(178) /\ Parts(kMagicNsLE)[1] = h(161)
      /\ Parts(kMagicNsLE)[2] = h(178) /\ Parts(kMagicUsBE)[1] = h(212) /\ Parts(kMagicUsBE)[2] = h(195)
      /\ Parts(kMagicNsBE)[1] = h(77) /\ Parts(kMagicNsBE)[2] = h(60)
  BY <1>14, <1>15, <1>16, <1>17
<1>8. \A m \in {kMagicUsLE, kMagicNsLE, kMagicUsBE, kMagicNsBE} : Parts(m)[1] # 10 /\ Parts(m)[2] # 0
  BY <1>2, <1>7
<1>9. /\ Parts(kShb) = <<10, 13, 13, 10>> /\ Parts(kIdb) = <<0, 0, 0, 1>>
      /\ Parts(kEpb) = <<0, 0, 0, 6>> /\ Parts(kSpb) = <<0, 0, 0, 3>>
  BY <1>2, <1>10, <1>11, <1>12, <1>13
<1> QED BY <1>6, <1>8, <1>9

\* The type of a section header reads the same in both byte orders.
LEMMA ShbReadsAlike ==
  ASSUME NEW w \in Word4, NEW little \in BOOLEAN
  PROVE  u32(w, little) = kShb <=> u32(w, TRUE) = kShb
<1>1. w[1] \in Byte /\ w[2] \in Byte /\ w[3] \in Byte /\ w[4] \in Byte
  BY DEF Word4
<1>2. Parts(kShb) = <<10, 13, 13, 10>> /\ kShb = Number(10, 13, 13, 10)
  BY ConstantNumbers, Zenon
<1>3. Number(w[1], w[2], w[3], w[4]) = kShb <=> w[1] = 10 /\ w[2] = 13 /\ w[3] = 13 /\ w[4] = 10
  <2>1. Parts(Number(w[1], w[2], w[3], w[4])) = <<w[1], w[2], w[3], w[4]>>
    BY <1>1, NumberParts, Zenon
  <2> QED BY <1>2, <2>1
<1>4. Number(w[4], w[3], w[2], w[1]) = kShb <=> w[1] = 10 /\ w[2] = 13 /\ w[3] = 13 /\ w[4] = 10
  <2>1. Parts(Number(w[4], w[3], w[2], w[1])) = <<w[4], w[3], w[2], w[1]>>
    BY <1>1, NumberParts, Zenon
  <2> QED BY <1>2, <2>1
<1> QED BY <1>3, <1>4, Zenon DEF u32

\* An interface block does not look like a classic header.
LEMMA IdbIsNoMagic ==
  ASSUME NEW w \in Word4, NEW little \in BOOLEAN, u32(w, little) = kIdb
  PROVE  u32(w, TRUE) \notin Magics
<1>1. w[1] \in Byte /\ w[2] \in Byte /\ w[3] \in Byte /\ w[4] \in Byte
  BY DEF Word4
<1>2. /\ Parts(Number(w[1], w[2], w[3], w[4])) = <<w[1], w[2], w[3], w[4]>>
      /\ Parts(Number(w[4], w[3], w[2], w[1])) = <<w[4], w[3], w[2], w[1]>>
  BY <1>1, NumberParts, ZenonT(40)
<1>3. w[2] = 0 /\ w[3] = 0
  <2>1. CASE little
    <3>1. Number(w[4], w[3], w[2], w[1]) = kIdb
      BY <2>1, Zenon DEF u32
    <3> QED BY <1>2, <3>1, ConstantNumbers
  <2>2. CASE ~little
    <3>1. Number(w[1], w[2], w[3], w[4]) = kIdb
      BY <2>2, Zenon DEF u32
    <3> QED BY <1>2, <3>1, ConstantNumbers
  <2> QED BY <2>1, <2>2
<1>4. Parts(u32(w, TRUE))[2] = 0
  BY <1>2, <1>3 DEF u32
<1>5. \A x \in Magics : Parts(x)[2] # 0
  BY ConstantNumbers, Zenon DEF Magics
<1> QED BY <1>4, <1>5, Zenon

\* The magics of classic files are not the type of a section header.
LEMMA MagicIsNoShb == kShb \notin Magics
<1>1. Parts(kShb)[1] = 10 /\ \A x \in Magics : Parts(x)[1] # 10
  BY ConstantNumbers DEF Magics
<1> QED BY <1>1, Zenon

\* The switch of scan_blocks calls exactly one type a section header.
LEMMA OnlyShb ==
  ASSUME NEW x
  PROVE  /\ KindOf(x) = "Shb" <=> x = kShb
         /\ KindOf(x) = "Idb" => x = kIdb
         /\ KindOf(x) # "PcapRecord"
<1>1. kShb # kIdb /\ kShb # kEpb /\ kShb # kSpb
  BY ConstantNumbers
<1>2. x = kShb => KindOf(x) = "Shb"
  BY <1>1, Zenon DEF KindOf
<1>3. KindOf(x) = "Shb" => x = kShb
  BY <1>1, Zenon DEF KindOf
<1>4. KindOf(x) = "Idb" => x = kIdb
  BY <1>1, Zenon DEF KindOf
<1> QED BY <1>2, <1>3, <1>4, Zenon DEF KindOf

-----------------------------------------------------------------------------
(* The scan                                                                *)

\* c.blocks[i] of a capture as its writer describes it.
Written(c, i) == WellWritten(c) /\ i \in DOMAIN c.blocks

\* What the scan has of the blocks before block i.
StandsAt(s, c, i) ==
  /\ s.at = c.blocks[i].start
  /\ i > 1 => s.little = c.blocks[i - 1].little

\* The numbers of a block.
LEMMA BlockNumbers ==
  ASSUME NEW c, NEW i, Written(c, i)
  PROVE  /\ c.bytes \in Seq(Byte) /\ Len(c.bytes) \in Nat
         /\ c.blocks \in Seq(BlockFact) /\ i \in Nat /\ i >= 1 /\ i <= Len(c.blocks)
         /\ c.blocks[i] \in BlockFact /\ Placed(c, i)
         /\ c.blocks[i].start \in Nat /\ c.blocks[i].length \in Nat
         /\ c.blocks[i].length >= 1 /\ c.blocks[i].length < U32
         /\ c.blocks[i].start + c.blocks[i].length <= Len(c.bytes)
         /\ i > 1 => i - 1 \in DOMAIN c.blocks
<1>1. c.blocks[i] \in BlockFact /\ Placed(c, i)
  BY DEF Written, WellWritten
<1>2. c.blocks[i].start \in Nat /\ c.blocks[i].length \in Nat
  BY <1>1 DEF BlockFact
<1>3. /\ c.blocks[i].length > 0
      /\ c.blocks[i].start + c.blocks[i].length <= Len(c.bytes) /\ c.blocks[i].length < U32
  BY <1>1 DEF Placed
<1>4. c.blocks[i].length >= 1
  BY <1>2, <1>3
<1>5. c.bytes \in Seq(Byte) /\ c.blocks \in Seq(BlockFact) /\ i \in DOMAIN c.blocks
  BY DEF Written, WellWritten
<1> QED BY <1>1, <1>2, <1>3, <1>4, <1>5

\* Four bytes of the file, read in either order, are a number.
LEMMA WordsAreNumbers ==
  ASSUME NEW bytes \in Seq(Byte), NEW off \in Nat, off + 4 <= Len(bytes), NEW little \in BOOLEAN
  PROVE  word_at(bytes, off) \in Word4 /\ read_u32(bytes, off, little) \in Nat
<1>1. \A k \in {1, 2, 3, 4} : off + k \in 1 .. Len(bytes)
  OBVIOUS
<1>2. /\ bytes[off + 1] \in Byte /\ bytes[off + 2] \in Byte /\ bytes[off + 3] \in Byte
      /\ bytes[off + 4] \in Byte
  BY <1>1
<1> DEFINE w == word_at(bytes, off)
<1>3. w \in Word4 /\ w[1] \in Byte /\ w[2] \in Byte /\ w[3] \in Byte /\ w[4] \in Byte
  BY <1>2 DEF word_at, Word4
<1> HIDE DEF w
<1>4. u32(w, little) \in Nat
  BY <1>3, NumberParts, Zenon DEF u32
<1> QED BY <1>3, <1>4 DEF w, read_u32

\* scan_blocks knows a section header when it sees one, and its order.
LEMMA SeesShb ==
  ASSUME NEW c, NEW i, Written(c, i), ~c.classic
  PROVE  /\ (/\ Len(c.bytes) - c.blocks[i].start >= 4
             /\ read_u32(c.bytes, c.blocks[i].start, TRUE) = kShb) <=> c.blocks[i].kind = "Shb"
         /\ c.blocks[i].kind = "Shb" /\ c.blocks[i].start + 12 <= Len(c.bytes) =>
              shb_byte_order(c.bytes, c.blocks[i].start, TRUE) = c.blocks[i].little
         /\ c.blocks[i].kind # "Shb" /\ i # 1 => c.blocks[i].little = c.blocks[i - 1].little
<1> DEFINE b == c.blocks[i]
           left == Len(c.bytes) - b.start
<1>1. PcapngBlock(c, i)
  BY DEF Written, WellWritten
<1>2. b.little \in BOOLEAN /\ b.start \in Nat /\ Len(c.bytes) \in Nat /\ c.bytes \in Seq(Byte)
  BY BlockNumbers, Zenon DEF BlockFact
<1>3. left >= 4 => b.start + 4 <= Len(c.bytes)
  <2> HIDE DEF b
  <2> QED BY <1>2
<1>4. left < 4 \/ left >= 4
  <2> HIDE DEF b
  <2> QED BY <1>2
<1>5. left >= 4 => /\ read_u32(c.bytes, b.start, b.little) = kShb <=> read_u32(c.bytes, b.start, TRUE) = kShb
                   /\ b.kind = KindOf(read_u32(c.bytes, b.start, b.little))
  <2>1. SUFFICES ASSUME left >= 4
                 PROVE  /\ read_u32(c.bytes, b.start, b.little) = kShb <=> read_u32(c.bytes, b.start, TRUE) = kShb
                        /\ b.kind = KindOf(read_u32(c.bytes, b.start, b.little))
    BY Zenon
  <2>2. word_at(c.bytes, b.start) \in Word4
    BY <1>2, <1>3, <2>1, WordsAreNumbers, Zenon
  <2>3. ~(left < 4)
    <3> HIDE DEF b
    <3> QED BY <1>2, <2>1
  <2>4. b.kind = KindOf(read_u32(c.bytes, b.start, b.little))
    BY <1>1, <2>3, Zenon DEF PcapngBlock
  <2> QED BY <1>2, <2>2, <2>4, ShbReadsAlike, Zenon DEF read_u32
<1>6. left < 4 => b.kind = "Other" /\ ~(left >= 4)
  <2>1. left < 4 => ~(left >= 4)
    <3> HIDE DEF b
    <3> QED BY <1>2
  <2> QED BY <1>1, <2>1, Zenon DEF PcapngBlock
<1>7. (left >= 4 /\ read_u32(c.bytes, b.start, TRUE) = kShb) <=> b.kind = "Shb"
  <2>1. "Other" # "Shb"
    OBVIOUS
  <2> QED BY <1>4, <1>5, <1>6, <2>1, OnlyShb, Zenon
<1>8. b.kind = "Shb" /\ b.start + 12 <= Len(c.bytes) => shb_byte_order(c.bytes, b.start, TRUE) = b.little
  <2>1. SUFFICES ASSUME b.kind = "Shb", b.start + 12 <= Len(c.bytes)
                 PROVE  shb_byte_order(c.bytes, b.start, TRUE) = b.little
    BY Zenon
  <2>2. left >= 12 /\ ~(b.start + 12 > Len(c.bytes))
    <3>1. \A x, n \in Nat : x + 12 <= n => n - x >= 12 /\ ~(x + 12 > n)
      OBVIOUS
    <3> QED BY <1>2, <2>1, <3>1, Zenon
  <2>3. b.little = (read_u32(c.bytes, b.start + 8, TRUE) = kByteOrderMagic)
    BY <1>1, <2>1, <2>2, Zenon DEF PcapngBlock
  <2> QED BY <2>2, <2>3, Zenon DEF shb_byte_order
<1>9. b.kind # "Shb" /\ i # 1 => b.little = c.blocks[i - 1].little
  BY <1>1, Zenon DEF PcapngBlock
<1> QED BY <1>7, <1>8, <1>9, Zenon

\* One turn of the pcapng loop finds a sound block, and stops at another.
LEMMA ScanBlock ==
  ASSUME NEW c, NEW i, Written(c, i), ~c.classic, c.blocks[1].kind = "Shb",
         NEW s, StandsAt(s, c, i), s.little \in BOOLEAN
  PROVE  IF c.blocks[i].sound
         THEN scan_block(c.bytes, s) =
                [s EXCEPT !.at = c.blocks[i].start + c.blocks[i].length,
                          !.little = c.blocks[i].little,
                          !.out = Append(@, BlockRef(c.blocks[i].start, c.blocks[i].length,
                                                     c.blocks[i].kind, c.blocks[i].little))]
         ELSE \E little \in BOOLEAN :
                scan_block(c.bytes, s) = [s EXCEPT !.status = "error", !.little = little]
<1> DEFINE b == c.blocks[i]
           size == Len(c.bytes) - s.at
           is_shb == size >= 4 /\ read_u32(c.bytes, s.at, TRUE) = kShb
           little == IF is_shb THEN shb_byte_order(c.bytes, s.at, TRUE) ELSE s.little
           total == read_u32(c.bytes, s.at + 4, little)
           bad == (is_shb /\ size < 12) \/ size < 8 \/ total < 12 \/ total % 4 # 0 \/ total > size
<1>1. PcapngBlock(c, i) /\ s.at = b.start
  BY DEF Written, WellWritten, StandsAt
<1>2. is_shb <=> b.kind = "Shb"
  <2>1. Len(c.bytes) - b.start >= 4 /\ read_u32(c.bytes, b.start, TRUE) = kShb <=> b.kind = "Shb"
    BY SeesShb, Zenon
  <2> QED BY <1>1, <2>1, Zenon
<1>3. size = Len(c.bytes) - b.start /\ size \in Nat /\ b.start + size = Len(c.bytes) /\ b.start \in Nat
  <2>1. /\ b.start \in Nat /\ b.length \in Nat /\ Len(c.bytes) \in Nat
        /\ b.start + b.length <= Len(c.bytes)
    BY BlockNumbers, Zenon
  <2>2. size = Len(c.bytes) - b.start
    BY <1>1, Zenon
  <2> HIDE DEF b, size
  <2> QED BY <2>1, <2>2, SMTT(30)
<1>4. ~(is_shb /\ size < 12) => little = b.little
  <2>1. CASE is_shb /\ size >= 12
    <3>1. b.start + 12 <= Len(c.bytes)
      <4> HIDE DEF b, size, is_shb
      <4> QED BY <1>3, <2>1
    <3>2. shb_byte_order(c.bytes, b.start, TRUE) = b.little
      BY <1>2, <2>1, <3>1, SeesShb, Zenon
    <3> QED BY <1>1, <2>1, <3>2, Zenon
  <2>2. CASE ~is_shb
    <3>1. i # 1 /\ i > 1
      <4>1. i \in Nat /\ i >= 1
        BY BlockNumbers, Zenon
      <4>2. i # 1
        BY <1>2, <2>2, Zenon
      <4> QED BY <4>1, <4>2
    <3> QED BY <1>2, <2>2, <3>1, SeesShb, Zenon DEF StandsAt
  <2>3. size < 12 \/ size >= 12
    BY <1>3
  <2> QED BY <2>1, <2>2, <2>3, Zenon
<1>5. scan_block(c.bytes, s) =
        IF bad THEN [s EXCEPT !.status = "error", !.little = little]
        ELSE [s EXCEPT !.at = @ + total, !.little = little,
                       !.out = Append(@, BlockRef(s.at, total,
                                   KindOf(read_u32(c.bytes, s.at, little)), little))]
  BY Zenon DEF scan_block
<1> HIDE DEF little, total, size
<1>6. CASE ~b.sound
  <2>1. bad
    <3>1. ~(i = 1 /\ b.kind # "Shb")
      BY Zenon
    <3> QED BY <1>1, <1>2, <1>3, <1>4, <1>6, <3>1, Zenon DEF PcapngBlock, size, total
  <2>2. little \in BOOLEAN
    BY Zenon DEF little, shb_byte_order
  <2> QED BY <1>5, <1>6, <2>1, <2>2, Zenon
<1>7. CASE b.sound
  <2>0. /\ b.start \in Nat /\ b.length \in Nat /\ Len(c.bytes) \in Nat
        /\ b.start + b.length <= Len(c.bytes) /\ b.length % 4 = 0
    BY <1>1, <1>7, BlockNumbers, Zenon DEF PcapngBlock
  <2>1. b.length >= 12 /\ size >= b.length
    <3>1. b.length >= 12
      BY <1>1, <1>7, Zenon DEF PcapngBlock
    <3> HIDE DEF b
    <3> QED BY <1>3, <2>0, <3>1
  <2>2. little = b.little
    <3> HIDE DEF b, is_shb
    <3> QED BY <1>3, <1>4, <2>0, <2>1
  <2>3. total = b.length
    BY <1>1, <1>7, <2>2 DEF PcapngBlock, total
  <2>4. ~bad
    <3> HIDE DEF b, is_shb
    <3> QED BY <1>3, <2>0, <2>1, <2>3, SMTT(30)
  <2>5. KindOf(read_u32(c.bytes, s.at, little)) = b.kind
    <3>1. ~(Len(c.bytes) - b.start < 4)
      <4> HIDE DEF b
      <4> QED BY <1>3, <2>0, <2>1
    <3> QED BY <1>1, <2>2, <3>1, Zenon DEF PcapngBlock
  <2> QED BY <1>1, <1>5, <1>7, <2>2, <2>3, <2>4, <2>5, Zenon
<1> QED BY <1>6, <1>7, Zenon

\* One turn of the classic loop finds a sound record, and stops at another.
LEMMA ScanRecord ==
  ASSUME NEW c, NEW i, Written(c, i), c.classic, i > 1, NEW s, StandsAt(s, c, i)
  PROVE  IF c.blocks[i].sound
         THEN scan_record(c.bytes, s) =
                [s EXCEPT !.at = c.blocks[i].start + c.blocks[i].length,
                          !.out = Append(@, BlockRef(c.blocks[i].start, c.blocks[i].length,
                                                     c.blocks[i].kind, c.blocks[i].little))]
         ELSE scan_record(c.bytes, s) = [s EXCEPT !.status = "error"]
<1> DEFINE b == c.blocks[i]
           size == Len(c.bytes) - s.at
           caplen == read_u32(c.bytes, s.at + 8, s.little)
           bad == size < 16 \/ caplen > size - 16
<1>1. /\ ClassicBlock(c, i) /\ s.at = b.start /\ i # 1
      /\ s.little = c.blocks[i - 1].little
  BY BlockNumbers DEF Written, WellWritten, StandsAt
<1>2. b.kind = "PcapRecord" /\ s.little = b.little
  BY <1>1, Zenon DEF ClassicBlock
<1>3. /\ b.start \in Nat /\ b.length \in Nat /\ Len(c.bytes) \in Nat
      /\ b.start + b.length <= Len(c.bytes) /\ c.bytes \in Seq(Byte)
  BY BlockNumbers, Zenon
<1>4. size = Len(c.bytes) - b.start /\ size \in Nat
  BY <1>1, <1>3
<1>5. scan_record(c.bytes, s) =
        IF bad THEN [s EXCEPT !.status = "error"]
        ELSE [s EXCEPT !.at = @ + 16 + caplen,
                       !.out = Append(@, BlockRef(s.at, 16 + caplen, "PcapRecord", s.little))]
  BY Zenon DEF scan_record
<1> HIDE DEF size, caplen
<1>6. CASE ~b.sound
  <2>1. bad
    BY <1>1, <1>2, <1>4, <1>6, Zenon DEF ClassicBlock, size, caplen
  <2> QED BY <1>5, <1>6, <2>1, Zenon
<1>7. CASE b.sound
  <2>1. b.length >= 16 /\ b.length = 16 + caplen
    BY <1>1, <1>2, <1>7, Zenon DEF ClassicBlock, caplen
  <2>2. b.little \in BOOLEAN
    BY BlockNumbers, Zenon DEF BlockFact
  <2>3. ~(size < 16) /\ b.start + 8 \in Nat /\ (b.start + 8) + 4 <= Len(c.bytes)
    BY <1>3, <1>4, <2>1, RecordFits, Zenon
  <2>4. caplen \in Nat
    BY <1>1, <1>2, <1>3, <2>2, <2>3, WordsAreNumbers, Zenon DEF caplen
  <2>5. ~(caplen > size - 16) /\ (b.start + 16) + caplen = b.start + b.length
    <3>1. b.start + (16 + caplen) <= Len(c.bytes)
      BY <1>3, <2>1, Zenon
    <3>2. /\ ~(caplen > (Len(c.bytes) - b.start) - 16)
          /\ (b.start + 16) + caplen = b.start + (16 + caplen)
      BY <1>3, <2>4, <3>1, RecordEnds, Zenon
    <3> QED BY <1>4, <2>1, <3>2, Zenon
  <2> QED BY <1>1, <1>2, <1>5, <1>7, <2>1, <2>3, <2>5, Zenon
<1> QED BY <1>6, <1>7

RefOf(b) == BlockRef(b.start, b.length, b.kind, b.little)
RefType == [file_offset : Nat, length : Nat, kind : BlockKind, little : BOOLEAN]
ScanType ==
  [at : Nat, little : BOOLEAN, out : Seq(RefType), status : {"pcapng", "pcap", "done", "error"}]

\* While the scan runs it stands at the first block it has not found, or at
\* the end of the file, and knows the byte order of the block before.
ScanInv ==
  /\ capture \in Captures /\ scan \in ScanType
  /\ ScanFindsBlocks
  /\ Scanning =>
       /\ scan.status = IF capture.classic THEN "pcap" ELSE "pcapng"
       /\ IF capture.classic THEN Len(scan.out) >= 1 ELSE capture.blocks[1].kind = "Shb"
       /\ IF Len(scan.out) < Len(capture.blocks)
          THEN StandsAt(scan, capture, Len(scan.out) + 1)
          ELSE scan.at = Len(file)

\* The ref of a block says where it is.
LEMMA RefFields ==
  ASSUME NEW c, NEW i, Written(c, i)
  PROVE  /\ RefOf(c.blocks[i]) \in RefType
         /\ RefOf(c.blocks[i]).file_offset = c.blocks[i].start
         /\ RefOf(c.blocks[i]).length = c.blocks[i].length
         /\ RefOf(c.blocks[i]).kind = c.blocks[i].kind
         /\ RefOf(c.blocks[i]).little = c.blocks[i].little
<1>1. U32 \in Nat /\ U32 > 0
  <2>1. Radix \in Nat /\ Radix > 0
    BY RadixAssumption
  <2>2. U16 \in Nat /\ U16 > 0
    BY <2>1 DEF U16
  <2> QED BY <2>2 DEF U32
<1>2. c.blocks[i].length % U32 = c.blocks[i].length
  BY <1>1, BlockNumbers, SmallMod, Zenon
<1>3. c.blocks[i] \in BlockFact
  BY BlockNumbers, Zenon
<1>4. RefOf(c.blocks[i]) \in RefType
  BY <1>2, <1>3 DEF RefOf, BlockRef, RefType, BlockFact
<1> QED BY <1>2, <1>4, Zenon DEF RefOf, BlockRef

\* Where the scan stands once it has found block i.
LEMMA StandsBehind ==
  ASSUME NEW c, NEW i, Written(c, i), NEW s,
         s.at = c.blocks[i].start + c.blocks[i].length, s.little = c.blocks[i].little
  PROVE  IF i < Len(c.blocks) THEN StandsAt(s, c, i + 1) ELSE s.at = Len(c.bytes)
<1>1. i \in Nat /\ i >= 1 /\ i <= Len(c.blocks) /\ Len(c.blocks) \in Nat /\ Placed(c, i)
  BY BlockNumbers
<1>2. CASE i < Len(c.blocks)
  <2>1. i + 1 \in DOMAIN c.blocks /\ (i + 1) - 1 = i /\ i + 1 # 1
    BY <1>1, <1>2, BlockNumbers
  <2>2. Placed(c, i + 1)
    BY <2>1 DEF Written, WellWritten
  <2>3. c.blocks[i + 1].start = c.blocks[i].start + c.blocks[i].length
    BY <2>1, <2>2, Zenon DEF Placed
  <2> QED BY <1>2, <2>1, <2>3, Zenon DEF StandsAt
<1>3. CASE ~(i < Len(c.blocks))
  <2>1. i = Len(c.blocks)
    BY <1>1, <1>3
  <2>2. s.at = Len(c.bytes)
    BY <1>1, <2>1, Zenon DEF Placed
  <2> QED BY <1>3, <2>2, Zenon
<1> QED BY <1>2, <1>3

\* scan_blocks tells the two formats apart, and finds the header of a classic
\* file.
LEMMA ScanBegins == FramingInit => ScanInv
<1> SUFFICES ASSUME FramingInit PROVE ScanInv
  OBVIOUS
<1> DEFINE c == capture
           b == c.blocks[1]
           magic == read_u32(c.bytes, 0, TRUE)
           little == magic \in {kMagicUsLE, kMagicNsLE}
           blank == [at |-> 0, little |-> TRUE, out |-> <<>>, status |-> "error"]
<1>1. Written(c, 1) /\ c \in Captures /\ WellWritten(c)
  <2>1. c \in Captures /\ WellWritten(c)
    BY CaptureAssumption DEF FramingInit
  <2> QED BY <2>1 DEF Written, WellWritten
<1>2. /\ b.start = 0 /\ b.length \in Nat /\ b.length >= 1 /\ b.length <= Len(c.bytes)
      /\ Len(c.bytes) \in Nat /\ Len(c.blocks) \in Nat /\ Len(c.blocks) >= 1 /\ b \in BlockFact
      /\ Len(c.bytes) - b.start = Len(c.bytes)
  <2>1. Placed(c, 1) /\ b.start = 0
    BY <1>1, BlockNumbers, Zenon DEF Placed
  <2> QED BY <1>1, <2>1, BlockNumbers
<1>3. scan = scan_begin(c.bytes)
  BY DEF FramingInit, file
<1>4. CASE ~c.classic
  <2>0. /\ PcapngBlock(c, 1)
        /\ Len(c.bytes) >= 4 /\ magic = kShb <=> b.kind = "Shb"
    <3>1. PcapngBlock(c, 1)
      BY <1>1, <1>4 DEF WellWritten, Written
    <3>2. Len(c.bytes) - b.start >= 4 /\ read_u32(c.bytes, b.start, TRUE) = kShb <=> b.kind = "Shb"
      BY <1>1, <1>4, SeesShb, Zenon
    <3> QED BY <1>2, <3>1, <3>2, Zenon
  <2>a. CASE b.kind = "Shb"
    <3>1. scan = [blank EXCEPT !.status = "pcapng"]
      <4>1. ~(Len(c.bytes) < 4)
        BY <1>2, <2>0, <2>a
      <4> QED BY <1>3, <2>0, <2>a, <4>1, Zenon DEF scan_begin
    <3>2. scan = [at |-> 0, little |-> TRUE, out |-> <<>>, status |-> "pcapng"]
      BY <3>1, Zenon
    <3>3. /\ scan \in ScanType /\ Len(scan.out) = 0 /\ scan.status = "pcapng" /\ scan.at = 0
          /\ DOMAIN scan.out = {}
      BY <3>2 DEF ScanType
    <3>4. StandsAt(scan, c, 1)
      BY <1>2, <3>3 DEF StandsAt
    <3> QED BY <1>1, <1>2, <1>4, <2>a, <3>3, <3>4 DEF ScanInv, ScanFindsBlocks
  <2>b. CASE b.kind # "Shb"
    <3>1. ~b.sound /\ (Len(c.bytes) < 4 \/ magic \notin Magics) /\ (Len(c.bytes) < 4 \/ magic # kShb)
      <4>1. ~b.sound /\ (Len(c.bytes) < 4 \/ magic \notin Magics)
        BY <1>2, <2>0, <2>b, Zenon DEF PcapngBlock
      <4>2. Len(c.bytes) < 4 \/ Len(c.bytes) >= 4
        BY <1>2
      <4> QED BY <2>0, <2>b, <4>1, <4>2, Zenon
    <3>2. scan = blank
      BY <1>3, <3>1, Zenon DEF scan_begin
    <3>3. scan \in ScanType /\ Len(scan.out) = 0 /\ scan.status = "error" /\ DOMAIN scan.out = {}
      BY <3>2 DEF ScanType
    <3> QED BY <1>1, <1>2, <3>1, <3>3 DEF ScanInv, ScanFindsBlocks, Scanning
  <2> QED BY <2>a, <2>b
<1>5. CASE c.classic /\ Len(c.bytes) >= 24
  <2>1. ClassicBlock(c, 1)
    BY <1>1, <1>5 DEF WellWritten, Written
  <2>2. magic \in Magics /\ magic # kShb /\ b.kind = "Idb" /\ b.little = little
    BY <2>1, MagicIsNoShb, Zenon DEF ClassicBlock
  <2>3. b.sound /\ b.length = 24
    <3>1. ~(Len(c.bytes) - b.start < 24) /\ b.sound \in BOOLEAN
      BY <1>2, <1>5 DEF BlockFact
    <3> QED BY <2>1, <3>1, Zenon DEF ClassicBlock
  <2>4. scan = [at |-> 24, little |-> little, status |-> "pcap", out |-> <<BlockRef(0, 24, "Idb", little)>>]
    <3>1. ~(Len(c.bytes) < 4)
      BY <1>2, <1>5
    <3> QED BY <1>3, <1>5, <2>2, <3>1, Zenon DEF scan_begin
  <2>5. scan = [at |-> 24, little |-> b.little, status |-> "pcap", out |-> <<RefOf(b)>>]
    BY <1>2, <2>2, <2>3, <2>4, Zenon DEF RefOf
  <2>6. RefOf(b) \in RefType /\ b.little \in BOOLEAN
    BY <1>1, <1>2, RefFields DEF BlockFact
  <2>7. /\ scan \in ScanType /\ Len(scan.out) = 1 /\ DOMAIN scan.out = {1} /\ scan.out[1] = RefOf(b)
        /\ scan.status = "pcap" /\ scan.at = 24 /\ scan.little = b.little
    <3> HIDE DEF b, little
    <3> QED BY <2>5, <2>6 DEF ScanType
  <2>8. scan.at = b.start + b.length
    BY <1>2, <2>3, <2>7
  <2>9. IF 1 < Len(c.blocks) THEN StandsAt(scan, c, 1 + 1) ELSE scan.at = Len(c.bytes)
    BY <1>1, <2>7, <2>8, StandsBehind, Zenon
  <2>10. ScanFindsBlocks
    BY <1>2, <2>3, <2>7 DEF ScanFindsBlocks, Expected, RefOf
  <2> QED BY <1>1, <1>2, <1>5, <2>7, <2>9, <2>10 DEF ScanInv, file
<1>6. CASE c.classic /\ ~(Len(c.bytes) >= 24)
  <2>1. ClassicBlock(c, 1)
    BY <1>1, <1>6 DEF WellWritten, Written
  <2>2. magic \in Magics /\ magic # kShb
    BY <2>1, MagicIsNoShb, Zenon DEF ClassicBlock
  <2>3. scan = blank
    BY <1>3, <1>6, <2>2, Zenon DEF scan_begin
  <2>4. scan \in ScanType /\ Len(scan.out) = 0 /\ scan.status = "error" /\ DOMAIN scan.out = {}
    BY <2>3 DEF ScanType
  <2>5. ~b.sound
    <3>1. b.length # 24
      BY <1>2, <1>6
    <3> QED BY <2>1, <3>1, Zenon DEF ClassicBlock
  <2> QED BY <1>1, <1>2, <2>4, <2>5 DEF ScanInv, ScanFindsBlocks, Scanning
<1> QED BY <1>4, <1>5, <1>6, <1>1 DEF WellWritten

\* The capture is as its writer says, block by block.
LEMMA CaptureWritten ==
  ASSUME capture \in Captures, NEW i \in DOMAIN capture.blocks
  PROVE  Written(capture, i)
BY CaptureAssumption DEF Written

\* A turn of the loop that finds the next block, or one that stops at it.
LEMMA FindsNext ==
  ASSUME ScanInv, Scanning, Len(scan.out) < Len(capture.blocks)
  PROVE  LET i == Len(scan.out) + 1
             b == capture.blocks[i]
             s == scan_step(file, scan)
         IN /\ s \in ScanType
            /\ b.sound => /\ s.out = Append(scan.out, RefOf(b)) /\ s.status = scan.status
                          /\ s.at = b.start + b.length /\ s.little = b.little
            /\ ~b.sound => s.out = scan.out /\ s.status = "error"
<1> DEFINE n == Len(scan.out)
           i == n + 1
           b == capture.blocks[i]
           s == scan_step(file, scan)
<1>1. /\ capture \in Captures /\ scan \in ScanType /\ StandsAt(scan, capture, i)
      /\ scan.status = IF capture.classic THEN "pcap" ELSE "pcapng"
      /\ IF capture.classic THEN n >= 1 ELSE capture.blocks[1].kind = "Shb"
  BY DEF ScanInv
<1>2. scan.at \in Nat /\ scan.little \in BOOLEAN /\ scan.out \in Seq(RefType) /\ n \in Nat
  BY <1>1 DEF ScanType
<1>3. i \in DOMAIN capture.blocks /\ Written(capture, i) /\ (capture.classic => i > 1)
  <2>1. capture.blocks \in Seq(BlockFact)
    BY <1>1, CaptureAssumption DEF WellWritten
  <2>2. i \in DOMAIN capture.blocks
    BY <1>2, <2>1
  <2> QED BY <1>1, <1>2, <2>2, CaptureWritten
<1>4. ~(scan.at >= Len(file))
  <2>1. scan.at = b.start
    BY <1>1 DEF StandsAt
  <2>2. b.start \in Nat /\ b.length \in Nat /\ b.length >= 1 /\ b.start + b.length <= Len(file) /\ Len(file) \in Nat
    BY <1>3, BlockNumbers, Zenon DEF file
  <2> HIDE DEF b
  <2> QED BY <2>1, <2>2
<1>5. b \in BlockFact /\ b.start \in Nat /\ b.length \in Nat /\ b.little \in BOOLEAN /\ b.start + b.length \in Nat
  <2>1. b \in BlockFact
    BY <1>3, BlockNumbers, Zenon
  <2> HIDE DEF b
  <2> QED BY <2>1, SMTT(30) DEF BlockFact
<1>6. RefOf(b) \in RefType
  BY <1>3, RefFields, Zenon
<1>7. Append(scan.out, RefOf(b)) \in Seq(RefType)
  BY <1>2, <1>6
<1>8. CASE ~capture.classic
  <2>0. capture.blocks[1].kind = "Shb"
    BY <1>1, <1>8, Zenon
  <2>1. s = scan_block(file, scan)
    BY <1>1, <1>4, <1>8, Zenon DEF scan_step
  <2>2. CASE b.sound
    <3>1. s = [scan EXCEPT !.at = b.start + b.length, !.little = b.little, !.out = Append(@, RefOf(b))]
      BY <1>1, <1>2, <1>3, <1>8, <2>0, <2>1, <2>2, ScanBlock, Zenon DEF RefOf, file
    <3>3. /\ s \in ScanType /\ s.out = Append(scan.out, RefOf(b)) /\ s.status = scan.status
          /\ s.at = b.start + b.length /\ s.little = b.little
      <4> HIDE DEF s, b
      <4> QED BY <1>1, <1>5, <1>7, <3>1, Zenon DEF ScanType
    <3> QED BY <2>2, <3>3, Zenon
  <2>3. CASE ~b.sound
    <3>1. PICK little \in BOOLEAN : s = [scan EXCEPT !.status = "error", !.little = little]
      <4>1. \E little \in BOOLEAN : scan_block(capture.bytes, scan) = [scan EXCEPT !.status = "error", !.little = little]
        BY <1>1, <1>2, <1>3, <1>8, <2>0, <2>3, ScanBlock, ZenonT(40)
      <4> QED BY <2>1, <4>1, Zenon DEF file
    <3>3. s \in ScanType /\ s.out = scan.out /\ s.status = "error"
      <4> HIDE DEF s, b
      <4> QED BY <1>1, <3>1, Zenon DEF ScanType
    <3> QED BY <2>3, <3>3, Zenon
  <2> QED BY <2>2, <2>3
<1>9. CASE capture.classic
  <2>1. s = scan_record(file, scan)
    BY <1>1, <1>4, <1>9, Zenon DEF scan_step
  <2>2. CASE b.sound
    <3>1. s = [scan EXCEPT !.at = b.start + b.length, !.out = Append(@, RefOf(b))]
      BY <1>1, <1>3, <1>9, <2>1, <2>2, ScanRecord, Zenon DEF RefOf, file
    <3>2. scan.little = b.little
      <4>1. ClassicBlock(capture, i) /\ i # 1 /\ scan.little = capture.blocks[i - 1].little
        BY <1>1, <1>3, <1>9, BlockNumbers DEF Written, WellWritten, StandsAt
      <4> QED BY <4>1, Zenon DEF ClassicBlock
    <3>3. /\ s \in ScanType /\ s.out = Append(scan.out, RefOf(b)) /\ s.status = scan.status
          /\ s.at = b.start + b.length /\ s.little = b.little
      <4> HIDE DEF s, b
      <4> QED BY <1>1, <1>5, <1>7, <3>1, <3>2, Zenon DEF ScanType
    <3> QED BY <2>2, <3>3, Zenon
  <2>3. CASE ~b.sound
    <3>1. s = [scan EXCEPT !.status = "error"]
      BY <1>1, <1>3, <1>9, <2>1, <2>3, ScanRecord, Zenon DEF file
    <3>3. s \in ScanType /\ s.out = scan.out /\ s.status = "error"
      <4> HIDE DEF s, b
      <4> QED BY <1>1, <3>1 DEF ScanType
    <3> QED BY <2>3, <3>3, Zenon
  <2> QED BY <2>2, <2>3
<1> QED BY <1>8, <1>9

\* A turn of either loop keeps what the scan knows.
LEMMA ScanKeeps == ScanInv /\ ScanStep => ScanInv'
<1> SUFFICES ASSUME ScanInv, ScanStep PROVE ScanInv'
  OBVIOUS
<1> DEFINE n == Len(scan.out)
           i == n + 1
           b == capture.blocks[i]
<1>1. /\ Scanning /\ scan' = scan_step(file, scan) /\ capture' = capture /\ file' = file
      /\ capture \in Captures /\ scan \in ScanType /\ ScanFindsBlocks
      /\ scan.status = IF capture.classic THEN "pcap" ELSE "pcapng"
      /\ IF capture.classic THEN n >= 1 ELSE capture.blocks[1].kind = "Shb"
  BY DEF ScanInv, ScanStep, file
<1>2. /\ capture.blocks \in Seq(BlockFact) /\ Len(capture.blocks) \in Nat /\ n \in Nat
      /\ scan.out \in Seq(RefType) /\ n <= Len(capture.blocks)
  BY <1>1, CaptureAssumption DEF WellWritten, ScanType, ScanFindsBlocks
<1>3. CASE n = Len(capture.blocks)
  <2>1. scan.at = Len(file)
    BY <1>1, <1>2, <1>3 DEF ScanInv
  <2>2. Len(file) >= Len(file)
    <3>1. scan.at \in Nat
      BY <1>1 DEF ScanType
    <3> QED BY <2>1, <3>1
  <2>3. scan' = [scan EXCEPT !.status = "done"]
    BY <1>1, <2>1, <2>2, Zenon DEF scan_step
  <2>4. scan' \in ScanType /\ scan'.out = scan.out /\ scan'.status = "done"
    BY <1>1, <2>3 DEF ScanType
  <2>5. ScanFindsBlocks'
    BY <1>1, <1>3, <2>4, Zenon DEF ScanFindsBlocks, Expected
  <2> QED BY <1>1, <2>4, <2>5 DEF ScanInv, Scanning
<1>4. CASE n < Len(capture.blocks)
  <2>1. /\ scan' \in ScanType
        /\ b.sound => /\ scan'.out = Append(scan.out, RefOf(b)) /\ scan'.status = scan.status
                      /\ scan'.at = b.start + b.length /\ scan'.little = b.little
        /\ ~b.sound => scan'.out = scan.out /\ scan'.status = "error"
    BY <1>1, <1>4, FindsNext, Zenon
  <2>2. CASE b.sound
    <3>1. /\ Len(scan'.out) = i /\ DOMAIN scan'.out = DOMAIN scan.out \cup {i}
          /\ \A j \in DOMAIN scan.out : scan'.out[j] = scan.out[j]
          /\ scan'.out[i] = RefOf(b)
      <4> HIDE DEF b
      <4> QED BY <1>2, <2>1, <2>2
    <3>2. i \in DOMAIN capture.blocks /\ i <= Len(capture.blocks) /\ Written(capture, i)
      BY <1>1, <1>2, <1>4, CaptureWritten
    <3>3. scan'.status \in {"pcap", "pcapng"}
      BY <1>1, <2>1, <2>2
    <3>4. ScanFindsBlocks'
      <4>1. \A j \in DOMAIN scan.out \cup {i} : capture.blocks[j].sound /\ scan'.out[j] = Expected(j)
        BY <1>1, <2>2, <3>1, Zenon DEF ScanFindsBlocks, Expected, RefOf
      <4>2. \A j : Expected(j)' = Expected(j)
        BY <1>1 DEF Expected
      <4> QED BY <1>1, <3>1, <3>2, <3>3, <4>1, <4>2 DEF ScanFindsBlocks
    <3>5. IF i < Len(capture.blocks) THEN StandsAt(scan', capture, i + 1) ELSE scan'.at = Len(capture.bytes)
      BY <2>1, <2>2, <3>2, StandsBehind, Zenon
    <3>6. i >= 1
      BY <1>2
    <3>7. IF Len(scan'.out) < Len(capture'.blocks) THEN StandsAt(scan', capture', Len(scan'.out) + 1)
          ELSE scan'.at = Len(file')
      BY <1>1, <3>1, <3>5, Zenon DEF file
    <3> QED BY <1>1, <2>1, <2>2, <3>1, <3>4, <3>6, <3>7, Zenon DEF ScanInv
  <2>3. CASE ~b.sound
    <3>1. ScanFindsBlocks'
      BY <1>1, <1>4, <2>1, <2>3 DEF ScanFindsBlocks, Expected
    <3> QED BY <1>1, <2>1, <2>3, <3>1, SMTT(30) DEF ScanInv, Scanning
  <2> QED BY <2>2, <2>3
<1> QED BY <1>2, <1>3, <1>4

-----------------------------------------------------------------------------
(* The blocks handed to the sessions                                       *)

\* A stretch of a file, from behind byte p up to byte r: its length, and its
\* words.
Stretch(e, bytes, p, r) ==
  /\ e \in Seq(Byte) /\ Len(e) = r - p
  /\ \A off \in Nat : off + 4 <= r - p => word_at(e, off) = word_at(bytes, p + off)

\* SubSeq cuts out such a stretch.
LEMMA CutBytes ==
  ASSUME NEW bytes \in Seq(Byte), NEW p \in Nat, NEW r \in Nat, p < r, r <= Len(bytes)
  PROVE  Stretch(SubSeq(bytes, p + 1, r), bytes, p, r)
<1> DEFINE e == SubSeq(bytes, p + 1, r)
<1>1. e \in Seq(Byte) /\ Len(e) = r - p /\ \A k \in 1 .. r - p : e[k] = bytes[p + k]
  OBVIOUS
<1>2. ASSUME NEW off \in Nat, off + 4 <= r - p
      PROVE  word_at(e, off) = word_at(bytes, p + off)
  <2>1. \A k \in {1, 2, 3, 4} : off + k \in 1 .. r - p /\ p + (off + k) = (p + off) + k
    BY <1>2
  <2>2. \A k \in {1, 2, 3, 4} : e[off + k] = bytes[(p + off) + k]
    BY <1>1, <2>1, ZenonT(40)
  <2> HIDE DEF e
  <2> QED BY <2>2 DEF word_at
<1> HIDE DEF e
<1>3. Stretch(e, bytes, p, r)
  BY <1>1, <1>2, Zenon DEF Stretch
<1> QED BY <1>3 DEF e

\* The bytes of a block, as one of the callers hands them over.
Holds(e, c, i) ==
  LET b == c.blocks[i]
  IN /\ e \in Seq(Byte) /\ Len(e) \in Nat /\ Len(e) >= b.length
     /\ \A off \in Nat : off + 4 <= b.length => word_at(e, off) = word_at(c.bytes, b.start + off)

\* A stretch that begins where the block does and does not end before it.
LEMMA StretchHolds ==
  ASSUME NEW c, NEW i, Written(c, i), NEW r \in Nat, c.blocks[i].start + c.blocks[i].length <= r,
         r <= Len(c.bytes), NEW e, e = SubSeq(c.bytes, c.blocks[i].start + 1, r)
  PROVE  Holds(e, c, i) /\ Len(e) = r - c.blocks[i].start
<1> DEFINE b == c.blocks[i]
           p == b.start
<1>1. p \in Nat /\ b.length \in Nat /\ b.length >= 1 /\ c.bytes \in Seq(Byte) /\ Len(c.bytes) \in Nat
  BY BlockNumbers, Zenon
<1>2. p + b.length <= r
  OBVIOUS
<1>3. /\ p < r /\ r - p \in Nat /\ r - p >= b.length
      /\ \A off \in Nat : off + 4 <= b.length => off + 4 <= r - p
  <2> HIDE DEF b, p
  <2> QED BY <1>1, <1>2
<1>4. e = SubSeq(c.bytes, p + 1, r)
  BY Zenon
<1>5. Stretch(e, c.bytes, p, r)
  <2> HIDE DEF p, b
  <2> QED BY <1>1, <1>3, <1>4, CutBytes, Zenon
<1>6. /\ e \in Seq(Byte) /\ Len(e) = r - p
      /\ \A off \in Nat : off + 4 <= r - p => word_at(e, off) = word_at(c.bytes, p + off)
  BY <1>5, Zenon DEF Stretch
<1> QED BY <1>3, <1>6, Zenon DEF Holds

\* A block of its own bytes.
LEMMA ExactHolds ==
  ASSUME NEW c, NEW i, Written(c, i),
         NEW e, e = exact_block(c.bytes, RefOf(c.blocks[i]))
  PROVE  Holds(e, c, i) /\ Len(e) = c.blocks[i].length
<1> DEFINE b == c.blocks[i]
           r == b.start + b.length
<1>1. b.start \in Nat /\ b.length \in Nat /\ r <= Len(c.bytes)
  BY BlockNumbers, Zenon
<1>2. r \in Nat /\ r <= r /\ r - b.start = b.length
  <2> HIDE DEF b
  <2> QED BY <1>1
<1>3. e = SubSeq(c.bytes, b.start + 1, r)
  BY RefFields, Zenon DEF exact_block
<1>4. Holds(e, c, i) /\ Len(e) = r - b.start
  BY <1>1, <1>2, <1>3, StretchHolds, Zenon
<1> QED BY <1>2, <1>4, Zenon

\* The block of run_decode_pass begins with the bytes of the ref, and is no
\* longer than those unless it is an interface block.
LEMMA HandedHolds ==
  ASSUME NEW c, NEW i, Written(c, i),
         NEW e, e = block_of(c.bytes, RefOf(c.blocks[i]))
  PROVE  /\ Holds(e, c, i)
         /\ c.blocks[i].kind # "Idb" => e = exact_block(c.bytes, RefOf(c.blocks[i]))
<1> DEFINE b == c.blocks[i]
           want == IF b.kind = "Idb" /\ b.length < 28 THEN 28 ELSE b.length
           r == IF b.start + want < Len(c.bytes) THEN b.start + want ELSE Len(c.bytes)
<1>1. b.start \in Nat /\ b.length \in Nat /\ Len(c.bytes) \in Nat /\ b.start + b.length <= Len(c.bytes)
  BY BlockNumbers, Zenon
<1>2. e = SubSeq(c.bytes, b.start + 1, r)
  BY RefFields, ZenonT(40) DEF block_of
<1>3. want \in Nat /\ want >= b.length
  <2>1. \A x \in Nat : x >= x /\ (x < 28 => 28 >= x)
    OBVIOUS
  <2>2. 28 \in Nat
    OBVIOUS
  <2> HIDE DEF b
  <2> QED BY <1>1, <2>1, <2>2, Zenon
<1>4. /\ r \in Nat /\ b.start + b.length <= r /\ r <= Len(c.bytes)
      /\ want = b.length => r = b.start + b.length
  <2> HIDE DEF want, b
  <2> QED BY <1>1, <1>3
<1>5. b.kind # "Idb" => e = exact_block(c.bytes, RefOf(b))
  <2>1. exact_block(c.bytes, RefOf(b)) = SubSeq(c.bytes, b.start + 1, b.start + b.length)
    BY RefFields, Zenon DEF exact_block
  <2> QED BY <1>2, <1>4, <2>1, Zenon
<1> HIDE DEF r
<1>6. Holds(e, c, i)
  BY <1>2, <1>4, StretchHolds, Zenon
<1> QED BY <1>5, <1>6

-----------------------------------------------------------------------------
(* What a session reads in a block                                         *)

\* Which kinds of block the two formats have.
LEMMA KindsOfFormat ==
  ASSUME NEW c, NEW i, Written(c, i)
  PROVE  /\ c.classic => c.blocks[i].kind # "Shb" /\ c.blocks[i].kind # "Epb"
         /\ c.classic /\ c.blocks[i].kind = "Idb" => i = 1
         /\ c.blocks[i].kind = "PcapRecord" => c.classic /\ i # 1
<1>1. c.classic => ClassicBlock(c, i)
  BY DEF Written, WellWritten
<1>2. ~c.classic => PcapngBlock(c, i)
  BY DEF Written, WellWritten
<1>3. "Other" # "PcapRecord" /\ "Idb" # "Shb" /\ "Idb" # "Epb" /\ "PcapRecord" # "Shb"
      /\ "PcapRecord" # "Epb" /\ "PcapRecord" # "Idb"
  OBVIOUS
<1> QED BY <1>1, <1>2, <1>3, OnlyShb, ZenonT(40) DEF ClassicBlock, PcapngBlock

\* A section header tells the session its byte order.
LEMMA ShbOrder ==
  ASSUME NEW c, NEW i, Written(c, i), ~c.classic, c.blocks[i].sound, c.blocks[i].kind = "Shb",
         NEW e, Holds(e, c, i)
  PROVE  shb_byte_order(e, 0, TRUE) = c.blocks[i].little
<1> DEFINE b == c.blocks[i]
<1>1. PcapngBlock(c, i)
  BY DEF Written, WellWritten
<1>2. b.length >= 12
  BY <1>1, Zenon DEF PcapngBlock
<1>3. /\ b.start \in Nat /\ b.length \in Nat /\ Len(c.bytes) \in Nat
      /\ b.start + b.length <= Len(c.bytes) /\ Len(e) \in Nat /\ Len(e) >= b.length
  BY BlockNumbers, Zenon DEF Holds
<1>4. b.start + 12 <= Len(c.bytes) /\ ~(b.start + 12 > Len(c.bytes)) /\ ~(0 + 12 > Len(e))
      /\ 8 + 4 <= b.length
  <2> HIDE DEF b
  <2> QED BY <1>2, <1>3, SMTT(30)
<1>5. 0 + 8 = 8 /\ 8 \in Nat
  OBVIOUS
<1>6. read_u32(e, 0 + 8, TRUE) = read_u32(c.bytes, b.start + 8, TRUE)
  BY <1>4, <1>5, Zenon DEF Holds, read_u32
<1>7. b.little = shb_byte_order(c.bytes, b.start, TRUE)
  BY <1>4, SeesShb, Zenon
<1> QED BY <1>4, <1>6, <1>7, Zenon DEF shb_byte_order

\* A 16-bit field of the file is a number, of the bytes of the word it begins.
LEMMA HalfWord ==
  ASSUME NEW e \in Seq(Byte), NEW off \in Nat, off + 4 <= Len(e), NEW little \in BOOLEAN
  PROVE  /\ read_u16(e, off, little) \in Nat
         /\ LET w == word_at(e, off)
            IN read_u16(e, off, little) = IF little THEN w[2] * Radix + w[1] ELSE w[1] * Radix + w[2]
<1>1. off + 1 \in 1 .. Len(e) /\ off + 2 \in 1 .. Len(e)
  OBVIOUS
<1>2. e[off + 1] \in Byte /\ e[off + 2] \in Byte
  BY <1>1
<1>3. e[off + 1] \in Nat /\ e[off + 2] \in Nat /\ Radix \in Nat
  BY <1>2, RadixAssumption DEF Byte
<1>4. \A x, y, m \in Nat : x * m + y \in Nat
  OBVIOUS
<1>5. read_u16(e, off, little) \in Nat
  BY <1>3, <1>4, Zenon DEF read_u16
<1>6. word_at(e, off)[1] = e[off + 1] /\ word_at(e, off)[2] = e[off + 2]
  BY DEF word_at
<1> QED BY <1>5, <1>6, Zenon DEF read_u16

\* An interface block with room for its fields gives both callers its link
\* type.
LEMMA IdbLink ==
  ASSUME NEW c, NEW i, Written(c, i), c.blocks[i].sound, c.blocks[i].kind = "Idb",
         c.blocks[i].length >= 16, NEW e, Holds(e, c, i)
  PROVE  parse_idb(e, c.blocks[i].length, c.blocks[i].little) = [ok |-> TRUE, link_type |-> c.blocks[i].link]
<1> DEFINE b == c.blocks[i]
<1>1. /\ b.start \in Nat /\ b.length \in Nat /\ b.length >= 16 /\ Len(c.bytes) \in Nat /\ b.start + 0 = b.start
      /\ b.start + 4 <= Len(c.bytes) /\ b.start + 8 \in Nat /\ (b.start + 8) + 4 <= Len(c.bytes)
      /\ c.bytes \in Seq(Byte) /\ Len(e) \in Nat /\ Len(e) >= b.length /\ b.little \in BOOLEAN
      /\ e \in Seq(Byte) /\ Len(e) >= 4 /\ ~(Len(e) < 16) /\ 8 + 4 <= Len(e)
      /\ 0 + 4 <= b.length /\ 8 + 4 <= b.length
  <2>1. /\ b.start \in Nat /\ b.length \in Nat /\ b.length >= 16 /\ Len(c.bytes) \in Nat
        /\ b.start + b.length <= Len(c.bytes) /\ b.little \in BOOLEAN /\ e \in Seq(Byte)
        /\ c.bytes \in Seq(Byte) /\ Len(e) \in Nat /\ Len(e) >= b.length
    BY BlockNumbers, Zenon DEF Holds, BlockFact
  <2>2. /\ b.start + 0 = b.start /\ b.start + 4 <= Len(c.bytes) /\ b.start + 8 \in Nat
        /\ (b.start + 8) + 4 <= Len(c.bytes)
        /\ Len(e) >= 4 /\ ~(Len(e) < 16) /\ 8 + 4 <= Len(e) /\ 0 + 4 <= b.length /\ 8 + 4 <= b.length
    <3>1. /\ b.start \in Nat /\ b.length \in Nat /\ Len(c.bytes) \in Nat /\ Len(e) \in Nat
          /\ b.start + b.length <= Len(c.bytes) /\ b.length >= 16 /\ Len(e) >= b.length
      BY <2>1, Zenon
    <3> HIDE DEF b
    <3> DEFINE x == b.start
               y == b.length
               n == Len(c.bytes)
               m == Len(e)
    <3>2. x \in Nat /\ y \in Nat /\ n \in Nat /\ m \in Nat /\ x + y <= n /\ y >= 16 /\ m >= y
      BY <3>1, Zenon
    <3> HIDE DEF x, y, n, m
    <3>3. /\ x + 0 = x /\ x + 4 <= n /\ x + 8 \in Nat /\ (x + 8) + 4 <= n
          /\ m >= 4 /\ ~(m < 16) /\ 8 + 4 <= m /\ 0 + 4 <= y /\ 8 + 4 <= y
      BY <3>2
    <3> QED BY <3>3 DEF x, y, n, m
  <2> HIDE DEF b
  <2> QED BY <2>1, <2>2, Zenon
<1>2. 0 \in Nat /\ 8 \in Nat /\ 20 \in Nat
  OBVIOUS
<1>3. read_u32(e, 0, TRUE) = read_u32(c.bytes, b.start, TRUE)
  BY <1>1, <1>2, Zenon DEF Holds, read_u32
<1>4. CASE c.classic
  <2>1. i = 1 /\ ClassicBlock(c, i) /\ Placed(c, i)
    <3>1. i = 1
      BY <1>4, KindsOfFormat, Zenon
    <3> QED BY <1>4, <3>1, BlockNumbers DEF Written, WellWritten
  <2>2. /\ b.start = 0 /\ b.length = 24 /\ b.link = read_u32(c.bytes, 20, b.little) % U16
        /\ read_u32(c.bytes, 0, TRUE) \in Magics
    BY <2>1, Zenon DEF ClassicBlock, Placed
  <2>3. 20 + 4 <= b.length /\ b.start + 20 = 20 /\ ~(Len(e) < 24)
    <3> HIDE DEF b
    <3> QED BY <1>1, <2>2
  <2>4. read_u32(e, 20, b.little) = read_u32(c.bytes, 20, b.little)
    BY <1>2, <2>3, Zenon DEF Holds, read_u32
  <2> QED BY <1>1, <1>3, <2>2, <2>3, <2>4, Zenon DEF parse_idb
<1>5. CASE ~c.classic
  <2>1. PcapngBlock(c, i)
    BY <1>5 DEF Written, WellWritten
  <2>2. b.link = read_u16(c.bytes, b.start + 8, b.little)
    BY <1>1, <2>1, Zenon DEF PcapngBlock
  <2>3. b.kind = KindOf(read_u32(c.bytes, b.start, b.little))
    <3>1. "Other" # "Idb"
      OBVIOUS
    <3> QED BY <2>1, <3>1, Zenon DEF PcapngBlock
  <2>4. read_u32(c.bytes, b.start, b.little) = kIdb
    BY <2>3, OnlyShb, Zenon
  <2>5. word_at(c.bytes, b.start) \in Word4
    BY <1>1, WordsAreNumbers, Zenon
  <2>6. read_u32(e, 0, TRUE) \notin Magics
    BY <1>1, <1>3, <2>4, <2>5, IdbIsNoMagic, Zenon DEF read_u32
  <2>7. word_at(e, 8) = word_at(c.bytes, b.start + 8)
    BY <1>1, <1>2, Zenon DEF Holds
  <2>8. read_u16(e, 8, b.little) = b.link
    <3> DEFINE v == word_at(e, 8)
               w == word_at(c.bytes, b.start + 8)
    <3>1. read_u16(e, 8, b.little) = IF b.little THEN v[2] * Radix + v[1] ELSE v[1] * Radix + v[2]
      BY <1>1, <1>2, HalfWord, Zenon
    <3>2. read_u16(c.bytes, b.start + 8, b.little) = IF b.little THEN w[2] * Radix + w[1] ELSE w[1] * Radix + w[2]
      BY <1>1, HalfWord, ZenonT(40)
    <3> HIDE DEF v, w
    <3>3. v = w
      BY <2>7 DEF v, w
    <3> QED BY <2>2, <3>1, <3>2, <3>3, Zenon
  <2> QED BY <1>1, <2>6, <2>8, Zenon DEF parse_idb
<1> QED BY <1>4, <1>5

\* What feed_epb takes from a packet block: bytes the block holds as data, and
\* the link type its interface has in the session.
LEMMA PacketTaken ==
  ASSUME NEW c, NEW i, Written(c, i), c.blocks[i].sound, c.blocks[i].kind \in {"Epb", "PcapRecord"},
         NEW e, Holds(e, c, i), Len(e) = c.blocks[i].length, NEW s,
         framed(s, e, c.blocks[i].little, c.blocks[i].kind).ok
  PROVE  LET b == c.blocks[i]
             p == framed(s, e, b.little, b.kind)
         IN /\ p.caplen <= b.data
            /\ p.link_type = IF b.iface < Len(s.iface_link) THEN s.iface_link[b.iface + 1] ELSE 0
<1> DEFINE b == c.blocks[i]
           parsed == parse_epb(e, Len(e), b.little, b.kind)
           p == framed(s, e, b.little, b.kind)
<1>1. /\ b.length \in Nat /\ b.little \in BOOLEAN /\ b.data \in Nat /\ c.blocks[i] \in BlockFact
  BY BlockNumbers, Zenon DEF BlockFact
<1>2. parsed.ok /\ p.caplen = parsed.caplen
      /\ p.link_type = IF parsed.interface_id < Len(s.iface_link) THEN s.iface_link[parsed.interface_id + 1] ELSE 0
  BY Zenon DEF framed, Failed
<1>3. 8 \in Nat /\ 20 \in Nat
  OBVIOUS
<1>4. \A x \in Nat : x <= x
  OBVIOUS
<1>5. CASE b.kind = "Epb"
  <2>1. PcapngBlock(c, i)
    <3>1. ~c.classic
      BY <1>5, KindsOfFormat, ZenonT(40)
    <3> QED BY <3>1 DEF Written, WellWritten
  <2>2. /\ ~(b.length < 28 \/ 28 + read_u32(e, 20, b.little) + 4 > b.length)
        /\ parsed.interface_id = read_u32(e, 8, b.little)
        /\ parsed.caplen = read_u32(e, 20, b.little)
    BY <1>2, <1>5, ZenonT(40) DEF parse_epb, Failed
  <2>3. b.length >= 28 /\ 8 + 4 <= b.length /\ 20 + 4 <= b.length
    <3> HIDE DEF b
    <3> QED BY <1>1, <2>2
  <2>4. /\ read_u32(e, 8, b.little) = read_u32(c.bytes, b.start + 8, b.little)
        /\ read_u32(e, 20, b.little) = read_u32(c.bytes, b.start + 20, b.little)
    BY <1>3, <2>3, Zenon DEF Holds, read_u32
  <2>5. b.iface = parsed.interface_id /\ b.data = parsed.caplen
    BY <1>5, <2>1, <2>2, <2>3, <2>4, Zenon DEF PcapngBlock
  <2> HIDE DEF b, p, parsed
  <2>6. p.caplen = b.data /\ b.iface = parsed.interface_id
    BY <1>2, <2>5, Zenon
  <2>7. p.caplen <= b.data
    BY <1>1, <1>4, <2>6, Zenon
  <2>8. p.link_type = IF b.iface < Len(s.iface_link) THEN s.iface_link[b.iface + 1] ELSE 0
    BY <1>2, <2>6, ZenonT(40)
  <2> QED BY <2>7, <2>8 DEF b, p
<1>6. CASE b.kind = "PcapRecord"
  <2>1. ClassicBlock(c, i) /\ i # 1
    <3>1. c.classic /\ i # 1
      BY <1>6, KindsOfFormat, ZenonT(40)
    <3> QED BY <3>1 DEF Written, WellWritten
  <2>2. parsed.interface_id = 0 /\ parsed.caplen = read_u32(e, 8, b.little)
    BY <1>2, <1>6, ZenonT(40) DEF parse_epb, Failed
  <2>3. b.length >= 16 /\ b.data = read_u32(c.bytes, b.start + 8, b.little) /\ b.iface = 0
    BY <2>1, ZenonT(40) DEF ClassicBlock
  <2>4. 8 + 4 <= b.length
    <3> HIDE DEF b
    <3> QED BY <1>1, <2>3
  <2>5. b.data = parsed.caplen
    BY <1>3, <2>2, <2>3, <2>4, Zenon DEF Holds, read_u32
  <2> HIDE DEF b, p, parsed
  <2>6. p.caplen = b.data /\ b.iface = parsed.interface_id
    BY <1>2, <2>2, <2>3, <2>5, ZenonT(40)
  <2>7. p.caplen <= b.data
    BY <1>1, <1>4, <2>6, Zenon
  <2>8. p.link_type = IF b.iface < Len(s.iface_link) THEN s.iface_link[b.iface + 1] ELSE 0
    BY <1>2, <2>6, Zenon
  <2> QED BY <2>7, <2>8 DEF b, p
<1> QED BY <1>5, <1>6

-----------------------------------------------------------------------------
(* The interfaces of a section                                             *)

\* What one more block does to the interfaces declared so far.
LEMMA IdbsGrow ==
  ASSUME NEW n \in Nat, n >= 1
  PROVE  /\ capture.blocks[n].kind = "Shb" => Idbs(n + 1) = {}
         /\ capture.blocks[n].kind = "Idb" => Idbs(n + 1) = Idbs(n) \cup {n}
         /\ capture.blocks[n].kind \notin {"Shb", "Idb"} => Idbs(n + 1) = Idbs(n)
<1>1. /\ \A j : j \in 1 .. (n + 1) - 1 <=> j \in 1 .. n - 1 \/ j = n
      /\ \A j \in 1 .. n - 1 : \A k : k \in j .. (n + 1) - 1 <=> k \in j .. n - 1 \/ k = n
      /\ \A k : k \in n .. (n + 1) - 1 <=> k = n
      /\ ~(n \in 1 .. n - 1)
  OBVIOUS
<1>2. CASE capture.blocks[n].kind = "Shb"
  BY <1>1, <1>2, Zenon DEF Idbs
<1>3. CASE capture.blocks[n].kind = "Idb"
  <2>1. "Idb" # "Shb"
    OBVIOUS
  <2>2. ASSUME NEW j PROVE j \in Idbs(n + 1) <=> j \in Idbs(n) \/ j = n
    BY <1>1, <1>3, <2>1, Zenon DEF Idbs
  <2>3. \A j : j \in Idbs(n + 1) <=> j \in Idbs(n) \cup {n}
    BY <2>2
  <2> QED BY <1>3, <2>3
<1>4. CASE capture.blocks[n].kind \notin {"Shb", "Idb"}
  <2>1. ASSUME NEW j PROVE j \in Idbs(n + 1) <=> j \in Idbs(n)
    BY <1>1, <1>4, Zenon DEF Idbs
  <2> QED BY <1>4, <2>1, Zenon
<1> QED BY <1>2, <1>3, <1>4

\* They are numbered in the order of their blocks.
LEMMA IdbsNumbered ==
  ASSUME NEW n \in Nat, n >= 1
  PROVE  /\ IsFiniteSet(Idbs(n)) /\ Cardinality(Idbs(n)) \in Nat /\ n \notin Idbs(n)
         /\ \A j \in Idbs(n) : IfaceNumber(j) \in Nat /\ IfaceNumber(j) < Cardinality(Idbs(n))
<1>1. IsFiniteSet(1 .. n - 1)
  BY FS_Interval
<1>2. Idbs(n) \in SUBSET (1 .. n - 1)
  BY Zenon DEF Idbs
<1>3. IsFiniteSet(Idbs(n))
  BY <1>1, <1>2, FS_Subset, Zenon
<1>4. Cardinality(Idbs(n)) \in Nat
  BY <1>3, FS_CardinalityType, Zenon
<1>5. n \notin Idbs(n)
  BY <1>2
<1>6. ASSUME NEW j \in Idbs(n)
      PROVE  IfaceNumber(j) \in Nat /\ IfaceNumber(j) < Cardinality(Idbs(n))
  <2>1. j \in Nat /\ j >= 1 /\ j <= n - 1
    BY <1>2, <1>6
  <2>2. /\ \A k : k \in 1 .. j - 1 => k \in 1 .. n - 1
        /\ \A k \in 1 .. j - 1 : \A l : l \in k .. n - 1 => l \in k .. j - 1 \/ l \in j .. n - 1
        /\ ~(j \in 1 .. j - 1)
    BY <2>1
  <2>3. Idbs(j) \in SUBSET Idbs(n)
    BY <1>6, <2>2, Zenon DEF Idbs
  <2>4. j \notin Idbs(j)
    BY <2>2, Zenon DEF Idbs
  <2>5. /\ IsFiniteSet(Idbs(j)) /\ Cardinality(Idbs(j)) <= Cardinality(Idbs(n))
        /\ Cardinality(Idbs(n)) = Cardinality(Idbs(j)) => Idbs(n) = Idbs(j)
    BY <1>3, <2>3, FS_Subset, Zenon
  <2>6. Cardinality(Idbs(n)) # Cardinality(Idbs(j)) /\ Cardinality(Idbs(j)) \in Nat
    BY <1>6, <2>4, <2>5, FS_CardinalityType, Zenon
  <2> HIDE DEF Idbs
  <2> QED BY <1>4, <2>5, <2>6 DEF IfaceNumber
<1> QED BY <1>3, <1>4, <1>5, <1>6

-----------------------------------------------------------------------------
(* The sessions                                                            *)

SessionType == [iface_link : Seq(Nat), section_little : BOOLEAN, pid : Nat]

InterfacesKept ==
  /\ twin.iface_link = session.iface_link
  /\ Len(session.iface_link) = Cardinality(Idbs(next))
  /\ \A j \in Idbs(next) : session.iface_link[IfaceNumber(j) + 1] = capture.blocks[j].link

InPacket ==
  /\ packet.ok /\ scan.status = "done" /\ next <= Len(capture.blocks)
  /\ Ref.kind \in {"Epb", "PcapRecord"} /\ packet = PacketFraming

\* The two sessions have counted the same packets and know the byte order of
\* the block before.  As long as every interface block of the section had room
\* for its fields, both hold exactly the interfaces of that section.
FeedInv ==
  /\ next \in Nat /\ next >= 1 /\ next <= Len(capture.blocks) + 1
  /\ next > 1 => scan.status = "done"
  /\ session \in SessionType /\ twin \in SessionType
  /\ twin.pid = session.pid /\ twin.section_little = session.section_little
  /\ ~capture.classic /\ next > 1 => session.section_little = capture.blocks[next - 1].little
  /\ WholeInterfaces => InterfacesKept
  /\ packet = Failed \/ InPacket

Inv == ScanInv /\ FeedInv

\* The block a session is fed, as both callers have it.
LEMMA AtBlock ==
  ASSUME Inv, scan.status = "done", next <= Len(capture.blocks)
  PROVE  LET b == capture.blocks[next]
         IN /\ Written(capture, next) /\ b.sound /\ b \in BlockFact
            /\ next <= Len(scan.out)
            /\ Ref.kind = b.kind /\ Ref.little = b.little /\ Ref.length = b.length
            /\ Holds(block_of(file, Ref), capture, next) /\ Holds(ExactBlock, capture, next)
            /\ Len(ExactBlock) = b.length
            /\ b.kind # "Idb" => block_of(file, Ref) = ExactBlock
            /\ b.kind # "Shb" => TwinOrder = b.little
            /\ ~capture.classic /\ b.kind # "Shb" => b.little = session.section_little
<1> DEFINE b == capture.blocks[next]
<1>1. /\ capture \in Captures /\ ScanFindsBlocks /\ next \in Nat /\ next >= 1
      /\ twin.section_little = session.section_little
      /\ ~capture.classic /\ next > 1 => session.section_little = capture.blocks[next - 1].little
      /\ scan.out \in Seq(RefType) /\ capture.blocks \in Seq(BlockFact)
  BY CaptureAssumption DEF Inv, ScanInv, FeedInv, ScanType, WellWritten
<1>2. Len(scan.out) = Len(capture.blocks)
  BY <1>1 DEF ScanFindsBlocks
<1>3. next \in DOMAIN capture.blocks /\ next \in DOMAIN scan.out /\ next <= Len(scan.out)
  BY <1>1, <1>2
<1>4. Written(capture, next) /\ b.sound /\ Ref = RefOf(b) /\ b \in BlockFact
  <2>1. Written(capture, next)
    BY <1>1, <1>3, CaptureWritten
  <2>2. b.sound /\ Ref = RefOf(b)
    BY <1>1, <1>3, Zenon DEF ScanFindsBlocks, Ref, Expected, RefOf
  <2> QED BY <2>1, <2>2, BlockNumbers, Zenon
<1>5. Ref.kind = b.kind /\ Ref.little = b.little /\ Ref.length = b.length
  BY <1>4, RefFields, ZenonT(40)
<1>6. Holds(ExactBlock, capture, next) /\ Len(ExactBlock) = b.length
  BY <1>4, ExactHolds, Zenon DEF ExactBlock, file
<1>7. Holds(block_of(file, Ref), capture, next) /\ (b.kind # "Idb" => block_of(file, Ref) = ExactBlock)
  BY <1>4, HandedHolds, Zenon DEF ExactBlock, file
<1>8. ~capture.classic /\ b.kind # "Shb" => b.little = session.section_little
  <2>1. SUFFICES ASSUME ~capture.classic, b.kind # "Shb" PROVE b.little = session.section_little
    BY Zenon
  <2>2. PcapngBlock(capture, next)
    BY <1>4, <2>1 DEF Written, WellWritten
  <2>3. next # 1
    BY <1>4, <2>1, <2>2, Zenon DEF PcapngBlock
  <2>4. next > 1
    BY <1>1, <2>3
  <2> QED BY <1>1, <1>4, <2>1, <2>3, <2>4, SeesShb, Zenon
<1>9. b.kind # "Shb" => TwinOrder = b.little
  BY <1>1, <1>5, <1>8, Zenon DEF TwinOrder
<1> QED BY <1>3, <1>4, <1>5, <1>6, <1>7, <1>8, <1>9, ZenonT(40)

\* Both sessions find the same packet in a block, and when they have the same
\* interfaces, of the same link type.
LEMMA FramingsAgree ==
  ASSUME Inv, scan.status = "done", next <= Len(capture.blocks), Ref.kind \in {"Epb", "PcapRecord"}
  PROVE  /\ PacketFraming.ok = TwinFraming.ok
         /\ PacketFraming.ok => /\ PacketFraming.caplen = TwinFraming.caplen
                                /\ PacketFraming.whole = TwinFraming.whole
         /\ twin.iface_link = session.iface_link => PacketFraming = TwinFraming
<1>1. block_of(file, Ref) = ExactBlock /\ TwinOrder = Ref.little
  <2>1. Ref.kind # "Idb" /\ Ref.kind # "Shb"
    OBVIOUS
  <2> QED BY <2>1, AtBlock, Zenon
<1> DEFINE e == parse_epb(ExactBlock, Len(ExactBlock), Ref.little, Ref.kind)
           link(s) == IF e.interface_id < Len(s.iface_link) THEN s.iface_link[e.interface_id + 1] ELSE 0
           taken(s) == IF ~e.ok THEN Failed
                       ELSE [ok |-> TRUE, caplen |-> e.caplen, link_type |-> link(s),
                             whole |-> e.payload + e.caplen <= Len(ExactBlock)]
<1>2. PacketFraming = taken(session) /\ TwinFraming = taken(twin)
  BY <1>1, Zenon DEF PacketFraming, TwinFraming, framed
<1>3. twin.iface_link = session.iface_link => link(twin) = link(session)
  BY Zenon
<1> HIDE DEF e, link
<1>4. taken(session).ok = taken(twin).ok
  BY Zenon
<1>5. taken(session).ok => /\ taken(session).caplen = taken(twin).caplen
                           /\ taken(session).whole = taken(twin).whole
  BY Zenon DEF Failed
<1>6. link(twin) = link(session) => taken(session) = taken(twin)
  BY Zenon
<1> HIDE DEF taken
<1> QED BY <1>2, <1>3, <1>4, <1>5, <1>6, Zenon

\* Two sessions that have taken in a block: what they hold of their section.
LEMMA MovesOn ==
  ASSUME Inv, scan.status = "done", next <= Len(capture.blocks),
         capture' = capture, scan' = scan, next' = next + 1, packet' = Failed,
         session' \in SessionType, twin' \in SessionType,
         twin'.pid = session'.pid, twin'.section_little = session'.section_little,
         ~capture.classic => session'.section_little = capture.blocks[next].little,
         capture.blocks[next].kind = "Shb" => session'.iface_link = <<>> /\ twin'.iface_link = <<>>,
         capture.blocks[next].kind = "Idb" /\ capture.blocks[next].length >= 16 =>
           /\ session'.iface_link = Append(session.iface_link, capture.blocks[next].link)
           /\ twin'.iface_link = Append(twin.iface_link, capture.blocks[next].link),
         capture.blocks[next].kind \notin {"Shb", "Idb"} =>
           session'.iface_link = session.iface_link /\ twin'.iface_link = twin.iface_link
  PROVE  FeedInv'
<1> DEFINE b == capture.blocks[next]
           links == session.iface_link
<1>1. /\ next \in Nat /\ next >= 1 /\ (WholeInterfaces => InterfacesKept) /\ session \in SessionType
      /\ capture.blocks \in Seq(BlockFact)
  BY CaptureAssumption DEF Inv, FeedInv, ScanInv, WellWritten
<1>2. /\ next' \in Nat /\ next' >= 1 /\ next' <= Len(capture'.blocks) + 1 /\ next' - 1 = next
      /\ next' > 1
  BY <1>1
<1>3. Idbs(next)' = Idbs(next + 1) /\ \A j : IfaceNumber(j)' = IfaceNumber(j)
  BY Zenon DEF Idbs, IfaceNumber
<1>4. links \in Seq(Nat)
  BY <1>1 DEF SessionType
<1>5. WholeInterfaces' => InterfacesKept'
  <2>0. SUFFICES ASSUME WholeInterfaces' PROVE InterfacesKept'
    BY Zenon
  <2>a. \A j \in Idbs(next + 1) : capture.blocks[j].length >= 16
    BY <1>3, <2>0, Zenon DEF WholeInterfaces
  <2>1. SUFFICES /\ twin'.iface_link = session'.iface_link
                 /\ Len(session'.iface_link) = Cardinality(Idbs(next + 1))
                 /\ \A j \in Idbs(next + 1) :
                      session'.iface_link[IfaceNumber(j) + 1] = capture.blocks[j].link
    BY <1>3, Zenon DEF InterfacesKept
  <2>2. CASE b.kind = "Shb"
    <3>1. Idbs(next + 1) = {} /\ session'.iface_link = <<>> /\ twin'.iface_link = <<>>
      BY <1>1, <2>2, IdbsGrow, Zenon
    <3>2. Len(<<>>) = 0
      OBVIOUS
    <3> QED BY <3>1, <3>2, FS_EmptySet, Zenon
  <2>3. CASE b.kind = "Idb"
    <3>0. Idbs(next + 1) = Idbs(next) \cup {next}
      BY <1>1, <2>3, IdbsGrow, Zenon
    <3>a. b.length >= 16 /\ InterfacesKept
      BY <1>1, <2>a, <3>0, Zenon DEF WholeInterfaces
    <3>1. session'.iface_link = Append(links, b.link) /\ twin'.iface_link = Append(links, b.link)
      BY <2>3, <3>a, Zenon DEF InterfacesKept
    <3>2. /\ IsFiniteSet(Idbs(next)) /\ Cardinality(Idbs(next)) \in Nat /\ next \notin Idbs(next)
          /\ \A j \in Idbs(next) : IfaceNumber(j) \in Nat /\ IfaceNumber(j) < Cardinality(Idbs(next))
      BY <1>1, IdbsNumbered, Zenon
    <3>3. Cardinality(Idbs(next + 1)) = Cardinality(Idbs(next)) + 1
      BY <3>0, <3>2, FS_AddElement, Zenon
    <3>4. /\ Len(links) = Cardinality(Idbs(next)) /\ IfaceNumber(next) = Cardinality(Idbs(next))
          /\ \A j \in Idbs(next) : links[IfaceNumber(j) + 1] = capture.blocks[j].link
      BY <3>a, Zenon DEF InterfacesKept, IfaceNumber
    <3>5. /\ Len(Append(links, b.link)) = Len(links) + 1
          /\ Append(links, b.link)[Len(links) + 1] = b.link
          /\ \A k \in Nat : k < Len(links) => Append(links, b.link)[k + 1] = links[k + 1]
      <4> HIDE DEF b, links
      <4> QED BY <1>4
    <3>6. Len(session'.iface_link) = Cardinality(Idbs(next + 1))
      BY <3>1, <3>3, <3>4, <3>5, Zenon
    <3>7. ASSUME NEW j \in Idbs(next + 1)
          PROVE  session'.iface_link[IfaceNumber(j) + 1] = capture.blocks[j].link
      <4>1. CASE j = next
        BY <3>1, <3>4, <3>5, <4>1, Zenon
      <4>2. CASE j \in Idbs(next)
        BY <3>1, <3>2, <3>4, <3>5, <4>2, Zenon
      <4> QED BY <3>0, <4>1, <4>2, Zenon
    <3> QED BY <3>1, <3>6, <3>7, Zenon
  <2>4. CASE b.kind \notin {"Shb", "Idb"}
    <3>1. Idbs(next + 1) = Idbs(next) /\ session'.iface_link = links /\ twin'.iface_link = twin.iface_link
      BY <1>1, <2>4, IdbsGrow, Zenon
    <3>2. InterfacesKept
      BY <1>1, <2>a, <3>1, Zenon DEF WholeInterfaces
    <3> QED BY <3>1, <3>2, Zenon DEF InterfacesKept
  <2> QED BY <2>2, <2>3, <2>4
<1> QED BY <1>1, <1>2, <1>5, ZenonT(40) DEF FeedInv

\* A section header starts both sessions on a new section.
LEMMA FeedShbKeeps == Inv /\ FeedShb => FeedInv'
<1> SUFFICES ASSUME Inv, FeedShb PROVE FeedInv'
  OBVIOUS
<1> DEFINE little == capture.blocks[next].little
<1>1. /\ scan.status = "done" /\ next <= Len(capture.blocks) /\ packet = Failed
      /\ Ref.kind = "Shb" /\ session \in SessionType /\ twin \in SessionType /\ twin.pid = session.pid
  BY DEF Inv, ScanInv, FeedInv, ScanFindsBlocks, FeedShb, Feeding, InPacket
<1>2. /\ Written(capture, next) /\ capture.blocks[next].sound /\ capture.blocks[next].kind = "Shb"
      /\ block_of(file, Ref) = ExactBlock /\ Holds(ExactBlock, capture, next)
      /\ capture.blocks[next] \in BlockFact
  BY <1>1, AtBlock, Zenon
<1>3. ~capture.classic
  BY <1>2, KindsOfFormat
<1>4. shb_byte_order(ExactBlock, 0, TRUE) = little
  BY <1>2, <1>3, ShbOrder, Zenon
<1>5. /\ session' = [session EXCEPT !.iface_link = <<>>, !.section_little = little]
      /\ twin' = [twin EXCEPT !.iface_link = <<>>, !.section_little = little]
      /\ packet' = Failed /\ next' = next + 1 /\ capture' = capture /\ scan' = scan
  BY <1>1, <1>2, <1>4, Zenon DEF FeedShb, feed_shb
<1>6. /\ session' \in SessionType /\ session'.iface_link = <<>> /\ session'.section_little = little
      /\ twin' \in SessionType /\ twin'.iface_link = <<>> /\ twin'.section_little = little
      /\ session'.pid = session.pid /\ twin'.pid = twin.pid
  <2>1. ASSUME NEW t \in SessionType, NEW order \in BOOLEAN
        PROVE  LET u == [t EXCEPT !.iface_link = <<>>, !.section_little = order]
               IN u \in SessionType /\ u.iface_link = <<>> /\ u.section_little = order /\ u.pid = t.pid
    <3>1. <<>> \in Seq(Nat)
      OBVIOUS
    <3> QED BY <2>1, <3>1, Zenon DEF SessionType
  <2>2. little \in BOOLEAN
    BY <1>2 DEF BlockFact
  <2> HIDE DEF little
  <2> QED BY <1>1, <1>5, <2>1, <2>2, Zenon
<1> QED BY <1>1, <1>2, <1>5, <1>6, MovesOn

\* What feed_idb does to a session, the link type left open.
LEMMA FeedIdbTypes ==
  ASSUME NEW t \in SessionType, NEW e \in Seq(Byte), NEW little \in BOOLEAN, NEW declared \in Nat,
         declared # 24, declared = 0 => Len(e) # 24
  PROVE  LET u == feed_idb(t, e, little, declared)
         IN u \in SessionType /\ u.section_little = t.section_little /\ u.pid = t.pid
<1> DEFINE length == IF declared # 0 THEN declared ELSE Len(e)
           idb == parse_idb(e, length, little)
           u == feed_idb(t, e, little, declared)
<1>1. length # 24
  BY Zenon
<1> HIDE DEF length
<1>2. u = IF idb.ok THEN [t EXCEPT !.iface_link = Append(@, idb.link_type)] ELSE t
  BY Zenon DEF feed_idb, length
<1>3. CASE Len(e) < 16
  <2>1. ~idb.ok
    BY <1>1, <1>3, Zenon DEF parse_idb, Failed
  <2> QED BY <1>2, <2>1, Zenon
<1>4. CASE ~(Len(e) < 16)
  <2>1. 8 \in Nat /\ 8 + 4 <= Len(e)
    BY <1>4
  <2>2. idb.ok /\ idb.link_type = read_u16(e, 8, little) /\ read_u16(e, 8, little) \in Nat
    BY <1>1, <1>4, <2>1, HalfWord, Zenon DEF parse_idb
  <2>3. t.iface_link \in Seq(Nat)
    BY DEF SessionType
  <2> HIDE DEF idb
  <2>4. Append(t.iface_link, idb.link_type) \in Seq(Nat)
    BY <2>2, <2>3
  <2>5. u = [t EXCEPT !.iface_link = Append(t.iface_link, idb.link_type)]
    BY <1>2, <2>2, Zenon
  <2> DEFINE links == Append(t.iface_link, idb.link_type)
  <2> HIDE DEF links, u
  <2>6. u = [t EXCEPT !.iface_link = links] /\ links \in Seq(Nat)
    BY <2>4, <2>5 DEF links
  <2>7. u \in SessionType /\ u.section_little = t.section_little /\ u.pid = t.pid
    BY <2>6, Zenon DEF SessionType
  <2> QED BY <2>7 DEF u
<1> QED BY <1>3, <1>4

\* An interface block gives both sessions the same new interface if it has
\* room for its fields, and none or any to either if it has not.
LEMMA FeedIdbKeeps == Inv /\ FeedIdb => FeedInv'
<1> SUFFICES ASSUME Inv, FeedIdb PROVE FeedInv'
  OBVIOUS
<1> DEFINE b == capture.blocks[next]
<1>1. /\ scan.status = "done" /\ next <= Len(capture.blocks) /\ packet = Failed
      /\ Ref.kind = "Idb" /\ session \in SessionType /\ twin \in SessionType
      /\ twin.pid = session.pid /\ twin.section_little = session.section_little
  BY DEF Inv, ScanInv, FeedInv, ScanFindsBlocks, FeedIdb, Feeding, InPacket
<1>2. /\ Written(capture, next) /\ b.sound /\ b.kind = "Idb" /\ b \in BlockFact
      /\ Ref.length = b.length /\ Ref.little = b.little /\ TwinOrder = b.little
      /\ Holds(block_of(file, Ref), capture, next) /\ Holds(ExactBlock, capture, next)
      /\ Len(ExactBlock) = b.length
      /\ ~capture.classic => b.little = session.section_little
  <2>1. "Idb" # "Shb"
    OBVIOUS
  <2> QED BY <1>1, <2>1, AtBlock, Zenon
<1>3. b.length # 0 /\ b.link \in Nat /\ b.little \in BOOLEAN /\ b.length \in Nat
  <2>1. b.length \in Nat /\ b.length >= 1
    BY <1>2, BlockNumbers, Zenon
  <2>2. \A x \in Nat : x >= 1 => x # 0
    OBVIOUS
  <2>3. b.link \in Nat /\ b.little \in BOOLEAN
    BY <1>2 DEF BlockFact
  <2> QED BY <2>1, <2>2, <2>3, Zenon
<1>4. /\ session' = feed_idb(session, block_of(file, Ref), b.little, b.length)
      /\ twin' = feed_idb(twin, ExactBlock, b.little, 0)
      /\ packet' = Failed /\ next' = next + 1 /\ capture' = capture /\ scan' = scan
  BY <1>1, <1>2, Zenon DEF FeedIdb
<1>5. CASE b.length >= 16
  <2>1. ASSUME NEW e, Holds(e, capture, next)
        PROVE  parse_idb(e, b.length, b.little) = [ok |-> TRUE, link_type |-> b.link]
    <3>1. Written(capture, next) /\ b.sound /\ b.kind = "Idb"
      BY <1>2, Zenon
    <3> QED BY <1>5, <2>1, <3>1, IdbLink, Zenon
  <2> DEFINE idb == [ok |-> TRUE, link_type |-> b.link]
  <2>2. idb.ok /\ idb.link_type = b.link
    BY Zenon
  <2> HIDE DEF idb
  <2>3. parse_idb(block_of(file, Ref), IF b.length # 0 THEN b.length ELSE Len(block_of(file, Ref)), b.little) = idb
    BY <1>2, <1>3, <2>1, Zenon DEF idb
  <2>4. parse_idb(ExactBlock, IF 0 # 0 THEN 0 ELSE Len(ExactBlock), b.little) = idb
    BY <1>2, <2>1, Zenon DEF idb
  <2>5. session' = [session EXCEPT !.iface_link = Append(session.iface_link, b.link)]
    BY <1>4, <2>2, <2>3, Zenon DEF feed_idb
  <2>6. twin' = [twin EXCEPT !.iface_link = Append(twin.iface_link, b.link)]
    BY <1>4, <2>2, <2>4, Zenon DEF feed_idb
  <2>7. ASSUME NEW t \in SessionType, NEW link \in Nat
        PROVE  LET u == [t EXCEPT !.iface_link = Append(t.iface_link, link)]
               IN /\ u \in SessionType /\ u.iface_link = Append(t.iface_link, link)
                  /\ u.section_little = t.section_little /\ u.pid = t.pid
    <3>1. t.iface_link \in Seq(Nat)
      BY <2>7 DEF SessionType
    <3>2. Append(t.iface_link, link) \in Seq(Nat)
      BY <3>1
    <3> QED BY <2>7, <3>2, SMTT(30) DEF SessionType
  <2>8. /\ session' \in SessionType /\ session'.iface_link = Append(session.iface_link, b.link)
        /\ session'.section_little = session.section_little /\ session'.pid = session.pid
        /\ twin' \in SessionType /\ twin'.iface_link = Append(twin.iface_link, b.link)
        /\ twin'.section_little = twin.section_little /\ twin'.pid = twin.pid
    BY <1>1, <1>3, <2>5, <2>6, <2>7, Zenon
  <2>9. /\ ~(b.kind = "Shb") /\ ~(b.kind \notin {"Shb", "Idb"})
        /\ twin'.pid = session'.pid /\ twin'.section_little = session'.section_little
        /\ ~capture.classic => session'.section_little = b.little
    BY <1>1, <1>2, <2>8
  <2> QED BY <1>1, <1>4, <2>8, <2>9, MovesOn, Zenon
<1>6. CASE ~(b.length >= 16)
  <2>1. b.length # 24 /\ 0 # 24 /\ 0 \in Nat
    <3> HIDE DEF b
    <3> QED BY <1>3, <1>6
  <2>2. block_of(file, Ref) \in Seq(Byte) /\ ExactBlock \in Seq(Byte)
    BY <1>2, Zenon DEF Holds
  <2>3. /\ session' \in SessionType /\ session'.section_little = session.section_little
        /\ session'.pid = session.pid
    BY <1>1, <1>3, <1>4, <2>1, <2>2, FeedIdbTypes, ZenonT(40)
  <2>4. twin' \in SessionType /\ twin'.section_little = twin.section_little /\ twin'.pid = twin.pid
    <3>1. 0 = 0 => Len(ExactBlock) # 24
      BY <1>2, <2>1, Zenon
    <3> QED BY <1>1, <1>3, <1>4, <2>1, <2>2, <3>1, FeedIdbTypes, ZenonT(40)
  <2>5. /\ ~(b.kind = "Shb") /\ ~(b.kind \notin {"Shb", "Idb"})
        /\ twin'.pid = session'.pid /\ twin'.section_little = session'.section_little
        /\ ~capture.classic => session'.section_little = b.little
    BY <1>1, <1>2, <2>3, <2>4
  <2> QED BY <1>1, <1>4, <1>6, <2>3, <2>4, <2>5, MovesOn, Zenon
<1> QED BY <1>5, <1>6

\* A block without a packet leaves both sessions alone.
LEMMA SkipKeeps == Inv /\ SkipBlock => FeedInv'
<1> SUFFICES ASSUME Inv, SkipBlock PROVE FeedInv'
  OBVIOUS
<1>1. /\ scan.status = "done" /\ next <= Len(capture.blocks) /\ packet = Failed
      /\ Ref.kind \in {"SimplePacket", "Other"} /\ session \in SessionType /\ twin \in SessionType
      /\ twin.pid = session.pid /\ twin.section_little = session.section_little
  BY DEF Inv, ScanInv, FeedInv, ScanFindsBlocks, SkipBlock, Feeding, InPacket
<1>2. Ref.kind \notin {"Shb", "Idb"}
  BY <1>1
<1>3. /\ capture.blocks[next].kind \notin {"Shb", "Idb"}
      /\ ~capture.classic => capture.blocks[next].little = session.section_little
  BY <1>1, <1>2, AtBlock, Zenon
<1>4. /\ session' = session /\ twin' = twin /\ packet' = Failed /\ next' = next + 1
      /\ capture' = capture /\ scan' = scan
  BY <1>1 DEF SkipBlock
<1> QED BY <1>1, <1>3, <1>4, MovesOn

\* A packet block fed whole, whether it parsed or not.
LEMMA PacketFed ==
  ASSUME Inv, scan.status = "done", next <= Len(capture.blocks), Ref.kind \in {"Epb", "PcapRecord"},
         capture' = capture, scan' = scan, next' = next + 1, packet' = Failed, twin' = TwinFed,
         session' = IF PacketFraming.ok THEN [session EXCEPT !.pid = @ + 1] ELSE session
  PROVE  FeedInv'
<1>1. /\ session \in SessionType /\ twin \in SessionType
      /\ twin.pid = session.pid /\ twin.section_little = session.section_little
  BY DEF Inv, FeedInv
<1>2. twin' = IF PacketFraming.ok THEN [twin EXCEPT !.pid = @ + 1] ELSE twin
  BY FramingsAgree, Zenon DEF TwinFed
<1>3. Ref.kind \notin {"Shb", "Idb"}
  OBVIOUS
<1>4. /\ capture.blocks[next].kind \notin {"Shb", "Idb"}
      /\ ~capture.classic => capture.blocks[next].little = session.section_little
  BY <1>3, AtBlock, Zenon
<1>5. ASSUME NEW t \in SessionType, NEW ok, NEW u, u = IF ok THEN [t EXCEPT !.pid = @ + 1] ELSE t
      PROVE  /\ u \in SessionType /\ u.iface_link = t.iface_link /\ u.section_little = t.section_little
             /\ u.pid = IF ok THEN t.pid + 1 ELSE t.pid
  <2>1. ok => u = [t EXCEPT !.pid = t.pid + 1]
    BY <1>5
  <2>2. ~ok => u = t
    BY <1>5
  <2>3. t.pid + 1 \in Nat
    BY <1>5 DEF SessionType
  <2> QED BY <1>5, <2>1, <2>2, <2>3, Zenon DEF SessionType
<1>6. /\ session' \in SessionType /\ session'.iface_link = session.iface_link
      /\ session'.section_little = session.section_little
      /\ session'.pid = IF PacketFraming.ok THEN session.pid + 1 ELSE session.pid
      /\ twin' \in SessionType /\ twin'.iface_link = twin.iface_link
      /\ twin'.section_little = twin.section_little
      /\ twin'.pid = IF PacketFraming.ok THEN twin.pid + 1 ELSE twin.pid
  <2> DEFINE ok == PacketFraming.ok
  <2>1. /\ session' = IF ok THEN [session EXCEPT !.pid = @ + 1] ELSE session
        /\ twin' = IF ok THEN [twin EXCEPT !.pid = @ + 1] ELSE twin
    BY <1>2, Zenon
  <2> HIDE DEF ok
  <2>2. /\ session' \in SessionType /\ session'.iface_link = session.iface_link
        /\ session'.section_little = session.section_little
        /\ session'.pid = IF ok THEN session.pid + 1 ELSE session.pid
    BY <1>1, <1>5, <2>1, SMT
  <2>3. /\ twin' \in SessionType /\ twin'.iface_link = twin.iface_link
        /\ twin'.section_little = twin.section_little
        /\ twin'.pid = IF ok THEN twin.pid + 1 ELSE twin.pid
    BY <1>1, <1>5, <2>1, SMT
  <2> QED BY <2>2, <2>3 DEF ok
<1>7. twin'.pid = session'.pid /\ twin'.section_little = session'.section_little
  BY <1>1, <1>6, Zenon
<1>8. ~(capture.blocks[next].kind = "Shb") /\ ~(capture.blocks[next].kind = "Idb")
  BY <1>4
<1> QED BY <1>1, <1>4, <1>6, <1>7, <1>8, MovesOn, Zenon

\* The interfaces stay while no block is finished.
LEMMA SameInterfaces ==
  ASSUME WholeInterfaces => InterfacesKept,
         capture' = capture, next' = next, session' = session, twin' = twin
  PROVE  WholeInterfaces' => InterfacesKept'
<1>1. Idbs(next)' = Idbs(next) /\ \A j : IfaceNumber(j)' = IfaceNumber(j)
  BY Zenon DEF Idbs, IfaceNumber
<1> QED BY <1>1, Zenon DEF InterfacesKept, WholeInterfaces

\* The invariant is kept by every step.
LEMMA InvKept == Inv /\ [FramingNext]_framingVars => Inv'
<1> SUFFICES ASSUME Inv, [FramingNext]_framingVars PROVE Inv'
  OBVIOUS
<1>1. ScanInv /\ FeedInv /\ capture.blocks \in Seq(BlockFact)
  BY CaptureAssumption DEF Inv, ScanInv, WellWritten
<1>2. capture' = capture /\ scan' = scan => ScanInv'
  BY <1>1, Zenon DEF ScanInv, ScanFindsBlocks, Expected, Scanning, file
<1>3. CASE ScanStep
  <2>1. ScanInv'
    BY <1>1, <1>3, ScanKeeps, SMTT(30)
  <2>2. ~(scan.status = "done") /\ next = 1 /\ packet = Failed
    BY <1>1, <1>3 DEF ScanStep, Scanning, FeedInv, InPacket
  <2>3. capture' = capture /\ next' = next /\ session' = session /\ twin' = twin /\ packet' = packet
    BY <1>3 DEF ScanStep
  <2>4. WholeInterfaces' => InterfacesKept'
    BY <1>1, <2>3, SameInterfaces, Zenon DEF FeedInv
  <2>5. ~(1 > 1)
    OBVIOUS
  <2>6. FeedInv'
    BY <1>1, <2>2, <2>3, <2>4, <2>5, Zenon DEF FeedInv
  <2> QED BY <2>1, <2>6 DEF Inv
<1>4. CASE FeedShb \/ FeedIdb \/ SkipBlock
  <2>1. FeedInv'
    BY <1>4, FeedShbKeeps, FeedIdbKeeps, SkipKeeps
  <2>2. capture' = capture /\ scan' = scan
    BY <1>4 DEF FeedShb, FeedIdb, SkipBlock
  <2> QED BY <1>2, <2>1, <2>2 DEF Inv
<1>5. CASE FeedMalformed
  <2>1. /\ scan.status = "done" /\ next <= Len(capture.blocks) /\ packet = Failed
        /\ Ref.kind \in {"Epb", "PcapRecord"} /\ ~PacketFraming.ok
        /\ capture' = capture /\ scan' = scan /\ next' = next + 1 /\ packet' = Failed /\ twin' = TwinFed
        /\ session' = session
    BY <1>1, <1>5 DEF ScanInv, FeedInv, ScanFindsBlocks, FeedMalformed, IsPacket, Feeding, InPacket
  <2>2. FeedInv'
    BY <2>1, PacketFed, Zenon
  <2> QED BY <1>2, <2>1, <2>2 DEF Inv
<1>6. CASE FeedEpb
  <2>1. /\ scan.status = "done" /\ next <= Len(capture.blocks) /\ Ref.kind \in {"Epb", "PcapRecord"}
        /\ PacketFraming.ok /\ packet' = PacketFraming /\ capture' = capture /\ scan' = scan
        /\ next' = next /\ session' = session /\ twin' = twin
    BY <1>1, <1>6 DEF ScanInv, ScanFindsBlocks, FeedEpb, IsPacket, Feeding
  <2>2. InPacket'
    BY <2>1, Zenon DEF InPacket, PacketFraming, Ref, file
  <2>3. WholeInterfaces' => InterfacesKept'
    BY <1>1, <2>1, SameInterfaces, Zenon DEF FeedInv
  <2>4. FeedInv'
    BY <1>1, <2>1, <2>2, <2>3, Zenon DEF FeedInv
  <2> QED BY <1>2, <2>1, <2>4, SMTT(30) DEF Inv
<1>7. CASE EndPacket
  <2>1. /\ InPacket /\ capture' = capture /\ scan' = scan /\ next' = next + 1 /\ packet' = Failed
        /\ twin' = TwinFed /\ session' = [session EXCEPT !.pid = @ + 1]
    BY <1>1, <1>7 DEF FeedInv, EndPacket, Failed
  <2>2. FeedInv'
    BY <2>1, PacketFed, Zenon DEF InPacket
  <2> QED BY <1>2, <2>1, <2>2 DEF Inv
<1>8. CASE UNCHANGED framingVars
  <2>1. /\ capture' = capture /\ scan' = scan /\ next' = next /\ session' = session /\ twin' = twin
        /\ packet' = packet
    BY <1>8 DEF framingVars
  <2>2. WholeInterfaces' => InterfacesKept'
    BY <1>1, <2>1, SameInterfaces, Zenon DEF FeedInv
  <2>3. packet' = Failed \/ InPacket'
    <3>1. PacketFraming' = PacketFraming /\ Ref' = Ref
      BY <2>1, Zenon DEF PacketFraming, Ref, file
    <3> QED BY <1>1, <2>1, <3>1, Zenon DEF FeedInv, InPacket
  <2>4. FeedInv'
    BY <1>1, <2>1, <2>2, <2>3, Zenon DEF FeedInv
  <2> QED BY <1>2, <2>1, <2>4 DEF Inv
<1> QED BY <1>3, <1>4, <1>5, <1>6, <1>7, <1>8, SMTT(30) DEF FramingNext

\* Every reachable state satisfies the invariant.
LEMMA InvHolds == FramingSpec => []Inv
<1>1. FramingInit => Inv
  <2> SUFFICES ASSUME FramingInit PROVE Inv
    OBVIOUS
  <2>1. ScanInv
    BY ScanBegins
  <2>2. next = 1 /\ session = NewSession /\ twin = session /\ packet = Failed
    BY DEF FramingInit
  <2>3. Idbs(1) = {}
    BY DEF Idbs
  <2>4. session \in SessionType /\ session.iface_link = <<>>
    BY <2>2 DEF NewSession, SessionType
  <2>5. InterfacesKept
    <3>1. Len(<<>>) = 0
      OBVIOUS
    <3> QED BY <2>2, <2>3, <2>4, <3>1, FS_EmptySet, Zenon DEF InterfacesKept
  <2>6. 1 <= Len(capture.blocks) + 1
    BY <2>1, CaptureAssumption DEF ScanInv, WellWritten
  <2>7. 1 \in Nat /\ 1 >= 1 /\ ~(1 > 1)
    OBVIOUS
  <2>8. FeedInv
    BY <2>2, <2>4, <2>5, <2>6, <2>7, Zenon DEF FeedInv
  <2> QED BY <2>1, <2>8 DEF Inv
<1> QED BY <1>1, InvKept, PTL DEF FramingSpec

\* What the invariant says of the packet being decoded.
LEMMA PacketRight ==
  ASSUME Inv, packet.ok
  PROVE  LET b == capture.blocks[next]
             links == session.iface_link
         IN /\ packet.caplen <= b.data /\ b.iface \in Nat
            /\ packet.link_type = IF b.iface < Len(links) THEN links[b.iface + 1] ELSE 0
<1> DEFINE b == capture.blocks[next]
<1>1. InPacket
  BY DEF Inv, FeedInv, Failed
<1>2. /\ Written(capture, next) /\ b.sound /\ b \in BlockFact /\ b.kind = Ref.kind /\ b.little = Ref.little
      /\ Holds(ExactBlock, capture, next) /\ Len(ExactBlock) = b.length
      /\ b.kind # "Idb" => block_of(file, Ref) = ExactBlock
  BY <1>1, AtBlock, Zenon DEF InPacket
<1>3. b.kind \in {"Epb", "PcapRecord"} /\ b.kind # "Idb"
  BY <1>1, <1>2 DEF InPacket
<1>4. packet = framed(session, ExactBlock, b.little, b.kind)
  BY <1>1, <1>2, <1>3, Zenon DEF InPacket, PacketFraming
<1>5. b.iface \in Nat
  BY <1>2 DEF BlockFact
<1> QED BY <1>2, <1>3, <1>4, <1>5, PacketTaken, Zenon

\* The framing is exact, of every capture (FramingIsExact): scan_blocks finds
\* the blocks that were written, in order and in the byte order of their
\* sections, and stops only at a malformed one; what is walked as a packet is
\* never more than the packet's own bytes.
THEOREM FramingExact == FramingSpec => []FramingIsExact
<1>1. Inv => FramingIsExact
  <2> SUFFICES ASSUME Inv PROVE FramingIsExact
    OBVIOUS
  <2>1. ScanFindsBlocks
    BY DEF Inv, ScanInv
  <2>2. PacketInsideBlock
    BY PacketRight, Zenon DEF PacketInsideBlock
  <2> QED BY <2>1, <2>2 DEF FramingIsExact
<1> QED BY <1>1, InvHolds, PTL

\* Sections are kept apart, in every capture (SectionsAreKept): a caller
\* without a scan finds the packets of run_decode_pass under the same ids, and
\* after interface blocks with room for their fields a packet takes its link
\* type from the interface of its own section that it names, with both callers.
THEOREM SectionsApart == FramingSpec => []SectionsAreKept
<1>1. Inv => SectionsAreKept
  <2> SUFFICES ASSUME Inv PROVE SectionsAreKept
    OBVIOUS
  <2>1. /\ WholeInterfaces => InterfacesKept
        /\ next \in Nat /\ next >= 1 /\ twin.pid = session.pid /\ ScanFindsBlocks
    BY DEF Inv, FeedInv, ScanInv
  <2>2. IsPacket => /\ scan.status = "done" /\ next <= Len(capture.blocks)
                    /\ Ref.kind \in {"Epb", "PcapRecord"}
    BY <2>1, Zenon DEF IsPacket, Feeding, ScanFindsBlocks
  <2>3. PacketsAgree
    BY <2>1, <2>2, FramingsAgree, Zenon DEF PacketsAgree
  <2>4. ASSUME WholeInterfaces PROVE EntryPointsAgree
    BY <2>1, <2>2, <2>4, FramingsAgree, Zenon DEF EntryPointsAgree, InterfacesKept
  <2>5. ASSUME WholeInterfaces PROVE OwnInterface
    <3> DEFINE links == session.iface_link
               b == capture.blocks[next]
    <3>1. /\ Len(links) = Cardinality(Idbs(next)) /\ Cardinality(Idbs(next)) \in Nat
          /\ \A j \in Idbs(next) : /\ links[IfaceNumber(j) + 1] = capture.blocks[j].link
                                   /\ IfaceNumber(j) < Cardinality(Idbs(next))
      BY <2>1, <2>5, IdbsNumbered, Zenon DEF InterfacesKept
    <3>2. ASSUME packet.ok
          PROVE  /\ \A j \in Idbs(next) : IfaceNumber(j) = b.iface => packet.link_type = capture.blocks[j].link
                 /\ b.iface >= Cardinality(Idbs(next)) => packet.link_type = 0
      <4>1. /\ b.iface \in Nat
            /\ packet.link_type = IF b.iface < Len(links) THEN links[b.iface + 1] ELSE 0
        BY <3>2, PacketRight, Zenon
      <4>2. b.iface >= Cardinality(Idbs(next)) => ~(b.iface < Len(links))
        <5> HIDE DEF b, links
        <5> QED BY <3>1, <4>1
      <4> QED BY <3>1, <4>1, <4>2, Zenon
    <3> QED BY <2>1, <2>5, <3>2, Zenon DEF OwnInterface, InterfacesKept
  <2> QED BY <2>3, <2>4, <2>5, Zenon DEF SectionsAreKept
<1> QED BY <1>1, InvHolds, PTL
=============================================================================
