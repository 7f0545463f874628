----------------------------- MODULE WireArena -----------------------------
(***************************************************************************)
(* Generation tracking of include/nanom/generation.hpp: a buffer, the      *)
(* wire_arena that stamps what is parsed from it, the stamped spans and    *)
(* views a program still holds, and the check every stamped access makes.  *)
(* The memory is a sequence of cells, an address is counted from zero.     *)
(***************************************************************************)
EXTENDS Integers, Sequences

CONSTANTS MemSize,    \* cells of memory
          Value,      \* what a cell holds
          MaxGen,     \* bound on the generation counter, 64 bits wide in the code
          Ignored     \* kinds of fault the installed handler answers with ignore

FaultKind == {"null_pointer", "stale_generation", "out_of_arena"}

ASSUME ArenaAssumption == MemSize \in Nat /\ MaxGen \in Nat \ {0} /\ Ignored \subseteq FaultKind

VARIABLES arena,      \* wire_arena: base, size, generation
          mem,
          views       \* attested_bytes and view<T> values held by the program

arenaVars == <<arena, mem, views>>

Null == -1
Addr == 0 .. MemSize - 1
Memory == [1 .. MemSize -> Value]

\* seen is history: the bytes the span covered when it was handed out.
Span == [p : 0 .. MemSize \cup {Null}, len : 0 .. MemSize, tracked : BOOLEAN, gen : 0 .. MaxGen,
         seen : Seq(Value)]

-----------------------------------------------------------------------------
(* wire_arena.                                                             *)

open(a, base, n) == [base |-> base, size |-> n, generation |-> a.generation + 1]

\* Mutant of invalidate: the range is kept.
invalidateKeeping(a) == [a EXCEPT !.generation = @ + 1]

invalidate(a) == [base |-> Null, size |-> 0, generation |-> a.generation + 1]

\* Mutant of contains: the arena's last byte is left out.
containsShort(a, p, len) ==
  \/ len = 0
  \/ a.base # Null /\ p # Null /\ p >= a.base /\ p + len < a.base + a.size

contains(a, p, len) ==
  \/ len = 0
  \/ a.base # Null /\ p # Null /\ p >= a.base /\ p + len <= a.base + a.size

InArena(a, x) == a.base # Null /\ x >= a.base /\ x < a.base + a.size

\* Mutant of check_wire_access: any generation will do.
check_wire_accessAnyGen(a, v) ==
  IF ~v.tracked THEN "none"
  ELSE IF v.p = Null THEN "null_pointer"
  ELSE IF ~contains(a, v.p, v.len) THEN "out_of_arena"
  ELSE "none"

\* The kind of fault an access reports, "none" when it reports none.
check_wire_access(a, v) ==
  IF ~v.tracked THEN "none"
  ELSE IF v.p = Null THEN "null_pointer"
  ELSE IF a.generation # v.gen THEN "stale_generation"
  ELSE IF ~contains(a, v.p, v.len) THEN "out_of_arena"
  ELSE "none"

\* attested_bytes::at looks at the index before the span.
check_at(a, v, i) == IF i >= v.len THEN "out_of_arena" ELSE check_wire_access(a, v)

\* dispatch_generation_fault: the access goes on only when the handler says so.
Proceeds(fault) == fault = "none" \/ fault \in Ignored

\* attested_bytes::subspan keeps the stamp.
subspan(v, off, n) ==
  [p |-> IF v.p = Null THEN Null ELSE v.p + off, len |-> n, tracked |-> v.tracked,
   gen |-> v.gen, seen |-> [i \in 1 .. n |-> v.seen[off + i]]]

Read(m, v) == [i \in 1 .. v.len |-> m[v.p + i]]

-----------------------------------------------------------------------------
ArenaInit ==
  /\ arena = [base |-> Null, size |-> 0, generation |-> 1]
  /\ mem \in Memory
  /\ views = {}

\* from(bytes, arena) opens the arena over the buffer.
Open(base, n) ==
  /\ arena.generation < MaxGen
  /\ arena' = open(arena, base, n)
  /\ UNCHANGED <<mem, views>>

\* The program writes its buffers, never under an open arena: it calls
\* invalidate() first.
Write ==
  /\ mem' \in Memory
  /\ \A x \in Addr : InArena(arena', x) => mem'[x + 1] = mem[x + 1]
  /\ arena' = arena \/ (arena.generation < MaxGen /\ arena' = invalidate(arena))
  /\ UNCHANGED views

\* A parser hands out a span or view under its cursor's stamp, which may
\* have gone stale since the cursor was made.
Attest(v) ==
  /\ v \in Span
  /\ v.gen <= arena.generation
  /\ v.p # Null => v.p + v.len <= MemSize /\ v.seen = Read(mem, v)
  /\ views' = views \cup {v}
  /\ UNCHANGED <<arena, mem>>

\* view::get on a nested struct or a byte array hands out a part of the
\* view, under the same stamp, once the check has let the access through.
Access(v, part) ==
  /\ v \in views /\ v.p # Null /\ Proceeds(check_wire_access(arena, v))
  /\ \E off, n \in 0 .. v.len : off + n <= v.len /\ part = subspan(v, off, n)
  /\ views' = views \cup {part}
  /\ UNCHANGED <<arena, mem>>

ArenaNext ==
  \/ \E base \in Addr, n \in 0 .. MemSize : base + n <= MemSize /\ Open(base, n)
  \/ Write
  \/ \E v \in views' : Attest(v)
  \/ \E v \in views, part \in views' : Access(v, part)

ArenaSpec == ArenaInit /\ [][ArenaNext]_arenaVars

-----------------------------------------------------------------------------
ArenaTypeOK ==
  /\ arena \in [base : Addr \cup {Null}, size : 0 .. MemSize, generation : 1 .. MaxGen]
  /\ mem \in Memory
  /\ views \subseteq Span

\* A stamped access that reports no fault reads the bytes its span covered
\* when it was handed out: check_wire_access lets no view of a buffer
\* reused since then through, whatever order of reopening, invalidation and
\* rewriting came between.
NoStaleRead ==
  \A v \in views :
    (v.tracked /\ check_wire_access(arena, v) = "none") => Read(mem, v) = v.seen
=============================================================================
