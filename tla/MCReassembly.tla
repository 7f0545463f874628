--------------------------- MODULE MCReassembly ---------------------------
(***************************************************************************)
(* Values for ReassemblyTable.  The datagram on the wire reads 1, 2, 3...; *)
(* a fragment carries its true slice, or one byte 9 that disagrees with    *)
(* every true byte and with no other false one, or, the last, nothing.     *)
(***************************************************************************)
EXTENDS ReassemblyTable, TLC

CONSTANTS MaxOffset, MaxLength, MaxBytes, MaxOpen, Ticks

TrueSlice(o, n)  == [i \in 1..n |-> o + i]

MCFragments ==
  {[offset |-> o, more |-> m, data |-> TrueSlice(o, n)] :
     o \in 0..MaxOffset, m \in BOOLEAN, n \in 1..MaxLength}
  \cup {[offset |-> o, more |-> m, data |-> <<9>>] : o \in 0..(MaxOffset - 1), m \in BOOLEAN}
  \cup {[offset |-> o, more |-> FALSE, data |-> <<>>] : o \in {0, MaxOffset}}

MCConfig ==
  [max_datagram_bytes |-> MaxBytes, max_concurrent |-> MaxOpen,
   timeout_ticks |-> Ticks]

\* Keys are only compared for equality.
KeySymmetry == Permutations(Key)
=============================================================================
