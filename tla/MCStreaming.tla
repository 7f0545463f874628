---------------------------- MODULE MCStreaming ----------------------------
(***************************************************************************)
(* Values for StreamingSession: fragments of a two-byte datagram that      *)
(* arrive in any order, repeat, disagree, leave a hole, carry nothing or   *)
(* move the end.                                                           *)
(***************************************************************************)
EXTENDS StreamingSession, TLC

CONSTANTS MaxBytes, MaxOpen, Ticks4, Ticks6

Frag(o, m, d) == [offset |-> o, more |-> m, data |-> d]

MCFragments ==
  [v \in Version |->
     IF v = 4
     THEN {Frag(0, TRUE, <<1>>), Frag(1, FALSE, <<2>>), Frag(0, TRUE, <<>>),
           Frag(0, TRUE, <<1, 7>>)}
     ELSE {Frag(0, TRUE, <<1>>), Frag(1, FALSE, <<2>>), Frag(0, FALSE, <<9>>),
           Frag(0, FALSE, <<>>)}]

MCConfig ==
  [v \in Version |->
     [max_datagram_bytes |-> MaxBytes, max_concurrent |-> MaxOpen,
      timeout_ticks |-> IF v = 4 THEN Ticks4 ELSE Ticks6]]

TokenSymmetry == Permutations(Token)
=============================================================================
