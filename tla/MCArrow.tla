------------------------------ MODULE MCArrow ------------------------------
(* Values for StreamingArrow: which reader reads which table. *)
EXTENDS StreamingArrow, TLC

CONSTANTS r1, r2, r3

TwoAndOne == (r1 :> 1) @@ (r2 :> 1) @@ (r3 :> 2)
OnlyFirst == r1 :> 1
=============================================================================
