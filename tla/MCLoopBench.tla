----------------------------- MODULE MCLoopBench -----------------------------
(* An instance of LoopBench for TLC: what xorshift32 makes of a seed.      *)
EXTENDS LoopBench

\* Words that differ within an iteration and between iterations, none zero.
Xorshift == [seed \in 1..Total |-> [i \in Index |->
               [b \in 1..Bits |-> IF (seed + i) % 3 = 0 \/ b = ((seed + i) % 3) THEN 1 ELSE 0]]]

=============================================================================
