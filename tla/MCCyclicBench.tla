--------------------------- MODULE MCCyclicBench ---------------------------
(* CyclicBench for TLC: the command lines of the runs.                     *)
EXTENDS CyclicBench

\* All command lines but an SRAM test in one direction, which cannot pass and
\* whose session STOP does not end.
Served == ({"dram", "diag"} \X Mode) \cup {<<"sram", "both">>}

\* Among them one that is not served.
Mixed == {<<"sram", "rx">>, <<"dram", "tx">>}

=============================================================================
