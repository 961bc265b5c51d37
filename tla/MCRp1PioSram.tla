---------------------------- MODULE MCRp1PioSram ----------------------------
(* Instances of Rp1PioSram for TLC.                                        *)
EXTENDS Rp1PioSram, TLC

\* The callers are interchangeable.
CallerSymmetry == Permutations(Callers) \cup Permutations(MapIds)

\* Action constraint: SRAM sessions are started in the default direction only.
\* STOP chooses the channels by dma_dir_mode, an SRAM session always runs both
\* (MCCyclicBench shows what that leads to).
SramBothWays == \A p \in Callers : SramEntry(p) => dirMode = "both"

=============================================================================
