---------------------------- MODULE RingLoopback ----------------------------
(***************************************************************************)
(* The data of a cyclic DMA session: TX ring -> DMA -> TX FIFO -> state    *)
(* machine (NOT) -> RX FIFO -> DMA -> RX ring, from START to STOP, and the *)
(* three verifiers that look at the RX ring afterwards: the driver's for   *)
(* SRAM sessions, the benchmark program's for DRAM sessions and the one of *)
(* dma_diag_test.                                                          *)
(*                                                                         *)
(* Each DMA channel moves a burst when the FIFO raises DREQ; a burst does  *)
(* not look at the FIFO again.  Rp1PioSram has the control of a session;   *)
(* here only the steps that move or drop words remain.                     *)
(*                                                                         *)
(* A word is its index in the TX pattern; NOT is a bijection, so the RX    *)
(* ring holds the index of the inverted word.                              *)
(***************************************************************************)
EXTENDS Integers, Sequences, FiniteSets

CONSTANTS
  Words,        \* words of a ring
  Period,       \* words of a period
  Depth,        \* entries of a PIO FIFO
  Held,         \* words the state machine can hold between the FIFOs
  Burst,        \* maxburst of both channels
  TxThreshold,  \* THRESHOLD of DMACTRL: free entries that raise the TX DREQ
  RxThreshold,  \* and words that raise the RX DREQ
  MaxWords,     \* bound on the words one session sends
  MaxSessions,  \* bound on the sessions
  MaxFaults     \* bound on the spoilt words of one session

ASSUME RingAssumption ==
  /\ Words \in Nat /\ Period \in Nat \ {0} /\ Words > 0 /\ Words % Period = 0
ASSUME FifoAssumption ==
  /\ Depth \in Nat \ {0} /\ Held \in Nat \ {0} /\ Burst \in Nat \ {0}
  /\ TxThreshold \in 1..Depth /\ RxThreshold \in 1..Depth
ASSUME BoundAssumption ==
  MaxWords \in Nat /\ MaxSessions \in Nat /\ MaxFaults \in Nat

VARIABLES
  stage,    \* off, running, then the steps of STOP
  dreq,     \* DREQ is enabled
  sent,     \* words the TX channel has read from its ring
  moved,    \* words the RX channel has written to its ring
  txLeft, rxLeft,  \* words left of the bursts in progress
  txf, sm, rxf,    \* words in the FIFOs and in the state machine
  rx,       \* the RX ring
  session,  \* sessions started
  stale,    \* ghost: words a session found in the pipeline when it started
  faults,   \* ghost: words spoilt in this session
  lost      \* ghost: a burst met a full TX FIFO or an empty RX FIFO

ctlVars == <<stage, dreq, session, stale>>
txVars  == <<sent, txLeft>>
rxVars  == <<moved, rxLeft, rx, faults>>
pipe    == <<txf, sm, rxf>>
vars    == <<ctlVars, txVars, rxVars, pipe, lost>>

Pattern   == 0 .. Words - 1
Unwritten == Words   \* 0xDEADDEAD
Junk      == -1      \* any other word outside the pattern

-----------------------------------------------------------------------------
(* The hardware.                                                           *)

\* A DREQ starts a burst of the TX channel while there is room.
TxRequest ==
  /\ dreq /\ stage = "running" /\ txLeft = 0 /\ sent < MaxWords
  /\ Depth - Len(txf) >= TxThreshold
  /\ txLeft' = Burst
  /\ UNCHANGED <<ctlVars, sent, rxVars, pipe, lost>>

\* Mutant: the TX descriptor covers one period less than the pattern.
TxWord_short ==
  /\ txLeft > 0
  /\ txLeft' = txLeft - 1 /\ sent' = sent + 1
  /\ IF Len(txf) < Depth
     THEN txf' = Append(txf, sent % (Words - Period)) /\ UNCHANGED lost
     ELSE lost' = TRUE /\ UNCHANGED txf
  /\ UNCHANGED <<ctlVars, rxVars, sm, rxf>>

\* A word written to a full FIFO is dropped.
TxWord ==
  /\ txLeft > 0
  /\ txLeft' = txLeft - 1 /\ sent' = sent + 1
  /\ IF Len(txf) < Depth
     THEN txf' = Append(txf, sent % Words) /\ UNCHANGED lost
     ELSE lost' = TRUE /\ UNCHANGED txf
  /\ UNCHANGED <<ctlVars, rxVars, sm, rxf>>

\* Mutant: the program pulls without having pushed.
Pull_ahead ==
  /\ txf # <<>>
  /\ sm' = Append(sm, Head(txf)) /\ txf' = Tail(txf)
  /\ UNCHANGED <<ctlVars, txVars, rxVars, rxf, lost>>

\* out x: autopull takes a word; in y: autopush delivers it.
Pull ==
  /\ txf # <<>> /\ Len(sm) < Held
  /\ sm' = Append(sm, Head(txf)) /\ txf' = Tail(txf)
  /\ UNCHANGED <<ctlVars, txVars, rxVars, rxf, lost>>

Push ==
  /\ sm # <<>> /\ Len(rxf) < Depth
  /\ rxf' = Append(rxf, Head(sm)) /\ sm' = Tail(sm)
  /\ UNCHANGED <<ctlVars, txVars, rxVars, txf, lost>>

RxRequest ==
  /\ dreq /\ stage \in {"running", "txOff"} /\ rxLeft = 0
  /\ Len(rxf) >= RxThreshold
  /\ rxLeft' = Burst
  /\ UNCHANGED <<ctlVars, txVars, moved, rx, faults, pipe, lost>>

\* A read of an empty FIFO returns junk, and so may one that is disturbed.
RxWord ==
  /\ rxLeft > 0
  /\ rxLeft' = rxLeft - 1 /\ moved' = moved + 1
  /\ \/ /\ rxf # <<>> /\ rxf' = Tail(rxf)
        /\ rx' = [rx EXCEPT ![moved % Words] = Head(rxf)]
        /\ UNCHANGED <<faults, lost>>
     \/ /\ rxf # <<>> /\ rxf' = Tail(rxf)
        /\ faults < MaxFaults /\ faults' = faults + 1
        /\ rx' = [rx EXCEPT ![moved % Words] = Junk]
        /\ UNCHANGED lost
     \/ /\ rxf = <<>>
        /\ rx' = [rx EXCEPT ![moved % Words] = Junk] /\ lost' = TRUE
        /\ UNCHANGED <<rxf, faults>>
  /\ UNCHANGED <<ctlVars, txVars, txf, sm>>

-----------------------------------------------------------------------------
(* A session.                                                              *)

\* A new process initialises its state machine, which empties it.
pio_setup ==
  /\ stage = "off" /\ (pipe # <<<<>>, <<>>, <<>>>>)
  /\ txf' = <<>> /\ sm' = <<>> /\ rxf' = <<>>
  /\ UNCHANGED <<ctlVars, txVars, rxVars, lost>>

\* Mutant: DREQ stays disabled.
Start_noDreq ==
  /\ stage = "off" /\ session < MaxSessions
  /\ stage' = "running" /\ session' = session + 1
  /\ sent' = 0 /\ moved' = 0 /\ txLeft' = 0 /\ rxLeft' = 0 /\ faults' = 0
  /\ rx' = [i \in Pattern |-> Unwritten]
  /\ stale' = Len(txf) + Len(sm) + Len(rxf)
  /\ UNCHANGED <<dreq, pipe, lost>>

\* Fill the TX ring, clear the RX ring, enable DREQ, start both channels.
Start ==
  /\ stage = "off" /\ session < MaxSessions
  /\ stage' = "running" /\ dreq' = TRUE /\ session' = session + 1
  /\ sent' = 0 /\ moved' = 0 /\ txLeft' = 0 /\ rxLeft' = 0 /\ faults' = 0
  /\ rx' = [i \in Pattern |-> Unwritten]
  /\ stale' = Len(txf) + Len(sm) + Len(rxf)
  /\ UNCHANGED <<pipe, lost>>

StopDreq ==
  /\ stage = "running"
  /\ stage' = "dreqOff" /\ dreq' = FALSE
  /\ UNCHANGED <<session, stale, txVars, rxVars, pipe, lost>>

\* dma_diag_test terminates with DREQ enabled.
StopTx ==
  /\ stage \in {"running", "dreqOff"}
  /\ stage' = "txOff" /\ txLeft' = 0
  /\ UNCHANGED <<dreq, session, stale, sent, rxVars, pipe, lost>>

StopRx ==
  /\ stage = "txOff"
  /\ stage' = "rxOff" /\ rxLeft' = 0
  /\ UNCHANGED <<dreq, session, stale, txVars, moved, rx, faults, pipe, lost>>

\* Mutant: the FIFOs are cleared first, then the channels are terminated.
StopClear_early ==
  /\ stage \in {"txOff", "rxOff"}
  /\ stage' = IF stage = "rxOff" THEN "cleared" ELSE stage
  /\ txf' = <<>> /\ rxf' = <<>>
  /\ UNCHANGED <<dreq, session, stale, txVars, rxVars, sm, lost>>

\* Clears the FIFOs; what the state machine holds it delivers afterwards.
StopClear ==
  /\ stage = "rxOff"
  /\ stage' = "cleared"
  /\ txf' = <<>> /\ rxf' = <<>>
  /\ UNCHANGED <<dreq, session, stale, txVars, rxVars, sm, lost>>

\* The verifiers have looked at the ring.
StopReturn ==
  /\ stage = "cleared"
  /\ stage' = "off" /\ dreq' = FALSE
  /\ UNCHANGED <<session, stale, txVars, rxVars, pipe, lost>>

-----------------------------------------------------------------------------
(* The verifiers.  Each looks at every period on its own: the first word   *)
(* gives the phase, the others have to count on from there.                *)

Periods == 0 .. (Words \div Period) - 1

First(p)    == rx[p * Period]
Match(p, i) == rx[p * Period + i] = (First(p) + i) % Words

Empty == {p \in Periods : First(p) = Unwritten}
Bad   == {p \in Periods : First(p) \notin Pattern \cup {Unwritten}}
Clean == {p \in Periods \ (Empty \cup Bad) : \A i \in 0 .. Period - 1 : Match(p, i)}
Torn  == Periods \ (Empty \cup Bad \cup Clean)

\* Periods the callbacks counted, as STATUS reports them.
TxPeriods == sent \div Period
RxPeriods == moved \div Period

\* The driver: one readable period is enough to forget every error.  A torn
\* period has at least one matching word, so errors then stay below the total.
SramPass == TxPeriods > 0 /\ RxPeriods > 0 /\ (Clean # {} \/ Torn # {})

\* Mutant: the phase of the ring is expected to be zero.
DramPass_phaseless ==
  TxPeriods > 0 /\ \E p \in Periods : \A i \in 0 .. Period - 1 : rx[p * Period + i] = p * Period + i

\* The benchmark program.
DramPass == TxPeriods > 0 /\ (Clean # {} \/ (Torn # {} /\ Bad = {}))

\* Mutant: only the first word of each period is looked at.
DiagPass_firstOnly == TxPeriods > 0 /\ Clean \cup Torn = Periods

\* The self test.
DiagPass == TxPeriods > 0 /\ Clean = Periods

-----------------------------------------------------------------------------

Init ==
  /\ stage = "off" /\ dreq = FALSE /\ session = 0 /\ stale = 0
  /\ sent = 0 /\ txLeft = 0 /\ moved = 0 /\ rxLeft = 0 /\ faults = 0
  /\ rx = [i \in Pattern |-> Unwritten]
  /\ txf = <<>> /\ sm = <<>> /\ rxf = <<>> /\ lost = FALSE

Dma  == TxRequest \/ TxWord \/ RxRequest \/ RxWord
Pio  == Pull \/ Push
Stop == StopDreq \/ StopTx \/ StopRx \/ StopClear \/ StopReturn
Next == Dma \/ Pio \/ pio_setup \/ Start \/ Stop

\* Each channel and the state machine run on their own; nothing makes a
\* process stop its session.
Fairness ==
  /\ WF_vars(TxRequest \/ TxWord) /\ WF_vars(RxRequest \/ RxWord)
  /\ WF_vars(Pull) /\ WF_vars(Push)

Spec == Init /\ [][Next]_vars /\ Fairness

-----------------------------------------------------------------------------
(* Properties.                                                             *)

Word == Pattern \cup {Junk}

\* FIFOs within their depth, counters and ring within their ranges.
TypeOK ==
  /\ stage \in {"off", "running", "dreqOff", "txOff", "rxOff", "cleared"}
  /\ dreq \in BOOLEAN /\ lost \in BOOLEAN
  /\ session \in Nat /\ stale \in Nat /\ faults \in Nat
  /\ sent \in Nat /\ moved \in Nat /\ txLeft \in 0..Burst /\ rxLeft \in 0..Burst
  /\ txf \in Seq(Pattern) /\ Len(txf) <= Depth
  /\ sm \in Seq(Pattern) /\ Len(sm) <= Held
  /\ rxf \in Seq(Pattern) /\ Len(rxf) <= Depth
  /\ rx \in [Pattern -> Word \cup {Unwritten}]

\* With a threshold of at least a burst (0x80000108 with maxburst 8; comment at
\* RP1_PIO_DMACTRL_DEFAULT) no burst overruns or underruns a FIFO, also while
\* STOP terminates the channels and clears the FIFOs.
NoLoss == TxThreshold >= Burst /\ RxThreshold >= Burst => ~lost

\* The words of a session have positions: first those it found in the
\* pipeline, its own from position b on.  Queue q holds the words from position
\* k on; ring r holds the last ones up to position m; the three queues hold
\* what is under way between the rings when n words were sent.
Carry(q, k, b) == \A i \in 1 .. Len(q) : k + i > b => q[i] = (k + i - 1 - b) % Words
Kept(r, m, b)  == \A k \in b .. m - 1 : m <= k + Words => r[k % Words] = (k - b) % Words
Flow(q1, q2, q3, m, n, b) ==
  /\ m + Len(q1) + Len(q2) + Len(q3) = n + b
  /\ Carry(q1, m, b)
  /\ Carry(q2, m + Len(q1), b)
  /\ Carry(q3, m + Len(q1) + Len(q2), b)

Unspoilt == faults = 0 /\ ~lost

\* From START until STOP clears the FIFOs, the RX ring, the FIFOs and the state
\* machine hold consecutive words of the pattern up to the one read last, but
\* for those the previous session left: nothing is doubled or reordered, and
\* in the RX ring that stays so until the next START.
InOrder ==
  stage # "off" /\ Unspoilt =>
    /\ Kept(rx, moved, stale)
    /\ stage # "cleared" => Flow(rxf, sm, txf, moved, sent, stale)

\* A session without faults that went round the RX ring once satisfies all
\* three verifiers, wherever STOP hits it and whatever the last one left.
CleanSessionPasses ==
  stage = "cleared" /\ faults = 0 /\ moved >= Words + stale =>
    SramPass /\ DramPass /\ DiagPass

\* The self test checks each period on its own, yet a pass means that the
\* whole ring is in order once the words left over have been overwritten, also
\* from the word read last to the oldest one: both rings have the same length.
DiagSound ==
  stage = "cleared" /\ DiagPass /\ moved >= Words + stale =>
    \A i \in Pattern : rx[(i + 1) % Words] = (rx[i] + 1) % Words

\* A running session fills its ring: the thresholds do not block each other.
SessionFills == (stage = "running") ~> (moved >= Words \/ stage # "running")

=============================================================================
