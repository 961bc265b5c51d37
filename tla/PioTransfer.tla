----------------------------- MODULE PioTransfer -----------------------------
(***************************************************************************)
(* One transfer of the loopback benchmarks: two threads, each in a         *)
(* blocking pio_sm_xfer_data call, move a buffer of equal size into and    *)
(* out of a state machine that inverts words (pio_loopback.pio) or sends   *)
(* them bit by bit over a pin (gpio_loopback.pio).                         *)
(*                                                                         *)
(* A source word is the function of its bits, most significant first.  A   *)
(* DMA word of the GPIO program is one bit: only bit 31 of a word sent and *)
(* bit 0 of a word received matter.                                        *)
(***************************************************************************)
EXTENDS Naturals, Sequences

CONSTANTS
  Bits,       \* bits of a source word
  Words,      \* source words in a buffer
  Depth,      \* words a FIFO holds
  MaxFaults   \* disturbances in one run

ASSUME TransferAssumption ==
  Bits \in Nat \ {0} /\ Words \in Nat \ {0} /\ Depth \in Nat \ {0} /\ MaxFaults \in Nat

VARIABLES
  prog,    \* program in the state machine: "none", "not" or "pins"
  en,      \* the state machine runs
  cold,    \* gpio_loopback has not pulled a word since its last restart
  txf,     \* TX FIFO
  rxf,     \* RX FIFO
  src,     \* tx_buf, or src_buf of the GPIO benchmark
  rx,      \* rx_buf, or rx_dma
  thread,  \* per direction: "none", "unborn" if it could not be created,
           \* "kernel", or how its call returned: "ok", "error"
  moved,   \* per direction, words the call has moved
  fresh,   \* positions of rx this transfer has written
  faults,  \* disturbances so far
  clean    \* nothing has failed or been disturbed so far

pioVars == <<prog, en, cold, txf, rxf>>
bufVars == <<src, rx, fresh>>
xferVars == <<thread, moved>>
noteVars == <<faults, clean>>
transferVars == <<pioVars, bufVars, xferVars, noteVars>>

Dir   == {"tx", "rx"}
Index == 1..Words
Bit   == {0, 1}
Word  == [1..Bits -> Bit]
Zero  == [b \in 1..Bits |-> 0]
Not(w) == [b \in 1..Bits |-> 1 - w[b]]

\* RX_SKIP: the first word received is garbage.
RX_SKIP == 1

\* Words of one DMA transfer: RX_SKIP + 32 for each source word + 1 trailing.
DmaWords == IF prog = "pins" THEN RX_SKIP + Words * Bits + 1 ELSE Words

\* expand_tx, and zeros behind the payload; the other program sends tx_buf.
Sent(i) ==
  IF prog # "pins" THEN src[i]
  ELSE IF i <= Words * Bits THEN src[((i - 1) \div Bits) + 1][((i - 1) % Bits) + 1] ELSE 0

DmaWord == IF prog = "pins" THEN Bit ELSE Word

\* What one turn of the program makes of a word: mov y, ~x, or drive and sample.
Out(w) == IF prog = "pins" THEN w ELSE Not(w)

-----------------------------------------------------------------------------
(* The kernel side of pio_sm_xfer_data.                                    *)

InKernel(d) == thread[d] = "kernel"

CanFill  == InKernel("tx") /\ moved["tx"] < DmaWords /\ Len(txf) < Depth
CanTurn  == en /\ (cold \/ txf # <<>>) /\ Len(rxf) < Depth
CanDrain == InKernel("rx") /\ moved["rx"] < DmaWords /\ rxf # <<>>

\* The TX channel fills the TX FIFO.
FillTx ==
  /\ CanFill
  /\ txf' = Append(txf, Sent(moved["tx"] + 1))
  /\ moved' = [moved EXCEPT !["tx"] = @ + 1]
  /\ UNCHANGED <<prog, en, cold, rxf, bufVars, thread, noteVars>>

\* The RX channel empties the RX FIFO into the buffer.
DrainRx ==
  /\ CanDrain
  /\ rx' = [rx EXCEPT ![moved["rx"] + 1] = Head(rxf)]
  /\ fresh' = fresh \cup {moved["rx"] + 1}
  /\ rxf' = Tail(rxf)
  /\ moved' = [moved EXCEPT !["rx"] = @ + 1]
  /\ UNCHANGED <<prog, en, cold, txf, src, thread, noteVars>>

Complete(d) ==
  /\ InKernel(d) /\ moved[d] = DmaWords
  /\ thread' = [thread EXCEPT ![d] = "ok"]
  /\ UNCHANGED <<pioVars, bufVars, moved, noteVars>>

\* The call gives up: ETIMEDOUT, of a transfer that hangs, was slow, or is done
\* but noticed too late.  It is no disturbance when both threads are waited for
\* and no word can move.
Timeout(d, waiting) ==
  /\ InKernel(d)
  /\ thread' = [thread EXCEPT ![d] = "error"]
  /\ clean' = (clean /\ waiting /\ moved[d] < DmaWords
                     /\ ~CanFill /\ ~CanTurn /\ ~CanDrain)
  /\ UNCHANGED <<pioVars, bufVars, moved, faults>>

-----------------------------------------------------------------------------
(* The state machine.                                                      *)

\* After a restart the first bit of gpio_loopback comes from an OSR nothing
\* was pulled into.
Turn ==
  /\ CanTurn
  /\ IF cold THEN /\ \E garbage \in Bit : rxf' = Append(rxf, garbage)
                  /\ cold' = FALSE /\ UNCHANGED txf
             ELSE /\ rxf' = Append(rxf, Out(Head(txf)))
                  /\ txf' = Tail(txf) /\ UNCHANGED cold
  /\ UNCHANGED <<prog, en, bufVars, xferVars, noteVars>>

-----------------------------------------------------------------------------
(* What may go wrong while a DMA transfer runs.                            *)

Disturb ==
  /\ \E d \in Dir : InKernel(d)
  /\ faults < MaxFaults
  /\ faults' = faults + 1 /\ clean' = FALSE

\* A word is lost, comes twice, or comes out as another.
Lose ==
  /\ CanTurn /\ ~cold /\ Disturb
  /\ txf' = Tail(txf)
  /\ UNCHANGED <<prog, en, cold, rxf, bufVars, xferVars>>

Duplicate ==
  /\ CanTurn /\ ~cold /\ Disturb
  /\ rxf' = Append(rxf, Out(Head(txf)))
  /\ UNCHANGED <<prog, en, cold, txf, bufVars, xferVars>>

Spoil ==
  /\ CanTurn /\ ~cold /\ Disturb
  /\ \E w \in DmaWord : w # Out(Head(txf)) /\ rxf' = Append(rxf, w)
  /\ txf' = Tail(txf)
  /\ UNCHANGED <<prog, en, cold, bufVars, xferVars>>

\* A word is counted as moved and never reaches the buffer.
Miss ==
  /\ CanDrain /\ Disturb
  /\ rxf' = Tail(rxf)
  /\ moved' = [moved EXCEPT !["rx"] = @ + 1]
  /\ UNCHANGED <<prog, en, cold, txf, bufVars, thread>>

Fault == Lose \/ Duplicate \/ Spoil \/ Miss

=============================================================================
