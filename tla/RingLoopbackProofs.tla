------------------------- MODULE RingLoopbackProofs -------------------------
(***************************************************************************)
(* Proofs about RingLoopback, for every ring, FIFO, burst and number of    *)
(* sessions.  A burst is safe because DREQ promises it room (TX) or words  *)
(* (RX) and nothing but its own words takes that away: the state machine   *)
(* only makes room in the TX FIFO and only adds to the RX FIFO, and the    *)
(* one step that empties the RX FIFO of a session, the clear in STOP,      *)
(* comes after the RX channel was terminated.                              *)
(***************************************************************************)
EXTENDS RingLoopback, TLAPS

USE RingAssumption, FifoAssumption, BoundAssumption

\* An index into a ring is within the ring.
LEMMA InRing == \A n \in Nat : n % Words \in Pattern
  BY DEF Pattern

\* What queueing does to a FIFO.
LEMMA Queueing ==
  ASSUME NEW S, NEW q \in Seq(S), NEW e \in S
  PROVE  Append(q, e) \in Seq(S) /\ Len(Append(q, e)) = Len(q) + 1
  OBVIOUS

LEMMA Dequeueing ==
  ASSUME NEW S, NEW q \in Seq(S), q # <<>>
  PROVE  /\ Head(q) \in S /\ Tail(q) \in Seq(S)
         /\ Len(q) > 0 /\ Len(q) \in Nat /\ Len(Tail(q)) = Len(q) - 1
  OBVIOUS

LEMMA FifoLength == ASSUME NEW S, NEW q \in Seq(S) PROVE Len(q) \in Nat
  OBVIOUS

LEMMA EmptyFifo == ASSUME NEW S PROVE <<>> \in Seq(S) /\ Len(<<>>) = 0
  OBVIOUS

LEMMA InitType == Init => TypeOK
  BY EmptyFifo DEF Init, TypeOK, Word, Pattern, Unwritten

LEMMA StepType == TypeOK /\ [Next]_vars => TypeOK'
<1> SUFFICES ASSUME TypeOK, [Next]_vars PROVE TypeOK'
  OBVIOUS
<1> USE DEF TypeOK
<1>1. CASE TxRequest
  BY <1>1 DEF TxRequest, ctlVars, rxVars, pipe
<1>2. CASE TxWord
  <2>1. sent % Words \in Pattern
    BY InRing
  <2>2. CASE Len(txf) < Depth
    <3>1. txf' = Append(txf, sent % Words)
      BY <1>2, <2>2 DEF TxWord
    <3>2. txf' \in Seq(Pattern) /\ Len(txf') <= Depth
      BY <3>1, <2>1, <2>2, Queueing
    <3> QED BY <1>2, <2>2, <3>2 DEF TxWord, ctlVars, rxVars
  <2>3. CASE ~(Len(txf) < Depth)
    BY <1>2, <2>3 DEF TxWord, ctlVars, rxVars
  <2> QED BY <2>2, <2>3
<1>3. CASE RxRequest
  BY <1>3 DEF RxRequest, ctlVars, txVars, pipe
<1>4. CASE RxWord
  <2>1. moved % Words \in Pattern
    BY InRing
  <2>2. rx' \in [Pattern -> Word \cup {Unwritten}]
    <3>1. \A i \in Pattern, w \in Word \cup {Unwritten} :
            [rx EXCEPT ![i] = w] \in [Pattern -> Word \cup {Unwritten}]
      OBVIOUS
    <3>2. Junk \in Word \cup {Unwritten}
      BY DEF Word
    <3>3. rxf # <<>> => Head(rxf) \in Word \cup {Unwritten}
      BY Dequeueing DEF Word
    <3>4. \E w \in Word \cup {Unwritten} : rx' = [rx EXCEPT ![moved % Words] = w]
      BY <1>4, <3>2, <3>3 DEF RxWord
    <3> QED BY <2>1, <3>1, <3>4
  <2>3. rxf' \in Seq(Pattern) /\ Len(rxf') <= Depth
    <3>1. (rxf # <<>> /\ rxf' = Tail(rxf)) \/ rxf' = rxf
      BY <1>4, Zenon DEF RxWord
    <3>2. rxf # <<>> => Tail(rxf) \in Seq(Pattern) /\ Len(Tail(rxf)) <= Depth
      BY Dequeueing
    <3> QED BY <3>1, <3>2
  <2>4. faults' \in Nat /\ lost' \in BOOLEAN
    <3>1. (faults' = faults \/ faults' = faults + 1) /\ (lost' = lost \/ lost' = TRUE)
      BY <1>4, Zenon DEF RxWord
    <3>2. faults' \in Nat
      BY <3>1
    <3>3. lost' \in BOOLEAN
      BY <3>1, Zenon
    <3> QED BY <3>2, <3>3
  <2> QED BY <1>4, <2>2, <2>3, <2>4 DEF RxWord, ctlVars, txVars
<1>5. CASE Pull
  <2>1. txf' \in Seq(Pattern) /\ Len(txf') <= Depth
    BY <1>5, Dequeueing DEF Pull
  <2>2. sm' \in Seq(Pattern) /\ Len(sm') <= Held
    BY <1>5, Dequeueing, Queueing DEF Pull
  <2> QED BY <1>5, <2>1, <2>2 DEF Pull, ctlVars, txVars, rxVars
<1>6. CASE Push
  <2>1. sm' \in Seq(Pattern) /\ Len(sm') <= Held
    BY <1>6, Dequeueing DEF Push
  <2>2. rxf' \in Seq(Pattern) /\ Len(rxf') <= Depth
    BY <1>6, Dequeueing, Queueing DEF Push
  <2> QED BY <1>6, <2>1, <2>2 DEF Push, ctlVars, txVars, rxVars
<1>7. CASE pio_setup
  BY <1>7, EmptyFifo DEF pio_setup, ctlVars, txVars, rxVars
<1>8. CASE Start
  <2>1. rx' \in [Pattern -> Word \cup {Unwritten}]
    BY <1>8 DEF Start
  <2>2. stale' \in Nat
    BY <1>8 DEF Start
  <2> QED BY <1>8, <2>1, <2>2 DEF Start, pipe
<1>9. CASE StopDreq
  BY <1>9 DEF StopDreq, txVars, rxVars, pipe
<1>10. CASE StopTx
  BY <1>10 DEF StopTx, rxVars, pipe
<1>11. CASE StopRx
  BY <1>11 DEF StopRx, txVars, pipe
<1>12. CASE StopClear
  BY <1>12, EmptyFifo DEF StopClear, txVars, rxVars
<1>13. CASE StopReturn
  BY <1>13 DEF StopReturn, txVars, rxVars, pipe
<1>14. CASE UNCHANGED vars
  BY <1>14 DEF vars, ctlVars, txVars, rxVars, pipe
<1> QED
  BY <1>1, <1>2, <1>3, <1>4, <1>5, <1>6, <1>7, <1>8, <1>9, <1>10, <1>11,
     <1>12, <1>13, <1>14 DEF Next, Dma, Pio, Stop

\* The FIFOs stay within their depth and every ring entry is a word of the
\* pattern, the fill or junk, for every size of rings, FIFOs and bursts.
THEOREM RingTypeCorrect == Spec => []TypeOK
  BY InitType, StepType, PTL DEF Spec

-----------------------------------------------------------------------------

\* A terminated RX channel has no burst left.
RxStopped == stage \in {"off", "rxOff", "cleared"} => rxLeft = 0

LEMMA StepStopped == TypeOK /\ RxStopped /\ [Next]_vars => RxStopped'
<1> SUFFICES ASSUME TypeOK, RxStopped, [Next]_vars PROVE RxStopped'
  OBVIOUS
<1>1. CASE RxRequest \/ RxWord
  BY <1>1 DEF RxRequest, RxWord, RxStopped, TypeOK, ctlVars
<1>2. CASE Start \/ StopRx
  BY <1>2 DEF Start, StopRx, RxStopped
<1>3. CASE TxRequest \/ TxWord \/ Pull \/ Push \/ pio_setup
  BY <1>3 DEF TxRequest, TxWord, Pull, Push, pio_setup, RxStopped, ctlVars, rxVars
<1>4. CASE StopDreq \/ StopTx \/ StopClear \/ StopReturn
  BY <1>4 DEF StopDreq, StopTx, StopClear, StopReturn, RxStopped, rxVars
<1>5. CASE UNCHANGED vars
  BY <1>5 DEF vars, RxStopped, ctlVars, rxVars
<1> QED BY <1>1, <1>2, <1>3, <1>4, <1>5 DEF Next, Dma, Pio, Stop

\* The rest of a TX burst fits and the rest of an RX burst is there.
BurstInv ==
  /\ TypeOK
  /\ Len(txf) + txLeft <= Depth
  /\ rxLeft <= Len(rxf)
  /\ RxStopped
  /\ ~lost

Matched == TxThreshold >= Burst /\ RxThreshold >= Burst

LEMMA InitBurst == Init => BurstInv
  BY InitType, EmptyFifo DEF Init, BurstInv, RxStopped

LEMMA StepBurst == ASSUME Matched PROVE BurstInv /\ [Next]_vars => BurstInv'
<1> SUFFICES ASSUME BurstInv, [Next]_vars PROVE BurstInv'
  OBVIOUS
<1>0. TypeOK' /\ RxStopped'
  BY StepType, StepStopped DEF BurstInv
<1> USE <1>0 DEF BurstInv
<1>l. txLeft \in Nat /\ rxLeft \in Nat
  BY DEF TypeOK
<1>t. /\ txf \in Seq(Pattern) /\ sm \in Seq(Pattern) /\ rxf \in Seq(Pattern)
      /\ Len(txf) \in Nat /\ Len(sm) \in Nat /\ Len(rxf) \in Nat
      /\ txLeft \in Nat /\ rxLeft \in Nat
  BY <1>l, FifoLength DEF TypeOK
<1>1. CASE TxRequest
  BY <1>1, <1>t, Matched DEF TxRequest, ctlVars, rxVars, pipe, Matched
<1>2. CASE TxWord
  <2>1. Len(txf) < Depth
    BY <1>2, <1>t DEF TxWord
  <2>2. Len(txf') = Len(txf) + 1
    BY <1>2, <1>t, <2>1, InRing, Queueing DEF TxWord, TypeOK
  <2> QED BY <1>2, <1>t, <2>1, <2>2 DEF TxWord, ctlVars, rxVars
<1>3. CASE RxRequest
  BY <1>3, <1>t, Matched DEF RxRequest, ctlVars, txVars, pipe, Matched
<1>4. CASE RxWord
  <2>1. rxf # <<>>
    BY <1>4, <1>t, EmptyFifo DEF RxWord
  <2>2. Len(rxf') = Len(rxf) - 1
    BY <1>4, <1>t, <2>1, Dequeueing DEF RxWord
  <2> QED BY <1>4, <1>t, <2>1, <2>2 DEF RxWord, ctlVars, txVars
<1>5. CASE Pull
  <2>1. Len(txf') = Len(txf) - 1
    BY <1>5, <1>t, Dequeueing DEF Pull
  <2> QED BY <1>5, <1>t, <2>1 DEF Pull, ctlVars, txVars, rxVars
<1>6. CASE Push
  <2>1. Len(rxf') = Len(rxf) + 1
    BY <1>6, <1>t, Dequeueing, Queueing DEF Push
  <2> QED BY <1>6, <1>t, <2>1 DEF Push, ctlVars, txVars, rxVars
<1>7. CASE pio_setup
  BY <1>7, <1>t, EmptyFifo DEF pio_setup, RxStopped, ctlVars, txVars, rxVars
<1>8. CASE Start
  BY <1>8, <1>t DEF Start, pipe, TypeOK
<1>9. CASE StopDreq
  BY <1>9 DEF StopDreq, txVars, rxVars, pipe
<1>10. CASE StopTx
  BY <1>10, <1>t DEF StopTx, rxVars, pipe
<1>11. CASE StopRx
  BY <1>11, <1>t DEF StopRx, txVars, pipe
<1>12. CASE StopClear
  BY <1>12, <1>t, EmptyFifo DEF StopClear, RxStopped, txVars, rxVars
<1>13. CASE StopReturn
  BY <1>13 DEF StopReturn, txVars, rxVars, pipe
<1>14. CASE UNCHANGED vars
  BY <1>14 DEF vars, ctlVars, txVars, rxVars, pipe
<1> QED
  BY <1>1, <1>2, <1>3, <1>4, <1>5, <1>6, <1>7, <1>8, <1>9, <1>10, <1>11,
     <1>12, <1>13, <1>14 DEF Next, Dma, Pio, Stop

\* With thresholds of at least a burst no burst meets a full TX FIFO or an
\* empty RX FIFO, for every FIFO depth, burst and ring, wherever STOP hits.
THEOREM NoWordLost == Spec => []NoLoss
<1>1. CASE Matched
  <2>1. BurstInv => NoLoss
    BY DEF BurstInv, NoLoss
  <2>2. BurstInv /\ [Next]_vars => BurstInv'
    BY <1>1, StepBurst
  <2> QED BY <2>1, <2>2, InitBurst, PTL DEF Spec
<1>2. CASE ~Matched
  <2>1. NoLoss
    BY <1>2 DEF NoLoss, Matched
  <2> QED BY <2>1, PTL
<1> QED BY <1>1, <1>2

-----------------------------------------------------------------------------
(* The stream.  Every step moves one word from the front of a queue to the *)
(* end of the next one, or to the ring, and keeps its position.            *)

\* Less than a ring apart, two positions have different slots in the ring.
LEMMA SlotsDiffer ==
  ASSUME NEW a \in Nat, NEW b \in Nat, a < b, b < a + Words
  PROVE  a % Words # b % Words
<1>0. a \div Words \in Int /\ b \div Words \in Int
  OBVIOUS
<1>1. a = Words * (a \div Words) + (a % Words)
  OBVIOUS
<1>b. b = Words * (b \div Words) + (b % Words)
  OBVIOUS
<1>2. SUFFICES ASSUME a % Words = b % Words PROVE FALSE
  OBVIOUS
<1> DEFINE d == (b \div Words) - (a \div Words)
<1>3. d \in Int /\ b - a = Words * d
  BY <1>0, <1>1, <1>b, <1>2
<1> HIDE DEF d
<1>4. CASE d <= 0
  <2>1. Words * d <= 0
    BY <1>3, <1>4
  <2> QED BY <2>1, <1>3
<1>5. CASE d >= 1
  <2>1. Words * d >= Words
    BY <1>3, <1>5
  <2> QED BY <2>1, <1>3
<1> QED BY <1>3, <1>4, <1>5

\* Taking the front word of a queue: the rest starts one position later.
LEMMA CarryTail ==
  ASSUME NEW q \in Seq(Pattern), NEW k \in Nat, NEW b \in Nat,
         q # <<>>, Carry(q, k, b)
  PROVE  /\ k + 1 > b => Head(q) = (k - b) % Words
         /\ Carry(Tail(q), k + 1, b)
<1>1. Len(q) \in Nat /\ Len(q) > 0 /\ Len(Tail(q)) = Len(q) - 1 /\ Head(q) = q[1]
  BY Dequeueing
<1>2. k + 1 > b => Head(q) = (k - b) % Words
  <2>1. k + 1 > b => q[1] = (k + 1 - 1 - b) % Words
    BY <1>1 DEF Carry
  <2>2. k + 1 - 1 - b = k - b
    OBVIOUS
  <2> QED BY <1>1, <2>1, <2>2
<1>3. ASSUME NEW i \in 1 .. Len(Tail(q)), k + 1 + i > b
      PROVE  Tail(q)[i] = (k + 1 + i - 1 - b) % Words
  <2>1. i + 1 \in 1 .. Len(q) /\ Tail(q)[i] = q[i + 1]
    BY <1>1
  <2>2. k + (i + 1) > b => q[i + 1] = (k + (i + 1) - 1 - b) % Words
    BY <2>1 DEF Carry
  <2>3. k + (i + 1) - 1 - b = k + 1 + i - 1 - b /\ k + (i + 1) > b
    BY <1>1, <1>3
  <2> QED BY <2>1, <2>2, <2>3
<1> QED BY <1>2, <1>3 DEF Carry

\* Adding the word of the next position to a queue.
LEMMA CarryAppend ==
  ASSUME NEW q \in Seq(Pattern), NEW k \in Nat, NEW e \in Pattern, NEW b \in Nat,
         Carry(q, k, b), k + Len(q) + 1 > b => e = (k + Len(q) - b) % Words
  PROVE  Carry(Append(q, e), k, b)
<1>1. Len(q) \in Nat /\ Len(Append(q, e)) = Len(q) + 1
  BY Queueing, FifoLength
<1>2. ASSUME NEW i \in 1 .. Len(Append(q, e)), k + i > b
      PROVE  Append(q, e)[i] = (k + i - 1 - b) % Words
  <2>1. CASE i <= Len(q)
    <3>1. i \in 1 .. Len(q) /\ Append(q, e)[i] = q[i]
      BY <1>1, <2>1
    <3> QED BY <1>2, <3>1 DEF Carry
  <2>2. CASE i = Len(q) + 1
    <3>1. Append(q, e)[i] = e /\ k + i - 1 - b = k + Len(q) - b /\ k + Len(q) + 1 > b
      BY <1>1, <1>2, <2>2
    <3> QED BY <3>1
  <2> QED BY <1>1, <2>1, <2>2
<1> QED BY <1>2 DEF Carry

\* Storing the word of position m: the words less than a ring older stay.
LEMMA KeptStore ==
  ASSUME NEW r \in [Pattern -> Word \cup {Unwritten}], NEW m \in Nat, NEW b \in Nat,
         NEW w \in Pattern, Kept(r, m, b), m + 1 > b => w = (m - b) % Words
  PROVE  Kept([r EXCEPT ![m % Words] = w], m + 1, b)
<1> DEFINE s == [r EXCEPT ![m % Words] = w]
<1>1. m % Words \in Pattern
  BY InRing
<1>2. ASSUME NEW k \in b .. (m + 1) - 1, m + 1 <= k + Words
      PROVE  s[k % Words] = (k - b) % Words
  <2>1. k \in Nat /\ k % Words \in Pattern
    BY InRing
  <2>2. CASE k = m
    <3>1. s[m % Words] = w
      BY <1>1
    <3> QED BY <2>2, <3>1
  <2>3. CASE k < m
    <3>1. k % Words # m % Words
      BY <1>2, <2>1, <2>3, SlotsDiffer
    <3>2. s[k % Words] = r[k % Words]
      BY <1>1, <2>1, <3>1
    <3>3. k \in b .. m - 1 /\ m <= k + Words
      BY <1>2, <2>1, <2>3
    <3> QED BY <3>2, <3>3 DEF Kept
  <2> QED BY <1>2, <2>2, <2>3
<1> QED BY <1>2 DEF Kept

\* A word added to a queue of the stream is the next one sent.
LEMMA FlowSend ==
  ASSUME NEW q1 \in Seq(Pattern), NEW q2 \in Seq(Pattern), NEW q3 \in Seq(Pattern),
         NEW m \in Nat, NEW n \in Nat, NEW b \in Nat, Flow(q1, q2, q3, m, n, b)
  PROVE  Flow(q1, q2, Append(q3, n % Words), m, n + 1, b)
<1> DEFINE k == m + Len(q1) + Len(q2)
           w == n % Words
<1>1. Len(q1) \in Nat /\ Len(q2) \in Nat /\ Len(q3) \in Nat
  BY FifoLength
<1>2. w \in Pattern
  BY InRing
<1>3. k + Len(q3) = n + b /\ Carry(q1, m, b) /\ Carry(q2, m + Len(q1), b) /\ Carry(q3, k, b)
  BY Zenon DEF Flow
<1>4. k \in Nat
  BY <1>1
<1>5. SUFFICES Flow(q1, q2, Append(q3, w), m, n + 1, b)
  OBVIOUS
<1>6. n = k + Len(q3) - b => w = (k + Len(q3) - b) % Words
  OBVIOUS
<1> HIDE DEF k, w
<1>7. n = k + Len(q3) - b
  BY <1>1, <1>3, <1>4
<1>8. Carry(Append(q3, w), k, b)
  BY <1>2, <1>3, <1>4, <1>6, <1>7, CarryAppend
<1>9. k + Len(Append(q3, w)) = n + 1 + b
  <2>1. Len(Append(q3, w)) = Len(q3) + 1
    BY <1>2, Queueing
  <2> QED BY <1>1, <1>3, <1>4, <2>1
<1> QED BY <1>3, <1>8, <1>9, Zenon DEF Flow, k

\* The state machine takes a word of the TX FIFO.
LEMMA FlowPull ==
  ASSUME NEW q1 \in Seq(Pattern), NEW q2 \in Seq(Pattern), NEW q3 \in Seq(Pattern),
         NEW m \in Nat, NEW n \in Nat, NEW b \in Nat, Flow(q1, q2, q3, m, n, b),
         q3 # <<>>
  PROVE  Flow(q1, Append(q2, Head(q3)), Tail(q3), m, n, b)
<1>1. Len(q1) \in Nat /\ Len(q2) \in Nat /\ Len(q3) \in Nat
  BY FifoLength
<1>2. /\ m + Len(q1) \in Nat /\ m + Len(q1) + Len(q2) \in Nat
      /\ Carry(q2, m + Len(q1), b) /\ Carry(q3, m + Len(q1) + Len(q2), b)
  BY <1>1 DEF Flow
<1>4. /\ Head(q3) \in Pattern
      /\ m + Len(q1) + Len(q2) + 1 > b => Head(q3) = (m + Len(q1) + Len(q2) - b) % Words
      /\ Carry(Tail(q3), m + Len(q1) + Len(q2) + 1, b)
  BY <1>2, CarryTail, Dequeueing
<1>5. Carry(Append(q2, Head(q3)), m + Len(q1), b)
  BY <1>2, <1>4, CarryAppend
<1>6. Len(Append(q2, Head(q3))) = Len(q2) + 1 /\ Len(Tail(q3)) = Len(q3) - 1
  BY <1>4, Queueing, Dequeueing
<1>7. m + Len(q1) + (Len(q2) + 1) = m + Len(q1) + Len(q2) + 1
  BY <1>1
<1>a. m + Len(q1) + Len(q2) + Len(q3) = n + b
  BY DEF Flow
<1>8. m + Len(q1) + Len(Append(q2, Head(q3))) + Len(Tail(q3)) = n + b
  BY <1>1, <1>6, <1>a
<1>9. Carry(Tail(q3), m + Len(q1) + Len(Append(q2, Head(q3))), b)
  BY <1>4, <1>6, <1>7
<1>10. Carry(q1, m, b)
  BY DEF Flow
<1> QED BY <1>5, <1>8, <1>9, <1>10 DEF Flow

\* The state machine delivers a word to the RX FIFO.
LEMMA FlowPush ==
  ASSUME NEW q1 \in Seq(Pattern), NEW q2 \in Seq(Pattern), NEW q3 \in Seq(Pattern),
         NEW m \in Nat, NEW n \in Nat, NEW b \in Nat, Flow(q1, q2, q3, m, n, b),
         q2 # <<>>
  PROVE  Flow(Append(q1, Head(q2)), Tail(q2), q3, m, n, b)
<1>1. Len(q1) \in Nat /\ Len(q2) \in Nat /\ Len(q3) \in Nat
  BY FifoLength
<1>2. m + Len(q1) \in Nat /\ Carry(q1, m, b) /\ Carry(q2, m + Len(q1), b)
  BY <1>1 DEF Flow
<1>3. /\ Head(q2) \in Pattern
      /\ m + Len(q1) + 1 > b => Head(q2) = (m + Len(q1) - b) % Words
      /\ Carry(Tail(q2), m + Len(q1) + 1, b)
  BY <1>2, CarryTail, Dequeueing
<1>4. Carry(Append(q1, Head(q2)), m, b)
  BY <1>2, <1>3, CarryAppend
<1>5. Len(Append(q1, Head(q2))) = Len(q1) + 1 /\ Len(Tail(q2)) = Len(q2) - 1
  BY <1>3, Queueing, Dequeueing
<1>6. /\ m + (Len(q1) + 1) = m + Len(q1) + 1
      /\ m + (Len(q1) + 1) + (Len(q2) - 1) = m + Len(q1) + Len(q2)
  BY <1>1
<1> QED BY <1>1, <1>3, <1>4, <1>5, <1>6 DEF Flow

\* The RX channel takes a word of the RX FIFO.
LEMMA FlowReceive ==
  ASSUME NEW q1 \in Seq(Pattern), NEW q2 \in Seq(Pattern), NEW q3 \in Seq(Pattern),
         NEW m \in Nat, NEW n \in Nat, NEW b \in Nat, Flow(q1, q2, q3, m, n, b),
         q1 # <<>>
  PROVE  /\ Flow(Tail(q1), q2, q3, m + 1, n, b)
         /\ Head(q1) \in Pattern
         /\ m + 1 > b => Head(q1) = (m - b) % Words
<1>1. Len(q1) \in Nat /\ Len(q2) \in Nat /\ Len(q3) \in Nat /\ Len(Tail(q1)) = Len(q1) - 1
  BY FifoLength, Dequeueing
<1>2. Carry(q1, m, b)
  BY DEF Flow
<1>3. /\ m + 1 > b => Head(q1) = (m - b) % Words
      /\ Carry(Tail(q1), m + 1, b)
  BY <1>2, CarryTail
<1>4. m + 1 + (Len(q1) - 1) = m + Len(q1)
  BY <1>1
<1> QED BY <1>1, <1>3, <1>4, Dequeueing DEF Flow

\* A session starts with the words it found, none of them its own.
LEMMA FlowStart ==
  ASSUME NEW q1 \in Seq(Pattern), NEW q2 \in Seq(Pattern), NEW q3 \in Seq(Pattern)
  PROVE  Flow(q1, q2, q3, 0, 0, Len(q3) + Len(q2) + Len(q1))
<1>1. Len(q1) \in Nat /\ Len(q2) \in Nat /\ Len(q3) \in Nat
  BY FifoLength
<1> QED BY <1>1 DEF Flow, Carry

Ordered   == stage # "off" /\ Unspoilt
StreamInv == TypeOK /\ RxStopped /\ InOrder

LEMMA InitStream == Init => InOrder
  BY DEF Init, InOrder

\* A spoilt session stays so.
LEMMA StepSpoilt ==
  TypeOK /\ [Next]_vars /\ Unspoilt' => Unspoilt \/ Start
<1> SUFFICES ASSUME TypeOK, [Next]_vars, Unspoilt', ~Start PROVE Unspoilt
  OBVIOUS
<1>1. CASE RxWord
  <2>1. faults \in Nat
    BY DEF TypeOK
  <2>2. ~(faults' = faults + 1) /\ ~(lost' = TRUE)
    BY <2>1 DEF Unspoilt
  <2>3. UNCHANGED <<faults, lost>>
    BY <1>1, <2>2, Zenon DEF RxWord
  <2> QED BY <2>3 DEF Unspoilt
<1>2. CASE TxWord
  <2>1. UNCHANGED <<faults, lost>>
    BY <1>2 DEF TxWord, rxVars, Unspoilt
  <2> QED BY <2>1 DEF Unspoilt
<1>3. CASE ~RxWord /\ ~TxWord
  <2>1. UNCHANGED <<faults, lost>>
    BY <1>3 DEF Next, Dma, Pio, Stop, TxRequest, RxRequest, Pull, Push, pio_setup,
       StopDreq, StopTx, StopRx, StopClear, StopReturn, vars, rxVars
  <2> QED BY <2>1 DEF Unspoilt
<1> QED BY <1>1, <1>2, <1>3

LEMMA StepStream == StreamInv /\ [Next]_vars => InOrder'
<1> SUFFICES ASSUME StreamInv, [Next]_vars, Ordered'
             PROVE  /\ Kept(rx', moved', stale')
                    /\ stage' # "cleared" => Flow(rxf', sm', txf', moved', sent', stale')
  BY DEF InOrder, Ordered
<1>t. /\ txf \in Seq(Pattern) /\ sm \in Seq(Pattern) /\ rxf \in Seq(Pattern)
      /\ stale \in Nat /\ moved \in Nat /\ sent \in Nat
      /\ rx \in [Pattern -> Word \cup {Unwritten}]
  BY DEF StreamInv, TypeOK
<1>u. Unspoilt \/ Start
  BY StepSpoilt DEF Ordered, StreamInv
<1>i. stage # "off" /\ ~Start =>
        /\ Kept(rx, moved, stale)
        /\ stage # "cleared" => Flow(rxf, sm, txf, moved, sent, stale)
  BY <1>u DEF StreamInv, InOrder
<1>1. CASE TxRequest
  BY <1>1, <1>i DEF TxRequest, Start, Ordered, ctlVars, rxVars, pipe
<1>2. CASE TxWord
  <2>1. Len(txf) < Depth
    BY <1>2 DEF TxWord, Ordered, Unspoilt
  <2>2. txf' = Append(txf, sent % Words) /\ sent' = sent + 1
    BY <1>2, <2>1 DEF TxWord
  <2>3. UNCHANGED <<stage, stale, moved, rx, sm, rxf, session>>
    BY <1>2 DEF TxWord, ctlVars, rxVars
  <2>4. ~Start
    BY <1>t, <2>2 DEF Start
  <2> QED BY <1>t, <1>i, <2>2, <2>3, <2>4, FlowSend DEF Ordered
<1>3. CASE RxRequest
  BY <1>3, <1>i DEF RxRequest, Start, Ordered, ctlVars, txVars, pipe
<1>4. CASE RxWord
  <2>1. faults \in Nat
    BY DEF StreamInv, TypeOK
  <2>2. ~(faults' = faults + 1) /\ ~(lost' = TRUE)
    BY <1>u, <2>1, <1>4 DEF Ordered, Unspoilt, RxWord, Start, ctlVars
  <2>3. /\ rxf # <<>> /\ rxf' = Tail(rxf) /\ moved' = moved + 1
        /\ rx' = [rx EXCEPT ![moved % Words] = Head(rxf)]
    BY <1>4, <2>2, Zenon DEF RxWord
  <2>4. UNCHANGED <<stage, stale, sent, sm, txf, session>>
    BY <1>4 DEF RxWord, ctlVars, txVars
  <2>5. ~Start
    BY <1>t, <2>4 DEF Start, Ordered
  <2>6. Kept(rx, moved, stale)
    BY <1>i, <2>4, <2>5 DEF Ordered
  <2>7. CASE stage # "cleared"
    <3>1. Flow(rxf, sm, txf, moved, sent, stale)
      BY <1>i, <2>4, <2>5, <2>7 DEF Ordered
    <3>2. /\ Flow(Tail(rxf), sm, txf, moved + 1, sent, stale)
          /\ Head(rxf) \in Pattern
          /\ moved + 1 > stale => Head(rxf) = (moved - stale) % Words
      BY <1>t, <2>3, <3>1, FlowReceive
    <3>3. Kept(rx', moved', stale)
      BY <1>t, <2>3, <2>6, <3>2, KeptStore
    <3> QED BY <2>3, <2>4, <3>2, <3>3
  <2>8. CASE stage = "cleared"
    BY <1>4, <2>8 DEF StreamInv, RxStopped, RxWord
  <2> QED BY <2>7, <2>8
<1>5. CASE Pull
  <2>1. UNCHANGED <<stage, stale, sent, moved, rx, rxf>>
    BY <1>5 DEF Pull, ctlVars, txVars, rxVars
  <2>2. txf # <<>> /\ sm' = Append(sm, Head(txf)) /\ txf' = Tail(txf)
    BY <1>5 DEF Pull
  <2>3. ~Start
    BY <2>1 DEF Start, Ordered
  <2> QED BY <1>t, <1>i, <2>1, <2>2, <2>3, FlowPull DEF Ordered
<1>6. CASE Push
  <2>1. UNCHANGED <<stage, stale, sent, moved, rx, txf>>
    BY <1>6 DEF Push, ctlVars, txVars, rxVars
  <2>2. sm # <<>> /\ rxf' = Append(rxf, Head(sm)) /\ sm' = Tail(sm)
    BY <1>6 DEF Push
  <2>3. ~Start
    BY <2>1 DEF Start, Ordered
  <2> QED BY <1>t, <1>i, <2>1, <2>2, <2>3, FlowPush DEF Ordered
<1>7. CASE pio_setup
  BY <1>7 DEF pio_setup, Ordered, ctlVars
<1>8. CASE Start
  <2>1. /\ moved' = 0 /\ sent' = 0 /\ stale' = Len(txf) + Len(sm) + Len(rxf)
        /\ txf' = txf /\ sm' = sm /\ rxf' = rxf
    BY <1>8 DEF Start, pipe
  <2>2. Kept(rx', 0, stale')
    <3>1. stale' \in Nat
      BY <1>t, <2>1, FifoLength
    <3> QED BY <3>1 DEF Kept
  <2> QED BY <1>t, <2>1, <2>2, FlowStart
<1>9. CASE StopDreq
  BY <1>9, <1>i DEF StopDreq, Start, txVars, rxVars, pipe
<1>10. CASE StopTx
  BY <1>10, <1>i DEF StopTx, Start, rxVars, pipe
<1>11. CASE StopRx
  BY <1>11, <1>i DEF StopRx, Start, txVars, pipe
<1>12. CASE StopClear
  BY <1>12, <1>i DEF StopClear, Start, txVars, rxVars
<1>13. CASE StopReturn
  BY <1>13 DEF StopReturn, Ordered
<1>14. CASE UNCHANGED vars
  BY <1>14, <1>i DEF vars, Start, Ordered, ctlVars, txVars, rxVars, pipe
<1> QED
  BY <1>1, <1>2, <1>3, <1>4, <1>5, <1>6, <1>7, <1>8, <1>9, <1>10, <1>11,
     <1>12, <1>13, <1>14 DEF Next, Dma, Pio, Stop

\* For every ring, FIFO, burst and threshold, a session that lost and spoilt
\* nothing carries its words in order, whatever an earlier session left and
\* wherever STOP hits it.
THEOREM StreamInOrder == Spec => []InOrder
<1>1. Init => StreamInv
  BY InitType, InitStream DEF StreamInv, RxStopped, Init
<1>2. StreamInv /\ [Next]_vars => StreamInv'
  BY StepType, StepStopped, StepStream DEF StreamInv
<1>3. StreamInv => InOrder
  BY DEF StreamInv
<1> QED BY <1>1, <1>2, <1>3, PTL DEF Spec

-----------------------------------------------------------------------------
(* What the verifiers see.  A ring that went round once holds one word of  *)
(* the session in every slot, and since both rings have the same length    *)
(* the word of slot i is i turned by the number of words left over.        *)

\* The remainder is the only word congruent to a number.
LEMMA Remainder ==
  ASSUME NEW x \in Int, NEW q \in Int, NEW w \in Pattern, x = Words * q + w
  PROVE  x % Words = w
<1>1. x \div Words \in Int /\ x % Words \in Pattern /\ x = Words * (x \div Words) + (x % Words)
  BY DEF Pattern
<1> DEFINE d == (x \div Words) - q
           v == x % Words
<1>2. d \in Int /\ w - v = Words * d
  BY <1>1 DEF Pattern
<1>3. v \in Pattern
  BY <1>1
<1> HIDE DEF d, v
<1>4. CASE d >= 1
  <2>1. Words * d >= Words
    BY <1>2, <1>4
  <2> QED BY <2>1, <1>2, <1>3 DEF Pattern
<1>5. CASE d <= -1
  <2>1. Words * d <= -Words
    BY <1>2, <1>5
  <2> QED BY <2>1, <1>2, <1>3 DEF Pattern
<1>6. CASE d = 0
  <2>1. w - v = 0
    BY <1>2, <1>6
  <2> QED BY <2>1, <1>3 DEF Pattern, v
<1> QED BY <1>2, <1>4, <1>5, <1>6

\* Full turns of the ring do not matter.
LEMMA Turn ==
  ASSUME NEW x \in Int, NEW q \in Int
  PROVE  (x + Words * q) % Words = x % Words
<1> DEFINE d == x \div Words
           v == x % Words
<1>1. d \in Int /\ v \in Pattern /\ x = Words * d + v
  BY DEF Pattern
<1> HIDE DEF d, v
<1>2. x + Words * q = Words * (d + q) + v
  <2> DEFINE e == Words * d
             f == Words * q
             g == Words * (d + q)
  <2>1. g = e + f /\ e \in Int /\ f \in Int /\ x = e + v /\ v \in Int
    BY <1>1 DEF Pattern
  <2>2. SUFFICES x + f = g + v
    OBVIOUS
  <2> HIDE DEF e, f, g
  <2> QED BY <2>1
<1>3. x + Words * q \in Int /\ d + q \in Int
  BY <1>1
<1>4. (x + Words * q) % Words = v
  BY <1>1, <1>2, <1>3, Remainder
<1> QED BY <1>4 DEF v

\* Counting on from a word is counting on from the number it stands for.
LEMMA CountOn ==
  ASSUME NEW x \in Int, NEW j \in Int
  PROVE  ((x % Words) + j) % Words = (x + j) % Words
<1> DEFINE d == x \div Words
           v == x % Words
<1>1. d \in Int /\ v \in Int /\ x = Words * d + v
  OBVIOUS
<1>2. SUFFICES (v + j) % Words = (x + j) % Words
  OBVIOUS
<1> HIDE DEF d, v
<1>3. x + j = (v + j) + Words * d /\ v + j \in Int
  BY <1>1
<1>4. ((v + j) + Words * d) % Words = (v + j) % Words
  BY <1>1, <1>3, Turn, Zenon
<1> QED BY <1>3, <1>4, Zenon

\* The position that slot i of the ring holds among the last Words before m.
LEMMA HeldPosition ==
  ASSUME NEW m \in Int, NEW i \in Pattern
  PROVE  \E k \in m - Words .. m - 1 : k % Words = i /\ \E q \in Int : k = i + Words * q
<1> DEFINE d == (m - 1 - i) \div Words
           v == (m - 1 - i) % Words
<1>1. d \in Int /\ v \in Pattern /\ m - 1 - i = Words * d + v /\ i \in Int
  BY DEF Pattern
<1> HIDE DEF d, v
<1>2. m - 1 - v \in m - Words .. m - 1 /\ m - 1 - v = Words * d + i
  BY <1>1 DEF Pattern
<1>3. (m - 1 - v) % Words = i
  BY <1>1, <1>2, Remainder
<1>4. m - 1 - v = i + Words * d
  BY <1>1
<1> QED BY <1>1, <1>2, <1>3, <1>4

\* Like Kept, of a session in which single words were spoilt on the way.
Legible(r, m, b) ==
  \A k \in b .. m - 1 : m <= k + Words => r[k % Words] \in {(k - b) % Words, Junk}

\* A ring that went round once: every slot holds its word.
LEMMA RoundLegible ==
  ASSUME NEW r, NEW m \in Nat, NEW b \in Nat, Legible(r, m, b), m >= Words + b
  PROVE  \A i \in Pattern : r[i] \in {(i - b) % Words, Junk}
<1> SUFFICES ASSUME NEW i \in Pattern PROVE r[i] \in {(i - b) % Words, Junk}
  OBVIOUS
<1>0. m \in Int
  OBVIOUS
<1>1. PICK k \in m - Words .. m - 1 : k % Words = i /\ \E q \in Int : k = i + Words * q
  BY <1>0, HeldPosition, Zenon
<1>2. PICK q \in Int : k = i + Words * q
  BY <1>1
<1>3. k \in b .. m - 1 /\ m <= k + Words
  BY <1>1
<1>4. r[i] \in {(k - b) % Words, Junk}
  BY <1>1, <1>3 DEF Legible
<1>5. i - b \in Int /\ k - b = (i - b) + Words * q
  BY <1>2 DEF Pattern
<1>6. (k - b) % Words = (i - b) % Words
  BY <1>5, Turn
<1> QED BY <1>4, <1>6

LEMMA RoundKept ==
  ASSUME NEW r, NEW m \in Nat, NEW b \in Nat, Kept(r, m, b), m >= Words + b
  PROVE  \A i \in Pattern : r[i] = (i - b) % Words
<1> SUFFICES ASSUME NEW i \in Pattern PROVE r[i] = (i - b) % Words
  OBVIOUS
<1>0. m \in Int
  OBVIOUS
<1>1. PICK k \in m - Words .. m - 1 : k % Words = i /\ \E q \in Int : k = i + Words * q
  BY <1>0, HeldPosition, Zenon
<1>2. PICK q \in Int : k = i + Words * q
  BY <1>1
<1>3. k \in b .. m - 1 /\ m <= k + Words
  BY <1>1
<1>4. r[i] = (k - b) % Words
  BY <1>1, <1>3 DEF Kept
<1>5. i - b \in Int /\ k - b = (i - b) + Words * q
  BY <1>2 DEF Pattern
<1>6. (k - b) % Words = (i - b) % Words
  BY <1>5, Turn
<1> QED BY <1>4, <1>6

\* Storing the word of position m, or a spoilt one.
LEMMA LegibleStore ==
  ASSUME NEW r \in [Pattern -> Word \cup {Unwritten}], NEW m \in Nat, NEW b \in Nat,
         NEW w, Legible(r, m, b), m + 1 > b => w \in {(m - b) % Words, Junk}
  PROVE  Legible([r EXCEPT ![m % Words] = w], m + 1, b)
<1> DEFINE s == [r EXCEPT ![m % Words] = w]
<1>1. m % Words \in Pattern
  BY InRing
<1>2. ASSUME NEW k \in b .. (m + 1) - 1, m + 1 <= k + Words
      PROVE  s[k % Words] \in {(k - b) % Words, Junk}
  <2>1. k \in Nat /\ k % Words \in Pattern
    BY InRing
  <2>2. CASE k = m
    <3>1. s[m % Words] = w
      BY <1>1
    <3> QED BY <2>2, <3>1
  <2>3. CASE k < m
    <3>1. k % Words # m % Words
      BY <1>2, <2>1, <2>3, SlotsDiffer
    <3>2. s[k % Words] = r[k % Words]
      BY <1>1, <2>1, <3>1
    <3>3. k \in b .. m - 1 /\ m <= k + Words
      BY <1>2, <2>1, <2>3
    <3> QED BY <3>2, <3>3 DEF Legible
  <2> QED BY <1>2, <2>2, <2>3
<1> QED BY <1>2 DEF Legible

\* A slot is a word of one period.
LEMMA SlotOfPeriod ==
  /\ \A p \in Periods, i \in 0 .. Period - 1 : p * Period + i \in Pattern
  /\ \A n \in Pattern : \E p \in Periods, i \in 0 .. Period - 1 : n = p * Period + i
  /\ 0 \in Periods
<1> DEFINE c == Words \div Period
<1>1. c \in Int /\ Words = Period * c /\ Period \in Int /\ Period > 0
  OBVIOUS
<1>p. Periods = 0 .. c - 1
  BY DEF Periods
<1> HIDE DEF c
<1>2. c >= 1
  <2>1. CASE c <= 0
    <3>1. Period * c <= 0
      BY <1>1, <2>1
    <3> QED BY <3>1, <1>1
  <2> QED BY <1>1, <2>1
<1>3. ASSUME NEW p \in Periods, NEW i \in 0 .. Period - 1
      PROVE  p * Period + i \in Pattern
  <2>1. p \in Int /\ p >= 0 /\ p + 1 <= c
    BY <1>p, <1>1
  <2>2. p * Period >= 0
    BY <1>1, <2>1
  <2>3. (p + 1) * Period <= c * Period
    BY <1>1, <2>1
  <2>4. (p + 1) * Period = p * Period + Period /\ c * Period = Words /\ p * Period \in Int
    BY <1>1, <2>1
  <2> QED BY <1>1, <2>2, <2>3, <2>4 DEF Pattern
<1>4. ASSUME NEW n \in Pattern
      PROVE  \E p \in Periods, i \in 0 .. Period - 1 : n = p * Period + i
  <2> DEFINE p == n \div Period
             i == n % Period
  <2>1. /\ n \in Int /\ n >= 0 /\ n < Words
        /\ p \in Int /\ i \in 0 .. Period - 1 /\ n = Period * p + i
    BY <1>1 DEF Pattern
  <2> HIDE DEF p, i
  <2>2. p < c
    <3>1. CASE p >= c
      <4>1. Period * p >= Period * c
        BY <1>1, <2>1, <3>1
      <4> QED BY <1>1, <2>1, <4>1
    <3> QED BY <1>1, <2>1, <3>1
  <2>3. p >= 0
    <3>1. CASE p <= -1
      <4>1. Period * p <= -Period
        BY <1>1, <2>1, <3>1
      <4> QED BY <1>1, <2>1, <4>1
    <3> QED BY <2>1, <3>1
  <2>4. p \in Periods /\ n = p * Period + i
    BY <1>1, <1>p, <2>1, <2>2, <2>3
  <2> QED BY <2>1, <2>4
<1> QED BY <1>1, <1>2, <1>3, <1>4, <1>p

\* A ring turned as a whole satisfies the check of every period.
LEMMA TurnedRing ==
  ASSUME NEW b \in Nat, \A i \in Pattern : rx[i] = (i - b) % Words
  PROVE  Clean = Periods /\ Torn = {}
<1>1. ASSUME NEW p \in Periods
      PROVE  p \in Clean
  <2>1. 0 \in 0 .. Period - 1 /\ p * Period + 0 \in Pattern /\ p * Period + 0 = p * Period
    <3>1. p \in Int
      BY DEF Periods
    <3>2. p * Period \in Int
      BY <3>1
    <3> QED BY <3>2, SlotOfPeriod
  <2>2. p * Period \in Pattern
    BY <2>1
  <2>3. First(p) = (p * Period - b) % Words
    BY <2>2 DEF First
  <2>4. p * Period - b \in Int
    BY <2>2 DEF Pattern
  <2>5. First(p) \in Pattern
    BY <2>3, <2>4 DEF Pattern
  <2>6. p \notin Empty \cup Bad
    BY <2>5 DEF Empty, Bad, Pattern, Unwritten
  <2>7. ASSUME NEW i \in 0 .. Period - 1
        PROVE  Match(p, i)
    <3> DEFINE n == p * Period + i
    <3>1. n \in Pattern /\ i \in Int
      BY SlotOfPeriod
    <3>2. n - b = (p * Period - b) + i
      BY <2>2 DEF Pattern
    <3>3. (((p * Period - b) % Words) + i) % Words = ((p * Period - b) + i) % Words
      BY <2>4, <3>1, CountOn, Zenon
    <3>4. Match(p, i) <=> rx[n] = (First(p) + i) % Words
      BY DEF Match
    <3> HIDE DEF n
    <3>5. rx[n] = (n - b) % Words
      BY <3>1
    <3> QED BY <2>3, <3>2, <3>3, <3>4, <3>5
  <2> QED BY <2>6, <2>7 DEF Clean
<1> QED BY <1>1 DEF Clean, Torn

\* A ring in which every period is clean holds no junk.
LEMMA CleanIsLegible ==
  ASSUME Clean = Periods
  PROVE  \A n \in Pattern : rx[n] \in Pattern
<1> SUFFICES ASSUME NEW n \in Pattern PROVE rx[n] \in Pattern
  OBVIOUS
<1>1. PICK p \in Periods, i \in 0 .. Period - 1 : n = p * Period + i
  BY SlotOfPeriod
<1>2. Match(p, i) /\ First(p) \in Pattern \cup {Unwritten} /\ First(p) # Unwritten
  BY <1>1 DEF Clean, Empty, Bad
<1>3. rx[n] = (First(p) + i) % Words /\ First(p) \in Pattern
  BY <1>1, <1>2 DEF Match
<1>4. First(p) + i \in Int
  BY <1>3 DEF Pattern
<1> QED BY <1>3, <1>4 DEF Pattern

-----------------------------------------------------------------------------
(* The stream of a session with spoilt words.  A fault replaces a word on  *)
(* its way into the ring and moves none, so only the ring is affected.     *)

Relayed ==
  stage # "off" =>
    /\ Legible(rx, moved, stale)
    /\ moved <= sent + stale
    /\ stage # "cleared" => Flow(rxf, sm, txf, moved, sent, stale)

RelayInv == BurstInv /\ Relayed

\* What was read from the RX FIFO was sent, or was there before.
LEMMA FlowCount ==
  ASSUME NEW q1 \in Seq(Pattern), NEW q2 \in Seq(Pattern), NEW q3 \in Seq(Pattern),
         NEW m \in Nat, NEW n \in Nat, NEW b \in Nat, Flow(q1, q2, q3, m, n, b)
  PROVE  m <= n + b
<1>1. Len(q1) \in Nat /\ Len(q2) \in Nat /\ Len(q3) \in Nat
  BY FifoLength
<1>2. m + Len(q1) + Len(q2) + Len(q3) = n + b
  BY Zenon DEF Flow
<1> QED BY <1>1, <1>2

LEMMA StepRelayed == ASSUME Matched PROVE RelayInv /\ [Next]_vars => Relayed'
<1> SUFFICES ASSUME RelayInv, [Next]_vars, stage' # "off"
             PROVE  /\ Legible(rx', moved', stale')
                    /\ moved' <= sent' + stale'
                    /\ stage' # "cleared" => Flow(rxf', sm', txf', moved', sent', stale')
  BY DEF Relayed
<1>b. BurstInv'
  BY StepBurst DEF RelayInv
<1>t. /\ txf \in Seq(Pattern) /\ sm \in Seq(Pattern) /\ rxf \in Seq(Pattern)
      /\ stale \in Nat /\ moved \in Nat /\ sent \in Nat
      /\ rx \in [Pattern -> Word \cup {Unwritten}]
      /\ session \in Nat
  BY DEF RelayInv, BurstInv, TypeOK
<1>i. stage # "off" =>
        /\ Legible(rx, moved, stale)
        /\ moved <= sent + stale
        /\ stage # "cleared" => Flow(rxf, sm, txf, moved, sent, stale)
  BY DEF RelayInv, Relayed
<1>1. CASE TxRequest
  BY <1>1, <1>i DEF TxRequest, ctlVars, rxVars, pipe
<1>2. CASE TxWord
  <2>1. Len(txf) < Depth
    BY <1>2, <1>b DEF TxWord, BurstInv
  <2>2. txf' = Append(txf, sent % Words) /\ sent' = sent + 1
    BY <1>2, <2>1 DEF TxWord
  <2>3. UNCHANGED <<stage, stale, moved, rx, sm, rxf>>
    BY <1>2 DEF TxWord, ctlVars, rxVars
  <2>4. moved' <= sent' + stale'
    BY <1>t, <1>i, <2>2, <2>3
  <2> QED BY <1>t, <1>i, <2>2, <2>3, <2>4, FlowSend
<1>3. CASE RxRequest
  BY <1>3, <1>i DEF RxRequest, ctlVars, txVars, pipe
<1>4. CASE RxWord
  <2>1. /\ rxf # <<>> /\ rxf' = Tail(rxf) /\ moved' = moved + 1
        /\ \/ rx' = [rx EXCEPT ![moved % Words] = Head(rxf)]
           \/ rx' = [rx EXCEPT ![moved % Words] = Junk]
    <3>1. ~(lost' = TRUE)
      BY <1>b DEF BurstInv
    <3> QED BY <1>4, <3>1, Zenon DEF RxWord
  <2>2. UNCHANGED <<stage, stale, sent, sm, txf>>
    BY <1>4 DEF RxWord, ctlVars, txVars
  <2>3. stage # "cleared" /\ stage # "off"
    BY <1>4, <1>t, <2>2 DEF RelayInv, BurstInv, RxStopped, RxWord
  <2>4. Legible(rx, moved, stale) /\ Flow(rxf, sm, txf, moved, sent, stale)
    BY <1>i, <2>3
  <2>5. /\ Flow(Tail(rxf), sm, txf, moved + 1, sent, stale)
        /\ moved + 1 > stale => Head(rxf) = (moved - stale) % Words
    BY <1>t, <2>1, <2>4, FlowReceive
  <2>6. PICK w : /\ rx' = [rx EXCEPT ![moved % Words] = w]
                 /\ moved + 1 > stale => w \in {(moved - stale) % Words, Junk}
    BY <2>1, <2>5
  <2>7. Legible(rx', moved + 1, stale)
    BY <1>t, <2>4, <2>6, LegibleStore
  <2>8. Tail(rxf) \in Seq(Pattern)
    BY <1>t, <2>1, Dequeueing
  <2>9. moved + 1 <= sent + stale
    <3>1. moved + 1 \in Nat
      BY <1>t
    <3> QED BY <1>t, <2>5, <2>8, <3>1, FlowCount
  <2> QED BY <2>1, <2>2, <2>5, <2>7, <2>9
<1>5. CASE Pull
  <2>1. UNCHANGED <<stage, stale, sent, moved, rx, rxf>>
    BY <1>5 DEF Pull, ctlVars, txVars, rxVars
  <2>2. txf # <<>> /\ sm' = Append(sm, Head(txf)) /\ txf' = Tail(txf)
    BY <1>5 DEF Pull
  <2> QED BY <1>t, <1>i, <2>1, <2>2, FlowPull
<1>6. CASE Push
  <2>1. UNCHANGED <<stage, stale, sent, moved, rx, txf>>
    BY <1>6 DEF Push, ctlVars, txVars, rxVars
  <2>2. sm # <<>> /\ rxf' = Append(rxf, Head(sm)) /\ sm' = Tail(sm)
    BY <1>6 DEF Push
  <2> QED BY <1>t, <1>i, <2>1, <2>2, FlowPush
<1>7. CASE pio_setup
  BY <1>7 DEF pio_setup, ctlVars
<1>8. CASE Start
  <2>1. /\ moved' = 0 /\ sent' = 0 /\ stale' = Len(txf) + Len(sm) + Len(rxf)
        /\ txf' = txf /\ sm' = sm /\ rxf' = rxf
    BY <1>8 DEF Start, pipe
  <2>2. stale' \in Nat
    BY <1>t, <2>1, FifoLength
  <2>3. Legible(rx', 0, stale')
    BY <2>2 DEF Legible
  <2>4. 0 <= 0 + stale'
    <3>1. \A n \in Nat : 0 <= 0 + n
      OBVIOUS
    <3> QED BY <2>2, <3>1, Zenon
  <2>5. Flow(rxf, sm, txf, 0, 0, stale')
    BY <1>t, <2>1, FlowStart
  <2> QED BY <2>1, <2>3, <2>4, <2>5
<1>9. CASE StopDreq
  BY <1>9, <1>i DEF StopDreq, txVars, rxVars, pipe
<1>10. CASE StopTx
  BY <1>10, <1>i DEF StopTx, rxVars, pipe
<1>11. CASE StopRx
  BY <1>11, <1>i DEF StopRx, txVars, pipe
<1>12. CASE StopClear
  BY <1>12, <1>i DEF StopClear, txVars, rxVars
<1>13. CASE StopReturn
  BY <1>13 DEF StopReturn
<1>14. CASE UNCHANGED vars
  BY <1>14, <1>i DEF vars, ctlVars, txVars, rxVars, pipe
<1> QED
  BY <1>1, <1>2, <1>3, <1>4, <1>5, <1>6, <1>7, <1>8, <1>9, <1>10, <1>11,
     <1>12, <1>13, <1>14 DEF Next, Dma, Pio, Stop

\* The invariant behind both verdicts.
LEMMA Delivered == ASSUME Matched PROVE Spec => [](RelayInv /\ InOrder)
<1>1. Init => RelayInv
  BY InitBurst DEF RelayInv, Relayed, Init
<1>2. RelayInv /\ [Next]_vars => RelayInv'
  BY StepBurst, StepRelayed DEF RelayInv
<1> QED BY <1>1, <1>2, StreamInOrder, PTL DEF Spec

\* A session that went round its ring sent a period.
LEMMA SentPeriods ==
  ASSUME NEW n \in Nat, n >= Words
  PROVE  n \div Period > 0
<1> DEFINE c == n \div Period
           d == Words \div Period
<1>1. c \in Int /\ n % Period \in 0 .. Period - 1 /\ n = Period * c + (n % Period)
  OBVIOUS
<1>2. d \in Int /\ Words = Period * d
  OBVIOUS
<1> HIDE DEF c, d
<1>3. Words >= Period
  <2>1. CASE d <= 0
    <3>1. Period * d <= 0
      BY <1>2, <2>1
    <3> QED BY <3>1, <1>2
  <2>2. CASE d >= 1
    <3>1. Period * d >= Period
      BY <1>2, <2>2
    <3> QED BY <3>1, <1>2
  <2> QED BY <1>2, <2>1, <2>2
<1>4. CASE c <= 0
  <2>1. Period * c <= 0
    BY <1>1, <1>4
  <2> QED BY <1>1, <1>3, <2>1
<1> QED BY <1>1, <1>4 DEF c

\* With matched thresholds, for every ring, FIFO and burst: a session without
\* faults that went round its RX ring passes the driver's check, the benchmark
\* program's and the self test's, wherever STOP hits it and whatever words the
\* last session left.
THEOREM CleanPasses == ASSUME Matched PROVE Spec => []CleanSessionPasses
<1>1. ASSUME RelayInv, InOrder
      PROVE  CleanSessionPasses
  <2> SUFFICES ASSUME stage = "cleared", faults = 0, moved >= Words + stale
               PROVE  SramPass /\ DramPass /\ DiagPass
    BY DEF CleanSessionPasses
  <2>t. moved \in Nat /\ sent \in Nat /\ stale \in Nat
    BY <1>1 DEF RelayInv, BurstInv, TypeOK
  <2>1. Kept(rx, moved, stale)
    BY <1>1 DEF InOrder, Unspoilt, RelayInv, BurstInv
  <2>2. \A i \in Pattern : rx[i] = (i - stale) % Words
    BY <2>t, <2>1, RoundKept
  <2>3. Clean = Periods /\ Torn = {}
    BY <2>t, <2>2, TurnedRing
  <2>4. Clean # {}
    BY <2>3, SlotOfPeriod
  <2>5. sent >= Words /\ moved >= Words
    BY <1>1, <2>t DEF RelayInv, Relayed
  <2>6. TxPeriods > 0 /\ RxPeriods > 0
    BY <2>t, <2>5, SentPeriods DEF TxPeriods, RxPeriods
  <2> QED BY <2>3, <2>4, <2>6 DEF SramPass, DramPass, DiagPass
<1> QED BY <1>1, Delivered, PTL

\* With matched thresholds the self test is sound for every ring: it looks at
\* each period by its own phase, yet once the words left over are overwritten
\* a pass leaves no slot out of order, whatever was spoilt on the way.
THEOREM SelfTestSound == ASSUME Matched PROVE Spec => []DiagSound
<1>1. ASSUME RelayInv
      PROVE  DiagSound
  <2> SUFFICES ASSUME stage = "cleared", DiagPass, moved >= Words + stale,
                      NEW i \in Pattern
               PROVE  rx[(i + 1) % Words] = (rx[i] + 1) % Words
    BY DEF DiagSound
  <2>t. moved \in Nat /\ stale \in Nat
    BY <1>1 DEF RelayInv, BurstInv, TypeOK
  <2>1. Legible(rx, moved, stale)
    BY <1>1 DEF RelayInv, Relayed
  <2>2. \A n \in Pattern : rx[n] \in {(n - stale) % Words, Junk}
    BY <2>t, <2>1, RoundLegible
  <2>3. \A n \in Pattern : rx[n] # Junk
    <3>1. \A n \in Pattern : rx[n] \in Pattern
      BY CleanIsLegible DEF DiagPass
    <3> QED BY <3>1 DEF Pattern, Junk
  <2>4. \A n \in Pattern : rx[n] = (n - stale) % Words
    BY <2>2, <2>3
  <2>5. i \in Nat /\ i - stale \in Int /\ i + 1 \in Nat
    BY <2>t DEF Pattern
  <2>6. (i + 1) % Words \in Pattern
    BY <2>5, InRing
  <2>7. rx[(i + 1) % Words] = (((i + 1) % Words) - stale) % Words
    BY <2>4, <2>6
  <2>8. (((i + 1) % Words) + (-stale)) % Words = ((i + 1) + (-stale)) % Words
    <3>1. -stale \in Int /\ i + 1 \in Int
      BY <2>t, <2>5
    <3> QED BY <3>1, CountOn, Zenon
  <2>9. (((i - stale) % Words) + 1) % Words = ((i - stale) + 1) % Words
    <3>1. 1 \in Int
      OBVIOUS
    <3> QED BY <3>1, <2>5, CountOn, Zenon
  <2>10. rx[i] = (i - stale) % Words
    BY <2>4
  <2>11. /\ (i + 1) + (-stale) = (i - stale) + 1
         /\ ((i + 1) % Words) + (-stale) = ((i + 1) % Words) - stale
    BY <2>t, <2>5, <2>6 DEF Pattern
  <2> QED BY <2>7, <2>8, <2>9, <2>10, <2>11, Zenon
<1> QED BY <1>1, Delivered, PTL

=============================================================================
