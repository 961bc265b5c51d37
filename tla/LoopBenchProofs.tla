--------------------------- MODULE LoopBenchProofs ---------------------------
(***************************************************************************)
(* For every word size, buffer length, FIFO depth and number of            *)
(* iterations: buffers outlive the threads that use them, a verified run   *)
(* that passes received what it sent, and a run nothing disturbed passes.  *)
(***************************************************************************)
EXTENDS LoopBench, FiniteSetTheorems, TLAPS

-----------------------------------------------------------------------------
(* Control: where main is, and what it holds there.                        *)

Inside == {"loop", "fill", "reset", "first", "second", "enable", "joinTx",
           "joinRx", "put", "get", "judge", "report"}
Loaded == prog = IF Is("gpio") THEN "pins" ELSE "not"

\* A call is in the kernel only between its pthread_create and its
\* pthread_join, and there the buffers and the program are in place.
Control ==
  /\ opt \in Options
  /\ thread \in [Dir -> {"none", "unborn", "kernel", "ok", "error"}]
  /\ InKernel("tx") => at \in {"second", "enable", "joinTx"}
  /\ InKernel("rx") => at \in {"second", "enable", "joinTx", "joinRx"}
  /\ at \in Inside \cup {"config", "alloc"} => Loaded
  /\ at \in Inside \/ (at = "config" /\ Is("baseline")) => bufs
  /\ at \in {"reset", "enable"} => Is("gpio")
  /\ at \in {"put", "get"} => Is("blocking")
  /\ at \in {"first", "second", "joinTx", "joinRx"} => Threads

\* Nothing is in the kernel or loaded at the start.
LEMMA ControlInit == Init => Control
  BY DEF Init, Control, Inside, InKernel, Dir

\* The hardware leaves main alone, and only takes calls out of the kernel.
LEMMA ControlHardware == Control /\ Hardware /\ UNCHANGED benchVars => Control'
<1> SUFFICES ASSUME Control, Hardware, UNCHANGED benchVars PROVE Control'
  OBVIOUS
<1>1. UNCHANGED <<opt, at, bufs>>
  BY DEF benchVars
<1>2. prog' = prog
  BY DEF Hardware, Channels, GiveUp, FillTx, DrainRx, Complete, Timeout, Turn, Fault, Lose,
         Duplicate, Spoil, Miss, pioVars
<1>3. thread' = thread \/ \E d \in Dir, v \in {"ok", "error"} :
        InKernel(d) /\ thread' = [thread EXCEPT ![d] = v]
  BY DEF Hardware, Channels, GiveUp, FillTx, DrainRx, Complete, Timeout, Turn, Fault, Lose,
         Duplicate, Spoil, Miss, xferVars
<1>. QED
  BY <1>1, <1>2, <1>3 DEF Control, InKernel, Loaded, Is, Threads, Dir

\* Each statement of main leaves a state in which the next one may run.
LEMMA ControlMain == Control /\ Main => Control'
<1> SUFFICES ASSUME Control, Main PROVE Control'
  OBVIOUS
<1> USE DEF Control, Goto, Abandon, Is, Threads, Loaded, Inside, InKernel, Dir, transferVars,
            pioVars, bufVars, xferVars, noteVars, countVars, endVars
<1>1. CASE Open
  BY <1>1 DEF Open
<1>2. CASE Config
  BY <1>2 DEF Config
<1>3. CASE Allocate
  BY <1>3 DEF Allocate
<1>4. CASE Loop
  BY <1>4 DEF Loop
<1>5. CASE Fill
  BY <1>5 DEF Fill
<1>6. CASE ResetSm
  BY <1>6 DEF ResetSm
<1>7. CASE SpawnFirst
  BY <1>7 DEF SpawnFirst, Spawn
<1>8. CASE SpawnSecond
  BY <1>8 DEF SpawnSecond, Spawn
<1>9. CASE Enable \/ JoinTx \/ JoinRx
  BY <1>9 DEF Enable, JoinTx, JoinRx
<1>10. CASE Crash
  BY <1>10 DEF Crash
<1>11. CASE Put \/ Get
  BY <1>11 DEF Put, Get
<1>12. CASE Fail \/ GoOn \/ Verify
  BY <1>12 DEF Fail, GoOn, Verify
<1>13. CASE Report \/ NoScratch
  BY <1>13 DEF Report, NoScratch
<1>14. CASE Free \/ Release
  BY <1>14 DEF Free, Release
<1>. QED
  BY <1>1, <1>2, <1>3, <1>4, <1>5, <1>6, <1>7, <1>8, <1>9, <1>10, <1>11, <1>12, <1>13, <1>14
     DEF Main

LEMMA ControlStep == Control /\ [Next]_vars => Control'
<1> SUFFICES ASSUME Control, [Next]_vars PROVE Control'
  OBVIOUS
<1>1. CASE Main
  BY <1>1, ControlMain
<1>2. CASE Hardware /\ UNCHANGED benchVars
  BY <1>2, ControlHardware
<1>3. CASE UNCHANGED vars
  BY <1>3 DEF vars, transferVars, benchVars, pioVars, xferVars, Control, InKernel, Loaded, Is,
          Threads
<1>. QED
  BY <1>1, <1>2, <1>3 DEF Next

LEMMA ControlAlways == Spec => []Control
<1>. QED
  BY ControlInit, ControlStep, PTL DEF Spec

\* No buffer is freed, and no state machine given back, while a thread is in a
\* call that uses it (dma_transfer of both programs joins both threads before
\* anything is released, whichever of them failed).
THEOREM BuffersStay == Spec => []BuffersOutliveTransfers
<1>1. Control => BuffersOutliveTransfers
  BY DEF Control, BuffersOutliveTransfers, InKernel, Inside, Loaded, Dir
<1>. QED
  BY <1>1, ControlAlways, PTL

-----------------------------------------------------------------------------
(* What a verified word says about the transfer.                           *)

Transferring == {"reset", "first", "second", "enable", "joinTx", "joinRx", "put",
                 "get", "judge"}

\* A word of the receive buffer is what memset left until this transfer writes it.
Blank == IF prog = "pins" THEN 0 ELSE Zero

Buffer ==
  /\ at \in Inside \/ (at = "config" /\ Is("baseline")) => rx = [j \in 1..DmaWords |-> rx[j]]
  /\ at \in Transferring /\ ~Is("baseline") =>
       \A j \in 1..DmaWords : j \notin fresh => rx[j] = Blank

\* DmaWords is a number, and has a place for each bit of each word.
LEMMA SlotInside ==
  ASSUME NEW i \in Index, NEW b \in 1..Bits
  PROVE  /\ Slot(i, b) \in Nat
         /\ Slot(i, b) \in 1..(RX_SKIP + Words * Bits + 1)
<1>1. Bits \in Nat /\ Words \in Nat /\ i \in Nat /\ b \in Nat /\ i >= 1 /\ i <= Words /\ b >= 1 /\ b <= Bits
  BY TransferAssumption DEF Index
<1>2. (i - 1) * Bits \in Nat /\ Words * Bits \in Nat
  BY <1>1
<1>3. (i - 1) * Bits + Bits <= Words * Bits
  <2>1. i * Bits <= Words * Bits
    BY <1>1
  <2>2. (i - 1) * Bits + Bits = i * Bits
    BY <1>1
  <2>. QED
    BY <2>1, <2>2
<1>. QED
  BY <1>1, <1>2, <1>3 DEF Slot, RX_SKIP

LEMMA DmaWordsNat == DmaWords \in Nat
  BY TransferAssumption DEF DmaWords, RX_SKIP

\* If the words verified are right, they came with the transfer.
LEMMA VerifiedArrived ==
  ASSUME Buffer, Control, at = "judge", ~Is("baseline"), Mismatches = {}
  PROVE  \A i \in Index : Arrived(i)
<1> SUFFICES ASSUME NEW i \in Index PROVE Arrived(i)
  OBVIOUS
<1>1. \A j \in 1..DmaWords : j \notin fresh => rx[j] = Blank
  BY DEF Buffer, Transferring
<1>2. CASE prog = "pins"
  <2>1. compress_rx(i) = src[i]
    BY <1>2 DEF Mismatches
  <2> SUFFICES ASSUME NEW b \in 1..Bits
               PROVE rx[Slot(i, b)] = src[i][b] /\ (src[i][b] # 0 => Slot(i, b) \in fresh)
    BY <1>2 DEF Arrived
  <2>2. rx[Slot(i, b)] = src[i][b]
    BY <2>1 DEF compress_rx
  <2>3. Slot(i, b) \in 1..DmaWords
    BY SlotInside, <1>2 DEF DmaWords
  <2>. QED
    BY <2>2, <2>3, <1>1, <1>2 DEF Blank
<1>3. CASE prog # "pins"
  <2>1. rx[i] = Not(src[i])
    BY <1>3 DEF Mismatches
  <2>2. i \in 1..DmaWords
    BY <1>3 DEF DmaWords, Index
  <2>. QED
    BY <2>1, <2>2, <1>1, <1>3 DEF Blank, Arrived
<1>. QED
  BY <1>2, <1>3

LEMMA BufferInit == Init => Buffer
  BY DEF Init, Buffer, Inside, Transferring

\* The hardware writes a word of the buffer only together with its mark.
LEMMA BufferHardware ==
  Control /\ Buffer /\ Hardware /\ UNCHANGED benchVars => Buffer'
<1> SUFFICES ASSUME Control, Buffer, Hardware, UNCHANGED benchVars PROVE Buffer'
  OBVIOUS
<1>1. UNCHANGED <<opt, at, prog>>
  BY DEF benchVars, Hardware, Channels, GiveUp, FillTx, DrainRx, Complete, Timeout, Turn, Fault,
         Lose, Duplicate, Spoil, Miss, pioVars
<1>2. UNCHANGED <<rx, fresh>> \/ DrainRx
  BY DEF Hardware, Channels, GiveUp, FillTx, Complete, Timeout, Turn, Fault, Lose,
         Duplicate, Spoil, Miss, bufVars
<1>3. DmaWords' = DmaWords /\ Blank' = Blank /\ (Is("baseline"))' = Is("baseline")
  BY <1>1 DEF DmaWords, Blank, Is
<1>4. CASE DrainRx
  <2>1. at \in Inside
    BY <1>4 DEF DrainRx, CanDrain, Control, Inside
  <2>2. rx = [j \in 1..DmaWords |-> rx[j]]
    BY <2>1 DEF Buffer
  <2>. DEFINE k == moved["rx"] + 1
  <2>3. rx' = [rx EXCEPT ![k] = Head(rxf)] /\ fresh' = fresh \cup {k}
    BY <1>4 DEF DrainRx
  <2>. HIDE DEF k
  <2>4. rx' = [j \in 1..DmaWords |-> IF j = k THEN Head(rxf) ELSE rx[j]]
    BY <2>2, <2>3
  <2>. QED
    BY <1>1, <1>3, <2>3, <2>4 DEF Buffer
<1>. QED
  BY <1>1, <1>2, <1>3, <1>4 DEF Buffer

\* Fill clears the buffer, Get writes a word with its mark, and the rest of main
\* leaves it alone.
LEMMA BufferMain == Control /\ Buffer /\ Main => Buffer'
<1> SUFFICES ASSUME Control, Buffer, Main PROVE Buffer'
  OBVIOUS
<1> USE DEF Goto, Abandon, Inside, Transferring, transferVars, pioVars, bufVars, xferVars, noteVars
<1>1. CASE Open
  BY <1>1 DEF Open, Buffer, Is
<1>7. CASE Config
  <2>1. UNCHANGED <<prog, opt, rx, fresh>> /\ at' \notin Transferring /\ at' # "config"
    BY <1>7 DEF Config
  <2>2. at' \in Inside => at = "config" /\ Is("baseline")
    BY <1>7 DEF Config
  <2>. QED
    BY <2>1, <2>2 DEF Buffer, DmaWords
<1>2. CASE Allocate
  <2>1. UNCHANGED <<prog, opt>>
    BY <1>2 DEF Allocate
  <2>2. (rx' = Cleared \/ at' \notin Inside \cup {"config"}) /\ at' \notin Transferring
    BY <1>2 DEF Allocate
  <2>. QED
    BY <2>1, <2>2 DEF Buffer, Cleared, DmaWords
<1>3. CASE Fill
  <2>1. UNCHANGED <<prog, opt>> /\ DmaWords' = DmaWords /\ at \in Inside
    BY <1>3 DEF Fill, DmaWords
  <2>2. CASE Is("baseline")
    BY <1>3, <2>1, <2>2 DEF Fill, Buffer, Is
  <2>3. CASE ~Is("baseline")
    <3>1. rx' = Cleared
      BY <1>3, <2>3 DEF Fill
    <3>2. Cleared = [j \in 1..DmaWords |-> Blank]
      BY <2>3 DEF Cleared, Blank
    <3>. QED
      BY <2>1, <3>1, <3>2 DEF Buffer, Blank
  <2>. QED
    BY <2>2, <2>3
<1>4. CASE Get
  <2>1. UNCHANGED <<prog, opt>> /\ DmaWords' = DmaWords /\ at \in Inside /\ at \in Transferring
    BY <1>4 DEF Get, DmaWords
  <2>2. rx = [j \in 1..DmaWords |-> rx[j]]
    BY <2>1 DEF Buffer
  <2>. DEFINE k == moved["rx"] + 1
  <2>3. rx' = [rx EXCEPT ![k] = Head(rxf)] /\ fresh' = fresh \cup {k}
    BY <1>4 DEF Get
  <2>. HIDE DEF k
  <2>4. rx' = [j \in 1..DmaWords |-> IF j = k THEN Head(rxf) ELSE rx[j]]
    BY <2>2, <2>3
  <2>. QED
    BY <2>1, <2>3, <2>4 DEF Buffer, Is, Blank
<1>5. CASE Crash \/ Free \/ Release \/ NoScratch \/ Report \/ Fail \/ GoOn \/ Verify
  <2>1. UNCHANGED <<rx, fresh, opt>> /\ at' \notin Transferring \cup {"config"}
    BY <1>5 DEF Crash, Free, Release, NoScratch, Report, Fail, GoOn, Verify, benchVars
  <2>2. at' \in Inside => at \in Inside /\ prog' = prog
    BY <1>5 DEF Crash, Free, Release, NoScratch, Report, Fail, GoOn, Verify
  <2>. QED
    BY <2>1, <2>2 DEF Buffer, DmaWords
<1>6. CASE Loop \/ ResetSm \/ SpawnFirst \/ SpawnSecond \/ Enable \/ JoinTx \/ JoinRx \/ Put
  <2>1. UNCHANGED <<rx, fresh, opt, prog>>
    BY <1>6 DEF Loop, ResetSm, SpawnFirst, SpawnSecond, Spawn, Enable, JoinTx, JoinRx, Put
  <2>2. at \in Inside /\ (at' \in Transferring => at \in Transferring)
    BY <1>6 DEF Loop, ResetSm, SpawnFirst, SpawnSecond, Spawn, Enable, JoinTx, JoinRx, Put
  <2>. QED
    BY <2>1, <2>2 DEF Buffer, DmaWords, Is, Blank
<1>. QED
  BY <1>1, <1>2, <1>3, <1>4, <1>5, <1>6, <1>7 DEF Main

LEMMA BufferStep == Control /\ Buffer /\ [Next]_vars => Buffer'
<1> SUFFICES ASSUME Control, Buffer, [Next]_vars PROVE Buffer'
  OBVIOUS
<1>1. CASE UNCHANGED vars
  BY <1>1 DEF vars, transferVars, benchVars, pioVars, bufVars, Buffer, Is, DmaWords, Blank
<1>. QED
  BY <1>1, BufferMain, BufferHardware DEF Next

\* The errors counted say whether the words arrived, and the verdicts say
\* whether there were any.
Verdicts ==
  /\ errors \in Nat
  /\ opt.verify /\ ~Is("baseline") /\ errors = 0 => good
  /\ result = "pass" \/ json = "pass" => errors = 0 /\ at \in {"free", "release", "done"}

\* A round without counted errors had no mismatch.
LEMMA CountedZero ==
  /\ Counted \in Nat
  /\ Measured /\ opt.verify /\ Counted = 0 => Mismatches = {}
<1>1. IsFiniteSet(Mismatches)
  <2>1. Mismatches \subseteq 1..Words
    BY DEF Mismatches, Index
  <2>2. IsFiniteSet(1..Words)
    BY FS_Interval, TransferAssumption
  <2>. QED
    BY <2>1, <2>2, FS_Subset
<1>2. Cardinality(Mismatches) \in Nat /\ (Cardinality(Mismatches) = 0 <=> Mismatches = {})
  BY <1>1, FS_CardinalityType, FS_EmptySet
<1>. QED
  BY <1>2 DEF Counted

LEMMA VerdictsInit == Init => Verdicts
  BY DEF Init, Verdicts

LEMMA VerdictsStep == Control /\ Buffer /\ Verdicts /\ [Next]_vars => Verdicts'
<1> SUFFICES ASSUME Control, Buffer, Verdicts, [Next]_vars PROVE Verdicts'
  OBVIOUS
<1> USE DEF Goto, Abandon, benchVars, countVars, endVars
<1>1. CASE Verify
  <2>1. UNCHANGED <<opt, result, json>> /\ at = "judge" /\ errors' = errors + Counted
        /\ good' = (good /\ (Measured => \A i \in Index : Arrived(i)))
    BY <1>1 DEF Verify
  <2>2. errors' \in Nat /\ (errors' = 0 => errors = 0 /\ Counted = 0)
    BY <2>1, CountedZero DEF Verdicts
  <2>3. opt.verify /\ ~Is("baseline") /\ errors' = 0 => good'
    BY <2>1, <2>2, CountedZero, VerifiedArrived DEF Verdicts
  <2>. QED
    BY <2>1, <2>2, <2>3 DEF Verdicts, Is
<1>2. CASE GoOn
  BY <1>2 DEF GoOn, Verdicts, Is
<1>3. CASE Report
  BY <1>3 DEF Report, Verdicts, Is
<1>4. CASE Open \/ Config \/ Allocate \/ Fail \/ Crash \/ NoScratch
  BY <1>4 DEF Open, Config, Allocate, Fail, Crash, NoScratch, Verdicts, Is
<1>5. CASE Loop \/ Fill \/ ResetSm \/ SpawnFirst \/ SpawnSecond \/ Enable \/ JoinTx
           \/ JoinRx \/ Put \/ Get \/ Free \/ Release
  BY <1>5 DEF Loop, Fill, ResetSm, SpawnFirst, SpawnSecond, Spawn, Enable, JoinTx, JoinRx, Put,
              Get, Free, Release, Verdicts, Is
<1>6. CASE UNCHANGED benchVars
  BY <1>6 DEF Verdicts, Is
<1>7. CASE UNCHANGED vars
  BY <1>7, <1>6 DEF vars
<1>. QED
  BY <1>1, <1>2, <1>3, <1>4, <1>5, <1>6, <1>7 DEF Next, Main

\* A verified run that exits with 0, or whose JSON report says pass, received
\* every measured word with the transfer of its own iteration (memset before
\* each transfer, and the errors of all iterations added up).
THEOREM PassesAreSound == Spec => []PassSound
<1>1. Init => Control /\ Buffer /\ Verdicts
  BY ControlInit, BufferInit, VerdictsInit
<1>2. Control /\ Buffer /\ Verdicts /\ [Next]_vars => (Control /\ Buffer /\ Verdicts)'
  BY ControlStep, BufferStep, VerdictsStep
<1>3. Verdicts => PassSound
  BY DEF Verdicts, PassSound
<1>. QED
  BY <1>1, <1>2, <1>3, PTL DEF Spec

-----------------------------------------------------------------------------
(* The stream of words: what was sent is in the TX FIFO, in the RX FIFO or *)
(* in the buffer, in order, one place later where RX_SKIP applies.         *)

Streaming == {"first", "second", "enable", "joinTx", "joinRx", "put", "get", "judge"}

Skip    == IF prog = "pins" THEN RX_SKIP ELSE 0
Owed    == IF cold THEN 1 ELSE 0
Handed  == IF Threads THEN moved["tx"] ELSE moved["rx"] + (IF at = "get" THEN 1 ELSE 0)
Line    == [i \in Int |-> Sent(i)]       \* what goes in, by position
Echoed  == [i \in Int |-> Out(Sent(i))]  \* what has to come out
Payload == {Line[i] : i \in Int} \cup {Echoed[i] : i \in Int} \cup Bit

StreamType ==
  /\ moved \in [Dir -> Nat] /\ moved["tx"] <= DmaWords /\ moved["rx"] <= DmaWords
  /\ txf \in Seq(Payload) /\ rxf \in Seq(Payload)
  /\ cold => prog = "pins" /\ moved["rx"] = 0 /\ rxf = <<>>
Count == Handed + Skip - Owed = moved["rx"] + Len(rxf) + Len(txf)
InBuffer == \A q \in 1..moved["rx"] : q > Skip => rx[q] = Echoed[q - Skip]
InRxFifo == \A k \in 1..Len(rxf) :
  moved["rx"] + k > Skip => rxf[k] = Echoed[moved["rx"] + k - Skip]
InTxFifo == \A k \in 1..Len(txf) : txf[k] = Line[Handed - Len(txf) + k]
Stream == StreamType /\ Count /\ InBuffer /\ InRxFifo /\ InTxFifo

\* The source buffer holds words, each a function of its bits.
Filled == \A i \in Index : src[i] = [b \in 1..Bits |-> src[i][b]]

\* The direction whose thread is created first, and the threads created so far.
First == IF Is("gpio") THEN "rx" ELSE "tx"
Started(d) == Threads /\ \/ at \in {"enable", "joinTx", "joinRx", "judge"}
                         \/ at = "second" /\ d = First

\* The state machine runs where words are waited for, and is cold for GPIO only.
Powered ==
  /\ cold => Is("gpio")
  /\ ~Is("gpio") /\ (at \in Inside \/ (at = "alloc" /\ ~Is("baseline"))) => en
  /\ at \in {"joinTx", "joinRx"} => en
  /\ Is("gpio") /\ at \in (Inside \cup {"alloc"}) \ {"joinTx", "joinRx"} => ~en
  /\ iter \in Nat /\ (at \in Transferring \cup {"fill"} /\ ~Is("baseline") => iter < Total)
  /\ at \in Transferring => Filled
  /\ at = "reset" => moved = [d \in Dir |-> 0]

\* A run nothing has disturbed so far: no failure, nothing in the FIFOs between
\* transfers, words in order, calls that returned done, and a verdict of pass.
NoneFailed == errors = 0 /\ \A d \in Dir : thread[d] \notin {"unborn", "error"}
Drained == at \in {"open", "config", "alloc", "loop", "fill"} /\ ~Is("gpio") =>
             txf = <<>> /\ rxf = <<>>
Flowing == at \in Streaming => Stream
Returned == at \in Streaming => \A d \in Dir : Started(d) =>
              thread[d] \in {"kernel", "ok"} /\ (thread[d] = "ok" => moved[d] = DmaWords)
InTurn ==
  /\ at \in {"put", "get"} => moved["rx"] < Words
  /\ at = "judge" /\ Is("blocking") => moved["rx"] = Words
Announced == at \in {"free", "release", "done"} =>
               ("cli" \notin missed => result = "pass") /\ ("fixed" \notin missed => json = "pass")

Healthy == NoneFailed /\ Drained /\ Flowing /\ Returned /\ InTurn /\ Announced
Undisturbed == clean => Healthy

-----------------------------------------------------------------------------
(* Powered.                                                                *)

LEMMA PatternShape ==
  ASSUME NEW pattern \in Patterns \cup {"tagged"}, NEW i \in Index,
         NEW seed, pattern = "random" => seed \in 1..Total
  PROVE  bench_fill_pattern(pattern, seed)[i]
           = [b \in 1..Bits |-> bench_fill_pattern(pattern, seed)[i][b]]
<1>. DEFINE w == bench_fill_pattern(pattern, seed)[i]
<1> SUFFICES w = [b \in 1..Bits |-> w[b]]
  OBVIOUS
<1>1. CASE pattern = "random"
  <2>1. w = Random[seed][i]
    BY <1>1 DEF bench_fill_pattern
  <2>2. Random[seed][i] \in Word
    BY <1>1, BenchAssumption
  <2>. QED
    BY <2>1, <2>2 DEF Word
<1>2. CASE pattern = "tagged"
  <2>1. w = [Sequential(i) EXCEPT ![1] = 1]
    BY <1>2 DEF bench_fill_pattern
  <2>2. Sequential(i) = [b \in 1..Bits |-> Sequential(i)[b]]
    BY DEF Sequential
  <2>. QED
    BY <2>1, <2>2
<1>3. CASE pattern = "sequential"
  <2>1. w = Sequential(i)
    BY <1>3 DEF bench_fill_pattern
  <2>. QED
    BY <2>1 DEF Sequential
<1>4. CASE pattern = "ones"
  <2>1. w = Not(Zero)
    BY <1>4 DEF bench_fill_pattern
  <2>. QED
    BY <2>1 DEF Not
<1>5. CASE pattern = "alternating"
  BY <1>5 DEF bench_fill_pattern
<1>6. CASE pattern = "other"
  BY <1>6 DEF bench_fill_pattern, Zero
<1>. HIDE DEF w
<1>. QED
  BY <1>1, <1>2, <1>3, <1>4, <1>5, <1>6 DEF Patterns

LEMMA PoweredInit == Init => Powered
  BY DEF Init, Powered, Inside, Transferring


LEMMA PoweredHardware == Control /\ Powered /\ Hardware /\ UNCHANGED benchVars => Powered'
<1> SUFFICES ASSUME Control, Powered, Hardware, UNCHANGED benchVars PROVE Powered'
  OBVIOUS
<1>1. UNCHANGED <<opt, at, iter>>
  BY DEF benchVars, countVars
<1>2. UNCHANGED <<en, src>> /\ (cold' => cold)
  BY DEF Hardware, Channels, GiveUp, FillTx, DrainRx, Complete, Timeout, Turn, Fault,
         Lose, Duplicate, Spoil, Miss, pioVars, bufVars
<1>3. at = "reset" => moved' = moved
  <2>1. CASE FillTx \/ DrainRx \/ Miss
    BY <2>1 DEF FillTx, DrainRx, Miss, CanFill, CanDrain, Control
  <2>2. CASE \E d \in Dir : Complete(d) \/ Timeout(d, Waiting)
    BY <2>2 DEF Complete, Timeout
  <2>3. CASE Turn \/ Lose \/ Duplicate \/ Spoil
    BY <2>3 DEF Turn, Lose, Duplicate, Spoil, xferVars
  <2>. QED
    BY <2>1, <2>2, <2>3 DEF Hardware, Channels, GiveUp, Fault
<1>. QED
  BY <1>1, <1>2, <1>3 DEF Powered, Filled, Is

LEMMA PoweredMain == Control /\ Powered /\ Main => Powered'
<1> SUFFICES ASSUME Control, Powered, Main PROVE Powered'
  OBVIOUS
<1> USE DEF Goto, Abandon, Inside, Transferring, transferVars, pioVars, bufVars, xferVars,
            noteVars, countVars, benchVars
<1>0. Total \in Nat
  BY BenchAssumption DEF Total
<1>1. CASE Open
  BY <1>1 DEF Open, Powered, Is
<1>2. CASE Config
  BY <1>2 DEF Config, Powered, Is
<1>3. CASE Allocate
  BY <1>3 DEF Allocate, Powered, Is
<1>4. CASE Loop
  BY <1>4 DEF Loop, Powered, Is
<1>5. CASE Fill
  <2>1. Filled'
    <3>1. opt.pattern \in Patterns \cup {"tagged"} /\ (Is("baseline") => opt.pattern = "tagged")
      BY DEF Control, Options, Is, Programs
    <3>2. opt.pattern = "random" => iter + 1 \in 1..Total
      BY <1>0, <1>5, <3>1 DEF Fill, Powered
    <3>3. src' = bench_fill_pattern(opt.pattern, iter + 1)
      BY <1>5 DEF Fill
    <3>4. ASSUME NEW i \in Index
          PROVE  bench_fill_pattern(opt.pattern, iter + 1)[i]
                   = [b \in 1..Bits |-> bench_fill_pattern(opt.pattern, iter + 1)[i][b]]
      BY <3>1, <3>2, PatternShape
    <3>. QED
      BY <3>3, <3>4 DEF Filled
  <2>2. UNCHANGED <<opt, en, cold, iter>> /\ moved' = [d \in Dir |-> 0] /\ at = "fill"
    BY <1>5 DEF Fill
  <2>3. at' = IF Is("gpio") THEN "reset" ELSE IF Threads THEN "first" ELSE "put"
    BY <1>5 DEF Fill
  <2>. QED
    BY <2>1, <2>2, <2>3 DEF Powered, Is
<1>6. CASE ResetSm
  BY <1>6 DEF ResetSm, Powered, Is, Filled, Control
<1>7. CASE SpawnFirst \/ SpawnSecond
  BY <1>7 DEF SpawnFirst, SpawnSecond, Spawn, Powered, Is, Filled
<1>8. CASE Enable
  BY <1>8 DEF Enable, Powered, Is, Filled
<1>9. CASE JoinTx
  BY <1>9 DEF JoinTx, Powered, Is, Filled
<1>10. CASE JoinRx
  BY <1>10 DEF JoinRx, Powered, Is, Filled
<1>11. CASE Crash
  BY <1>11 DEF Crash, Powered, Is, Filled
<1>12. CASE Put \/ Get
  <2>1. UNCHANGED <<opt, en, cold, iter, src>> /\ at \in Transferring /\ at \in Inside
        /\ Is("blocking")
    BY <1>12 DEF Put, Get, Control
  <2>2. at' \in {"put", "get", "judge"}
    BY <1>12 DEF Put, Get
  <2>. QED
    BY <2>1, <2>2 DEF Powered, Is, Filled
<1>13. CASE Fail
  BY <1>13 DEF Fail, Powered, Is
<1>14. CASE GoOn
  BY <1>14 DEF GoOn, Powered, Is
<1>15. CASE Verify
  BY <1>15 DEF Verify, Powered, Is
<1>16. CASE Report \/ NoScratch
  BY <1>16 DEF Report, NoScratch, Powered, Is
<1>17. CASE Free \/ Release
  BY <1>17 DEF Free, Release, Powered, Is
<1>. QED
  BY <1>1, <1>2, <1>3, <1>4, <1>5, <1>6, <1>7, <1>8, <1>9, <1>10, <1>11, <1>12, <1>13, <1>14,
     <1>15, <1>16, <1>17 DEF Main

-----------------------------------------------------------------------------
(* The stream, one step of the hardware at a time.                         *)

LEMMA StreamFrame ==
  ASSUME UNCHANGED <<prog, src>>
  PROVE  /\ DmaWords' = DmaWords /\ Skip' = Skip /\ Payload' = Payload
         /\ Line' = Line /\ Echoed' = Echoed
<1>1. Line' = Line /\ Echoed' = Echoed /\ DmaWords' = DmaWords
  BY DEF DmaWords, Sent, Out, Line, Echoed
<1>. QED
  BY <1>1 DEF Skip, Payload

LEMMA StreamNumbers ==
  Skip \in 0..1 /\ Owed \in 0..1 /\ DmaWords \in Nat
  BY DmaWordsNat DEF Skip, Owed, RX_SKIP

\* The next word is put behind those under way.
LEMMA StreamFillTx ==
  ASSUME Stream, FillTx, UNCHANGED <<opt, at>>, Threads
  PROVE  Stream'
<1> USE StreamNumbers
<1>. DEFINE n == moved["tx"]
<1>. DEFINE L == Len(txf)
<1>1. UNCHANGED <<prog, src, rx, rxf, cold, opt, at>> /\ n < DmaWords
      /\ txf' = Append(txf, Line[n + 1]) /\ moved' = [moved EXCEPT !["tx"] = n + 1]
  BY DEF FillTx, CanFill, bufVars, Line, Stream, StreamType, Dir
<1>2. n \in Nat /\ moved \in [Dir -> Nat] /\ moved["rx"] \in Nat /\ txf \in Seq(Payload)
      /\ L \in Nat
  BY DEF Stream, StreamType, Dir
<1>3. moved' \in [Dir -> Nat] /\ moved'["tx"] = n + 1 /\ moved'["rx"] = moved["rx"]
  BY <1>1, <1>2 DEF Dir
<1>4. Handed = n /\ Handed' = n + 1
  BY <1>1, <1>3 DEF Handed, Threads, Is
<1>5. /\ DmaWords' = DmaWords /\ Skip' = Skip /\ Payload' = Payload /\ Owed' = Owed
      /\ Line' = Line /\ Echoed' = Echoed
  BY <1>1, StreamFrame DEF Owed
<1>6. Line[n + 1] \in Payload
  BY <1>1, <1>2 DEF Payload
<1>. HIDE DEF n, L
<1>8. txf' \in Seq(Payload) /\ Len(txf') = L + 1 /\ txf'[L + 1] = Line[n + 1]
      /\ \A k \in 1..L : txf'[k] = txf[k]
  BY <1>1, <1>2, <1>6 DEF L
<1>9. StreamType'
  BY <1>1, <1>2, <1>3, <1>5, <1>8 DEF Stream, StreamType
<1>7. Len(rxf) \in Nat /\ n + Skip - Owed = moved["rx"] + Len(rxf) + L
  BY <1>4 DEF Stream, StreamType, Count, L
<1>10. Count'
  <2>1. Handed' = n + 1 /\ Skip' = Skip /\ Owed' = Owed /\ moved'["rx"] = moved["rx"]
        /\ Len(rxf') = Len(rxf) /\ Len(txf') = L + 1
    BY <1>1, <1>3, <1>4, <1>5, <1>8
  <2>2. n + 1 + Skip - Owed = moved["rx"] + Len(rxf) + (L + 1)
    BY <1>2, <1>7
  <2>. QED
    BY <2>1, <2>2 DEF Count
<1>11. InBuffer' /\ InRxFifo'
  BY <1>1, <1>2, <1>3, <1>5 DEF Stream, StreamType, InBuffer, InRxFifo
<1>12. InTxFifo'
  <2>1. \A k \in 1..L : txf[k] = Line[n - L + k]
    BY <1>4 DEF Stream, InTxFifo, L
  <2>2. \A k \in 1..(L + 1) : txf'[k] = Line[n + 1 - (L + 1) + k]
    <3>. SUFFICES ASSUME NEW k \in 1..(L + 1) PROVE txf'[k] = Line[n + 1 - (L + 1) + k]
      OBVIOUS
    <3>1. n + 1 - (L + 1) + k = n - L + k /\ (k = L + 1 => n - L + k = n + 1)
          /\ (k # L + 1 => k \in 1..L)
      BY <1>2
    <3>. QED
      BY <3>1, <2>1, <1>8
  <2>. QED
    BY <2>2, <1>2, <1>4, <1>5, <1>8 DEF InTxFifo
<1>. QED
  BY <1>9, <1>10, <1>11, <1>12 DEF Stream

\* The first word of the RX FIFO becomes the next one of the buffer.
LEMMA StreamDrainRx ==
  ASSUME Stream, DrainRx, UNCHANGED <<opt, at>>, Threads, rx = [j \in 1..DmaWords |-> rx[j]]
  PROVE  Stream'
<1> USE StreamNumbers
<1>. DEFINE n == moved["rx"]
<1>. DEFINE L == Len(rxf)
<1>1. UNCHANGED <<prog, src, txf, cold, opt, at>> /\ n < DmaWords /\ rxf # <<>>
      /\ rxf' = Tail(rxf) /\ rx' = [rx EXCEPT ![n + 1] = Head(rxf)]
      /\ moved' = [moved EXCEPT !["rx"] = n + 1]
  BY DEF DrainRx, CanDrain
<1>2. n \in Nat /\ moved \in [Dir -> Nat] /\ moved["tx"] \in Nat /\ rxf \in Seq(Payload)
      /\ L \in Nat /\ L > 0 /\ ~cold
  BY <1>1 DEF Stream, StreamType, Dir
<1>3. moved' \in [Dir -> Nat] /\ moved'["rx"] = n + 1 /\ moved'["tx"] = moved["tx"]
  BY <1>1, <1>2 DEF Dir
<1>4. Handed' = Handed
  BY <1>1, <1>3 DEF Handed, Threads, Is
<1>5. /\ DmaWords' = DmaWords /\ Skip' = Skip /\ Payload' = Payload /\ Owed' = Owed
      /\ Line' = Line /\ Echoed' = Echoed
  BY <1>1, StreamFrame DEF Owed
<1>. HIDE DEF n, L
<1>8. rxf' \in Seq(Payload) /\ Len(rxf') = L - 1 /\ Head(rxf) = rxf[1]
      /\ \A k \in 1..(L - 1) : rxf'[k] = rxf[k + 1]
  BY <1>1, <1>2 DEF L
<1>9. StreamType'
  BY <1>1, <1>2, <1>3, <1>5, <1>8 DEF Stream, StreamType
<1>10. Count'
  BY <1>1, <1>2, <1>3, <1>4, <1>5, <1>8 DEF Stream, StreamType, Count, L, n
<1>13. \A k \in 1..L : n + k > Skip => rxf[k] = Echoed[n + k - Skip]
  BY DEF Stream, InRxFifo, n, L
<1>11. InBuffer'
  <2>1. rx' = [j \in 1..DmaWords |-> IF j = n + 1 THEN rxf[1] ELSE rx[j]]
    BY <1>1, <1>8
  <2>2. n + 1 > Skip => rxf[1] = Echoed[n + 1 - Skip]
    BY <1>2, <1>13
  <2>3. \A q \in 1..n : q > Skip => rx[q] = Echoed[q - Skip]
    BY DEF Stream, InBuffer, n
  <2>5. n \in Nat /\ n < DmaWords
    BY <1>1, <1>2
  <2>4. \A q \in 1..(n + 1) : q > Skip => rx'[q] = Echoed[q - Skip]
    <3>. SUFFICES ASSUME NEW q \in 1..(n + 1), q > Skip PROVE rx'[q] = Echoed[q - Skip]
      OBVIOUS
    <3>1. q \in 1..DmaWords
      BY <2>5
    <3>2. CASE q = n + 1
      <4>1. rx'[q] = rxf[1]
        BY <2>1, <3>1, <3>2
      <4>2. n + 1 > Skip /\ n + 1 - Skip = q - Skip
        BY <2>5, <3>2
      <4>. QED
        BY <2>2, <4>1, <4>2, Zenon
    <3>3. CASE q # n + 1
      <4>1. q \in 1..n
        BY <1>2, <3>3
      <4>2. rx'[q] = rx[q]
        BY <2>1, <3>1, <3>3
      <4>. QED
        BY <2>3, <4>1, <4>2
    <3>. QED
      BY <3>2, <3>3
  <2>. QED
    BY <2>4, <1>3, <1>5 DEF InBuffer
<1>12. InRxFifo'
  <2>1. \A k \in 1..(L - 1) : n + 1 + k > Skip => rxf'[k] = Echoed[n + 1 + k - Skip]
    <3>. SUFFICES ASSUME NEW k \in 1..(L - 1), n + 1 + k > Skip
                  PROVE  rxf'[k] = Echoed[n + 1 + k - Skip]
      OBVIOUS
    <3>0. k \in Nat /\ k <= L - 1 /\ n \in Nat /\ Skip \in Nat
      BY <1>2
    <3>1. PICK j \in 1..L : j = k + 1
      BY <1>2
    <3>2. n + j > Skip /\ n + j - Skip = n + 1 + k - Skip
      BY <3>0, <3>1
    <3>3. rxf[j] = Echoed[n + j - Skip]
      BY <1>13, <3>2
    <3>4. rxf'[k] = rxf[j]
      BY <1>8, <3>1
    <3>. QED
      BY <3>2, <3>3, <3>4
  <2>. QED
    BY <2>1, <1>2, <1>3, <1>5, <1>8 DEF InRxFifo
<1>14. InTxFifo'
  BY <1>1, <1>2, <1>4, <1>5 DEF Stream, StreamType, InTxFifo
<1>. QED
  BY <1>9, <1>10, <1>11, <1>12, <1>14 DEF Stream

\* The state machine takes a word of the TX FIFO and puts its echo behind the
\* words of the RX FIFO; the garbage of a cold one takes the place skipped.
LEMMA StreamTurn ==
  ASSUME Stream, Turn, UNCHANGED <<opt, at>>
  PROVE  Stream'
<1> USE StreamNumbers
<1>. DEFINE n == moved["rx"]
<1>. DEFINE L == Len(rxf)
<1>. DEFINE T == Len(txf)
<1>1. UNCHANGED <<prog, src, rx, moved, opt, at>>
  BY DEF Turn, bufVars, xferVars
<1>2. n \in Nat /\ moved \in [Dir -> Nat] /\ moved["tx"] \in Nat /\ rxf \in Seq(Payload)
      /\ txf \in Seq(Payload) /\ L \in Nat /\ T \in Nat
  BY DEF Stream, StreamType, Dir
<1>4. Handed' = Handed /\ Handed \in Nat
  BY <1>1, <1>2 DEF Handed, Threads, Is
<1>5. /\ DmaWords' = DmaWords /\ Skip' = Skip /\ Payload' = Payload
      /\ Line' = Line /\ Echoed' = Echoed
  BY <1>1, StreamFrame
<1>6. Handed + Skip - Owed = n + L + T
  BY DEF Stream, Count
<1>7. \A k \in 1..L : n + k > Skip => rxf[k] = Echoed[n + k - Skip]
  BY DEF Stream, InRxFifo
<1>8. \A k \in 1..T : txf[k] = Line[Handed - T + k]
  BY DEF Stream, InTxFifo
<1>9. InBuffer'
  BY <1>1, <1>5 DEF Stream, InBuffer
<1>. HIDE DEF n, L, T
<1>10. CASE cold
  <2>1. PICK garbage \in Bit : rxf' = Append(rxf, garbage)
    BY <1>10 DEF Turn
  <2>2. UNCHANGED txf /\ cold' = FALSE
    BY <1>10 DEF Turn
  <2>3. Skip = 1 /\ n = 0 /\ rxf = <<>> /\ Owed = 1 /\ Owed' = 0 /\ L = 0
    BY <1>10, <2>2 DEF Stream, StreamType, Skip, RX_SKIP, Owed, n, L
  <2>4. rxf' = <<garbage>> /\ garbage \in Payload
    BY <2>1, <2>3 DEF Payload
  <2>5. rxf' \in Seq(Payload) /\ Len(rxf') = 1
    BY <2>4
  <2>6. StreamType'
    BY <1>1, <1>5, <2>2, <2>5 DEF Stream, StreamType
  <2>7. Count'
    <3>1. Handed + 1 - 0 = 0 + 1 + T
      BY <1>2, <1>4, <1>6, <2>3
    <3>. QED
      BY <3>1, <1>1, <1>4, <1>5, <2>2, <2>3, <2>5 DEF Count, n, T
  <2>8. InRxFifo'
    <3>. SUFFICES ASSUME NEW k \in 1..Len(rxf') PROVE ~(n + k > Skip)
      BY <1>1, <1>5 DEF InRxFifo, n
    <3>. QED
      BY <2>3, <2>5
  <2>9. InTxFifo'
    BY <1>4, <1>5, <2>2 DEF Stream, InTxFifo
  <2>. QED
    BY <1>9, <2>6, <2>7, <2>8, <2>9 DEF Stream
<1>11. CASE ~cold
  <2>1. rxf' = Append(rxf, Out(Head(txf))) /\ txf' = Tail(txf) /\ txf # <<>> /\ cold' = cold
    BY <1>11 DEF Turn, CanTurn
  <2>2. Owed = 0 /\ Owed' = 0
    BY <1>11, <2>1 DEF Owed
  <2>3. T > 0 /\ Head(txf) = txf[1] /\ Tail(txf) \in Seq(Payload) /\ Len(txf') = T - 1
        /\ \A k \in 1..(T - 1) : txf'[k] = txf[k + 1]
    BY <2>1, <1>2 DEF T
  <2>. DEFINE p == Handed - T + 1
  <2>4. p \in Int /\ Head(txf) = Line[p] /\ n + (L + 1) - Skip = p /\ p - 1 \in Int
    BY <1>2, <1>4, <1>6, <1>8, <2>2, <2>3
  <2>5. Out(Head(txf)) = Echoed[p] /\ Echoed[p] \in Payload
    BY <2>4 DEF Line, Echoed, Payload
  <2>. HIDE DEF p
  <2>6. rxf' \in Seq(Payload) /\ Len(rxf') = L + 1 /\ rxf'[L + 1] = Echoed[p]
        /\ \A k \in 1..L : rxf'[k] = rxf[k]
    BY <1>2, <2>1, <2>5 DEF L
  <2>7. StreamType'
    BY <1>1, <1>5, <1>11, <2>1, <2>3, <2>6 DEF Stream, StreamType
  <2>8. Count'
    <3>1. Handed + Skip - 0 = n + (L + 1) + (T - 1)
      BY <1>2, <1>4, <1>6, <2>2
    <3>. QED
      BY <3>1, <1>1, <1>4, <1>5, <2>2, <2>3, <2>6 DEF Count, n
  <2>9. InRxFifo'
    <3>1. \A k \in 1..(L + 1) : n + k > Skip => rxf'[k] = Echoed[n + k - Skip]
      <4>. SUFFICES ASSUME NEW k \in 1..(L + 1), n + k > Skip
                    PROVE  rxf'[k] = Echoed[n + k - Skip]
        OBVIOUS
      <4>1. CASE k = L + 1
        BY <2>4, <2>6, <4>1
      <4>2. CASE k # L + 1
        <5>1. k \in 1..L
          BY <1>2, <4>2
        <5>. QED
          BY <1>7, <2>6, <5>1
      <4>. QED
        BY <4>1, <4>2
    <3>. QED
      BY <3>1, <1>1, <1>5, <2>6 DEF InRxFifo, n
  <2>10. InTxFifo'
    <3>1. \A k \in 1..(T - 1) : txf'[k] = Line[Handed - (T - 1) + k]
      <4>. SUFFICES ASSUME NEW k \in 1..(T - 1)
                    PROVE  txf'[k] = Line[Handed - (T - 1) + k]
        OBVIOUS
      <4>1. PICK j \in 1..T : j = k + 1
        BY <1>2
      <4>2. Handed - T + j = Handed - (T - 1) + k
        BY <1>2, <1>4, <4>1
      <4>3. txf[j] = Line[Handed - T + j]
        BY <1>8
      <4>4. txf'[k] = txf[j]
        BY <2>3, <4>1
      <4>. QED
        BY <4>2, <4>3, <4>4
    <3>. QED
      BY <3>1, <1>4, <1>5, <2>3 DEF InTxFifo
  <2>. QED
    BY <1>9, <2>7, <2>8, <2>9, <2>10 DEF Stream
<1>. QED
  BY <1>10, <1>11

\* With threads, nothing of the stream depends on where main stands.
LEMMA StreamStill ==
  ASSUME Stream, UNCHANGED <<prog, cold, txf, rxf, src, rx, moved, opt>>, Threads \/ at' = at
  PROVE  Stream'
<1>1. UNCHANGED <<prog, src, rx, moved, txf, rxf, cold, opt>>
  OBVIOUS
<1>2. Handed' = Handed /\ Owed' = Owed
  BY <1>1 DEF Handed, Threads, Is, Owed
<1>3. /\ DmaWords' = DmaWords /\ Skip' = Skip /\ Payload' = Payload
      /\ Line' = Line /\ Echoed' = Echoed
  BY <1>1, StreamFrame
<1>. QED
  BY <1>1, <1>2, <1>3 DEF Stream, StreamType, Count, InBuffer, InRxFifo, InTxFifo

\* With empty FIFOs nothing is under way; the first turn of a cold state machine
\* then makes up for the place skipped.
LEMMA StreamFresh ==
  ASSUME txf = <<>>, rxf = <<>>, moved = [d \in Dir |-> 0], at # "get",
         cold <=> prog = "pins"
  PROVE  Stream
<1>1. moved["tx"] = 0 /\ moved["rx"] = 0 /\ Len(txf) = 0 /\ Len(rxf) = 0 /\ Handed = 0
  BY DEF Dir, Handed
<1>2. Skip = Owed
  BY DEF Skip, Owed, RX_SKIP
<1>3. StreamType
  BY <1>1, StreamNumbers DEF StreamType, Dir
<1>4. Count
  BY <1>1, <1>2, StreamNumbers DEF Count
<1>. QED
  BY <1>1, <1>3, <1>4 DEF Stream, InBuffer, InRxFifo, InTxFifo

LEMMA StreamFreshNext ==
  ASSUME txf' = <<>>, rxf' = <<>>, moved' = [d \in Dir |-> 0], at' # "get",
         cold' <=> prog' = "pins"
  PROVE  Stream'
<1>1. (txf = <<>> /\ rxf = <<>> /\ moved = [d \in Dir |-> 0] /\ at # "get"
        /\ (cold <=> prog = "pins") => Stream)'
  BY StreamFresh, PTL
<1>. QED
  BY <1>1

\* Blocking mode: a word is put where none was under way.
LEMMA StreamPut ==
  ASSUME Stream, Put, UNCHANGED opt, ~Threads, prog = "not", ~cold
  PROVE  Stream'
<1> USE StreamNumbers
<1>. DEFINE n == moved["rx"]
<1>1. UNCHANGED <<prog, src, rx, rxf, cold, moved, opt>> /\ at = "put" /\ at' = "get"
      /\ txf' = Append(txf, src[n + 1])
  BY DEF Put, bufVars, xferVars, Goto
<1>2. n \in Nat /\ txf \in Seq(Payload) /\ rxf \in Seq(Payload) /\ Handed = n /\ Handed' = n + 1
      /\ Skip = 0 /\ Owed = 0 /\ Owed' = 0
  BY <1>1 DEF Stream, StreamType, Dir, Handed, Threads, Is, Skip, Owed
<1>3. /\ DmaWords' = DmaWords /\ Skip' = Skip /\ Payload' = Payload
      /\ Line' = Line /\ Echoed' = Echoed
  BY <1>1, StreamFrame
<1>4. Line[n + 1] = src[n + 1] /\ Line[n + 1] \in Payload
  BY <1>2 DEF Line, Sent, Payload
<1>5. Len(txf) = 0 /\ Len(rxf) = 0
  BY <1>2 DEF Stream, Count
<1>. HIDE DEF n
<1>6. txf' \in Seq(Payload) /\ Len(txf') = 1 /\ txf'[1] = Line[n + 1]
  BY <1>1, <1>2, <1>4, <1>5
<1>7. StreamType'
  BY <1>1, <1>3, <1>6 DEF Stream, StreamType
<1>8. Count'
  BY <1>1, <1>2, <1>3, <1>5, <1>6 DEF Count, n
<1>9. InBuffer' /\ InRxFifo'
  BY <1>1, <1>3 DEF Stream, InBuffer, InRxFifo
<1>10. InTxFifo'
  <2>. SUFFICES ASSUME NEW k \in 1..1 PROVE txf'[k] = Line[n + 1 - 1 + k]
    BY <1>2, <1>3, <1>6 DEF InTxFifo
  <2>. QED
    BY <1>2, <1>6
<1>. QED
  BY <1>7, <1>8, <1>9, <1>10 DEF Stream

\* Blocking mode: the word taken is the answer to the one put before it.
LEMMA StreamGet ==
  ASSUME Stream, Get, UNCHANGED opt, ~Threads, prog = "not", ~cold, moved["rx"] < Words,
         rx = [j \in 1..DmaWords |-> rx[j]]
  PROVE  Stream'
<1> USE StreamNumbers
<1>. DEFINE n == moved["rx"]
<1>1. UNCHANGED <<prog, src, txf, cold, opt>> /\ at = "get" /\ at' # "get" /\ rxf # <<>>
      /\ rxf' = Tail(rxf) /\ rx' = [rx EXCEPT ![n + 1] = Head(rxf)]
      /\ moved' = [moved EXCEPT !["rx"] = n + 1]
  BY DEF Get, Goto
<1>2. n \in Nat /\ n < DmaWords /\ moved \in [Dir -> Nat] /\ txf \in Seq(Payload)
      /\ rxf \in Seq(Payload) /\ Handed = n + 1 /\ Skip = 0 /\ Owed = 0 /\ Owed' = 0
  BY <1>1 DEF Stream, StreamType, Dir, Handed, Threads, Is, Skip, Owed, DmaWords
<1>3. moved' \in [Dir -> Nat] /\ moved'["rx"] = n + 1 /\ moved'["tx"] = moved["tx"]
  BY <1>1, <1>2 DEF Dir
<1>4. Handed' = n + 1
  BY <1>1, <1>3 DEF Handed, Threads, Is
<1>5. /\ DmaWords' = DmaWords /\ Skip' = Skip /\ Payload' = Payload
      /\ Line' = Line /\ Echoed' = Echoed
  BY <1>1, StreamFrame
<1>6. Len(rxf) = 1 /\ Len(txf) = 0 /\ rxf[1] = Echoed[n + 1]
  <2>1. Len(rxf) \in Nat /\ Len(txf) \in Nat /\ Len(rxf) > 0
    BY <1>1, <1>2
  <2>2. n + 1 = n + Len(rxf) + Len(txf)
    BY <1>2 DEF Stream, Count
  <2>3. Len(rxf) = 1 /\ Len(txf) = 0
    <3>. DEFINE l == Len(rxf)
    <3>. DEFINE t == Len(txf)
    <3>1. n \in Nat /\ l \in Nat /\ t \in Nat /\ l > 0 /\ n + 1 = n + l + t
      BY <1>2, <2>1, <2>2
    <3>. HIDE DEF n, l, t
    <3>2. l = 1 /\ t = 0
      BY <3>1
    <3>. QED
      BY <3>2 DEF l, t
  <2>4. n + 1 > Skip => rxf[1] = Echoed[n + 1 - Skip]
    BY <2>3 DEF Stream, InRxFifo
  <2>. QED
    BY <1>2, <2>3, <2>4
<1>. HIDE DEF n
<1>7. rxf' \in Seq(Payload) /\ Len(rxf') = 0 /\ Head(rxf) = rxf[1]
  BY <1>1, <1>2, <1>6
<1>8. StreamType'
  BY <1>1, <1>2, <1>3, <1>5, <1>7 DEF Stream, StreamType
<1>9. Count'
  BY <1>1, <1>2, <1>3, <1>4, <1>5, <1>6, <1>7 DEF Count
<1>10. InBuffer'
  <2>1. rx' = [j \in 1..DmaWords |-> IF j = n + 1 THEN rxf[1] ELSE rx[j]]
    BY <1>1, <1>7
  <2>2. \A q \in 1..n : rx[q] = Echoed[q]
    <3>. SUFFICES ASSUME NEW q \in 1..n PROVE rx[q] = Echoed[q]
      OBVIOUS
    <3>1. q > Skip => rx[q] = Echoed[q - Skip]
      BY DEF Stream, InBuffer, n
    <3>. QED
      BY <1>2, <3>1
  <2>3. \A q \in 1..(n + 1) : rx'[q] = Echoed[q]
    <3>. SUFFICES ASSUME NEW q \in 1..(n + 1) PROVE rx'[q] = Echoed[q]
      OBVIOUS
    <3>1. q \in 1..DmaWords /\ (q = n + 1 \/ q \in 1..n)
      BY <1>2
    <3>. QED
      BY <1>6, <2>1, <2>2, <3>1
  <2>. QED
    BY <2>3, <1>2, <1>3, <1>5 DEF InBuffer
<1>11. InRxFifo' /\ InTxFifo'
  BY <1>1, <1>3, <1>5, <1>6, <1>7 DEF InRxFifo, InTxFifo
<1>. QED
  BY <1>8, <1>9, <1>10, <1>11 DEF Stream

-----------------------------------------------------------------------------
(* A transfer nothing disturbed: it moves every word, and the right ones.  *)

LEMMA DivMod ==
  ASSUME NEW a \in Nat, NEW r \in Nat, NEW B \in Nat \ {0}, r < B
  PROVE  (a * B + r) \div B = a /\ (a * B + r) % B = r
<1>. DEFINE n == a * B + r
<1>. DEFINE q == n \div B
<1>. DEFINE m == n % B
<1>1. n \in Nat /\ q \in Int /\ m \in 0..(B - 1)
  OBVIOUS
<1>2. n = q * B + m
  OBVIOUS
<1>3. n = a * B + r
  OBVIOUS
<1>. HIDE DEF n, q, m
<1>4. q < a + 1
  <2>. SUFFICES ASSUME q >= a + 1 PROVE FALSE
    BY <1>1
  <2>1. q * B >= (a + 1) * B
    BY <1>1
  <2>2. (a + 1) * B = a * B + B
    OBVIOUS
  <2>3. q * B \in Int /\ a * B \in Int
    BY <1>1
  <2>. QED
    BY <2>1, <2>2, <2>3, <1>1, <1>2, <1>3
<1>5. q > a - 1
  <2>. SUFFICES ASSUME q + 1 <= a PROVE FALSE
    BY <1>1
  <2>1. (q + 1) * B <= a * B
    BY <1>1
  <2>2. (q + 1) * B = q * B + B
    BY <1>1
  <2>3. q * B \in Int /\ a * B \in Int
    BY <1>1
  <2>. QED
    BY <2>1, <2>2, <2>3, <1>1, <1>2, <1>3
<1>6. q = a
  BY <1>1, <1>4, <1>5
<1>7. m = r
  BY <1>6, <1>1, <1>2, <1>3
<1>. QED
  BY <1>6, <1>7 DEF n, q, m

\* expand_tx and compress_rx use the same place for a bit.
LEMMA SentBit ==
  ASSUME NEW i \in Index, NEW b \in 1..Bits, prog = "pins"
  PROVE  Sent((i - 1) * Bits + b) = src[i][b]
<1>. DEFINE a == i - 1
<1>. DEFINE r == b - 1
<1>. DEFINE e == (i - 1) * Bits + b
<1>1. a \in Nat /\ r \in Nat /\ Bits \in Nat \ {0} /\ r < Bits /\ a + 1 = i /\ r + 1 = b
  BY TransferAssumption DEF Index
<1>2. e - 1 = a * Bits + r
  BY <1>1
<1>3. e <= Words * Bits
  <2>1. Slot(i, b) <= RX_SKIP + Words * Bits + 1 /\ Slot(i, b) \in Nat
    BY SlotInside
  <2>2. i \in Nat /\ i <= Words /\ Words \in Nat
    BY TransferAssumption DEF Index
  <2>3. (a + 1) * Bits <= Words * Bits
    BY <1>1, <2>2
  <2>4. (a + 1) * Bits = a * Bits + Bits
    BY <1>1
  <2>5. a * Bits \in Nat /\ Words * Bits \in Nat
    BY <1>1, <2>2
  <2>. QED
    BY <1>1, <2>3, <2>4, <2>5
<1>4. Sent(e) = src[((e - 1) \div Bits) + 1][((e - 1) % Bits) + 1]
  BY <1>3 DEF Sent
<1>5. (e - 1) \div Bits = a /\ (e - 1) % Bits = r
  <2>. HIDE DEF a, r, e
  <2>. QED
    BY <1>1, <1>2, DivMod
<1>. QED
  BY <1>1, <1>4, <1>5

\* Main sees both calls return only when all words of both have been moved.
LEMMA TransferDone ==
  ASSUME Control, Powered, Healthy, at = "judge"
  PROVE  /\ Stream /\ moved["rx"] = DmaWords
         /\ ~Is("gpio") => txf = <<>> /\ rxf = <<>>
<1> USE StreamNumbers
<1>1. Stream
  BY DEF Healthy, Flowing, Streaming
<1>2. moved["rx"] = DmaWords /\ Handed = DmaWords
  <2>1. CASE Threads
    <3>1. \A d \in Dir : thread[d] = "ok" /\ moved[d] = DmaWords
      BY <2>1 DEF Healthy, Returned, Streaming, Started, Control, InKernel, Dir
    <3>. QED
      BY <2>1, <3>1 DEF Handed, Dir
  <2>2. CASE ~Threads
    <3>1. Is("blocking") /\ ~Is("gpio")
      BY <2>2 DEF Threads, Is
    <3>2. moved["rx"] = Words /\ prog = "not"
      BY <3>1 DEF Healthy, InTurn, Control, Loaded, Inside
    <3>. QED
      BY <2>2, <3>2, TransferAssumption DEF Handed, DmaWords
  <2>. QED
    BY <2>1, <2>2
<1>3. ASSUME ~Is("gpio") PROVE txf = <<>> /\ rxf = <<>>
  <2>1. Skip = 0 /\ Owed = 0
    BY <1>3 DEF Powered, Control, Loaded, Inside, Skip, Owed
  <2>2. txf \in Seq(Payload) /\ rxf \in Seq(Payload)
    BY <1>1 DEF Stream, StreamType
  <2>3. DmaWords = DmaWords + Len(rxf) + Len(txf)
    BY <1>1, <1>2, <2>1 DEF Stream, Count
  <2>4. Len(rxf) \in Nat /\ Len(txf) \in Nat
    BY <2>2
  <2>5. Len(rxf) = 0 /\ Len(txf) = 0
    BY <2>3, <2>4
  <2>. QED
    BY <2>2, <2>5
<1>. QED
  BY <1>1, <1>2, <1>3

\* Verification finds nothing wrong with it.
LEMMA NothingWrong ==
  ASSUME Control, Powered, Stream, moved["rx"] = DmaWords, at = "judge"
  PROVE  Mismatches = {}
<1>1. \A q \in 1..DmaWords : q > Skip => rx[q] = Echoed[q - Skip]
  BY DEF Stream, InBuffer
<1>2. CASE prog = "pins"
  <2>1. SUFFICES ASSUME NEW i \in Index PROVE compress_rx(i) = src[i]
    BY <1>2 DEF Mismatches
  <2>2. src[i] = [b \in 1..Bits |-> src[i][b]]
    BY DEF Powered, Transferring, Filled
  <2>3. \A b \in 1..Bits : rx[Slot(i, b)] = src[i][b]
    <3>. SUFFICES ASSUME NEW b \in 1..Bits PROVE rx[Slot(i, b)] = src[i][b]
      OBVIOUS
    <3>. DEFINE e == (i - 1) * Bits + b
    <3>1. e \in Nat /\ e > 0 /\ Slot(i, b) = 1 + e
      <4>1. i - 1 \in Nat /\ Bits \in Nat /\ b \in Nat /\ b > 0
        BY TransferAssumption DEF Index
      <4>2. (i - 1) * Bits \in Nat
        BY <4>1
      <4>. QED
        BY <4>1, <4>2 DEF Slot, RX_SKIP
    <3>2. Slot(i, b) \in 1..DmaWords /\ Skip = 1
      BY <1>2, SlotInside DEF DmaWords, Skip, RX_SKIP
    <3>3. Sent(e) = src[i][b]
      BY <1>2, SentBit
    <3>. HIDE DEF e
    <3>4. 1 + e > Skip /\ 1 + e - Skip = e
      BY <3>1, <3>2
    <3>5. rx[Slot(i, b)] = Echoed[e]
      BY <1>1, <3>1, <3>2, <3>4
    <3>6. Echoed[e] = Sent(e)
      BY <1>2, <3>1 DEF Echoed, Out
    <3>. QED
      BY <3>3, <3>5, <3>6
  <2>. QED
    BY <2>2, <2>3 DEF compress_rx
<1>3. CASE prog # "pins"
  <2>1. SUFFICES ASSUME NEW i \in Index PROVE rx[i] = Not(src[i])
    BY <1>3 DEF Mismatches
  <2>2. i \in 1..DmaWords /\ i > Skip /\ i - Skip = i /\ i \in Int
    BY <1>3, TransferAssumption DEF DmaWords, Skip, Index
  <2>3. rx[i] = Echoed[i]
    BY <1>1, <2>2
  <2>. QED
    BY <1>3, <2>2, <2>3 DEF Echoed, Out, Sent
<1>. QED
  BY <1>2, <1>3

\* Both calls waited for, some word can always move until all have been.
LEMMA NoHang ==
  ASSUME Control, Powered, Healthy, Waiting, NEW d \in Dir, InKernel(d), moved[d] < DmaWords,
         ~CanFill, ~CanTurn, ~CanDrain
  PROVE  FALSE
<1> USE StreamNumbers
<1>1. Threads /\ Stream /\ en
  BY DEF Waiting, Control, Healthy, Flowing, Powered, Streaming
<1>2. \A c \in Dir : thread[c] \in {"kernel", "ok"} /\ (thread[c] = "ok" => moved[c] = DmaWords)
  BY <1>1 DEF Healthy, Returned, Waiting, Started, Streaming
<1>. DEFINE t == moved["tx"]
<1>. DEFINE r == moved["rx"]
<1>. DEFINE K == Len(txf)
<1>. DEFINE L == Len(rxf)
<1>3. t \in Nat /\ r \in Nat /\ K \in Nat /\ L \in Nat /\ t <= DmaWords /\ r <= DmaWords
      /\ (cold => r = 0 /\ L = 0) /\ Depth \in Nat \ {0}
      /\ (K = 0 <=> txf = <<>>) /\ (L = 0 <=> rxf = <<>>)
  BY <1>1, TransferAssumption DEF Stream, StreamType, Dir
<1>4. t + Skip - Owed = r + L + K
  BY <1>1 DEF Stream, Count, Handed
<1>5. t = DmaWords \/ K >= Depth
  BY <1>2, <1>3 DEF CanFill, InKernel, Dir
<1>6. r = DmaWords \/ L = 0
  BY <1>2, <1>3 DEF CanDrain, InKernel, Dir
<1>7. (~cold /\ K = 0) \/ L >= Depth
  BY <1>1, <1>3 DEF CanTurn
<1>8. t < DmaWords \/ r < DmaWords
  BY DEF Dir
<1>9. cold => Owed = 1
  BY DEF Owed
<1>. HIDE DEF t, r, K, L
<1>10. CASE r = DmaWords
  BY <1>3, <1>4, <1>5, <1>8, <1>10
<1>11. CASE r # DmaWords
  <2>1. L = 0 /\ K = 0 /\ ~cold
    BY <1>3, <1>6, <1>7, <1>11
  <2>2. t = DmaWords
    BY <1>3, <1>5, <2>1
  <2>. QED
    BY <1>3, <1>4, <1>11, <2>1, <2>2 DEF Owed
<1>. QED
  BY <1>10, <1>11

-----------------------------------------------------------------------------
(* A run nothing disturbed.                                                *)

LEMMA UndisturbedInit == Init => Undisturbed
  BY DEF Init, Undisturbed, Healthy, NoneFailed, Drained, Flowing, Returned, InTurn, Announced,
         Streaming, Dir

LEMMA UndisturbedHardware ==
  Control /\ Buffer /\ Powered /\ Undisturbed /\ Hardware /\ UNCHANGED benchVars => Undisturbed'
<1> SUFFICES ASSUME Control, Buffer, Powered, Undisturbed, Hardware, UNCHANGED benchVars, clean'
             PROVE  Healthy'
  BY DEF Undisturbed
<1>1. UNCHANGED <<opt, at, errors, missed, result, json>>
  BY DEF benchVars, countVars, endVars
<1>2. CASE FillTx
  <2>1. clean /\ UNCHANGED <<thread, rxf>> /\ InKernel("tx")
        /\ moved' = [moved EXCEPT !["tx"] = moved["tx"] + 1] /\ moved["tx"] < DmaWords
    BY <1>2 DEF FillTx, CanFill, noteVars
  <2>2. Healthy /\ Threads /\ at \in {"second", "enable", "joinTx"}
    BY <2>1 DEF Undisturbed, Control, Threads, Is, Dir
  <2>3. Stream
    BY <2>2 DEF Healthy, Flowing, Streaming
  <2>4. Stream'
    BY <1>1, <1>2, <2>2, <2>3, StreamFillTx
  <2>5. DmaWords' = DmaWords
    BY <1>2 DEF FillTx, DmaWords, bufVars
  <2>6. Returned'
    <3>. SUFFICES ASSUME NEW d \in Dir, Started(d)
                  PROVE  thread'[d] \in {"kernel", "ok"} /\ (thread'[d] = "ok" => moved'[d] = DmaWords)
      BY <1>1, <2>5 DEF Returned, Started, Threads, First, Is
    <3>1. thread[d] \in {"kernel", "ok"} /\ (thread[d] = "ok" => moved[d] = DmaWords)
      BY <2>2 DEF Healthy, Returned, Streaming
    <3>2. d # "tx" => moved'[d] = moved[d]
      BY <2>1, <2>3 DEF Stream, StreamType
    <3>. QED
      BY <2>1, <3>1, <3>2 DEF InKernel
  <2>7. NoneFailed' /\ Announced'
    BY <1>1, <2>1, <2>2 DEF Healthy, NoneFailed, Announced
  <2>8. Drained' /\ Flowing' /\ InTurn'
    BY <1>1, <2>2, <2>4 DEF Drained, Flowing, InTurn
  <2>. QED
    BY <2>6, <2>7, <2>8 DEF Healthy
<1>3. CASE DrainRx
  <2>1. clean /\ UNCHANGED <<thread, txf>> /\ InKernel("rx")
        /\ moved' = [moved EXCEPT !["rx"] = moved["rx"] + 1] /\ moved["rx"] < DmaWords
    BY <1>3 DEF DrainRx, CanDrain, noteVars
  <2>2. Healthy /\ Threads /\ at \in {"second", "enable", "joinTx", "joinRx"}
    BY <2>1 DEF Undisturbed, Control, Threads, Is, Dir
  <2>3. Stream /\ rx = [j \in 1..DmaWords |-> rx[j]]
    BY <2>2 DEF Healthy, Flowing, Streaming, Buffer, Inside
  <2>4. Stream'
    BY <1>1, <1>3, <2>2, <2>3, StreamDrainRx
  <2>5. DmaWords' = DmaWords
    BY <1>3 DEF DrainRx, DmaWords
  <2>6. Returned'
    <3>. SUFFICES ASSUME NEW d \in Dir, Started(d)
                  PROVE  thread'[d] \in {"kernel", "ok"} /\ (thread'[d] = "ok" => moved'[d] = DmaWords)
      BY <1>1, <2>5 DEF Returned, Started, Threads, First, Is
    <3>1. thread[d] \in {"kernel", "ok"} /\ (thread[d] = "ok" => moved[d] = DmaWords)
      BY <2>2 DEF Healthy, Returned, Streaming
    <3>2. d # "rx" => moved'[d] = moved[d]
      BY <2>1, <2>3 DEF Stream, StreamType
    <3>. QED
      BY <2>1, <3>1, <3>2 DEF InKernel
  <2>7. NoneFailed' /\ Announced'
    BY <1>1, <2>1, <2>2 DEF Healthy, NoneFailed, Announced
  <2>8. Drained' /\ Flowing' /\ InTurn'
    BY <1>1, <2>2, <2>4 DEF Drained, Flowing, InTurn
  <2>. QED
    BY <2>6, <2>7, <2>8 DEF Healthy
<1>4. CASE Turn
  <2>1. clean /\ UNCHANGED <<thread, moved, prog>>
    BY <1>4 DEF Turn, xferVars, noteVars
  <2>2. Healthy
    BY <2>1 DEF Undisturbed
  <2>3. at \in Streaming => Stream'
    BY <1>1, <1>4, <2>2, StreamTurn DEF Healthy, Flowing
  <2>4. ~(at \in {"open", "config", "alloc", "loop", "fill"} /\ ~Is("gpio"))
    BY <1>4, <2>2 DEF Healthy, Drained, Turn, CanTurn, Powered
  <2>5. DmaWords' = DmaWords
    BY <2>1 DEF DmaWords
  <2>6. \A d \in Dir : Started(d)' => Started(d)
    BY <1>1 DEF Started, Threads, First, Is
  <2>7. NoneFailed' /\ Announced' /\ InTurn'
    BY <1>1, <2>1, <2>2 DEF Healthy, NoneFailed, Announced, InTurn, Is
  <2>8. Drained' /\ Flowing'
    BY <1>1, <2>3, <2>4 DEF Drained, Flowing, Is
  <2>9. Returned'
    BY <1>1, <2>1, <2>2, <2>5, <2>6 DEF Healthy, Returned
  <2>. QED
    BY <2>7, <2>8, <2>9 DEF Healthy
<1>5. ASSUME NEW c \in Dir, Complete(c) PROVE Healthy'
  <2>1. clean /\ UNCHANGED <<prog, cold, txf, rxf, src, rx, moved>> /\ InKernel(c)
        /\ moved[c] = DmaWords /\ thread' = [thread EXCEPT ![c] = "ok"]
    BY <1>5 DEF Complete, noteVars, pioVars, bufVars
  <2>2. Healthy /\ Threads
    BY <2>1 DEF Undisturbed, Control, Threads, Is, Dir
  <2>3. at \in Streaming => Stream'
    BY <1>1, <2>1, <2>2, StreamStill DEF Healthy, Flowing
  <2>4. \A d \in Dir : thread'[d] = IF d = c THEN "ok" ELSE thread[d]
    BY <2>1 DEF Control
  <2>5. DmaWords' = DmaWords
    BY <2>1 DEF DmaWords
  <2>6. \A d \in Dir : Started(d)' => Started(d)
    BY <1>1 DEF Started, Threads, First, Is
  <2>7. NoneFailed' /\ Announced' /\ InTurn'
    BY <1>1, <2>1, <2>2, <2>4 DEF Healthy, NoneFailed, Announced, InTurn, Is
  <2>8. Drained' /\ Flowing'
    BY <1>1, <2>1, <2>2, <2>3 DEF Healthy, Drained, Flowing, Is
  <2>9. Returned'
    BY <1>1, <2>1, <2>2, <2>4, <2>5, <2>6 DEF Healthy, Returned
  <2>. QED
    BY <2>7, <2>8, <2>9 DEF Healthy
<1>6. ASSUME NEW c \in Dir, Timeout(c, Waiting) PROVE FALSE
  <2>1. InKernel(c) /\ clean /\ Waiting /\ moved[c] < DmaWords /\ ~CanFill /\ ~CanTurn /\ ~CanDrain
    BY <1>6 DEF Timeout
  <2>. QED
    BY <2>1, NoHang DEF Undisturbed
<1>7. CASE Fault
  BY <1>7 DEF Fault, Lose, Duplicate, Spoil, Miss, Disturb
<1>. QED
  BY <1>2, <1>3, <1>4, <1>5, <1>6, <1>7 DEF Hardware, Channels, GiveUp

LEMMA UndisturbedMain == Control /\ Buffer /\ Powered /\ Undisturbed /\ Main => Undisturbed'
<1> SUFFICES ASSUME Control, Buffer, Powered, Undisturbed, Main, clean' PROVE Healthy'
  BY DEF Undisturbed
<1> USE DEF Goto, Abandon
<1>0. ASSUME clean, Healthy, UNCHANGED <<thread, errors>> PROVE NoneFailed'
  BY <1>0 DEF Healthy, NoneFailed
<1>1. CASE Open \/ Config \/ Allocate \/ Loop
  <2>1. clean /\ UNCHANGED <<thread, errors, txf, rxf, opt>>
        /\ at \in {"open", "config", "alloc", "loop"}
        /\ at' \in {"config", "alloc", "loop", "fill", "report"}
    BY <1>1 DEF Open, Config, Allocate, Loop, transferVars, pioVars, bufVars, xferVars, noteVars,
                countVars
  <2>2. Healthy
    BY <2>1 DEF Undisturbed
  <2>3. Drained'
    BY <2>1, <2>2 DEF Healthy, Drained, Is
  <2>4. Flowing' /\ Returned' /\ InTurn' /\ Announced'
    BY <2>1 DEF Flowing, Returned, InTurn, Announced, Streaming
  <2>. QED
    BY <1>0, <2>1, <2>2, <2>3, <2>4 DEF Healthy
<1>2. CASE Fill
  <2>1. clean /\ UNCHANGED <<thread, errors, txf, rxf, cold, prog, opt>> /\ at = "fill"
        /\ moved' = [d \in Dir |-> 0]
        /\ at' = IF Is("gpio") THEN "reset" ELSE IF Threads THEN "first" ELSE "put"
    BY <1>2 DEF Fill, pioVars, noteVars, countVars
  <2>2. Healthy
    BY <2>1 DEF Undisturbed
  <2>3. Flowing'
    <3>. SUFFICES ASSUME ~Is("gpio") PROVE Stream'
      BY <2>1 DEF Flowing, Streaming
    <3>1. txf' = <<>> /\ rxf' = <<>> /\ at' # "get"
      BY <2>1, <2>2 DEF Healthy, Drained
    <3>2. ~cold' /\ prog' # "pins"
      BY <2>1 DEF Powered, Control, Loaded, Inside
    <3>. QED
      BY <2>1, <3>1, <3>2, StreamFreshNext
  <2>4. Drained' /\ Announced'
    BY <2>1 DEF Drained, Announced
  <2>5. Returned'
    BY <2>1 DEF Returned, Started, Streaming, Threads, Is
  <2>6. InTurn'
    BY <2>1, TransferAssumption DEF InTurn, Dir
  <2>. QED
    BY <1>0, <2>1, <2>2, <2>3, <2>4, <2>5, <2>6 DEF Healthy
<1>3. CASE ResetSm
  <2>1. clean /\ UNCHANGED <<thread, errors, moved, prog, opt>> /\ at = "reset" /\ at' = "first"
        /\ cold' = TRUE /\ txf' = <<>> /\ rxf' = <<>>
    BY <1>3 DEF ResetSm, xferVars, noteVars, countVars
  <2>2. Healthy
    BY <2>1 DEF Undisturbed
  <2>3. prog' = "pins" /\ moved' = [d \in Dir |-> 0] /\ at' # "get" /\ Is("gpio")
    BY <2>1 DEF Control, Powered, Loaded, Inside
  <2>4. Flowing'
    BY <2>1, <2>3, StreamFreshNext DEF Flowing
  <2>5. Drained' /\ Announced' /\ InTurn' /\ Returned'
    BY <2>1 DEF Drained, Announced, InTurn, Returned, Started
  <2>. QED
    BY <1>0, <2>1, <2>2, <2>4, <2>5 DEF Healthy
<1>4. CASE SpawnFirst \/ SpawnSecond
  <2>1. PICK c \in Dir : /\ clean /\ UNCHANGED <<prog, cold, txf, rxf, src, rx, moved, opt, errors>>
                         /\ thread' = [thread EXCEPT ![c] = "kernel"]
                         /\ at \in {"first", "second"} /\ at' \in {"second", "enable", "joinTx"}
                         /\ (at = "first" => at' = "second" /\ c = First)
                         /\ (at = "second" => at' # "second" /\ c # First)
    BY <1>4 DEF SpawnFirst, SpawnSecond, Spawn, First, Dir, countVars, pioVars, bufVars
  <2>2. Healthy /\ Threads
    BY <2>1 DEF Undisturbed, Control
  <2>3. Flowing'
    <3>1. Stream
      BY <2>1, <2>2 DEF Healthy, Flowing, Streaming
    <3>. QED
      BY <2>1, <2>2, <3>1, StreamStill DEF Flowing
  <2>4. \A d \in Dir : thread'[d] = IF d = c THEN "kernel" ELSE thread[d]
    BY <2>1 DEF Control
  <2>5. NoneFailed'
    BY <2>1, <2>2, <2>4 DEF Healthy, NoneFailed
  <2>6. DmaWords' = DmaWords /\ First' = First /\ Threads' = Threads
    BY <2>1 DEF DmaWords, First, Threads, Is
  <2>7. Returned'
    <3>. SUFFICES ASSUME NEW d \in Dir, Started(d)'
                  PROVE  thread'[d] \in {"kernel", "ok"} /\ (thread'[d] = "ok" => moved'[d] = DmaWords)
      BY <2>6 DEF Returned
    <3>1. CASE d = c
      BY <2>4, <3>1
    <3>2. CASE d # c
      <4>1. at = "second" /\ d = First
        BY <2>1, <2>6, <3>2 DEF Started, Dir, First
      <4>2. Started(d)
        BY <2>2, <4>1 DEF Started
      <4>. QED
        BY <2>1, <2>2, <2>4, <3>2, <4>1, <4>2 DEF Healthy, Returned, Streaming
    <3>. QED
      BY <3>1, <3>2
  <2>8. Drained' /\ InTurn' /\ Announced'
    BY <2>1 DEF Drained, InTurn, Announced
  <2>. QED
    BY <2>3, <2>5, <2>7, <2>8 DEF Healthy
<1>5. CASE Enable \/ JoinTx \/ JoinRx
  <2>1. clean /\ UNCHANGED <<prog, cold, txf, rxf, src, rx, thread, moved, opt, errors>>
        /\ at \in {"enable", "joinTx", "joinRx"} /\ at' \in {"joinTx", "joinRx", "judge"}
    BY <1>5 DEF Enable, JoinTx, JoinRx, transferVars, pioVars, bufVars, xferVars, noteVars, countVars
  <2>2. Healthy /\ Threads
    BY <2>1 DEF Undisturbed, Control, Threads, Is
  <2>3. Flowing'
    <3>1. Stream
      BY <2>1, <2>2 DEF Healthy, Flowing, Streaming
    <3>. QED
      BY <2>1, <2>2, <3>1, StreamStill DEF Flowing
  <2>4. DmaWords' = DmaWords /\ Threads' = Threads
    BY <2>1 DEF DmaWords, Threads, Is
  <2>5. Returned'
    BY <2>1, <2>2, <2>4 DEF Healthy, Returned, Started, Streaming
  <2>6. Drained' /\ InTurn' /\ Announced'
    BY <2>1, <2>2 DEF Drained, InTurn, Announced, Threads, Is
  <2>. QED
    BY <1>0, <2>1, <2>2, <2>3, <2>5, <2>6 DEF Healthy
<1>6. CASE Crash \/ Fail \/ GoOn
  <2>1. clean
    BY <1>6 DEF Crash, Fail, GoOn, transferVars, noteVars
  <2>2. NoneFailed
    BY <2>1 DEF Undisturbed, Healthy
  <2>. QED
    BY <1>6, <2>2 DEF Crash, Fail, GoOn, Failed, NoneFailed, Dir
<1>7. CASE Put
  <2>1. clean /\ UNCHANGED <<thread, errors, moved, opt>> /\ at = "put" /\ at' = "get"
    BY <1>7 DEF Put, xferVars, noteVars, countVars
  <2>2. Healthy /\ Is("blocking") /\ ~Threads /\ ~cold /\ prog = "not"
    BY <2>1 DEF Undisturbed, Control, Powered, Loaded, Inside, Threads, Is
  <2>3. Flowing'
    <3>1. Stream
      BY <2>1, <2>2 DEF Healthy, Flowing, Streaming
    <3>. QED
      BY <1>7, <2>1, <2>2, <3>1, StreamPut DEF Flowing
  <2>4. Drained' /\ InTurn' /\ Announced' /\ Returned'
    BY <2>1, <2>2 DEF Healthy, Drained, InTurn, Announced, Returned, Started
  <2>. QED
    BY <1>0, <2>1, <2>2, <2>3, <2>4 DEF Healthy
<1>8. CASE Get
  <2>1. clean /\ UNCHANGED <<thread, errors, prog, opt>> /\ at = "get"
        /\ at' = (IF moved["rx"] + 1 = Words THEN "judge" ELSE "put")
        /\ moved' = [moved EXCEPT !["rx"] = moved["rx"] + 1]
    BY <1>8 DEF Get, noteVars, countVars
  <2>2. Healthy /\ Is("blocking") /\ ~Threads /\ ~cold /\ prog = "not"
        /\ rx = [j \in 1..DmaWords |-> rx[j]]
    BY <2>1 DEF Undisturbed, Control, Powered, Loaded, Inside, Threads, Is, Buffer
  <2>3. Stream /\ moved["rx"] < Words
    BY <2>1, <2>2 DEF Healthy, Flowing, InTurn, Streaming
  <2>4. Flowing'
    BY <1>8, <2>1, <2>2, <2>3, StreamGet DEF Flowing
  <2>5. moved'["rx"] = moved["rx"] + 1 /\ moved["rx"] \in Nat
    BY <2>1, <2>3 DEF Stream, StreamType, Dir
  <2>6. InTurn'
    BY <2>1, <2>3, <2>5, TransferAssumption DEF InTurn
  <2>7. Drained' /\ Announced'
    BY <2>1 DEF Drained, Announced
  <2>8. Returned'
    BY <2>1, <2>2 DEF Returned, Started, Threads, Is
  <2>. QED
    BY <1>0, <2>1, <2>2, <2>4, <2>6, <2>7, <2>8 DEF Healthy
<1>9. CASE Verify
  <2>1. clean /\ UNCHANGED <<thread, txf, rxf, opt>> /\ at = "judge" /\ at' = "loop"
        /\ errors' = errors + Counted
    BY <1>9 DEF Verify, transferVars, pioVars, xferVars, noteVars
  <2>2. Healthy
    BY <2>1 DEF Undisturbed
  <2>3. Stream /\ moved["rx"] = DmaWords /\ (~Is("gpio") => txf = <<>> /\ rxf = <<>>)
    BY <2>1, <2>2, TransferDone
  <2>4. Counted = 0
    BY <2>1, <2>3, NothingWrong DEF Counted
  <2>5. NoneFailed'
    BY <2>1, <2>2, <2>4 DEF Healthy, NoneFailed
  <2>6. Drained'
    BY <2>1, <2>3 DEF Drained, Is
  <2>7. Flowing' /\ Returned' /\ InTurn' /\ Announced'
    BY <2>1 DEF Flowing, Returned, InTurn, Announced, Streaming
  <2>. QED
    BY <2>5, <2>6, <2>7 DEF Healthy
<1>10. CASE Report
  <2>1. clean /\ UNCHANGED <<thread, errors>> /\ at' = "free"
        /\ result' = (IF errors = 0 /\ "cli" \notin missed' THEN "pass" ELSE "fail")
        /\ json' = (IF errors = 0 /\ "fixed" \notin missed' THEN "pass" ELSE "fail")
    BY <1>10 DEF Report, transferVars, xferVars, noteVars, countVars
  <2>2. Healthy /\ errors = 0
    BY <2>1 DEF Undisturbed, Healthy, NoneFailed
  <2>3. Announced'
    BY <2>1, <2>2 DEF Announced
  <2>4. Drained' /\ Flowing' /\ Returned' /\ InTurn'
    BY <2>1 DEF Drained, Flowing, Returned, InTurn, Streaming
  <2>. QED
    BY <1>0, <2>1, <2>2, <2>3, <2>4 DEF Healthy
<1>11. CASE NoScratch
  BY <1>11 DEF NoScratch
<1>12. CASE Free \/ Release
  <2>1. clean /\ UNCHANGED <<thread, errors, missed, result, json>> /\ at \in {"free", "release"}
        /\ at' \in {"release", "done"}
    BY <1>12 DEF Free, Release, transferVars, xferVars, noteVars, countVars, endVars
  <2>2. Healthy
    BY <2>1 DEF Undisturbed
  <2>3. Announced'
    BY <2>1, <2>2 DEF Healthy, Announced
  <2>4. Drained' /\ Flowing' /\ Returned' /\ InTurn'
    BY <2>1 DEF Drained, Flowing, Returned, InTurn, Streaming
  <2>. QED
    BY <1>0, <2>1, <2>2, <2>3, <2>4 DEF Healthy
<1>. QED
  BY <1>1, <1>2, <1>3, <1>4, <1>5, <1>6, <1>7, <1>8, <1>9, <1>10, <1>11, <1>12 DEF Main

LEMMA UndisturbedStep ==
  Control /\ Buffer /\ Powered /\ Undisturbed /\ [Next]_vars => (Powered /\ Undisturbed)'
<1> SUFFICES ASSUME Control, Buffer, Powered, Undisturbed, [Next]_vars
             PROVE  Powered' /\ Undisturbed'
  OBVIOUS
<1>1. CASE Main
  BY <1>1, PoweredMain, UndisturbedMain
<1>2. CASE Hardware /\ UNCHANGED benchVars
  BY <1>2, PoweredHardware, UndisturbedHardware
<1>3. CASE UNCHANGED vars
  <2>1. UNCHANGED <<transferVars, benchVars>>
    BY <1>3 DEF vars
  <2>2. UNCHANGED <<pioVars, bufVars, xferVars, noteVars, opt, at, iter, errors, endVars>>
    BY <2>1 DEF transferVars, benchVars, countVars
  <2>3. Powered'
    BY <2>2 DEF Powered, Filled, Is, pioVars, bufVars, xferVars
  <2>4. UNCHANGED <<prog, src, rx, moved, txf, rxf, cold, thread, clean, missed, result, json>>
    BY <2>2 DEF pioVars, bufVars, xferVars, noteVars, endVars
  <2>5. at \in Streaming /\ Healthy => Stream'
    BY <2>2, <2>4, StreamStill DEF Healthy, Flowing
  <2>6. Healthy => Flowing' /\ Drained' /\ NoneFailed' /\ InTurn' /\ Announced'
    BY <2>2, <2>4, <2>5 DEF Healthy, Flowing, Drained, NoneFailed, InTurn, Announced, Is
  <2>7. Healthy => Returned'
    BY <2>2, <2>4 DEF Healthy, Returned, Started, Threads, First, Is, DmaWords
  <2>. QED
    BY <2>3, <2>4, <2>6, <2>7 DEF Undisturbed, Healthy
<1>. QED
  BY <1>1, <1>2, <1>3 DEF Next

\* A run in which nothing failed or was disturbed, and which did not miss its
\* threshold, passes: the words of every transfer come back complete and in
\* order, the calls return, and nothing is left for the next iteration.
THEOREM CleanRunsPass == Spec => []CleanRunPasses
<1>1. Init => Control /\ Buffer /\ Powered /\ Undisturbed
  BY ControlInit, BufferInit, PoweredInit, UndisturbedInit
<1>2. Control /\ Buffer /\ Powered /\ Undisturbed /\ [Next]_vars
        => (Control /\ Buffer /\ Powered /\ Undisturbed)'
  BY ControlStep, BufferStep, UndisturbedStep
<1>3. Undisturbed => CleanRunPasses
  BY DEF Undisturbed, Healthy, Announced, CleanRunPasses
<1>. QED
  BY <1>1, <1>2, <1>3, PTL DEF Spec

-----------------------------------------------------------------------------
(* Types.  A word fits where main and the calls put it because main begins *)
(* a transfer only below its quota, each call stops at DmaWords, and       *)
(* without threads one word at a time is under way.                        *)

Quota == IF Is("baseline") THEN MaxRounds ELSE Total

MainType ==
  /\ at \in Lines
  /\ iter \in 0..Quota /\ (at \in Transferring \cup {"fill"} => iter < Quota)
  /\ errors \in Nat /\ good \in BOOLEAN /\ missed \subseteq Thresholds
  /\ result \in {"none", "pass", "fail"} /\ json \in {"none", "pass", "fail"}
  /\ bufs \in BOOLEAN
  /\ at \in {"open", "release", "done"} \/ (at = "config" /\ ~Is("baseline")) => ~bufs

BlockType ==
  /\ prog \in {"none", "not", "pins"} /\ en \in BOOLEAN /\ cold \in BOOLEAN
  /\ en => prog # "none" /\ at # "open"
  /\ cold => prog \in {"pins", "none"}
  /\ faults \in 0..MaxFaults /\ clean \in BOOLEAN

OneWord == Is("blocking") /\ at \in Inside \cup {"config", "alloc"} =>
             Len(txf) + Len(rxf) = IF at = "get" THEN 1 ELSE 0

FifoType ==
  /\ prog # "none" => txf \in Seq(DmaWord) /\ rxf \in Seq(DmaWord)
  /\ Len(txf) \in 0..Depth /\ Len(rxf) \in 0..Depth
  /\ at = "open" => txf = <<>> /\ rxf = <<>>
  /\ OneWord

BufferType ==
  /\ src \in [Index -> Word]
  /\ bufs => rx \in [1..DmaWords -> DmaWord] /\ fresh \subseteq 1..DmaWords
  /\ at \in {"open", "config", "alloc"} => fresh = {}

MovedType ==
  /\ moved \in [Dir -> Nat]
  /\ at = "open" => moved = [d \in Dir |-> 0]
  /\ prog # "none" => \A d \in Dir : moved[d] <= DmaWords
  /\ at \in {"put", "get"} => moved["rx"] < Words

TypeInv ==
  Control /\ Powered /\ MainType /\ BlockType /\ FifoType /\ BufferType /\ MovedType

\* Inverting keeps a word a word, and so does a turn of the program.
LEMMA TurnedWord ==
  /\ \A w \in Word : Not(w) \in Word
  /\ \A w \in DmaWord : Out(w) \in DmaWord
  /\ Zero \in Word /\ Not(Zero) \in Word
<1>1. \A w \in Word : Not(w) \in Word
  <2> SUFFICES ASSUME NEW w \in Word PROVE Not(w) \in Word
    OBVIOUS
  <2>1. \A b \in 1..Bits : 1 - w[b] \in Bit
    <3>1. \A b \in 1..Bits : w[b] \in Bit
      BY DEF Word
    <3> QED BY <3>1 DEF Bit
  <2> QED BY <2>1 DEF Not, Word
<1>2. Zero \in Word
  BY DEF Zero, Word, Bit
<1> QED BY <1>1, <1>2 DEF Out, DmaWord

\* What expand_tx puts at a position of the DMA buffer is a word of it.
LEMMA SentWord ==
  ASSUME src \in [Index -> Word], NEW i \in 1..DmaWords
  PROVE  Sent(i) \in DmaWord
<1>0. Words \in Nat /\ Bits \in Nat \ {0}
  BY TransferAssumption
<1>1. CASE prog # "pins"
  BY <1>1 DEF Sent, DmaWord, DmaWords, Index
<1>2. CASE prog = "pins" /\ i <= Words * Bits
  <2> DEFINE a == (i - 1) \div Bits
             r == (i - 1) % Bits
  <2>0. i \in Nat /\ i >= 1
    BY <1>2, DmaWordsNat
  <2>1. a \in Int /\ r \in 0..(Bits - 1) /\ i - 1 = Bits * a + r
    BY <1>0, <2>0
  <2>s. Sent(i) = src[a + 1][r + 1]
    BY <1>2 DEF Sent
  <2> HIDE DEF a, r
  <2>2. a >= 0
    <3>1. CASE a <= -1
      <4>1. Bits * a <= -Bits
        BY <1>0, <2>1, <3>1
      <4> QED BY <1>0, <2>0, <2>1, <4>1
    <3> QED BY <2>1, <3>1
  <2>3. a < Words
    <3>1. CASE a >= Words
      <4>1. Bits * a >= Words * Bits
        BY <1>0, <2>1, <3>1
      <4>2. Bits * a \in Int /\ Words * Bits \in Int
        BY <1>0, <2>1
      <4> QED BY <1>0, <1>2, <2>0, <2>1, <4>1, <4>2
    <3> QED BY <1>0, <2>1, <3>1
  <2>4. a + 1 \in Index /\ r + 1 \in 1..Bits
    BY <1>0, <2>1, <2>2, <2>3 DEF Index
  <2>5. src[a + 1][r + 1] \in Bit
    BY <2>4 DEF Word
  <2> QED BY <1>2, <2>s, <2>5 DEF DmaWord
<1>3. CASE prog = "pins" /\ ~(i <= Words * Bits)
  BY <1>3 DEF Sent, DmaWord, Bit
<1> QED BY <1>1, <1>2, <1>3

\* bench_fill_pattern fills the buffer with words.
LEMMA PatternWords ==
  ASSUME NEW pattern \in Patterns \cup {"tagged"}, NEW seed,
         pattern = "random" => seed \in 1..Total
  PROVE  bench_fill_pattern(pattern, seed) \in [Index -> Word]
<1> SUFFICES ASSUME NEW i \in Index
             PROVE  bench_fill_pattern(pattern, seed)[i] \in Word
  BY DEF bench_fill_pattern
<1> DEFINE w == bench_fill_pattern(pattern, seed)[i]
<1>0. Sequential(i) \in Word
  BY DEF Sequential, Word, Bit
<1>1. CASE pattern = "random"
  <2>1. w = Random[seed][i]
    BY <1>1 DEF bench_fill_pattern
  <2> QED BY <1>1, <2>1, BenchAssumption
<1>2. CASE pattern = "tagged"
  <2>1. w = [Sequential(i) EXCEPT ![1] = 1]
    BY <1>2 DEF bench_fill_pattern
  <2> QED BY <1>0, <2>1 DEF Word, Bit
<1>3. CASE pattern = "sequential"
  BY <1>0, <1>3 DEF bench_fill_pattern
<1>4. CASE pattern = "ones"
  BY <1>4, TurnedWord DEF bench_fill_pattern
<1>5. CASE pattern = "alternating"
  <2>1. w = [b \in 1..Bits |-> (b + i + 1) % 2]
    BY <1>5 DEF bench_fill_pattern
  <2>2. \A b \in 1..Bits : (b + i + 1) % 2 \in Bit
    BY TransferAssumption DEF Bit, Index
  <2> QED BY <2>1, <2>2 DEF Word
<1>6. CASE pattern = "other"
  BY <1>6, TurnedWord DEF bench_fill_pattern
<1> HIDE DEF w
<1> QED
  BY <1>1, <1>2, <1>3, <1>4, <1>5, <1>6 DEF Patterns, w

LEMMA ClearedWords == Cleared \in [1..DmaWords -> DmaWord]
<1>1. 0 \in Bit
  BY DEF Bit
<1> QED BY <1>1, TurnedWord DEF Cleared, DmaWord

-----------------------------------------------------------------------------

LEMMA TypesInit == Init => TypeInv
<1> SUFFICES ASSUME Init PROVE TypeInv
  OBVIOUS
<1>0. MaxRounds \in Nat /\ Total \in Nat /\ Depth \in Nat /\ MaxFaults \in Nat
  BY BenchAssumption, TransferAssumption DEF Total
<1>b. /\ bufs \in BOOLEAN /\ good \in BOOLEAN /\ en \in BOOLEAN /\ cold \in BOOLEAN
      /\ clean \in BOOLEAN /\ ~bufs /\ ~en /\ ~cold
  BY Zenon DEF Init
<1>1. MainType
  <2>1. 0 \in 0..Quota
    BY <1>0 DEF Quota
  <2> QED BY <1>b, <2>1 DEF Init, MainType, Lines, Transferring
<1>2. BlockType
  BY <1>0, <1>b DEF Init, BlockType
<1>3. FifoType
  BY <1>0 DEF Init, FifoType, OneWord, Inside
<1>4. BufferType
  BY TurnedWord DEF Init, BufferType
<1>5. MovedType
  BY DEF Init, MovedType, Dir
<1> QED BY <1>1, <1>2, <1>3, <1>4, <1>5, ControlInit, PoweredInit DEF TypeInv

\* Main: its own state.
LEMMA MainTypeStep == Control /\ MainType /\ Main => MainType'
<1> SUFFICES ASSUME Control, MainType, Main PROVE MainType'
  OBVIOUS
<1> USE DEF Goto, Abandon, transferVars, countVars, endVars, MainType, Lines, Transferring
<1>0. Quota \in Nat
  BY BenchAssumption DEF Quota, Total
<1>q. opt' = opt /\ Quota' = Quota
  BY DEF Main, Open, Config, Allocate, Loop, Fill, ResetSm, SpawnFirst, SpawnSecond, Spawn,
     Enable, JoinTx, JoinRx, Crash, Put, Get, Fail, GoOn, Verify, Report, NoScratch, Free,
     Release, Quota, Is
<1>r. Is("baseline")' = Is("baseline")
  BY <1>q DEF Is
<1>1. CASE Open
  BY <1>0, <1>q, <1>r, <1>1 DEF Open
<1>2. CASE Config
  BY <1>0, <1>q, <1>r, <1>2 DEF Config, Is
<1>3. CASE Allocate
  BY <1>0, <1>q, <1>r, <1>3 DEF Allocate
<1>4. CASE Loop
  <2>1. at' = "fill" => iter < Quota
    BY <1>4 DEF Loop, Quota
  <2>2. at' \in {"fill", "report"}
    BY <1>4 DEF Loop
  <2> QED BY <1>0, <1>q, <1>r, <1>4, <2>1, <2>2 DEF Loop
<1>5. CASE Fill
  BY <1>0, <1>q, <1>r, <1>5 DEF Fill
<1>6. CASE ResetSm
  BY <1>0, <1>q, <1>r, <1>6 DEF ResetSm
<1>7. CASE SpawnFirst
  BY <1>0, <1>q, <1>r, <1>7 DEF SpawnFirst, Spawn
<1>8. CASE SpawnSecond
  BY <1>0, <1>q, <1>r, <1>8 DEF SpawnSecond, Spawn
<1>9. CASE Enable
  BY <1>0, <1>q, <1>r, <1>9 DEF Enable
<1>10. CASE JoinTx \/ JoinRx
  BY <1>0, <1>q, <1>r, <1>10 DEF JoinTx, JoinRx
<1>11. CASE Crash
  BY <1>0, <1>q, <1>r, <1>11 DEF Crash
<1>12. CASE Put
  BY <1>0, <1>q, <1>r, <1>12 DEF Put
<1>13. CASE Get
  BY <1>0, <1>q, <1>r, <1>13 DEF Get
<1>14. CASE Fail
  BY <1>0, <1>q, <1>r, <1>14 DEF Fail
<1>15. CASE GoOn
  BY <1>0, <1>q, <1>r, <1>15 DEF GoOn
<1>16. CASE Verify
  <2>1. good' \in BOOLEAN
    BY <1>16, Zenon DEF Verify
  <2>2. errors' \in Nat
    BY <1>16, CountedZero DEF Verify
  <2> QED BY <1>0, <1>q, <1>r, <1>16, <2>1, <2>2 DEF Verify
<1>17. CASE Report
  <2>1. missed' \subseteq Thresholds
    BY <1>17 DEF Report
  <2> QED BY <1>0, <1>q, <1>r, <1>17, <2>1 DEF Report
<1>18. CASE NoScratch
  BY <1>0, <1>q, <1>r, <1>18 DEF NoScratch
<1>19. CASE Free
  BY <1>0, <1>q, <1>r, <1>19 DEF Free
<1>20. CASE Release
  BY <1>0, <1>q, <1>r, <1>20 DEF Release
<1> QED
  BY <1>1, <1>2, <1>3, <1>4, <1>5, <1>6, <1>7, <1>8, <1>9, <1>10, <1>11, <1>12, <1>13,
     <1>14, <1>15, <1>16, <1>17, <1>18, <1>19, <1>20 DEF Main

\* The state machine's configuration and what is noted of the run.
LEMMA BlockTypeMain == Control /\ Powered /\ BlockType /\ Main => BlockType'
<1> SUFFICES ASSUME Control, Powered, BlockType, Main PROVE BlockType'
  OBVIOUS
<1> USE DEF Goto, Abandon, transferVars, pioVars, noteVars, BlockType
<1>a. at' # "open"
  BY DEF Main, Open, Config, Allocate, Loop, Fill, ResetSm, SpawnFirst, SpawnSecond, Spawn,
     Enable, JoinTx, JoinRx, Crash, Put, Get, Fail, GoOn, Verify, Report, NoScratch, Free,
     Release
<1>1. CASE Open
  <2>1. clean' = clean \/ clean' = FALSE
    BY <1>1, Zenon DEF Open
  <2>2. clean' \in BOOLEAN
    BY <2>1, Zenon
  <2>3. /\ prog' \in {"none", "not", "pins"} /\ ~en
        /\ cold => prog' \in {"pins", "none"}
    BY <1>1 DEF Open, Powered
  <2>4. UNCHANGED <<en, cold, faults>>
    BY <1>1 DEF Open
  <2> QED BY <1>a, <2>2, <2>3, <2>4
<1>2. CASE Config
  BY <1>a, <1>2 DEF Config, Control, Loaded
<1>3. CASE Allocate
  BY <1>a, <1>3 DEF Allocate
<1>4. CASE Loop \/ Fill
  BY <1>a, <1>4 DEF Loop, Fill
<1>5. CASE ResetSm
  BY <1>a, <1>5 DEF ResetSm, Control, Loaded, Inside
<1>6. CASE SpawnFirst \/ SpawnSecond
  <2>1. clean' = clean \/ clean' = FALSE
    BY <1>6, Zenon DEF SpawnFirst, SpawnSecond, Spawn
  <2>2. clean' \in BOOLEAN
    BY <2>1, Zenon
  <2>3. UNCHANGED <<prog, en, cold, faults>>
    BY <1>6 DEF SpawnFirst, SpawnSecond, Spawn
  <2> QED BY <1>a, <2>2, <2>3
<1>7. CASE Enable
  BY <1>a, <1>7 DEF Enable, Control, Loaded, Inside
<1>8. CASE JoinTx
  BY <1>a, <1>8 DEF JoinTx
<1>15. CASE JoinRx
  <2>1. en' \in BOOLEAN
    BY <1>15, Zenon DEF JoinRx
  <2>2. en' => en
    BY <1>15, Zenon DEF JoinRx
  <2>3. UNCHANGED <<prog, cold, faults, clean>>
    BY <1>15 DEF JoinRx
  <2> QED BY <1>a, <2>1, <2>2, <2>3
<1>9. CASE Crash
  BY <1>a, <1>9 DEF Crash
<1>10. CASE Put \/ Get
  BY <1>a, <1>10 DEF Put, Get
<1>11. CASE Fail \/ GoOn \/ Verify
  BY <1>a, <1>11 DEF Fail, GoOn, Verify
<1>12. CASE Report \/ NoScratch \/ Free
  <2>1. clean' = clean \/ clean' = FALSE
    BY <1>12, Zenon DEF Report, NoScratch, Free
  <2>2. clean' \in BOOLEAN
    BY <2>1, Zenon
  <2>3. UNCHANGED <<prog, en, cold, faults>>
    BY <1>12 DEF Report, NoScratch, Free
  <2> QED BY <1>a, <2>2, <2>3
<1>13. CASE Release
  BY <1>a, <1>13 DEF Release
<1> QED
  BY <1>1, <1>2, <1>3, <1>4, <1>5, <1>6, <1>7, <1>8, <1>9, <1>10, <1>11, <1>12, <1>13, <1>15
     DEF Main

LEMMA BlockTypeHardware == BlockType /\ Hardware /\ at' = at => BlockType'
<1> SUFFICES ASSUME BlockType, Hardware, at' = at PROVE BlockType'
  OBVIOUS
<1> USE DEF pioVars, noteVars, BlockType
<1>0. MaxFaults \in Nat
  BY TransferAssumption
<1>1. CASE FillTx \/ DrainRx
  BY <1>1 DEF FillTx, DrainRx
<1>2. CASE \E d \in Dir : Complete(d)
  BY <1>2 DEF Complete
<1>3. CASE GiveUp
  <2>1. PICK d \in Dir : Timeout(d, Waiting)
    BY <1>3 DEF GiveUp
  <2>2. clean' \in BOOLEAN
    BY <2>1, Zenon DEF Timeout
  <2> QED BY <2>1, <2>2 DEF Timeout
<1>4. CASE Turn
  BY <1>4 DEF Turn
<1>5. CASE Fault
  <2>1. UNCHANGED <<prog, en, cold>>
    BY <1>5 DEF Fault, Lose, Duplicate, Spoil, Miss
  <2>2. Disturb
    BY <1>5, Zenon DEF Fault, Lose, Duplicate, Spoil, Miss
  <2>3. faults' \in 0..MaxFaults
    BY <1>0, <2>2 DEF Disturb
  <2>4. clean' \in BOOLEAN
    BY <2>2, Zenon DEF Disturb
  <2> QED BY <2>1, <2>3, <2>4
<1> QED BY <1>1, <1>2, <1>3, <1>4, <1>5 DEF Hardware, Channels

\* While a call is in the kernel the program is loaded and the buffers are there.
LEMMA KernelAt ==
  ASSUME Control, NEW d \in Dir, InKernel(d)
  PROVE  /\ prog # "none" /\ bufs /\ ~Is("blocking")
         /\ at \in {"second", "enable", "joinTx", "joinRx"}
<1>1. at \in {"second", "enable", "joinTx", "joinRx"}
  BY DEF Control, Dir
<1>2. prog # "none" /\ bufs
  BY <1>1 DEF Control, Inside, Loaded
<1>3. ~Is("blocking")
  BY <1>1 DEF Control, Threads, Is
<1> QED BY <1>1, <1>2, <1>3

LEMMA Adding ==
  ASSUME NEW S, NEW q \in Seq(S), NEW e \in S
  PROVE  Append(q, e) \in Seq(S) /\ Len(Append(q, e)) = Len(q) + 1 /\ Len(q) \in Nat
  OBVIOUS

LEMMA Taking ==
  ASSUME NEW S, NEW q \in Seq(S), q # <<>>
  PROVE  /\ Head(q) \in S /\ Tail(q) \in Seq(S)
         /\ Len(q) > 0 /\ Len(q) \in Nat /\ Len(Tail(q)) = Len(q) - 1
  OBVIOUS

LEMMA Nothing == ASSUME NEW S PROVE <<>> \in Seq(S) /\ Len(<<>>) = 0
  OBVIOUS

\* A FIFO changes in its contents only.
LEMMA FifoStep ==
  ASSUME FifoType, UNCHANGED <<opt, prog, at>>, prog # "none", at # "open",
         txf' \in Seq(DmaWord), rxf' \in Seq(DmaWord),
         Len(txf') \in 0..Depth, Len(rxf') \in 0..Depth,
         Is("blocking") => Len(txf') + Len(rxf') = Len(txf) + Len(rxf)
  PROVE  FifoType'
<1>1. DmaWord' = DmaWord
  BY DEF DmaWord
<1>2. OneWord'
  BY DEF FifoType, OneWord, Is
<1> QED BY <1>1, <1>2 DEF FifoType

LEMMA FifoTypeHardware ==
  TypeInv /\ Hardware /\ UNCHANGED benchVars => FifoType'
<1> SUFFICES ASSUME TypeInv, Hardware, UNCHANGED benchVars PROVE FifoType'
  OBVIOUS
<1>0. UNCHANGED <<opt, at>> /\ Depth \in Nat
  BY TransferAssumption DEF benchVars
<1>i. Control /\ Powered /\ BlockType /\ FifoType /\ BufferType /\ MovedType
  BY DEF TypeInv
<1>w. prog # "none" => txf \in Seq(DmaWord) /\ rxf \in Seq(DmaWord)
  BY <1>i DEF FifoType
<1>l. Len(txf) \in 0..Depth /\ Len(rxf) \in 0..Depth
  BY <1>i DEF FifoType
<1>1. CASE FillTx
  <2>1. InKernel("tx") /\ "tx" \in Dir
    BY <1>1 DEF FillTx, CanFill, Dir
  <2>2. prog # "none" /\ ~Is("blocking") /\ at # "open"
    BY <1>i, <2>1, KernelAt
  <2>3. moved["tx"] + 1 \in 1..DmaWords
    BY <1>1, <1>i, DmaWordsNat DEF FillTx, CanFill, MovedType, Dir
  <2>4. Sent(moved["tx"] + 1) \in DmaWord
    BY <1>i, <2>3, SentWord DEF BufferType
  <2>5. txf' = Append(txf, Sent(moved["tx"] + 1)) /\ UNCHANGED <<prog, rxf>> /\ Len(txf) < Depth
    BY <1>1 DEF FillTx, CanFill
  <2>6. txf' \in Seq(DmaWord) /\ Len(txf') \in 0..Depth
    BY <1>0, <1>w, <2>2, <2>4, <2>5, Adding
  <2> QED BY <1>0, <1>i, <1>w, <1>l, <2>2, <2>5, <2>6, FifoStep
<1>2. CASE DrainRx \/ Miss
  <2>1. InKernel("rx") /\ "rx" \in Dir /\ rxf # <<>>
    BY <1>2 DEF DrainRx, Miss, CanDrain, Dir
  <2>2. prog # "none" /\ ~Is("blocking") /\ at # "open"
    BY <1>i, <2>1, KernelAt
  <2>3. rxf' = Tail(rxf) /\ UNCHANGED <<prog, txf>>
    BY <1>2 DEF DrainRx, Miss
  <2>4. rxf' \in Seq(DmaWord) /\ Len(rxf') \in 0..Depth
    BY <1>0, <1>l, <1>w, <2>1, <2>2, <2>3, Taking
  <2> QED BY <1>0, <1>i, <1>w, <1>l, <2>2, <2>3, <2>4, FifoStep
<1>3. CASE Turn
  <2>1. prog # "none" /\ at # "open" /\ prog' = prog /\ Len(rxf) < Depth
    BY <1>3, <1>i DEF Turn, CanTurn, BlockType
  <2>2. CASE cold
    <3>1. prog = "pins" /\ ~Is("blocking")
      BY <1>i, <2>1, <2>2 DEF BlockType, Powered, Is
    <3>2. PICK garbage \in Bit : rxf' = Append(rxf, garbage)
      BY <1>3, <2>2 DEF Turn
    <3>3. txf' = txf
      BY <1>3, <2>2 DEF Turn
    <3>4. rxf' \in Seq(DmaWord) /\ Len(rxf') \in 0..Depth
      <4>1. garbage \in DmaWord
        BY <3>1 DEF DmaWord
      <4> QED BY <1>0, <1>w, <2>1, <3>2, <4>1, Adding
    <3> QED BY <1>0, <1>i, <1>w, <1>l, <2>1, <3>1, <3>3, <3>4, FifoStep
  <2>3. CASE ~cold
    <3>1. txf # <<>> /\ rxf' = Append(rxf, Out(Head(txf))) /\ txf' = Tail(txf)
      BY <1>3, <2>3 DEF Turn, CanTurn
    <3>2. Head(txf) \in DmaWord /\ Tail(txf) \in Seq(DmaWord) /\ Len(txf') = Len(txf) - 1
          /\ Len(txf) > 0
      BY <1>w, <2>1, <3>1, Taking
    <3>3. Out(Head(txf)) \in DmaWord
      BY <3>2, TurnedWord
    <3>4. rxf' \in Seq(DmaWord) /\ Len(rxf') = Len(rxf) + 1
      BY <1>w, <2>1, <3>1, <3>3, Adding
    <3>5. /\ Len(txf') \in 0..Depth /\ Len(rxf') \in 0..Depth
          /\ Len(txf') + Len(rxf') = Len(txf) + Len(rxf)
      BY <1>0, <1>l, <2>1, <3>2, <3>4
    <3> QED BY <1>0, <1>i, <2>1, <3>1, <3>2, <3>4, <3>5, FifoStep
  <2> QED BY <2>2, <2>3
<1>4. CASE Lose \/ Duplicate \/ Spoil
  <2>1. PICK d \in Dir : InKernel(d)
    BY <1>4 DEF Lose, Duplicate, Spoil, Disturb
  <2>2. prog # "none" /\ ~Is("blocking") /\ at # "open"
    BY <1>i, <2>1, KernelAt
  <2>3. txf # <<>> /\ prog' = prog /\ Len(rxf) < Depth
    BY <1>4 DEF Lose, Duplicate, Spoil, CanTurn
  <2>4. Head(txf) \in DmaWord /\ Tail(txf) \in Seq(DmaWord) /\ Len(Tail(txf)) \in 0..Depth
    BY <1>0, <1>l, <1>w, <2>2, <2>3, Taking
  <2>5. Out(Head(txf)) \in DmaWord
    BY <2>4, TurnedWord
  <2>6. txf' = txf \/ txf' = Tail(txf)
    BY <1>4 DEF Lose, Duplicate, Spoil
  <2>7. rxf' = rxf \/ \E w \in DmaWord : rxf' = Append(rxf, w)
    BY <1>4, <2>5 DEF Lose, Duplicate, Spoil
  <2>8. rxf' \in Seq(DmaWord) /\ Len(rxf') \in 0..Depth
    <3>1. CASE rxf' = rxf
      BY <1>l, <1>w, <2>2, <3>1
    <3>2. CASE \E w \in DmaWord : rxf' = Append(rxf, w)
      <4>1. PICK w \in DmaWord : rxf' = Append(rxf, w)
        BY <3>2
      <4> QED BY <1>0, <1>w, <2>2, <2>3, <4>1, Adding
    <3> QED BY <2>7, <3>1, <3>2
  <2>9. txf' \in Seq(DmaWord) /\ Len(txf') \in 0..Depth
    BY <1>l, <1>w, <2>2, <2>4, <2>6
  <2> QED BY <1>0, <1>i, <2>2, <2>3, <2>8, <2>9, FifoStep
<1>5. CASE \E d \in Dir : Complete(d) \/ Timeout(d, Waiting)
  <2>1. UNCHANGED <<prog, txf, rxf>>
    BY <1>5 DEF Complete, Timeout, pioVars
  <2>2. DmaWord' = DmaWord /\ OneWord' = OneWord
    BY <1>0, <2>1 DEF DmaWord, OneWord, Is
  <2> QED BY <1>0, <1>i, <2>1, <2>2 DEF FifoType
<1> QED
  BY <1>1, <1>2, <1>3, <1>4, <1>5 DEF Hardware, Channels, GiveUp, Fault

\* A statement that leaves the FIFOs alone.
LEMMA FifoKeep ==
  ASSUME FifoType, UNCHANGED <<opt, prog, txf, rxf>>, at # "get",
         at' \notin {"get", "open"},
         at' \in Inside \cup {"config", "alloc"} => at \in Inside \cup {"config", "alloc"}
  PROVE  FifoType'
<1>1. DmaWord' = DmaWord
  BY DEF DmaWord
<1>2. OneWord'
  BY DEF FifoType, OneWord, Is
<1> QED BY <1>1, <1>2 DEF FifoType

LEMMA FifoTypeMain == TypeInv /\ Main => FifoType'
<1> SUFFICES ASSUME TypeInv, Main PROVE FifoType'
  OBVIOUS
<1> USE DEF Goto, Abandon, Inside, transferVars, pioVars
<1>0. Depth \in Nat /\ Depth >= 1
  BY TransferAssumption
<1>i. Control /\ MainType /\ FifoType /\ BufferType /\ MovedType
  BY DEF TypeInv
<1>1. CASE Open
  <2>1. txf' = <<>> /\ rxf' = <<>> /\ at' \notin {"open", "get"}
    BY <1>1, <1>i DEF Open, FifoType
  <2> QED BY <1>0, <2>1, Nothing DEF FifoType, OneWord
<1>2. CASE Config
  BY <1>2, <1>i, FifoKeep DEF Config
<1>3. CASE Allocate
  BY <1>3, <1>i, FifoKeep DEF Allocate
<1>4. CASE Loop
  BY <1>4, <1>i, FifoKeep DEF Loop
<1>5. CASE Fill
  BY <1>5, <1>i, FifoKeep DEF Fill
<1>6. CASE ResetSm
  <2>1. txf' = <<>> /\ rxf' = <<>> /\ at' \notin {"open", "get"}
    BY <1>6 DEF ResetSm
  <2> QED BY <1>0, <2>1, Nothing DEF FifoType, OneWord
<1>7. CASE SpawnFirst \/ SpawnSecond
  BY <1>7, <1>i, FifoKeep DEF SpawnFirst, SpawnSecond, Spawn
<1>8. CASE Enable
  BY <1>8, <1>i, FifoKeep DEF Enable
<1>9. CASE JoinTx \/ JoinRx
  BY <1>9, <1>i, FifoKeep DEF JoinTx, JoinRx
<1>10. CASE Crash
  <2>1. prog' = "none" /\ at' = "done" /\ UNCHANGED <<txf, rxf>>
    BY <1>10 DEF Crash
  <2> QED BY <1>i, <2>1 DEF FifoType, OneWord
<1>11. CASE Put
  <2>1. Is("blocking") /\ prog = "not" /\ Len(txf) + Len(rxf) = 0
    BY <1>11, <1>i DEF Put, Control, Loaded, Is, FifoType, OneWord
  <2>2. moved["rx"] + 1 \in Index
    BY <1>11, <1>i, TransferAssumption DEF Put, MovedType, Dir, Index
  <2>3. src[moved["rx"] + 1] \in DmaWord
    BY <1>i, <2>1, <2>2 DEF BufferType, DmaWord
  <2>4. txf \in Seq(DmaWord) /\ rxf \in Seq(DmaWord)
    BY <1>i, <2>1 DEF FifoType
  <2>5. txf' = Append(txf, src[moved["rx"] + 1]) /\ UNCHANGED <<opt, prog, rxf>> /\ at' = "get"
    BY <1>11 DEF Put
  <2>6. txf' \in Seq(DmaWord) /\ Len(txf') = Len(txf) + 1
    BY <2>3, <2>4, <2>5, Adding
  <2>7. Len(txf) \in Nat /\ Len(rxf) \in Nat
    BY <2>4, <2>3, Adding
  <2>8. Len(txf') = 1 /\ Len(rxf') = 0
    BY <2>1, <2>5, <2>6, <2>7
  <2>9. DmaWord' = DmaWord
    BY <2>5 DEF DmaWord
  <2> QED BY <1>0, <2>4, <2>5, <2>6, <2>8, <2>9 DEF FifoType, OneWord
<1>12. CASE Get
  <2>1. Is("blocking") /\ prog = "not" /\ Len(txf) + Len(rxf) = 1
    BY <1>12, <1>i DEF Get, Control, Loaded, Is, FifoType, OneWord
  <2>2. txf \in Seq(DmaWord) /\ rxf \in Seq(DmaWord)
    BY <1>i, <2>1 DEF FifoType
  <2>3. /\ rxf # <<>> /\ rxf' = Tail(rxf) /\ UNCHANGED <<opt, prog, txf>>
        /\ at' \in {"put", "judge"}
    BY <1>12 DEF Get
  <2>4. rxf' \in Seq(DmaWord) /\ Len(rxf') = Len(rxf) - 1 /\ Len(rxf) > 0 /\ Len(rxf) \in Nat
    BY <2>2, <2>3, Taking
  <2>5. Len(txf) \in 0..Depth
    BY <1>i DEF FifoType
  <2>6. Len(txf') = 0 /\ Len(rxf') = 0
    BY <2>1, <2>3, <2>4, <2>5
  <2>7. DmaWord' = DmaWord
    BY <2>3 DEF DmaWord
  <2> QED BY <1>0, <2>2, <2>3, <2>4, <2>6, <2>7 DEF FifoType, OneWord
<1>13. CASE Fail \/ GoOn \/ Verify
  BY <1>13, <1>i, FifoKeep DEF Fail, GoOn, Verify
<1>14. CASE Report \/ NoScratch
  BY <1>14, <1>i, FifoKeep DEF Report, NoScratch
<1>15. CASE Free
  BY <1>15, <1>i, FifoKeep DEF Free
<1>16. CASE Release
  <2>1. /\ prog' = "none" /\ at' = "done"
        /\ txf' = txf \/ txf' = <<>>
        /\ rxf' = rxf \/ rxf' = <<>>
    BY <1>16 DEF Release
  <2>2. Len(txf') \in 0..Depth /\ Len(rxf') \in 0..Depth
    BY <1>0, <1>i, <2>1, Nothing DEF FifoType
  <2> QED BY <2>1, <2>2 DEF FifoType, OneWord
<1> QED
  BY <1>1, <1>2, <1>3, <1>4, <1>5, <1>6, <1>7, <1>8, <1>9, <1>10, <1>11, <1>12, <1>13,
     <1>14, <1>15, <1>16 DEF Main

LEMMA BufferTypeHardware ==
  TypeInv /\ Hardware /\ UNCHANGED benchVars => BufferType'
<1> SUFFICES ASSUME TypeInv, Hardware, UNCHANGED benchVars PROVE BufferType'
  OBVIOUS
<1>0. UNCHANGED <<at, bufs, prog>>
  BY DEF benchVars, Hardware, Channels, GiveUp, FillTx, DrainRx, Complete, Timeout, Turn,
     Fault, Lose, Duplicate, Spoil, Miss, pioVars
<1>i. Control /\ FifoType /\ BufferType /\ MovedType
  BY DEF TypeInv
<1>d. DmaWords' = DmaWords /\ DmaWord' = DmaWord
  BY <1>0 DEF DmaWords, DmaWord
<1>1. CASE DrainRx
  <2>1. InKernel("rx") /\ "rx" \in Dir /\ rxf # <<>> /\ moved["rx"] < DmaWords
    BY <1>1 DEF DrainRx, CanDrain, Dir
  <2>2. prog # "none" /\ bufs /\ at \notin {"open", "config", "alloc"}
    BY <1>i, <2>1, KernelAt
  <2>3. moved["rx"] + 1 \in 1..DmaWords
    BY <1>i, <2>1, DmaWordsNat DEF MovedType
  <2>4. Head(rxf) \in DmaWord
    BY <1>i, <2>1, <2>2, Taking DEF FifoType
  <2>5. /\ rx' = [rx EXCEPT ![moved["rx"] + 1] = Head(rxf)]
        /\ fresh' = fresh \cup {moved["rx"] + 1} /\ src' = src
    BY <1>1 DEF DrainRx
  <2>6. rx \in [1..DmaWords -> DmaWord] /\ fresh \subseteq 1..DmaWords
    BY <1>i, <2>2 DEF BufferType
  <2>7. rx' \in [1..DmaWords -> DmaWord] /\ fresh' \subseteq 1..DmaWords
    BY <2>3, <2>4, <2>5, <2>6
  <2> QED BY <1>0, <1>d, <1>i, <2>2, <2>5, <2>7 DEF BufferType
<1>2. CASE ~DrainRx
  <2>1. UNCHANGED <<src, rx, fresh>>
    BY <1>2 DEF Hardware, Channels, GiveUp, FillTx, Complete, Timeout, Turn,
       Fault, Lose, Duplicate, Spoil, Miss, bufVars
  <2> QED BY <1>0, <1>d, <1>i, <2>1 DEF BufferType
<1> QED BY <1>1, <1>2

\* A statement that leaves the buffers alone, or frees them.
LEMMA BufferKeep ==
  ASSUME BufferType, UNCHANGED <<src, rx, fresh>>,
         bufs' => bufs /\ prog' = prog,
         at' \in {"open", "config", "alloc"} => at \in {"open", "config", "alloc"}
  PROVE  BufferType'
<1>1. bufs' => DmaWords' = DmaWords /\ DmaWord' = DmaWord
  BY DEF DmaWords, DmaWord
<1> QED BY <1>1 DEF BufferType

LEMMA BufferTypeMain == TypeInv /\ Main => BufferType'
<1> SUFFICES ASSUME TypeInv, Main PROVE BufferType'
  OBVIOUS
<1> USE DEF Goto, Abandon, transferVars, pioVars, bufVars
<1>i. Control /\ MainType /\ FifoType /\ BufferType /\ MovedType
  BY DEF TypeInv
<1>1. CASE Open
  <2>1. ~bufs
    BY <1>1, <1>i DEF Open, MainType
  <2> QED BY <1>1, <1>i, <2>1, BufferKeep DEF Open
<1>2. CASE Config
  BY <1>2, <1>i, BufferKeep DEF Config
<1>3. CASE Allocate
  <2>1. UNCHANGED <<prog, opt, src, fresh>> /\ fresh = {}
    BY <1>3, <1>i DEF Allocate, BufferType
  <2>2. DmaWords' = DmaWords /\ DmaWord' = DmaWord
    BY <2>1 DEF DmaWords, DmaWord
  <2>3. CASE rx' = Cleared
    BY <1>i, <2>1, <2>2, <2>3, ClearedWords DEF BufferType
  <2>4. CASE UNCHANGED <<bufs, rx>>
    BY <1>i, <2>1, <2>4, <2>2 DEF BufferType
  <2> QED BY <1>3, <2>3, <2>4 DEF Allocate
<1>4. CASE Loop
  BY <1>4, <1>i, BufferKeep DEF Loop
<1>5. CASE Fill
  <2>1. UNCHANGED <<prog, opt, bufs>>
    BY <1>5 DEF Fill
  <2>2. DmaWords' = DmaWords /\ DmaWord' = DmaWord
    BY <2>1 DEF DmaWords, DmaWord
  <2>3. src' \in [Index -> Word]
    <3>1. opt.pattern \in Patterns \cup {"tagged"} /\ (Is("baseline") => opt.pattern = "tagged")
      BY <1>i DEF Control, Options, Is, Programs
    <3>2. opt.pattern = "random" => iter + 1 \in 1..Total
      <4>1. iter \in 0..Quota /\ iter < Quota
        BY <1>5, <1>i DEF Fill, MainType
      <4>2. opt.pattern = "random" => Quota = Total
        BY <3>1 DEF Quota
      <4>3. Total \in Nat
        BY BenchAssumption DEF Total
      <4> QED BY <4>1, <4>2, <4>3
    <3>3. src' = bench_fill_pattern(opt.pattern, iter + 1)
      BY <1>5 DEF Fill
    <3> QED BY <3>1, <3>2, <3>3, PatternWords
  <2>4. (rx' = rx \/ rx' = Cleared) /\ fresh' = {}
    BY <1>5 DEF Fill
  <2>5. bufs => rx \in [1..DmaWords -> DmaWord]
    BY <1>i DEF BufferType
  <2>6. bufs' => rx' \in [1..DmaWords -> DmaWord]
    BY <2>1, <2>4, <2>5, ClearedWords
  <2> QED BY <2>2, <2>3, <2>4, <2>6 DEF BufferType
<1>6. CASE ResetSm
  BY <1>6, <1>i, BufferKeep DEF ResetSm
<1>7. CASE SpawnFirst \/ SpawnSecond
  BY <1>7, <1>i, BufferKeep DEF SpawnFirst, SpawnSecond, Spawn
<1>8. CASE Enable
  BY <1>8, <1>i, BufferKeep DEF Enable
<1>9. CASE JoinTx \/ JoinRx
  BY <1>9, <1>i, BufferKeep DEF JoinTx, JoinRx
<1>10. CASE Crash
  BY <1>10, <1>i, BufferKeep DEF Crash
<1>11. CASE Put
  BY <1>11, <1>i, BufferKeep DEF Put
<1>12. CASE Get
  <2>1. bufs /\ prog = "not" /\ rxf # <<>>
    BY <1>12, <1>i DEF Get, Control, Inside, Loaded, Is
  <2>2. moved["rx"] + 1 \in 1..DmaWords
    BY <1>12, <1>i, <2>1, TransferAssumption DEF Get, MovedType, Dir, DmaWords
  <2>3. Head(rxf) \in DmaWord
    BY <1>i, <2>1, Taking DEF FifoType
  <2>4. /\ rx' = [rx EXCEPT ![moved["rx"] + 1] = Head(rxf)]
        /\ fresh' = fresh \cup {moved["rx"] + 1} /\ UNCHANGED <<src, prog, bufs>>
        /\ at' \in {"judge", "put"}
    BY <1>12 DEF Get
  <2>5. rx \in [1..DmaWords -> DmaWord] /\ fresh \subseteq 1..DmaWords
    BY <1>i, <2>1 DEF BufferType
  <2>6. rx' \in [1..DmaWords -> DmaWord] /\ fresh' \subseteq 1..DmaWords
    BY <2>2, <2>3, <2>4, <2>5
  <2>7. DmaWords' = DmaWords /\ DmaWord' = DmaWord
    BY <2>4 DEF DmaWords, DmaWord
  <2> QED BY <1>i, <2>4, <2>6, <2>7 DEF BufferType
<1>13. CASE Fail \/ GoOn \/ Verify
  BY <1>13, <1>i, BufferKeep DEF Fail, GoOn, Verify
<1>14. CASE Report \/ NoScratch
  BY <1>14, <1>i, BufferKeep DEF Report, NoScratch
<1>15. CASE Free
  BY <1>15, <1>i, BufferKeep DEF Free
<1>16. CASE Release
  <2>1. ~bufs
    BY <1>16, <1>i DEF Release, MainType
  <2> QED BY <1>16, <1>i, <2>1, BufferKeep DEF Release
<1> QED
  BY <1>1, <1>2, <1>3, <1>4, <1>5, <1>6, <1>7, <1>8, <1>9, <1>10, <1>11, <1>12, <1>13,
     <1>14, <1>15, <1>16 DEF Main

LEMMA MovedTypeHardware ==
  TypeInv /\ Hardware /\ UNCHANGED benchVars => MovedType'
<1> SUFFICES ASSUME TypeInv, Hardware, UNCHANGED benchVars PROVE MovedType'
  OBVIOUS
<1>0. UNCHANGED <<at, prog>>
  BY DEF benchVars, Hardware, Channels, GiveUp, FillTx, DrainRx, Complete, Timeout, Turn,
     Fault, Lose, Duplicate, Spoil, Miss, pioVars
<1>i. Control /\ MovedType
  BY DEF TypeInv
<1>d. DmaWords' = DmaWords /\ DmaWords \in Nat
  BY <1>0, DmaWordsNat DEF DmaWords
<1>1. ASSUME NEW d \in Dir, InKernel(d), moved[d] < DmaWords,
             moved' = [moved EXCEPT ![d] = @ + 1]
      PROVE  MovedType'
  <2>1. at \in {"second", "enable", "joinTx", "joinRx"}
    BY <1>1, <1>i, KernelAt
  <2>2. moved' \in [Dir -> Nat]
    BY <1>1, <1>i DEF MovedType
  <2>3. prog # "none" => \A e \in Dir : moved'[e] <= DmaWords
    BY <1>1, <1>i, <1>d DEF MovedType
  <2> QED BY <1>0, <1>d, <2>1, <2>2, <2>3 DEF MovedType
<1>2. CASE FillTx
  BY <1>1, <1>2 DEF FillTx, CanFill, Dir
<1>3. CASE DrainRx \/ Miss
  BY <1>1, <1>3 DEF DrainRx, Miss, CanDrain, Dir
<1>4. CASE ~FillTx /\ ~DrainRx /\ ~Miss
  <2>1. moved' = moved
    BY <1>4 DEF Hardware, Channels, GiveUp, Complete, Timeout, Turn,
       Fault, Lose, Duplicate, Spoil, xferVars
  <2> QED BY <1>0, <1>d, <1>i, <2>1 DEF MovedType
<1> QED BY <1>2, <1>3, <1>4

\* A statement that moves no word.
LEMMA MovedKeep ==
  ASSUME MovedType, moved' = moved, prog' # "none" => prog' = prog, at' # "open",
         at' \in {"put", "get"} => at \in {"put", "get"}
  PROVE  MovedType'
<1>1. prog' # "none" => DmaWords' = DmaWords
  BY DEF DmaWords
<1> QED BY <1>1 DEF MovedType

LEMMA MovedTypeMain == TypeInv /\ Main => MovedType'
<1> SUFFICES ASSUME TypeInv, Main PROVE MovedType'
  OBVIOUS
<1> USE DEF Goto, Abandon, transferVars, pioVars, xferVars
<1>i. Control /\ MovedType
  BY DEF TypeInv
<1>n. DmaWords' \in Nat /\ Words \in Nat /\ Words > 0
  BY TransferAssumption DEF DmaWords, RX_SKIP
<1>1. CASE Open
  <2>1. moved' = [d \in Dir |-> 0] /\ at' \notin {"open", "put", "get"}
    BY <1>1, <1>i DEF Open, MovedType
  <2> QED BY <1>n, <2>1 DEF MovedType
<1>2. CASE Config
  BY <1>2, <1>i, MovedKeep DEF Config
<1>3. CASE Allocate
  BY <1>3, <1>i, MovedKeep DEF Allocate
<1>4. CASE Loop
  BY <1>4, <1>i, MovedKeep DEF Loop
<1>5. CASE Fill
  <2>1. moved' = [d \in Dir |-> 0] /\ at' # "open"
    BY <1>5 DEF Fill
  <2> QED BY <1>n, <2>1 DEF MovedType, Dir
<1>6. CASE ResetSm
  BY <1>6, <1>i, MovedKeep DEF ResetSm
<1>7. CASE SpawnFirst \/ SpawnSecond
  BY <1>7, <1>i, MovedKeep DEF SpawnFirst, SpawnSecond, Spawn
<1>8. CASE Enable
  BY <1>8, <1>i, MovedKeep DEF Enable
<1>9. CASE JoinTx \/ JoinRx
  BY <1>9, <1>i, MovedKeep DEF JoinTx, JoinRx
<1>10. CASE Crash
  BY <1>10, <1>i, MovedKeep DEF Crash
<1>11. CASE Put
  BY <1>11, <1>i, MovedKeep DEF Put
<1>12. CASE Get
  <2>1. prog = "not" /\ prog' = prog /\ moved["rx"] < Words /\ moved["rx"] \in Nat
    BY <1>12, <1>i DEF Get, Control, Inside, Loaded, Is, MovedType, Dir
  <2>2. moved' = [moved EXCEPT !["rx"] = @ + 1]
    BY <1>12 DEF Get
  <2>3. at' = IF moved["rx"] + 1 = Words THEN "judge" ELSE "put"
    BY <1>12 DEF Get
  <2>4. DmaWords' = Words /\ DmaWords = Words
    BY <2>1 DEF DmaWords
  <2>5. moved' \in [Dir -> Nat] /\ moved'["rx"] = moved["rx"] + 1 /\ moved'["tx"] = moved["tx"]
    BY <1>i, <2>2 DEF MovedType, Dir
  <2>6. moved["tx"] <= Words
    BY <1>i, <2>1, <2>4 DEF MovedType, Dir
  <2>7. \A d \in Dir : moved'[d] <= Words
    BY <1>n, <2>1, <2>5, <2>6 DEF Dir
  <2>8. at' # "open" /\ (at' \in {"put", "get"} => moved'["rx"] < Words)
    BY <1>n, <2>1, <2>3, <2>5
  <2> QED BY <2>4, <2>5, <2>7, <2>8 DEF MovedType
<1>13. CASE Fail \/ GoOn \/ Verify
  BY <1>13, <1>i, MovedKeep DEF Fail, GoOn, Verify
<1>14. CASE Report \/ NoScratch
  BY <1>14, <1>i, MovedKeep DEF Report, NoScratch
<1>15. CASE Free
  BY <1>15, <1>i, MovedKeep DEF Free
<1>16. CASE Release
  BY <1>16, <1>i, MovedKeep DEF Release
<1> QED
  BY <1>1, <1>2, <1>3, <1>4, <1>5, <1>6, <1>7, <1>8, <1>9, <1>10, <1>11, <1>12, <1>13,
     <1>14, <1>15, <1>16 DEF Main

LEMMA TypesStep == TypeInv /\ [Next]_vars => TypeInv'
<1> SUFFICES ASSUME TypeInv, [Next]_vars PROVE TypeInv'
  OBVIOUS
<1>i. Control /\ Powered /\ MainType /\ BlockType /\ FifoType /\ BufferType /\ MovedType
  BY DEF TypeInv
<1>c. Control'
  BY <1>i, ControlStep
<1>1. CASE Main
  BY <1>1, <1>c, <1>i, PoweredMain, MainTypeStep, BlockTypeMain, FifoTypeMain,
     BufferTypeMain, MovedTypeMain DEF TypeInv
<1>2. CASE Hardware /\ UNCHANGED benchVars
  <2>1. MainType'
    BY <1>2, <1>i DEF MainType, benchVars, countVars, endVars, Quota, Is
  <2>2. at' = at
    BY <1>2 DEF benchVars
  <2> QED
    BY <1>2, <1>c, <1>i, <2>1, <2>2, PoweredHardware, BlockTypeHardware, FifoTypeHardware,
       BufferTypeHardware, MovedTypeHardware DEF TypeInv
<1>3. CASE UNCHANGED vars
  <2>1. UNCHANGED <<transferVars, benchVars>>
    BY <1>3 DEF vars
  <2>2. Powered'
    BY <2>1, <1>i DEF Powered, transferVars, pioVars, bufVars, xferVars, benchVars,
       countVars, Is, Filled
  <2>3. MainType'
    BY <2>1, <1>i DEF MainType, benchVars, countVars, endVars, Quota, Is
  <2>4. BlockType'
    BY <2>1, <1>i DEF BlockType, transferVars, pioVars, noteVars, benchVars
  <2>5. FifoType' /\ BufferType' /\ MovedType'
    BY <2>1, <1>i DEF FifoType, OneWord, BufferType, MovedType, DmaWord, DmaWords,
       transferVars, pioVars, bufVars, xferVars, benchVars, Is
  <2> QED BY <1>c, <2>2, <2>3, <2>4, <2>5 DEF TypeInv
<1> QED BY <1>1, <1>2, <1>3 DEF Next

\* For every word size, buffer length, FIFO depth and number of iterations the
\* iteration stays below the length of throughputs[], every word a call moves
\* and every word put or got by hand lies inside its buffer, and no FIFO is
\* filled past its depth, whatever fails.
THEOREM BenchTypes == Spec => []TypeOK
<1>1. TypeInv => TypeOK
  <2> SUFFICES ASSUME TypeInv PROVE TypeOK
    OBVIOUS
  <2>i. Control /\ MainType /\ BlockType /\ FifoType /\ BufferType /\ MovedType
    BY DEF TypeInv
  <2>1. iter \in 0..(IF Is("baseline") THEN MaxRounds ELSE Total)
        /\ (at \in {"fill", "judge"} /\ ~Is("baseline") => iter < Total)
    BY <2>i DEF MainType, Quota, Transferring
  <2>2. \A d \in Dir : InKernel(d) => moved[d] <= DmaWords
    BY <2>i, KernelAt DEF MovedType
  <2>3. Len(txf) <= Depth /\ Len(rxf) <= Depth
    BY <2>i, TransferAssumption DEF FifoType
  <2> QED
    BY <2>i, <2>1, <2>2, <2>3 DEF TypeOK, Control, MainType, BlockType, FifoType, BufferType,
       MovedType
<1> QED BY <1>1, TypesInit, TypesStep, PTL DEF Spec

=============================================================================
