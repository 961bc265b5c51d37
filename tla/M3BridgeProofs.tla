---------------------------- MODULE M3BridgeProofs ----------------------------
(***************************************************************************)
(* For every buffer length, FIFO depth, number of passes, runs and faults, *)
(* kills included: types hold, the numbers of a report belong together, a  *)
(* PASS leaves no word in the state machine unless all words are the same  *)
(* and, in verify mode, covers every pass, and a run without a fault that  *)
(* made a pass passes.                                                     *)
(***************************************************************************)
EXTENDS M3Bridge, FiniteSetTheorems, TLAPS

-----------------------------------------------------------------------------
(* The invariant.                                                          *)

HostSteps  == {"idle", "fill", "clear", "reset", "release", "await", "setup", "cmd",
               "start", "stop", "pause", "readW", "readE", "readP", "judge", "report"}
Core1Steps == {"off", "entry", "wait", "put", "get", "words", "passes", "verify",
               "check", "done", "spin"}

Moving == {"put", "get"}                       \* Core 1 is inside a pass,
After  == {"words", "passes", "verify", "check", "done", "spin"}  \* or behind one.
Given  == {"start", "stop", "pause", "readW", "readE", "readP", "judge", "report"}
Final  == {"readW", "readE", "readP", "judge", "report"}  \* Core 1 has stopped.

Reports == [start : Nat, end : Nat, passes : Nat, errs : Nat,
            verdict : {"none", "pass", "fail"}]

\* What the type invariant needs to be inductive: a pass only begins below the
\* bound, and a pass that is over was over the whole buffer.
Steps ==
  /\ host \in HostSteps /\ c1 \in Core1Steps /\ report \in Reports
  /\ c1 \in {"wait", "put", "get", "words", "passes"} => passes < MaxPasses
  /\ c1 \in After => idx = N
TypeInv == TypeOK /\ Steps

\* From Release on Core 1 is the one this run started, and it does what this
\* run has told it to.
Launched ==
  /\ host = "release" => c1 = "off"
  /\ host = "await" => c1 \in {"entry", "wait"}
  /\ host \in {"setup", "cmd"} => c1 = "wait"
  /\ host \in {"reset", "release", "await", "setup", "cmd", "pause"} \cup Final => cmd = 0
  /\ host \in {"start", "stop"} => cmd = IF verify THEN 2 ELSE 1
  /\ host \in Given => c1 \in {"wait"} \cup Moving \cup After
  /\ host \in Given /\ c1 # "wait" => mode = IF verify THEN 2 ELSE 1
  /\ host \in Final => c1 \in {"spin", "wait"}
  /\ host \in {"cmd"} \cup Given => prog
  /\ c1 = "wait" => words = 0 /\ passes = 0 /\ errs = 0
  /\ c1 \in {"off", "entry", "wait"} => ~bad

\* The counters of Core 1 and what the host has read of them.
Counters ==
  host \in Given =>
    /\ c1 # "wait" => total = words
    /\ words = N * (IF c1 = "passes" THEN passes + 1 ELSE passes)
    /\ host \in {"stop", "pause", "readW"} => report.start <= words
    /\ host \in {"readE", "readP", "judge", "report"} =>
         report.start <= words /\ report.end = words
    /\ host \in {"readP", "judge", "report"} => report.errs = errs
    /\ host \in {"judge", "report"} => report.passes = passes

\* The words in the state machine, oldest first: those in the RX FIFO, the one
\* it works on, those in the TX FIFO.
Held  == IF osr = Empty THEN 0 ELSE 1
Under == Len(rxf) + Held + Len(txf)
At(j) == IF j <= Len(rxf) THEN rxf[j]
         ELSE IF j <= Len(rxf) + Held THEN osr
         ELSE txf[j - Len(rxf) - Held]

\* Every word stored so far in this pass was right.
SoFar == \A i \in Index : i < idx => Right(rx[i], i)

\* At most 2 * Depth + 1 words of earlier passes were in the state machine when
\* this one began, and each word that was right took one of them out.  What is
\* behind them was put in this pass: indices that increase, up to the last one
\* put, and so few steps behind it that walk does not repeat in between.
Newest(j) ==
  /\ IF c1 = "put" THEN At(j) < idx ELSE At(j) <= idx
  /\ At(j) >= idx - (2 * Depth + 1) + (j - 1)
  /\ \A k \in 1..Under : j < k => At(j) < At(k)
Aligned ==
  /\ pattern # "fixed" /\ c1 \in Moving /\ SoFar =>
       \A j \in 1..Under : 2 * Depth + 1 - idx < j => Newest(j)
  /\ pattern # "fixed" /\ c1 \in After /\ SoFar => Under = 0
  /\ host \in {"cmd"} \cup Given /\ c1 = "wait" => Under = 0

\* A wrong word is still in RX, or Core 1 has counted it.
Noticed ==
  /\ host \in Given /\ verify /\ bad =>
       errs > 0 \/ (c1 \in Moving \cup {"words", "passes", "verify"} /\ ~SoFar)
  /\ host = "report" =>
       /\ report.verdict = "pass" => report.errs = 0 /\ (c1 = "spin" => SoFar)
       /\ c1 = "spin" /\ report.errs = 0 /\ SoFar => report.verdict = "pass"

\* Without a fault since Core 1 was reset, every word is right, and
\* the state machine holds no word but the one Core 1 waits for.
Faultless ==
  host \in {"cmd"} \cup Given /\ faults = 0 =>
    /\ errs = 0
    /\ c1 \in {"wait", "put"} \cup After => Under = 0
    /\ c1 = "get" => Under = 1 /\ At(1) = idx
    /\ c1 \in Moving \cup After => SoFar

-----------------------------------------------------------------------------
(* Types.                                                                  *)

LEMMA MismatchesNat ==
  /\ Mismatches \in Nat
  /\ Mismatches = 0 <=> \A i \in Index : Right(rx[i], i)
<1>. DEFINE S == {i \in Index : ~Right(rx[i], i)}
<1>1. IsFiniteSet(Index)
  BY FS_Interval, SizeAssumption DEF Index
<1>2. IsFiniteSet(S)
  BY <1>1, FS_Subset
<1>3. Cardinality(S) \in Nat /\ (Cardinality(S) = 0 <=> S = {})
  BY <1>2, FS_CardinalityType, FS_EmptySet
<1>. QED
  BY <1>3 DEF Mismatches

LEMMA TypeInit == Init => TypeInv
<1> SUFFICES ASSUME Init PROVE TypeInv
  OBVIOUS
<1>1. report \in Reports
  BY DEF Init, Blank, Reports
<1>2. rx \in [Index -> Word \cup {Cleared}]
  BY DEF Init
<1>3. 0 \in 0..N /\ 0 \in 0..MaxPasses /\ 0 \in 0..MaxFaults /\ 0 <= Depth
  BY SizeAssumption, FaultAssumption
<1>4. txf \in Seq(Index) /\ Len(txf) = 0 /\ rxf \in Seq(Index) /\ Len(rxf) = 0
  BY DEF Init
<1>. QED
  <2>0. verify \in BOOLEAN /\ bad \in BOOLEAN /\ prog \in BOOLEAN
    BY DEF Init
  <2>1. TypeOK
    <3>1. cmd = 0 /\ words = 0 /\ passes = 0 /\ errs = 0 /\ result = 0
          /\ c1 = "off" /\ idx = 0 /\ total = 0 /\ mode = 0 /\ faults = 0 /\ osr = Empty
      BY DEF Init
    <3>2. pattern \in Patterns
      BY DEF Init
    <3>. QED
      BY <1>2, <1>3, <1>4, <2>0, <3>1, <3>2 DEF TypeOK
  <2>2. Steps
    BY <1>1 DEF Init, Steps, HostSteps, Core1Steps, After
  <2>. QED
    BY <2>1, <2>2 DEF TypeInv

\* The state machine moves words from one FIFO to the other.
LEMMA TypePio == TypeInv /\ (Pull \/ Push) => TypeInv'
<1> SUFFICES ASSUME TypeInv, Pull \/ Push PROVE TypeInv'
  OBVIOUS
<1>1. UNCHANGED <<hostVars, statusVars, bufVars, c1Vars, prog>>
  BY DEF Pull, Push
<1>2. /\ txf' \in Seq(Index) /\ Len(txf') <= Depth
      /\ rxf' \in Seq(Index) /\ Len(rxf') <= Depth
      /\ osr' \in Index \cup {Empty}
  <2>1. CASE Pull
    BY <2>1, SizeAssumption DEF Pull, TypeInv, TypeOK
  <2>2. CASE Push
    BY <2>2, SizeAssumption DEF Push, TypeInv, TypeOK
  <2>. QED BY <2>1, <2>2
<1>. QED
  BY <1>1, <1>2 DEF TypeInv, TypeOK, Steps, hostVars, statusVars, c1Vars, bufVars

\* What a read of the RX FIFO stores, and where it leads.
LEMMA GetCases ==
  ASSUME TypeInv, Get
  PROVE  \E v \in Word :
           /\ Store(v) /\ UNCHANGED <<hostVars, statusVars, pattern, total, mode, prog, txf, osr>>
           /\ \/ rxf # <<>> /\ v = Head(rxf) /\ rxf' = Tail(rxf) /\ UNCHANGED faults
              \/ rxf # <<>> /\ v = Junk /\ rxf' = Tail(rxf) /\ Fault
              \/ rxf = <<>> /\ v \in Late /\ rxf' = rxf /\ PioIdle /\ UNCHANGED faults
              \/ rxf = <<>> /\ v \in Late /\ rxf' = rxf /\ Fault
<1>1. rxf # <<>> => Head(rxf) \in Index
  BY DEF TypeInv, TypeOK
<1>2. Late \subseteq Word
  BY SizeAssumption DEF Get, Late, Word, Index, TypeInv, TypeOK
<1>. QED
  BY <1>1, <1>2 DEF Get, Word

LEMMA TypeCore1 == TypeInv /\ Core1 => TypeInv'
<1> SUFFICES ASSUME TypeInv, Core1 PROVE TypeInv'
  OBVIOUS
<1> USE DEF TypeInv, TypeOK, Steps, Step1, hostVars, statusVars, c1Vars, pioVars, bufVars, Core1Steps, After
<1>1. CASE Entry
  BY <1>1, SizeAssumption DEF Entry
<1>2. CASE WaitCmd
  BY <1>2, SizeAssumption DEF WaitCmd
<1>3. CASE Put
  <2>1. idx \in Index
    BY <1>3, SizeAssumption DEF Put, Index
  <2>2. txf' \in Seq(Index) /\ Len(txf') <= Depth
    BY <1>3, <2>1, SizeAssumption DEF Put
  <2>. QED
    BY <1>3, <2>2 DEF Put
<1>4. CASE Get
  <2>1. PICK v \in Word :
           /\ Store(v) /\ UNCHANGED <<hostVars, statusVars, pattern, total, mode, prog, txf, osr>>
           /\ \/ rxf # <<>> /\ rxf' = Tail(rxf)
              \/ rxf' = rxf
           /\ UNCHANGED faults \/ Fault
    BY <1>4, GetCases
  <2>2. c1 = "get"
    BY <1>4 DEF Get
  <2>3. rxf' \in Seq(Index) /\ Len(rxf') <= Depth
    BY <2>1, SizeAssumption
  <2>4. rx' \in [Index -> Word \cup {Cleared}]
    BY <2>1 DEF Store
  <2>5. idx' = idx + 1 /\ c1' = (IF idx + 1 < N THEN "put" ELSE "words") /\ bad' \in BOOLEAN
    BY <2>1, <2>2 DEF Store
  <2>6. faults' \in 0..MaxFaults
    BY <2>1, FaultAssumption DEF Fault
  <2>. QED
    BY <2>1, <2>2, <2>3, <2>4, <2>5, <2>6, SizeAssumption
<1>5. CASE StoreWords
  BY <1>5, SizeAssumption DEF StoreWords
<1>6. CASE StorePasses
  BY <1>6, SizeAssumption DEF StorePasses
<1>7. CASE Verify
  BY <1>7, MismatchesNat DEF Verify
<1>8. CASE Check
  BY <1>8, SizeAssumption DEF Check
<1>9. CASE Done
  BY <1>9 DEF Done
<1>. QED
  BY <1>1, <1>2, <1>3, <1>4, <1>5, <1>6, <1>7, <1>8, <1>9 DEF Core1

\* The host changes the status block, the buffers and the reset of Core 1.
LEMMA TypeHost == TypeInv /\ (Main \/ Kill) => TypeInv'
<1> SUFFICES ASSUME TypeInv, Main \/ Kill PROVE TypeInv'
  OBVIOUS
<1> USE DEF TypeInv, TypeOK, Steps, hostVars, statusVars, c1Vars, pioVars, bufVars, HostSteps, Core1Steps,
            After, Only, HostStep, Ahead, Reads, Reports
<1>1. CASE Start
  <2>1. report' \in Reports
    BY <1>1 DEF Start
  <2>. QED
    BY <1>1, <2>1 DEF Start
<1>2. CASE Fill
  BY <1>2 DEF Fill
<1>3. CASE ClearStatus
  <2>1. host' \in HostSteps
    BY <1>3 DEF ClearStatus
  <2>2. cmd' \in 0..2 /\ result' \in 0..2 /\ words' \in Nat /\ errs' \in Nat
        /\ passes' = 0 /\ passes' \in 0..MaxPasses /\ passes' < MaxPasses
    BY <1>3, SizeAssumption DEF ClearStatus
  <2>. QED
    BY <1>3, <2>1, <2>2 DEF ClearStatus
<1>4. CASE Reset
  <2>1. host' \in HostSteps
    BY <1>4 DEF Reset
  <2>2. c1' = "off" /\ idx' = 0 /\ total' = 0 /\ mode' = 0
    BY <1>4 DEF Reset
  <2>3. bad' \in BOOLEAN
    BY <1>4 DEF Reset
  <2>5. faults' = 0 /\ faults' \in 0..MaxFaults
    BY <1>4, FaultAssumption DEF Reset
  <2>4. UNCHANGED <<verify, report, cmd, words, passes, errs, result, pattern, rx, prog, txf, osr, rxf>>
    BY <1>4 DEF Reset
  <2>. QED
    BY <2>1, <2>2, <2>3, <2>4, <2>5, SizeAssumption
<1>5. CASE Release
  BY <1>5 DEF Release
<1>6. CASE Await
  BY <1>6 DEF Await
<1>7. CASE setup_pio_sm3
  BY <1>7, SizeAssumption DEF setup_pio_sm3
<1>8. CASE SendCmd
  BY <1>8 DEF SendCmd
<1>9. CASE ReadStart
  BY <1>9 DEF ReadStart
<1>10. CASE StopCmd
  BY <1>10 DEF StopCmd
<1>11. CASE Pause
  BY <1>11 DEF Pause
<1>12. CASE ReadWords
  BY <1>12 DEF ReadWords
<1>13. CASE ReadErrors
  BY <1>13 DEF ReadErrors
<1>14. CASE ReadPasses
  BY <1>14 DEF ReadPasses
<1>15. CASE Judge
  BY <1>15 DEF Judge
<1>16. CASE Exit
  BY <1>16 DEF Exit, Gone, Blank
<1>17. CASE Kill
  BY <1>17 DEF Kill, Gone, Blank
<1>. QED
  BY <1>1, <1>2, <1>3, <1>4, <1>5, <1>6, <1>7, <1>8, <1>9, <1>10, <1>11, <1>12, <1>13, <1>14,
     <1>15, <1>16, <1>17 DEF Main

LEMMA TypeStep == TypeInv /\ [Next]_vars => TypeInv'
<1>1. ASSUME TypeInv, UNCHANGED vars PROVE TypeInv'
  BY <1>1 DEF TypeInv, TypeOK, Steps, vars, hostVars, statusVars, c1Vars, pioVars, bufVars
<1>. QED
  BY <1>1, TypePio, TypeCore1, TypeHost DEF Next

\* Registers, status block, buffers and FIFOs hold what their layout says;
\* the index register of the firmware stays inside the buffers.
THEOREM BridgeTypeCorrect == Spec => []TypeOK
<1>1. TypeInv => TypeOK
  BY DEF TypeInv
<1>. QED
  BY <1>1, TypeInit, TypeStep, PTL DEF Spec

-----------------------------------------------------------------------------
(* Launched.                                                               *)

LEMMA LaunchedInit == Init => Launched
  BY DEF Init, Launched, Given, Final

LEMMA LaunchedPio == Launched /\ (Pull \/ Push) => Launched'
<1> SUFFICES ASSUME Launched, Pull \/ Push PROVE Launched'
  OBVIOUS
<1>1. UNCHANGED <<hostVars, statusVars, bufVars, c1Vars, prog>>
  BY DEF Pull, Push
<1>. QED
  BY <1>1 DEF Launched, hostVars, statusVars, c1Vars

\* Core 1 takes the command this run has sent, and stays where it is once it
\* has stopped.
LEMMA LaunchedCore1 == TypeInv /\ Launched /\ Core1 => Launched'
<1> SUFFICES ASSUME TypeInv, Launched, Core1 PROVE Launched'
  OBVIOUS
<1>0. host \in HostSteps
  BY DEF TypeInv, Steps
<1> USE DEF Launched, Step1, hostVars, statusVars, c1Vars, pioVars, bufVars, Given, Final, Moving, After,
            HostSteps
<1>1. CASE Entry
  BY <1>1 DEF Entry
<1>2. CASE WaitCmd
  BY <1>0, <1>2 DEF WaitCmd
<1>3. CASE Put
  BY <1>3 DEF Put
<1>4. CASE Get
  <2>1. /\ c1 = "get" /\ c1' \in {"put", "words"}
        /\ UNCHANGED <<hostVars, statusVars, total, mode, prog>>
    BY <1>4 DEF Get, Store
  <2>. QED
    BY <2>1
<1>5. CASE StoreWords
  BY <1>5 DEF StoreWords
<1>6. CASE StorePasses
  BY <1>6 DEF StorePasses
<1>7. CASE Verify
  BY <1>7 DEF Verify
<1>8. CASE Check
  BY <1>8 DEF Check
<1>9. CASE Done
  BY <1>9 DEF Done
<1>. QED
  BY <1>1, <1>2, <1>3, <1>4, <1>5, <1>6, <1>7, <1>8, <1>9 DEF Core1

\* The host goes through reset, release and the await of the heartbeat before
\* it sends a command, and waits for the stop before it reads.
LEMMA LaunchedHost == TypeInv /\ Launched /\ (Main \/ Kill) => Launched'
<1> SUFFICES ASSUME TypeInv, Launched, Main \/ Kill PROVE Launched'
  OBVIOUS
<1> USE DEF Launched, hostVars, statusVars, c1Vars, pioVars, bufVars, Only, HostStep, Ahead, Reads,
            Given, Final, Moving, After
<1>1. CASE Start
  BY <1>1 DEF Start
<1>2. CASE Fill
  BY <1>2 DEF Fill
<1>3. CASE ClearStatus
  BY <1>3 DEF ClearStatus
<1>4. CASE Reset
  BY <1>4 DEF Reset
<1>5. CASE Release
  BY <1>5 DEF Release
<1>6. CASE Await
  BY <1>6 DEF Await
<1>7. CASE setup_pio_sm3
  BY <1>7 DEF setup_pio_sm3
<1>8. CASE SendCmd
  BY <1>8 DEF SendCmd
<1>9. CASE ReadStart
  BY <1>9 DEF ReadStart
<1>10. CASE StopCmd
  BY <1>10 DEF StopCmd
<1>11. CASE Pause
  BY <1>11 DEF Pause
<1>12. CASE ReadWords
  BY <1>12 DEF ReadWords
<1>13. CASE ReadErrors
  BY <1>13 DEF ReadErrors
<1>14. CASE ReadPasses
  BY <1>14 DEF ReadPasses
<1>15. CASE Judge
  BY <1>15 DEF Judge
<1>16. CASE Exit
  BY <1>16 DEF Exit, Gone, Blank
<1>17. CASE Kill
  BY <1>17 DEF Kill, Gone, Blank
<1>. QED
  BY <1>1, <1>2, <1>3, <1>4, <1>5, <1>6, <1>7, <1>8, <1>9, <1>10, <1>11, <1>12, <1>13, <1>14,
     <1>15, <1>16, <1>17 DEF Main

-----------------------------------------------------------------------------
(* Counters.                                                               *)

LEMMA CountersInit == Init => Counters
  BY DEF Init, Counters, Given

LEMMA CountersPio == Counters /\ (Pull \/ Push) => Counters'
<1> SUFFICES ASSUME Counters, Pull \/ Push PROVE Counters'
  OBVIOUS
<1>1. UNCHANGED <<hostVars, statusVars, c1Vars>>
  BY DEF Pull, Push
<1>. QED
  BY <1>1 DEF Counters, hostVars, statusVars, c1Vars

\* Core 1 adds N words and one pass for every pass; it counts words first.
LEMMA CountersCore1 == TypeInv /\ Launched /\ Counters /\ Core1 => Counters'
<1> SUFFICES ASSUME TypeInv, Launched, Counters, Core1, host \in Given PROVE Counters'
  BY DEF Core1, Entry, WaitCmd, Put, Get, StoreWords, StorePasses, Verify, Check, Done, Counters,
         hostVars
<1>1. hostVars' = hostVars
  BY DEF Core1, Entry, WaitCmd, Put, Get, StoreWords, StorePasses, Verify, Check, Done
<1>2. c1 \in {"wait"} \cup Moving \cup After /\ (host \in Final => c1 \in {"spin", "wait"})
  BY DEF Launched
<1>3. /\ N \in Nat /\ passes \in Nat /\ words \in Nat /\ total \in Nat
      /\ report.start \in Nat
  BY SizeAssumption DEF TypeInv, TypeOK, Steps, Reports
<1>4. N * 0 = 0 /\ N * (passes + 1) = N * passes + N
  BY <1>3
<1> USE DEF Counters, hostVars, Step1, Moving, After, Given, Final
<1>5. CASE WaitCmd
  BY <1>1, <1>2, <1>5, <1>4 DEF WaitCmd, Launched
<1>6. CASE Put
  BY <1>1, <1>2, <1>6 DEF Put, statusVars
<1>7. CASE Get
  <2>1. c1 = "get" /\ c1' \in {"put", "words"} /\ UNCHANGED <<statusVars, total>>
    BY <1>7 DEF Get, Store
  <2>. QED
    BY <1>1, <2>1 DEF statusVars
<1>8. CASE StoreWords
  <2>1. /\ c1 = "words" /\ c1' = "passes" /\ words' = words + N /\ total' = words'
        /\ UNCHANGED <<passes, errs>>
    BY <1>2, <1>8 DEF StoreWords
  <2>2. words' = N * (passes + 1)
    BY <2>1, <1>4
  <2>3. words <= words'
    BY <2>1, <1>3
  <2>. QED
    BY <1>1, <1>2, <1>3, <2>1, <2>2, <2>3
<1>9. CASE StorePasses
  BY <1>1, <1>2, <1>9 DEF StorePasses
<1>10. CASE Verify
  BY <1>1, <1>2, <1>10 DEF Verify
<1>11. CASE Check
  BY <1>1, <1>2, <1>11 DEF Check, statusVars
<1>12. CASE Done
  BY <1>1, <1>2, <1>12 DEF Done
<1>. QED
  BY <1>2, <1>5, <1>6, <1>7, <1>8, <1>9, <1>10, <1>11, <1>12 DEF Core1, Entry

\* The host reads each counter after Core 1 has stopped, but the first.
LEMMA CountersHost == TypeInv /\ Launched /\ Counters /\ (Main \/ Kill) => Counters'
<1> SUFFICES ASSUME TypeInv, Launched, Counters, Main \/ Kill PROVE Counters'
  OBVIOUS
<1>0. /\ N \in Nat /\ words \in Nat /\ N * 0 = 0
      /\ report \in Reports
  BY SizeAssumption DEF TypeInv, TypeOK, Steps
<1> USE DEF Counters, hostVars, statusVars, c1Vars, Only, HostStep, Ahead, Reads, Given, Reports
<1>1. ASSUME Start \/ Fill \/ ClearStatus \/ Reset \/ Release \/ Await \/ setup_pio_sm3 \/ Kill
             \/ Exit
      PROVE  Counters'
  <2>1. host' \notin Given
    BY <1>1 DEF Start, Fill, ClearStatus, Reset, Release, Await, setup_pio_sm3, Kill, Exit, Gone
  <2>. QED
    BY <2>1
<1>2. CASE SendCmd
  BY <1>0, <1>2 DEF SendCmd, Launched
<1>3. CASE ReadStart
  BY <1>0, <1>3 DEF ReadStart
<1>4. CASE StopCmd
  BY <1>4 DEF StopCmd
<1>5. CASE Pause
  BY <1>5 DEF Pause
<1>6. CASE ReadWords
  BY <1>0, <1>6 DEF ReadWords
<1>7. CASE ReadErrors
  BY <1>0, <1>7 DEF ReadErrors
<1>8. CASE ReadPasses
  BY <1>0, <1>8 DEF ReadPasses
<1>9. CASE Judge
  BY <1>0, <1>9 DEF Judge
<1>. QED
  BY <1>1, <1>2, <1>3, <1>4, <1>5, <1>6, <1>7, <1>8, <1>9 DEF Main

LEMMA ControlStep ==
  TypeInv /\ Launched /\ Counters /\ [Next]_vars => (TypeInv /\ Launched /\ Counters)'
<1>1. ASSUME Launched, Counters, UNCHANGED vars PROVE Launched' /\ Counters'
  BY <1>1 DEF Launched, Counters, vars, hostVars, statusVars, c1Vars, pioVars, bufVars
<1>. QED
  BY <1>1, TypeStep, LaunchedPio, LaunchedCore1, LaunchedHost, CountersPio, CountersCore1,
     CountersHost DEF Next

LEMMA ControlAlways == Spec => [](TypeInv /\ Launched /\ Counters)
<1>1. Init => TypeInv /\ Launched /\ Counters
  BY TypeInit, LaunchedInit, CountersInit
<1>. QED
  BY <1>1, ControlStep, PTL DEF Spec

\* The words and passes of a report belong together and to this run: Core 1
\* had stopped before the host read them.
THEOREM ReportsAgree == Spec => []StatsConsistent
<1>1. TypeInv /\ Launched /\ Counters => StatsConsistent
  <2> SUFFICES ASSUME TypeInv, Launched, Counters, host = "report"
               PROVE  report.end = N * report.passes /\ report.start <= report.end
    BY DEF StatsConsistent
  <2>1. c1 \in {"spin", "wait"}
    BY DEF Launched, Final
  <2>. QED
    BY <2>1 DEF Counters, Given
<1>. QED
  BY <1>1, ControlAlways, PTL

-----------------------------------------------------------------------------
(* The words in the state machine.                                         *)

\* Sequences as the model uses them: appending, and taking the first.
LEMMA SeqAppend ==
  ASSUME NEW S, NEW s \in Seq(S), NEW e \in S
  PROVE  /\ Append(s, e) \in Seq(S) /\ Len(Append(s, e)) = Len(s) + 1
         /\ \A j \in 1..Len(s) : Append(s, e)[j] = s[j]
         /\ Append(s, e)[Len(s) + 1] = e
  OBVIOUS

LEMMA SeqTail ==
  ASSUME NEW S, NEW s \in Seq(S), s # <<>>
  PROVE  /\ Tail(s) \in Seq(S) /\ Len(Tail(s)) = Len(s) - 1 /\ Len(s) \in Nat \ {0}
         /\ \A j \in 1..Len(s) - 1 : Tail(s)[j] = s[j + 1]
         /\ Head(s) = s[1] /\ Head(s) \in S
  OBVIOUS

LEMMA UnderType ==
  ASSUME TypeInv
  PROVE  /\ Len(rxf) \in Nat /\ Len(txf) \in Nat /\ Held \in {0, 1}
         /\ Under \in Nat /\ Under <= 2 * Depth + 1
         /\ \A j \in 1..Under : At(j) \in Index
         /\ Under = 0 => txf = <<>> /\ rxf = <<>> /\ osr = Empty
<1>1. /\ txf \in Seq(Index) /\ rxf \in Seq(Index) /\ Len(txf) <= Depth /\ Len(rxf) <= Depth
      /\ osr \in Index \cup {Empty} /\ Depth \in Nat
  BY SizeAssumption DEF TypeInv, TypeOK
<1>2. Len(rxf) \in Nat /\ Len(txf) \in Nat /\ Held \in {0, 1}
  BY <1>1 DEF Held
<1>3. Under \in Nat /\ Under <= 2 * Depth + 1
  BY <1>1, <1>2 DEF Under
<1>4. ASSUME NEW j \in 1..Under PROVE At(j) \in Index
  BY <1>1, <1>2, <1>4 DEF Under, At, Held
<1>5. Under = 0 => txf = <<>> /\ rxf = <<>> /\ osr = Empty
  BY <1>1, <1>2 DEF Under, Held
<1>. QED
  BY <1>2, <1>3, <1>4, <1>5

\* Pull and Push keep the words and their order.
LEMMA UnderPio ==
  ASSUME TypeInv, Pull \/ Push
  PROVE  Under' = Under /\ \A j \in 1..Under : At(j)' = At(j)
<1>1. /\ txf \in Seq(Index) /\ rxf \in Seq(Index) /\ osr \in Index \cup {Empty}
      /\ Len(rxf) \in Nat /\ Len(txf) \in Nat
  BY DEF TypeInv, TypeOK
<1>0. Empty \notin Index
  BY DEF Index, Empty
<1>2. CASE Pull
  <2>1. /\ osr = Empty /\ txf # <<>> /\ osr' = txf[1] /\ txf' = Tail(txf) /\ rxf' = rxf
        /\ osr' # Empty
    BY <1>0, <1>1, <1>2, SeqTail DEF Pull
  <2>2. /\ Len(txf') = Len(txf) - 1 /\ Len(txf) \in Nat \ {0}
        /\ \A j \in 1..Len(txf) - 1 : txf'[j] = txf[j + 1]
    BY <1>1, <2>1, SeqTail
  <2>3. Held = 0 /\ Held' = 1 /\ Under' = Under /\ Under = Len(rxf) + Len(txf)
    BY <1>1, <2>1, <2>2 DEF Held, Under
  <2>4. ASSUME NEW j \in 1..Under PROVE At(j)' = At(j)
    <3>1. CASE j <= Len(rxf)
      BY <2>1, <3>1 DEF At
    <3>2. CASE j = Len(rxf) + 1
      BY <1>1, <2>1, <2>3, <3>2 DEF At
    <3>3. CASE j > Len(rxf) + 1
      <4>1. /\ j - Len(rxf) - 1 \in 1..Len(txf) - 1
            /\ j - Len(rxf) - 0 = (j - Len(rxf) - 1) + 1
        BY <1>1, <2>2, <2>3, <3>3
      <4>2. At(j)' = txf'[j - Len(rxf) - 1]
        BY <1>1, <2>1, <2>3, <3>3 DEF At
      <4>3. At(j) = txf[j - Len(rxf) - 0]
        BY <1>1, <2>3, <3>3 DEF At
      <4>. QED
        BY <2>2, <4>1, <4>2, <4>3
    <3>. QED BY <1>1, <3>1, <3>2, <3>3
  <2>. QED
    BY <2>3, <2>4
<1>3. CASE Push
  <2>1. /\ osr # Empty /\ osr \in Index /\ osr' = Empty /\ rxf' = Append(rxf, osr) /\ txf' = txf
    BY <1>1, <1>3 DEF Push
  <2>2. /\ Len(rxf') = Len(rxf) + 1 /\ rxf'[Len(rxf) + 1] = osr
        /\ \A j \in 1..Len(rxf) : rxf'[j] = rxf[j]
    BY <1>1, <2>1, SeqAppend
  <2>3. Held = 1 /\ Held' = 0 /\ Under' = Under
    BY <1>1, <2>1, <2>2 DEF Held, Under
  <2>4. ASSUME NEW j \in 1..Under PROVE At(j)' = At(j)
    <3>1. CASE j <= Len(rxf)
      BY <1>1, <2>2, <3>1 DEF At
    <3>2. CASE j = Len(rxf) + 1
      BY <1>1, <2>2, <2>3, <3>2 DEF At
    <3>3. CASE j > Len(rxf) + 1
      <4>1. At(j)' = txf[j - (Len(rxf) + 1) - 0]
        BY <1>1, <2>1, <2>2, <2>3, <3>3 DEF At
      <4>2. At(j) = txf[j - Len(rxf) - 1]
        BY <1>1, <2>3, <3>3 DEF At
      <4>3. j - (Len(rxf) + 1) - 0 = j - Len(rxf) - 1
        BY <1>1
      <4>. QED
        BY <4>1, <4>2, <4>3
    <3>. QED BY <1>1, <3>1, <3>2, <3>3
  <2>. QED
    BY <2>3, <2>4
<1>. QED
  BY <1>2, <1>3

\* A word put is the last one, or is lost because the TX FIFO is full.
LEMMA UnderPut ==
  ASSUME TypeInv, Put
  PROVE  /\ \A j \in 1..Under : At(j)' = At(j)
         /\ \/ Under' = Under + 1 /\ At(Under)' = idx
            \/ Under' = Under /\ Len(txf) = Depth
<1>1. /\ txf \in Seq(Index) /\ Len(rxf) \in Nat /\ Len(txf) \in Nat /\ Held \in {0, 1}
      /\ Len(txf) <= Depth /\ Depth \in Nat
  BY UnderType, SizeAssumption DEF TypeInv, TypeOK
<1>2. /\ idx \in Index /\ UNCHANGED <<rxf, osr>>
      /\ txf' = IF Len(txf) < Depth THEN Append(txf, idx) ELSE txf
  BY SizeAssumption DEF Put, TypeInv, TypeOK, Index
<1>3. Held' = Held
  BY <1>2 DEF Held
<1>4. CASE Len(txf) < Depth
  <2>1. /\ Len(txf') = Len(txf) + 1 /\ txf'[Len(txf) + 1] = idx
        /\ \A j \in 1..Len(txf) : txf'[j] = txf[j]
    BY <1>1, <1>2, <1>4, SeqAppend
  <2>0. rxf' = rxf /\ osr' = osr /\ Held' = Held /\ Len(txf') = Len(txf) + 1
    BY <1>2, <1>3, <2>1
  <2>2. Under' = Under + 1
    BY <1>1, <2>0 DEF Under
  <2>3. At(Under)' = idx
    <3>1. ~(Under' <= Len(rxf')) /\ ~(Under' <= Len(rxf') + Held')
      BY <1>1, <2>0 DEF Under
    <3>2. At(Under)' = txf'[Under' - Len(rxf') - Held']
      BY <3>1 DEF At
    <3>3. Under' - Len(rxf') - Held' = Len(txf) + 1
      BY <1>1, <2>0 DEF Under
    <3>. QED
      BY <2>1, <3>2, <3>3
  <2>4. ASSUME NEW j \in 1..Under PROVE At(j)' = At(j)
    <3>1. CASE j <= Len(rxf) + Held
      BY <1>1, <2>0, <3>1 DEF At
    <3>2. CASE j > Len(rxf) + Held
      <4>1. j - Len(rxf) - Held \in 1..Len(txf)
        BY <1>1, <3>2 DEF Under
      <4>2. At(j)' = txf'[j - Len(rxf) - Held] /\ At(j) = txf[j - Len(rxf) - Held]
        BY <1>1, <2>0, <3>2 DEF At
      <4>. QED
        BY <2>1, <4>1, <4>2
    <3>. QED BY <1>1, <3>1, <3>2
  <2>. QED
    BY <2>1, <2>2, <2>3, <2>4
<1>5. CASE ~(Len(txf) < Depth)
  BY <1>1, <1>2, <1>3, <1>5 DEF Under, At
<1>. QED
  BY <1>4, <1>5

\* A word read from the RX FIFO is the oldest one.
LEMMA UnderGet ==
  ASSUME TypeInv, rxf # <<>>, rxf' = Tail(rxf), UNCHANGED <<osr, txf>>
  PROVE  /\ Head(rxf) = At(1) /\ Under > 0 /\ Under' = Under - 1
         /\ \A j \in 1..Under - 1 : At(j)' = At(j + 1)
<1>1. /\ rxf \in Seq(Index) /\ Len(rxf) \in Nat \ {0} /\ Len(txf) \in Nat /\ Held \in {0, 1}
      /\ Len(rxf') = Len(rxf) - 1 /\ \A j \in 1..Len(rxf) - 1 : rxf'[j] = rxf[j + 1]
      /\ Head(rxf) = rxf[1]
  <2>1. rxf \in Seq(Index)
    BY DEF TypeInv, TypeOK
  <2>. QED
    BY <2>1, UnderType, SeqTail
<1>2. Held' = Held /\ Under > 0 /\ Under' = Under - 1
  BY <1>1 DEF Held, Under
<1>3. ASSUME NEW j \in 1..Under - 1 PROVE At(j)' = At(j + 1)
  <2>1. CASE j <= Len(rxf) - 1
    BY <1>1, <2>1 DEF At
  <2>2. CASE j > Len(rxf) - 1 /\ j <= Len(rxf) - 1 + Held
    BY <1>1, <1>2, <2>2 DEF At
  <2>3. CASE j > Len(rxf) - 1 + Held
    <3>1. At(j)' = txf[j - (Len(rxf) - 1) - Held] /\ At(j + 1) = txf[(j + 1) - Len(rxf) - Held]
      BY <1>1, <1>2, <2>3 DEF At
    <3>2. j - (Len(rxf) - 1) - Held = (j + 1) - Len(rxf) - Held
      BY <1>1
    <3>. QED
      BY <3>1, <3>2
  <2>. QED BY <1>1, <2>1, <2>2, <2>3
<1>. QED
  BY <1>1, <1>2, <1>3 DEF At

\* A word stored is one more right word, or spoils the pass.
LEMMA StoreSoFar ==
  ASSUME TypeInv, c1 = "get", NEW v \in Word, Store(v), UNCHANGED pattern
  PROVE  /\ SoFar' <=> SoFar /\ Right(v, idx)
         /\ bad' <=> bad \/ ~Right(v, idx)
         /\ idx \in Nat /\ idx < N /\ idx' = idx + 1
         /\ c1' = IF idx + 1 < N THEN "put" ELSE "words"
<1>1. /\ idx \in Nat /\ idx < N /\ N \in Nat /\ idx' = idx + 1 /\ idx \in Index
      /\ rx \in [Index -> Word \cup {Cleared}] /\ rx' = [rx EXCEPT ![idx] = v]
  BY SizeAssumption DEF TypeInv, TypeOK, Store, Index
<1>2. rx'[idx] = v /\ \A i \in Index : i # idx => rx'[i] = rx[i]
  BY <1>1
<1>3. \A w, i : Right(w, i)' <=> Right(w, i)
  BY DEF Right, Val
<1>4. SoFar' <=> \A i \in Index : i < idx + 1 => Right(rx'[i], i)
  BY <1>1, <1>3 DEF SoFar
<1>5. SoFar' <=> SoFar /\ Right(v, idx)
  BY <1>1, <1>2, <1>4 DEF SoFar, Index
<1>. QED
  BY <1>1, <1>5 DEF Store, Step1

\* Only a store, a new pass or a new buffer changes what has been stored.
LEMMA SoFarStays ==
  ASSUME UNCHANGED <<pattern, rx, idx>>
  PROVE  SoFar' <=> SoFar
  BY DEF SoFar, Right, Val

LEMMA SoFarBegins ==
  ASSUME idx' = 0
  PROVE  SoFar'
  BY DEF SoFar, Index

-----------------------------------------------------------------------------
(* Aligned.                                                                *)

LEMMA AlignedInit == Init => Aligned
  BY DEF Init, Aligned, Moving, After, Given

LEMMA AlignedPio == TypeInv /\ Aligned /\ (Pull \/ Push) => Aligned'
<1> SUFFICES ASSUME TypeInv, Aligned, Pull \/ Push PROVE Aligned'
  OBVIOUS
<1>1. UNCHANGED <<host, pattern, rx, idx, c1>>
  BY DEF Pull, Push, c1Vars, bufVars, hostVars
<1>2. Under' = Under /\ \A j \in 1..Under : At(j)' = At(j)
  BY UnderPio
<1>. QED
  BY <1>1, <1>2 DEF Aligned, Newest, SoFar, Right, Val

\* At the beginning of a pass nothing is claimed: at most 2 * Depth + 1 words
\* are under way.
LEMMA AlignedNewPass ==
  ASSUME TypeInv, idx' = 0, c1' = "put", UNCHANGED <<txf, osr, rxf>>
  PROVE  Aligned'
<1>1. Under' = Under /\ Under <= 2 * Depth + 1 /\ Under \in Nat
  BY UnderType DEF Under, Held
<1>2. Depth \in Nat
  BY SizeAssumption
<1>. QED
  BY <1>1, <1>2 DEF Aligned, After

LEMMA AlignedPut == TypeInv /\ Aligned /\ Put => Aligned'
<1> SUFFICES ASSUME TypeInv, Aligned, Put PROVE Aligned'
  OBVIOUS
<1>1. c1 = "put" /\ c1' = "get" /\ UNCHANGED <<idx, pattern, rx>>
  BY DEF Put, Step1, bufVars
<1>2. SUFFICES ASSUME SoFar, pattern # "fixed", NEW j \in 1..Under', 2 * Depth + 1 - idx < j
               PROVE  /\ At(j)' <= idx
                      /\ At(j)' >= idx - (2 * Depth + 1) + (j - 1)
                      /\ \A k \in 1..Under' : j < k => At(j)' < At(k)'
  BY <1>1 DEF Aligned, Newest, SoFar, Right, Val, After, Moving
<1>3. \A i \in 1..Under : 2 * Depth + 1 - idx < i =>
        /\ At(i) < idx /\ At(i) >= idx - (2 * Depth + 1) + (i - 1)
        /\ \A k \in 1..Under : i < k => At(i) < At(k)
  BY <1>1, <1>2 DEF Aligned, Newest, Moving
<1>4. /\ Under \in Nat /\ \A i \in 1..Under : At(i) \in Nat
      /\ idx \in Nat /\ Depth \in Nat
  BY UnderType, SizeAssumption DEF Index, TypeInv, TypeOK
<1>5. /\ \A i \in 1..Under : At(i)' = At(i)
      /\ (Under' = Under + 1 /\ At(Under)' = idx) \/ Under' = Under
  BY UnderPut
<1>6. ASSUME NEW i \in 1..Under' PROVE i \in 1..Under \/ At(i)' = idx
  BY <1>4, <1>5
<1>7. At(j)' <= idx
  BY <1>2, <1>3, <1>4, <1>5, <1>6
<1>8. Under' <= 2 * Depth + 1
  <2>1. TypeInv'
    BY TypeCore1 DEF Core1
  <2>2. /\ rxf' \in Seq(Index) /\ txf' \in Seq(Index)
        /\ Len(rxf') <= Depth /\ Len(txf') <= Depth
    BY <2>1 DEF TypeInv, TypeOK
  <2>. QED
    BY <1>4, <2>2 DEF Under, Held
<1>9. At(j)' >= idx - (2 * Depth + 1) + (j - 1)
  BY <1>2, <1>3, <1>4, <1>5, <1>6, <1>8
<1>10. ASSUME NEW k \in 1..Under', j < k PROVE At(j)' < At(k)'
  <2>1. j \in 1..Under
    BY <1>4, <1>5, <1>10
  <2>. QED
    BY <1>2, <1>3, <1>4, <1>5, <1>6, <1>10, <2>1
<1>. QED
  BY <1>7, <1>9, <1>10

\* In walk a word repeats only after Walk others, so of the words at most
\* 2 * Depth + 1 behind, none but the right one has its value.
LEMMA OneInPeriod ==
  ASSUME NEW a \in Nat, NEW b \in Nat, NEW W \in Nat \ {0},
         a % W = b % W, b <= a, a - b < W
  PROVE  a = b
<1>. DEFINE d == (a \div W) - (b \div W)
<1>0. a \div W \in Int /\ b \div W \in Int
  OBVIOUS
<1>1. a = W * (a \div W) + (a % W)
  OBVIOUS
<1>b. b = W * (b \div W) + (b % W)
  OBVIOUS
<1>2. d \in Int /\ a - b = W * d
  BY <1>0, <1>1, <1>b
<1>. HIDE DEF d
<1>3. d >= 1 => W * d >= W
  BY <1>2
<1>4. d <= -1 => W * d <= -W
  BY <1>2
<1>5. d = 0
  BY <1>2, <1>3, <1>4
<1>. QED
  BY <1>2, <1>5

\* A wrong word ends the claim until the next pass.  A right one was the
\* oldest; if it was the last of the pass, no word is left behind it: those of
\* earlier passes are out, and nothing was put later.
LEMMA AlignedGet == TypeInv /\ Aligned /\ Get => Aligned'
<1> SUFFICES ASSUME TypeInv, Aligned, Get PROVE Aligned'
  OBVIOUS
<1>1. c1 = "get"
  BY DEF Get
<1>2. PICK v \in Word :
        /\ Store(v) /\ UNCHANGED <<pattern, txf, osr>>
        /\ v = Junk \/ v \in Late \/ (rxf # <<>> /\ v = Head(rxf) /\ rxf' = Tail(rxf))
  BY GetCases
<1>3. /\ SoFar' <=> SoFar /\ Right(v, idx)
      /\ idx \in Nat /\ idx < N /\ idx' = idx + 1
      /\ c1' = IF idx + 1 < N THEN "put" ELSE "words"
  BY <1>1, <1>2, StoreSoFar
<1>4. SUFFICES ASSUME SoFar, Right(v, idx), pattern # "fixed" PROVE Aligned'
  BY <1>2, <1>3 DEF Aligned
<1>5. /\ v = At(1) /\ Under > 0 /\ Under' = Under - 1
      /\ \A j \in 1..Under - 1 : At(j)' = At(j + 1)
  <2>1. v # Junk /\ v \notin Late
    BY <1>4 DEF Right, Index, Junk, Late
  <2>. QED
    BY <1>2, <2>1, UnderGet
<1>6. /\ Under \in Nat /\ \A j \in 1..Under : At(j) \in Nat
      /\ Depth \in Nat /\ N \in Nat /\ N > 2 * Depth + 1
  BY UnderType, SizeAssumption DEF Index
<1>7. \A j \in 1..Under : 2 * Depth + 1 - idx < j =>
        /\ At(j) <= idx /\ At(j) >= idx - (2 * Depth + 1) + (j - 1)
        /\ \A k \in 1..Under : j < k => At(j) < At(k)
  BY <1>1, <1>4 DEF Aligned, Newest, Moving
<1>8. CASE idx + 1 < N
  <2>1. c1' = "put"
    BY <1>3, <1>8
  <2>2. ASSUME NEW j \in 1..Under', 2 * Depth + 1 - idx' < j
        PROVE  /\ At(j)' < idx' /\ At(j)' >= idx' - (2 * Depth + 1) + (j - 1)
               /\ \A k \in 1..Under' : j < k => At(j)' < At(k)'
    <3>1. j + 1 \in 1..Under /\ 2 * Depth + 1 - idx < j + 1 /\ j \in 1..Under - 1
      BY <1>3, <1>5, <1>6, <2>2
    <3>2. /\ At(j + 1) <= idx /\ At(j)' = At(j + 1) /\ At(j + 1) \in Nat
          /\ At(j + 1) >= idx - (2 * Depth + 1) + ((j + 1) - 1)
      BY <1>5, <1>6, <1>7, <3>1
    <3>3. ASSUME NEW k \in 1..Under', j < k PROVE At(j)' < At(k)'
      <4>1. k + 1 \in 1..Under /\ j + 1 < k + 1 /\ k \in 1..Under - 1
        BY <1>5, <1>6, <3>1, <3>3
      <4>. QED
        BY <1>5, <1>7, <3>1, <3>2, <4>1
    <3>. QED
      BY <1>3, <1>6, <2>2, <3>2, <3>3
  <2>. QED
    BY <2>1, <2>2 DEF Aligned, Newest, After
<1>9. CASE ~(idx + 1 < N)
  <2>1. c1' = "words"
    BY <1>3, <1>9
  <2>2. 2 * Depth + 1 - idx < 1
    BY <1>3, <1>6, <1>9
  <2>5. At(1) = idx
    <3>1. /\ At(1) \in Nat /\ At(1) <= idx /\ idx - At(1) <= 2 * Depth + 1
      BY <1>3, <1>5, <1>6, <1>7, <2>2
    <3>2. Val(At(1)) = Val(idx)
      BY <1>4, <1>5 DEF Right
    <3>3. pattern \in {"seq", "walk"} /\ Walk \in Nat \ {0} /\ 2 * Depth + 1 < Walk
      BY <1>4, <1>6, PatternAssumption DEF TypeInv, TypeOK
    <3>4. CASE pattern = "seq"
      BY <3>2, <3>4 DEF Val
    <3>5. CASE pattern = "walk"
      <4>1. At(1) % Walk = idx % Walk
        BY <3>2, <3>5 DEF Val
      <4>2. At(1) <= idx /\ idx - At(1) < Walk
        BY <1>3, <1>6, <3>1, <3>3
      <4>. QED
        BY <1>3, <3>1, <3>3, <4>1, <4>2, OneInPeriod
    <3>. QED
      BY <3>3, <3>4, <3>5
  <2>3. ~(Under >= 2)
    <3> SUFFICES ASSUME Under >= 2 PROVE FALSE
      OBVIOUS
    <3>1. 1 \in 1..Under /\ 2 \in 1..Under /\ 2 * Depth + 1 - idx < 2
      BY <1>3, <1>6, <2>2
    <3>2. At(1) < At(2) /\ At(2) <= idx
      BY <1>7, <2>2, <3>1
    <3>. QED
      BY <1>3, <1>6, <2>5, <3>1, <3>2
  <2>4. Under' = 0
    BY <1>5, <1>6, <2>3
  <2>. QED
    BY <2>1, <2>4 DEF Aligned, Moving
<1>. QED
  BY <1>8, <1>9

\* The other steps of Core 1 move no word.
LEMMA AlignedCore1 == TypeInv /\ Launched /\ Aligned /\ Core1 => Aligned'
<1> SUFFICES ASSUME TypeInv, Launched, Aligned, Core1 PROVE Aligned'
  OBVIOUS
<1>1. CASE Put
  BY <1>1, AlignedPut
<1>2. CASE Get
  BY <1>2, AlignedGet
<1>3. CASE WaitCmd
  <2>1. idx' = 0 /\ c1' = "put" /\ UNCHANGED <<txf, osr, rxf>>
    BY <1>3 DEF WaitCmd, Step1, pioVars
  <2>. QED
    BY <2>1, AlignedNewPass
<1>4. CASE Check
  <2>1. CASE c1' = "put" /\ idx' = 0
    BY <1>4, <2>1, AlignedNewPass DEF Check, pioVars
  <2>2. CASE c1' = "done" /\ idx' = idx
    <3>1. c1 = "check" /\ UNCHANGED <<pattern, rx, txf, osr, rxf>>
      BY <1>4 DEF Check, pioVars, bufVars
    <3>. QED
      BY <2>2, <3>1 DEF Aligned, SoFar, Right, Val, Under, Held, After, Moving
  <2>. QED
    BY <1>4, <2>1, <2>2 DEF Check, Step1
<1>5. ASSUME Entry \/ StoreWords \/ StorePasses \/ Verify \/ Done PROVE Aligned'
  <2>1. UNCHANGED <<host, pattern, rx, idx, txf, osr, rxf>>
    BY <1>5 DEF Entry, StoreWords, StorePasses, Verify, Done, pioVars, bufVars, hostVars
  <2>3. c1' = "wait" => host \notin {"cmd"} \cup Given
    BY <1>5 DEF Entry, StoreWords, StorePasses, Verify, Done, Step1, Launched, Given, Moving, After
  <2>2. c1' \notin Moving /\ (c1' \in After => c1 \in After)
    BY <1>5 DEF Entry, StoreWords, StorePasses, Verify, Done, Moving, After, Step1
  <2>. QED
    BY <2>1, <2>2, <2>3 DEF Aligned, SoFar, Right, Val, Under, Held
<1>. QED
  BY <1>1, <1>2, <1>3, <1>4, <1>5 DEF Core1

\* The host touches RX and the FIFOs only where that makes the claim void.
LEMMA AlignedHost == TypeInv /\ Launched /\ Aligned /\ (Main \/ Kill) => Aligned'
<1> SUFFICES ASSUME TypeInv, Launched, Aligned, Main \/ Kill PROVE Aligned'
  OBVIOUS
<1>1. CASE Fill
  <2>1. rx' = [i \in Index |-> Cleared] /\ UNCHANGED <<c1, idx, txf, osr, rxf>>
    BY <1>1 DEF Fill, c1Vars, pioVars, bufVars
  <2>2. idx \in 0..N /\ N \in Nat \ {0} /\ Depth \in Nat
    BY SizeAssumption DEF TypeInv, TypeOK
  <2>3. SoFar' => idx = 0
    <3> SUFFICES ASSUME SoFar', idx # 0 PROVE FALSE
      OBVIOUS
    <3>1. 0 \in Index /\ 0 < idx'
      BY <2>1, <2>2 DEF Index
    <3>2. rx'[0] \in Index
      BY <3>1 DEF SoFar, Right, Index
    <3>. QED
      BY <2>1, <3>1, <3>2 DEF Cleared, Index
  <2>4. c1 \in After => idx = N
    BY DEF TypeInv, Steps
  <2>5. Under' = Under /\ Under <= 2 * Depth + 1 /\ Under \in Nat
    BY <2>1, UnderType DEF Under, Held
  <2>. QED
    BY <1>1, <2>1, <2>2, <2>3, <2>4, <2>5 DEF Aligned, Fill, Only, HostStep, Ahead, Given
<1>2. CASE Reset
  BY <1>2 DEF Reset, Aligned, Moving, After
<1>3. CASE Release
  BY <1>3 DEF Release, Aligned, Moving, After
<1>4. CASE setup_pio_sm3
  <2>1. c1' = "wait"
    BY <1>4 DEF setup_pio_sm3, Only, HostStep, Launched, c1Vars
  <2>2. txf' = <<>> /\ rxf' = <<>> /\ osr' = Empty
    BY <1>4 DEF setup_pio_sm3
  <2>3. Under' = 0
    BY <2>2 DEF Under, Held
  <2>. QED
    BY <2>1, <2>3 DEF Aligned, Moving, After
<1>5. ASSUME Start \/ ClearStatus \/ Await \/ SendCmd \/ ReadStart \/ StopCmd \/ Pause
             \/ ReadWords \/ ReadErrors \/ ReadPasses \/ Judge \/ Exit \/ Kill
      PROVE  Aligned'
  <2>1. UNCHANGED <<pattern, rx, c1, idx, txf, osr, rxf>>
    BY <1>5 DEF Start, ClearStatus, Await, SendCmd, ReadStart, StopCmd, Pause, ReadWords,
         ReadErrors, ReadPasses, Judge, Exit, Kill, Gone, Reads, c1Vars, pioVars, bufVars
  <2>2. host' \in {"cmd"} \cup Given => host \in {"cmd"} \cup Given
    BY <1>5 DEF Start, ClearStatus, Await, SendCmd, ReadStart, StopCmd, Pause, ReadWords,
         ReadErrors, ReadPasses, Judge, Exit, Kill, Gone, Only, HostStep, Ahead, Given
  <2>. QED
    BY <2>1, <2>2, SoFarStays DEF Aligned, Newest, Under, Held, At
<1>. QED
  BY <1>1, <1>2, <1>3, <1>4, <1>5 DEF Main

-----------------------------------------------------------------------------
(* Noticed.                                                                *)

\* Behind a pass, comparing the whole RX buffer is comparing what was stored.
LEMMA ComparedAll ==
  ASSUME TypeInv, c1 \in After
  PROVE  Mismatches \in Nat /\ (Mismatches = 0 <=> SoFar)
<1>1. idx = N /\ N \in Nat
  BY SizeAssumption DEF TypeInv, Steps
<1>. QED
  BY <1>1, MismatchesNat DEF SoFar, Index

LEMMA NoticedInit == Init => Noticed
  BY DEF Init, Noticed, Given

LEMMA NoticedPio == Noticed /\ (Pull \/ Push) => Noticed'
<1> SUFFICES ASSUME Noticed, Pull \/ Push PROVE Noticed'
  OBVIOUS
<1>1. UNCHANGED <<hostVars, statusVars, bufVars, c1Vars>>
  BY DEF Pull, Push
<1>. QED
  BY <1>1 DEF Noticed, SoFar, Right, Val, hostVars, statusVars, c1Vars, bufVars

\* A wrong word stays in RX until the pass is over; in verify mode Core 1 then
\* counts it, and the count never goes back while this run lasts.
LEMMA NoticedCore1 == TypeInv /\ Launched /\ Noticed /\ Core1 => Noticed'
<1> SUFFICES ASSUME TypeInv, Launched, Noticed, Core1, host \in Given PROVE Noticed'
  BY DEF Core1, Entry, WaitCmd, Put, Get, StoreWords, StorePasses, Verify, Check, Done, Noticed,
         hostVars, Given
<1>1. hostVars' = hostVars
  BY DEF Core1, Entry, WaitCmd, Put, Get, StoreWords, StorePasses, Verify, Check, Done
<1>2. host # "report" /\ c1 # "off" /\ c1 # "entry"
  BY DEF Core1, Entry, WaitCmd, Put, Get, StoreWords, StorePasses, Verify, Check, Done, Launched,
         Given, Final, Moving, After
<1>3. errs \in Nat /\ bad \in BOOLEAN
  BY DEF TypeInv, TypeOK
<1> USE DEF Noticed, hostVars, bufVars, Step1, Moving, After
<1>4. CASE WaitCmd
  BY <1>1, <1>2, <1>4 DEF WaitCmd, Launched
<1>5. CASE Put
  BY <1>1, <1>2, <1>5 DEF Put, SoFar, Right, Val, statusVars
<1>6. CASE Get
  <2>1. PICK v \in Word : Store(v) /\ UNCHANGED <<statusVars, pattern>>
    BY <1>6, GetCases
  <2>2. c1 = "get"
    BY <1>6 DEF Get
  <2>3. (SoFar' <=> SoFar /\ Right(v, idx)) /\ (bad' <=> bad \/ ~Right(v, idx))
        /\ c1' \in {"put", "words"}
    BY <2>1, <2>2, StoreSoFar
  <2>4. errs' = errs
    BY <2>1 DEF statusVars
  <2>. QED
    BY <1>1, <1>2, <1>3, <2>2, <2>3, <2>4
<1>7. CASE StoreWords
  BY <1>1, <1>2, <1>7 DEF StoreWords, SoFar, Right, Val
<1>8. CASE StorePasses
  <2>1. verify => mode = 2
    BY <1>8 DEF StorePasses, Launched
  <2>2. verify => c1' = "verify"
    BY <1>8, <2>1 DEF StorePasses
  <2>. QED
    BY <1>1, <1>2, <1>8, <2>2 DEF StorePasses, SoFar, Right, Val
<1>9. CASE Verify
  <2>1. c1 = "verify" /\ errs' = errs + Mismatches /\ bad' = bad
    BY <1>9 DEF Verify
  <2>2. Mismatches \in Nat /\ (Mismatches = 0 <=> SoFar)
    BY <2>1, ComparedAll
  <2>3. verify /\ bad => errs' > 0
    BY <1>3, <2>1, <2>2
  <2>. QED
    BY <1>1, <1>2, <2>1, <2>3
<1>10. CASE Check
  BY <1>1, <1>2, <1>10 DEF Check, statusVars
<1>11. CASE Done
  BY <1>1, <1>2, <1>11 DEF Done
<1>. QED
  BY <1>2, <1>4, <1>5, <1>6, <1>7, <1>8, <1>9, <1>10, <1>11 DEF Core1, Entry

\* The verdict takes both: the count of Core 1, and the last pass in RX.
LEMMA NoticedHost == TypeInv /\ Launched /\ Noticed /\ (Main \/ Kill) => Noticed'
<1> SUFFICES ASSUME TypeInv, Launched, Noticed, Main \/ Kill PROVE Noticed'
  OBVIOUS
<1> USE DEF Noticed, hostVars, statusVars, c1Vars, bufVars, Only, HostStep, Ahead, Reads, Given
<1>1. ASSUME Start \/ Fill \/ ClearStatus \/ Reset \/ Release \/ Await \/ setup_pio_sm3 \/ Kill
             \/ Exit
      PROVE  Noticed'
  <2>1. host' \notin Given
    BY <1>1 DEF Start, Fill, ClearStatus, Reset, Release, Await, setup_pio_sm3, Kill, Exit, Gone
  <2>. QED
    BY <2>1
<1>2. CASE SendCmd
  BY <1>2 DEF SendCmd, Launched
<1>3. ASSUME ReadStart \/ StopCmd \/ Pause \/ ReadWords \/ ReadErrors \/ ReadPasses
      PROVE  Noticed'
  <2>1. /\ host \in Given /\ host' \in Given \ {"report"}
        /\ UNCHANGED <<verify, errs, c1, bad, idx, pattern, rx>>
    BY <1>3 DEF ReadStart, StopCmd, Pause, ReadWords, ReadErrors, ReadPasses
  <2>. QED
    BY <2>1 DEF SoFar, Right, Val
<1>4. CASE Judge
  <2>1. /\ host = "judge" /\ host' = "report"
        /\ UNCHANGED <<verify, errs, c1, bad, idx, pattern, rx>>
        /\ report' = [report EXCEPT !.verdict =
                        IF report.errs = 0 /\ Mismatches = 0 THEN "pass" ELSE "fail"]
    BY <1>4 DEF Judge
  <2>2. report \in Reports
    BY DEF TypeInv, Steps
  <2>3. /\ report'.errs = report.errs
        /\ report'.verdict = IF report.errs = 0 /\ Mismatches = 0 THEN "pass" ELSE "fail"
    BY <2>1, <2>2 DEF Reports
  <2>4. c1 \in {"spin", "wait"} /\ (c1 = "spin" => (Mismatches = 0 <=> SoFar))
    BY <2>1, ComparedAll DEF Launched, Final, After
  <2>5. SoFar' <=> SoFar
    BY <2>1 DEF SoFar, Right, Val
  <2>. QED
    BY <2>1, <2>3, <2>4, <2>5
<1>. QED
  BY <1>1, <1>2, <1>3, <1>4 DEF Main

LEMMA VerdictStep ==
  TypeInv /\ Launched /\ Aligned /\ Noticed /\ [Next]_vars => (Aligned /\ Noticed)'
<1>1. ASSUME Aligned, Noticed, UNCHANGED vars PROVE Aligned' /\ Noticed'
  <2>1. SoFar' <=> SoFar
    BY <1>1, SoFarStays DEF vars, bufVars, c1Vars
  <2>2. Noticed'
    BY <1>1, <2>1 DEF Noticed, vars, hostVars, statusVars, c1Vars
  <2>3. UNCHANGED <<host, pattern, idx, c1, txf, osr, rxf>>
    BY <1>1 DEF vars, hostVars, bufVars, c1Vars, pioVars
  <2>4. Under' = Under /\ \A j \in 1..Under : At(j)' = At(j)
    BY <2>3 DEF Under, Held, At
  <2>5. Aligned'
    BY <1>1, <2>1, <2>3, <2>4 DEF Aligned, Newest
  <2>. QED
    BY <2>2, <2>5
<1>. QED
  BY <1>1, AlignedPio, AlignedCore1, AlignedHost, NoticedPio, NoticedCore1, NoticedHost DEF Next

LEMMA VerdictAlways ==
  Spec => []((TypeInv /\ Launched /\ Counters) /\ Aligned /\ Noticed)
<1>1. Init => (TypeInv /\ Launched /\ Counters) /\ Aligned /\ Noticed
  BY TypeInit, LaunchedInit, CountersInit, AlignedInit, NoticedInit
<1>2. (TypeInv /\ Launched /\ Counters) /\ Aligned /\ Noticed /\ [Next]_vars
        => ((TypeInv /\ Launched /\ Counters) /\ Aligned /\ Noticed)'
  BY ControlStep, VerdictStep
<1>. QED
  BY <1>1, <1>2, PTL DEF Spec

\* Unless all words are alike (pattern fixed), a PASS leaves no word behind in
\* the state machine; and in verify mode it means that no word of any pass looked
\* wrong (the host's comparison of the last pass and the firmware's count of all
\* of them).
THEOREM PassesCover == Spec => []PassSound
<1>1. (TypeInv /\ Launched /\ Counters) /\ Aligned /\ Noticed => PassSound
  <2> SUFFICES ASSUME TypeInv, Launched, Counters, Aligned, Noticed,
                      host = "report", report.verdict = "pass"
               PROVE  /\ pattern # "fixed" => txf = <<>> /\ rxf = <<>> /\ osr = Empty
                      /\ verify => ~bad
    BY DEF PassSound
  <2>1. report.errs = 0 /\ (c1 = "spin" => SoFar)
    BY DEF Noticed
  <2>2. c1 \in {"spin", "wait"} /\ host \in Given /\ errs = 0
    BY <2>1 DEF Launched, Final, Counters, Given
  <2>3. pattern # "fixed" => Under = 0
    BY <2>1, <2>2 DEF Aligned, After
  <2>4. verify => ~bad
    BY <2>1, <2>2 DEF Noticed, Launched, Moving
  <2>. QED
    BY <2>3, <2>4, UnderType
<1>. QED
  BY <1>1, VerdictAlways, PTL

-----------------------------------------------------------------------------
(* Faultless.                                                              *)

LEMMA FaultlessInit == Init => Faultless
  BY DEF Init, Faultless, Given

LEMMA FaultlessPio == TypeInv /\ Faultless /\ (Pull \/ Push) => Faultless'
<1> SUFFICES ASSUME TypeInv, Faultless, Pull \/ Push PROVE Faultless'
  OBVIOUS
<1>1. UNCHANGED <<host, errs, pattern, rx, idx, c1, faults>>
  BY DEF Pull, Push, hostVars, statusVars, c1Vars, bufVars
<1>2. Under' = Under /\ \A j \in 1..Under : At(j)' = At(j)
  BY UnderPio
<1>. QED
  BY <1>1, <1>2, SoFarStays DEF Faultless

\* Put finds the FIFOs empty, and Get the one word that was put.
LEMMA FaultlessCore1 == TypeInv /\ Launched /\ Faultless /\ Core1 => Faultless'
<1> SUFFICES ASSUME TypeInv, Launched, Faultless, Core1, host' \in {"cmd"} \cup Given, faults' = 0
             PROVE  Faultless'
  BY DEF Faultless
<1>1. host' = host
  BY DEF Core1, Entry, WaitCmd, Put, Get, StoreWords, StorePasses, Verify, Check, Done, hostVars
<1>2. faults = 0
  <2>1. faults \in Nat
    BY FaultAssumption DEF TypeInv, TypeOK
  <2>. QED
    BY <2>1 DEF Core1, Entry, WaitCmd, Put, Get, StoreWords, StorePasses, Verify, Check, Done,
         Fault
<1>3. /\ errs = 0 /\ prog
      /\ c1 \in {"wait", "put"} \cup After => Under = 0
      /\ c1 = "get" => Under = 1 /\ At(1) = idx
      /\ c1 \in Moving \cup After => SoFar
      /\ c1 \in {"wait"} \cup Moving \cup After
  BY <1>1, <1>2 DEF Faultless, Launched
<1>4. CASE Put
  <2>1. Under = 0 /\ c1' = "get" /\ UNCHANGED <<pattern, rx, idx, errs>>
    BY <1>3, <1>4 DEF Put, Step1, statusVars, bufVars
  <2>2. txf = <<>> /\ Depth > 0
    BY <2>1, UnderType, SizeAssumption
  <2>3. Under' = 1 /\ At(Under)' = idx
    BY <1>4, <2>1, <2>2, UnderPut
  <2>4. At(1)' = idx'
    BY <2>1, <2>3
  <2>. QED
    BY <1>3, <1>4, <2>1, <2>3, <2>4 DEF Faultless, SoFar, Right, Val, Moving, After, Put
<1>5. CASE Get
  <2>0. c1 = "get"
    BY <1>5 DEF Get
  <2>1. PICK v \in Word :
          /\ Store(v) /\ UNCHANGED <<hostVars, statusVars, pattern, total, mode, prog, txf, osr>>
          /\ \/ rxf # <<>> /\ v = Head(rxf) /\ rxf' = Tail(rxf) /\ UNCHANGED faults
             \/ rxf # <<>> /\ v = Junk /\ rxf' = Tail(rxf) /\ Fault
             \/ rxf = <<>> /\ v \in Late /\ rxf' = rxf /\ PioIdle /\ UNCHANGED faults
             \/ rxf = <<>> /\ v \in Late /\ rxf' = rxf /\ Fault
    BY <1>5, GetCases
  <2>2. ~Fault
    BY <1>2 DEF Fault
  <2>3. ~(rxf = <<>> /\ PioIdle)
    <3> SUFFICES ASSUME rxf = <<>>, txf = <<>>, osr = Empty PROVE FALSE
      BY <1>3 DEF PioIdle
    <3>1. Under = 0
      BY DEF Under, Held
    <3>. QED
      BY <1>3, <2>0, <3>1
  <2>4. rxf # <<>> /\ v = Head(rxf) /\ rxf' = Tail(rxf)
    BY <2>1, <2>2, <2>3
  <2>5. v = idx /\ Under' = 0
    BY <1>3, <2>0, <2>1, <2>4, UnderGet
  <2>6. SoFar' /\ c1' \in {"put", "words"}
    <3>1. Right(v, idx)
      BY <2>1, <2>5, <2>0, SizeAssumption DEF Right, Index, TypeInv, TypeOK
    <3>. QED
      BY <1>3, <2>0, <2>1, <3>1, StoreSoFar DEF Moving
  <2>7. errs' = errs
    BY <2>1 DEF statusVars
  <2>. QED
    BY <1>3, <2>5, <2>6, <2>7 DEF Faultless
<1>6. CASE Verify
  <2>1. c1 = "verify" /\ c1' = "check" /\ errs' = errs + Mismatches
        /\ UNCHANGED <<pattern, rx, idx, txf, osr, rxf>>
    BY <1>6 DEF Verify, Step1, pioVars, bufVars
  <2>2. Mismatches = 0 /\ SoFar
    BY <1>3, <2>1, ComparedAll DEF After
  <2>3. SoFar' /\ errs' = 0 /\ Under' = 0
    BY <1>3, <2>1, <2>2, SoFarStays DEF Under, Held, After
  <2>. QED
    BY <2>1, <2>3 DEF Faultless
<1>7. CASE WaitCmd
  <2>1. c1 = "wait" /\ c1' = "put" /\ idx' = 0 /\ UNCHANGED <<errs, pattern, rx, txf, osr, rxf>>
    BY <1>7 DEF WaitCmd, Step1, pioVars, bufVars
  <2>2. SoFar'
    BY <2>1 DEF SoFar, Right, Val, Index
  <2>. QED
    BY <1>3, <2>1, <2>2 DEF Faultless, Under, Held
<1>8. CASE Check
  <2>1. c1 = "check" /\ UNCHANGED <<errs, pattern, rx, txf, osr, rxf>>
    BY <1>8 DEF Check, pioVars, statusVars, bufVars
  <2>2. (c1' = "done" /\ idx' = idx) \/ (c1' = "put" /\ idx' = 0)
    BY <1>8 DEF Check, Step1
  <2>3. SoFar'
    BY <1>3, <2>1, <2>2, SoFarStays, SoFarBegins DEF After
  <2>. QED
    BY <1>3, <2>1, <2>2, <2>3 DEF Faultless, Under, Held, After
<1>9. ASSUME StoreWords \/ StorePasses \/ Done PROVE Faultless'
  <2>1. c1 \in After /\ c1' \in After /\ UNCHANGED <<errs, pattern, rx, idx, txf, osr, rxf>>
    BY <1>9 DEF StoreWords, StorePasses, Done, Step1, After, pioVars, bufVars
  <2>. QED
    BY <1>3, <2>1 DEF Faultless, SoFar, Right, Val, After, Under, Held
<1>. QED
  BY <1>3, <1>4, <1>5, <1>6, <1>7, <1>8, <1>9 DEF Core1, Entry, Moving, After

LEMMA FaultlessHost == TypeInv /\ Launched /\ Faultless /\ (Main \/ Kill) => Faultless'
<1> SUFFICES ASSUME TypeInv, Launched, Faultless, Main \/ Kill PROVE Faultless'
  OBVIOUS
<1> USE DEF Only, HostStep, Ahead, Reads
<1>1. ASSUME Start \/ Fill \/ ClearStatus \/ Reset \/ Release \/ Await \/ Kill \/ Exit
      PROVE  Faultless'
  <2>1. host' \notin {"cmd"} \cup Given
    BY <1>1 DEF Start, Fill, ClearStatus, Reset, Release, Await, Kill, Exit, Gone, Given
  <2>. QED
    BY <2>1 DEF Faultless
<1>2. CASE setup_pio_sm3
  <2>1. /\ c1' = "wait" /\ errs' = 0
        /\ txf' = <<>> /\ rxf' = <<>> /\ osr' = Empty
    BY <1>2 DEF setup_pio_sm3, Launched, c1Vars, statusVars
  <2>2. Under' = 0
    BY <2>1 DEF Under, Held
  <2>. QED
    BY <2>1, <2>2 DEF Faultless, Moving, After
<1>3. ASSUME SendCmd \/ ReadStart \/ StopCmd \/ Pause \/ ReadWords \/ ReadErrors \/ ReadPasses
             \/ Judge
      PROVE  Faultless'
  <2>1. /\ host \in {"cmd"} \cup Given
        /\ UNCHANGED <<errs, c1, idx, pattern, rx, faults, txf, osr, rxf>>
    BY <1>3 DEF SendCmd, ReadStart, StopCmd, Pause, ReadWords, ReadErrors, ReadPasses, Judge,
         Given, statusVars, c1Vars, pioVars, bufVars
  <2>. QED
    BY <2>1 DEF Faultless, SoFar, Right, Val, Under, Held, At
<1>. QED
  BY <1>1, <1>2, <1>3 DEF Main

LEMMA FaultlessStep == TypeInv /\ Launched /\ Faultless /\ [Next]_vars => Faultless'
<1>1. ASSUME Faultless, UNCHANGED vars PROVE Faultless'
  BY <1>1 DEF Faultless, SoFar, Right, Val, Under, Held, At, vars, hostVars, statusVars, c1Vars, pioVars, bufVars
<1>. QED
  BY <1>1, FaultlessPio, FaultlessCore1, FaultlessHost DEF Next

\* A run that made a pass, in which the state machine kept up and nothing
\* disturbed the bus, gets the verdict PASS, whatever an earlier, killed run left
\* in FIFOs, RX or status.
THEOREM FaultlessRunsPass == Spec => []CleanRunPasses
<1>1. Init => Faultless
  BY FaultlessInit
<1>2. TypeInv /\ Launched /\ Counters => TypeInv /\ Launched
  OBVIOUS
<1>3. Spec => []Faultless
  BY <1>1, <1>2, FaultlessStep, ControlAlways, PTL DEF Spec
<1>4. (TypeInv /\ Launched /\ Counters) /\ Aligned /\ Noticed /\ Faultless => CleanRunPasses
  <2> SUFFICES ASSUME TypeInv, Launched, Counters, Noticed, Faultless, host = "report",
                      report.passes > 0, faults = 0
               PROVE  report.verdict = "pass"
    BY DEF CleanRunPasses
  <2>1. c1 = "spin" /\ report.errs = errs
    <3>1. report.passes = passes /\ passes # 0 /\ report.errs = errs
      BY DEF Counters, Given
    <3>. QED
      BY <3>1 DEF Launched, Final
  <2>2. errs = 0 /\ SoFar
    BY <2>1 DEF Faultless, Given, After
  <2>. QED
    BY <2>1, <2>2 DEF Noticed
<1>. QED
  BY <1>3, <1>4, VerdictAlways, PTL

=============================================================================
