-------------------------- MODULE CyclicBenchProofs --------------------------
(***************************************************************************)
(* Theorems about CyclicBench for every number of runs and every choice of *)
(* failing calls: a killed run's session is left alone, for any number of  *)
(* killed runs; and, without a killed run and with the SRAM test only in   *)
(* both directions, a PASS is about words of the run's own rings and the   *)
(* driver is handed on clean.                                              *)
(***************************************************************************)
EXTENDS CyclicBench, SingleCallerProofs

USE BenchAssumption

-----------------------------------------------------------------------------
(* What the driver's steps do to the program counters.                     *)

LEMMA Two ==
  /\ Bench \in Callers /\ Bench \in Procs /\ Rmmod \in Procs /\ Bench # Rmmod
  /\ Callers = {Bench} /\ Procs = {Bench, Rmmod}
BY ProcsAssumption DEF Procs

\* The handler and the step of a process.
LEMMA Where ==
  ASSUME NEW p, NEW h, NEW s, At(p, h, s)
  PROVE  pc[p][1] = h /\ pc[p][2] = s /\ (h # "idle" => pc[p] # Idle)
<1>1. pc[p] = <<h, s>>
  BY DEF At
<1>2. pc[p][1] = h /\ pc[p][2] = s
  BY <1>1
<1> QED BY <1>2, IdleParts

\* Process p goes on in handler h, or returns from it.
Goes(p, h) ==
  /\ \E s : At(p, h, s)
  /\ \E l : /\ pc' = [pc EXCEPT ![p] = l]
            /\ l = Idle \/ \E t : l = <<h, t>>

LEMMA GoesTo ==
  ASSUME TypeOK, NEW p \in Procs, NEW h, h # "idle", Goes(p, h)
  PROVE  /\ pc[p][1] = h /\ pc[p] # Idle
         /\ pc'[p] = Idle \/ pc'[p][1] = h
         /\ \A q \in Procs \ {p} : pc'[q] = pc[q]
<1>1. PICK s : At(p, h, s)
  BY DEF Goes
<1>2. PICK l : pc' = [pc EXCEPT ![p] = l] /\ (l = Idle \/ \E t : l = <<h, t>>)
  BY DEF Goes
<1>3. pc'[p] = l /\ \A q \in Procs \ {p} : pc'[q] = pc[q]
  BY <1>2 DEF TypeOK
<1>4. l = Idle \/ l[1] = h
  BY <1>2
<1> QED BY <1>1, <1>3, <1>4, Where

LEMMA FailGoes ==
  ASSUME NEW p, NEW h, NEW s, At(p, h, s), Fail(p, h)
  PROVE  Goes(p, h)
<1>1. CASE h = "start"
  BY <1>1 DEF Fail, Return, Goes
<1>2. CASE h # "start"
  BY <1>2 DEF Fail, Goto, Goes
<1> QED BY <1>1, <1>2

LEMMA GotoGoes ==
  ASSUME NEW p, NEW h, NEW s, At(p, h, s), NEW t, Goto(p, h, t)
  PROVE  Goes(p, h)
BY DEF Goto, Goes

LEMMA ReturnGoes ==
  ASSUME NEW p, NEW h, NEW s, At(p, h, s), Return(p)
  PROVE  Goes(p, h)
BY DEF Return, Goes

\* A bring-up touches neither the session nor its memory.
Session0 == <<loaded, running, dirMode, sramMode, sramIo, verify, memVars>>

LEMMA BringUpGoes ==
  ASSUME NEW p, NEW h, NEW last, BringUp(p, h, last)
  PROVE  Goes(p, h) /\ UNCHANGED Session0
<1> USE DEF drvVars, memVars, Session0
<1>1. CASE OpenClient(p, h)
  BY <1>1, FailGoes, GotoGoes DEF OpenClient
<1>2. CASE NoClient(p, h)
  BY <1>2, FailGoes, GotoGoes DEF NoClient
<1>3. ASSUME NEW d, NEW s, NEW t, EnableDreq(p, h, d, s, t)
      PROVE  Goes(p, h) /\ UNCHANGED Session0
  BY <1>3, FailGoes, GotoGoes DEF EnableDreq
<1>4. CASE PrepAndReset(p, h)
  BY <1>4, FailGoes, GotoGoes DEF PrepAndReset
<1>5. CASE SubmitTx(p, h)
  BY <1>5, FailGoes, GotoGoes DEF SubmitTx
<1>6. CASE SubmitRx(p, h)
  BY <1>6, FailGoes, GotoGoes DEF SubmitRx
<1>7. ASSUME NEW d, NEW s, NEW t, Issue(p, h, d, s, t)
      PROVE  Goes(p, h) /\ UNCHANGED Session0
  BY <1>7, GotoGoes DEF Issue
<1> QED BY <1>1, <1>2, <1>3, <1>4, <1>5, <1>6, <1>7 DEF BringUp

LEMMA TestGoes ==
  ASSUME NEW p, NEW h, NEW next,
         \/ \E d, s, t : TestTerminate(p, h, d, s, t)
         \/ TestClear(p, h, next) \/ TestFree(p, h)
  PROVE  Goes(p, h) /\ UNCHANGED <<drvVars, maps>>
BY GotoGoes, ReturnGoes DEF TestTerminate, TestClear, TestFree, memVars

-----------------------------------------------------------------------------
(* Types: the program changes the driver by ioctls, and sets up and        *)
(* releases its state machine.                                             *)

LEMMA TransferWords ==
  ASSUME NEW d, Transfer(d)
  PROVE  Words(d) /\ UNCHANGED <<benchVars, sm>>
BY DEF Transfer, Words

LEMMA Kernel ==
  ASSUME BenchNext
  PROVE  \/ [Next]_vars
         \/ pio_setup \/ pio_teardown
<1>1. CASE Main
  <2>1. CASE Direction
    BY <2>1, Two DEF Direction, SetDir, Skip, Next, rp1_pio_sram_ioctl, set_dma_dir
  <2>2. CASE StartDram \/ StartSram \/ RunDiag \/ Stop
    BY <2>2, Two DEF StartDram, StartSram, RunDiag, Stop, Next, rp1_pio_sram_ioctl,
       start_cyclic_dma, start_sram_dma, dma_diag_test, stop_cyclic_dma
  <2>3. CASE device_setup \/ Fill \/ StartBusy \/ StartFailed \/ Report
    BY <2>3 DEF device_setup, Fill, StartBusy, StartFailed, Report
  <2>4. CASE ResetDir
    BY <2>4, Two DEF ResetDir, SetDir, Skip, Next, rp1_pio_sram_ioctl, set_dma_dir
  <2> QED BY <1>1, <2>1, <2>2, <2>3, <2>4 DEF Main
<1>2. CASE InKernel
  <2>1. CASE Handler
    BY <2>1, Two DEF Handler, Next, rp1_pio_sram_ioctl, start_cyclic_dma, start_sram_dma,
       dma_diag_test, SelfTest, set_dma_dir, stop_cyclic_dma
  <2>2. CASE Mark
    BY <2>2, Two DEF Mark, Next, rp1_pio_sram_ioctl, start_cyclic_dma, start_sram_dma
  <2>3. CASE DiagSeen
    BY <2>3, Two DEF DiagSeen, Next, rp1_pio_sram_ioctl, dma_diag_test, SelfTest
  <2> QED BY <1>2, <2>1, <2>2, <2>3 DEF InKernel
<1>3. CASE Kill
  BY <1>3 DEF Kill
<1>4. CASE Reload
  BY <1>4 DEF Reload, Next, rp1_pio_sram_exit
<1>5. ASSUME NEW d \in Dir, Transfer(d) PROVE [Next]_vars
  BY <1>5, TransferWords DEF Next
<1> QED BY <1>1, <1>2, <1>3, <1>4, <1>5 DEF BenchNext

LEMMA NextType ==
  ASSUME TypeOK, [Next]_vars
  PROVE  TypeOK'
<1>0. Rmmod \in Procs /\ Callers \subseteq Procs
  BY DEF Procs
<1>1. ASSUME NEW p \in Callers, rp1_pio_sram_ioctl(p) PROVE TypeOK'
  BY <1>0, <1>1, StartType, SelfTestType, StopType, RestType
     DEF rp1_pio_sram_ioctl, stop_cyclic_dma
<1>2. CASE StopSteps(Rmmod)
  BY <1>0, <1>2, StopType
<1>3. CASE rp1_pio_sram_exit \/ rp1_pio_sram_init \/ \E d \in Dir : Words(d)
  BY <1>3, RestType
<1>4. CASE UNCHANGED vars
  BY <1>4 DEF vars, drvVars, memVars, hwVars, ctlVars, TypeOK
<1> QED BY <1>1, <1>2, <1>3, <1>4 DEF Next

LEMMA BenchType ==
  ASSUME TypeOK, [BenchNext]_allVars
  PROVE  TypeOK'
<1>1. CASE [Next]_vars
  BY <1>1, NextType
<1>2. CASE pio_setup
  BY <1>2 DEF pio_setup, ClearFifos, TypeOK, drvVars, memVars, ctlVars
<1>3. CASE pio_teardown
  BY <1>3 DEF pio_teardown, ClearFifos, TypeOK, drvVars, memVars, ctlVars
<1>4. CASE UNCHANGED allVars
  BY <1>1, <1>4 DEF allVars
<1> QED BY <1>1, <1>2, <1>3, <1>4, Kernel

-----------------------------------------------------------------------------
(* A session is ended by its run or by rmmod.  A run that finds none at    *)
(* START owns the one it then waits for, and keeps it until the last step  *)
(* of STOP; rmmod stops what runs before it goes on, and keeps the program *)
(* out; without the driver there is no session.                            *)

Ended == {"verify", "unmap"}

OwnerInv ==
  /\ at = "started" /\ running => owner = run
  /\ pc[Bench][1] = "stop" /\ pc[Bench][2] \notin Ended => owner = run
  /\ pc[Rmmod] # Idle => pc[Bench] = Idle
  /\ pc[Rmmod][1] = "exit" \/ (pc[Rmmod][1] = "stop" /\ pc[Rmmod][2] \in Ended) => ~running
  /\ ~loaded => ~running /\ Quiet

\* The program inside an ioctl that is not STOP.
LEMMA OwnerCall ==
  ASSUME TypeOK, OwnerInv, NEW h, h # "idle", h # "stop", Goes(Bench, h),
         UNCHANGED <<loaded, running, at, owner, run>>
  PROVE  OwnerInv'
<1>1. /\ pc[Bench] # Idle /\ pc'[Rmmod] = pc[Rmmod]
      /\ pc'[Bench] = Idle \/ pc'[Bench][1] = h
  BY GoesTo, Two
<1>2. pc[Rmmod] = Idle /\ loaded
  BY <1>1, Two DEF OwnerInv, Quiet
<1> QED BY <1>1, <1>2, IdleParts DEF OwnerInv

\* The session is marked open for the run that asked.
LEMMA OwnerMark ==
  ASSUME TypeOK, OwnerInv, Mark
  PROVE  OwnerInv'
<1>1. PICK h \in {"start", "sram"} : At(Bench, h, "mark") /\ Return(Bench) /\ loaded' = loaded
  BY DEF Mark, StartMark, SramMark
<1>2. pc[Bench] # Idle /\ pc'[Bench] = Idle /\ pc'[Rmmod] = pc[Rmmod]
  BY <1>1, Where, Two DEF Return, TypeOK
<1>3. pc[Rmmod] = Idle /\ loaded
  BY <1>2, Two DEF OwnerInv, Quiet
<1>4. owner' = run /\ run' = run
  BY DEF Mark
<1> QED BY <1>1, <1>2, <1>3, <1>4, IdleParts DEF OwnerInv

\* The steps of STOP.
LEMMA StopWhere ==
  ASSUME TypeOK, NEW p \in Procs, StopSteps(p)
  PROVE  /\ pc[p][1] = "stop" /\ pc[p] # Idle
         /\ loaded' = loaded /\ \A q \in Procs \ {p} : pc'[q] = pc[q]
         /\ \/ pc[p][2] \notin Ended /\ running' = running
                /\ pc'[p][1] = "stop" /\ pc'[p][2] \notin Ended
            \/ pc[p][2] \notin Ended /\ ~running' /\ pc'[p][1] = "stop"
            \/ pc[p][2] \in Ended /\ running' = running
                /\ \/ pc'[p][1] = "stop" /\ pc'[p][2] \in Ended
                   \/ p = Rmmod /\ pc'[p][1] = "exit"
                   \/ p # Rmmod /\ pc'[p] = Idle
<1> USE DEF drvVars, memVars
<1>1. ASSUME NEW s, At(p, "stop", s), NEW t, Goto(p, "stop", t)
      PROVE  /\ pc[p][1] = "stop" /\ pc[p][2] = s /\ pc[p] # Idle
             /\ pc'[p][1] = "stop" /\ pc'[p][2] = t
             /\ \A q \in Procs \ {p} : pc'[q] = pc[q]
  <2>1. pc'[p] = <<"stop", t>> /\ \A q \in Procs \ {p} : pc'[q] = pc[q]
    BY <1>1 DEF Goto, TypeOK
  <2> QED BY <1>1, <2>1, Where
<1>2. ASSUME NEW d, NEW s, NEW t, t \notin Ended, s \notin Ended,
             StopDreq(p, d, s, t) \/ StopTerminate(p, d, s, t)
      PROVE  /\ pc[p][1] = "stop" /\ pc[p] # Idle /\ loaded' = loaded
             /\ \A q \in Procs \ {p} : pc'[q] = pc[q]
             /\ pc[p][2] \notin Ended /\ running' = running
             /\ pc'[p][1] = "stop" /\ pc'[p][2] \notin Ended
  BY <1>1, <1>2 DEF StopDreq, StopTerminate
<1>3. CASE StopClear(p) \/ StopMark(p) \/ StopVerify(p)
  BY <1>1, <1>3 DEF StopClear, StopMark, StopVerify, Ended
<1>4. CASE StopUnmap(p)
  <2>1. pc[p][1] = "stop" /\ pc[p] # Idle /\ pc[p][2] = "unmap"
    BY <1>4, Where DEF StopUnmap
  <2>2. /\ pc'[p] = IF p = Rmmod THEN <<"exit", "free">> ELSE Idle
        /\ \A q \in Procs \ {p} : pc'[q] = pc[q]
    BY <1>4 DEF StopUnmap, Goto, Return, TypeOK
  <2>3. p = Rmmod => pc'[p][1] = "exit"
    BY <2>2
  <2> QED BY <1>4, <2>1, <2>2, <2>3 DEF StopUnmap, Ended
<1> QED BY <1>2, <1>3, <1>4 DEF StopSteps, Ended

\* STOP, of the program or of rmmod.
LEMMA OwnerStop ==
  ASSUME TypeOK, OwnerInv, NEW p \in Procs, StopSteps(p), UNCHANGED <<at, owner, run>>
  PROVE  OwnerInv' /\ (running /\ ~running' => owner = run \/ p = Rmmod)
<1>1. CASE p = Bench
  <2>1. pc[Rmmod] = Idle /\ pc'[Rmmod] = Idle /\ loaded
    BY <1>1, StopWhere, Two DEF OwnerInv, Quiet
  <2> QED BY <1>1, <2>1, StopWhere, Two, IdleParts DEF OwnerInv
<1>2. CASE p = Rmmod
  <2>1. pc[Bench] = Idle /\ pc'[Bench] = Idle /\ loaded
    BY <1>2, StopWhere, Two DEF OwnerInv, Quiet
  <2> QED BY <1>2, <2>1, StopWhere, Two, IdleParts DEF OwnerInv
<1> QED BY <1>1, <1>2, Two

\* The steps of the program itself, and its death.
LEMMA OwnerMain ==
  ASSUME TypeOK, OwnerInv, Main \/ Kill
  PROVE  OwnerInv' /\ running' = running
<1> USE DEF drvVars, ctlVars
<1>1. pc[Bench] = Idle
  BY DEF Main, Kill, pio_setup, device_setup, Direction, SetDir, Skip, Fill, StartDram, StartSram,
     StartBusy, StartFailed, RunDiag, Stop, Report, ResetDir, pio_teardown, Step
<1>2. /\ loaded' = loaded /\ running' = running /\ owner' = owner
      /\ at' = "started" => at = "started" \/ ~running
      /\ run' = run \/ at' = "open"
  BY DEF Main, Kill, pio_setup, device_setup, Direction, SetDir, SetDirCheck, Skip, Fill, StartDram,
     StartEntry, StartSram, SramEntry, StartBusy, StartFailed, RunDiag, DiagEntry, Stop, StopEntry,
     Report, ResetDir, pio_teardown, Step, vars
<1>3. CASE pc' = pc
  BY <1>1, <1>2, <1>3, IdleParts DEF OwnerInv, Quiet
<1>4. CASE pc' # pc
  <2> DEFINE Into(h, s) == /\ pc' = [pc EXCEPT ![Bench] = <<h, s>>]
                           /\ pc[Rmmod] = Idle /\ loaded
                           /\ h = "stop" => owner = run /\ run' = run
             Entered == \E h, s : Into(h, s)
  <2>1. Entered
    <3>1. CASE StartDram \/ StartSram \/ RunDiag
      BY <3>1 DEF StartDram, StartEntry, StartSram, SramEntry, RunDiag, DiagEntry, Enter
    <3>2. CASE Stop
      BY <3>2 DEF Stop, StopEntry, Step, OwnerInv
    <3>3. ASSUME NEW d, NEW from, NEW to, NEW busy, SetDir(d, from, to, busy), pc' # pc
          PROVE  Entered
      <4>1. PICK m : Enter(Bench, m, "setdir", m, {})
        BY <3>3 DEF SetDir, SetDirCheck, vars
      <4>2. Into("setdir", m)
        BY <4>1 DEF Enter
      <4> HIDE DEF Into
      <4> QED BY <4>2
    <3> HIDE DEF Entered
    <3>4. CASE Direction \/ ResetDir
      BY <1>4, <3>3, <3>4 DEF Direction, ResetDir, Skip, vars
    <3> QED BY <1>4, <3>1, <3>2, <3>4
         DEF Main, Kill, pio_setup, device_setup, Fill, StartBusy, StartFailed, Report,
             pio_teardown, vars
  <2>6. PICK h, s : Into(h, s)
    BY <2>1
  <2>2. pc'[Bench] = <<h, s>> /\ pc'[Rmmod] = Idle
    BY <2>6, Two DEF TypeOK
  <2>3. pc'[Bench][1] = h
    BY <2>2
  <2>4. pc'[Bench][1] = "stop" => owner' = run'
    BY <1>2, <2>6, <2>3
  <2>5. at' = "started" /\ running' => owner' = run'
    BY <1>2 DEF OwnerInv, Main, Kill, pio_setup, Step
  <2> QED BY <1>2, <2>2, <2>4, <2>5, <2>6, IdleParts DEF OwnerInv
<1> QED BY <1>3, <1>4

\* rmmod and insmod.
LEMMA OwnerReload ==
  ASSUME TypeOK, OwnerInv, Reload
  PROVE  OwnerInv' /\ (running /\ ~running' => pc[Rmmod] # Idle)
<1> USE DEF drvVars, ctlVars
<1>0. UNCHANGED <<at, owner, run>>
  BY DEF Reload, BenchWaits, benchVars
<1>1. CASE StopSteps(Rmmod)
  BY <1>0, <1>1, StopWhere, OwnerStop, Two
<1>2. CASE ExitEntry
  <2>1. /\ loaded /\ Quiet /\ running' = running /\ loaded' = loaded
        /\ pc' = [pc EXCEPT ![Rmmod] = IF running THEN <<"stop", "dreqTx">> ELSE <<"exit", "free">>]
    BY <1>2 DEF ExitEntry
  <2>2. /\ pc'[Bench] = Idle
        /\ pc'[Rmmod] = IF running THEN <<"stop", "dreqTx">> ELSE <<"exit", "free">>
    BY <2>1, Two DEF Quiet, TypeOK
  <2>3. IF running THEN pc'[Rmmod][1] = "stop" /\ pc'[Rmmod][2] = "dreqTx"
                   ELSE pc'[Rmmod][1] = "exit"
    BY <2>2
  <2> QED BY <1>0, <2>1, <2>2, <2>3, IdleParts DEF OwnerInv, Ended
<1>3. CASE ExitFree \/ ExitRelease \/ ExitClose
  <2>1. PICK s \in Leaving : At(Rmmod, "exit", s)
    BY <1>3 DEF ExitFree, ExitRelease, ExitClose, Leaving
  <2>2. pc[Rmmod] # Idle /\ pc[Bench] = Idle /\ ~running /\ loaded
    BY <2>1, Where, Two DEF OwnerInv, Quiet
  <2>3. running' = running /\ (loaded' = loaded \/ (~loaded' /\ Return(Rmmod)))
    BY <1>3 DEF ExitFree, ExitRelease, ExitClose
  <2>4. PICK l : pc' = [pc EXCEPT ![Rmmod] = l]
    BY <1>3 DEF ExitFree, ExitRelease, ExitClose, Goto, Return
  <2>5. pc'[Bench] = Idle
    BY <2>2, <2>4, Two DEF TypeOK
  <2>6. Return(Rmmod) => Quiet'
    BY <2>5, Two DEF Return, Quiet, TypeOK
  <2> QED BY <1>0, <2>2, <2>3, <2>5, <2>6, IdleParts DEF OwnerInv
<1>4. CASE rp1_pio_sram_init
  <2>1. ~loaded /\ loaded' /\ ~running' /\ pc' = pc /\ Quiet
    BY <1>4 DEF rp1_pio_sram_init
  <2> QED BY <1>0, <2>1, IdleParts DEF OwnerInv, Quiet
<1> QED BY <1>1, <1>2, <1>3, <1>4 DEF Reload

LEMMA OwnerStep ==
  ASSUME TypeOK, OwnerInv, [BenchNext]_allVars
  PROVE  OwnerInv' /\ (running /\ ~running' => owner = run \/ pc[Rmmod] # Idle)
<1> USE DEF drvVars, ctlVars
<1>1. CASE Handler /\ BenchWaits
  <2>0. UNCHANGED <<at, owner, run>>
    BY <1>1 DEF BenchWaits, benchVars
  <2>1. CASE StopSteps(Bench)
    BY <2>0, <2>1, OwnerStop, Two
  <2>2. CASE ~StopSteps(Bench)
    <3>1. PICK h \in {"start", "sram", "diag", "setdir"} :
                 Goes(Bench, h) /\ UNCHANGED <<loaded, running>>
      <4>1. CASE SramUnmap(Bench)
        BY <4>1, ReturnGoes DEF SramUnmap
      <4>2. CASE SetDirWrite(Bench)
        BY <4>2, ReturnGoes DEF SetDirWrite
      <4> QED BY <1>1, <2>2, <4>1, <4>2, BringUpGoes, TestGoes DEF Handler, Session0
    <3> QED BY <2>0, <3>1, OwnerCall
  <2> QED BY <2>1, <2>2
<1>2. CASE Mark
  BY <1>2, OwnerMark DEF Mark, StartMark, SramMark
<1>3. CASE DiagSeen
  <2>1. Goes(Bench, "diag") /\ UNCHANGED <<loaded, running>>
    BY <1>3, TestGoes DEF DiagSeen
  <2> QED BY <1>3, <2>1, OwnerCall DEF DiagSeen
<1>4. CASE Main \/ Kill
  BY <1>4, OwnerMain
<1>5. CASE Reload
  BY <1>5, OwnerReload
<1>6. CASE UNCHANGED <<loaded, running, pc, at, owner, run>>
  BY <1>6 DEF OwnerInv, Quiet
<1>7. ASSUME NEW d \in Dir, Transfer(d) PROVE UNCHANGED <<loaded, running, pc, at, owner, run>>
  BY <1>7 DEF Transfer, MoveWords, drvVars, ctlVars, benchVars
<1>8. UNCHANGED allVars => UNCHANGED <<loaded, running, pc, at, owner, run>>
  BY DEF allVars, vars, benchVars
<1> QED BY <1>1, <1>2, <1>3, <1>4, <1>5, <1>6, <1>7, <1>8 DEF BenchNext, InKernel

\* For every number of runs, killed runs and failing calls: a session is ended
\* by the run that started it or by rmmod, never by a later run.
THEOREM OwnersOnly == BenchSpec => OnlyOwnerStops
<1>1. BenchInit => TypeOK /\ OwnerInv
  <2>1. Init => TypeOK
    BY DEF Init, TypeOK, Mode, Labels
  <2>2. BenchInit => OwnerInv
    BY Two, IdleParts DEF BenchInit, Init, OwnerInv
  <2> QED BY <2>1, <2>2 DEF BenchInit
<1>2. TypeOK /\ OwnerInv /\ [BenchNext]_allVars => TypeOK' /\ OwnerInv'
  BY BenchType, OwnerStep
<1>3. TypeOK /\ OwnerInv /\ [BenchNext]_allVars
      => [running /\ ~running' => owner = run \/ pc[Rmmod] # Idle]_allVars
  BY OwnerStep
<1> QED BY <1>1, <1>2, <1>3, PTL DEF BenchSpec, OnlyOwnerStops

-----------------------------------------------------------------------------
(* The driver while no run has been killed: it keeps what it keeps with    *)
(* one caller (SingleInv), except inside the self test, which owns it.     *)

DiagSteps == {"open", "noclient", "dreqTx", "dreqRx", "prep", "subTx", "subRx", "issTx",
              "issRx", "termTx", "termRx", "clear", "free"}
Early     == {"open", "noclient", "dreqTx", "dreqRx", "prep"}

\* The self test at its step s: no session, both channels its own, and its
\* words in the FIFOs only while it may have a descriptor.
Testing(s) ==
  /\ s \in DiagSteps /\ pc[Bench] = <<"diag", s>> /\ pc[Rmmod] = Idle /\ do[Bench] = Dir
  /\ loaded /\ ~running /\ ~sramMode /\ maps = {} /\ "ring" \in allocated
  /\ s \notin {"open", "noclient", "free"} => client # "null"
  /\ \A d \in Dir : Targets(d) \subseteq {Bench}
  /\ "clear" \notin Faults /\ dirty => s \notin Early \cup {"free"}

DriverInv == SingleInv \/ \E s \in DiagSteps : Testing(s)

\* The handler the program is in.
Calling(h) == pc[Bench][1] = h

LEMMA TestingCalls ==
  ASSUME NEW s, Testing(s)
  PROVE  Calling("diag") /\ pc[Bench][2] = s /\ pc[Bench] # Idle
<1>1. At(Bench, "diag", s)
  BY DEF Testing, At
<1> QED BY <1>1, Where DEF Calling

\* Outside the self test the driver is as with one caller, and the reverse.
LEMMA DriverSingle ==
  ASSUME DriverInv, ~Calling("diag")
  PROVE  SingleInv
BY TestingCalls DEF DriverInv

LEMMA SingleNoDiag ==
  ASSUME SingleInv
  PROVE  ~Calling("diag") /\ ~Calling("probe") /\ ~Calling("control")
<1>1. PICK p \in Procs : Others(p)
  BY DEF SingleInv
<1>2. CASE pc[Bench] = Idle
  BY <1>2, IdleParts DEF Calling
<1>3. CASE pc[Bench] # Idle
  <2>1. Others(Bench)
    BY <1>1, <1>3, Two DEF Others
  <2>2. Local(pc[Bench][1], pc[Bench][2], do[Bench])
    BY <2>1, Two DEF SingleInv
  <2> QED BY <2>2 DEF Local, Place, Starting, Calling
<1> QED BY <1>2, <1>3

\* Steps of the self test.
LEMMA TestingMoves ==
  ASSUME TypeOK, NEW s, Testing(s), NEW t \in DiagSteps, Goto(Bench, "diag", t),
         UNCHANGED <<loaded, running, sramMode, maps, allocated>>,
         t \notin {"open", "noclient", "free"} => client' # "null",
         \A d \in Dir : Targets(d)' \subseteq Targets(d) \cup {Bench},
         "clear" \notin Faults /\ dirty' => t \notin Early \cup {"free"}
  PROVE  DriverInv'
<1>1. /\ pc'[Bench] = <<"diag", t>> /\ pc'[Rmmod] = pc[Rmmod] /\ do' = do
  BY Two DEF Goto, TypeOK
<1>2. \A d \in Dir : Targets(d)' \subseteq {Bench}
  BY DEF Testing
<1>3. Testing(t)'
  BY <1>1, <1>2 DEF Testing
<1> QED BY <1>3 DEF DriverInv

LEMMA TestingAt ==
  ASSUME NEW s, Testing(s), NEW h, NEW t, At(Bench, h, t)
  PROVE  h = "diag" /\ t = s
BY Where, TestingCalls DEF Calling

LEMMA TestingBringUp ==
  ASSUME TypeOK, NEW s, Testing(s), NEW h, NEW last, BringUp(Bench, h, last)
  PROVE  h = "diag"
BY TestingCalls, BringUpGoes, TestingAt DEF Goes

LEMMA TestingOpens ==
  ASSUME TypeOK, NEW s, Testing(s),
         \/ OpenClient(Bench, "diag") \/ NoClient(Bench, "diag")
         \/ EnableDreq(Bench, "diag", "tx", "dreqTx", "dreqRx")
         \/ EnableDreq(Bench, "diag", "rx", "dreqRx", "prep")
         \/ PrepAndReset(Bench, "diag")
  PROVE  DriverInv'
<1> USE DEF drvVars, memVars, hwVars
<1>0. Fail(Bench, "diag") => Goto(Bench, "diag", "free")
  BY DEF Fail
<1>1. UNCHANGED <<loaded, running, sramMode, maps, allocated, act, queue, dirty>>
  BY DEF OpenClient, NoClient, EnableDreq, PrepAndReset
<1>2. \A d \in Dir : Targets(d)' = Targets(d)
  BY <1>1 DEF Targets
<1>3. s \in Early
  <2>1. PICK u \in Early : At(Bench, "diag", u)
    BY DEF OpenClient, NoClient, EnableDreq, PrepAndReset, Early
  <2> QED BY <2>1, TestingAt
<1>4. "clear" \notin Faults => ~dirty'
  BY <1>1, <1>3 DEF Testing
<1>5. \E t \in DiagSteps : /\ Goto(Bench, "diag", t)
                           /\ t \notin {"open", "noclient", "free"} => client' # "null"
  <2>1. CASE OpenClient(Bench, "diag")
    BY <1>0, <2>1 DEF OpenClient, DiagSteps
  <2>2. CASE NoClient(Bench, "diag")
    BY <1>0, <2>2 DEF NoClient, DiagSteps
  <2>3. ASSUME NEW d, NEW u, NEW t \in DiagSteps, u \in {"dreqTx", "dreqRx"},
               EnableDreq(Bench, "diag", d, u, t)
        PROVE  Goto(Bench, "diag", t) /\ client' # "null"
    <3>1. s = u
      BY <2>3, TestingAt DEF EnableDreq
    <3> QED BY <2>3, <3>1 DEF EnableDreq, Checked, Testing
  <2>4. CASE PrepAndReset(Bench, "diag")
    <3>1. s = "prep"
      BY <2>4, TestingAt DEF PrepAndReset
    <3> QED BY <1>0, <2>4, <3>1 DEF PrepAndReset, DiagSteps, Testing
  <2> QED BY <2>1, <2>2, <2>3, <2>4 DEF DiagSteps
<1> QED BY <1>1, <1>2, <1>4, <1>5, TestingMoves

LEMMA TestingSubmits ==
  ASSUME TypeOK, NEW s, Testing(s), SubmitTx(Bench, "diag") \/ SubmitRx(Bench, "diag")
  PROVE  DriverInv'
<1> USE DEF drvVars, memVars
<1>1. UNCHANGED <<loaded, running, sramMode, maps, allocated, client>>
  BY DEF SubmitTx, SubmitRx
<1>2. \E t \in {"subRx", "issTx"} : Goto(Bench, "diag", t)
  BY DEF SubmitTx, SubmitRx, Checked
<1>3. client # "null"
  BY TestingAt DEF SubmitTx, SubmitRx, Testing
<1>4. \A d \in Dir : Targets(d)' \subseteq Targets(d) \cup {Bench}
  <2>1. \A d \in Dir : Area("diag", Bench, d) = Bench
    BY DEF Area
  <2> QED BY <2>1, SubmitTargets, SameTargets, Names DEF SubmitTx, SubmitRx, Checked
<1>5. {"subRx", "issTx"} \subseteq DiagSteps
      /\ {"subRx", "issTx"} \cap (Early \cup {"open", "noclient", "free"}) = {}
  BY DEF DiagSteps, Early
<1> QED BY <1>1, <1>2, <1>3, <1>4, <1>5, TestingMoves

LEMMA TestingEnds ==
  ASSUME TypeOK, NEW s, Testing(s),
         \/ \E d \in Dir : \E u \in {"issTx", "issRx"} : \E t \in {"issRx", "termTx"} :
              Issue(Bench, "diag", d, u, t)
         \/ \E d \in Dir : \E u \in {"termTx", "termRx"} : \E t \in {"termRx", "clear"} :
              TestTerminate(Bench, "diag", d, u, t)
         \/ TestClear(Bench, "diag", "free")
  PROVE  DriverInv'
<1> USE DEF drvVars, memVars, hwVars
<1>1. UNCHANGED <<loaded, running, sramMode, maps, allocated, client>>
  BY DEF Issue, TestTerminate, TestClear
<1>2. client # "null"
  BY TestingAt DEF Issue, TestTerminate, TestClear, Testing
<1>3. \A d \in Dir : Targets(d)' \subseteq Targets(d)
  BY IssueTargets, TerminateTargets, SameTargets DEF Issue, TestTerminate, TestClear, dmaVars
<1>4. \E t \in DiagSteps : /\ Goto(Bench, "diag", t)
                           /\ "clear" \notin Faults /\ dirty' => t \notin Early \cup {"free"}
  <2>1. CASE TestClear(Bench, "diag", "free")
    BY <1>2, <2>1 DEF TestClear, ClearFifos, DiagSteps
  <2>2. CASE ~TestClear(Bench, "diag", "free")
    <3>1. \E t \in {"issRx", "termTx", "termRx", "clear"} : Goto(Bench, "diag", t)
      BY <2>2 DEF Issue, TestTerminate
    <3> QED BY <3>1 DEF DiagSteps, Early
  <2> QED BY <2>1, <2>2
<1> QED BY <1>1, <1>2, <1>3, <1>4, TestingMoves

\* When it returns, the driver is as before: PrivateInv has the channels, which
\* must not keep a buffer that is freed.
LEMMA TestingReturns ==
  ASSUME TypeOK, PrivateInv, NEW s, Testing(s), TestFree(Bench, "diag")
  PROVE  SingleInv'
<1> USE DEF drvVars, memVars, hwVars
<1>1. s = "free" /\ pc[Bench] = <<"diag", "free">>
  BY TestingAt DEF TestFree, Testing
<1>2. Others(Bench)
  BY Two DEF Testing, Others
<1>3. ASSUME NEW d \in Dir PROVE act[d] = None /\ queue[d] = {}
  <2>1. pc[Bench] \notin Tests \X TargetSteps(d)
    BY <1>1 DEF TargetSteps
  <2>2. Bench \notin Targets(d)
    BY <2>1, Two DEF PrivateInv, Held
  <2> QED BY <2>2 DEF Testing, Targets
<1>4. UNCHANGED <<loaded, running, sramMode, maps, act, queue, dirty>> /\ "ring" \in allocated'
  BY ProcsAssumption, Two DEF TestFree, Testing
<1>5. /\ ~running' /\ ~sramMode' /\ maps' = {} /\ loaded'
      /\ "clear" \notin Faults => ~dirty'
      /\ \A d \in Dir : act'[d] = None /\ queue'[d] = {}
  BY <1>1, <1>3, <1>4 DEF Testing
<1>6. Local("idle", "", {})'
  BY <1>4, <1>5 DEF Local, Place, Flags, Directed, Fresh, Engine, Requests, Counts, Starting,
     Issued, Submitted, Live
<1> QED BY <1>2, <1>6, Two, Returns DEF TestFree

\* Words of the self test move.
LEMMA TestingWords ==
  ASSUME TypeOK, PrivateInv, NEW s, Testing(s), NEW d \in Dir, Words(d)
  PROVE  DriverInv'
<1> USE DEF drvVars, memVars, ctlVars
<1>1. Bench \in Targets(d)
  BY DEF Words, MoveWords, Testing, Targets
<1>2. pc[Bench] \in Tests \X TargetSteps(d)
  BY <1>1, Two DEF PrivateInv, Held
<1>3. s \in TargetSteps(d)
  BY <1>2 DEF Testing
<1>4. s \notin Early \cup {"free"}
  BY <1>3 DEF TargetSteps, Early
<1>5. Testing(s)'
  BY <1>4 DEF Testing, Words, MoveWords, Targets
<1> QED BY <1>5 DEF DriverInv, Testing

\* The program's own steps.  The state machine is set up and released between
\* sessions, so what the session counts on stays.
LEMMA DriverSetup ==
  ASSUME SingleInv, pc[Bench] = Idle, ~running, "clear" \notin Faults /\ dirty' => dirty,
         \A d \in Dir : dreq'[d] => dreq[d],
         UNCHANGED <<drvVars, memVars, act, queue, counted, ctlVars>>
  PROVE  SingleInv'
<1> USE DEF drvVars, memVars, ctlVars
<1>1. ASSUME NEW h, NEW s, NEW x, h \notin Starting, Local(h, s, x) PROVE Local(h, s, x)'
  <2>1. Place(h, s)' /\ Flags(h, s)' /\ Directed(h, s, x)' /\ Fresh(h, s)'
    BY <1>1 DEF Local, Place, Flags, Directed, Fresh
  <2>2. ASSUME NEW d \in Dir PROVE Engine(h, s, x, d)' /\ Counts(h, s, d)'
    BY <1>1 DEF Local, Engine, Counts, Issued, Submitted, Live, SessionDirs, SessionArea, Ring
  <2>3. ASSUME NEW d \in Dir PROVE Requests(h, s, x, d)'
    BY <1>1 DEF Local, Requests
  <2> QED BY <2>1, <2>2, <2>3 DEF Local
<1>2. ASSUME NEW p \in Procs, Others(p) PROVE pc[p][1] \notin Starting
  <2>1. CASE p = Bench
    BY <2>1, IdleParts DEF Starting
  <2>2. CASE p = Rmmod
    BY <1>2, <2>2 DEF SingleInv, Role, Starting
  <2> QED BY <2>1, <2>2, Two
<1>3. \A p : Others(p)' <=> Others(p)
  BY DEF Others
<1> QED BY <1>1, <1>2, <1>3 DEF SingleInv, Role, Procs

\* An ioctl of the program.
LEMMA DriverEnters ==
  ASSUME SingleInv, TypeOK, TypeOK', pc[Bench] = Idle,
         \/ StartEntry(Bench)
         \/ SramEntry(Bench) /\ dirMode = "both"
         \/ SetDirCheck(Bench) \/ StopEntry(Bench)
  PROVE  SingleInv'
<1> USE DEF drvVars, memVars, hwVars
<1>1. CASE StopEntry(Bench)
  <2>1. pc[Rmmod] = Idle
    BY <1>1 DEF StopEntry
  <2>2. Local("idle", "", {}) /\ Others(Bench)
    BY <2>1, Enters, Two
  <2> QED BY <1>1, <2>2, StopBegins, Two DEF StopEntry, Kept
<1> QED BY <1>1, StartEntryKept, SramEntryKept, SetDirKept, Two DEF set_dma_dir, Kept

LEMMA DriverTests ==
  ASSUME SingleInv, TypeOK, TypeOK', DiagEntry(Bench), ~running
  PROVE  DriverInv'
<1> USE DEF drvVars, hwVars
<1>1. /\ pc[Bench] = Idle /\ pc[Rmmod] = Idle /\ loaded
      /\ pc' = [pc EXCEPT ![Bench] = <<"diag", "open">>] /\ do' = [do EXCEPT ![Bench] = Dir]
  BY DEF DiagEntry, Enter
<1>2. Local("idle", "", {})
  BY <1>1, Enters, Two
<1>3. /\ ~sramMode /\ maps = {} /\ "ring" \in allocated /\ ("clear" \notin Faults => ~dirty)
      /\ \A d \in Dir : act[d] = None /\ queue[d] = {}
  BY <1>1, <1>2 DEF Local, Flags, Fresh, Engine, Issued, Submitted, Live, Starting
<1>4. /\ pc'[Bench] = <<"diag", "open">> /\ pc'[Rmmod] = Idle /\ do'[Bench] = Dir
  BY <1>1, Two DEF TypeOK
<1>5. \A d \in Dir : Targets(d)' = {}
  BY <1>3 DEF DiagEntry, Targets
<1>6. Testing("open")'
  BY <1>1, <1>3, <1>4, <1>5 DEF DiagEntry, Testing, DiagSteps
<1> QED BY <1>6 DEF DriverInv, DiagSteps

\* Inside an ioctl.
LEMMA DriverHandles ==
  ASSUME DriverInv, PrivateInv, TypeOK, TypeOK', Handler \/ DiagSeen
  PROVE  DriverInv'
<1>0. "start" \in Starting /\ "sram" \in Starting /\ "diag" \in Tests
  BY DEF Starting, Tests
<1>1. CASE SingleInv
  <2>1. ~SelfTest(Bench, "diag", "free") /\ ~DiagSeen
    BY <1>0, <1>1, NoTestStep, Two DEF DiagSeen, SelfTest
  <2>2. CASE BringUp(Bench, "start", "mark") \/ BringUp(Bench, "sram", "mark")
    BY <1>0, <1>1, <2>2, BringUpKept, Two DEF Kept, DriverInv
  <2>3. CASE SramUnmap(Bench)
    BY <1>1, <2>3, SramUnmapKept, Two DEF Kept, DriverInv
  <2>4. CASE SetDirWrite(Bench)
    BY <1>1, <2>4, SetDirKept, Two DEF set_dma_dir, Kept, DriverInv
  <2>5. CASE StopSteps(Bench)
    BY <1>1, <2>5, StopKept, Two DEF Kept, DriverInv
  <2> QED BY <2>1, <2>2, <2>3, <2>4, <2>5 DEF Handler, SelfTest
<1>2. ASSUME NEW s \in DiagSteps, Testing(s) PROVE DriverInv'
  <2>1. \A h, t : At(Bench, h, t) => h = "diag"
    BY <1>2, TestingAt
  <2>2. ~BringUp(Bench, "start", "mark") /\ ~BringUp(Bench, "sram", "mark")
    BY <1>2, TestingBringUp
  <2>3. ~SramUnmap(Bench) /\ ~SetDirWrite(Bench) /\ ~StopSteps(Bench)
    BY <2>1 DEF SramUnmap, SetDirWrite, StopSteps, StopDreq, StopTerminate, StopClear, StopMark,
       StopVerify, StopUnmap
  <2>4. SelfTest(Bench, "diag", "free")
    BY <2>2, <2>3 DEF Handler, DiagSeen, SelfTest
  <2>5. CASE BringUp(Bench, "diag", "termTx")
    BY <1>2, <2>5, TestingOpens, TestingSubmits, TestingEnds, Names DEF BringUp
  <2>6. CASE \/ TestTerminate(Bench, "diag", "tx", "termTx", "termRx")
             \/ TestTerminate(Bench, "diag", "rx", "termRx", "clear")
             \/ TestClear(Bench, "diag", "free")
    BY <1>2, <2>6, TestingEnds, Names
  <2>7. CASE TestFree(Bench, "diag")
    BY <1>2, <2>7, TestingReturns DEF DriverInv
  <2> QED BY <2>4, <2>5, <2>6, <2>7 DEF SelfTest
<1> QED BY <1>1, <1>2 DEF DriverInv

\* The START that opens a session.
LEMMA DriverMarks ==
  ASSUME DriverInv, TypeOK, TypeOK', StartMark(Bench) \/ SramMark(Bench)
  PROVE  SingleInv'
<1>1. ~Calling("diag")
  BY Where DEF StartMark, SramMark, Calling
<1>2. SingleInv
  BY <1>1, DriverSingle
<1>3. ~SramEntry(Bench)
  <2>1. pc[Bench] # Idle
    BY Where DEF StartMark, SramMark
  <2> QED BY <2>1 DEF SramEntry, Enter
<1> QED BY <1>2, <1>3, StartKept, Two DEF start_cyclic_dma, start_sram_dma, Kept

\* rmmod, insmod and the callbacks.
LEMMA DriverReloads ==
  ASSUME DriverInv, PrivateInv, TypeOK, TypeOK', Reload \/ \E d \in Dir : Transfer(d)
  PROVE  DriverInv'
<1>1. CASE SingleInv
  BY <1>1, ExitKept, InitKept, WordsKept, TransferWords, StopKept, Two
     DEF Reload, rp1_pio_sram_exit, Kept, DriverInv
<1>2. ASSUME NEW s \in DiagSteps, Testing(s), Reload PROVE FALSE
  <2>1. pc[Rmmod] = Idle /\ pc[Bench] # Idle /\ loaded
    BY <1>2, TestingCalls DEF Testing
  <2>2. \A h, t : At(Rmmod, h, t) => h = "idle"
    BY <2>1, Where
  <2> QED BY <1>2, <2>1, <2>2, Two DEF Reload, ExitEntry, Quiet, StopSteps, StopDreq, StopTerminate,
     StopClear, StopMark, StopVerify, StopUnmap, ExitFree, ExitRelease, ExitClose,
     rp1_pio_sram_init
<1> QED BY <1>1, <1>2, TestingWords, TransferWords DEF DriverInv

LEMMA DriverSame ==
  ASSUME DriverInv, UNCHANGED vars
  PROVE  DriverInv'
<1>1. ASSUME NEW s, Testing(s) PROVE Testing(s)'
  BY <1>1 DEF Testing, Targets, vars, drvVars, memVars, hwVars, ctlVars
<1> QED BY <1>1, SingleSame DEF DriverInv

-----------------------------------------------------------------------------
(* The program while no run has been killed: where it waits for which      *)
(* ioctl, and that the session and the direction are those of its run.     *)

\* No SRAM test in one direction: it cannot pass, and STOP does not end it.
ServedOnly == \A pr \in Programs : pr[1] = "sram" => pr[2] = "both"

Waiting ==
  /\ prog \in Programs
  /\ Calling("start") => at = "started" /\ Test = "dram"
  /\ Calling("sram")  => at = "started" /\ Test = "sram"
  /\ Calling("diag")  => at = "reset" /\ Test = "diag"
  /\ Calling("stop")  => at = "report"
  /\ Calling("setdir") => \/ at = "test" /\ pc[Bench][2] = dma_dir
                          \/ at = "teardown" /\ pc[Bench][2] = "both"
  /\ at \in {"dir", "test", "start", "started", "report", "reset"} => loaded /\ pc[Rmmod] = Idle
  /\ at \in {"start", "started", "report"} => Test \in {"dram", "sram"}
  /\ at = "start" => Test = "dram"

Using ==
  /\ running => at = "started" \/ (at = "report" /\ Calling("stop"))
  /\ running \/ Calling("stop") => (sramMode <=> Test = "sram")
  /\ at \in {"none", "open", "dir"} => dirMode = "both"
  /\ at = "test" /\ ~Calling("setdir") => dirMode = dma_dir
  /\ at \in {"start", "started", "report", "reset"} => dirMode = dma_dir
  /\ at = "teardown" /\ ~Calling("setdir") => dirMode = "both"
  /\ at = "none" /\ "disable" \notin Faults => \A d \in Dir : ~dreq[d]

ProgInv == Waiting /\ Using

LEMMA EnterTo ==
  ASSUME TypeOK, NEW h, NEW s, pc' = [pc EXCEPT ![Bench] = <<h, s>>]
  PROVE  pc'[Bench][1] = h /\ pc'[Bench][2] = s /\ pc'[Rmmod] = pc[Rmmod]
<1>1. pc'[Bench] = <<h, s>> /\ pc'[Rmmod] = pc[Rmmod]
  BY Two DEF TypeOK
<1> QED BY <1>1

\* Inside a START or the self test.
LEMMA ProgCalls ==
  ASSUME ProgInv, TypeOK, NEW h \in {"start", "sram", "diag"}, Goes(Bench, h),
         UNCHANGED <<loaded, running, dirMode, sramMode, at, prog>>
  PROVE  ProgInv'
<1>1. /\ Calling(h) /\ pc'[Rmmod] = pc[Rmmod]
      /\ pc'[Bench] = Idle \/ pc'[Bench][1] = h
  BY GoesTo, Two DEF Calling
<1>2. at \in {"started", "reset"}
  BY <1>1 DEF ProgInv, Waiting
<1>3. \A g \in {"start", "sram", "diag", "stop", "setdir"} : Calling(g)' => g = h
  BY <1>1, IdleParts DEF Calling
<1>4. Waiting'
  BY <1>1, <1>2, <1>3 DEF ProgInv, Waiting, Test, dma_dir
<1>5. Using'
  BY <1>1, <1>2, <1>3 DEF ProgInv, Using, Calling, Test, dma_dir
<1> QED BY <1>4, <1>5 DEF ProgInv

\* A START opens the session the command line asks for.
LEMMA ProgMarks ==
  ASSUME ProgInv, DriverInv, TypeOK, Mark
  PROVE  ProgInv'
<1>1. PICK h \in {"start", "sram"} : /\ At(Bench, h, "mark") /\ Return(Bench) /\ running' = TRUE
                                     /\ sramMode' = IF h = "sram" THEN TRUE ELSE sramMode
  BY DEF Mark, StartMark, SramMark
<1>2. UNCHANGED <<loaded, dirMode, at, prog>>
  BY DEF Mark, StartMark, SramMark
<1>3. Calling(h) /\ pc'[Bench] = Idle /\ pc'[Rmmod] = pc[Rmmod]
  BY <1>1, Where, Two DEF Calling, Return, TypeOK
<1>4. ~sramMode
  <2>1. SingleInv
    BY <1>3, DriverSingle DEF Calling
  <2> QED BY <1>1, <2>1, Starter, Two DEF Starting, Bring
<1>5. \A g \in {"start", "sram", "diag", "stop", "setdir"} : ~Calling(g)'
  BY <1>3, IdleParts DEF Calling
<1>6. at = "started" /\ (Test = "sram" <=> h = "sram")
  BY <1>3 DEF ProgInv, Waiting
<1>7. Waiting'
  BY <1>2, <1>3, <1>5, <1>6 DEF ProgInv, Waiting, Test, dma_dir
<1>8. Using'
  BY <1>1, <1>2, <1>4, <1>5, <1>6 DEF ProgInv, Using, Test, dma_dir
<1> QED BY <1>7, <1>8 DEF ProgInv

LEMMA ProgStops ==
  ASSUME ProgInv, DriverInv, TypeOK, StopSteps(Bench), UNCHANGED <<at, prog>>
  PROVE  ProgInv'
<1> USE DEF drvVars, memVars
<1>1. Calling("stop") /\ pc'[Rmmod] = pc[Rmmod] /\ loaded' = loaded
  BY StopWhere, Two DEF Calling
<1>2. at = "report"
  BY <1>1 DEF ProgInv, Waiting
<1>3. SingleInv
  BY <1>1, DriverSingle DEF Calling
<1>4. running' => running /\ pc'[Bench][1] = "stop"
  <2>1. CASE pc[Bench][2] \in Ended
    <3>1. ~running
      <4>1. Others(Bench)
        <5>1. PICK p \in Procs : Others(p)
          BY <1>3 DEF SingleInv
        <5> QED BY <5>1, StopWhere, Two DEF Others
      <4>2. Flags(pc[Bench][1], pc[Bench][2])
        BY <1>3, <4>1, Two DEF SingleInv, Local
      <4> QED BY <1>1, <2>1, <4>2 DEF Flags, Calling, Ended
    <3> QED BY <2>1, <3>1, StopWhere, Two
  <2> QED BY <2>1, StopWhere, Two DEF TypeOK
<1>5. pc'[Bench] = Idle \/ pc'[Bench][1] = "stop"
  BY StopWhere, Two
<1>6. sramMode' = sramMode \/ (~sramMode' /\ pc'[Bench] = Idle)
  BY Two DEF StopSteps, StopDreq, StopTerminate, StopClear, StopMark, StopVerify, StopUnmap, Return,
     TypeOK
<1>7. dirMode' = dirMode
  BY DEF StopSteps, StopDreq, StopTerminate, StopClear, StopMark, StopVerify, StopUnmap
<1>8. \A g \in {"start", "sram", "diag", "setdir"} : ~Calling(g)'
  BY <1>5, IdleParts DEF Calling
<1>9. Waiting'
  BY <1>1, <1>2, <1>8 DEF ProgInv, Waiting, Test, dma_dir
<1>10. Using'
  <2>1. running' => at' = "report" /\ Calling("stop")'
    BY <1>2, <1>4 DEF Calling
  <2>2. Calling("stop")' => (sramMode' <=> Test' = "sram")
    <3>1. sramMode <=> Test = "sram"
      BY <1>1 DEF ProgInv, Using
    <3>2. Calling("stop")' => sramMode' = sramMode
      BY <1>6, IdleParts DEF Calling
    <3> QED BY <3>1, <3>2 DEF Test
  <2>3. dirMode' = dma_dir'
    BY <1>2, <1>7 DEF ProgInv, Using, dma_dir
  <2> QED BY <1>2, <2>1, <2>2, <2>3 DEF Using
<1> QED BY <1>9, <1>10 DEF ProgInv

LEMMA ProgSets ==
  ASSUME ProgInv, TypeOK, SetDirWrite(Bench), UNCHANGED <<at, prog>>
  PROVE  ProgInv'
<1>1. PICK m : At(Bench, "setdir", m) /\ dirMode' = m
  BY DEF SetDirWrite
<1>2. Calling("setdir") /\ pc[Bench][2] = m /\ pc'[Bench] = Idle /\ pc'[Rmmod] = pc[Rmmod]
  BY <1>1, Where, Two DEF Calling, SetDirWrite, Return, TypeOK
<1>3. \A g \in {"start", "sram", "diag", "stop", "setdir"} : ~Calling(g)'
  BY <1>2, IdleParts DEF Calling
<1>4. UNCHANGED <<loaded, running, sramMode>>
  BY DEF SetDirWrite
<1>5. (at = "test" /\ m = dma_dir) \/ (at = "teardown" /\ m = "both")
  BY <1>2 DEF ProgInv, Waiting
<1>6. Waiting'
  BY <1>2, <1>3, <1>4 DEF ProgInv, Waiting, Test, dma_dir
<1>7. Using'
  BY <1>1, <1>3, <1>4, <1>5 DEF ProgInv, Using, Test, dma_dir
<1> QED BY <1>6, <1>7 DEF ProgInv

\* The program between two ioctls.
LEMMA ProgWalks ==
  ASSUME ProgInv, TypeOK,
         \/ pio_setup \/ device_setup \/ Fill \/ StartBusy \/ StartFailed \/ Report
         \/ dma_dir = "both" /\ Skip("dir", "test")
         \/ dma_dir = "both" /\ Skip("reset", "teardown")
         \/ running /\ Step("dir", "teardown") /\ UNCHANGED <<vars, prog>>
         \/ running /\ Step("reset", "teardown") /\ UNCHANGED <<vars, prog>>
         \/ pio_teardown
  PROVE  ProgInv'
<1> USE DEF vars, drvVars, ctlVars
<1>1. pc[Bench] = Idle
  BY DEF pio_setup, device_setup, Fill, StartBusy, StartFailed, Report, Skip, pio_teardown, Step
<1>2. UNCHANGED <<pc, loaded, running, sramMode, dirMode>>
  BY DEF pio_setup, device_setup, Fill, StartBusy, StartFailed, Report, Skip, pio_teardown
<1>3. \A g \in {"start", "sram", "diag", "stop", "setdir"} : ~Calling(g) /\ ~Calling(g)'
  BY <1>1, <1>2, IdleParts DEF Calling
<1>4. CASE pio_setup
  <2>1. at = "none" /\ at' = "open" /\ prog' \in Programs
    BY <1>4 DEF pio_setup, Step
  <2> QED BY <1>2, <1>3, <2>1 DEF ProgInv, Waiting, Using
<1>5. CASE pio_teardown
  <2>1. /\ at = "teardown" /\ at' = "none" /\ prog' = prog
        /\ "disable" \notin Faults => \A d \in Dir : ~dreq'[d]
    BY <1>5 DEF pio_teardown, Step
  <2> QED BY <1>2, <1>3, <2>1 DEF ProgInv, Waiting, Using
<1>6. CASE ~pio_setup /\ ~pio_teardown
  <2>1. prog' = prog
    BY <1>6 DEF device_setup, Fill, StartBusy, StartFailed, Report, Skip
  <2>2. \/ at = "open" /\ (at' = "teardown" \/ (at' = "dir" /\ loaded /\ pc[Rmmod] = Idle))
        \/ at = "test" /\ at' = "start" /\ Test = "dram"
        \/ at = "dir" /\ at' = "test" /\ dma_dir = "both"
        \/ at = "reset" /\ at' = "teardown" /\ dma_dir = "both"
        \/ at = "started" /\ at' = "reset" /\ ~running
        \/ at = "report" /\ at' = "reset"
    BY <1>3, <1>6
       DEF device_setup, Fill, StartBusy, StartFailed, Report, Skip, Step, ProgInv, Using
  <2>3. Waiting'
    BY <1>2, <1>3, <2>1, <2>2 DEF ProgInv, Waiting, Test, dma_dir
  <2>4. Using'
    BY <1>2, <1>3, <2>1, <2>2 DEF ProgInv, Using, Test, dma_dir
  <2> QED BY <2>3, <2>4 DEF ProgInv
<1> QED BY <1>4, <1>5, <1>6

\* The program issues an ioctl.
LEMMA ProgEnters ==
  ASSUME ProgInv, TypeOK, ServedOnly,
         \/ StartDram \/ StartSram \/ RunDiag \/ Stop
         \/ dma_dir # "both" /\ Step("dir", "test") /\ SetDirCheck(Bench)
              /\ pc'[Bench] = <<"setdir", dma_dir>> /\ prog' = prog
         \/ Step("reset", "teardown") /\ SetDirCheck(Bench)
              /\ pc'[Bench] = <<"setdir", "both">> /\ prog' = prog
  PROVE  ProgInv' /\ (StartSram => dirMode = "both")
<1> USE DEF drvVars
<1>1. /\ pc[Bench] = Idle /\ pc[Rmmod] = Idle /\ loaded /\ prog' = prog
      /\ UNCHANGED <<loaded, running, dirMode, sramMode>>
  BY DEF StartDram, StartEntry, StartSram, SramEntry, RunDiag, DiagEntry, Stop, StopEntry, Step,
     SetDirCheck, Enter
<1>2. \A g \in {"start", "sram", "diag", "stop", "setdir"} : ~Calling(g)
  BY <1>1, IdleParts DEF Calling
<1>3. ASSUME NEW h \in {"start", "sram", "diag", "stop", "setdir"}, NEW s, NEW from, NEW to,
             pc'[Bench] = <<h, s>>, pc'[Rmmod] = pc[Rmmod], at = from, at' = to,
             \/ h = "start" /\ from = "start" /\ to = "started" /\ ~running
             \/ h = "sram" /\ from = "test" /\ to = "started" /\ ~running /\ Test = "sram"
             \/ h = "diag" /\ from = "test" /\ to = "reset" /\ Test = "diag"
             \/ h = "stop" /\ from = "started" /\ to = "report" /\ running
             \/ h = "setdir" /\ from = "dir" /\ to = "test" /\ s = dma_dir
             \/ h = "setdir" /\ from = "reset" /\ to = "teardown" /\ s = "both"
      PROVE  ProgInv'
  <2>1. /\ pc'[Bench][1] = h /\ pc'[Bench][2] = s
        /\ \A g \in {"start", "sram", "diag", "stop", "setdir"} : Calling(g)' <=> g = h
    BY <1>3 DEF Calling
  <2>2. Waiting'
    BY <1>1, <1>2, <1>3, <2>1 DEF ProgInv, Waiting, Test, dma_dir
  <2>4. Using'
    BY <1>1, <1>2, <1>3, <2>1 DEF ProgInv, Using, Test, dma_dir
  <2> QED BY <2>2, <2>4 DEF ProgInv
<1>4. StartSram => dirMode = "both"
  <2>1. StartSram => at = "test" /\ Test = "sram"
    BY DEF StartSram, Step
  <2> QED BY <1>2, <2>1 DEF ProgInv, Waiting, Using, ServedOnly, Test, dma_dir
<1>5. ProgInv'
  <2>1. CASE StartDram
    <3>1. /\ at = "start" /\ at' = "started" /\ ~running
          /\ pc'[Bench] = <<"start", "open">> /\ pc'[Rmmod] = pc[Rmmod]
      BY <2>1, Two DEF StartDram, StartEntry, Step, Enter, TypeOK
    <3> QED BY <1>3, <3>1
  <2>2. CASE StartSram
    <3>1. /\ at = "test" /\ at' = "started" /\ ~running /\ Test = "sram"
          /\ pc'[Bench] = <<"sram", "open">> /\ pc'[Rmmod] = pc[Rmmod]
      BY <2>2, Two DEF StartSram, SramEntry, Step, Enter, TypeOK
    <3> QED BY <1>3, <3>1
  <2>3. CASE RunDiag
    <3>1. /\ at = "test" /\ at' = "reset" /\ Test = "diag"
          /\ pc'[Bench] = <<"diag", "open">> /\ pc'[Rmmod] = pc[Rmmod]
      BY <2>3, Two DEF RunDiag, DiagEntry, Step, Enter, TypeOK
    <3> QED BY <1>3, <3>1
  <2>4. CASE Stop
    <3>1. /\ at = "started" /\ at' = "report" /\ running
          /\ pc'[Bench] = <<"stop", "dreqTx">> /\ pc'[Rmmod] = pc[Rmmod]
      BY <2>4, Two DEF Stop, StopEntry, Step, TypeOK
    <3> QED BY <1>3, <3>1
  <2>5. ASSUME NEW from, NEW to, NEW d, Step(from, to), SetDirCheck(Bench),
               pc'[Bench] = <<"setdir", d>>,
               \/ from = "dir" /\ to = "test" /\ d = dma_dir
               \/ from = "reset" /\ to = "teardown" /\ d = "both"
        PROVE  ProgInv'
    <3>1. at = from /\ at' = to
      BY <2>5 DEF Step
    <3>2. pc'[Rmmod] = pc[Rmmod]
      BY <2>5, Two DEF SetDirCheck, Enter, TypeOK
    <3> QED BY <1>3, <2>5, <3>1, <3>2
  <2> QED BY <2>1, <2>2, <2>3, <2>4, <2>5
<1> QED BY <1>4, <1>5

\* rmmod and insmod come only between the program's uses of the driver.
LEMMA ReloadOutside ==
  ASSUME ProgInv, OwnerInv, TypeOK, Reload
  PROVE  /\ at \notin {"dir", "test", "start", "started", "report", "reset"}
         /\ pc[Bench] = Idle /\ pc'[Bench] = Idle
<1>1. /\ ~ExitEntry /\ ~rp1_pio_sram_init => pc[Rmmod] # Idle
      /\ rp1_pio_sram_init => ~loaded
      /\ ExitEntry => at \in {"none", "open"} /\ Quiet
  <2>1. ASSUME NEW h, NEW s, h # "idle", At(Rmmod, h, s) PROVE pc[Rmmod] # Idle
    BY <2>1, Where
  <2>2. StopSteps(Rmmod) \/ ExitFree \/ ExitRelease \/ ExitClose => pc[Rmmod] # Idle
    <3>1. StopSteps(Rmmod) => \E s : At(Rmmod, "stop", s)
      BY DEF StopSteps, StopDreq, StopTerminate, StopClear, StopMark, StopVerify, StopUnmap
    <3>2. ExitFree \/ ExitRelease \/ ExitClose => \E s : At(Rmmod, "exit", s)
      BY DEF ExitFree, ExitRelease, ExitClose
    <3> QED BY <2>1, <3>1, <3>2
  <2>3. rp1_pio_sram_init => ~loaded
    BY DEF rp1_pio_sram_init
  <2>4. ExitEntry => Quiet
    BY DEF ExitEntry
  <2>5. ExitEntry /\ ~StopSteps(Rmmod) /\ ~ExitFree /\ ~ExitRelease /\ ~ExitClose
            /\ ~rp1_pio_sram_init => at \in {"none", "open"}
    BY DEF Reload
  <2>6. ExitEntry => ~StopSteps(Rmmod) /\ ~ExitFree /\ ~ExitRelease /\ ~ExitClose
                       /\ ~rp1_pio_sram_init
    BY <2>2, <2>3, <2>4, Two DEF Quiet, ExitEntry
  <2> QED BY <2>2, <2>3, <2>4, <2>5, <2>6 DEF Reload
<1>2. at \notin {"dir", "test", "start", "started", "report", "reset"} /\ pc[Bench] = Idle
  BY <1>1, Two DEF ProgInv, Waiting, OwnerInv, Quiet
<1>3. pc'[Bench] = pc[Bench]
  <2>1. CASE StopSteps(Rmmod)
    BY <2>1, StopWhere, Two
  <2>2. CASE ~StopSteps(Rmmod)
    BY <2>2, Two DEF Reload, ExitEntry, ExitFree, ExitRelease, ExitClose, rp1_pio_sram_init, Goto,
       Return, TypeOK, ctlVars
  <2> QED BY <2>1, <2>2
<1> QED BY <1>2, <1>3

\* rmmod and insmod.
LEMMA ProgReloads ==
  ASSUME ProgInv, OwnerInv, TypeOK, TypeOK', Reload
  PROVE  ProgInv'
<1> USE DEF drvVars, ctlVars
<1>0. UNCHANGED <<at, prog>>
  BY DEF Reload, BenchWaits, benchVars
<1>1. /\ at \notin {"dir", "test", "start", "started", "report", "reset"}
      /\ pc[Bench] = Idle /\ pc'[Bench] = pc[Bench]
  BY ReloadOutside
<1>2. \A g \in {"start", "sram", "diag", "stop", "setdir"} : ~Calling(g) /\ ~Calling(g)'
  BY <1>1, IdleParts DEF Calling
<1>3. ~running /\ ~running'
  <2>1. ~running
    BY <1>1, <1>2 DEF ProgInv, Using
  <2>2. StopSteps(Rmmod) => ~running'
    BY <2>1, StopWhere, Two
  <2>3. ExitEntry \/ ExitFree \/ ExitRelease \/ ExitClose \/ rp1_pio_sram_init => ~running'
    BY <2>1 DEF ExitEntry, ExitFree, ExitRelease, ExitClose, rp1_pio_sram_init
  <2> QED BY <2>1, <2>2, <2>3 DEF Reload
<1>4. dirMode' \in {dirMode, "both"}
  BY DEF Reload, StopSteps, StopDreq, StopTerminate, StopClear, StopMark, StopVerify,
     StopUnmap, ExitEntry, ExitFree, ExitRelease, ExitClose, rp1_pio_sram_init
<1>5. \A d \in Dir : dreq'[d] => dreq[d]
  <2>1. CASE StopSteps(Rmmod)
    <3>1. \A d : SetDmactrl(d, FALSE) => \A e \in Dir : dreq'[e] => dreq[e]
      BY DEF SetDmactrl, TypeOK
    <3> QED BY <2>1, <3>1 DEF StopSteps, StopDreq, StopTerminate, StopClear, StopMark, StopVerify,
            StopUnmap, hwVars
  <2>2. CASE ExitClose
    BY <2>2 DEF ExitClose
  <2>3. CASE ~StopSteps(Rmmod) /\ ~ExitClose
    BY <2>3 DEF Reload, ExitEntry, ExitFree, ExitRelease, rp1_pio_sram_init, hwVars
  <2> QED BY <2>1, <2>2, <2>3
<1>6. Waiting'
  BY <1>0, <1>1, <1>2 DEF ProgInv, Waiting
<1>7. Using'
  BY <1>0, <1>1, <1>2, <1>3, <1>4, <1>5 DEF ProgInv, Using
<1> QED BY <1>6, <1>7 DEF ProgInv

LEMMA ProgSame ==
  ASSUME ProgInv, UNCHANGED <<loaded, running, dirMode, sramMode, dreq, pc, at, prog>>
  PROVE  ProgInv'
BY DEF ProgInv, Waiting, Using, Calling, Test, dma_dir

LEMMA PrivateStep ==
  ASSUME TypeOK, PrivateInv, [BenchNext]_allVars
  PROVE  PrivateInv'
<1>1. CASE UNCHANGED <<pc, act, queue, allocated>>
  <2>1. \A d \in Dir : Targets(d)' = Targets(d)
    BY <1>1 DEF Targets
  <2> QED BY <1>1, <2>1 DEF PrivateInv, Held
<1>2. CASE Next
  <2>1. ASSUME NEW p \in Callers, dma_diag_test(p) \/ sram_addr_probe(p) PROVE PrivateInv'
    BY <2>1, SelfTestPrivate
  <2> QED BY <1>2, <2>1, OthersPrivate DEF Next, rp1_pio_sram_ioctl
<1>3. CASE UNCHANGED vars
  BY <1>1, <1>3 DEF vars, memVars, hwVars, ctlVars
<1>4. CASE pio_setup \/ pio_teardown
  BY <1>1, <1>4 DEF pio_setup, pio_teardown, memVars, ctlVars
<1> QED BY <1>2, <1>3, <1>4, Kernel DEF allVars

-----------------------------------------------------------------------------

\* What holds of a run when none has been killed.
RunInv == DriverInv /\ ProgInv

LEMMA RunMain ==
  ASSUME TypeOK, TypeOK', RunInv, ServedOnly, Main
  PROVE  RunInv'
<1> USE DEF RunInv
<1>1. pc[Bench] = Idle
  BY DEF Main, pio_setup, device_setup, Direction, SetDir, Skip, Fill, StartDram, StartSram,
     StartBusy, StartFailed, RunDiag, Stop, Report, ResetDir, pio_teardown, Step
<1>2. SingleInv
  BY <1>1, DriverSingle, IdleParts DEF Calling
<1>3. CASE pio_setup \/ pio_teardown
  <2>1. at = "none" \/ at = "teardown"
    BY <1>3 DEF pio_setup, pio_teardown, Step
  <2>2. ~running
    BY <2>1 DEF ProgInv, Using
  <2>3. ("clear" \notin Faults /\ dirty' => dirty) /\ \A d \in Dir : dreq'[d] => dreq[d]
    BY <1>3 DEF pio_setup, pio_teardown, ClearFifos
  <2>4. SingleInv'
    BY <1>1, <1>2, <1>3, <2>2, <2>3, DriverSetup DEF pio_setup, pio_teardown
  <2> QED BY <1>3, <2>4, ProgWalks DEF DriverInv
<1>4. CASE StartDram \/ StartSram \/ RunDiag \/ Stop
  <2>1. ProgInv' /\ (StartSram => dirMode = "both")
    BY <1>4, ProgEnters
  <2>2. RunDiag => ~running
    BY <1>1, IdleParts DEF RunDiag, Step, ProgInv, Using
  <2>3. DriverInv'
    BY <1>1, <1>2, <1>4, <2>1, <2>2, DriverEnters, DriverTests
       DEF StartDram, StartSram, RunDiag, Stop, DriverInv
  <2> QED BY <2>1, <2>3
<1>5. ASSUME NEW d, NEW from, NEW to,
             \/ from = "dir" /\ to = "test" /\ d = dma_dir /\ dma_dir # "both"
             \/ from = "reset" /\ to = "teardown" /\ d = "both",
             SetDir(d, from, to, "teardown")
      PROVE  RunInv'
  <2>1. CASE Step(from, to) /\ SetDirCheck(Bench) /\ pc'[Bench] = <<"setdir", d>> /\ prog' = prog
    <3>1. ProgInv'
      BY <1>5, <2>1, ProgEnters
    <3>2. SingleInv'
      BY <1>1, <1>2, <2>1, DriverEnters
    <3> QED BY <3>1, <3>2 DEF DriverInv
  <2>2. CASE running /\ Step(from, "teardown") /\ UNCHANGED <<vars, prog>>
    <3>1. ProgInv'
      BY <1>5, <2>2, ProgWalks
    <3> QED BY <2>2, <3>1, DriverSame
  <2> QED BY <1>5, <2>1, <2>2 DEF SetDir
<1>6. CASE Direction
  BY <1>5, <1>6, ProgWalks, DriverSame DEF Direction, Skip
<1>7. CASE ResetDir
  BY <1>5, <1>7, ProgWalks, DriverSame DEF ResetDir, Skip
<1>8. CASE device_setup \/ Fill \/ StartBusy \/ StartFailed \/ Report
  <2>1. UNCHANGED vars
    BY <1>8 DEF device_setup, Fill, StartBusy, StartFailed, Report
  <2> QED BY <1>8, <2>1, ProgWalks, DriverSame
<1> QED BY <1>3, <1>4, <1>6, <1>7, <1>8 DEF Main

LEMMA RunKernel ==
  ASSUME TypeOK, TypeOK', PrivateInv, RunInv, InKernel
  PROVE  RunInv'
<1> USE DEF RunInv
<1>1. CASE Mark
  <2>1. SingleInv'
    BY <1>1, DriverMarks DEF Mark
  <2> QED BY <1>1, <2>1, ProgMarks DEF DriverInv
<1>2. CASE Handler \/ DiagSeen
  <2>1. DriverInv'
    BY <1>2, DriverHandles
  <2>2. UNCHANGED <<at, prog>>
    BY <1>2 DEF InKernel, Mark, DiagSeen, BenchWaits, benchVars
  <2>3. CASE SetDirWrite(Bench) \/ StopSteps(Bench)
    BY <2>1, <2>2, <2>3, ProgSets, ProgStops
  <2>4. CASE ~SetDirWrite(Bench) /\ ~StopSteps(Bench)
    <3>1. \E h \in {"start", "sram", "diag"} :
            Goes(Bench, h) /\ UNCHANGED <<loaded, running, dirMode, sramMode>>
      <4>1. CASE SramUnmap(Bench)
        BY <4>1, ReturnGoes DEF SramUnmap
      <4> QED BY <1>2, <2>4, <4>1, BringUpGoes, TestGoes DEF Handler, DiagSeen, Session0, drvVars
    <3> QED BY <2>1, <2>2, <3>1, ProgCalls
  <2> QED BY <2>3, <2>4
<1> QED BY <1>1, <1>2 DEF InKernel

LEMMA RunStep ==
  ASSUME TypeOK, TypeOK', PrivateInv, OwnerInv, RunInv, ServedOnly, [BenchNext]_allVars, ~Kill
  PROVE  RunInv'
<1> USE DEF RunInv
<1>1. CASE Main \/ InKernel
  BY <1>1, RunMain, RunKernel
<1>2. CASE Reload
  BY <1>2, DriverReloads, ProgReloads
<1>3. ASSUME NEW d \in Dir, Transfer(d) PROVE RunInv'
  <2>1. UNCHANGED <<loaded, running, dirMode, sramMode, dreq, pc, at, prog>>
    BY <1>3 DEF Transfer, MoveWords, drvVars, ctlVars, benchVars
  <2> QED BY <1>3, <2>1, DriverReloads, ProgSame
<1>4. CASE UNCHANGED allVars
  <2>1. UNCHANGED vars /\ UNCHANGED <<loaded, running, dirMode, sramMode, dreq, pc, at, prog>>
    BY <1>4 DEF allVars, vars, drvVars, hwVars, ctlVars, benchVars
  <2> QED BY <2>1, DriverSame, ProgSame
<1> QED BY <1>1, <1>2, <1>3, <1>4 DEF BenchNext

-----------------------------------------------------------------------------
(* What the counters and the DRAM buffer say of the run.                   *)

\* The steps after a bring-up has reset the counters.
Late == {"subTx", "subRx", "issTx", "issRx", "mark", "termTx", "termRx", "clear"}

\* From that reset to the report the counters are those of the run.
Counting ==
  \/ at = "report"
  \/ at = "started" /\ running
  \/ (Calling("start") \/ Calling("sram") \/ Calling("diag")) /\ pc[Bench][2] \in Late

OwnOnly == \A d \in Dir : /\ counted[d] \subseteq {Own(d)}
                          /\ counted[d] \subseteq moved[d]
                          /\ Test = "dram" /\ d \notin DirsOf(dma_dir) => counted[d] = {}

\* Words are in the RX half of the buffer only if this run's RX channel moved some.
Moved == Test = "dram" /\ dma_dir = "both" /\ ring # "cleared" => moved["rx"] # {}

\* While a run has the device open, words move in and out of its own rings only.
InRun == {"dir", "test", "start", "started", "report", "reset"}

MovedInv ==
  /\ moved \in [Dir -> SUBSET Areas]
  /\ at \in InRun => \A d \in Dir : moved[d] \subseteq {Own(d)}

\* What a PASS stands for.
Honest == \A d \in DirsOf(dma_dir) : moved[d] = {Own(d)} /\ counted[d] \subseteq {Own(d)}

CountInv ==
  /\ Counting => OwnOnly
  /\ (at = "start" \/ (Calling("start") /\ pc[Bench][2] \in Early))
       => (dma_dir = "both" => ring = "cleared")
  /\ (at = "report" \/ (at = "started" /\ (running \/ Calling("start")))) => Moved
  /\ at \notin {"none", "reset", "teardown"} => result = "fail"
  /\ Calling("diag") /\ pc[Bench][2] \notin {"termRx", "clear", "free"} => result = "fail"
  /\ at = "reset" /\ result = "pass" => Honest

\* The six parts, one by one.
LEMMA CountParts ==
  ASSUME Counting' => OwnOnly',
         (at' = "start" \/ (Calling("start")' /\ pc'[Bench][2] \in Early))
           => (dma_dir' = "both" => ring' = "cleared"),
         (at' = "report" \/ (at' = "started" /\ (running' \/ Calling("start")'))) => Moved',
         at' \notin {"none", "reset", "teardown"} => result' = "fail",
         Calling("diag")' /\ pc'[Bench][2] \notin {"termRx", "clear", "free"} => result' = "fail",
         at' = "reset" /\ result' = "pass" => Honest'
  PROVE  CountInv'
BY DEF CountInv

\* The steps of a bring-up: counters and progress.
LEMMA BringUpCounts ==
  ASSUME TypeOK, NEW h, NEW last \in {"mark", "termTx"}, BringUp(Bench, h, last)
  PROVE  /\ pc[Bench][2] \in Bring
         /\ pc'[Bench][2] \in Early => pc[Bench][2] \in Early
         /\ \/ counted' = counted /\ (pc'[Bench][2] \in Late => pc[Bench][2] \in Late)
            \/ counted' = [d \in Dir |-> {}] /\ pc[Bench][2] = "prep"
<1> DEFINE Goal == /\ pc[Bench][2] \in Bring
                   /\ pc'[Bench][2] \in Early => pc[Bench][2] \in Early
                   /\ \/ counted' = counted /\ (pc'[Bench][2] \in Late => pc[Bench][2] \in Late)
                      \/ counted' = [d \in Dir |-> {}] /\ pc[Bench][2] = "prep"
<1> USE DEF Early, Late, Bring
<1>1. ASSUME NEW s, At(Bench, h, s), NEW t, Goto(Bench, h, t)
      PROVE  pc[Bench][2] = s /\ pc'[Bench][2] = t
  BY <1>1, Where, Two DEF Goto, TypeOK
<1>2. ASSUME NEW s, At(Bench, h, s), Fail(Bench, h)
      PROVE  pc[Bench][2] = s /\ pc'[Bench][2] \in {"", "unmap", "free"}
  <2>1. CASE h = "start"
    <3>1. pc'[Bench] = Idle
      BY <1>2, <2>1, Two DEF Fail, Return, TypeOK
    <3> QED BY <1>2, <3>1, Where, IdleParts
  <2>2. CASE h # "start"
    BY <1>1, <1>2, <2>2 DEF Fail
  <2> QED BY <2>1, <2>2
<1>3. ASSUME NEW s \in Bring, At(Bench, h, s), counted' = counted,
             \/ Fail(Bench, h)
             \/ \E t : /\ Goto(Bench, h, t)
                       /\ t \in Early => s \in Early
                       /\ t \in Late => s \in Late
      PROVE  Goal
  BY <1>1, <1>2, <1>3
<1>4. CASE OpenClient(Bench, h)
  <2>1. At(Bench, h, "open") /\ counted' = counted
    BY <1>4 DEF OpenClient, hwVars
  <2>2. Goto(Bench, h, "dreqTx") \/ Goto(Bench, h, "noclient") \/ Fail(Bench, h)
    BY <1>4 DEF OpenClient
  <2> QED BY <1>3, <2>1, <2>2
<1>5. CASE NoClient(Bench, h)
  <2>1. At(Bench, h, "noclient") /\ counted' = counted
    BY <1>5 DEF NoClient, hwVars
  <2>2. Fail(Bench, h)
    BY <1>5 DEF NoClient
  <2> QED BY <1>3, <2>1, <2>2
<1>6. CASE EnableDreq(Bench, h, "tx", "dreqTx", "dreqRx")
  <2>1. At(Bench, h, "dreqTx") /\ counted' = counted
    BY <1>6 DEF EnableDreq
  <2>2. Goto(Bench, h, "dreqRx") \/ Fail(Bench, h)
    BY <1>6 DEF EnableDreq
  <2> QED BY <1>3, <2>1, <2>2
<1>7. CASE EnableDreq(Bench, h, "rx", "dreqRx", "prep")
  <2>1. At(Bench, h, "dreqRx") /\ counted' = counted
    BY <1>7 DEF EnableDreq
  <2>2. Goto(Bench, h, "prep") \/ Fail(Bench, h)
    BY <1>7 DEF EnableDreq
  <2> QED BY <1>3, <2>1, <2>2
<1>8. CASE PrepAndReset(Bench, h)
  <2>1. CASE counted' = [d \in Dir |-> {}] /\ Goto(Bench, h, "subTx")
    BY <1>1, <1>8, <2>1 DEF PrepAndReset
  <2>2. CASE Fail(Bench, h) /\ counted' = counted
    BY <1>2, <1>8, <2>2 DEF PrepAndReset
  <2> QED BY <1>8, <2>1, <2>2 DEF PrepAndReset
<1>9. CASE SubmitTx(Bench, h)
  <2>1. At(Bench, h, "subTx") /\ counted' = counted
    BY <1>9 DEF SubmitTx
  <2>2. Goto(Bench, h, "subRx") \/ Fail(Bench, h)
    BY <1>9 DEF SubmitTx
  <2> QED BY <1>3, <2>1, <2>2
<1>10. CASE SubmitRx(Bench, h)
  <2>1. At(Bench, h, "subRx") /\ counted' = counted
    BY <1>10 DEF SubmitRx
  <2>2. Goto(Bench, h, "issTx") \/ Fail(Bench, h)
    BY <1>10 DEF SubmitRx
  <2> QED BY <1>3, <2>1, <2>2
<1>11. CASE Issue(Bench, h, "tx", "issTx", "issRx")
  <2>1. At(Bench, h, "issTx") /\ counted' = counted
    BY <1>11 DEF Issue
  <2>2. Goto(Bench, h, "issRx")
    BY <1>11 DEF Issue
  <2> QED BY <1>3, <2>1, <2>2
<1>12. CASE Issue(Bench, h, "rx", "issRx", last)
  <2>1. At(Bench, h, "issRx") /\ counted' = counted
    BY <1>12 DEF Issue
  <2>2. Goto(Bench, h, last)
    BY <1>12 DEF Issue
  <2> QED BY <1>3, <2>1, <2>2
<1> QED BY <1>4, <1>5, <1>6, <1>7, <1>8, <1>9, <1>10, <1>11, <1>12 DEF BringUp

LEMMA CountBringUp ==
  ASSUME TypeOK, RunInv, CountInv, NEW h \in {"start", "sram", "diag"},
         NEW last \in {"mark", "termTx"}, BringUp(Bench, h, last), BenchWaits
  PROVE  CountInv'
<1> USE DEF benchVars, ringVars
<1>1. /\ Calling(h)
      /\ pc'[Bench] = Idle \/ pc'[Bench][1] = h
      /\ h \in {"start", "sram"} => at = "started"
      /\ h = "sram" => Test = "sram"
      /\ h = "diag" => at = "reset"
  BY BringUpGoes, GoesTo, Two DEF Calling, RunInv, ProgInv, Waiting
<1>2. \A g \in {"start", "sram", "diag"} : Calling(g)' => g = h
  BY <1>1, IdleParts DEF Calling
<1>3. UNCHANGED <<at, prog, result, ring, moved, running>>
  BY BringUpGoes DEF BenchWaits, Session0
<1>4. h = "diag" => result = "fail"
  <2>1. {"termRx", "clear", "free"} \cap Bring = {}
    BY DEF Bring
  <2> QED BY <1>1, <2>1, BringUpCounts DEF CountInv
<1>5. Counting' => OwnOnly'
  <2>1. CASE counted' = [d \in Dir |-> {}]
    BY <2>1 DEF OwnOnly
  <2>2. CASE counted' = counted /\ (pc'[Bench][2] \in Late => pc[Bench][2] \in Late)
    <3>1. Counting' => Counting
      BY <1>1, <1>2, <1>3, <2>2 DEF Counting
    <3>2. OwnOnly => OwnOnly'
      BY <1>3, <2>2 DEF OwnOnly, Own, Test, dma_dir
    <3> QED BY <3>1, <3>2 DEF CountInv
  <2> QED BY <2>1, <2>2, BringUpCounts
<1>6. at' # "start" /\ (Calling("start")' /\ pc'[Bench][2] \in Early
                          => (dma_dir' = "both" => ring' = "cleared"))
  BY <1>1, <1>2, <1>3, BringUpCounts DEF CountInv, dma_dir
<1>7. (at' = "report" \/ (at' = "started" /\ (running' \/ Calling("start")'))) => Moved'
  <2>1. CASE h # "start"
    BY <1>1, <1>3, <2>1 DEF Moved, Test
  <2>2. CASE h = "start"
    BY <1>1, <1>3, <2>2 DEF CountInv, Moved, Test, dma_dir
  <2> QED BY <2>1, <2>2
<1>8. at' \notin {"none", "reset", "teardown"} => result' = "fail"
  BY <1>3 DEF CountInv
<1>9. Calling("diag")' => result' = "fail"
  BY <1>2, <1>3, <1>4
<1>10. ~(at' = "reset" /\ result' = "pass")
  BY <1>1, <1>3, <1>4
<1> QED BY <1>5, <1>6, <1>7, <1>8, <1>9, <1>10, CountParts

\* Before a test and after its result the counters say nothing.
LEMMA CountOutside ==
  ASSUME at' \in {"none", "open", "dir", "test", "start", "teardown"},
         ~Calling("start")', ~Calling("sram")', ~Calling("diag")',
         at' = "start" => (dma_dir' = "both" => ring' = "cleared"),
         at' \in {"open", "dir", "test", "start"} => result' = "fail"
  PROVE  CountInv'
<1>1. ~Counting'
  BY DEF Counting
<1> QED BY <1>1, CountParts

LEMMA CountMain ==
  ASSUME TypeOK, RunInv, MovedInv, CountInv, Main
  PROVE  CountInv'
<1> USE DEF ringVars
<1>1. pc[Bench] = Idle /\ \A g \in {"start", "sram", "diag", "stop", "setdir"} : ~Calling(g)
  BY IdleParts DEF Main, pio_setup, device_setup, Direction, SetDir, Skip, Fill, StartDram,
     StartSram, StartBusy, StartFailed, RunDiag, Stop, Report, ResetDir, pio_teardown, Step, Calling
<1>2. ASSUME pc' = pc,
             \/ at' \in {"none", "teardown"}
             \/ at' \in {"open", "dir", "test", "start"} /\ result' = "fail",
             at' = "start" => (dma_dir' = "both" => ring' = "cleared")
      PROVE  CountInv'
  <2>1. ~Calling("start")' /\ ~Calling("sram")' /\ ~Calling("diag")'
    BY <1>1, <1>2, IdleParts DEF Calling
  <2> QED BY <1>2, <2>1, CountOutside
<1>3. CASE pio_setup \/ pio_teardown
  BY <1>2, <1>3 DEF pio_setup, pio_teardown, Step, ctlVars
<1>4. CASE device_setup
  BY <1>2, <1>4 DEF device_setup, Step, vars, ctlVars, CountInv
<1>5. ASSUME NEW from, NEW to,
             \/ from = "dir" /\ to = "test"
             \/ from = "reset" /\ to = "teardown",
             Skip(from, to) \/ \E d \in Mode : SetDir(d, from, to, "teardown")
      PROVE  CountInv'
  <2>1. CASE pc' = pc
    BY <1>2, <1>5, <2>1 DEF Skip, SetDir, Step, CountInv
  <2>2. CASE pc' # pc
    <3>1. PICK d \in Mode : SetDir(d, from, to, "teardown")
      BY <1>5, <2>2 DEF Skip, vars, ctlVars
    <3>2. at = from /\ at' = to /\ result' = result /\ pc'[Bench] = <<"setdir", d>>
      BY <2>2, <3>1 DEF SetDir, Step, vars, ctlVars
    <3>3. ~Calling("start")' /\ ~Calling("sram")' /\ ~Calling("diag")'
      BY <3>2 DEF Calling
    <3> QED BY <1>5, <3>2, <3>3, CountOutside DEF CountInv
  <2> QED BY <2>1, <2>2
<1>6. CASE Direction \/ ResetDir
  <2>1. dma_dir \in Mode /\ "both" \in Mode
    BY DEF RunInv, ProgInv, Waiting, dma_dir, Mode
  <2>2. CASE Direction
    BY <1>5, <2>1, <2>2 DEF Direction
  <2>3. CASE ResetDir
    BY <1>5, <2>1, <2>3 DEF ResetDir
  <2> QED BY <1>6, <2>2, <2>3
<1>7. CASE Fill
  <2>1. dma_dir' = dma_dir
    BY <1>7 DEF Fill, dma_dir
  <2>2. dma_dir = "both" => ring' = "cleared"
    BY <1>7 DEF Fill
  <2>3. pc' = pc /\ at' = "start" /\ result' = "fail"
    BY <1>7 DEF Fill, Step, vars, ctlVars, CountInv
  <2> QED BY <1>2, <2>1, <2>2, <2>3
<1>8. CASE StartDram
  <2>1. /\ at = "start" /\ at' = "started" /\ ~running' /\ pc'[Bench] = <<"start", "open">>
        /\ UNCHANGED <<prog, ring, result>>
    BY <1>8, Two DEF StartDram, StartEntry, Step, Enter, TypeOK, drvVars
  <2>2. /\ Calling("start")' /\ pc'[Bench][2] = "open"
        /\ ~Calling("sram")' /\ ~Calling("diag")'
    BY <2>1 DEF Calling
  <2>3. ~Counting'
    BY <2>1, <2>2 DEF Counting, Late
  <2>4. dma_dir' = "both" => ring' = "cleared"
    BY <2>1 DEF CountInv, dma_dir
  <2> QED BY <2>1, <2>2, <2>3, <2>4, CountParts DEF CountInv, Moved
<1>9. CASE StartSram
  <2>1. /\ at = "test" /\ at' = "started" /\ ~running' /\ pc'[Bench] = <<"sram", "open">>
        /\ UNCHANGED <<prog, result>>
    BY <1>9, Two DEF StartSram, SramEntry, Step, Enter, TypeOK
  <2>2. /\ Calling("sram")' /\ pc'[Bench][2] = "open"
        /\ ~Calling("start")' /\ ~Calling("diag")'
    BY <2>1 DEF Calling
  <2>3. ~Counting'
    BY <2>1, <2>2 DEF Counting, Late
  <2> QED BY <2>1, <2>2, <2>3, CountParts DEF CountInv
<1>10. CASE RunDiag
  <2>1. /\ at = "test" /\ at' = "reset" /\ pc'[Bench] = <<"diag", "open">> /\ result' = result
    BY <1>10, Two DEF RunDiag, DiagEntry, Step, Enter, TypeOK
  <2>2. /\ Calling("diag")' /\ pc'[Bench][2] = "open"
        /\ ~Calling("start")' /\ ~Calling("sram")'
    BY <2>1 DEF Calling
  <2>3. ~Counting'
    BY <2>1, <2>2 DEF Counting, Late
  <2> QED BY <2>1, <2>2, <2>3, CountParts DEF CountInv
<1>11. CASE StartBusy \/ StartFailed
  <2>1. at' = "reset" /\ result' = "fail" /\ pc' = pc
    BY <1>11 DEF StartBusy, StartFailed, Step, vars, ctlVars, CountInv
  <2>2. \A g \in {"start", "sram", "diag"} : ~Calling(g)'
    BY <1>1, <2>1 DEF Calling
  <2>3. ~Counting'
    BY <2>1, <2>2 DEF Counting
  <2> QED BY <2>1, <2>2, <2>3, CountParts
<1>12. CASE Stop
  <2>1. /\ at = "started" /\ at' = "report" /\ running
        /\ pc'[Bench] = <<"stop", "dreqTx">> /\ UNCHANGED <<prog, ring, moved, result, counted>>
    BY <1>12, Two DEF Stop, StopEntry, Step, TypeOK, hwVars
  <2>2. ~Calling("start")' /\ ~Calling("diag")'
    BY <2>1 DEF Calling
  <2>3. OwnOnly' /\ Moved'
    BY <2>1 DEF CountInv, Counting, OwnOnly, Own, Moved, Test, dma_dir
  <2> QED BY <2>1, <2>2, <2>3, CountParts DEF CountInv
<1>13. CASE Report
  <2>1. /\ at = "report" /\ at' = "reset" /\ result' = IF Passed THEN "pass" ELSE "fail"
        /\ UNCHANGED <<prog, counted, moved>> /\ pc' = pc
    BY <1>13 DEF Report, Step, vars, hwVars, ctlVars
  <2>2. \A g \in {"start", "sram", "diag"} : ~Calling(g)'
    BY <1>1, <2>1 DEF Calling
  <2>3. ~Counting'
    BY <2>1, <2>2 DEF Counting
  <2>4. OwnOnly /\ Moved
    BY <2>1 DEF CountInv, Counting
  <2>5. ASSUME Passed PROVE Honest
    <3>1. DirsOf(dma_dir) \subseteq Dir
      BY DirsOfType DEF RunInv, ProgInv, Waiting, dma_dir
    <3>2. \A d \in Dir : counted[d] \subseteq {Own(d)} /\ moved[d] \subseteq {Own(d)}
                        /\ (counted[d] # {} => moved[d] # {})
      BY <2>1, <2>4 DEF OwnOnly, MovedInv, InRun
    <3>3. ASSUME NEW d \in DirsOf(dma_dir) PROVE moved[d] # {}
      <4>1. CASE Test = "sram"
        BY <2>5, <3>1, <3>2, <4>1, Names DEF Passed, Bytes
      <4>2. CASE Test = "dram" /\ dma_dir = "both"
        BY <2>4, <2>5, <3>1, <3>2, <4>2, Names DEF Passed, Bytes, Moved
      <4>3. CASE Test = "dram" /\ dma_dir \in {"tx", "rx"}
        <5>1. d = dma_dir /\ \A e \in Dir : e # d => counted[e] = {}
          BY <2>4, <4>3 DEF DirsOf, OwnOnly
        <5> QED BY <2>5, <3>2, <4>3, <5>1, Names DEF Passed, Bytes
      <4> QED BY <2>5, <4>1, <4>2, <4>3 DEF Passed
    <3> QED BY <3>1, <3>2, <3>3 DEF Honest
  <2>6. result' = "pass" => Honest'
    BY <2>1, <2>5 DEF Honest, Own, Test, dma_dir
  <2> QED BY <2>1, <2>2, <2>3, <2>6, CountParts
<1> QED BY <1>3, <1>4, <1>6, <1>7, <1>8, <1>9, <1>10, <1>11, <1>12, <1>13 DEF Main

\* The driver's other steps leave the counters alone.
LEMMA CountKernel ==
  ASSUME TypeOK, RunInv, MovedInv, CountInv, InKernel
  PROVE  CountInv'
<1> USE DEF benchVars, ringVars
<1>1. /\ UNCHANGED <<at, prog, ring, moved>>
      /\ DiagSeen \/ result' = result
  BY DEF InKernel, Mark, DiagSeen, BenchWaits
<1>2. CASE Handler /\ BenchWaits
  <2>1. ASSUME NEW h \in {"start", "sram", "diag"}, NEW last \in {"mark", "termTx"},
               BringUp(Bench, h, last)
        PROVE  CountInv'
    BY <1>2, <2>1, CountBringUp
  <2>2. CASE SramUnmap(Bench)
    <3>1. Calling("sram") /\ pc'[Bench] = Idle
      BY <2>2, Where, Two DEF SramUnmap, Return, TypeOK, Calling
    <3>2. /\ at = "started" /\ UNCHANGED <<running, counted, result>>
          /\ ~Calling("start")' /\ ~Calling("sram")' /\ ~Calling("diag")'
      BY <1>2, <2>2, <3>1, IdleParts
         DEF SramUnmap, hwVars, Calling, RunInv, ProgInv, Waiting, BenchWaits
    <3>3. Counting' => Counting
      BY <1>1, <3>2 DEF Counting
    <3>4. (OwnOnly => OwnOnly') /\ (Moved => Moved')
      BY <1>1, <3>2 DEF OwnOnly, Moved, Own, Test, dma_dir
    <3> QED BY <1>1, <3>2, <3>3, <3>4, CountParts DEF CountInv
  <2>3. CASE SetDirWrite(Bench)
    <3>1. Calling("setdir") /\ pc'[Bench] = Idle /\ result' = result
      BY <1>2, <2>3, Where, Two DEF SetDirWrite, Return, TypeOK, Calling, BenchWaits
    <3>2. ~Calling("start")' /\ ~Calling("sram")' /\ ~Calling("diag")'
      BY <3>1, IdleParts DEF Calling
    <3>3. at' = at /\ (at = "test" \/ at = "teardown")
      BY <1>1, <3>1 DEF RunInv, ProgInv, Waiting
    <3> QED BY <3>1, <3>2, <3>3, CountOutside DEF CountInv
  <2>4. CASE StopSteps(Bench)
    <3>1. Calling("stop") /\ (pc'[Bench] = Idle \/ pc'[Bench][1] = "stop")
      BY <2>4, StopWhere, Two DEF Calling
    <3>2. ~Calling("start")' /\ ~Calling("diag")'
      BY <3>1, IdleParts DEF Calling
    <3>3. at = "report" /\ UNCHANGED <<counted, result>>
      BY <1>2, <2>4, <3>1 DEF RunInv, ProgInv, Waiting, BenchWaits, StopSteps, StopDreq,
         StopTerminate, StopClear, StopMark, StopVerify, StopUnmap, hwVars
    <3>4. OwnOnly' /\ Moved'
      BY <1>1, <3>3 DEF CountInv, Counting, OwnOnly, Moved, Own, Test, dma_dir
    <3> QED BY <1>1, <3>2, <3>3, <3>4, CountParts DEF CountInv
  <2>5. CASE \/ TestTerminate(Bench, "diag", "rx", "termRx", "clear")
             \/ TestClear(Bench, "diag", "free") \/ TestFree(Bench, "diag")
    <3>1. /\ Calling("diag") /\ pc[Bench][2] \in {"termRx", "clear", "free"}
          /\ counted' = counted /\ result' = result
      BY <1>2, <2>5, Where DEF TestTerminate, TestClear, TestFree, Calling, BenchWaits, hwVars
    <3>2. \/ pc'[Bench] = Idle
          \/ /\ pc'[Bench][1] = "diag" /\ pc'[Bench][2] \in {"clear", "free"}
             /\ pc[Bench][2] \in Late
      <4>1. ASSUME NEW t, Goto(Bench, "diag", t)
            PROVE  pc'[Bench][1] = "diag" /\ pc'[Bench][2] = t
        BY <4>1, Two DEF Goto, TypeOK
      <4>2. Return(Bench) => pc'[Bench] = Idle
        BY Two DEF Return, TypeOK
      <4>3. ASSUME NEW t, At(Bench, "diag", t) PROVE pc[Bench][2] = t
        BY <4>3, Where
      <4> QED BY <2>5, <4>1, <4>2, <4>3 DEF TestTerminate, TestClear, TestFree, Late
    <3>3. at = "reset" /\ ~Calling("start")' /\ ~Calling("sram")'
      BY <3>1, <3>2, IdleParts DEF Calling, RunInv, ProgInv, Waiting
    <3>4. Counting' => Counting
      BY <1>1, <3>1, <3>2, <3>3, IdleParts DEF Counting, Calling
    <3>5. OwnOnly => OwnOnly'
      BY <1>1, <3>1 DEF OwnOnly, Own, Test, dma_dir
    <3>6. Calling("diag")' => pc'[Bench][2] \in {"termRx", "clear", "free"}
      BY <3>2, IdleParts DEF Calling
    <3>7. result' = "pass" => Honest'
      BY <1>1, <3>1, <3>3 DEF CountInv, Honest, Own, Test, dma_dir
    <3> QED BY <1>1, <3>3, <3>4, <3>5, <3>6, <3>7, CountParts DEF CountInv
  <2> QED BY <1>2, <2>1, <2>2, <2>3, <2>4, <2>5 DEF Handler
<1>3. CASE Mark
  <2>1. /\ pc'[Bench] = Idle /\ UNCHANGED <<counted, result>>
        /\ pc[Bench][2] \in Late
        /\ Calling("start") \/ Calling("sram")
    BY <1>3, Where, Two
       DEF Mark, StartMark, SramMark, Return, TypeOK, Calling, Late, hwVars
  <2>2. ~Calling("start")' /\ ~Calling("sram")' /\ ~Calling("diag")'
    BY <2>1, IdleParts DEF Calling
  <2>3. at = "started" /\ OwnOnly
    BY <2>1 DEF CountInv, Counting, RunInv, ProgInv, Waiting
  <2>4. Moved
    <3>1. CASE Calling("start")
      BY <2>3, <3>1 DEF CountInv
    <3>2. CASE Calling("sram")
      BY <3>2 DEF Moved, RunInv, ProgInv, Waiting
    <3> QED BY <2>1, <3>1, <3>2
  <2>5. OwnOnly' /\ Moved'
    BY <1>1, <2>1, <2>3, <2>4 DEF OwnOnly, Moved, Own, Test, dma_dir
  <2> QED BY <1>1, <2>1, <2>2, <2>3, <2>5, CountParts DEF CountInv
<1>4. CASE DiagSeen
  <2>1. /\ At(Bench, "diag", "termTx") /\ pc' = [pc EXCEPT ![Bench] = <<"diag", "termRx">>]
        /\ counted' = counted
        /\ result' = "fail" \/ (result' = "pass" /\ Bytes("tx") /\ Bench \in moved["rx"])
    BY <1>4 DEF DiagSeen, TestTerminate, Goto
  <2>2. /\ Calling("diag") /\ pc[Bench][2] \in Late
        /\ pc'[Bench][1] = "diag" /\ pc'[Bench][2] = "termRx"
    BY <2>1, Where, Two DEF Calling, Late, TypeOK
  <2>3. at = "reset" /\ Test = "diag" /\ OwnOnly
    BY <2>2 DEF CountInv, Counting, RunInv, ProgInv, Waiting
  <2>4. \A d : Own(d) = Bench
    BY <2>3 DEF Own
  <2>5. OwnOnly'
    BY <1>1, <2>1, <2>3 DEF OwnOnly, Own, Test, dma_dir
  <2>6. ASSUME result' = "pass" PROVE Honest'
    <3>1. DirsOf(dma_dir)' \subseteq Dir /\ \A d : Own(d)' = Bench
      BY <1>1, <2>4, DirsOfType DEF RunInv, ProgInv, Waiting, dma_dir, Own, Test
    <3>2. \A d \in Dir : counted[d] \subseteq {Bench} /\ moved[d] = {Bench}
      BY <2>1, <2>3, <2>4, <2>6, Names DEF OwnOnly, Bytes, MovedInv, InRun
    <3> QED BY <1>1, <2>1, <3>1, <3>2 DEF Honest
  <2>7. ~Calling("start")' /\ ~Calling("sram")'
    BY <2>2 DEF Calling
  <2> QED BY <1>1, <2>2, <2>3, <2>5, <2>6, <2>7, CountParts
<1> QED BY <1>2, <1>3, <1>4 DEF InKernel

\* Words that move while the program uses the driver are those of its session.
LEMMA OwnWords ==
  ASSUME TypeOK, SingleInv, RunInv, NEW d \in Dir, act[d] # None,
         at \in InRun
  PROVE  /\ act[d] = Own(d)
         /\ Test = "dram" => d \in DirsOf(dma_dir)
         /\ Counting /\ at \in {"started", "report"}
         /\ Calling("start") => pc[Bench][2] \in Late
<1> DEFINE h == pc[Bench][1]
           s == pc[Bench][2]
<1>1. Local(h, s, do[Bench]) /\ Role(Bench, h)
  BY Two DEF RunInv, ProgInv, Waiting, Others, SingleInv, InRun
<1>3. at \in {"started", "report"} => dirMode = dma_dir
  BY DEF RunInv, ProgInv, Using
<1>4. CASE Issued(h, s, d)
  <2>1. h \in Starting /\ s \in Late /\ d \in do[Bench] /\ act[d] = Ring(h, d)
    BY <1>1, <1>4 DEF Local, Engine, Issued, Live, Starting, Late
  <2>2. CASE h = "start"
    <3>1. at = "started" /\ Test = "dram" /\ Calling("start")
      BY <2>2 DEF RunInv, ProgInv, Waiting, Calling
    <3>2. do[Bench] = DirsOf(dma_dir)
      BY <1>1, <1>3, <2>2, <3>1 DEF Local, Directed
    <3> QED BY <1>3, <2>1, <2>2, <3>1, <3>2 DEF Own, Ring, Counting
  <2>3. CASE h = "sram"
    <3>1. at = "started" /\ Test = "sram" /\ Calling("sram") /\ ~Calling("start")
      BY <2>3 DEF RunInv, ProgInv, Waiting, Calling
    <3> QED BY <2>1, <2>3, <3>1 DEF Own, Ring, Counting
  <2> QED BY <2>1, <2>2, <2>3 DEF Starting
<1>5. CASE ~Issued(h, s, d)
  <2>1. Live(h, s, d) /\ d \in SessionDirs /\ act[d] = SessionArea(d)
    BY <1>1, <1>5 DEF Local, Engine
  <2>2. /\ at \in {"started", "report"} /\ ~Calling("start")
        /\ running \/ Calling("stop")
        /\ at = "started" => running
    BY <2>1 DEF Live, RunInv, ProgInv, Waiting, Using, Calling
  <2>3. sramMode <=> Test = "sram"
    BY <2>2 DEF RunInv, ProgInv, Using
  <2>4. Test \in {"dram", "sram"}
    BY <2>2 DEF RunInv, ProgInv, Waiting
  <2> QED BY <1>3, <2>1, <2>2, <2>3, <2>4 DEF Own, SessionDirs, SessionArea, Counting
<1> QED BY <1>4, <1>5

\* What has moved, step by step.
LEMMA MovedStep ==
  ASSUME TypeOK, OwnerInv, RunInv, MovedInv, [BenchNext]_allVars, ~Kill
  PROVE  MovedInv'
<1> USE DEF benchVars, ringVars, InRun
<1>1. CASE moved' = moved /\ prog' = prog /\ (at' \in InRun => at \in InRun)
  BY <1>1 DEF MovedInv, Own, Test, dma_dir
<1>2. CASE Main
  <2>1. CASE pio_setup
    BY <2>1 DEF pio_setup, Step, MovedInv
  <2>2. CASE device_setup
    <3>1. moved' = [d \in Dir |-> {}]
      BY <2>2 DEF device_setup
    <3> QED BY <3>1 DEF MovedInv
  <2>3. CASE Main /\ ~pio_setup /\ ~device_setup
    BY <1>1, <2>3 DEF Main, Direction, SetDir, Skip, Fill, StartDram, StartSram, StartBusy,
       StartFailed, RunDiag, Stop, Report, ResetDir, pio_teardown, Step
  <2> QED BY <1>2, <2>1, <2>2, <2>3
<1>3. CASE InKernel \/ Reload
  BY <1>1, <1>3 DEF InKernel, Mark, DiagSeen, Reload, BenchWaits
<1>4. ASSUME NEW d \in Dir, Transfer(d) PROVE MovedInv'
  <2>1. /\ act[d] # None /\ moved' = [moved EXCEPT ![d] = @ \cup {act[d]}]
        /\ UNCHANGED <<at, prog>>
    BY <1>4 DEF Transfer, MoveWords
  <2>2. moved' \in [Dir -> SUBSET Areas]
    BY <2>1 DEF MovedInv, TypeOK
  <2>3. at \in InRun => act[d] = Own(d)
    <3>1. CASE SingleInv
      BY <2>1, <3>1, OwnWords
    <3>2. ASSUME NEW s \in DiagSteps, Testing(s) PROVE act[d] = Own(d)
      <4>1. act[d] = Bench /\ Calling("diag")
        BY <2>1, <3>2, TestingCalls DEF Testing, Targets
      <4> QED BY <4>1 DEF RunInv, ProgInv, Waiting, Own
    <3> QED BY <3>1, <3>2 DEF RunInv, DriverInv
  <2>4. \A e : Own(e)' = Own(e)
    BY <2>1 DEF Own, Test, dma_dir
  <2> QED BY <2>1, <2>2, <2>3, <2>4 DEF MovedInv
<1>5. CASE UNCHANGED allVars
  BY <1>1, <1>5 DEF allVars
<1> QED BY <1>2, <1>3, <1>4, <1>5 DEF BenchNext

LEMMA CountTransfer ==
  ASSUME TypeOK, RunInv, MovedInv, CountInv, NEW d \in Dir, Transfer(d)
  PROVE  CountInv'
<1> USE DEF benchVars, ctlVars, drvVars
<1>1. /\ act[d] # None /\ moved' = [moved EXCEPT ![d] = @ \cup {act[d]}]
      /\ counted' = counted \/ counted' = [counted EXCEPT ![d] = @ \cup {act[d]}]
      /\ UNCHANGED <<at, prog, result, running, pc>>
  BY DEF Transfer, MoveWords, PeriodCallback
<1>2. /\ moved'[d] = moved[d] \cup {act[d]}
      /\ counted'[d] = counted[d] \/ counted'[d] = counted[d] \cup {act[d]}
      /\ \A e \in Dir \ {d} : counted'[e] = counted[e] /\ moved'[e] = moved[e]
  BY <1>1 DEF TypeOK, MovedInv
<1>3. \A g : Calling(g)' <=> Calling(g)
  BY <1>1 DEF Calling
<1>4. \A e : Own(e)' = Own(e)
  BY <1>1 DEF Own, Test, dma_dir
<1>5. (at' \notin {"none", "reset", "teardown"} => result' = "fail")
      /\ (Calling("diag")' /\ pc'[Bench][2] \notin {"termRx", "clear", "free"} => result' = "fail")
  BY <1>1, <1>3 DEF CountInv
<1>6. CASE SingleInv /\ at \in InRun
  <2>1. /\ act[d] = Own(d)
        /\ Test = "dram" => d \in DirsOf(dma_dir)
        /\ Counting /\ at \in {"started", "report"}
        /\ Calling("start") => pc[Bench][2] \in Late
    BY <1>1, <1>6, OwnWords
  <2>2. OwnOnly'
    BY <1>1, <1>2, <1>4, <2>1 DEF CountInv, OwnOnly, Test, dma_dir
  <2>3. Late \cap Early = {}
    BY DEF Late, Early
  <2>4. ~(Calling("start")' /\ pc'[Bench][2] \in Early)
    BY <1>1, <1>3, <2>1, <2>3
  <2>5. Moved => Moved'
    <3>1. CASE d = "rx"
      BY <1>2, <3>1 DEF Moved
    <3>2. CASE d = "tx"
      <4>1. ring' = ring
        BY <3>2 DEF Transfer
      <4>2. moved'["rx"] = moved["rx"]
        BY <1>2, <3>2, Names
      <4> QED BY <1>1, <4>1, <4>2 DEF Moved, Test, dma_dir
    <3> QED BY <3>1, <3>2, Names
  <2>6. (at' = "report" \/ (at' = "started" /\ (running' \/ Calling("start")'))) => Moved'
    BY <1>1, <1>3, <2>5 DEF CountInv
  <2> QED BY <1>1, <1>5, <2>1, <2>2, <2>4, <2>6, CountParts
<1>7. CASE SingleInv /\ at \notin InRun
  <2>1. ~Calling("start") /\ ~Calling("sram") /\ ~Calling("diag")
    BY <1>7 DEF RunInv, ProgInv, Waiting, InRun
  <2>2. ~Counting'
    BY <1>1, <1>3, <1>7, <2>1 DEF Counting, InRun
  <2> QED BY <1>1, <1>3, <1>5, <1>7, <2>1, <2>2, CountParts DEF InRun
<1>8. ASSUME NEW s \in DiagSteps, Testing(s) PROVE CountInv'
  <2>1. act[d] = Bench /\ Calling("diag")
    BY <1>1, <1>8, TestingCalls DEF Testing, Targets
  <2>2. at = "reset" /\ Test = "diag" /\ ~Calling("start") /\ ~Calling("sram")
    BY <2>1 DEF RunInv, ProgInv, Waiting, Calling
  <2>3. \A e : Own(e) = Bench
    BY <2>2 DEF Own
  <2>4. Counting' => Counting
    BY <1>1, <1>3, <2>1, <2>2 DEF Counting
  <2>5. OwnOnly => OwnOnly'
    BY <1>1, <1>2, <1>4, <2>1, <2>2, <2>3 DEF OwnOnly, Test
  <2>6. ASSUME result' = "pass" PROVE Honest'
    <3>1. DirsOf(dma_dir)' = DirsOf(dma_dir) /\ DirsOf(dma_dir) \subseteq Dir
      BY <1>1, DirsOfType DEF RunInv, ProgInv, Waiting, dma_dir
    <3>2. \A e \in DirsOf(dma_dir) : moved[e] = {Bench} /\ counted[e] \subseteq {Bench}
      BY <1>1, <2>2, <2>3, <2>6 DEF CountInv, Honest
    <3>3. \A e \in DirsOf(dma_dir) : moved'[e] = {Bench} /\ counted'[e] \subseteq {Bench}
      BY <1>2, <2>1, <3>1, <3>2
    <3> QED BY <1>4, <2>3, <3>1, <3>3 DEF Honest
  <2> QED BY <1>1, <1>3, <1>5, <2>2, <2>4, <2>5, <2>6, CountParts DEF CountInv
<1> QED BY <1>6, <1>7, <1>8 DEF RunInv, DriverInv

LEMMA CountStep ==
  ASSUME TypeOK, OwnerInv, RunInv, MovedInv, CountInv, [BenchNext]_allVars, ~Kill
  PROVE  CountInv'
<1>1. CASE Main \/ InKernel
  BY <1>1, CountMain, CountKernel
<1>2. CASE Reload
  <2>1. /\ at \notin {"dir", "test", "start", "started", "report", "reset"}
        /\ pc'[Bench] = Idle
    BY <1>2, ReloadOutside DEF RunInv
  <2>2. at' = at /\ result' = result
    BY <1>2 DEF Reload, BenchWaits, benchVars
  <2>3. ~Calling("start")' /\ ~Calling("sram")' /\ ~Calling("diag")'
    BY <2>1, IdleParts DEF Calling
  <2>4. ~Counting'
    BY <2>1, <2>2, <2>3 DEF Counting
  <2> QED BY <2>1, <2>2, <2>3, <2>4, CountParts DEF CountInv
<1>3. ASSUME NEW d \in Dir, Transfer(d) PROVE CountInv'
  BY <1>3, CountTransfer
<1>4. CASE UNCHANGED allVars
  BY <1>4 DEF allVars, vars, drvVars, hwVars, ctlVars, benchVars, ringVars, CountInv, Counting,
     Calling, OwnOnly, Own, Moved, Honest, Test, dma_dir
<1> QED BY <1>1, <1>2, <1>3, <1>4 DEF BenchNext

\* Kills are counted.
KillInv == kills \in Nat /\ (kills = 0 => RunInv /\ MovedInv /\ CountInv)

BenchInv == TypeOK /\ PrivateInv /\ OwnerInv /\ KillInv

LEMMA BenchStart ==
  ASSUME BenchInit
  PROVE  BenchInv
<1>1. TypeOK
  BY DEF BenchInit, Init, TypeOK, Mode, Labels
<1>2. PrivateInv
  <2>1. \A d \in Dir : Targets(d) = {}
    BY DEF BenchInit, Init, Targets
  <2>2. \A p \in Callers : pc[p] = Idle /\ Idle \notin Tests \X BufferSteps
    BY NotTest DEF BenchInit, Init, Procs, BufferSteps
  <2> QED BY <2>1, <2>2 DEF PrivateInv, Held
<1>3. pc[Bench] = Idle /\ pc[Rmmod] = Idle
  BY Two DEF BenchInit, Init
<1>4. OwnerInv
  BY <1>3, IdleParts DEF BenchInit, Init, OwnerInv
<1>5. SingleInv
  BY SingleInit DEF BenchInit
<1>6. ProgInv
  BY <1>3, IdleParts DEF BenchInit, Init, ProgInv, Waiting, Using, Calling
<1>7. CountInv
  <2>1. /\ at = "none" /\ result = "fail"
        /\ ~Calling("start") /\ ~Calling("sram") /\ ~Calling("diag")
    BY <1>3, IdleParts DEF BenchInit, Calling
  <2> QED BY <2>1 DEF CountInv, Counting
<1>8. MovedInv
  BY DEF BenchInit, MovedInv, InRun
<1> QED BY <1>1, <1>2, <1>4, <1>5, <1>6, <1>7, <1>8
    DEF BenchInv, KillInv, RunInv, DriverInv, BenchInit

LEMMA BenchStep ==
  ASSUME BenchInv, ServedOnly, [BenchNext]_allVars
  PROVE  BenchInv'
<1> USE DEF BenchInv
<1>1. TypeOK' /\ PrivateInv' /\ OwnerInv'
  BY BenchType, PrivateStep, OwnerStep
<1>2. KillInv'
  <2>1. CASE Kill
    BY <2>1 DEF Kill, KillInv
  <2>2. CASE ~Kill
    <3>1. kills' = kills
      BY <2>2 DEF BenchNext, Main, InKernel, Reload, Transfer, BenchWaits, benchVars, allVars,
         pio_setup, device_setup, Direction, SetDir, Skip, Fill, StartDram, StartSram, StartBusy,
         StartFailed, RunDiag, Stop, Report, ResetDir, pio_teardown, Mark, DiagSeen
    <3> QED BY <1>1, <2>2, <3>1, RunStep, MovedStep, CountStep DEF KillInv
  <2> QED BY <2>1, <2>2
<1> QED BY <1>1, <1>2

LEMMA Clean ==
  ASSUME BenchInv, "disable" \notin Faults
  PROVE  ReturnsClean
<1> SUFFICES ASSUME kills = 0, at = "none", loaded, Quiet
             PROVE  /\ ~running /\ dirMode = "both"
                    /\ \A d \in Dir : Targets(d) = {} /\ ~dreq[d]
  BY DEF ReturnsClean
<1>1. DriverInv /\ ProgInv
  BY DEF BenchInv, KillInv, RunInv
<1>2. pc[Bench] = Idle
  BY Two DEF Quiet
<1>3. ~running /\ dirMode = "both" /\ \A d \in Dir : ~dreq[d]
  BY <1>1, <1>2, IdleParts DEF ProgInv, Using, Calling
<1>4. Local("idle", "", {})
  BY <1>1, <1>2, DriverSingle, Resting, IdleParts DEF Calling
<1>5. \A d \in Dir : Targets(d) = {}
  BY <1>3, <1>4 DEF Local, Engine, Targets, Issued, Submitted, Live, Starting
<1> QED BY <1>3, <1>5

\* Without an SRAM test in one direction, for every number of runs and every choice
\* of failing calls but one: a run that was not killed hands the driver on as it
\* found it, whatever failed in it.  The one is switching DREQ off, whose result
\* nobody looks at.
THEOREM HandsOnClean ==
  ASSUME ServedOnly, "disable" \notin Faults
  PROVE  BenchSpec => []ReturnsClean
<1>1. BenchInit => BenchInv
  BY BenchStart
<1>2. BenchInv /\ [BenchNext]_allVars => BenchInv'
  BY BenchStep
<1>3. BenchInv => ReturnsClean
  BY Clean
<1> QED BY <1>1, <1>2, <1>3, PTL DEF BenchSpec

\* Without an SRAM test in one direction and whatever fails: PASS is only printed
\* when words of the run's own rings moved in each direction the command line asked
\* for, and no others; STOP may hit any point of a period.
THEOREM HonestPasses ==
  ASSUME ServedOnly
  PROVE  BenchSpec => []HonestPass
<1>1. BenchInit => BenchInv
  BY BenchStart
<1>2. BenchInv /\ [BenchNext]_allVars => BenchInv'
  BY BenchStep
<1>3. BenchInv => HonestPass
  BY DEF BenchInv, KillInv, CountInv, Honest, HonestPass
<1> QED BY <1>1, <1>2, <1>3, PTL DEF BenchSpec

=============================================================================
