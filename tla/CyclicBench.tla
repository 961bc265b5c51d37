---------------------------- MODULE CyclicBench ----------------------------
(***************************************************************************)
(* The program throughput_pioloop_cyclic on top of the driver: one run     *)
(* after the other of its DRAM, SRAM and diagnostic tests, with rmmod and  *)
(* insmod between them.  Each ioctl of the program is the whole handler of *)
(* Rp1PioSram, step by step; the program has no signal handler, so a run   *)
(* may be killed between any two of its steps, and closing the device      *)
(* stops nothing.                                                          *)
(*                                                                         *)
(* Words move before a period is complete, and a STOP may hit any point of *)
(* one: what the counters count and what has moved are kept apart.  The    *)
(* words themselves are in RingLoopback.                                   *)
(***************************************************************************)
EXTENDS Rp1PioSram, Naturals

CONSTANTS
  Bench,     \* the process
  Programs,  \* test and direction the command line can select
  MaxRuns,   \* bound on the runs
  MaxKills   \* bound on the killed ones

ASSUME BenchAssumption ==
  /\ Callers = {Bench} /\ Programs \subseteq {"dram", "sram", "diag"} \X Mode
  /\ MaxRuns \in Nat /\ MaxKills \in Nat

VARIABLES
  at,        \* the next step of the run, none between runs
  prog,      \* its test and direction (use_sram, diag_only and dma_dir)
  sm,        \* the program state machine 0 executes
  ring,      \* what the RX half of the DRAM buffer holds, be it a torn period
  sramRing,  \* and the RX ring in SRAM
  result,    \* of the run
  run,       \* runs so far
  kills,     \* those killed
  owner,     \* ghost: the run that started the session
  moved      \* ghost: per direction, the areas words moved in or out of since
             \* the run opened the device

ringVars  == <<ring, sramRing, moved>>
benchVars == <<at, prog, result, run, kills, owner>>
allVars   == <<vars, benchVars, ringVars, sm>>

Test    == prog[1]
dma_dir == prog[2]

\* The program takes a step: it is not inside an ioctl.
Step(from, to) == at = from /\ pc[Bench] = Idle /\ at' = to

-----------------------------------------------------------------------------
(* The state machine and the rings.                                        *)

Loaded(d) == CASE d = "both" -> "loopback" [] d = "rx" -> "rx_gen" [] d = "tx" -> "tx_con"

\* TX fills the FIFO whatever the state machine does; RX takes what the program
\* generates, or what TX put in since the FIFOs were cleared.
Reaches(d) == d = "tx" \/ sm = "rx_gen" \/ (sm # "tx_con" /\ dirty)

\* A FIFO holds far less than a period, so a loopback completes periods only while
\* both channels move words; the other two programs serve one direction.
Flows(d) ==
  \/ sm = "loopback" /\ \A e \in Dir : act[e] # None /\ dreq[e]
  \/ sm = "rx_gen" /\ d = "rx"
  \/ sm = "tx_con" /\ d = "tx"

\* Some words of a period, and perhaps its last.  In the whole buffer they may or
\* may not lie in its RX half; in an RX ring they are the first of a period.
Transfer(d) ==
  /\ Reaches(d) /\ MoveWords(d)
  /\ (Flows(d) /\ PeriodCallback(d)) \/ UNCHANGED counted
  /\ moved' = [moved EXCEPT ![d] = @ \cup {act[d]}]
  /\ LET w == IF sm = "rx_gen" THEN "zeros" ELSE "data"
     IN  /\ ring' \in CASE d = "rx" /\ act[d] = "dramRx"  -> {w}
                        [] d = "rx" /\ act[d] = "dramAll" -> {ring, w}
                        [] OTHER                          -> {ring}
         /\ sramRing' = IF act[d] = "sramRx" THEN w ELSE sramRing
  /\ UNCHANGED <<benchVars, sm>>

-----------------------------------------------------------------------------
(* The run.                                                                *)

\* Claims a state machine (the only user gets number 0) and initialises it.
pio_setup ==
  /\ Step("none", "open") /\ run < MaxRuns
  /\ prog' \in Programs
  /\ sm' = Loaded(prog'[2])
  /\ ClearFifos
  /\ result' = "fail" /\ run' = run + 1
  /\ UNCHANGED <<drvVars, memVars, dreq, act, queue, counted, ctlVars, ringVars, kills, owner>>

device_setup ==
  /\ Step("open", IF loaded /\ pc[Rmmod] = Idle THEN "dir" ELSE "teardown")
  /\ moved' = [d \in Dir |-> {}]
  /\ UNCHANGED <<vars, ring, sramRing, sm, prog, result, run, kills, owner>>

\* SRAM_IOC_SET_DMA_DIR d; -EBUSY when a session runs.
SetDir(d, from, to, busy) ==
  \/ /\ Step(from, to) /\ SetDirCheck(Bench) /\ pc'[Bench] = <<"setdir", d>>
     /\ UNCHANGED <<ringVars, sm, prog, result, run, kills, owner>>
  \/ /\ running /\ Step(from, busy)
     /\ UNCHANGED <<vars, ringVars, sm, prog, result, run, kills, owner>>

Skip(from, to) ==
  Step(from, to) /\ UNCHANGED <<vars, ringVars, sm, prog, result, run, kills, owner>>

\* The default direction is not set: whatever the driver has is used.
Direction == IF dma_dir = "both" THEN Skip("dir", "test")
                                 ELSE SetDir(dma_dir, "dir", "test", "teardown")

\* test_dma_loopback fills the TX ring and clears the RX ring.
Fill ==
  /\ Test = "dram" /\ Step("test", "start")
  /\ ring' = IF dma_dir # "tx" THEN "cleared" ELSE ring
  /\ UNCHANGED <<vars, sramRing, moved, sm, prog, result, run, kills, owner>>

StartDram ==
  /\ Step("start", "started") /\ StartEntry(Bench)
  /\ UNCHANGED <<ringVars, sm, prog, result, run, kills, owner>>

\* The driver fills the rings of an SRAM session.
StartSram ==
  /\ Test = "sram" /\ Step("test", "started") /\ SramEntry(Bench)
  /\ sramRing' = "cleared"
  /\ UNCHANGED <<ring, moved, sm, prog, result, run, kills, owner>>

\* Mutant: a START that fails is stopped all the same.
StartBusy_goOn ==
  /\ running
  /\ Step("start", "started") \/ (Test = "sram" /\ Step("test", "started"))
  /\ UNCHANGED <<vars, ringVars, sm, prog, result, run, kills, owner>>

StartBusy ==
  /\ running
  /\ Step("start", "reset") \/ (Test = "sram" /\ Step("test", "reset"))
  /\ UNCHANGED <<vars, ringVars, sm, prog, result, run, kills, owner>>

StartFailed ==
  /\ ~running /\ Step("started", "reset")
  /\ UNCHANGED <<vars, ringVars, sm, prog, result, run, kills, owner>>

RunDiag ==
  /\ Test = "diag" /\ Step("test", "reset") /\ DiagEntry(Bench)
  /\ UNCHANGED <<ringVars, sm, prog, result, run, kills, owner>>

\* Mutant: waits for data instead of sleeping.
Stop_onData ==
  /\ Step("started", "report") /\ counted # [d \in Dir |-> {}] /\ StopEntry(Bench)
  /\ UNCHANGED <<ringVars, sm, prog, result, run, kills, owner>>

\* usleep, then SRAM_IOC_STOP_DMA.
Stop ==
  /\ Step("started", "report") /\ StopEntry(Bench)
  /\ UNCHANGED <<ringVars, sm, prog, result, run, kills, owner>>

Bytes(d) == counted[d] # {}

\* SRAM_IOC_DMA_STATUS and the verdict of the test.  An SRAM session without
\* verification data has no errors either.  A DRAM test in both directions accepts
\* clean periods and, without a bad one, torn periods: one word is enough.  It
\* looks at the bytes counted for TX, not for RX.  A word that comes back wrong,
\* which fails the run, is not modelled.
Passed ==
  \/ /\ Test = "sram" /\ Bytes("tx") /\ Bytes("rx")
     /\ verify = "checked" => sramRing = "data"
  \/ Test = "dram" /\ dma_dir = "both" /\ Bytes("tx") /\ ring = "data"
  \/ Test = "dram" /\ dma_dir = "tx" /\ (Bytes("tx") \/ Bytes("rx"))
  \/ Test = "dram" /\ dma_dir = "rx" /\ (Bytes("tx") \/ Bytes("rx")) /\ ring # "cleared"

Report ==
  /\ Step("report", "reset")
  /\ result' = IF Passed THEN "pass" ELSE "fail"
  /\ UNCHANGED <<vars, ringVars, sm, prog, run, kills, owner>>

\* Mutant: the direction stays set.
ResetDir_skip == Skip("reset", "teardown")

\* The result of the last SET_DMA_DIR is not looked at.
ResetDir == IF dma_dir = "both" THEN Skip("reset", "teardown")
                                ELSE SetDir("both", "reset", "teardown", "teardown")

\* DMACTRL of both directions to zero, FIFOs cleared, state machine released; no
\* result is looked at.
pio_teardown ==
  /\ Step("teardown", "none")
  /\ \E stuck \in SUBSET (IF "disable" \in Faults THEN Dir ELSE {}) :
       dreq' = [d \in Dir |-> d \in stuck /\ dreq[d]]
  /\ ClearFifos \/ ("clear" \in Faults /\ UNCHANGED dirty)
  /\ sm' = "none"
  /\ UNCHANGED <<drvVars, memVars, act, queue, counted, ctlVars, ringVars,
                 prog, result, run, kills, owner>>

\* Killed: the kernel closes the files, which may or may not stop the state
\* machine; the driver's release does nothing.
Kill ==
  /\ at # "none" /\ pc[Bench] = Idle /\ kills < MaxKills
  /\ at' = "none" /\ kills' = kills + 1
  /\ sm' \in {sm, "none"}
  /\ UNCHANGED <<vars, ringVars, prog, result, run, owner>>

Main ==
  \/ pio_setup \/ device_setup \/ Direction
  \/ Fill \/ StartDram \/ StartSram \/ StartBusy \/ StartFailed \/ RunDiag
  \/ Stop \/ Report \/ ResetDir \/ pio_teardown

-----------------------------------------------------------------------------
(* The driver, inside an ioctl or in rmmod.                                *)

BenchWaits == UNCHANGED <<benchVars, ringVars, sm>>

Mark ==
  /\ StartMark(Bench) \/ SramMark(Bench)
  /\ owner' = run
  /\ UNCHANGED <<at, prog, result, run, kills, ringVars, sm>>

\* The diagnostic has read the counters and is about to look at its buffer, which
\* is right or not; the RX counter is not looked at.
DiagSeen ==
  /\ TestTerminate(Bench, "diag", "tx", "termTx", "termRx")
  /\ result' \in {"fail"} \cup IF Bytes("tx") /\ Bench \in moved["rx"] THEN {"pass"} ELSE {}
  /\ UNCHANGED <<at, prog, run, kills, owner, ringVars, sm>>

Handler ==
  \/ BringUp(Bench, "start", "mark") \/ BringUp(Bench, "sram", "mark") \/ SramUnmap(Bench)
  \/ BringUp(Bench, "diag", "termTx")
  \/ TestTerminate(Bench, "diag", "rx", "termRx", "clear")
  \/ TestClear(Bench, "diag", "free") \/ TestFree(Bench, "diag")
  \/ SetDirWrite(Bench) \/ StopSteps(Bench)

InKernel ==
  \/ Handler /\ BenchWaits
  \/ Mark
  \/ DiagSeen

\* The module cannot be removed while the program has the device open.
Reload ==
  /\ \/ at \in {"none", "open"} /\ ExitEntry
     \/ StopSteps(Rmmod) \/ ExitFree \/ ExitRelease \/ ExitClose
     \/ rp1_pio_sram_init
  /\ BenchWaits

BenchInit ==
  /\ Init
  /\ at = "none" /\ prog \in Programs /\ sm = "none" /\ result = "fail"
  /\ ring = "cleared" /\ sramRing = "cleared"
  /\ run = 0 /\ kills = 0 /\ owner = 0 /\ moved = [d \in Dir |-> {}]

BenchNext == Main \/ InKernel \/ Kill \/ Reload \/ \E d \in Dir : Transfer(d)

\* The program and the kernel go on; nobody has to reload the module or kill.
BenchSpec ==
  /\ BenchInit /\ [][BenchNext]_allVars
  /\ WF_allVars(Main) /\ WF_allVars(InKernel)

-----------------------------------------------------------------------------
(* Properties.                                                             *)

\* The ring a run of this program is about.
Own(d) ==
  CASE Test = "sram" -> IF d = "tx" THEN "sramTx" ELSE "sramRx"
    [] Test = "diag" -> Bench
    [] OTHER -> IF dma_dir # "both" THEN "dramAll"
                ELSE IF d = "tx" THEN "dramTx" ELSE "dramRx"

\* PASS is only printed for the transfer the command line asked for: in each of its
\* directions the channel moved words of the run's own ring, it moved and counted
\* nothing else, and nothing an earlier run left in a ring, a counter or a channel
\* stands in for them.  It does not promise a period counted in RX: a STOP inside
\* the first RX period passes on torn periods.
HonestPass ==
  kills = 0 /\ at = "reset" /\ pc[Bench] = Idle /\ result = "pass" =>
    \A d \in DirsOf(dma_dir) : moved[d] = {Own(d)} /\ counted[d] \subseteq {Own(d)}

\* Every run that was not killed, whatever failed in it, leaves the driver to
\* the next one as it found it: no session, no channel at work, default
\* direction and DREQ off, also where the driver's own error path leaves it on.
ReturnsClean ==
  kills = 0 /\ at = "none" /\ loaded /\ Quiet =>
    /\ ~running /\ dirMode = "both"
    /\ \A d \in Dir : Targets(d) = {} /\ ~dreq[d]

\* A session a killed run left behind is never stopped by a later run, which
\* gets -EBUSY instead: only the run that started it or rmmod ends a session.
OnlyOwnerStops ==
  [][running /\ ~running' => owner = run \/ pc[Rmmod] # Idle]_allVars

\* Every run ends, whatever calls fail and whether or not data flows.
RunEnds == (at # "none") ~> (at = "none")

\* A DRAM test that passed moved words of the DRAM rings (its report says "DRAM
\* (host, via PCIe)").
DramIsDram ==
  kills = 0 /\ at = "reset" /\ pc[Bench] = Idle /\ Test = "dram" /\ result = "pass" =>
    \A d \in Dir : counted[d] \subseteq RingAreas

=============================================================================
