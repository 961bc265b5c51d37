----------------------------- MODULE Rp1PioSram -----------------------------
(***************************************************************************)
(* The kernel module rp1_pio_sram.c: cyclic DMA between ring buffers and   *)
(* the FIFOs of PIO state machine 0, started and stopped by ioctls on      *)
(* /dev/rp1_pio_sram.                                                      *)
(*                                                                         *)
(* The driver takes no lock and registers .unlocked_ioctl, so handlers of  *)
(* different processes interleave.  A handler is a sequence of steps; a    *)
(* step boundary stands wherever the C code makes a call that may sleep    *)
(* (firmware RPC, dmaengine call, msleep) or touches a shared global after *)
(* having decided something from another one.  With one element in         *)
(* Callers the handlers run one after the other, which is how the          *)
(* benchmark program uses the device.                                      *)
(***************************************************************************)
EXTENDS FiniteSets

CONSTANTS
  Callers,  \* processes that issue ioctls
  Rmmod,    \* the process that unloads the module
  MapIds,   \* identities ioremap can hand out (a bound on live mappings)
  Calls,    \* what happens in this instance: ioctls, directions, exit, irq
  Faults    \* the calls that may fail in this instance

Dir  == {"tx", "rx"}
Mode == {"both", "tx", "rx"}
None == "none"

RingAreas == {"dramTx", "dramRx", "dramAll"}
SramAreas == {"sramTx", "sramRx", "scratch"}

CallNames  == {"start", "sram", "stop", "diag", "probe", "exit", "irq", "bad"} \cup Mode
FaultNames == {"config", "open", "enable", "disable", "prep", "submit", "clear", "alloc"}

ASSUME ProcsAssumption ==
  /\ Callers # {} /\ Rmmod \notin Callers
  /\ Callers \cap (RingAreas \cup SramAreas \cup {None, "ring"}) = {}
ASSUME MapAssumption  == None \notin MapIds
ASSUME CallAssumption == Calls \subseteq CallNames /\ Faults \subseteq FaultNames

VARIABLES
  loaded,     \* the module is inserted
  running,    \* dma_running
  dirMode,    \* dma_dir_mode
  sramMode,   \* sram_dma_mode
  sramIo,     \* sram_io, a mapping identity or None for NULL
  client,     \* pio_client: NULL, an ERR_PTR, or an open handle
  verify,     \* last_verify_total: still 0, or set by a check of the RX ring
  allocated,  \* DMA memory that exists: "ring" (dma_buf), a caller's own buffers
  maps,       \* ioremap mappings that exist
  scratch,    \* SRAM test region of the probe: original or overwritten
  dreq,       \* per direction, DREQ enabled in the PIO DMACTRL register
  act,        \* per direction, the area the channel transfers, or None
  queue,      \* per direction, areas of submitted descriptors not yet started
  counted,    \* per direction, areas counted in tx/rx_period_count since reset
  dirty,      \* words moved since the FIFOs were last cleared
  pc,         \* per process, the handler it is in and the next step
  do          \* per process, the directions its handler works on

drvVars == <<loaded, running, dirMode, sramMode, sramIo, client, verify>>
memVars == <<allocated, maps, scratch>>
dmaVars == <<act, queue>>
hwVars  == <<dreq, act, queue, counted, dirty>>
ctlVars == <<pc, do>>
vars    == <<drvVars, memVars, hwVars, ctlVars>>

Procs == Callers \cup {Rmmod}
Idle  == <<"idle", "">>
Quiet == \A p \in Procs : pc[p] = Idle

Handlers == {"start", "sram", "diag", "probe", "control", "stop", "setdir", "exit"}
Steps    == {"open", "noclient", "dreqTx", "dreqRx", "prep", "subTx", "subRx",
             "issTx", "issRx", "mark", "unmap", "alloc", "termTx", "termRx",
             "clear", "verify", "restore", "free", "release", "close"} \cup Mode

-----------------------------------------------------------------------------
(* The program counter.                                                    *)

At(p, h, s)   == pc[p] = <<h, s>>
Goto(p, h, s) == pc' = [pc EXCEPT ![p] = <<h, s>>] /\ UNCHANGED do
Return(p)     == pc' = [pc EXCEPT ![p] = Idle] /\ do' = [do EXCEPT ![p] = {}]

\* An ioctl enters its handler: the module stays while the descriptor is open.
Enter(p, call, h, s, dirs) ==
  /\ call \in Calls /\ loaded
  /\ p \in Callers /\ pc[p] = Idle /\ pc[Rmmod] = Idle
  /\ pc' = [pc EXCEPT ![p] = <<h, s>>]
  /\ do' = [do EXCEPT ![p] = dirs]

\* do_tx and do_rx, and the direction tests of the stop path.
DirsOf(mode) == IF mode = "both" THEN Dir ELSE {mode}

-----------------------------------------------------------------------------
(* What the driver uses of the PIO firmware and of the dmaengine API.      *)

\* pio_sm_set_dmactrl: when the RPC fails the register keeps its value.
SetDmactrl(d, on) == dreq' = [dreq EXCEPT ![d] = on]

\* pio_sm_clear_fifos
ClearFifos == dirty' = FALSE

\* dmaengine_prep_dma_cyclic + dmaengine_submit
Submit(d, area) == queue' = [queue EXCEPT ![d] = @ \cup {area}] /\ UNCHANGED act

\* dma_async_issue_pending: a busy channel keeps its cyclic descriptor, which
\* never completes; an idle one starts a submitted descriptor.
IssuePending(d) ==
  IF act[d] # None \/ queue[d] = {}
  THEN UNCHANGED dmaVars
  ELSE \E a \in queue[d] : /\ act' = [act EXCEPT ![d] = a]
                           /\ queue' = [queue EXCEPT ![d] = @ \ {a}]

\* dmaengine_terminate_sync: drops the running and all submitted descriptors.
Terminate(d) == /\ act' = [act EXCEPT ![d] = None]
                /\ queue' = [queue EXCEPT ![d] = {}]

TerminateIf(cond, d) == IF cond THEN Terminate(d) ELSE UNCHANGED dmaVars

\* The channel moves words between its area and the FIFO, which needs a running
\* descriptor and DREQ.
MoveWords(d) ==
  /\ "irq" \in Calls
  /\ act[d] # None /\ dreq[d]
  /\ dirty' = TRUE
  /\ UNCHANGED <<drvVars, memVars, dreq, act, queue, ctlVars>>

\* tx_dma_callback and rx_dma_callback: they complete a period.
PeriodCallback(d) == counted' = [counted EXCEPT ![d] = @ \cup {act[d]}]

\* A channel may be stopped inside a period.
Words(d) == MoveWords(d) /\ (PeriodCallback(d) \/ UNCHANGED counted)

-----------------------------------------------------------------------------
(* Bring-up, the sequence start_cyclic_dma, start_sram_dma, dma_diag_test  *)
(* and sram_addr_probe have in common.  They differ in the memory they     *)
(* name, in which results they look at and in where a failure goes.        *)

Checked(h) == h \in {"start", "sram"}

\* The area a descriptor of handler h covers: ring halves when both
\* directions run, the whole buffer for one; the caller's own buffers in the
\* two self tests.
Area(h, p, d) ==
  CASE h = "start" -> IF do[p] = Dir THEN (IF d = "tx" THEN "dramTx" ELSE "dramRx")
                                     ELSE "dramAll"
    [] h = "sram"  -> IF d = "tx" THEN "sramTx" ELSE "sramRx"
    [] h = "probe" -> IF d = "tx" THEN "scratch" ELSE p
    [] h \in {"diag", "control"} -> p

\* Mutant: return instead of goto err_unmap.
Fail_noUnmap(p, h) ==
  IF Checked(h) THEN Return(p) ELSE Goto(p, h, "free")

\* Early return: nothing to undo, err_unmap, or out.
Fail(p, h) ==
  IF h = "start" THEN Return(p)
                 ELSE Goto(p, h, IF h = "sram" THEN "unmap" ELSE "free")

\* dmaengine_slave_config, whose result only the two START handlers look at;
\* then if (!pio_client) pio_client = rp1_pio_open(): the global holds the
\* ERR_PTR until the next statement resets it.
OpenClient(p, h) ==
  /\ At(p, h, "open")
  /\ \/ client # "null" /\ Goto(p, h, "dreqTx") /\ UNCHANGED client
     \/ client = "null" /\ client' = "open" /\ Goto(p, h, "dreqTx")
     \/ client = "null" /\ "open" \in Faults /\ client' = "err" /\ Goto(p, h, "noclient")
     \/ Checked(h) /\ "config" \in Faults /\ Fail(p, h) /\ UNCHANGED client
  /\ UNCHANGED <<loaded, running, dirMode, sramMode, sramIo, verify, memVars, hwVars>>

NoClient(p, h) ==
  /\ At(p, h, "noclient")
  /\ client' = "null"
  /\ Fail(p, h)
  /\ UNCHANGED <<loaded, running, dirMode, sramMode, sramIo, verify, memVars, hwVars>>

EnableDreq(p, h, d, s, next) ==
  /\ At(p, h, s)
  /\ \/ d \notin do[p] /\ Goto(p, h, next) /\ UNCHANGED dreq
     \/ d \in do[p] /\ SetDmactrl(d, TRUE) /\ Goto(p, h, next)
     \/ /\ d \in do[p] /\ "enable" \in Faults
        /\ IF Checked(h) THEN Fail(p, h) ELSE Goto(p, h, next)
        /\ UNCHANGED dreq
  /\ UNCHANGED <<drvVars, memVars, act, queue, counted, dirty>>

\* Mutant: the counters go on from the previous session.
PrepAndReset_noReset(p, h) ==
  /\ At(p, h, "prep")
  /\ \/ Goto(p, h, "subTx")
     \/ h # "start" /\ "prep" \in Faults /\ Fail(p, h)
  /\ UNCHANGED <<drvVars, memVars, dreq, act, queue, counted, dirty>>

\* start_cyclic_dma resets the counters before it prepares anything; the
\* others prepare both descriptors first and reset on success.
PrepAndReset(p, h) ==
  /\ At(p, h, "prep")
  /\ \/ counted' = [d \in Dir |-> {}] /\ Goto(p, h, "subTx")
     \/ h # "start" /\ "prep" \in Faults /\ Fail(p, h) /\ UNCHANGED counted
  /\ UNCHANGED <<drvVars, memVars, dreq, act, queue, dirty>>

SubmitTx(p, h) ==
  /\ At(p, h, "subTx")
  /\ \/ "tx" \notin do[p] /\ Goto(p, h, "subRx") /\ UNCHANGED dmaVars
     \/ "tx" \in do[p] /\ Submit("tx", Area(h, p, "tx")) /\ Goto(p, h, "subRx")
     \/ /\ "tx" \in do[p] /\ "submit" \in Faults
        /\ IF Checked(h) THEN Fail(p, h) ELSE Goto(p, h, "subRx")
        /\ UNCHANGED dmaVars
  /\ UNCHANGED <<drvVars, memVars, dreq, counted, dirty>>

\* A failure of the RX half terminates the TX descriptor already submitted.
SubmitRx(p, h) ==
  /\ At(p, h, "subRx")
  /\ \/ "rx" \notin do[p] /\ Goto(p, h, "issTx") /\ UNCHANGED dmaVars
     \/ "rx" \in do[p] /\ Submit("rx", Area(h, p, "rx")) /\ Goto(p, h, "issTx")
     \/ /\ "rx" \in do[p] /\ "submit" \in Faults /\ ~Checked(h)
        /\ Goto(p, h, "issTx") /\ UNCHANGED dmaVars
     \/ /\ "rx" \in do[p] /\ "submit" \in Faults /\ Checked(h)
        /\ TerminateIf("tx" \in do[p], "tx") /\ Fail(p, h)
  /\ UNCHANGED <<drvVars, memVars, dreq, counted, dirty>>

Issue(p, h, d, s, next) ==
  /\ At(p, h, s)
  /\ IF d \in do[p] THEN IssuePending(d) ELSE UNCHANGED dmaVars
  /\ Goto(p, h, next)
  /\ UNCHANGED <<drvVars, memVars, dreq, counted, dirty>>

BringUp(p, h, last) ==
  \/ OpenClient(p, h) \/ NoClient(p, h)
  \/ EnableDreq(p, h, "tx", "dreqTx", "dreqRx")
  \/ EnableDreq(p, h, "rx", "dreqRx", "prep")
  \/ PrepAndReset(p, h)
  \/ SubmitTx(p, h) \/ SubmitRx(p, h)
  \/ Issue(p, h, "tx", "issTx", "issRx")
  \/ Issue(p, h, "rx", "issRx", last)

-----------------------------------------------------------------------------
(* SRAM_IOC_START_DMA and SRAM_IOC_START_SRAM_DMA.  A call that finds      *)
(* dma_running set returns -EBUSY and changes nothing.                     *)

StartEntry(p) ==
  /\ ~running
  /\ Enter(p, "start", "start", "open", DirsOf(dirMode))
  /\ UNCHANGED <<drvVars, memVars, hwVars>>

StartMark(p) ==
  /\ At(p, "start", "mark")
  /\ running' = TRUE
  /\ Return(p)
  /\ UNCHANGED <<loaded, dirMode, sramMode, sramIo, client, verify, memVars, hwVars>>

start_cyclic_dma(p) == StartEntry(p) \/ BringUp(p, "start", "mark") \/ StartMark(p)

\* The new mapping overwrites the global sram_io whatever it held.
SramEntry(p) ==
  /\ ~running
  /\ Enter(p, "sram", "sram", "open", Dir)
  /\ \E m \in MapIds \ maps : sramIo' = m /\ maps' = maps \cup {m}
  /\ UNCHANGED <<loaded, running, dirMode, sramMode, client, verify, allocated, scratch, hwVars>>

SramMark(p) ==
  /\ At(p, "sram", "mark")
  /\ sramMode' = TRUE /\ running' = TRUE
  /\ Return(p)
  /\ UNCHANGED <<loaded, dirMode, sramIo, client, verify, memVars, hwVars>>

SramUnmap(p) ==
  /\ At(p, "sram", "unmap")
  /\ maps' = maps \ {sramIo} /\ sramIo' = None
  /\ Return(p)
  /\ UNCHANGED <<loaded, running, dirMode, sramMode, client, verify, allocated, scratch, hwVars>>

start_sram_dma(p) ==
  SramEntry(p) \/ BringUp(p, "sram", "mark") \/ SramMark(p) \/ SramUnmap(p)


-----------------------------------------------------------------------------
(* SRAM_IOC_DMA_DIAG and SRAM_IOC_PROBE_ADDR: self tests on buffers of     *)
(* their own.  Neither looks at dma_running, and neither disables DREQ     *)
(* before or after it terminates the channels.                             *)

\* Allocates the TX and RX buffer; running out of memory changes nothing.
DiagEntry(p) ==
  /\ Enter(p, "diag", "diag", "open", Dir)
  /\ allocated' = allocated \cup {p}
  /\ UNCHANGED <<drvVars, maps, scratch, hwVars>>

\* test_addr = 0: the TX buffer too is host DRAM.
ControlEntry(p) ==
  /\ Enter(p, "probe", "control", "open", Dir)
  /\ allocated' = allocated \cup {p}
  /\ UNCHANGED <<drvVars, maps, scratch, hwVars>>

\* Any other address: the pattern is written to the SRAM test region.
ProbeEntry(p) ==
  /\ Enter(p, "probe", "probe", "alloc", Dir)
  /\ scratch' = "pattern"
  /\ UNCHANGED <<drvVars, allocated, maps, hwVars>>

ProbeAlloc(p) ==
  /\ At(p, "probe", "alloc")
  /\ \/ allocated' = allocated \cup {p} /\ Goto(p, "probe", "open")
     \/ "alloc" \in Faults /\ Return(p) /\ UNCHANGED allocated
  /\ UNCHANGED <<drvVars, maps, scratch, hwVars>>

\* Mutant: only the TX channel is terminated.
TestTerminate_txOnly(p, h, d, s, next) ==
  /\ At(p, h, s)
  /\ TerminateIf(d = "tx", d)
  /\ Goto(p, h, next)
  /\ UNCHANGED <<drvVars, memVars, dreq, counted, dirty>>

TestTerminate(p, h, d, s, next) ==
  /\ At(p, h, s)
  /\ Terminate(d)
  /\ Goto(p, h, next)
  /\ UNCHANGED <<drvVars, memVars, dreq, counted, dirty>>

TestClear(p, h, next) ==
  /\ At(p, h, "clear")
  /\ \/ client # "null" /\ ClearFifos
     \/ (client = "null" \/ "clear" \in Faults) /\ UNCHANGED dirty
  /\ Goto(p, h, next)
  /\ UNCHANGED <<drvVars, memVars, dreq, act, queue, counted>>

\* 8 of the 1024 overwritten words are put back.
ProbeRestore(p) ==
  /\ At(p, "probe", "restore")
  /\ scratch' = "head"
  /\ Goto(p, "probe", "free")
  /\ UNCHANGED <<drvVars, allocated, maps, hwVars>>

TestFree(p, h) ==
  /\ At(p, h, "free")
  /\ allocated' = allocated \ {p}
  /\ Return(p)
  /\ UNCHANGED <<drvVars, maps, scratch, hwVars>>

SelfTest(p, h, afterClear) ==
  \/ BringUp(p, h, "termTx")
  \/ TestTerminate(p, h, "tx", "termTx", "termRx")
  \/ TestTerminate(p, h, "rx", "termRx", "clear")
  \/ TestClear(p, h, afterClear)
  \/ TestFree(p, h)

dma_diag_test(p) == DiagEntry(p) \/ SelfTest(p, "diag", "free")

sram_addr_probe(p) ==
  \/ ControlEntry(p) \/ SelfTest(p, "control", "free")
  \/ ProbeEntry(p) \/ ProbeAlloc(p)
  \/ SelfTest(p, "probe", "restore") \/ ProbeRestore(p)

-----------------------------------------------------------------------------
(* SRAM_IOC_STOP_DMA, also the first thing the module exit does.  do[p]    *)
(* records whether the handler found an open client.                       *)

StopBegin(p) == do' = [do EXCEPT ![p] = IF client # "null" THEN Dir ELSE {}]

StopEntry(p) ==
  /\ running /\ "stop" \in Calls /\ loaded
  /\ p \in Callers /\ pc[p] = Idle /\ pc[Rmmod] = Idle
  /\ pc' = [pc EXCEPT ![p] = <<"stop", "dreqTx">>]
  /\ StopBegin(p)
  /\ UNCHANGED <<drvVars, memVars, hwVars>>

\* Mutant: DREQ is left alone.
StopDreq_skip(p, d, s, next) ==
  /\ At(p, "stop", s)
  /\ Goto(p, "stop", next)
  /\ UNCHANGED <<drvVars, memVars, hwVars>>

\* Directions the current dma_dir_mode leaves out are not touched.
StopDreq(p, d, s, next) ==
  /\ At(p, "stop", s)
  /\ \/ d \in DirsOf(dirMode) \cap do[p] /\ SetDmactrl(d, FALSE)
     \/ /\ d \notin DirsOf(dirMode) \cap do[p] \/ "disable" \in Faults
        /\ UNCHANGED dreq
  /\ Goto(p, "stop", next)
  /\ UNCHANGED <<drvVars, memVars, act, queue, counted, dirty>>

\* Mutant: the RX channel is not terminated.
StopTerminate_txOnly(p, d, s, next) ==
  /\ At(p, "stop", s)
  /\ TerminateIf(d \in DirsOf(dirMode) /\ d = "tx", d)
  /\ Goto(p, "stop", next)
  /\ UNCHANGED <<drvVars, memVars, dreq, counted, dirty>>

StopTerminate(p, d, s, next) ==
  /\ At(p, "stop", s)
  /\ TerminateIf(d \in DirsOf(dirMode), d)
  /\ Goto(p, "stop", next)
  /\ UNCHANGED <<drvVars, memVars, dreq, counted, dirty>>

\* Mutant: the FIFOs keep their words.
StopClear_skip(p) ==
  /\ At(p, "stop", "clear")
  /\ Goto(p, "stop", "mark")
  /\ UNCHANGED <<drvVars, memVars, hwVars>>

StopClear(p) ==
  /\ At(p, "stop", "clear")
  /\ \/ client # "null" /\ ClearFifos
     \/ (client = "null" \/ "clear" \in Faults) /\ UNCHANGED dirty
  /\ Goto(p, "stop", "mark")
  /\ UNCHANGED <<drvVars, memVars, dreq, act, queue, counted>>

\* From here on a new START is accepted although the handler goes on.
StopMark(p) ==
  /\ At(p, "stop", "mark")
  /\ running' = FALSE
  /\ Goto(p, "stop", "verify")
  /\ UNCHANGED <<loaded, dirMode, sramMode, sramIo, client, verify, memVars, hwVars>>

\* The periods of an SRAM session are checked through the mapping.
StopVerify(p) ==
  /\ At(p, "stop", "verify")
  /\ verify' = IF sramMode /\ sramIo # None THEN "checked" ELSE "zero"
  /\ Goto(p, "stop", "unmap")
  /\ UNCHANGED <<loaded, running, dirMode, sramMode, sramIo, client, memVars, hwVars>>

StopUnmap(p) ==
  /\ At(p, "stop", "unmap")
  /\ IF sramMode /\ sramIo # None
     THEN maps' = maps \ {sramIo} /\ sramIo' = None
     ELSE UNCHANGED <<maps, sramIo>>
  /\ sramMode' = FALSE
  /\ IF p = Rmmod THEN Goto(p, "exit", "free") ELSE Return(p)
  /\ UNCHANGED <<loaded, running, dirMode, client, verify, allocated, scratch, hwVars>>

StopSteps(p) ==
  \/ StopDreq(p, "tx", "dreqTx", "dreqRx")
  \/ StopDreq(p, "rx", "dreqRx", "termTx")
  \/ StopTerminate(p, "tx", "termTx", "termRx")
  \/ StopTerminate(p, "rx", "termRx", "clear")
  \/ StopClear(p) \/ StopMark(p) \/ StopVerify(p) \/ StopUnmap(p)

stop_cyclic_dma(p) == StopEntry(p) \/ StopSteps(p)

-----------------------------------------------------------------------------
(* SRAM_IOC_SET_DMA_DIR: the test of dma_running comes before              *)
(* copy_from_user, the range test and the assignment after it.             *)

\* Mutant: the range test is missing.
SetDirCheck_anyValue(p) ==
  /\ ~running
  /\ \E m \in Mode \cup {"bad"} : Enter(p, m, "setdir", m, {})
  /\ UNCHANGED <<drvVars, memVars, hwVars>>

\* Mutant: no -EBUSY while a session runs.
SetDirCheck_notBusy(p) ==
  /\ \E m \in Mode \cup {"bad"} : m \in Mode /\ Enter(p, m, "setdir", m, {})
  /\ UNCHANGED <<drvVars, memVars, hwVars>>

SetDirCheck(p) ==
  /\ ~running
  /\ \E m \in Mode \cup {"bad"} : m \in Mode /\ Enter(p, m, "setdir", m, {})
  /\ UNCHANGED <<drvVars, memVars, hwVars>>

SetDirWrite(p) ==
  /\ \E m \in Mode \cup {"bad"} : At(p, "setdir", m) /\ dirMode' = m
  /\ Return(p)
  /\ UNCHANGED <<loaded, running, sramMode, sramIo, client, verify, memVars, hwVars>>

set_dma_dir(p) == SetDirCheck(p) \/ SetDirWrite(p)

-----------------------------------------------------------------------------
(* rmmod and insmod.  The module reference held by every open descriptor   *)
(* and mapping keeps rmmod away from running handlers.                     *)

\* Mutant: the module is removed without stopping DMA.
ExitEntry_noStop ==
  /\ "exit" \in Calls /\ loaded /\ Quiet
  /\ pc' = [pc EXCEPT ![Rmmod] = <<"exit", "free">>]
  /\ StopBegin(Rmmod)
  /\ UNCHANGED <<drvVars, memVars, hwVars>>

ExitEntry ==
  /\ "exit" \in Calls /\ loaded /\ Quiet
  /\ pc' = [pc EXCEPT ![Rmmod] = IF running THEN <<"stop", "dreqTx">> ELSE <<"exit", "free">>]
  /\ StopBegin(Rmmod)
  /\ UNCHANGED <<drvVars, memVars, hwVars>>

ExitFree ==
  /\ At(Rmmod, "exit", "free")
  /\ allocated' = allocated \ {"ring"}
  /\ Goto(Rmmod, "exit", "release")
  /\ UNCHANGED <<drvVars, maps, scratch, hwVars>>

\* dma_release_channel: the engine abandons whatever the channel was doing.
ExitRelease ==
  /\ At(Rmmod, "exit", "release")
  /\ act' = [d \in Dir |-> None] /\ queue' = [d \in Dir |-> {}]
  /\ Goto(Rmmod, "exit", "close")
  /\ UNCHANGED <<drvVars, memVars, dreq, counted, dirty>>

\* DREQ off in both directions, FIFOs cleared, client closed; unloaded.
ExitClose ==
  /\ At(Rmmod, "exit", "close")
  /\ IF client = "null" THEN UNCHANGED <<dreq, dirty>>
     ELSE /\ \E stuck \in SUBSET (IF "disable" \in Faults THEN Dir ELSE {}) :
               dreq' = [d \in Dir |-> d \in stuck /\ dreq[d]]
          /\ ClearFifos
  /\ client' = "null" /\ loaded' = FALSE
  /\ Return(Rmmod)
  /\ UNCHANGED <<running, dirMode, sramMode, sramIo, verify, memVars, act, queue, counted>>

rp1_pio_sram_exit == ExitEntry \/ ExitFree \/ ExitRelease \/ ExitClose

\* insmod: fresh globals; a failed init undoes what it acquired.
rp1_pio_sram_init ==
  /\ ~loaded /\ Quiet
  /\ loaded' = TRUE
  /\ running' = FALSE /\ dirMode' = "both" /\ sramMode' = FALSE
  /\ sramIo' = None /\ client' = "null" /\ verify' = "zero"
  /\ allocated' = allocated \cup {"ring"}
  /\ counted' = [d \in Dir |-> {}]
  /\ UNCHANGED <<maps, scratch, dreq, act, queue, dirty, ctlVars>>

-----------------------------------------------------------------------------

Init ==
  /\ loaded = TRUE
  /\ running = FALSE /\ dirMode = "both" /\ sramMode = FALSE
  /\ sramIo = None /\ client = "null" /\ verify = "zero"
  /\ allocated = {"ring"} /\ maps = {} /\ scratch = "original"
  /\ dreq = [d \in Dir |-> FALSE]
  /\ act = [d \in Dir |-> None] /\ queue = [d \in Dir |-> {}]
  /\ counted = [d \in Dir |-> {}] /\ dirty = FALSE
  /\ pc = [p \in Procs |-> Idle] /\ do = [p \in Procs |-> {}]

rp1_pio_sram_ioctl(p) ==
  \/ start_cyclic_dma(p) \/ start_sram_dma(p) \/ stop_cyclic_dma(p)
  \/ dma_diag_test(p) \/ sram_addr_probe(p) \/ set_dma_dir(p)

Next ==
  \/ \E p \in Callers : rp1_pio_sram_ioctl(p)
  \/ StopSteps(Rmmod) \/ rp1_pio_sram_exit \/ rp1_pio_sram_init
  \/ \E d \in Dir : Words(d)

Spec == Init /\ [][Next]_vars

-----------------------------------------------------------------------------
(* Properties.                                                             *)

Areas  == RingAreas \cup SramAreas \cup Callers
Labels == {Idle} \cup (Handlers \X Steps)

\* Every variable keeps to its C type; in particular dma_dir_mode only ever
\* holds one of the three directions user space may set.
TypeOK ==
  /\ loaded \in BOOLEAN /\ running \in BOOLEAN /\ sramMode \in BOOLEAN
  /\ dirMode \in Mode
  /\ sramIo \in MapIds \cup {None}
  /\ client \in {"null", "err", "open"}
  /\ verify \in {"zero", "checked"}
  /\ allocated \subseteq {"ring"} \cup Callers
  /\ maps \subseteq MapIds
  /\ scratch \in {"original", "pattern", "head"}
  /\ dreq \in [Dir -> BOOLEAN]
  /\ act \in [Dir -> Areas \cup {None}]
  /\ queue \in [Dir -> SUBSET Areas]
  /\ counted \in [Dir -> SUBSET Areas]
  /\ dirty \in BOOLEAN
  /\ pc \in [Procs -> Labels]
  /\ do \in [Procs -> SUBSET Dir]

\* What the engine transfers in direction d, or will without another submit.
Targets(d) == queue[d] \cup ({act[d]} \ {None})

\* The buffers dma_diag_test and sram_addr_probe free on return are never
\* left as the target of a channel, however the unlocked handlers interleave.
PrivateBufferSafe == \A d \in Dir : Targets(d) \cap Callers \subseteq allocated

\* free_dma_buffer (module exit) never frees the ring buffer under a channel
\* that still transfers into or out of it.
RingBufferSafe ==
  \A d \in Dir : Targets(d) \cap RingAreas # {} => "ring" \in allocated

SessionDirs == IF sramMode THEN Dir ELSE DirsOf(dirMode)
SessionArea(d) ==
  IF sramMode THEN (IF d = "tx" THEN "sramTx" ELSE "sramRx")
  ELSE IF dirMode # "both" THEN "dramAll"
  ELSE IF d = "tx" THEN "dramTx" ELSE "dramRx"

\* Between two calls the channels and the SRAM mapping are those of the open
\* session: each of its directions transfers its own ring with DREQ enabled and
\* nothing queued behind, no other channel has a descriptor, and sram_io is mapped
\* only by an SRAM session.  So after STOP and after every failed START neither
\* channel has a descriptor and nothing is mapped.  DREQ without a session is not
\* claimed (a START that fails after enabling it leaves it on), and a self test
\* during a session takes its channels away, whoever calls it.
ResourcesMatchSession ==
  loaded /\ Quiet =>
    /\ maps = IF running /\ sramMode THEN {sramIo} ELSE {}
    /\ \A d \in Dir :
         IF running /\ d \in SessionDirs
         THEN act[d] = SessionArea(d) /\ queue[d] = {} /\ dreq[d]
         ELSE Targets(d) = {}

\* The bytes STATUS reports for a running session were all moved by it: the
\* counters were reset and no earlier descriptor still counts.
CountsOwnSession ==
  Quiet /\ running => \A d \in Dir : counted[d] \subseteq {SessionArea(d)}

\* A session is issued into empty FIFOs: whatever the previous one left was
\* cleared, also when a START failed in between.
CleanStart ==
  \A p \in Callers, h \in {"start", "sram"} : At(p, h, "issTx") => ~dirty

\* A channel that transfers is only terminated after DREQ was disabled for it
\* (comment in stop_cyclic_dma; RESULTS.md, hardware limitations).
TeardownWithDreqOff ==
  [][\A d \in Dir : act[d] # None /\ act'[d] = None => ~dreq[d]]_vars

\* One session at a time, closed only when its channels are quiet: the
\* abstract specification the handlers implement when calls do not overlap.
Session == INSTANCE DmaSession WITH
  dir     <- dirMode,
  session <- IF ~running THEN "none" ELSE IF sramMode THEN "sram" ELSE "dram",
  busy    <- {d \in Dir : act[d] # None}
SessionSpec == Session!Spec

=============================================================================
