-------------------------- MODULE Rp1PioSramProofs --------------------------
(***************************************************************************)
(* Theorems about Rp1PioSram for every set of callers, every choice of     *)
(* ioctls and every choice of failing calls.                               *)
(***************************************************************************)
EXTENDS Rp1PioSram, TLAPS

\* A process of the bring-up sequence is a caller in one of these handlers.
Starters == {"start", "sram", "diag", "probe", "control"}
Tests    == {"diag", "probe", "control"}

LEMMA AreaType ==
  ASSUME NEW h \in Starters, NEW p \in Callers, NEW d \in Dir
  PROVE  Area(h, p, d) \in Areas
BY DEF Area, Starters, Areas, RingAreas, SramAreas, Dir

LEMMA DirsOfType == \A m \in Mode : DirsOf(m) \subseteq Dir
BY DEF DirsOf, Mode, Dir

\* A failing bring-up leaves the types of pc and do alone.
LEMMA FailType ==
  ASSUME TypeOK, NEW p \in Procs, NEW h \in Starters, Fail(p, h)
  PROVE  pc' \in [Procs -> Labels] /\ do' \in [Procs -> SUBSET Dir]
<1>1. CASE h = "start"
  BY <1>1 DEF Fail, Return, TypeOK, Labels
<1>2. CASE h = "sram"
  BY <1>2 DEF Fail, Goto, TypeOK, Labels, Handlers, Steps
<1>3. CASE h \in Tests
  BY <1>3 DEF Fail, Goto, TypeOK, Labels, Handlers, Steps, Tests
<1> QED BY <1>1, <1>2, <1>3 DEF Starters, Tests

LEMMA GotoType ==
  ASSUME TypeOK, NEW p \in Procs, NEW h \in Handlers, NEW s \in Steps, Goto(p, h, s)
  PROVE  pc' \in [Procs -> Labels] /\ do' \in [Procs -> SUBSET Dir]
BY DEF Goto, TypeOK, Labels

LEMMA ReturnType ==
  ASSUME TypeOK, NEW p \in Procs, Return(p)
  PROVE  pc' \in [Procs -> Labels] /\ do' \in [Procs -> SUBSET Dir]
BY DEF Return, TypeOK, Labels

LEMMA EnterType ==
  ASSUME TypeOK, NEW p, NEW call, NEW h \in Handlers, NEW s \in Steps,
         NEW dirs \in SUBSET Dir, Enter(p, call, h, s, dirs)
  PROVE  pc' \in [Procs -> Labels] /\ do' \in [Procs -> SUBSET Dir]
BY DEF Enter, TypeOK, Labels

LEMMA TerminateType ==
  ASSUME TypeOK, NEW d \in Dir, Terminate(d)
  PROVE  act' \in [Dir -> Areas \cup {None}] /\ queue' \in [Dir -> SUBSET Areas]
BY DEF Terminate, TypeOK

LEMMA IssueType ==
  ASSUME TypeOK, NEW d \in Dir, IssuePending(d)
  PROVE  act' \in [Dir -> Areas \cup {None}] /\ queue' \in [Dir -> SUBSET Areas]
<1>1. CASE act[d] # None \/ queue[d] = {}
  BY <1>1 DEF IssuePending, TypeOK, dmaVars
<1>2. CASE ~(act[d] # None \/ queue[d] = {})
  <2> PICK a \in queue[d] : /\ act' = [act EXCEPT ![d] = a]
                            /\ queue' = [queue EXCEPT ![d] = @ \ {a}]
    BY <1>2 DEF IssuePending
  <2> QED BY DEF TypeOK
<1> QED BY <1>1, <1>2

\* Every step of the bring-up sequence keeps the types.
LEMMA BringUpType ==
  ASSUME TypeOK, NEW p \in Callers, NEW h \in Starters, NEW last \in Steps,
         BringUp(p, h, last)
  PROVE  TypeOK'
<1> USE DEF drvVars, memVars, dmaVars, hwVars
<1>0. h \in Handlers /\ p \in Procs
      /\ {"noclient", "dreqTx", "dreqRx", "prep", "subTx", "subRx", "issTx", "issRx"} \subseteq Steps
      /\ "tx" \in Dir /\ "rx" \in Dir
  BY DEF Starters, Handlers, Procs, Steps, Dir
<1>1. CASE OpenClient(p, h)
  <2>1. pc' \in [Procs -> Labels] /\ do' \in [Procs -> SUBSET Dir]
    BY <1>0, <1>1, GotoType, FailType DEF OpenClient
  <2> QED BY <1>1, <2>1 DEF OpenClient, TypeOK
<1>2. CASE NoClient(p, h)
  <2>1. pc' \in [Procs -> Labels] /\ do' \in [Procs -> SUBSET Dir]
    BY <1>0, <1>2, FailType DEF NoClient
  <2> QED BY <1>2, <2>1 DEF NoClient, TypeOK
<1>3. ASSUME NEW d \in Dir, NEW s \in Steps, NEW next \in Steps,
             EnableDreq(p, h, d, s, next)
      PROVE  TypeOK'
  <2>1. pc' \in [Procs -> Labels] /\ do' \in [Procs -> SUBSET Dir]
    BY <1>0, <1>3, GotoType, FailType DEF EnableDreq
  <2>2. dreq' \in [Dir -> BOOLEAN]
    BY <1>3 DEF EnableDreq, SetDmactrl, TypeOK
  <2> QED BY <1>3, <2>1, <2>2 DEF EnableDreq, TypeOK
<1>4. CASE PrepAndReset(p, h)
  <2>1. pc' \in [Procs -> Labels] /\ do' \in [Procs -> SUBSET Dir]
    BY <1>0, <1>4, GotoType, FailType DEF PrepAndReset
  <2> QED BY <1>4, <2>1 DEF PrepAndReset, TypeOK
<1>5. CASE SubmitTx(p, h)
  <2>1. pc' \in [Procs -> Labels] /\ do' \in [Procs -> SUBSET Dir]
    BY <1>0, <1>5, GotoType, FailType DEF SubmitTx
  <2>2. queue' \in [Dir -> SUBSET Areas] /\ act' = act
    BY <1>0, <1>5, AreaType DEF SubmitTx, Submit, TypeOK
  <2> QED BY <1>5, <2>1, <2>2 DEF SubmitTx, TypeOK
<1>6. CASE SubmitRx(p, h)
  <2>1. pc' \in [Procs -> Labels] /\ do' \in [Procs -> SUBSET Dir]
    BY <1>0, <1>6, GotoType, FailType DEF SubmitRx
  <2>2. act' \in [Dir -> Areas \cup {None}] /\ queue' \in [Dir -> SUBSET Areas]
    BY <1>0, <1>6, AreaType, TerminateType DEF SubmitRx, Submit, TerminateIf, TypeOK
  <2> QED BY <1>6, <2>1, <2>2 DEF SubmitRx, TypeOK
<1>7. ASSUME NEW d \in Dir, NEW s \in Steps, NEW next \in Steps, Issue(p, h, d, s, next)
      PROVE  TypeOK'
  <2>1. pc' \in [Procs -> Labels] /\ do' \in [Procs -> SUBSET Dir]
    BY <1>0, <1>7, GotoType DEF Issue
  <2>2. act' \in [Dir -> Areas \cup {None}] /\ queue' \in [Dir -> SUBSET Areas]
    BY <1>7, IssueType DEF Issue, TypeOK
  <2> QED BY <1>7, <2>1, <2>2 DEF Issue, TypeOK
<1> QED BY <1>0, <1>1, <1>2, <1>3, <1>4, <1>5, <1>6, <1>7 DEF BringUp

-----------------------------------------------------------------------------

\* The steps of the two starts keep the types.
LEMMA StartType ==
  ASSUME TypeOK, NEW p \in Callers, start_cyclic_dma(p) \/ start_sram_dma(p)
  PROVE  TypeOK'
<1> USE DEF drvVars, memVars, dmaVars, hwVars
<1>0. /\ {"start", "sram"} \subseteq Handlers /\ {"start", "sram"} \subseteq Starters
      /\ {"open", "mark", "unmap"} \subseteq Steps /\ p \in Procs
  BY DEF Handlers, Starters, Steps, Procs
<1>1. CASE StartEntry(p)
  <2>1. pc' \in [Procs -> Labels] /\ do' \in [Procs -> SUBSET Dir]
    BY <1>0, <1>1, EnterType, DirsOfType DEF StartEntry, TypeOK
  <2> QED BY <1>1, <2>1 DEF StartEntry, TypeOK
<1>2. CASE StartMark(p)
  <2>1. pc' \in [Procs -> Labels] /\ do' \in [Procs -> SUBSET Dir]
    BY <1>0, <1>2, ReturnType DEF StartMark
  <2> QED BY <1>2, <2>1 DEF StartMark, TypeOK
<1>3. CASE SramEntry(p)
  <2>1. pc' \in [Procs -> Labels] /\ do' \in [Procs -> SUBSET Dir]
    BY <1>0, <1>3, EnterType DEF SramEntry, TypeOK
  <2> QED BY <1>3, <2>1 DEF SramEntry, TypeOK
<1>4. CASE SramMark(p)
  <2>1. pc' \in [Procs -> Labels] /\ do' \in [Procs -> SUBSET Dir]
    BY <1>0, <1>4, ReturnType DEF SramMark
  <2> QED BY <1>4, <2>1 DEF SramMark, TypeOK
<1>5. CASE SramUnmap(p)
  <2>1. pc' \in [Procs -> Labels] /\ do' \in [Procs -> SUBSET Dir]
    BY <1>0, <1>5, ReturnType DEF SramUnmap
  <2> QED BY <1>5, <2>1 DEF SramUnmap, TypeOK
<1>6. CASE BringUp(p, "start", "mark") \/ BringUp(p, "sram", "mark")
  BY <1>0, <1>6, BringUpType
<1> QED BY <1>1, <1>2, <1>3, <1>4, <1>5, <1>6 DEF start_cyclic_dma, start_sram_dma

\* The steps of the two self tests keep the types.
LEMMA SelfTestType ==
  ASSUME TypeOK, NEW p \in Callers, dma_diag_test(p) \/ sram_addr_probe(p)
  PROVE  TypeOK'
<1> USE DEF drvVars, memVars, dmaVars, hwVars
<1>0. /\ Tests \subseteq Handlers /\ Tests \subseteq Starters /\ p \in Procs
      /\ {"open", "alloc", "termTx", "termRx", "clear", "restore", "free"} \subseteq Steps
      /\ "tx" \in Dir /\ "rx" \in Dir
  BY DEF Handlers, Starters, Tests, Steps, Procs, Dir
<1>1. CASE DiagEntry(p)
  <2>1. pc' \in [Procs -> Labels] /\ do' \in [Procs -> SUBSET Dir]
    BY <1>0, <1>1, EnterType DEF DiagEntry, Tests
  <2> QED BY <1>1, <2>1 DEF DiagEntry, TypeOK
<1>2. CASE ControlEntry(p)
  <2>1. pc' \in [Procs -> Labels] /\ do' \in [Procs -> SUBSET Dir]
    BY <1>0, <1>2, EnterType DEF ControlEntry, Tests
  <2> QED BY <1>2, <2>1 DEF ControlEntry, TypeOK
<1>3. CASE ProbeEntry(p)
  <2>1. pc' \in [Procs -> Labels] /\ do' \in [Procs -> SUBSET Dir]
    BY <1>0, <1>3, EnterType DEF ProbeEntry, Tests
  <2> QED BY <1>3, <2>1 DEF ProbeEntry, TypeOK
<1>4. CASE ProbeAlloc(p)
  <2>1. pc' \in [Procs -> Labels] /\ do' \in [Procs -> SUBSET Dir]
    BY <1>0, <1>4, GotoType, ReturnType DEF ProbeAlloc, Tests
  <2> QED BY <1>4, <2>1 DEF ProbeAlloc, TypeOK
<1>5. CASE ProbeRestore(p)
  <2>1. pc' \in [Procs -> Labels] /\ do' \in [Procs -> SUBSET Dir]
    BY <1>0, <1>5, GotoType DEF ProbeRestore, Tests
  <2> QED BY <1>5, <2>1 DEF ProbeRestore, TypeOK
<1>6. ASSUME NEW h \in Tests, NEW next \in Steps, SelfTest(p, h, next)
      PROVE  TypeOK'
  <2>1. ASSUME NEW d \in Dir, NEW s \in Steps, NEW to \in Steps, TestTerminate(p, h, d, s, to)
        PROVE  TypeOK'
    <3>1. pc' \in [Procs -> Labels] /\ do' \in [Procs -> SUBSET Dir]
      BY <1>0, <2>1, GotoType DEF TestTerminate
    <3>2. act' \in [Dir -> Areas \cup {None}] /\ queue' \in [Dir -> SUBSET Areas]
      BY <2>1, TerminateType DEF TestTerminate
    <3> QED BY <2>1, <3>1, <3>2 DEF TestTerminate, TypeOK
  <2>2. CASE TestClear(p, h, next)
    <3>1. pc' \in [Procs -> Labels] /\ do' \in [Procs -> SUBSET Dir]
      BY <1>0, <1>6, <2>2, GotoType DEF TestClear
    <3> QED BY <2>2, <3>1 DEF TestClear, ClearFifos, TypeOK
  <2>3. CASE TestFree(p, h)
    <3>1. pc' \in [Procs -> Labels] /\ do' \in [Procs -> SUBSET Dir]
      BY <1>0, <2>3, ReturnType DEF TestFree
    <3> QED BY <2>3, <3>1 DEF TestFree, TypeOK
  <2>4. CASE BringUp(p, h, "termTx")
    BY <1>0, <2>4, BringUpType
  <2> QED BY <1>0, <1>6, <2>1, <2>2, <2>3, <2>4 DEF SelfTest
<1> QED BY <1>0, <1>1, <1>2, <1>3, <1>4, <1>5, <1>6 DEF dma_diag_test, sram_addr_probe, Tests

\* The steps of the stop path keep the types, for an ioctl and for rmmod.
LEMMA StopType ==
  ASSUME TypeOK, NEW p \in Procs, StopEntry(p) \/ StopSteps(p)
  PROVE  TypeOK'
<1> USE DEF drvVars, memVars, dmaVars, hwVars
<1>0. /\ {"stop", "exit"} \subseteq Handlers
      /\ {"dreqTx", "dreqRx", "termTx", "termRx", "clear", "mark", "verify", "unmap", "free"} \subseteq Steps
      /\ "tx" \in Dir /\ "rx" \in Dir
  BY DEF Handlers, Steps, Dir
<1>1. CASE StopEntry(p)
  BY <1>0, <1>1 DEF StopEntry, StopBegin, TypeOK, Labels
<1>2. ASSUME NEW d \in Dir, NEW s \in Steps, NEW next \in Steps, StopDreq(p, d, s, next)
      PROVE  TypeOK'
  <2>1. pc' \in [Procs -> Labels] /\ do' \in [Procs -> SUBSET Dir]
    BY <1>0, <1>2, GotoType DEF StopDreq
  <2>2. dreq' \in [Dir -> BOOLEAN]
    BY <1>2 DEF StopDreq, SetDmactrl, TypeOK
  <2> QED BY <1>2, <2>1, <2>2 DEF StopDreq, TypeOK
<1>3. ASSUME NEW d \in Dir, NEW s \in Steps, NEW next \in Steps, StopTerminate(p, d, s, next)
      PROVE  TypeOK'
  <2>1. pc' \in [Procs -> Labels] /\ do' \in [Procs -> SUBSET Dir]
    BY <1>0, <1>3, GotoType DEF StopTerminate
  <2>2. act' \in [Dir -> Areas \cup {None}] /\ queue' \in [Dir -> SUBSET Areas]
    BY <1>3, TerminateType DEF StopTerminate, TerminateIf, TypeOK
  <2> QED BY <1>3, <2>1, <2>2 DEF StopTerminate, TypeOK
<1>4. CASE StopClear(p)
  <2>1. pc' \in [Procs -> Labels] /\ do' \in [Procs -> SUBSET Dir]
    BY <1>0, <1>4, GotoType DEF StopClear
  <2> QED BY <1>4, <2>1 DEF StopClear, ClearFifos, TypeOK
<1>5. CASE StopMark(p)
  <2>1. pc' \in [Procs -> Labels] /\ do' \in [Procs -> SUBSET Dir]
    BY <1>0, <1>5, GotoType DEF StopMark
  <2> QED BY <1>5, <2>1 DEF StopMark, TypeOK
<1>6. CASE StopVerify(p)
  <2>1. pc' \in [Procs -> Labels] /\ do' \in [Procs -> SUBSET Dir]
    BY <1>0, <1>6, GotoType DEF StopVerify
  <2> QED BY <1>6, <2>1 DEF StopVerify, TypeOK
<1>7. CASE StopUnmap(p)
  <2>1. pc' \in [Procs -> Labels] /\ do' \in [Procs -> SUBSET Dir]
    BY <1>0, <1>7, GotoType, ReturnType DEF StopUnmap
  <2>2. maps' \subseteq MapIds /\ sramIo' \in MapIds \cup {None}
    BY <1>7 DEF StopUnmap, TypeOK
  <2> QED BY <1>7, <2>1, <2>2 DEF StopUnmap, TypeOK
<1> QED BY <1>0, <1>1, <1>2, <1>3, <1>4, <1>5, <1>6, <1>7 DEF StopSteps

\* The remaining steps: SET_DMA_DIR, rmmod, insmod and the DMA callbacks.
LEMMA RestType ==
  ASSUME TypeOK,
         \/ \E p \in Callers : set_dma_dir(p)
         \/ rp1_pio_sram_exit \/ rp1_pio_sram_init
         \/ \E d \in Dir : Words(d)
  PROVE  TypeOK'
<1> USE DEF drvVars, memVars, dmaVars, hwVars, ctlVars
<1>0. /\ Rmmod \in Procs /\ Callers \subseteq Procs /\ {"setdir", "stop", "exit"} \subseteq Handlers
      /\ {"dreqTx", "free", "release", "close"} \subseteq Steps /\ Mode \subseteq Steps
      /\ "bad" \notin Steps
  BY DEF Procs, Handlers, Steps, Mode
<1>1. ASSUME NEW p \in Callers, SetDirCheck(p) PROVE TypeOK'
  <2>1. pc' \in [Procs -> Labels] /\ do' \in [Procs -> SUBSET Dir]
    BY <1>0, <1>1, EnterType DEF SetDirCheck
  <2> QED BY <1>1, <2>1 DEF SetDirCheck, TypeOK
<1>2. ASSUME NEW p \in Callers, SetDirWrite(p) PROVE TypeOK'
  <2>1. pc' \in [Procs -> Labels] /\ do' \in [Procs -> SUBSET Dir]
    BY <1>0, <1>2, ReturnType DEF SetDirWrite
  <2>2. pc[p] # <<"setdir", "bad">>
    <3>1. pc[p] = Idle \/ pc[p] \in Handlers \X Steps
      BY <1>0 DEF TypeOK, Labels
    <3>2. Idle # <<"setdir", "bad">>
      BY DEF Idle
    <3>3. <<"setdir", "bad">> \notin Handlers \X Steps
      BY <1>0
    <3> QED BY <3>1, <3>2, <3>3
  <2>3. dirMode' \in Mode
    BY <1>2, <2>2 DEF SetDirWrite, At
  <2> QED BY <1>2, <2>1, <2>3 DEF SetDirWrite, TypeOK
<1>3. CASE ExitEntry
  BY <1>0, <1>3 DEF ExitEntry, StopBegin, TypeOK, Labels
<1>4. CASE ExitFree
  <2>1. pc' \in [Procs -> Labels] /\ do' \in [Procs -> SUBSET Dir]
    BY <1>0, <1>4, GotoType DEF ExitFree
  <2> QED BY <1>4, <2>1 DEF ExitFree, TypeOK
<1>5. CASE ExitRelease
  <2>1. pc' \in [Procs -> Labels] /\ do' \in [Procs -> SUBSET Dir]
    BY <1>0, <1>5, GotoType DEF ExitRelease
  <2> QED BY <1>5, <2>1 DEF ExitRelease, TypeOK
<1>6. CASE ExitClose
  <2>1. pc' \in [Procs -> Labels] /\ do' \in [Procs -> SUBSET Dir]
    BY <1>0, <1>6, ReturnType DEF ExitClose
  <2>2. dreq' \in [Dir -> BOOLEAN] /\ dirty' \in BOOLEAN
    BY <1>6 DEF ExitClose, ClearFifos, TypeOK
  <2> QED BY <1>6, <2>1, <2>2 DEF ExitClose, TypeOK
<1>7. CASE rp1_pio_sram_init
  BY <1>7 DEF rp1_pio_sram_init, TypeOK, Mode
<1>8. ASSUME NEW d \in Dir, Words(d) PROVE TypeOK'
  BY <1>8 DEF Words, MoveWords, PeriodCallback, TypeOK
<1> QED BY <1>1, <1>2, <1>3, <1>4, <1>5, <1>6, <1>7, <1>8 DEF set_dma_dir, rp1_pio_sram_exit

\* Type correctness of the driver for any number of concurrent callers: no
\* interleaving of the handlers gives dma_dir_mode a value SET_DMA_DIR should
\* have refused, or a process a step its handler does not have.
THEOREM TypeCorrect == Spec => []TypeOK
<1>1. Init => TypeOK
  BY DEF Init, TypeOK, Mode, Labels
<1>2. TypeOK /\ [Next]_vars => TypeOK'
  <2> SUFFICES ASSUME TypeOK, [Next]_vars PROVE TypeOK'
    OBVIOUS
  <2>0. Rmmod \in Procs /\ Callers \subseteq Procs
    BY DEF Procs
  <2>1. ASSUME NEW p \in Callers, rp1_pio_sram_ioctl(p) PROVE TypeOK'
    BY <2>0, <2>1, StartType, SelfTestType, StopType, RestType DEF rp1_pio_sram_ioctl, stop_cyclic_dma
  <2>2. CASE StopSteps(Rmmod)
    BY <2>0, <2>2, StopType
  <2>3. CASE rp1_pio_sram_exit \/ rp1_pio_sram_init \/ \E d \in Dir : Words(d)
    BY <2>3, RestType
  <2>4. CASE UNCHANGED vars
    BY <2>4 DEF vars, drvVars, memVars, hwVars, ctlVars, TypeOK
  <2> QED BY <2>1, <2>2, <2>3, <2>4 DEF Next
<1> QED BY <1>1, <1>2, PTL DEF Spec

-----------------------------------------------------------------------------
(* The private buffers of the self tests.  PrivateBufferSafe alone is not  *)
(* inductive: it must be known where in its handler a process can be while *)
(* a channel targets its buffers, and that it owns them all that time.     *)

\* The steps at which the self test owns its buffers, and those at which a
\* descriptor for direction d may exist.
BufferSteps == Steps \ {"alloc"}
TargetSteps(d) == IF d = "tx" THEN {"subRx", "issTx", "issRx", "termTx"}
                              ELSE {"issTx", "issRx", "termTx", "termRx"}

Held(p) ==
  /\ pc[p] \in Tests \X BufferSteps => p \in allocated
  /\ \A d \in Dir : p \in Targets(d) => pc[p] \in Tests \X TargetSteps(d)

PrivateInv == \A p \in Callers : Held(p)

LEMMA PrivateInvImplies == PrivateInv => PrivateBufferSafe
<1> SUFFICES ASSUME PrivateInv, NEW d \in Dir, NEW p \in Targets(d) \cap Callers
             PROVE  p \in allocated
  BY DEF PrivateBufferSafe
<1>1. pc[p] \in Tests \X TargetSteps(d)
  BY DEF PrivateInv, Held
<1>2. TargetSteps(d) \subseteq BufferSteps
  BY DEF TargetSteps, BufferSteps, Steps
<1> QED BY <1>1, <1>2 DEF PrivateInv, Held

\* A step of process q, outside the self tests before and after it, that adds
\* no caller's buffer to a channel and frees none.
LEMMA OutsideStep ==
  ASSUME PrivateInv, NEW q \in Procs,
         pc[q] \notin Tests \X Steps, pc'[q] \notin Tests \X Steps,
         \A p \in Callers \ {q} : pc'[p] = pc[p],
         allocated \cap Callers \subseteq allocated',
         \A p \in Callers, d \in Dir : p \in Targets(d)' => p \in Targets(d)
  PROVE  PrivateInv'
<1> SUFFICES ASSUME NEW p \in Callers PROVE Held(p)'
  BY DEF PrivateInv
<1>0. Held(p)
  BY DEF PrivateInv
<1>1. CASE p = q
  <2>1. /\ \A d \in Dir : TargetSteps(d) \subseteq Steps
        /\ BufferSteps \subseteq Steps
    BY DEF TargetSteps, BufferSteps, Steps
  <2> QED BY <1>0, <1>1, <2>1 DEF Held
<1>2. CASE p # q
  BY <1>0, <1>2 DEF Held
<1> QED BY <1>1, <1>2

\* A step inside a self test of process q, from step s to step t.
LEMMA TestStep ==
  ASSUME TypeOK, PrivateInv, NEW q \in Callers, NEW h \in Tests,
         NEW s \in BufferSteps, NEW t \in BufferSteps,
         At(q, h, s), Goto(q, h, t), allocated' = allocated,
         \A p \in Callers \ {q}, d \in Dir : p \in Targets(d)' => p \in Targets(d),
         \A d \in Dir : q \in Targets(d)' => t \in TargetSteps(d)
  PROVE  PrivateInv'
<1> SUFFICES ASSUME NEW p \in Callers PROVE Held(p)'
  BY DEF PrivateInv
<1>0. Held(p) /\ Held(q)
  BY DEF PrivateInv
<1>1. pc'[q] = <<h, t>> /\ \A r \in Callers \ {q} : pc'[r] = pc[r]
  BY DEF Goto, TypeOK, Procs
<1>2. CASE p = q
  <2>1. q \in allocated
    BY <1>0 DEF Held, At
  <2> QED BY <1>1, <1>2, <2>1 DEF Held
<1>3. CASE p # q
  BY <1>0, <1>1, <1>3 DEF Held
<1> QED BY <1>2, <1>3

\* What the dmaengine calls do to the targets of a channel.
LEMMA SubmitTargets ==
  ASSUME TypeOK, NEW d \in Dir, NEW a, Submit(d, a)
  PROVE  \A e \in Dir : Targets(e)' \subseteq Targets(e) \cup (IF e = d THEN {a} ELSE {})
BY DEF Submit, Targets, TypeOK

LEMMA IssueTargets ==
  ASSUME TypeOK, NEW d \in Dir, IssuePending(d)
  PROVE  \A e \in Dir : Targets(e)' \subseteq Targets(e)
<1>1. CASE act[d] # None \/ queue[d] = {}
  BY <1>1 DEF IssuePending, Targets, dmaVars
<1>2. CASE ~(act[d] # None \/ queue[d] = {})
  <2> PICK a \in queue[d] : /\ act' = [act EXCEPT ![d] = a]
                            /\ queue' = [queue EXCEPT ![d] = @ \ {a}]
    BY <1>2 DEF IssuePending
  <2> QED BY DEF TypeOK, Targets
<1> QED BY <1>1, <1>2

LEMMA TerminateTargets ==
  ASSUME TypeOK, NEW d \in Dir, Terminate(d)
  PROVE  /\ Targets(d)' = {}
         /\ \A e \in Dir : Targets(e)' \subseteq Targets(e)
BY DEF Terminate, Targets, TypeOK

LEMMA SameTargets ==
  ASSUME UNCHANGED dmaVars
  PROVE  \A e \in Dir : Targets(e)' = Targets(e)
BY DEF dmaVars, Targets

\* Where a step leaves the program counters.
LEMMA GotoPc ==
  ASSUME TypeOK, NEW q \in Procs, NEW h, NEW s, Goto(q, h, s)
  PROVE  pc'[q] = <<h, s>> /\ \A p \in Callers \ {q} : pc'[p] = pc[p]
BY DEF Goto, TypeOK, Procs

LEMMA ReturnPc ==
  ASSUME TypeOK, NEW q \in Procs, Return(q)
  PROVE  pc'[q] = Idle /\ \A p \in Callers \ {q} : pc'[p] = pc[p]
BY DEF Return, TypeOK, Procs

LEMMA EnterPc ==
  ASSUME TypeOK, NEW q \in Procs, NEW call, NEW h, NEW s, NEW dirs, Enter(q, call, h, s, dirs)
  PROVE  /\ pc[q] = Idle /\ pc'[q] = <<h, s>> /\ loaded
         /\ \A p \in Callers \ {q} : pc'[p] = pc[p]
BY DEF Enter, TypeOK, Procs

LEMMA NotTest ==
  /\ Idle \notin Tests \X Steps
  /\ \A h, s : h \notin Tests => <<h, s>> \notin Tests \X Steps
BY DEF Idle, Tests

\* The bring-up steps of the two starts.
LEMMA StartBringUpPrivate ==
  ASSUME TypeOK, PrivateInv, NEW q \in Callers, NEW h \in {"start", "sram"}, NEW last,
         BringUp(q, h, last)
  PROVE  PrivateInv'
<1> USE DEF memVars
<1>0. q \in Procs /\ h \notin Tests /\ "tx" \in Dir /\ "rx" \in Dir
  BY DEF Procs, Tests, Dir
<1>1. pc[q] \notin Tests \X Steps
  BY <1>0, NotTest DEF BringUp, OpenClient, NoClient, EnableDreq, PrepAndReset, SubmitTx,
     SubmitRx, Issue, At
<1>2. ASSUME NEW s, Goto(q, h, s) PROVE pc'[q] \notin Tests \X Steps
  BY <1>0, <1>2, GotoPc, NotTest
<1>3. ASSUME Fail(q, h) PROVE /\ pc'[q] \notin Tests \X Steps
                              /\ \A p \in Callers \ {q} : pc'[p] = pc[p]
  BY <1>0, <1>3, GotoPc, ReturnPc, NotTest DEF Fail
<1>4. /\ pc'[q] \notin Tests \X Steps
      /\ \A p \in Callers \ {q} : pc'[p] = pc[p]
  BY <1>0, <1>2, <1>3, GotoPc DEF BringUp, OpenClient, NoClient, EnableDreq, PrepAndReset,
     SubmitTx, SubmitRx, Issue
<1>5. allocated' = allocated
  BY DEF BringUp, OpenClient, NoClient, EnableDreq, PrepAndReset, SubmitTx, SubmitRx, Issue
<1>6. ASSUME NEW d \in Dir, Submit(d, Area(h, q, d))
      PROVE  \A p \in Callers, e \in Dir : p \in Targets(e)' => p \in Targets(e)
  <2>1. Area(h, q, d) \in RingAreas \cup SramAreas
    BY DEF Area, RingAreas, SramAreas, Dir
  <2> QED BY <1>6, <2>1, SubmitTargets, ProcsAssumption
<1>7. \A p \in Callers, e \in Dir : p \in Targets(e)' => p \in Targets(e)
  <2>1. CASE SubmitTx(q, h)
    BY <1>0, <1>6, <2>1, SameTargets DEF SubmitTx
  <2>2. CASE SubmitRx(q, h)
    BY <1>0, <1>6, <2>2, SameTargets, TerminateTargets DEF SubmitRx, TerminateIf
  <2>3. ASSUME NEW d \in Dir, NEW s, NEW next, Issue(q, h, d, s, next)
        PROVE  \A p \in Callers, e \in Dir : p \in Targets(e)' => p \in Targets(e)
    BY <2>3, IssueTargets, SameTargets DEF Issue
  <2>4. ASSUME UNCHANGED dmaVars
        PROVE  \A p \in Callers, e \in Dir : p \in Targets(e)' => p \in Targets(e)
    BY <2>4, SameTargets
  <2> QED BY <1>0, <2>1, <2>2, <2>3, <2>4 DEF BringUp, OpenClient, NoClient, EnableDreq,
          PrepAndReset, hwVars, dmaVars
<1> QED BY <1>0, <1>1, <1>4, <1>5, <1>7, OutsideStep

\* The bring-up steps of a self test.
LEMMA TestBringUpPrivate ==
  ASSUME TypeOK, PrivateInv, NEW q \in Callers, NEW h \in Tests, BringUp(q, h, "termTx")
  PROVE  PrivateInv'
<1> USE DEF memVars, hwVars, dmaVars
<1>0. /\ {"open", "noclient", "dreqTx", "dreqRx", "prep", "subTx", "subRx", "issTx", "issRx",
          "termTx", "free"} \subseteq BufferSteps
      /\ "tx" \in Dir /\ "rx" \in Dir /\ ~Checked(h) /\ Dir = {"tx", "rx"} /\ q \in Procs
  BY DEF BufferSteps, Steps, Dir, Checked, Tests, Procs
<1>1. Fail(q, h) => Goto(q, h, "free")
  BY DEF Fail, Tests
<1>2. ASSUME NEW s \in BufferSteps, At(q, h, s), NEW d \in Dir, q \in Targets(d)
      PROVE  s \in TargetSteps(d)
  BY <1>2 DEF PrivateInv, Held, At
<1>3. ASSUME NEW s \in {"open", "noclient", "dreqTx", "dreqRx", "prep", "subTx"},
             NEW t \in BufferSteps, At(q, h, s), Goto(q, h, t), UNCHANGED allocated, UNCHANGED dmaVars
      PROVE  PrivateInv'
  <2>1. \A d \in Dir : s \notin TargetSteps(d)
    BY DEF TargetSteps
  <2> QED BY <1>0, <1>2, <1>3, <2>1, SameTargets, TestStep
<1>4. CASE OpenClient(q, h) \/ NoClient(q, h) \/ PrepAndReset(q, h)
  BY <1>0, <1>1, <1>3, <1>4 DEF OpenClient, NoClient, PrepAndReset
<1>5. CASE EnableDreq(q, h, "tx", "dreqTx", "dreqRx") \/ EnableDreq(q, h, "rx", "dreqRx", "prep")
  BY <1>0, <1>3, <1>5 DEF EnableDreq
<1>6. CASE SubmitTx(q, h)
  <2>1. At(q, h, "subTx") /\ Goto(q, h, "subRx") /\ allocated' = allocated
    BY <1>0, <1>6 DEF SubmitTx
  <2>2. \A d \in Dir : q \notin Targets(d)
    BY <1>0, <1>2, <2>1 DEF TargetSteps
  <2>3. \A p \in Callers, d \in Dir : p \in Targets(d)' => p \in Targets(d) \/ (p = q /\ d = "tx")
    <3>1. Area(h, q, "tx") = q \/ Area(h, q, "tx") \notin Callers
      BY ProcsAssumption DEF Area, Tests, SramAreas
    <3> QED BY <1>0, <1>6, <3>1, SubmitTargets, SameTargets DEF SubmitTx
  <2> QED BY <1>0, <2>1, <2>2, <2>3, TestStep DEF TargetSteps
<1>7. CASE SubmitRx(q, h)
  <2>1. At(q, h, "subRx") /\ Goto(q, h, "issTx") /\ allocated' = allocated
    BY <1>0, <1>7 DEF SubmitRx
  <2>2. \A p \in Callers, d \in Dir : p \in Targets(d)' => p \in Targets(d) \/ (p = q /\ d = "rx")
    <3>1. Area(h, q, "rx") = q
      BY DEF Area, Tests
    <3> QED BY <1>0, <1>7, <3>1, SubmitTargets, SameTargets DEF SubmitRx
  <2> QED BY <1>0, <1>2, <2>1, <2>2, TestStep DEF TargetSteps
<1>8. CASE Issue(q, h, "tx", "issTx", "issRx") \/ Issue(q, h, "rx", "issRx", "termTx")
  <2>1. \A d \in Dir : Targets(d)' \subseteq Targets(d)
    BY <1>0, <1>8, IssueTargets, SameTargets DEF Issue
  <2> QED BY <1>0, <1>2, <1>8, <2>1, TestStep DEF Issue, TargetSteps
<1> QED BY <1>4, <1>5, <1>6, <1>7, <1>8 DEF BringUp

\* A self test terminates both channels before it frees its buffers.
LEMMA SelfTestPrivate ==
  ASSUME TypeOK, PrivateInv, NEW q \in Callers, dma_diag_test(q) \/ sram_addr_probe(q)
  PROVE  PrivateInv'
<1> USE DEF memVars, hwVars, dmaVars
<1>0. /\ {"open", "termTx", "termRx", "clear", "restore", "free"} \subseteq BufferSteps
      /\ "tx" \in Dir /\ "rx" \in Dir /\ Dir = {"tx", "rx"} /\ q \in Procs
      /\ \A d \in Dir : {"open", "alloc", "clear", "restore", "free"} \cap TargetSteps(d) = {}
  BY DEF BufferSteps, Steps, Dir, Procs, TargetSteps
<1>1. ASSUME NEW h \in Tests, NEW s, At(q, h, s), NEW d \in Dir, q \in Targets(d)
      PROVE  s \in TargetSteps(d)
  BY <1>1 DEF PrivateInv, Held, At
\* Entering: the process owns nothing yet, and owns its buffers afterwards.
<1>2. ASSUME NEW h \in Tests, pc[q] = Idle \/ At(q, h, "alloc"), pc'[q] = <<h, "open">>,
             \A p \in Callers \ {q} : pc'[p] = pc[p],
             allocated' = allocated \cup {q}, UNCHANGED dmaVars
      PROVE  PrivateInv'
  <2> SUFFICES ASSUME NEW p \in Callers PROVE Held(p)'
    BY DEF PrivateInv
  <2>1. \A d \in Dir : Targets(d)' = Targets(d)
    BY <1>2, SameTargets
  <2>2. \A d \in Dir : q \notin Targets(d)
    BY <1>0, <1>1, <1>2, NotTest DEF PrivateInv, Held, TargetSteps, Steps
  <2>3. Held(p)
    BY DEF PrivateInv
  <2> QED BY <1>2, <2>1, <2>2, <2>3 DEF Held
<1>3. CASE DiagEntry(q) \/ ControlEntry(q)
  BY <1>0, <1>2, <1>3, EnterPc DEF DiagEntry, ControlEntry, Tests
<1>4. CASE ProbeEntry(q)
  <2>1. /\ pc[q] = Idle /\ pc'[q] = <<"probe", "alloc">>
        /\ \A p \in Callers \ {q} : pc'[p] = pc[p]
    BY <1>0, <1>4, EnterPc DEF ProbeEntry
  <2> SUFFICES ASSUME NEW p \in Callers PROVE Held(p)'
    BY DEF PrivateInv
  <2>2. \A d \in Dir : Targets(d)' = Targets(d)
    BY <1>4, SameTargets DEF ProbeEntry
  <2>3. Held(p) /\ \A d \in Dir : q \notin Targets(d)
    BY <2>1, NotTest DEF PrivateInv, Held, TargetSteps, Steps
  <2>4. <<"probe", "alloc">> \notin Tests \X BufferSteps
    BY DEF BufferSteps
  <2> QED BY <1>4, <2>1, <2>2, <2>3, <2>4 DEF Held, ProbeEntry
<1>5. CASE ProbeAlloc(q)
  <2>1. CASE allocated' = allocated \cup {q} /\ Goto(q, "probe", "open")
    BY <1>0, <1>2, <1>5, <2>1, GotoPc DEF ProbeAlloc, Tests
  <2>2. CASE Return(q) /\ UNCHANGED allocated
    <3> SUFFICES ASSUME NEW p \in Callers PROVE Held(p)'
      BY DEF PrivateInv
    <3>1. \A d \in Dir : Targets(d)' = Targets(d) /\ q \notin Targets(d)
      BY <1>0, <1>1, <1>5, SameTargets DEF ProbeAlloc, Tests
    <3>2. Idle \notin Tests \X BufferSteps
      BY NotTest DEF BufferSteps
    <3> QED BY <1>0, <2>2, <3>1, <3>2, ReturnPc DEF PrivateInv, Held
  <2> QED BY <1>5, <2>1, <2>2 DEF ProbeAlloc
<1>6. CASE ProbeRestore(q)
  BY <1>0, <1>1, <1>6, SameTargets, TestStep DEF ProbeRestore, Tests
<1>7. ASSUME NEW h \in Tests, NEW next \in {"restore", "free"}, SelfTest(q, h, next)
      PROVE  PrivateInv'
  <2>1. CASE BringUp(q, h, "termTx")
    BY <2>1, TestBringUpPrivate
  <2>2. CASE TestTerminate(q, h, "tx", "termTx", "termRx")
    <3>1. Targets("tx")' = {} /\ \A d \in Dir : Targets(d)' \subseteq Targets(d)
      BY <1>0, <2>2, TerminateTargets DEF TestTerminate
    <3> QED BY <1>0, <2>2, <3>1, TestStep DEF TestTerminate, TargetSteps
  <2>3. CASE TestTerminate(q, h, "rx", "termRx", "clear")
    <3>1. Targets("rx")' = {} /\ \A d \in Dir : Targets(d)' \subseteq Targets(d)
      BY <1>0, <2>3, TerminateTargets DEF TestTerminate
    <3>2. q \notin Targets("tx")
      BY <1>0, <1>1, <2>3 DEF TestTerminate, TargetSteps
    <3> QED BY <1>0, <2>3, <3>1, <3>2, TestStep DEF TestTerminate, TargetSteps
  <2>4. CASE TestClear(q, h, next)
    BY <1>0, <1>1, <2>4, SameTargets, TestStep DEF TestClear
  <2>5. CASE TestFree(q, h)
    <3> SUFFICES ASSUME NEW p \in Callers PROVE Held(p)'
      BY DEF PrivateInv
    <3>1. \A d \in Dir : Targets(d)' = Targets(d) /\ q \notin Targets(d)
      BY <1>0, <1>1, <2>5, SameTargets DEF TestFree
    <3>2. Idle \notin Tests \X BufferSteps
      BY NotTest DEF BufferSteps
    <3> QED BY <1>0, <2>5, <3>1, <3>2, ReturnPc DEF TestFree, PrivateInv, Held
  <2> QED BY <1>7, <2>1, <2>2, <2>3, <2>4, <2>5 DEF SelfTest
<1> QED BY <1>3, <1>4, <1>5, <1>6, <1>7 DEF dma_diag_test, sram_addr_probe, Tests

\* Everything that is not a self test: starts, stops, SET_DMA_DIR, rmmod,
\* insmod and callbacks never add a caller's buffer to a channel.
LEMMA OthersPrivate ==
  ASSUME TypeOK, PrivateInv,
         \/ \E q \in Callers : \/ start_cyclic_dma(q) \/ start_sram_dma(q)
                               \/ stop_cyclic_dma(q) \/ set_dma_dir(q)
         \/ StopSteps(Rmmod) \/ rp1_pio_sram_exit \/ rp1_pio_sram_init
         \/ \E d \in Dir : Words(d)
  PROVE  PrivateInv'
<1> USE DEF memVars, hwVars, dmaVars, drvVars, ctlVars
<1>0. /\ {"start", "sram", "stop", "setdir", "exit"} \cap Tests = {}
      /\ "tx" \in Dir /\ "rx" \in Dir /\ Callers \subseteq Procs /\ Rmmod \in Procs
  BY DEF Tests, Dir, Procs
<1>1. ASSUME NEW q \in Callers,
             StartEntry(q) \/ StartMark(q) \/ SramEntry(q) \/ SramMark(q) \/ SramUnmap(q)
      PROVE  PrivateInv'
  <2>1. /\ pc[q] \notin Tests \X Steps /\ pc'[q] \notin Tests \X Steps
        /\ \A p \in Callers \ {q} : pc'[p] = pc[p]
    BY <1>0, <1>1, EnterPc, ReturnPc, NotTest
       DEF StartEntry, StartMark, SramEntry, SramMark, SramUnmap, At
  <2> QED BY <1>0, <1>1, <2>1, SameTargets, OutsideStep
          DEF StartEntry, StartMark, SramEntry, SramMark, SramUnmap
<1>2. ASSUME NEW q \in Callers, SetDirCheck(q) \/ SetDirWrite(q) PROVE PrivateInv'
  <2>1. /\ pc[q] \notin Tests \X Steps /\ pc'[q] \notin Tests \X Steps
        /\ \A p \in Callers \ {q} : pc'[p] = pc[p]
    BY <1>0, <1>2, EnterPc, ReturnPc, NotTest DEF SetDirCheck, SetDirWrite, At
  <2> QED BY <1>0, <1>2, <2>1, SameTargets, OutsideStep DEF SetDirCheck, SetDirWrite
<1>3. ASSUME NEW q \in Procs, StopEntry(q) \/ StopSteps(q) PROVE PrivateInv'
  <2>1. pc[q] \notin Tests \X Steps /\ allocated \cap Callers \subseteq allocated'
    BY <1>0, <1>3, NotTest DEF StopEntry, StopSteps, StopDreq, StopTerminate, StopClear,
       StopMark, StopVerify, StopUnmap, At
  <2>2. /\ pc'[q] \notin Tests \X Steps
        /\ \A p \in Callers \ {q} : pc'[p] = pc[p]
    <3>1. CASE StopEntry(q)
      BY <1>0, <3>1, NotTest DEF StopEntry, TypeOK
    <3>2. CASE StopSteps(q)
      <4>1. \/ \E s \in Steps : Goto(q, "stop", s)
            \/ Goto(q, "exit", "free") \/ Return(q)
        BY <3>2 DEF StopSteps, StopDreq, StopTerminate, StopClear, StopMark, StopVerify,
           StopUnmap, Steps
      <4> QED BY <1>0, <4>1, GotoPc, ReturnPc, NotTest
    <3> QED BY <1>3, <3>1, <3>2
  <2>3. \A p \in Callers, d \in Dir : p \in Targets(d)' => p \in Targets(d)
    <3>1. ASSUME NEW d \in Dir, NEW s, NEW next, StopTerminate(q, d, s, next)
          PROVE  \A p \in Callers, e \in Dir : p \in Targets(e)' => p \in Targets(e)
      BY <3>1, TerminateTargets, SameTargets DEF StopTerminate, TerminateIf
    <3>2. ASSUME UNCHANGED dmaVars
          PROVE  \A p \in Callers, e \in Dir : p \in Targets(e)' => p \in Targets(e)
      BY <3>2, SameTargets
    <3> QED BY <1>0, <1>3, <3>1, <3>2 DEF StopEntry, StopSteps, StopDreq, StopClear, StopMark,
            StopVerify, StopUnmap
  <2> QED BY <2>1, <2>2, <2>3, OutsideStep
<1>4. CASE rp1_pio_sram_exit
  <2>1. /\ pc[Rmmod] \notin Tests \X Steps /\ pc'[Rmmod] \notin Tests \X Steps
        /\ \A p \in Callers \ {Rmmod} : pc'[p] = pc[p]
    <3>1. CASE ExitEntry
      BY <1>0, <3>1, NotTest DEF ExitEntry, Quiet, TypeOK
    <3>2. CASE ExitFree \/ ExitRelease \/ ExitClose
      BY <1>0, <3>2, GotoPc, ReturnPc, NotTest DEF ExitFree, ExitRelease, ExitClose, At
    <3> QED BY <1>4, <3>1, <3>2 DEF rp1_pio_sram_exit
  <2>2. allocated \cap Callers \subseteq allocated'
    BY <1>4, ProcsAssumption DEF rp1_pio_sram_exit, ExitEntry, ExitFree, ExitRelease, ExitClose
  <2>3. \A p \in Callers, d \in Dir : p \in Targets(d)' => p \in Targets(d)
    <3>1. CASE ExitRelease
      BY <3>1, ProcsAssumption DEF ExitRelease, Targets
    <3>2. CASE UNCHANGED dmaVars
      BY <3>2, SameTargets
    <3> QED BY <1>4, <3>1, <3>2 DEF rp1_pio_sram_exit, ExitEntry, ExitFree, ExitClose
  <2> QED BY <1>0, <2>1, <2>2, <2>3, OutsideStep
<1>5. CASE rp1_pio_sram_init \/ \E d \in Dir : Words(d)
  <2>1. UNCHANGED pc /\ UNCHANGED dmaVars /\ allocated \cap Callers \subseteq allocated'
    BY <1>5 DEF rp1_pio_sram_init, Words, MoveWords
  <2> QED BY <2>1, SameTargets DEF PrivateInv, Held
<1>6. ASSUME NEW q \in Callers, start_cyclic_dma(q) \/ start_sram_dma(q) PROVE PrivateInv'
  BY <1>1, <1>6, StartBringUpPrivate DEF start_cyclic_dma, start_sram_dma
<1> QED BY <1>0, <1>2, <1>3, <1>4, <1>5, <1>6 DEF stop_cyclic_dma, set_dma_dir

\* However many processes issue ioctls at the same time, and whichever calls
\* fail, dma_diag_test and sram_addr_probe never free a buffer a DMA channel
\* still reads or writes.
THEOREM PrivateBuffers == Spec => []PrivateBufferSafe
<1>1. Init => PrivateInv
  <2> SUFFICES ASSUME Init, NEW p \in Callers PROVE Held(p)
    BY DEF PrivateInv
  <2>1. \A d \in Dir : Targets(d) = {}
    BY DEF Init, Targets
  <2>2. pc[p] = Idle /\ Idle \notin Tests \X BufferSteps
    BY NotTest DEF Init, Procs, BufferSteps
  <2> QED BY <2>1, <2>2 DEF Held
<1>2. TypeOK /\ PrivateInv /\ [Next]_vars => PrivateInv'
  <2> SUFFICES ASSUME TypeOK, PrivateInv, [Next]_vars PROVE PrivateInv'
    OBVIOUS
  <2>1. ASSUME NEW p \in Callers, dma_diag_test(p) \/ sram_addr_probe(p) PROVE PrivateInv'
    BY <2>1, SelfTestPrivate
  <2>2. CASE UNCHANGED vars
    <3>1. UNCHANGED pc /\ UNCHANGED dmaVars /\ UNCHANGED allocated
      BY <2>2 DEF vars, memVars, hwVars, dmaVars, ctlVars
    <3> QED BY <3>1, SameTargets DEF PrivateInv, Held
  <2> QED BY <2>1, <2>2, OthersPrivate DEF Next, rp1_pio_sram_ioctl
<1>3. PrivateInv => PrivateBufferSafe
  BY PrivateInvImplies
<1> QED BY <1>1, <1>2, <1>3, TypeCorrect, PTL DEF Spec

=============================================================================
