------------------------------ MODULE LoopBench ------------------------------
(***************************************************************************)
(* One run of a benchmark that loops words through the PIO with piolib:    *)
(* throughput_pioloop_piolib (programs "dma" and "blocking", its two       *)
(* modes), throughput_gpioloop_piolib ("gpio"), and the piolib baseline of *)
(* throughput_pioloop_cyclic ("baseline").                                 *)
(***************************************************************************)
EXTENDS PioTransfer, FiniteSets

CONSTANTS
  Warmup, Iterations,  \* cfg.warmup, cfg.iterations
  MaxRounds,           \* rounds the baseline gets done before its deadline
  Random               \* xorshift32: the words a seed leads to

Total    == Warmup + Iterations
Programs == {"dma", "blocking", "gpio", "baseline"}
Patterns == {"sequential", "ones", "alternating", "random", "other"}

ASSUME BenchAssumption ==
  /\ Warmup \in Nat /\ Iterations \in Nat \ {0} /\ MaxRounds \in Nat
  /\ Random \in [1..Total -> [Index -> Word \ {Zero}]]

VARIABLES
  opt,     \* the command line
  at,      \* next statement of main
  iter,    \* iterations done, warm-up included; rounds of the baseline
  errors,  \* total_errors
  bufs,    \* the buffers are allocated
  good,    \* every measured word arrived, with the transfer of its iteration
  missed,  \* thresholds the aggregate throughput fell short of
  result,  \* exit status: "none", "pass" (0) or "fail"
  json     \* the verdict a JSON report shows

countVars == <<iter, errors, good>>
endVars   == <<missed, result, json>>
benchVars == <<opt, at, bufs, countVars, endVars>>
vars == <<transferVars, benchVars>>

\* --threshold, and the 10 MB/s the JSON report is printed with; either may be
\* the larger one.
Thresholds == {"cli", "fixed"}

Options ==
  [program : Programs \ {"baseline"}, pattern : Patterns, verify : BOOLEAN]
    \cup [program : {"baseline"}, pattern : {"tagged"}, verify : {TRUE}]

Is(p)     == opt.program = p
Threads   == ~Is("blocking")
Goto(s)   == at' = s
Abandon(s) == Goto(s) /\ result' = "fail"

-----------------------------------------------------------------------------
(* Words.                                                                  *)

\* The number of the word, bit by bit.
Sequential(i) ==
  [b \in 1..Bits |-> IF ((i - 1) \div 2 ^ (Bits - b)) % 2 = 1 THEN 1 ELSE 0]

bench_fill_pattern(pattern, seed) ==
  [i \in Index |->
    CASE pattern = "sequential"  -> Sequential(i)
      [] pattern = "ones"        -> Not(Zero)
      [] pattern = "alternating" -> [b \in 1..Bits |-> (b + i + 1) % 2]
      [] pattern = "random"      -> Random[seed][i]
      [] pattern = "tagged"      -> [Sequential(i) EXCEPT ![1] = 1]
      [] pattern = "other"       -> Zero]

\* memset: 0x00, 0xCC (bit 0 of every word is 0), and 0xDD for the baseline.
Cleared == [i \in 1..DmaWords |-> IF prog = "pins" THEN 0
                                  ELSE IF Is("baseline") THEN Not(Zero) ELSE Zero]

\* Where the DMA put bit b of word i.
Slot(i, b) == RX_SKIP + (i - 1) * Bits + b

compress_rx(i) == [b \in 1..Bits |-> rx[Slot(i, b)]]

\* bench_verify_not, bench_verify_identity and the loop of the baseline.
Mismatches ==
  IF prog = "pins" THEN {i \in Index : compress_rx(i) # src[i]}
                   ELSE {i \in Index : rx[i] # Not(src[i])}

\* Word i is the one sent at its position and, unless it is what a cleared
\* buffer holds anyway, this transfer has put it there.
Arrived(i) ==
  IF prog = "pins"
  THEN \A b \in 1..Bits : /\ rx[Slot(i, b)] = src[i][b]
                          /\ src[i][b] # 0 => Slot(i, b) \in fresh
  ELSE rx[i] = Not(src[i]) /\ (Not(src[i]) # Zero => i \in fresh)

-----------------------------------------------------------------------------
(* Setup: claim a state machine, load the program, configure DMA, allocate.*)

Open ==
  /\ at = "open"
  /\ \/ prog' = (IF Is("gpio") THEN "pins" ELSE "not")
        /\ Goto(IF Is("baseline") THEN "alloc" ELSE "config")
        /\ UNCHANGED <<result, clean>>
     \/ prog' = "none" /\ Abandon("done") /\ clean' = FALSE
  /\ UNCHANGED <<en, cold, txf, rxf, bufVars, xferVars, faults,
                 opt, bufs, countVars, missed, json>>

\* config_xfer and set_dmactrl, where DMA is used, and enable; GPIO does all of
\* it in each transfer.
Config ==
  /\ at = "config"
  /\ \/ /\ Goto(IF Is("baseline") THEN "loop" ELSE "alloc") /\ en' = ~Is("gpio")
        /\ UNCHANGED <<result, clean>>
     \/ /\ Is("dma") \/ Is("baseline")
        /\ Abandon(IF Is("dma") THEN "release" ELSE "free")
        /\ clean' = FALSE /\ UNCHANGED en
  /\ UNCHANGED <<prog, cold, txf, rxf, bufVars, xferVars, faults,
                 opt, bufs, countVars, missed, json>>

\* The baseline clears its receive buffer here, the others in each iteration.
Allocate ==
  /\ at = "alloc"
  /\ \/ /\ Goto(IF Is("baseline") THEN "config" ELSE "loop")
        /\ bufs' = TRUE /\ rx' = Cleared
        /\ UNCHANGED <<result, clean>>
     \/ Abandon("free") /\ clean' = FALSE /\ UNCHANGED <<bufs, rx>>
  /\ UNCHANGED <<pioVars, src, fresh, xferVars, faults,
                 opt, countVars, missed, json>>

-----------------------------------------------------------------------------
(* One iteration.                                                          *)

\* Mutant: one iteration too many.
Loop_past ==
  /\ at = "loop"
  /\ Goto(IF iter <= Total THEN "fill" ELSE "report")
  /\ UNCHANGED <<transferVars, opt, bufs, countVars, endVars>>

\* Warm-up and measured iterations; the baseline goes on until its deadline.
Loop ==
  /\ at = "loop"
  /\ IF Is("baseline")
     THEN Goto("report") \/ (iter < MaxRounds /\ Goto("fill"))
     ELSE Goto(IF iter < Total THEN "fill" ELSE "report")
  /\ UNCHANGED <<transferVars, opt, bufs, countVars, endVars>>

\* Mutant: the receive buffer keeps what the previous iteration received.
Fill_noClear ==
  /\ at = "fill"
  /\ src' = bench_fill_pattern(opt.pattern, iter + 1)
  /\ fresh' = {} /\ moved' = [d \in Dir |-> 0]
  /\ Goto(IF Is("gpio") THEN "reset" ELSE IF Threads THEN "first" ELSE "put")
  /\ UNCHANGED <<pioVars, rx, thread, noteVars, opt, bufs, countVars, endVars>>

\* The baseline fills and clears only once, before its loop.
Fill ==
  /\ at = "fill"
  /\ src' = bench_fill_pattern(opt.pattern, iter + 1)
  /\ rx' = IF Is("baseline") THEN rx ELSE Cleared
  /\ fresh' = {} /\ moved' = [d \in Dir |-> 0]
  /\ Goto(IF Is("gpio") THEN "reset" ELSE IF Threads THEN "first" ELSE "put")
  /\ UNCHANGED <<pioVars, thread, noteVars, opt, bufs, countVars, endVars>>

\* Mutant: the FIFOs keep the words the last transfer left.
ResetSm_keepFifos ==
  /\ at = "reset" /\ Goto("first")
  /\ en' = FALSE /\ cold' = TRUE
  /\ UNCHANGED <<prog, txf, rxf, bufVars, xferVars, noteVars,
                 opt, bufs, countVars, endVars>>

\* GPIO: disable, clear the FIFOs, restart and initialise, configure DMA.
ResetSm ==
  /\ at = "reset" /\ Goto("first")
  /\ en' = FALSE /\ cold' = TRUE
  /\ txf' = <<>> /\ rxf' = <<>>
  /\ UNCHANGED <<prog, bufVars, xferVars, noteVars,
                 opt, bufs, countVars, endVars>>

\* pthread_create: TX and RX, for GPIO RX and TX.  Whether it worked is not
\* looked at; without a thread its result stays the 0 it was initialised to.
Spawn(s, d, next) ==
  /\ at = s /\ Goto(next)
  /\ \/ thread' = [thread EXCEPT ![d] = "kernel"] /\ UNCHANGED clean
     \/ thread' = [thread EXCEPT ![d] = "unborn"] /\ clean' = FALSE
  /\ UNCHANGED <<pioVars, bufVars, moved, faults, opt, bufs, countVars, endVars>>

SpawnFirst  == Spawn("first", IF Is("gpio") THEN "rx" ELSE "tx", "second")
SpawnSecond == Spawn("second", IF Is("gpio") THEN "tx" ELSE "rx",
                     IF Is("gpio") THEN "enable" ELSE "joinTx")

\* After usleep(2000), which makes it likely that both calls are in the kernel.
Enable ==
  /\ at = "enable" /\ Goto("joinTx")
  /\ en' = TRUE
  /\ UNCHANGED <<prog, cold, txf, rxf, bufVars, xferVars, noteVars,
                 opt, bufs, countVars, endVars>>

\* Mutant: a failed TX call ends the transfer without waiting for RX.
JoinTx_early ==
  /\ at = "joinTx" /\ ~InKernel("tx")
  /\ Goto(IF thread["tx"] = "error" THEN "judge" ELSE "joinRx")
  /\ UNCHANGED <<transferVars, opt, bufs, countVars, endVars>>

JoinTx ==
  /\ at = "joinTx" /\ ~InKernel("tx") /\ Goto("joinRx")
  /\ UNCHANGED <<transferVars, opt, bufs, countVars, endVars>>

JoinRx ==
  /\ at = "joinRx" /\ ~InKernel("rx") /\ Goto("judge")
  /\ en' = (en /\ ~Is("gpio"))
  /\ UNCHANGED <<prog, cold, txf, rxf, bufVars, xferVars, noteVars,
                 opt, bufs, countVars, endVars>>

\* pthread_join of an id pthread_create never set: nothing happens (JoinTx,
\* JoinRx), or the process dies and everything it held goes with it.
Crash ==
  /\ \/ at = "joinTx" /\ thread["tx"] = "unborn"
     \/ at = "joinRx" /\ thread["rx"] = "unborn"
  /\ Abandon("done")
  /\ prog' = "none" /\ en' = FALSE /\ bufs' = FALSE
  /\ thread' = [d \in Dir |-> "none"]
  /\ UNCHANGED <<cold, txf, rxf, bufVars, moved, noteVars, opt, countVars, missed, json>>

\* Without DMA: a word is put and its answer taken, one after the other.
Put ==
  /\ at = "put" /\ Goto("get")
  /\ txf' = Append(txf, src[moved["rx"] + 1])
  /\ UNCHANGED <<prog, en, cold, rxf, bufVars, xferVars, noteVars,
                 opt, bufs, countVars, endVars>>

Get ==
  /\ at = "get" /\ rxf # <<>>
  /\ rx' = [rx EXCEPT ![moved["rx"] + 1] = Head(rxf)] /\ rxf' = Tail(rxf)
  /\ fresh' = fresh \cup {moved["rx"] + 1}
  /\ moved' = [moved EXCEPT !["rx"] = @ + 1]
  /\ Goto(IF moved["rx"] + 1 = Words THEN "judge" ELSE "put")
  /\ UNCHANGED <<prog, en, cold, txf, src, thread, noteVars,
                 opt, bufs, countVars, endVars>>

Failed == \E d \in Dir : thread[d] = "error"

\* Mutant: a failed transfer is tried again.
Fail_retry ==
  /\ at = "judge" /\ Failed /\ ~Is("baseline")
  /\ Goto("fill")
  /\ UNCHANGED <<transferVars, opt, bufs, countVars, endVars>>

\* A failed transfer ends the program, in a warm-up iteration too.
Fail ==
  /\ at = "judge" /\ Failed /\ ~Is("baseline")
  /\ Abandon("free")
  /\ UNCHANGED <<transferVars, opt, bufs, countVars, missed, json>>

\* In the baseline it is an error, and the next round goes on with whatever
\* the FIFOs hold.
GoOn ==
  /\ at = "judge" /\ Failed /\ Is("baseline")
  /\ Goto("loop") /\ iter' = iter + 1 /\ errors' = errors + 1
  /\ UNCHANGED <<transferVars, opt, bufs, good, endVars>>

Measured == Is("baseline") \/ iter >= Warmup

\* The baseline counts bad rounds, the others bad words.
Counted ==
  IF ~(Measured /\ opt.verify) \/ Mismatches = {} THEN 0
  ELSE IF Is("baseline") THEN 1 ELSE Cardinality(Mismatches)

Verify ==
  /\ at = "judge" /\ ~Failed
  /\ Goto("loop") /\ iter' = iter + 1
  /\ errors' = errors + Counted
  /\ good' = (good /\ (Measured => \A i \in Index : Arrived(i)))
  /\ UNCHANGED <<transferVars, opt, bufs, endVars>>

-----------------------------------------------------------------------------
(* The end.                                                                *)

\* bench_print_verdict decides the exit status, with --threshold; the verdict
\* in a JSON report is made of a fixed threshold.  The baseline has none.
Report ==
  /\ at = "report" /\ Goto("free")
  /\ missed' \in (IF Is("baseline") THEN {{}} ELSE SUBSET Thresholds)
  /\ result' = IF errors = 0 /\ "cli" \notin missed' THEN "pass" ELSE "fail"
  /\ json' = IF errors = 0 /\ "fixed" \notin missed' THEN "pass" ELSE "fail"
  /\ UNCHANGED <<transferVars, opt, bufs, countVars>>

\* No memory for the scratch buffer of the statistics.
NoScratch ==
  /\ at = "report" /\ ~Is("baseline")
  /\ Abandon("free") /\ clean' = FALSE
  /\ UNCHANGED <<pioVars, bufVars, xferVars, faults,
                 opt, bufs, countVars, missed, json>>

Free ==
  /\ at = "free" /\ Goto("release")
  /\ bufs' = FALSE
  /\ UNCHANGED <<transferVars, opt, countVars, endVars>>

\* Disable, remove the program, release; pio_teardown of the baseline also clears
\* the FIFOs.
Release ==
  /\ at = "release" /\ Goto("done")
  /\ en' = FALSE /\ prog' = "none"
  /\ txf' = (IF Is("baseline") THEN <<>> ELSE txf)
  /\ rxf' = (IF Is("baseline") THEN <<>> ELSE rxf)
  /\ UNCHANGED <<cold, bufVars, xferVars, noteVars,
                 opt, bufs, countVars, endVars>>

Main ==
  \/ Open \/ Config \/ Allocate \/ Loop \/ Fill \/ ResetSm \/ SpawnFirst \/ SpawnSecond
  \/ Enable \/ JoinTx \/ JoinRx \/ Crash \/ Put \/ Get
  \/ Fail \/ GoOn \/ Verify \/ Report \/ NoScratch \/ Free \/ Release

-----------------------------------------------------------------------------

Waiting  == at \in {"joinTx", "joinRx"}
Channels == FillTx \/ DrainRx \/ \E d \in Dir : Complete(d)
GiveUp   == \E d \in Dir : Timeout(d, Waiting)
Hardware == Channels \/ GiveUp \/ Turn \/ Fault

Init ==
  /\ opt \in Options
  /\ at = "open" /\ iter = 0 /\ errors = 0 /\ bufs = FALSE /\ good = TRUE
  /\ missed = {} /\ result = "none" /\ json = "none"
  /\ prog = "none" /\ en = FALSE /\ cold = FALSE /\ txf = <<>> /\ rxf = <<>>
  /\ src = [i \in Index |-> Zero] /\ rx = <<>> /\ fresh = {}
  /\ thread = [d \in Dir |-> "none"] /\ moved = [d \in Dir |-> 0]
  /\ faults = 0 /\ clean = TRUE

Next == Main \/ (Hardware /\ UNCHANGED benchVars)

\* The program and the state machine go on, and a call into the kernel comes
\* back: with its words moved, or after its time limit.
Fairness ==
  /\ WF_vars(Main)
  /\ WF_vars(Turn /\ UNCHANGED benchVars)
  /\ \A d \in Dir : WF_vars((Complete(d) \/ Timeout(d, Waiting)) /\ UNCHANGED benchVars)

Spec == Init /\ [][Next]_vars /\ Fairness

-----------------------------------------------------------------------------
(* Properties.                                                             *)

Lines == {"open", "config", "alloc", "loop", "fill", "reset", "first", "second",
          "enable", "joinTx", "joinRx", "put", "get", "judge", "report", "free",
          "release", "done"}

\* Types; the iteration stays below the length of throughputs[], the words of
\* a transfer inside the buffers, the FIFOs inside their depth.
TypeOK ==
  /\ opt \in Options /\ at \in Lines
  /\ iter \in 0..(IF Is("baseline") THEN MaxRounds ELSE Total)
  /\ at \in {"fill", "judge"} /\ ~Is("baseline") => iter < Total
  /\ errors \in Nat /\ bufs \in BOOLEAN /\ good \in BOOLEAN /\ missed \subseteq Thresholds
  /\ result \in {"none", "pass", "fail"} /\ json \in {"none", "pass", "fail"}
  /\ prog \in {"none", "not", "pins"} /\ en \in BOOLEAN /\ cold \in BOOLEAN
  /\ prog # "none" => txf \in Seq(DmaWord) /\ rxf \in Seq(DmaWord)
  /\ Len(txf) <= Depth /\ Len(rxf) <= Depth
  /\ src \in [Index -> Word]
  /\ bufs => rx \in [1..DmaWords -> DmaWord] /\ fresh \subseteq 1..DmaWords
  /\ thread \in [Dir -> {"none", "unborn", "kernel", "ok", "error"}]
  /\ moved \in [Dir -> Nat] /\ \A d \in Dir : InKernel(d) => moved[d] <= DmaWords
  /\ faults \in 0..MaxFaults /\ clean \in BOOLEAN

\* A verified run that exits with 0, or whose JSON report says pass, received
\* every measured word; and each of them by the transfer of its own iteration,
\* not from an earlier one, unless it is what a cleared buffer holds.
PassSound ==
  (result = "pass" \/ json = "pass") /\ opt.verify /\ ~Is("baseline") => good

\* A run in which nothing failed or was disturbed, and which did not miss its
\* threshold, passes: no word an iteration leaves behind shifts the next one.
CleanRunPasses ==
  at = "done" /\ clean =>
    /\ "cli" \notin missed => result = "pass"
    /\ "fixed" \notin missed => json = "pass"

\* No buffer is freed, and no state machine given back, while a thread is in a
\* call that uses it, however a transfer fails.
BuffersOutliveTransfers == \A d \in Dir : InKernel(d) => bufs /\ prog # "none"

\* The program ends, also when its transfers hang.
RunEnds == <>(at = "done")

=============================================================================
