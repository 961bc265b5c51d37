# Verification of rpi5-rp1-pio-bench

TLA+ models of the benchmarks in this repository, of the kernel module they
use, and of the RP1 hardware as far as the programs rely on it; TLC
configurations that check the models on small instances; and proofs, checked by
TLAPS, of the results that hold for every instance.

Paths in this file are relative to the repository (`src/`). Short names:

| name | file |
|------|------|
| kmod | `throughput-pioloop-cyclic/kmod/rp1_pio_sram.c` |
| cyclic | `throughput-pioloop-cyclic/throughput_pioloop_cyclic.c` |
| bench | `throughput-pioloop-m3poll/throughput_pioloop_m3poll.c` |
| launcher | `throughput-pioloop-m3poll/core1_launcher.c` |
| bridge | `throughput-pioloop-m3poll/pio_bridge.s` |
| latency5 | `latency-gpioloop/latency_gpioloop.c` |
| latency4 | `latency-gpioloop/latency_gpioloop_rpi4.c` |
| run.py | `latency-gpioloop/run.py` |
| piolib | `throughput-pioloop-piolib/throughput_pioloop_piolib.c` |
| gpioloop | `throughput-gpioloop-piolib/throughput_gpioloop_piolib.c` |
| verify, format | `lib/benchmark_verify.c`, `lib/benchmark_format.c` |

## 1. Inventory

The RP1 is the I/O chip of the Raspberry Pi 5: a PIO block with four state
machines and 8-entry FIFOs, DMA channels, 64 KB of SRAM, and two Cortex-M3
cores. Core 0 runs the vendor firmware that serves PIO calls from the host over
a mailbox. The repository measures how fast a host can move words through a PIO
state machine, in five ways, and how long an edge on a pin takes to be echoed.

| component | state it keeps | operations | interacts with |
|-----------|----------------|------------|----------------|
| kernel module (kmod) | `dma_running`, `dma_dir_mode`, `sram_dma_mode`, `sram_io`, `pio_client`, period counters, verification results, ring buffer | ioctls START, START_SRAM, STOP, STATUS, SET_DMA_DIR, DIAG, PROBE; init, exit; period callbacks | DMA engine, PIO firmware, SRAM, any process that opens the device |
| cyclic benchmark program (cyclic) | state machine it claimed, mapping of the ring buffer | one run of a DRAM, SRAM or diagnostic test, in both directions or one; a piolib baseline to compare with | the driver (ioctls), the PIO, the RX ring |
| loopback program (`pio_loopback.pio`) | words between `out` and `in` | inverts a word | both FIFOs |
| Core 1 launcher (bench `launch_core1`, launcher `main`) | handlers read from the vectors, attempts left | patches interrupt vectors with stubs that execute SEV, triggers Core 0, restores | Core 0 (through SRAM and mailbox), Core 1 (through SRAM and reset) |
| Core 1 bridge benchmark (bench, bridge) | status block, TX and RX buffers in SRAM, word index in a register | moves all words through state machine 3, pass after pass, until told to stop | host and Core 1 share the SRAM; Core 1 polls the FIFOs |
| piolib loopback benchmark (piolib) | two buffers, two threads, the FIFOs, errors counted | setup; per iteration fill, clear, transfer (two DMA threads, or word by word), verify; report, cleanup | piolib's blocking transfer calls, the inverting state machine |
| GPIO loopback benchmark (gpioloop) | the same, and DMA buffers with a bit per word | the same, with a reset of the state machine before each transfer, expansion to bits and compression that skips the start-up word | two pins wired together |
| latency benchmark, RPi5 side (latency5) | two state machines, edges echoed, signal flag | echo edges by PIO (L0), by CPU (L1), by DMA (L2); L3 reads batches and echoes nothing | RPi4 over two wires, `run.py` over SSH |
| latency benchmark, RPi4 side (latency4) | output latch and direction of the stimulus pin, iteration | drive an edge, wait for its echo, record the time | RPi5 over two wires |
| latency orchestrator (run.py) | step of a test, verdict | clean up, start RPi5, run RPi4, interrupt, clean up | both programs, over SSH commands with timeouts |
| shared library (verify, format) | none | fill patterns, compare, verdicts, statistics, formatting | every benchmark |
| frequency benchmark, probe tools, experiments | none worth a model | toggle a pin, dump registers | - |

What is hard about them:

* **Interleaving.** The driver registers `.unlocked_ioctl` and takes no lock, so
  the handlers of two processes interleave at every call that sleeps. The
  launcher changes interrupt vectors under a running core. Host, Core 1 and a
  state machine share memory with nothing but the order of their stores.
* **Teardown order.** DREQ must be off before a channel is terminated; FIFOs may
  be cleared only when nothing moves words; memory may be freed only when no
  channel has a descriptor for it.
* **State that outlives a process.** `release` does nothing, none of the
  throughput programs has a signal handler, Core 1 goes on after the host program
  died, patched vectors stay patched, an output latch stays HIGH.
* **Two machines, no handshake.** The latency test has nothing but levels on two
  wires: RPi4 and RPi5 must agree, edge by edge, on how many there were, and
  neither of the measured loops has a timeout.
* **Threads that may fail alone.** A transfer is two blocking calls in two threads;
  either may not be created (nobody looks at `pthread_create`), fail, hang or time
  out while the other goes on, over buffers the main program frees in the end.
* **What one transfer leaves for the next.** A word too many or too few in a FIFO
  shifts every later transfer; a receive buffer that still holds the words of the
  last iteration verifies.
* **Unchecked timing.** The bridge firmware never looks at the FIFO status, DMA
  bursts never look at the FIFO level, the host assumes that Core 1 stops within
  100 ms.
* **Verdicts.** What a printed PASS means depends on which counters, which ring
  and which verifier were looked at; most of the properties below are about that.

## 2. Modules

| module | models | how the state corresponds |
|--------|--------|---------------------------|
| `DmaSession` | what the driver promises | a session (none, dram, sram), the channels at work, the direction setting |
| `Rp1PioSram` | kmod, control | one variable per global; `pc[p]` is the handler process `p` is in and the next call that may sleep; `act`, `queue` are the DMA channels, `dreq` and `dirty` the PIO block |
| `RingLoopback` | kmod, cyclic and `pio_loopback.pio`, data | FIFOs and state machine as sequences of word indices, DMA bursts in progress, the RX ring, the verifiers |
| `CyclicBench` | cyclic, composed with the whole of `Rp1PioSram` | `at` is the next statement between two ioctls; each ioctl is the handler of `Rp1PioSram`, step by step |
| `Core1Launch` | `launch_core1` of bench and `main` of launcher, Core 0's interrupts, Core 1's start | vectors, stub literals, magic word as SRAM words; the host's loops one store at a time |
| `M3Bridge` | bench after the launch, bridge, state machine 3 | status block and RX buffer word by word; Core 1 one FIFO access or store at a time |
| `PioTransfer` | one transfer of piolib, gpioloop or the baseline: two calls in the kernel, both FIFOs, the state machine of either program, faults | `thread[d]` is where the call of direction `d` is, `moved[d]` the words it has moved; a source word is the function of its bits |
| `LoopBench` | the rest of piolib and gpioloop, the piolib baseline of cyclic, verify, the verdicts of format | `at` is the next statement of `main` and `dma_transfer`; EXTENDS `PioTransfer` and conjoins the program's state to the hardware's actions |
| `EdgeEcho` | latency5 (L0 to L3), latency4, run.py, `edge_detector.pio`, `gpio_echo.pio`, `output_driver.pio` | `step` is the statement of `run_test`, `p5` and `r4` are the statements of the two programs; FIFOs as sequences of levels; each pin is a latch and a direction |
| `MCRp1PioSram`, `MCCyclicBench`, `MCLoopBench` | - | symmetry, the command lines and the random words for TLC |
| `Rp1PioSramProofs`, `SingleCallerProofs`, `CyclicBenchProofs`, `RingLoopbackProofs`, `Core1LaunchProofs`, `M3BridgeProofs`, `LoopBenchProofs`, `EdgeEchoProofs` | - | theorems and proofs |

`Rp1PioSram` refines `DmaSession` (`Session == INSTANCE DmaSession WITH ...`):
a session is what `dma_running` and `sram_dma_mode` say, and a channel is busy
while it has a running descriptor. `CyclicBench` EXTENDS `Rp1PioSram` and
conjoins the program's state to the driver's actions. `RingLoopback` is the data
plane of one session: the control steps that move no word are left to
`Rp1PioSram`, and it starts where START has returned.

Conventions: an action that models a handler or a function carries its name;
definitions that follow the comment "Mutant:" are plausible bugs of the next
definition and take no part in the specification. Bounds on otherwise
unbounded behaviour are constants whose names start with `Max`.

### 2.1 Abstractions

* A word is its index in the test pattern. Inversion is a bijection, so the
  receive side holds the index of the inverted word; a word outside the pattern
  is `Junk`, one never written is `Unwritten`.
* Memory is the name of a region (`dramTx`, `sramRx`, ...), or the process that
  allocated it for a self test.
* A DMA channel is its running descriptor and the set of submitted ones. That a
  cyclic descriptor never completes by itself, and that a busy channel does not
  look at submitted ones, is how the dmaengine API behaves; those definitions
  are marked external.
* Durations are gone: a sleep is a step that may take any time. Where the code
  relies on a sleep being long enough, the guard says so: `Pause` in `M3Bridge`
  waits until Core 1 has stopped, because a pass takes about a millisecond and
  the program sleeps 100. What the program reads if that is ever too short is not
  modelled. `StopCmd` has no such guard: the run may be over before the first pass.
* In `CyclicBench` a channel moves some words of a period, and only sometimes its
  last one; the interrupt, and with it the count, comes with the last. `moved` is
  a history variable, the rings each channel has moved words of since the run
  began. Words of the whole buffer may or may not lie in the half the program
  looks at, words of an RX ring are the first of a period.
* In `M3Bridge` a word is the TX index it was put from; what a comparison sees of it
  is `Val`, which follows the pattern. `seq` and `random` give every index a value
  of its own, `walk` repeats after `Walk` words (32), `fixed` has one value. Runs
  need no `seq`: it is a `walk` that does not repeat within the buffer. A spoilt read
  never looks right, and an empty one only with `fixed`.
* Hardware that is late or disturbed is a nondeterministic fault with a bound on
  how many there may be in one session or run (`MaxFaults`).
* In `RingLoopback` a period is counted when its last word has moved, and
  sessions in one direction are left out (they have no loopback to verify).
* In `LoopBench` a word is the function of its bits, most significant first,
  because the GPIO program splits it into bits. Of a DMA word of that program only
  one bit counts: bit 31 when sent, bit 0 when received. The words `xorshift32`
  makes of a seed are a constant: any words that are not zero.
* There, faults come only while a DMA transfer runs; the word-by-word mode is
  undisturbed, since its program waits for each answer. A call may time out at any
  moment. It counts as a disturbance unless both threads are waited for and no
  word can move: only then has the code itself made the transfer hang. Whether a
  throughput reached `--threshold`, or the 10 MB/s of the JSON report, is open.
  `MaxRounds` stands for the deadline of the baseline. That the program starts with
  empty FIFOs is assumed of claiming a state machine; a failure to load the GPIO
  program, which goes unchecked (gpioloop:313), is left out.
* In `EdgeEcho` a word carries the number of the edge it was pushed for, next to
  its level; the code only looks at the level, the number serves the properties.
  Assumed of the hardware: a pin of the RPi4 keeps its output latch while it is
  an input, a line nobody drives is LOW (both pulls are down), the state machines
  of a killed program stop. Sleeps, poll timeouts and the time limit of the
  measurement may end at any moment. A program that outlives the cleanup at the
  end of its test because that ssh command was lost is killed by the cleanup at
  the start of the next one: losing that one too is out of scope. A test of L3
  starts without cleanup; it is modelled with one RPi5 program at a time, and one
  that times out counts as a lost command.

## 3. Runs

| run | question | bounds and why they suffice |
|-----|----------|-----------------------------|
| `pio` | With one caller, does every order of START, START_SRAM, STOP, SET_DMA_DIR, rmmod and insmod, with every failing call, leave the driver, the channels and the mapping consistent, and does the driver implement `DmaSession`? | no bound on length; one caller means calls do not overlap, which is how the program uses the driver; two mapping identities, enough to leak one or unmap one twice; SRAM sessions only in the default direction (`SramBothWays`), because of the finding `cyclic_sram_rx`; no self test, since it terminates the channels of an open session whoever calls it |
| `pio_unlocked` | May two processes in overlapping handlers make a self test free a buffer a channel still uses? | two callers; a third adds no new pair of steps |
| `ring` | Do bursts lose words, is the stream in order, what do the three verifiers accept? | two periods of two words, FIFOs of two, burst 2: every buffer can be empty, partial and full and wraps more than once; two sessions, since a session depends on what the previous one left; one spoilt word |
| `cyclic` | What do a PASS, an exit and a kill of the benchmark program mean over successive runs? | three runs: one that leaves something behind, one that meets it, one after it; one kill; all command lines but `--sram` with one direction; STOP inside any period, the first too |
| `c1_launch` | Does patching vectors under a running Core 0 ever make it jump wild, and is a reported launch one? | three vectors, so that one is hooked, one is being hooked and one is not; two runs, one kill, two attempts |
| `bridge` | What does the verdict of the bridge benchmark mean? | five words with FIFOs of one, so a shift by a whole pipeline (three words) is shorter than a buffer, and `walk` repeats after four, inside the buffer but not inside the pipeline; two passes a run, any number of runs, each killed anywhere or not, one fault since each reset of Core 1 |
| `bench` | What does exit 0 of the loopback benchmarks mean, does an undisturbed run pass, do buffers outlive the threads that use them, does every run end? | all programs, patterns and options; one warm-up and two measured iterations, so there is a first, a second and one between; two words of two bits, so word and bit order show; FIFOs of one, so every transfer fills and wraps them; one fault, any number of failing calls and missing threads |
| `edge` | Do the loops of the two machines stay together, edge by edge, and does a test end without leaving anything? | one warm-up and two measured round trips, so that the two loops of each program and their border are there; two tests, since a test depends on what the last one left; one lost ssh command, which may be the one that sends SIGINT; all four layers |
| `pio_diag_dreq` | Does every path disable DREQ before it terminates a channel? | finding |
| `cyclic_sram_rx` | Does a DRAM test that passed move DRAM? | finding |
| `c1_stub_cycle` | Does Core 0 return from every interrupt if a program was killed? | finding |
| `edge_round_trip` | Is every recorded latency a round trip of its own edge? | finding |

Deadlock is checked where the system cannot stop by itself (`pio`, `pio_*` and `bridge`). The other
models do stop: their runs are bounded, and a program that has ended its last
run takes no further step.

### 3.1 What the properties say

`Rp1PioSram`: between calls the descriptors and the SRAM mapping are those of the
open session, each of its channels on its own ring with DREQ on, and without a
session neither channel has a descriptor and nothing is mapped, also after every
failed START (`ResourcesMatchSession`). Two things it does not say. DREQ without a
session is not bounded: a START that fails between the two directions
(kmod:322-326) leaves it on for the first, and only the program's teardown takes
it back, which `ReturnsClean` covers. And it is about callers that issue no self
test: the diagnostic (kmod:651) and the probe do not look at `dma_running` and
terminate the channels of an open session, even for a single caller. A session begins with empty FIFOs (`CleanStart`); rmmod
never frees the ring under a channel (`RingBufferSafe`); DREQ is off before STOP or rmmod terminates a channel
that transfers (`TeardownWithDreqOff`; the error exits of START leave DREQ on, but
terminate only channels that were not issued yet); the
reported bytes are the session's own (`CountsOwnSession`); a buffer a self test
frees is under no channel (`PrivateBufferSafe`); the abstract specification
(`SessionSpec`).

`RingLoopback`: a threshold of at least a burst loses no word, also while STOP
clears the FIFOs (`NoLoss`); up to what the previous session left in the state
machine, the words in both FIFOs, the state machine and the RX ring are
consecutive (`InOrder`); an undisturbed session that went round the ring passes
all three verifiers wherever STOP hits it (`CleanSessionPasses`); a pass of the self test,
which judges each period alone, means that the whole ring is in order, from the
last slot to the first too (`DiagSound`); a session makes progress (`SessionFills`).

`CyclicBench`: PASS is printed only if, in each direction the command line asked
for, the channel moved words of the run's own ring, and moved and counted nothing
else (`HonestPass`). It does not say that a period was counted in each direction,
and the code does not ensure it: the test in both directions looks at the TX bytes
(cyclic:460) and at an RX ring that may be torn (cyclic:426), so that a STOP inside
the first RX period passes with none counted. Whatever fails, a
run that was not killed leaves no session, no channel, no DREQ and the default
direction (`ReturnsClean`); a session left by a killed run is never stopped by a
later one (`OnlyOwnerStops`); every run ends (`RunEnds`).

`Core1Launch`: Core 0 never enters a stub that is not written (`NoWildJump`); a
run that was not killed leaves every vector restored (`VectorsRestored`); success
is only reported for the firmware of this run (`LaunchHonest`); Core 0 returns
from every interrupt (`Core0ReturnsUnkilled`); every run ends (`LaunchEnds`).

`M3Bridge`: PASS means that no word is stuck in the state machine, with and without
verify, and in verify mode also that no word of any pass looked wrong, not only of
the last one (`PassSound`). The first half excepts the pattern `fixed`: all its words
are equal, so with it a late read shifts the stream unnoticed, and PASS is printed
with a word left in the state machine. An undisturbed run that made a pass gets
PASS whatever an earlier, killed one left (`CleanRunPasses`); one stopped before its
first pass fails on the cleared RX buffer. Words, passes and first sample of a
report belong together and to this run, also when a killed run's Core 1 still
counted into the status block (`StatsConsistent`); Core 1 stops when told to, or
never began (`StopObeyed`).

`LoopBench`: a verified run that exits with 0 or whose JSON report says pass
received every measured word, in the transfer of its own iteration, unless the
word is what a cleared buffer holds anyway (`PassSound`). The exception is real:
with the pattern `ones` the inverted words are zeros, which the memset already
wrote, so with that pattern piolib can pass without a word having moved. An
undisturbed run passes: no iteration leaves a word that shifts the next
(`CleanRunPasses`). No buffer is freed and no state machine given back under a
call that uses it (`BuffersOutliveTransfers`). Every run ends, also when its
transfers hang (`RunEnds`). Iterations stay inside `throughputs[]`, words inside
the buffers (`TypeOK`).

`EdgeEcho`: the echo that ends a measurement is the one of the edge just driven
(`OwnEcho`), and while both sides wait and hold their pins, exactly one edge is
under way between the two (`NeverBothWait`); both hold unless an output latch was
HIGH when the test began, which is the finding below. The count of edges run.py
gives the RPi5 lasts as long as the RPi4 needs it (`BudgetCovers`), unless
`cleanup_pins` takes the stimulus pin from an RPi4 program it failed to kill; a passed L1 or L2 test
sent every edge it timed through the CPU of the RPi5 (`PassedThroughCpu`); after
a test, however it ended, no program runs and no pin is driven
(`LeavesNothing`); every test ends (`TestEnds`), also when the SIGINT for the L0
program comes between its test of `g_running` and its `pause()` and is lost
(latency5:134), or when the ssh that sends it fails with 255, which run.py ignores
(run.py:361): then the program ends by run.py's timeout and the kill of the cleanup.

### 3.2 Fairness

* `Core1Launch`: weak fairness of the host program, of the stubs and handlers
  Core 0 is in and of Core 1's start; strong fairness of taking the doorbell
  interrupt, because Core 0 returns to thread mode again and again and the
  interrupt stays pending: it may lose against others, not forever. No fairness
  of the other interrupts, which may never come, nor of kills. The fairness of the
  host program includes its mailbox call coming back, with an answer or, since the
  ioctl has a time limit, with a timeout.
* `M3Bridge`: weak fairness of Core 1 and of the two halves of the state machine,
  which have clocks of their own. None of the host.
* `RingLoopback`: weak fairness of each channel and each half of the state
  machine; none of START and STOP.
* `CyclicBench`: weak fairness of the program and of the handler it is in; none
  of the hardware, of rmmod, or of kills. So `RunEnds` does not rest on data
  moving.
* `LoopBench`: weak fairness of the main program and of the state machine, and per
  direction of the call coming back, with its words or with a timeout, which the
  kernel bounds. None of a transfer making progress, and none of faults.
* `EdgeEcho`: weak fairness of run.py within a test, of both programs and of the
  state machines, which all run on processors of their own. None of a next
  test, and none of the RPi4's timeouts, interrupts and failures (`GiveUp`,
  `MmapFails`): so
  `TestEnds` rests on run.py's own time limits when the measurement hangs.

### 3.3 Findings

* `cyclic_sram_rx`: STOP picks the channels by `dma_dir_mode`, an SRAM session
  always runs both. `--sram --rx-only` leaves the TX channel on its SRAM ring;
  the next `--tx-only` run reports that ring's periods as DRAM throughput.
* `c1_stub_cycle`: after a kill between patching and restoring, the next run
  writes the address of a stub into the literal of that same stub; Core 0 never
  leaves the interrupt.
* `pio_diag_dreq`: the diagnostic and the probe terminate channels with DREQ on,
  which the driver's comment forbids.
* `edge_round_trip`: the RPi4 program makes the stimulus pin an output before it
  sets it LOW. After a test that was killed with the stimulus HIGH, the latch
  still is, the setup sends a pulse, and the RPi5 echoes two edges the RPi4 did
  not drive. From then on each response belongs to an earlier edge, and the test
  passes with times that are too short.

Seen while modelling, without a run: the launcher's DESIGN.md (line 11) says that
the stub restores its vector, but the stub holds no store and the host restores
it; the driver's verdict drops all errors as soon as one period is torn
(kmod:482), where its comment asks for all; the latency DESIGN.md (line 64) gives
the RPi5 a margin of edges, run.py gives it none (and `BudgetCovers` shows that
it needs none); the RPi4 takes the LOW of an RPi5 that failed on the very last
edge for its echo, so such a test passes (only rising edges are timed); the probe overwrites 1024 words and puts
back eight (kmod:983), and its error exits put back nothing; STATUS describes
the half-buffer layout also for a session in one direction (kmod:1054); two
STOPs that overlap may both call `iounmap` (kmod:495), and two STARTs that
overlap both submit (kmod:247). The verdict in a JSON report uses a fixed 10 MB/s
(format:138, 155) where the exit status uses `--threshold`, so the two may differ;
gpioloop moves at most 3.125 MB/s, so its JSON report never says pass. The
baseline clears its receive buffer once (cyclic:589) and goes on after a failed
transfer with whatever the FIFOs hold (cyclic:644): words left over shift the
rest of the run, and after the first round words of an earlier round verify. No
benchmark looks at the result of `pthread_create` (piolib:99, gpioloop:152): a
missing thread counts as a call that worked, and its id is joined uninitialised.
The time of all iterations that piolib reports next to that of each contains the
filling and verifying (piolib:336-366). A test of L3 that times out leaves its
program running (run.py:459) until a later test cleans up. The frequency
benchmark takes any mean accuracy above 95% as a match, without an upper bound
(`frequency-gpiotoggle/run.py:229`).

## 4. Proofs

All theorems hold for every value of the constants that satisfies the named
assumptions; TLC evaluates the assumptions in every run.

`Rp1PioSramProofs` (any set of callers, any calls and faults):

* `TypeCorrect`: `Spec => []TypeOK`. `TypeOK` is inductive.
* `PrivateBuffers`: `Spec => []PrivateBufferSafe`, with handlers interleaving in
  every way. The invariant has to say who owns a buffer: `PrivateInv` ties the
  buffer of `p` to the steps of `p`'s self test, so that a channel can target it
  only between `p`'s submit and the end of `p`'s two terminates, and bars every
  other handler from submitting it. The interesting case is a second process
  that restarts the channel between the two terminates.

`SingleCallerProofs` (`Single`: one caller, which issues no self test; SRAM sessions in
the default direction only, as in run `pio`; any failing calls, any number of
mappings):

* `SingleInv`: at most one process is in a handler, and `Local` says for each step
  of each handler what is in use there: which descriptors of which ring each
  direction has (`Engine`), where DREQ is on and where it must be off (`Requests`),
  what has been counted (`Counts`), where words may be in the FIFOs (`Fresh`), and
  how the flags and the mapping go together (`Flags`). One lemma per step of the
  driver shows that it leads from one row of that table to the next.
* `OneCallerResources`, `OneCallerCounts`, `OneCallerRing`: the rows at rest, and
  those behind the free of the ring. The row at rest without a session leaves DREQ
  open, as `ResourcesMatchSession` does.
* `OneCallerClean`, `OneCallerTeardown`: two results the driver does not look at have
  to be assumed, that clearing the FIFOs and that switching DREQ off succeeds.
  Without them both properties fail.
* `OneCallerRefines`: every step is one of `DmaSession` or a stutter. An issue arms a
  direction, the end of START finds armed exactly the directions it opens, each
  terminate quiets one, and STOP closes with both channels quiet.

`CyclicBenchProofs` (any number of runs, any failing calls; the program is the one
caller of `SingleCallerProofs`, whose lemmas it uses step by step):

* `OwnersOnly` (any number of kills, any command line): `OwnerInv`, a program that
  is about to call STOP, or is inside it up to `dma_running = false`, belongs to the
  run that started the session. A run without a session of its own got -EBUSY and
  goes round STOP; with one that failed `dma_running` is off, and the program does
  not call STOP either. A call of the program and rmmod exclude each other.
* `HandsOnClean` and `HonestPasses` speak of runs before the first kill and assume
  `ServedOnly`: no SRAM test in one direction, which the finding `cyclic_sram_rx`
  shows to break both. `HandsOnClean` also assumes that switching DREQ off succeeds:
  nobody looks at the result, neither STOP nor the program's teardown. The invariant ties the program's statement to the
  handler's step. `DriverInv`: the driver keeps `SingleInv`, except inside the self
  test, where `Testing` says what the test owns (both channels, DREQ as it likes,
  no session) and that it gives all of it back. `Waiting`: which ioctl the program
  can be in at which statement. `Using`: a session and the direction are those of
  this run's command line, and the default again after it.
* `HonestPasses` needs `MovedInv` and `CountInv` on top. While the run has the device
  open, every word is one of its own rings (`MovedInv`; the descriptors `SingleInv`
  allows name no other), so what is counted from the reset in START (or in the self
  test) to the report is too (`OwnOnly`), and a counted period has moved words. A
  DRAM buffer whose RX half is no longer cleared had words moved into it by this
  run's RX channel (`Moved`), whether or not a period was completed. The check of
  that half is all a loopback test in both directions knows about RX, since the
  program compares only the TX bytes.

`Core1LaunchProofs` (any number of vectors, attempts, runs and kills):

* `LaunchTypeCorrect`; the type invariant needs `IInv`, which relates the loop
  index to the host's step (`next` may only exceed `NIrqs` outside the loops).
* `NoWildJumps`: `WildInv`, every vector and literal that points to a stub points
  to one that is written, and so does Core 0; kills included.
* `VectorsAreRestored`: `RestoreInv`, without kills a vector below the restore
  index holds the real handler and the saved handlers are real.
* `LaunchesAreHonest`: `HonestInv`, once the status block of this run is cleared,
  a magic word with a moving counter is Core 1 started after this run's reset.

`RingLoopbackProofs` (any ring, period, FIFO depth, burst and thresholds, any
number of words the state machine may hold):

* `RingTypeCorrect`.
* `NoWordLost`: `BurstInv`, the rest of a burst always fits: free TX entries
  cover what is left of the TX burst, RX words cover what is left of the RX
  burst. STOP needs `RxStopped`: nothing takes words when the FIFOs are cleared.
* `StreamInOrder`: `StreamInv`, positions instead of contents. `Carry` says of a
  queue that its words have the values their positions demand, `Kept` says it of
  the ring's last lap, `Flow` chains the queues. The lemmas say what appending,
  taking the head and storing in the ring do to them; each action uses one.
* `CleanPasses` and `SelfTestSound` assume thresholds of at least a burst
  (`Matched`), without which words are lost. `RelayInv`: what is stored was sent or
  left over, and a slot behind `moved` holds its word or `Junk` (`Legible`), since a
  fault spoils a word and moves none. Once round, the word of slot `i` is `i` turned
  by the number of words left over; `Turn` and `CountOn` do the arithmetic of
  remainders. So a ring without faults is clean for all three verifiers, and a
  ring whose periods are all clean, each by its own first word, holds no junk and
  is one sequence.

`LoopBenchProofs` (any size of words, buffers and FIFOs, any number of iterations
and faults, any random words that are not zero):

* `BuffersStay`: `Control` says at which statements a thread can be in the kernel;
  it follows main through spawn and join, and `Crash` ends everything at once.
* `PassesAreSound`: `Buffer`, a position of the receive buffer that this transfer
  has not written holds what clearing left there; `Verdicts`, without an error all
  measured words have arrived. The step between is `VerifiedArrived`: if the
  comparison finds nothing, each word is the one sent, so it is either the cleared
  value or fresh.
* `CleanRunsPass`: `Stream` locates every word: with `Handed` words given to the TX
  FIFO, the words in buffer, RX FIFO and TX FIFO are, in this order, the beginning
  of the line sent, echoed or not, one place later where the start-up word of the
  GPIO program is in front. `Undisturbed` says that `clean` implies the stream, no
  failed thread, and empty FIFOs between transfers; a transfer that is complete
  has moved exactly the line (`TransferDone`), so nothing is wrong
  (`NothingWrong`, with `DivMod` for the positions of bits), and one with both
  threads waited for can always move a word (`NoHang`), so no timeout is clean.
* `BenchTypes`: `Spec => []TypeOK`. `TypeInv` adds what bounds the counters: an
  iteration begins only below its quota, no call moves more than `DmaWords`, and
  the word-by-word mode has one word in the FIFOs between a put and its get and
  none otherwise.

`M3BridgeProofs` (any buffer longer than what the state machine and its FIFOs hold,
any `walk` that repeats only after more words than that, any patterns, FIFO depth,
number of passes and faults, and any number of runs and kills):

* `BridgeTypeCorrect`: `Steps` says that a pass only begins below the bound and
  that the word index stands at the end behind a pass.
* `ReportsAgree`: `Launched`, once the host has released Core 1, what Core 1 does is
  this run's; `Counters`, between passes the words counted are whole buffers, with
  one pass more between the two stores that count it. Core 1 spins when the host
  reads, so the host sees no pass half counted.
* `PassesCover`: `Aligned`, for the patterns that tell words apart. At most
  `2 * Depth + 1` words of earlier passes can be in the state machine at the begin of
  a pass, each right word stored took one out, and behind them come increasing
  indices of this pass, none further behind the index Core 1 is at than the state
  machine can hold (`Newest`). So with `walk` two of them that look alike are the
  same word (`OneInPeriod`): the oldest one looks right only if it is the one just
  put. A buffer is longer, so a pass without a wrong word leaves nothing behind.
  `Noticed`, for every pattern: a word that looked wrong is still in the RX buffer or
  has been counted.
* `FaultlessRunsPass`: `Faultless`, without a fault since the reset of Core 1 every put finds empty FIFOs and
  every get finds the word just put.

`EdgeEchoProofs` (any number of iterations, tests and lost commands):

* `TypesHold`: `Spec => []TypeOK`. Counters are bounded by the step each program is
  in, and what a FIFO may hold by the layer that is tested.
* `TestsLeaveNothing`: `CleanInv` follows `cleanup_pins` step by step: once a
  kill or a pinctrl has succeeded nothing it ended comes back, because only later
  steps of run.py start programs, and only a live program drives its pin. With a
  lost command the step proves nothing, so each conjunct is conditional on
  `lost = 0`.
* `EchoesAreOwn`, `NeverBoth`, `BudgetIsEnough`, `PassesThroughCpu`: all four rest on
  `EdgeInv`, which says where the one edge is. `Place`: while both loops run and hold
  their pins, the echo has arrived, or the edge is in front of the detector, or its
  level is in exactly one of RX FIFO, RPi5 program, posted write and TX FIFO, while
  detector, latch and response agree on the level before it. `Fresh` is its
  beginning, when the RPi5 may be started before or after the RPi4. `Released` is its
  end: with the stimulus pin taken away only falling edges follow, so at most the
  one rising edge under way is answered. `Answer` makes that echo the RPi4's own.
  `Ahead` and `Behind` bound the RPi5's count from both sides by the RPi4's edges,
  which gives the budget and the passage through the CPU.

With these, every invariant and every safety property of the steps that a passing
run checks is also a theorem, with the assumptions named above. Only model-checked:
liveness (`RunEnds`, `LaunchEnds`, `TestEnds`, `Core0ReturnsUnkilled`,
`SessionFills`, `StopObeyed`), which is out of the prover's reach, and the four
findings, which are counterexamples. For two callers only `TypeCorrect` and
`PrivateBuffers` are claimed at all: the overlapping handlers break the rest.

## 5. Plan

Done, in the order of importance: driver control, launcher, bridge, data plane,
program on the driver, the latency test between the two machines, the piolib and
GPIO benchmarks, and the theorems above.

Next theorems:

1. The properties of a session, for callers that overlap only in the self test and
   the probe, as far as they hold there.
2. What a killed run leaves: `HandsOnClean` for the runs after rmmod and insmod.

## 6. Not modelled

Throughput figures and everything printed; option parsing; register values of
the DMA slave configuration; the frequency benchmark, probe tools and
experiments (straight-line programs that measure or dump); the 32-bit width of
the bridge's word counter, which wraps after more than ten minutes; the choice of
the state machine (the driver always uses number 0, and the program gets it
unless another client holds it). The statistics of the shared library are
floating-point arithmetic on a sorted copy, its options and report texts functions
of their input: they keep no state and decide nothing but the verdicts, which
`LoopBench` has.
