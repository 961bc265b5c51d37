------------------------------ MODULE EdgeEcho ------------------------------
(***************************************************************************)
(* The GPIO latency test between two machines (latency-gpioloop).  The     *)
(* RPi4 drives edges on the stimulus pin and waits for each of them on the *)
(* response pin.  The RPi5 echoes them: in PIO alone (L0), through the CPU *)
(* (L1), or through two DMA transfers (L2).  run.py starts, times out,     *)
(* interrupts and kills both programs over ssh.  L3 is a test of the RPi5  *)
(* alone: DMA reads from a state machine that makes up its words.          *)
(*                                                                         *)
(* A FIFO word is its level together with the number of the stimulus edge  *)
(* it was pushed for, so that an echo can be traced to its edge.           *)
(*                                                                         *)
(* Not in the repository, assumed: a pin of the RPi4 keeps its output      *)
(* latch while it is an input; the lines are pulled LOW when nobody drives *)
(* them; the state machines of a killed program stop, and the value one of *)
(* them set is kept.                                                       *)
(***************************************************************************)
EXTENDS Naturals, Sequences

CONSTANTS
  Modes,       \* test layers run.py may be asked for, subset of L0 to L3
  Warmup,      \* warm-up iterations of the RPi4
  Iterations,  \* measured iterations of the RPi4
  MaxTests,    \* bound on the tests run.py runs in a row
  MaxLost      \* bound on the ssh commands that time out or do not get through

ASSUME EdgeAssumption ==
  /\ Modes \subseteq {"L0", "L1", "L2", "L3"}
  /\ Warmup \in Nat /\ Iterations \in Nat \ {0}
  /\ MaxTests \in Nat /\ MaxLost \in Nat

VARIABLES
  step,    \* run.py: the step run_test is at
  back,    \* run.py: which of its two cleanup_pins calls runs
  mode, test, passed, lost,  \* run.py: layer last started, tests, verdict, lost ssh commands
  dirty,   \* a pin latch was HIGH when the test started
  r4,      \* RPi4 program: the step it is at
  it,      \* RPi4 program: iterations done, warm-up first
  ok4,     \* RPi4 program: exit status 0
  latch, drive4, \* stimulus pin of the RPi4: output latch, is an output
  edge,    \* number of the last edge driven for an iteration
  foreign, \* a recorded response was not the echo of its own edge
  p5, n5,        \* RPi5 program: step, edges echoed (L3: batches read)
  word, running, \* RPi5 program: rx_word, g_running
  en, det, rxf, posted, txf, \* PIO: enabled, detector, FIFOs, writes under way
  out, drive5  \* response pin: last value set by a state machine, is an output

orchVars == <<step, back, mode, test, passed, lost, dirty>>
rpi4Vars == <<r4, it, ok4, latch, drive4, edge, foreign>>
rpi5Vars == <<p5, n5, word, running>>
pioVars  == <<en, det, rxf, posted, txf, out, drive5>>
vars == <<orchVars, rpi4Vars, rpi5Vars, pioVars>>

Echo(level) == [level |-> level, edge |-> edge]
Low == [level |-> 0, edge |-> 0]

Stimulus == IF drive4 THEN latch ELSE 0
Response == IF drive5 THEN out.level ELSE 0

Alive4 == r4 \notin {"off", "exited"}
Alive5 == p5 \notin {"off", "exited"}

\* Mutant: round trips are counted instead of edges.
rpi5_edges_trips == Warmup + Iterations

\* The arguments run.py gives the RPi5: two edges for each round trip.
rpi5_edges == 2 * Warmup + 2 * Iterations
Batches    == Warmup + Iterations

-----------------------------------------------------------------------------
(* PIO: both programs wait for the level, not for a change of it.          *)

FifoDepth == 8

\* gpio_echo sets the pin itself, edge_detector pushes a word.
edge_detector ==
  /\ en /\ det = (IF Stimulus = 1 THEN "rise" ELSE "fall")
  /\ det' = IF Stimulus = 1 THEN "fall" ELSE "rise"
  /\ IF mode = "L0" THEN out' = Echo(Stimulus) /\ UNCHANGED rxf
     ELSE /\ Len(rxf) < FifoDepth
          /\ rxf' = Append(rxf, Echo(Stimulus)) /\ UNCHANGED out
  /\ UNCHANGED <<orchVars, rpi4Vars, rpi5Vars, en, posted, txf, drive5>>

\* A posted write of pio_sm_put_blocking arrives.
Arrive ==
  /\ posted # <<>>
  /\ txf' = Append(txf, Head(posted)) /\ posted' = Tail(posted)
  /\ UNCHANGED <<orchVars, rpi4Vars, rpi5Vars, en, det, rxf, out, drive5>>

output_driver ==
  /\ en /\ txf # <<>>
  /\ out' = Head(txf) /\ txf' = Tail(txf)
  /\ UNCHANGED <<orchVars, rpi4Vars, rpi5Vars, en, det, rxf, posted, drive5>>

Pio == edge_detector \/ Arrive \/ output_driver

-----------------------------------------------------------------------------
(* RPi5: latency_gpioloop.                                                 *)

At5(s) == p5 = s /\ UNCHANGED <<orchVars, rpi4Vars>>
To5(s) == p5' = s /\ UNCHANGED <<n5, word, running>>

\* Claims and loads, or fails; the pin becomes an output before it is LOW.
setup_edge_echo_sms ==
  /\ At5("setup")
  /\ \/ To5("exited") /\ UNCHANGED pioVars
     \/ /\ To5("low")
        /\ en' = FALSE /\ det' = "rise" /\ drive5' = TRUE
        /\ rxf' = <<>> /\ posted' = <<>> /\ txf' = <<>> /\ UNCHANGED out

ForceLow ==
  /\ At5("low") /\ To5("enable")
  /\ out' = Low
  /\ UNCHANGED <<en, det, rxf, posted, txf, drive5>>

\* L2 configures DMA before it enables; L1 and L2 then allocate their buffers.
Enable ==
  /\ At5("enable")
  /\ \/ en' = TRUE /\ To5(CASE mode = "L0" -> "test" [] mode = "L1" -> "poll"
                            [] mode = "L2" -> "first")
     \/ mode # "L0" /\ To5("clean") /\ en' \in IF mode = "L2" THEN BOOLEAN ELSE {TRUE}
  /\ UNCHANGED <<det, rxf, posted, txf, out, drive5>>

\* while (g_running) pause().  A signal between the test and the pause ends no
\* pause: the program then sleeps on, with g_running cleared, until it is killed.
run_l0 ==
  /\ \/ At5("test") /\ To5(IF running THEN "pausing" ELSE "clean")
     \/ At5("pausing") /\ To5("pause")
  /\ UNCHANGED pioVars

run_l1_get ==
  /\ At5("poll")
  /\ \/ (n5 = rpi5_edges \/ ~running) /\ To5("clean") /\ UNCHANGED rxf
     \/ /\ n5 < rpi5_edges /\ rxf # <<>>
        /\ word' = Head(rxf) /\ rxf' = Tail(rxf)
        /\ p5' = "put" /\ UNCHANGED <<n5, running>>
  /\ UNCHANGED <<en, det, posted, txf, out, drive5>>

\* Only the warm-up loop reads the FIFO level back.
run_l1_put ==
  /\ At5("put")
  /\ posted' = Append(posted, word) /\ n5' = n5 + 1
  /\ p5' = IF n5 < 2 * Warmup THEN "barrier" ELSE "poll"
  /\ UNCHANGED <<word, running, en, det, rxf, txf, out, drive5>>

Barrier ==
  /\ At5("barrier") /\ posted = <<>>
  /\ To5("poll") /\ UNCHANGED pioVars

run_l2_first ==
  /\ At5("first")
  /\ \/ rxf # <<>> /\ To5("rx")
     \/ ~running /\ To5("clean")
  /\ UNCHANGED pioVars

\* The transfer blocks until the word is there or the kernel gives up on it.
run_l2_rx ==
  /\ At5("rx")
  /\ \/ (n5 = rpi5_edges \/ ~running) /\ To5("clean") /\ UNCHANGED rxf
     \/ /\ n5 < rpi5_edges /\ rxf # <<>>
        /\ word' = Head(rxf) /\ rxf' = Tail(rxf)
        /\ p5' = "tx" /\ UNCHANGED <<n5, running>>
     \/ n5 < rpi5_edges /\ rxf = <<>> /\ To5("clean") /\ UNCHANGED rxf
  /\ UNCHANGED <<en, det, posted, txf, out, drive5>>

run_l2_tx ==
  /\ At5("tx")
  /\ \/ txf' = Append(txf, word) /\ n5' = n5 + 1 /\ p5' = "rx" /\ UNCHANGED <<word, running>>
     \/ To5("clean") /\ UNCHANGED txf
  /\ UNCHANGED <<en, det, rxf, posted, out, drive5>>

\* Disable, drive LOW, make the pin an input; L0 does the same.
cleanup_edge_echo_sms ==
  /\ \/ At5("clean") /\ To5("cleanlow") /\ en' = FALSE /\ UNCHANGED <<out, drive5>>
     \/ At5("cleanlow") /\ To5("cleandir") /\ out' = Low /\ UNCHANGED <<en, drive5>>
     \/ At5("cleandir") /\ To5("exited") /\ drive5' = FALSE /\ UNCHANGED <<en, out>>
  /\ UNCHANGED <<det, rxf, posted, txf>>

\* L3: claim and load a generator, allocate, read batches until all are in or one
\* fails, release.  No pin is used.
run_l3 ==
  /\ \/ At5("datagen") /\ (To5("exited") \/ To5("alloc"))
     \/ At5("alloc") /\ (To5("batch") \/ To5("unload"))
     \/ At5("batch") /\ n5 < Batches
        /\ \/ n5' = n5 + 1 /\ UNCHANGED <<p5, word, running>>
           \/ To5("unload")
     \/ At5("batch") /\ n5 = Batches /\ To5("unload")
     \/ At5("unload") /\ To5("exited")
  /\ UNCHANGED pioVars

latency_gpioloop ==
  \/ setup_edge_echo_sms \/ ForceLow \/ Enable \/ run_l0
  \/ run_l1_get \/ run_l1_put \/ Barrier
  \/ run_l2_first \/ run_l2_rx \/ run_l2_tx \/ cleanup_edge_echo_sms \/ run_l3

-----------------------------------------------------------------------------
(* RPi4: latency_gpioloop_rpi4.                                            *)

At4(s) == r4 = s /\ UNCHANGED <<orchVars, rpi5Vars, pioVars>>
To4(s) == r4' = s

\* gpio_mmap_init fails: no pin is touched.
MmapFails ==
  /\ At4("fsel") /\ To4("exited")
  /\ UNCHANGED <<it, ok4, latch, drive4, edge, foreign>>

\* The pin becomes an output before it is LOW.
gpio_setup_pins ==
  /\ \/ At4("fsel") /\ To4("setlow") /\ drive4' = TRUE /\ UNCHANGED latch
     \/ At4("setlow") /\ To4("check") /\ latch' = 0 /\ UNCHANGED drive4
  /\ UNCHANGED <<it, ok4, edge, foreign>>

\* A HIGH response pin gets two seconds to go LOW (else GiveUp).
SanityCheck ==
  /\ At4("check") /\ Response = 0 /\ To4("high")
  /\ UNCHANGED <<it, ok4, latch, drive4, edge, foreign>>

\* Mutant: a warm-up iteration whose echo is late is skipped.
EchoHigh_skip == Response = 1 \/ it < Warmup

EchoHigh == Response = 1

\* Mutant: the next edge does not wait for the falling echo.
EchoLow_any == TRUE

EchoLow == Response = 0

Iterated == it' = Warmup + Iterations

\* An iteration: edge, echo, edge, echo.  The measured ones wait forever.
Iterate ==
  /\ \/ At4("high") /\ To4("awaitHigh") /\ latch' = 1 /\ edge' = edge + 1
        /\ UNCHANGED <<it, foreign>>
     \/ At4("awaitHigh") /\ EchoHigh /\ To4("low")
        /\ foreign' = (foreign \/ out.edge # edge) /\ UNCHANGED <<it, latch, edge>>
     \/ At4("low") /\ To4("awaitLow") /\ latch' = 0 /\ edge' = edge + 1
        /\ UNCHANGED <<it, foreign>>
     \/ At4("awaitLow") /\ EchoLow /\ it' = it + 1
        /\ To4(IF Iterated THEN "report" ELSE "high")
        /\ UNCHANGED <<latch, edge, foreign>>
  /\ UNCHANGED <<ok4, drive4>>

\* goto cleanup: no memory, the response pin stays HIGH or an echo of the
\* warm-up does not come in time, or the program is interrupted.
GiveUp ==
  /\ \/ At4("check") \/ At4("high") \/ At4("awaitHigh") \/ At4("awaitLow") \/ At4("report")
  /\ To4("clean")
  /\ UNCHANGED <<it, ok4, latch, drive4, edge, foreign>>

Report ==
  /\ At4("report") /\ To4("clean") /\ ok4' = TRUE
  /\ UNCHANGED <<it, latch, drive4, edge, foreign>>

gpio_restore_pins ==
  /\ \/ At4("clean") /\ To4("restore") /\ latch' = 0 /\ UNCHANGED drive4
     \/ At4("restore") /\ To4("exited") /\ drive4' = FALSE /\ UNCHANGED latch
  /\ UNCHANGED <<it, ok4, edge, foreign>>

latency_gpioloop_rpi4 ==
  \/ MmapFails \/ gpio_setup_pins \/ SanityCheck \/ Iterate \/ GiveUp \/ Report
  \/ gpio_restore_pins

-----------------------------------------------------------------------------
(* run.py: run_test for one test layer after another.                      *)

AtStep(s) == step = s
ToStep(s) == step' = s
UnchangedTest == UNCHANGED <<mode, test, dirty>>

\* The layer is not looked at before the RPi5 program is started for it.
RunTest ==
  /\ AtStep("idle") /\ test < MaxTests /\ Modes \ {"L3"} # {}
  /\ test' = test + 1 /\ passed' = FALSE
  /\ back' = "start" /\ ToStep("kill5")
  /\ UNCHANGED <<mode, lost, dirty, rpi4Vars, rpi5Vars, pioVars>>

\* run_test_standalone kills nothing first.  (Scope: one RPi5 program at a time.)
RunAlone ==
  /\ AtStep("idle") /\ test < MaxTests /\ ~Alive5 /\ "L3" \in Modes
  /\ test' = test + 1 /\ mode' = "L3" /\ passed' = FALSE /\ ToStep("alone")
  /\ p5' = "datagen" /\ n5' = 0 /\ word' = Low /\ running' = TRUE
  /\ UNCHANGED <<back, lost, dirty, rpi4Vars, pioVars>>

\* Exit status 0 takes all batches.  After a timeout only ssh is gone: the program
\* runs on, and nothing kills it.
CollectAlone ==
  /\ AtStep("alone") /\ ToStep("idle")
  /\ \/ p5 = "exited" /\ passed' \in {n5 = Batches, FALSE} /\ UNCHANGED lost
     \/ lost < MaxLost /\ lost' = lost + 1 /\ UNCHANGED passed
  /\ UNCHANGED <<back, rpi4Vars, rpi5Vars, pioVars>> /\ UnchangedTest

\* An ssh command of cleanup_pins that times out is ignored.  (Scope: a
\* program that outlives the cleanup at the end of its test is killed by the
\* cleanup at the start of the next one.)
Ignored(alive) ==
  /\ lost < MaxLost /\ (back = "start" => ~alive)
  /\ lost' = lost + 1
  /\ UNCHANGED <<rpi4Vars, rpi5Vars, pioVars>>

Kill5 ==
  /\ AtStep("kill5") /\ ToStep("kill4")
  /\ \/ /\ p5' = "off" /\ en' = FALSE
        /\ rxf' = <<>> /\ posted' = <<>> /\ txf' = <<>>
        /\ UNCHANGED <<lost, rpi4Vars, n5, word, running, det, out, drive5>>
     \/ Ignored(Alive5)
  /\ UNCHANGED <<back, passed>> /\ UnchangedTest

\* Mutant: only the RPi5 program is killed.
Kill4_not ==
  /\ AtStep("kill4") /\ ToStep("pins5")
  /\ UNCHANGED <<lost, rpi4Vars, rpi5Vars, pioVars>>
  /\ UNCHANGED <<back, passed>> /\ UnchangedTest

Kill4 ==
  /\ AtStep("kill4") /\ ToStep("pins5")
  /\ \/ /\ r4' = "off"
        /\ UNCHANGED <<lost, it, ok4, latch, drive4, edge, foreign, rpi5Vars, pioVars>>
     \/ Ignored(Alive4)
  /\ UNCHANGED <<back, passed>> /\ UnchangedTest

Pins5 ==
  /\ AtStep("pins5") /\ ToStep("pins4")
  /\ \/ drive5' = FALSE
        /\ UNCHANGED <<lost, rpi4Vars, rpi5Vars, en, det, rxf, posted, txf, out>>
     \/ Ignored(FALSE)
  /\ UNCHANGED <<back, passed>> /\ UnchangedTest

Pins4 ==
  /\ AtStep("pins4") /\ ToStep(IF back = "start" THEN "start" ELSE "idle")
  /\ \/ drive4' = FALSE
        /\ UNCHANGED <<lost, r4, it, ok4, latch, edge, foreign, rpi5Vars, pioVars>>
     \/ Ignored(FALSE)
  /\ UNCHANGED <<back, passed>> /\ UnchangedTest

cleanup_pins == Kill5 \/ Kill4 \/ Pins5 \/ Pins4

\* get_pin_state and the SIGINT are not guarded: a timeout ends run.py.
Abort ==
  /\ step \in {"start", "measure", "stop"} /\ lost < MaxLost
  /\ lost' = lost + 1 /\ ToStep("aborted")
  /\ UNCHANGED <<back, passed, rpi4Vars, rpi5Vars, pioVars>> /\ UnchangedTest

StartRpi5 ==
  /\ AtStep("start") /\ ToStep("settle")
  /\ p5' = "setup" /\ n5' = 0 /\ word' = Low /\ running' = TRUE
  /\ mode' \in Modes \ {"L3"}
  /\ dirty' = (latch = 1 \/ out.level = 1) /\ foreign' = FALSE
  /\ UNCHANGED <<back, test, passed, lost, r4, it, ok4, latch, drive4, edge, pioVars>>

\* After the sleep, a program that has exited already fails the test.
Settle ==
  /\ AtStep("settle")
  /\ IF Alive5 THEN ToStep("measure") /\ UNCHANGED back
               ELSE ToStep("kill5") /\ back' = "end"
  /\ UNCHANGED <<passed, lost, rpi4Vars, rpi5Vars, pioVars>> /\ UnchangedTest

Measure ==
  /\ AtStep("measure") /\ ToStep("wait")
  /\ r4' = "fsel" /\ it' = 0 /\ ok4' = FALSE /\ edge' = 0
  /\ UNCHANGED <<back, passed, lost, latch, drive4, foreign, rpi5Vars, pioVars>>
  /\ UnchangedTest

\* The exit status decides; after the timeout the RPi4 program runs on.
Collect ==
  /\ AtStep("wait") /\ ToStep("stop")
  /\ passed' \in IF r4 = "exited" THEN {ok4, FALSE} ELSE {FALSE}
  /\ UNCHANGED <<back, lost, rpi4Vars, rpi5Vars, pioVars>> /\ UnchangedTest

\* The SIGINT command: it reaches the program, or ssh fails with 255 and nobody
\* looks at it.
Interrupt ==
  \/ /\ running' = FALSE /\ p5' = IF p5 = "pause" THEN "test" ELSE p5
     /\ UNCHANGED lost
  \/ lost < MaxLost /\ lost' = lost + 1 /\ UNCHANGED <<running, p5>>

\* Mutant: the end of the program is awaited without a timeout.
Stop_forever ==
  /\ \/ AtStep("stop") /\ ToStep("exit") /\ Interrupt /\ UNCHANGED back
     \/ /\ AtStep("exit") /\ ~Alive5 /\ ToStep("kill5") /\ back' = "end"
        /\ UNCHANGED <<lost, running, p5>>
  /\ UNCHANGED <<passed, rpi4Vars, n5, word, pioVars>> /\ UnchangedTest

\* SIGINT; the program is given ten seconds to exit, and then abandoned.
Stop ==
  /\ \/ AtStep("stop") /\ ToStep("exit") /\ Interrupt /\ UNCHANGED back
     \/ /\ AtStep("exit") /\ ToStep("kill5") /\ back' = "end"
        /\ UNCHANGED <<lost, running, p5>>
  /\ UNCHANGED <<passed, rpi4Vars, n5, word, pioVars>> /\ UnchangedTest

run_test ==
  \/ RunTest \/ cleanup_pins \/ Abort \/ StartRpi5 \/ Settle \/ Measure
  \/ Collect \/ Stop \/ RunAlone \/ CollectAlone

-----------------------------------------------------------------------------

Init ==
  /\ step = "idle" /\ back = "end" /\ mode \in Modes /\ test = 0
  /\ passed = FALSE /\ lost = 0 /\ dirty = FALSE
  /\ r4 = "off" /\ it = 0 /\ ok4 = FALSE /\ latch = 0 /\ drive4 = FALSE
  /\ edge = 0 /\ foreign = FALSE
  /\ p5 = "off" /\ n5 = 0 /\ word = Low /\ running = TRUE
  /\ en = FALSE /\ det = "rise" /\ rxf = <<>> /\ posted = <<>> /\ txf = <<>>
  /\ out = Low /\ drive5 = FALSE

Next == run_test \/ latency_gpioloop \/ latency_gpioloop_rpi4 \/ Pio

\* run.py, both programs and the state machines keep running; nothing obliges
\* run.py to begin another test, or the RPi4 to give up.
Fairness ==
  /\ WF_vars(run_test /\ step # "idle")
  /\ WF_vars(latency_gpioloop)
  /\ WF_vars(gpio_setup_pins \/ SanityCheck \/ Iterate \/ Report \/ gpio_restore_pins)
  /\ WF_vars(Pio)

Spec == Init /\ [][Next]_vars /\ Fairness

-----------------------------------------------------------------------------
(* Properties.                                                             *)

Words == [level : {0, 1}, edge : 0..2 * (Warmup + Iterations)]

\* The programs, pins and FIFOs hold what the code can put there.
TypeOK ==
  /\ step \in {"idle", "kill5", "kill4", "pins5", "pins4", "start", "settle",
               "measure", "wait", "stop", "exit", "alone", "aborted"}
  /\ back \in {"start", "end"} /\ mode \in Modes /\ test \in 0..MaxTests
  /\ passed \in BOOLEAN /\ lost \in 0..MaxLost /\ dirty \in BOOLEAN
  /\ r4 \in {"off", "fsel", "setlow", "check", "high", "awaitHigh", "low",
             "awaitLow", "report", "clean", "restore", "exited"}
  /\ it \in 0..Warmup + Iterations /\ ok4 \in BOOLEAN
  /\ latch \in {0, 1} /\ drive4 \in BOOLEAN
  /\ edge \in 0..2 * (Warmup + Iterations) /\ foreign \in BOOLEAN
  /\ p5 \in {"off", "setup", "low", "enable", "test", "pausing", "pause", "poll", "put",
             "barrier", "first", "rx", "tx", "clean", "cleanlow", "cleandir",
             "datagen", "alloc", "batch", "unload", "exited"}
  /\ n5 \in 0..rpi5_edges /\ word \in Words /\ running \in BOOLEAN
  /\ en \in BOOLEAN /\ det \in {"rise", "fall"}
  /\ rxf \in Seq(Words) /\ posted \in Seq(Words) /\ txf \in Seq(Words)
  /\ out \in Words /\ drive5 \in BOOLEAN

\* Every latency the RPi4 records ends with the echo of the edge it drove, and
\* not with one an earlier edge is still owed, when no latch was HIGH at the
\* start of the test.
OwnEcho == foreign => dirty

\* When the RPi5 has used up its count of edges, no rising edge of the RPi4
\* waits for an answer, and a falling one gets it from the cleanup, unless
\* cleanup_pins took the pin from an RPi4 program it had failed to kill.
BudgetCovers ==
  n5 = rpi5_edges /\ p5 = "exited" /\ ~dirty /\ drive4 =>
    r4 \notin {"high", "awaitHigh"} /\ (r4 = "awaitLow" => Response = 0)

\* A passed L1 or L2 test that started clean sent every edge it timed, the
\* rising ones, through the CPU of the RPi5.  (Not so the last falling edge: the
\* cleanup of an RPi5 program that failed there looks the same to the RPi4.)
PassedThroughCpu ==
  passed /\ ~dirty /\ mode # "L0" /\ step \in {"stop", "exit"} =>
    n5 >= 2 * (Warmup + Iterations) - 1

\* After a test no program is left and no pin is driven, however the test
\* ended, unless ssh commands were lost, the one of a standalone test included.
LeavesNothing ==
  step = "idle" /\ lost = 0 => ~Alive4 /\ ~Alive5 /\ ~drive4 /\ ~drive5

\* The two loops never wait for each other: while the RPi4 waits, the RPi5
\* echoes and both hold their pins, the edge the RPi4 waits for is in exactly
\* one place between the two pins.
Waiting == r4 \in {"awaitHigh", "awaitLow"}
Echoing == en /\ p5 \notin {"off", "clean", "cleanlow", "cleandir", "exited"}
One(b)  == IF b THEN 1 ELSE 0
EdgesUnderWay ==
  One(det = (IF Stimulus = 1 THEN "rise" ELSE "fall")) + Len(rxf)
    + One(p5 \in {"put", "tx"}) + Len(posted) + Len(txf)
    + One(IF r4 = "awaitHigh" THEN EchoHigh ELSE EchoLow)
NeverBothWait ==
  Waiting /\ Echoing /\ drive4 /\ drive5 /\ ~dirty => EdgesUnderWay = 1

\* A test ends, a standalone one too, also when its measurement hangs, the SIGINT
\* is not delivered or falls between the test of g_running and the pause it
\* should end, so that the echo program sleeps on, or that program has died.
TestEnds == (step # "idle") ~> (step \in {"idle", "aborted"})

\* Head of latency_gpioloop_rpi4.c: the program drives the pin, waits for the
\* RPi5 to echo the signal back, and records the round-trip latency.
RecordsRoundTrip == ~foreign

=============================================================================
