--------------------------- MODULE EdgeEchoProofs ---------------------------
(***************************************************************************)
(* After a test, however it ended, no program is left and no pin is        *)
(* driven, for every number of iterations, tests and ssh timeouts.  The    *)
(* order of cleanup_pins is what the argument rests on: a program is       *)
(* killed before its pins are taken from it, so nobody drives them again.  *)
(*                                                                         *)
(* Both programs keep to the budget of edges, again for every number of    *)
(* iterations.                                                             *)
(*                                                                         *)
(* And one edge at a time is under way: of a test that found both pins LOW *)
(* every round trip is timed with its own echo, neither program waits for  *)
(* an edge that is lost, and what passes went through the RPi5's CPU.      *)
(***************************************************************************)
EXTENDS EdgeEcho, TLAPS

LostType == lost \in Nat

\* What is gone for good at which step of run_test, when no command was lost.
Gone5 ==
  /\ step \in {"kill4", "pins5", "pins4", "start"} => p5 = "off"
  /\ step = "idle" => p5 \in {"off", "exited"}
  /\ step = "alone" => p5 \in {"datagen", "alloc", "batch", "unload", "exited"}
Gone4 == step \in {"pins5", "pins4", "start", "settle", "measure", "idle", "alone"} => r4 = "off"
Free5 == step \in {"pins4", "start", "idle", "alone"} => drive5 = FALSE
Free4 == step \in {"start", "settle", "measure", "idle", "alone"} => drive4 = FALSE

CleanInv == LostType /\ (lost = 0 => Gone5 /\ Gone4 /\ Free5 /\ Free4)

\* The invariant holds before the first test.
LEMMA CleanInit == Init => CleanInv
  BY DEF Init, CleanInv, LostType, Gone5, Gone4, Free5, Free4

\* The state machines leave programs and directions alone.
LEMMA CleanPio == CleanInv /\ Pio => CleanInv'
<1> SUFFICES ASSUME CleanInv, Pio PROVE CleanInv'
  OBVIOUS
<1>1. UNCHANGED <<step, lost, r4, drive4, p5, drive5>>
  BY DEF Pio, edge_detector, Arrive, output_driver, orchVars, rpi4Vars, rpi5Vars
<1>. QED
  BY <1>1 DEF CleanInv, LostType, Gone5, Gone4, Free5, Free4

\* The RPi5 program only acts while it is alive, and it never comes to life.
LEMMA CleanRpi5 == CleanInv /\ latency_gpioloop => CleanInv'
<1> SUFFICES ASSUME CleanInv, latency_gpioloop PROVE CleanInv'
  OBVIOUS
<1> USE DEF At5, To5, orchVars, rpi4Vars, pioVars
<1>1. p5 \notin {"off", "exited"} /\ UNCHANGED <<step, lost, r4, drive4>>
  <2>1. CASE setup_edge_echo_sms \/ ForceLow \/ Enable \/ run_l0
    BY <2>1 DEF setup_edge_echo_sms, ForceLow, Enable, run_l0
  <2>2. CASE run_l1_get \/ run_l1_put \/ Barrier
    BY <2>2 DEF run_l1_get, run_l1_put, Barrier
  <2>3. CASE run_l2_first \/ run_l2_rx \/ run_l2_tx
    BY <2>3 DEF run_l2_first, run_l2_rx, run_l2_tx
  <2>4. CASE cleanup_edge_echo_sms \/ run_l3
    BY <2>4 DEF cleanup_edge_echo_sms, run_l3
  <2>. QED
    BY <2>1, <2>2, <2>3, <2>4 DEF latency_gpioloop
<1>2. lost = 0 => step \notin {"kill4", "pins5", "pins4", "start", "idle"}
  BY <1>1 DEF CleanInv, Gone5
<1>3. lost = 0 /\ step = "alone" =>
        drive5' = drive5 /\ p5' \in {"datagen", "alloc", "batch", "unload", "exited"}
  <2>. SUFFICES ASSUME lost = 0, step = "alone"
                PROVE  drive5' = drive5 /\ p5' \in {"datagen", "alloc", "batch", "unload", "exited"}
    OBVIOUS
  <2>1. p5 \in {"datagen", "alloc", "batch", "unload"}
    BY <1>1 DEF CleanInv, Gone5
  <2>2. run_l3
    BY <2>1 DEF latency_gpioloop, setup_edge_echo_sms, ForceLow, Enable, run_l0, run_l1_get,
                run_l1_put, Barrier, run_l2_first, run_l2_rx, run_l2_tx, cleanup_edge_echo_sms
  <2>. QED
    BY <2>1, <2>2 DEF run_l3
<1>. QED
  BY <1>1, <1>2, <1>3 DEF CleanInv, LostType, Gone5, Gone4, Free5, Free4

\* Likewise the RPi4 program.
LEMMA CleanRpi4 == CleanInv /\ latency_gpioloop_rpi4 => CleanInv'
<1> SUFFICES ASSUME CleanInv, latency_gpioloop_rpi4 PROVE CleanInv'
  OBVIOUS
<1> USE DEF At4, To4, orchVars, rpi5Vars, pioVars
<1>1. r4 # "off" /\ UNCHANGED <<step, lost, p5, drive5>>
  <2>1. CASE MmapFails \/ gpio_setup_pins \/ SanityCheck \/ Iterate
    BY <2>1 DEF MmapFails, gpio_setup_pins, SanityCheck, Iterate
  <2>2. CASE GiveUp \/ Report \/ gpio_restore_pins
    BY <2>2 DEF GiveUp, Report, gpio_restore_pins
  <2>. QED
    BY <2>1, <2>2 DEF latency_gpioloop_rpi4
<1>2. lost = 0 => step \notin {"pins5", "pins4", "start", "settle", "measure", "idle", "alone"}
  BY <1>1 DEF CleanInv, Gone4
<1>. QED
  BY <1>1, <1>2 DEF CleanInv, LostType, Gone5, Gone4, Free5, Free4

\* run.py goes from one step to the next only after the command that makes the
\* invariant hold there.
LEMMA CleanRun == CleanInv /\ run_test => CleanInv'
<1> SUFFICES ASSUME CleanInv, run_test PROVE CleanInv'
  OBVIOUS
<1> USE DEF AtStep, ToStep, UnchangedTest, rpi4Vars, rpi5Vars, pioVars,
            CleanInv, LostType, Gone5, Gone4, Free5, Free4
<1>1. CASE RunTest
  BY <1>1 DEF RunTest
<1>2. CASE Kill5
  BY <1>2 DEF Kill5, Ignored
<1>3. CASE Kill4
  BY <1>3 DEF Kill4, Ignored
<1>4. CASE Pins5
  BY <1>4 DEF Pins5, Ignored
<1>5. CASE Pins4
  BY <1>5 DEF Pins4, Ignored
<1>6. CASE Abort
  BY <1>6 DEF Abort
<1>7. CASE StartRpi5
  BY <1>7 DEF StartRpi5
<1>8. CASE Settle
  BY <1>8 DEF Settle
<1>9. CASE Measure
  BY <1>9 DEF Measure
<1>10. CASE Collect
  BY <1>10 DEF Collect
<1>11. CASE Stop
  BY <1>11 DEF Stop, Interrupt
<1>12. CASE RunAlone
  BY <1>12 DEF RunAlone
<1>13. CASE CollectAlone
  <2>1. /\ step = "alone" /\ step' = "idle" /\ UNCHANGED <<r4, drive4, p5, drive5>>
        /\ (p5 = "exited" /\ lost' = lost) \/ lost' = lost + 1
    BY <1>13 DEF CollectAlone
  <2>. QED
    BY <2>1
<1>. QED
  BY <1>1, <1>2, <1>3, <1>4, <1>5, <1>6, <1>7, <1>8, <1>9, <1>10, <1>11, <1>12, <1>13
     DEF run_test, cleanup_pins

\* Every step of the specification preserves the invariant.
LEMMA CleanStep == CleanInv /\ [Next]_vars => CleanInv'
<1> SUFFICES ASSUME CleanInv, [Next]_vars PROVE CleanInv'
  OBVIOUS
<1>1. CASE Next
  BY <1>1, CleanPio, CleanRpi5, CleanRpi4, CleanRun DEF Next
<1>2. CASE UNCHANGED vars
  BY <1>2 DEF vars, orchVars, rpi4Vars, rpi5Vars, pioVars, CleanInv, LostType,
              Gone5, Gone4, Free5, Free4
<1>. QED
  BY <1>1, <1>2

\* Whatever died, hung or timed out in a test, run_test returns with both
\* programs gone and both pins released, unless an ssh command was lost.
THEOREM TestsLeaveNothing == Spec => []LeavesNothing
<1>1. CleanInv => LeavesNothing
  BY DEF CleanInv, Gone5, Gone4, Free5, Free4, LeavesNothing, Alive4, Alive5
<1>. QED
  BY <1>1, CleanInit, CleanStep, PTL DEF Spec

-----------------------------------------------------------------------------
(* Types.  The iteration counter and the number of the last edge drift     *)
(* apart unless each step of an iteration knows its half of the round trip.*)

Truth == passed \in BOOLEAN /\ dirty \in BOOLEAN /\ ok4 \in BOOLEAN /\ foreign \in BOOLEAN
         /\ running \in BOOLEAN /\ drive4 \in BOOLEAN /\ drive5 \in BOOLEAN /\ en \in BOOLEAN

Places ==
  /\ step \in {"idle", "kill5", "kill4", "pins5", "pins4", "start", "settle",
               "measure", "wait", "stop", "exit", "alone", "aborted"}
  /\ back \in {"start", "end"} /\ mode \in Modes /\ test \in 0..MaxTests /\ lost \in 0..MaxLost
  /\ r4 \in {"off", "fsel", "setlow", "check", "high", "awaitHigh", "low",
             "awaitLow", "report", "clean", "restore", "exited"}
  /\ p5 \in {"off", "setup", "low", "enable", "test", "pausing", "pause", "poll", "put",
             "barrier", "first", "rx", "tx", "clean", "cleanlow", "cleandir",
             "datagen", "alloc", "batch", "unload", "exited"}
  /\ latch \in {0, 1} /\ det \in {"rise", "fall"}

\* Which edge is the last one, by the step of the iteration.
Trips == Warmup + Iterations
Edges ==
  /\ it \in 0..Trips /\ edge \in 0..(2 * Trips)
  /\ r4 \in {"fsel", "setlow", "check"} => it = 0 /\ edge = 0
  /\ r4 \in {"high", "awaitHigh", "low", "awaitLow"} => it < Trips
  /\ r4 = "high" => edge = 2 * it
  /\ r4 \in {"awaitHigh", "low"} => edge = 2 * it + 1
  /\ r4 = "awaitLow" => edge = 2 * it + 2

Echoes == n5 \in 0..rpi5_edges /\ (p5 \in {"put", "tx"} => n5 < rpi5_edges)

Traffic ==
  /\ word \in Words /\ out \in Words
  /\ rxf \in Seq(Words) /\ posted \in Seq(Words) /\ txf \in Seq(Words)

\* L3 has a program of its own.
Layers ==
  /\ step \in {"settle", "measure", "wait", "stop", "exit"} => mode # "L3"
  /\ p5 \in {"setup", "low", "enable"} => mode # "L3"

TypeInv == Truth /\ Places /\ Edges /\ Echoes /\ Traffic /\ Layers

LEMMA WordsFixed == Words' = Words
  BY DEF Words

LEMMA NoWords == <<>> \in Seq(Words)
  OBVIOUS

LEMMA Taken ==
  ASSUME NEW s \in Seq(Words), s # <<>>
  PROVE  Head(s) \in Words /\ Tail(s) \in Seq(Words)
  OBVIOUS

LEMMA Added ==
  ASSUME NEW s \in Seq(Words), NEW w \in Words
  PROVE  Append(s, w) \in Seq(Words)
  OBVIOUS

LEMMA EdgeNumbers ==
  /\ Warmup \in Nat /\ Iterations \in Nat /\ Trips \in Nat /\ Trips > 0
  /\ rpi5_edges = 2 * Trips /\ rpi5_edges \in Nat /\ Batches = Trips
  BY EdgeAssumption DEF Trips, rpi5_edges, Batches

LEMMA LowIsWord == Low \in Words
  BY EdgeNumbers DEF Low, Words, Trips

LEMMA TypeInit == Init => TypeInv
<1> SUFFICES ASSUME Init PROVE TypeInv
  OBVIOUS
<1>1. Truth /\ Layers
  BY DEF Init, Truth, Layers
<1>2. Places
  BY EdgeAssumption DEF Init, Places
<1>3. Edges /\ Echoes
  BY EdgeNumbers DEF Init, Edges, Echoes
<1>4. Traffic
  BY LowIsWord, NoWords DEF Init, Traffic
<1>. QED
  BY <1>1, <1>2, <1>3, <1>4 DEF TypeInv

\* The state machines move words, and number those they make.
LEMMA TypePio == TypeInv /\ Pio => TypeInv'
<1> SUFFICES ASSUME TypeInv, Pio PROVE TypeInv'
  OBVIOUS
<1> USE WordsFixed DEF orchVars, rpi4Vars, rpi5Vars
<1>1. UNCHANGED <<orchVars, rpi4Vars, rpi5Vars, en, drive5>>
  BY DEF Pio, edge_detector, Arrive, output_driver
<1>2. Truth' /\ Edges' /\ Echoes' /\ Layers' /\ word' \in Words
  BY <1>1 DEF TypeInv, Truth, Edges, Echoes, Layers, Traffic, Trips, rpi5_edges
<1>3. CASE edge_detector
  <2>1. Echo(Stimulus) \in Words
    BY EdgeNumbers DEF TypeInv, Places, Edges, Echo, Stimulus, Words, Trips
  <2>2. (out' = Echo(Stimulus) /\ rxf' = rxf) \/ (rxf' = Append(rxf, Echo(Stimulus)) /\ out' = out)
    BY <1>3 DEF edge_detector
  <2>3. UNCHANGED <<posted, txf>> /\ det' \in {"rise", "fall"}
    BY <1>3 DEF edge_detector
  <2>4. out' \in Words /\ rxf' \in Seq(Words)
    BY <2>1, <2>2 DEF TypeInv, Traffic
  <2>. QED
    BY <1>1, <1>2, <2>3, <2>4 DEF TypeInv, Places, Traffic
<1>4. CASE Arrive \/ output_driver
  <2>0. out \in Words /\ rxf \in Seq(Words) /\ posted \in Seq(Words) /\ txf \in Seq(Words)
    BY DEF TypeInv, Traffic
  <2>1. out' \in Words /\ rxf' \in Seq(Words) /\ posted' \in Seq(Words) /\ txf' \in Seq(Words)
    <3>1. CASE Arrive
      <4>1. posted # <<>> /\ txf' = Append(txf, Head(posted)) /\ posted' = Tail(posted)
            /\ UNCHANGED <<rxf, out>>
        BY <3>1 DEF Arrive
      <4>. QED
        BY <2>0, <4>1
    <3>2. CASE output_driver
      <4>1. txf # <<>> /\ out' = Head(txf) /\ txf' = Tail(txf) /\ UNCHANGED <<rxf, posted>>
        BY <3>2 DEF output_driver
      <4>. QED
        BY <2>0, <4>1
    <3>. QED
      BY <1>4, <3>1, <3>2
  <2>2. det' = det
    BY <1>4 DEF Arrive, output_driver
  <2>. QED
    BY <1>1, <1>2, <2>1, <2>2 DEF TypeInv, Places, Traffic
<1>. QED
  BY <1>3, <1>4 DEF Pio

\* An edge is echoed only while the count is below its limit.
LEMMA TypeRpi5 == TypeInv /\ latency_gpioloop => TypeInv'
<1> SUFFICES ASSUME TypeInv, latency_gpioloop PROVE TypeInv'
  OBVIOUS
<1> USE WordsFixed DEF At5, To5, pioVars
<1> DEFINE Step5 == \/ setup_edge_echo_sms \/ ForceLow \/ Enable \/ run_l0
                    \/ run_l1_get \/ run_l1_put \/ Barrier
                    \/ run_l2_first \/ run_l2_rx \/ run_l2_tx \/ cleanup_edge_echo_sms \/ run_l3
<1>0. Step5
  BY DEF latency_gpioloop
<1>1. UNCHANGED <<orchVars, rpi4Vars, running>>
  BY <1>0 DEF setup_edge_echo_sms, ForceLow, Enable, run_l0, run_l1_get, run_l1_put, Barrier,
              run_l2_first, run_l2_rx, run_l2_tx, cleanup_edge_echo_sms, run_l3
<1>2. UNCHANGED <<step, back, mode, test, passed, lost, dirty, r4, it, ok4, latch, drive4, edge,
                  foreign>>
  BY <1>1 DEF orchVars, rpi4Vars
<1>3. Edges'
  BY <1>2 DEF TypeInv, Edges, Trips
<1>7. ASSUME Enable PROVE p5' \in {"test", "poll", "first", "clean"}
  <2>1. mode \in {"L0", "L1", "L2"}
    BY <1>7, EdgeAssumption DEF Enable, TypeInv, Places, Layers
  <2>. QED
    BY <1>7, <2>1 DEF Enable
<1>4. Truth'
  <2>1. en' \in BOOLEAN /\ drive5' \in BOOLEAN
    <3>1. CASE setup_edge_echo_sms
      BY <3>1 DEF setup_edge_echo_sms, TypeInv, Truth
    <3>2. CASE Enable
      <4>1. en' \in BOOLEAN
        BY <3>2, Zenon DEF Enable, TypeInv, Truth
      <4>. QED
        BY <3>2, <4>1 DEF Enable, TypeInv, Truth
    <3>3. CASE cleanup_edge_echo_sms
      BY <3>3 DEF cleanup_edge_echo_sms, TypeInv, Truth
    <3>4. CASE ForceLow \/ run_l0 \/ run_l1_get \/ run_l1_put \/ Barrier
      BY <3>4 DEF ForceLow, run_l0, run_l1_get, run_l1_put, Barrier, TypeInv, Truth
    <3>5. CASE run_l2_first \/ run_l2_rx \/ run_l2_tx \/ run_l3
      BY <3>5 DEF run_l2_first, run_l2_rx, run_l2_tx, run_l3, TypeInv, Truth
    <3>. QED
      BY <1>0, <3>1, <3>2, <3>3, <3>4, <3>5
  <2>. QED
    BY <1>1, <1>2, <2>1 DEF TypeInv, Truth
<1>5. Places'
  <2>1. det' \in {"rise", "fall"}
    BY <1>0 DEF setup_edge_echo_sms, ForceLow, Enable, run_l0, run_l1_get, run_l1_put, Barrier,
       run_l2_first, run_l2_rx, run_l2_tx, cleanup_edge_echo_sms, run_l3, TypeInv, Places
  <2>2. p5' \in {"low", "enable", "test", "pausing", "pause", "poll", "put", "barrier", "first", "rx", "tx",
                 "clean", "cleanlow", "cleandir", "alloc", "batch", "unload", "exited"}
    <3>1. CASE Enable
      BY <3>1, <1>7
    <3>2. CASE setup_edge_echo_sms \/ ForceLow \/ run_l0 \/ cleanup_edge_echo_sms \/ run_l3
      BY <3>2 DEF setup_edge_echo_sms, ForceLow, run_l0, cleanup_edge_echo_sms, run_l3
    <3>3. CASE run_l1_get \/ run_l1_put \/ Barrier
      BY <3>3 DEF run_l1_get, run_l1_put, Barrier
    <3>4. CASE run_l2_first \/ run_l2_rx \/ run_l2_tx
      BY <3>4 DEF run_l2_first, run_l2_rx, run_l2_tx
    <3>. QED
      BY <1>0, <3>1, <3>2, <3>3, <3>4
  <2>. QED
    BY <1>2, <2>1, <2>2 DEF TypeInv, Places
<1>6. Echoes' /\ Traffic'
  <2> USE DEF TypeInv, Echoes, Traffic
  <2>1. CASE setup_edge_echo_sms
    <3>1. UNCHANGED <<n5, word, out>> /\ p5' \notin {"put", "tx"}
          /\ (UNCHANGED <<rxf, posted, txf>> \/ (rxf' = <<>> /\ posted' = <<>> /\ txf' = <<>>))
      BY <2>1 DEF setup_edge_echo_sms
    <3>2. rxf' \in Seq(Words) /\ posted' \in Seq(Words) /\ txf' \in Seq(Words)
      BY <3>1, NoWords
    <3>. QED
      BY <3>1, <3>2 DEF rpi5_edges
  <2>2. CASE ForceLow
    BY <2>2, LowIsWord DEF ForceLow, rpi5_edges
  <2>3. CASE cleanup_edge_echo_sms
    BY <2>3, LowIsWord DEF cleanup_edge_echo_sms, rpi5_edges
  <2>4. CASE Enable
    <3>1. UNCHANGED <<n5, word, rxf, posted, txf, out>> /\ p5' \notin {"put", "tx"}
      BY <2>4, <1>7 DEF Enable
    <3>. QED
      BY <3>1 DEF rpi5_edges
  <2>5. CASE run_l0 \/ Barrier \/ run_l2_first
    BY <2>5 DEF run_l0, Barrier, run_l2_first, rpi5_edges
  <2>6. CASE run_l1_get \/ run_l2_rx
    <3>1. UNCHANGED <<n5, posted, txf, out>>
          /\ (UNCHANGED <<word, rxf>> \/ (rxf # <<>> /\ word' = Head(rxf) /\ rxf' = Tail(rxf)))
          /\ (p5' \in {"put", "tx"} => n5 < rpi5_edges)
      BY <2>6 DEF run_l1_get, run_l2_rx
    <3>0. word \in Words /\ rxf \in Seq(Words)
      OBVIOUS
    <3>2. word' \in Words /\ rxf' \in Seq(Words)
      BY <3>0, <3>1, Taken, Zenon
    <3>. QED
      BY <3>1, <3>2 DEF rpi5_edges
  <2>7. CASE run_l1_put \/ run_l2_tx
    <3>1. UNCHANGED <<word, rxf, out>> /\ p5' \notin {"put", "tx"} /\ p5 \in {"put", "tx"}
          /\ (n5' = n5 \/ n5' = n5 + 1)
          /\ (posted' = posted \/ posted' = Append(posted, word))
          /\ (txf' = txf \/ txf' = Append(txf, word))
      BY <2>7 DEF run_l1_put, run_l2_tx
    <3>0. word \in Words /\ posted \in Seq(Words) /\ txf \in Seq(Words)
      OBVIOUS
    <3>2. posted' \in Seq(Words) /\ txf' \in Seq(Words)
      BY <3>0, <3>1, Added, Zenon
    <3>3. n5' \in 0..rpi5_edges
      BY <3>1, EdgeNumbers
    <3>. QED
      BY <3>1, <3>2, <3>3 DEF rpi5_edges
  <2>8. CASE run_l3
    <3>1. UNCHANGED <<word, rxf, posted, txf, out>> /\ p5' \notin {"put", "tx"}
          /\ (n5' = n5 \/ (n5 < Batches /\ n5' = n5 + 1))
      BY <2>8 DEF run_l3
    <3>2. n5' \in 0..rpi5_edges
      BY <3>1, EdgeNumbers
    <3>. QED
      BY <3>1, <3>2 DEF rpi5_edges
  <2>. QED
    BY <1>0, <2>1, <2>2, <2>3, <2>4, <2>5, <2>6, <2>7, <2>8
<1>8. Layers'
  <2>1. p5' \in {"setup", "low", "enable"} => p5 \in {"setup", "low", "enable"}
    BY <1>0, <1>7 DEF setup_edge_echo_sms, ForceLow, run_l0, run_l1_get, run_l1_put, Barrier,
       run_l2_first, run_l2_rx, run_l2_tx, cleanup_edge_echo_sms, run_l3
  <2>. QED
    BY <1>2, <2>1 DEF TypeInv, Layers
<1>. QED
  BY <1>3, <1>4, <1>5, <1>6, <1>8 DEF TypeInv

\* An iteration drives two edges and then counts.
LEMMA TypeRpi4 == TypeInv /\ latency_gpioloop_rpi4 => TypeInv'
<1> SUFFICES ASSUME TypeInv, latency_gpioloop_rpi4 PROVE TypeInv'
  OBVIOUS
<1> USE DEF At4, To4
<1>1. UNCHANGED <<orchVars, rpi5Vars, pioVars>>
  BY DEF latency_gpioloop_rpi4, MmapFails, gpio_setup_pins, SanityCheck, Iterate, GiveUp, Report,
         gpio_restore_pins
<1>2. UNCHANGED <<step, back, mode, test, passed, lost, dirty, p5, n5, word, running, en, det,
                  rxf, posted, txf, out, drive5>>
  BY <1>1 DEF orchVars, rpi5Vars, pioVars
<1>3. Echoes' /\ Traffic' /\ Layers'
  BY <1>2, WordsFixed DEF TypeInv, Echoes, Traffic, Layers, rpi5_edges
<1>4. Places'
  <2>1. latch' \in {0, 1} /\ r4' \in {"setlow", "check", "high", "awaitHigh", "low", "awaitLow",
                                      "report", "clean", "restore", "exited"}
    BY DEF latency_gpioloop_rpi4, MmapFails, gpio_setup_pins, SanityCheck, Iterate, GiveUp, Report,
           gpio_restore_pins, TypeInv, Places
  <2>. QED
    BY <1>2, <2>1 DEF TypeInv, Places
<1>5. Truth'
  <2>1. drive4' \in BOOLEAN /\ ok4' \in BOOLEAN
    BY DEF latency_gpioloop_rpi4, MmapFails, gpio_setup_pins, SanityCheck, Iterate, GiveUp, Report,
           gpio_restore_pins, TypeInv, Truth
  <2>2. foreign' = foreign \/ foreign' = (foreign \/ out.edge # edge)
    BY DEF latency_gpioloop_rpi4, MmapFails, gpio_setup_pins, SanityCheck, Iterate, GiveUp, Report,
           gpio_restore_pins
  <2>3. foreign' \in BOOLEAN
    BY <2>2, Zenon DEF TypeInv, Truth
  <2>. QED
    BY <1>2, <2>1, <2>3 DEF TypeInv, Truth
<1>6. Edges'
  <2> USE EdgeNumbers DEF TypeInv, Edges
  <2>1. CASE MmapFails \/ gpio_setup_pins \/ SanityCheck \/ GiveUp \/ Report \/ gpio_restore_pins
    BY <2>1 DEF MmapFails, gpio_setup_pins, SanityCheck, GiveUp, Report, gpio_restore_pins
  <2>2. CASE Iterate
    <3>1. CASE r4 = "high"
      <4>1. r4' = "awaitHigh" /\ edge' = edge + 1 /\ it' = it
        BY <2>2, <3>1 DEF Iterate
      <4>. QED
        BY <3>1, <4>1
    <3>2. CASE r4 = "awaitHigh"
      <4>1. r4' = "low" /\ edge' = edge /\ it' = it
        BY <2>2, <3>2 DEF Iterate
      <4>. QED
        BY <3>2, <4>1
    <3>3. CASE r4 = "low"
      <4>1. r4' = "awaitLow" /\ edge' = edge + 1 /\ it' = it
        BY <2>2, <3>3 DEF Iterate
      <4>. QED
        BY <3>3, <4>1
    <3>4. CASE r4 = "awaitLow"
      <4>1. edge' = edge /\ it' = it + 1 /\ r4' = (IF it' = Trips THEN "report" ELSE "high")
        BY <2>2, <3>4 DEF Iterate, Iterated, Trips
      <4>2. it' \in 0..Trips /\ edge' = 2 * it' /\ edge' \in 0..(2 * Trips)
        BY <3>4, <4>1
      <4>. QED
        BY <4>1, <4>2
    <3>. QED
      BY <2>2, <3>1, <3>2, <3>3, <3>4 DEF Iterate
  <2>. QED
    BY <2>1, <2>2 DEF latency_gpioloop_rpi4
<1>. QED
  BY <1>3, <1>4, <1>5, <1>6 DEF TypeInv

\* run.py starts both programs with their counters at 0.
LEMMA TypeRun == TypeInv /\ run_test => TypeInv'
<1> SUFFICES ASSUME TypeInv, run_test PROVE TypeInv'
  OBVIOUS
<1> USE DEF AtStep, ToStep, UnchangedTest, Ignored, rpi4Vars, rpi5Vars, pioVars
<1> DEFINE Step == \/ RunTest \/ Kill5 \/ Kill4 \/ Pins5 \/ Pins4 \/ Abort \/ StartRpi5 \/ Settle
                   \/ Measure \/ Collect \/ Stop \/ RunAlone \/ CollectAlone
<1>0. Step
  BY DEF run_test, cleanup_pins
<1>1. Truth'
  <2>1. passed' \in BOOLEAN
    <3>1. CASE Collect
      <4>1. passed' \in {ok4, FALSE} \/ passed' \in {FALSE}
        BY <3>1, Zenon DEF Collect
      <4>. QED
        BY <4>1, Zenon DEF TypeInv, Truth
    <3>2. CASE CollectAlone
      <4>1. passed' \in {n5 = Batches, FALSE} \/ passed' = passed
        BY <3>2, Zenon DEF CollectAlone
      <4>. QED
        BY <4>1, Zenon DEF TypeInv, Truth
    <3>3. CASE RunTest \/ RunAlone
      BY <3>3 DEF RunTest, RunAlone
    <3>4. CASE Kill5 \/ Kill4 \/ Pins5 \/ Pins4 \/ Abort
      BY <3>4 DEF Kill5, Kill4, Pins5, Pins4, Abort, TypeInv, Truth
    <3>5. CASE StartRpi5 \/ Settle \/ Measure \/ Stop
      BY <3>5 DEF StartRpi5, Settle, Measure, Stop, Interrupt, TypeInv, Truth
    <3>. QED
      BY <1>0, <3>1, <3>2, <3>3, <3>4, <3>5
  <2>2. dirty' \in BOOLEAN
    <3>1. dirty' = dirty \/ dirty' = (latch = 1 \/ out.level = 1)
      BY <1>0 DEF RunTest, Kill5, Kill4, Pins5, Pins4, Abort, StartRpi5, Settle, Measure,
                  Collect, Stop, Interrupt, RunAlone, CollectAlone
    <3>. QED
      BY <3>1, Zenon DEF TypeInv, Truth
  <2>3. ok4' \in BOOLEAN /\ foreign' \in BOOLEAN /\ running' \in BOOLEAN
    BY <1>0 DEF RunTest, Kill5, Kill4, Pins5, Pins4, Abort, StartRpi5, Settle, Measure,
                Collect, Stop, Interrupt, RunAlone, CollectAlone, TypeInv, Truth
  <2>4. drive4' \in BOOLEAN /\ drive5' \in BOOLEAN /\ en' \in BOOLEAN
    BY <1>0 DEF RunTest, Kill5, Kill4, Pins5, Pins4, Abort, StartRpi5, Settle, Measure,
                Collect, Stop, Interrupt, RunAlone, CollectAlone, TypeInv, Truth
  <2>. QED
    BY <2>1, <2>2, <2>3, <2>4 DEF Truth
<1>2. Places'
  <2>1. mode' \in Modes /\ back' \in {"start", "end"} /\ latch' = latch /\ det' = det
    BY <1>0 DEF RunTest, Kill5, Kill4, Pins5, Pins4, Abort, StartRpi5, Settle, Measure,
                Collect, Stop, Interrupt, RunAlone, CollectAlone, TypeInv, Places
  <2>2. step' \in {"kill5", "kill4", "pins5", "pins4", "start", "idle", "aborted", "settle",
                   "measure", "wait", "stop", "exit", "alone"}
    BY <1>0 DEF RunTest, Kill5, Kill4, Pins5, Pins4, Abort, StartRpi5, Settle, Measure,
                Collect, Stop, Interrupt, RunAlone, CollectAlone
  <2>3. test' = test \/ (test < MaxTests /\ test' = test + 1)
    BY <1>0 DEF RunTest, Kill5, Kill4, Pins5, Pins4, Abort, StartRpi5, Settle, Measure,
                Collect, Stop, Interrupt, RunAlone, CollectAlone
  <2>4. lost' = lost \/ (lost < MaxLost /\ lost' = lost + 1)
    BY <1>0 DEF RunTest, Kill5, Kill4, Pins5, Pins4, Abort, StartRpi5, Settle, Measure,
                Collect, Stop, Interrupt, RunAlone, CollectAlone
  <2>5. test' \in 0..MaxTests /\ lost' \in 0..MaxLost
    BY <2>3, <2>4, EdgeAssumption DEF TypeInv, Places
  <2>6. r4' = r4 \/ r4' \in {"off", "fsel"}
    BY <1>0 DEF RunTest, Kill5, Kill4, Pins5, Pins4, Abort, StartRpi5, Settle, Measure,
                Collect, Stop, Interrupt, RunAlone, CollectAlone
  <2>7. p5' = p5 \/ p5' \in {"off", "setup", "test", "datagen"}
    BY <1>0 DEF RunTest, Kill5, Kill4, Pins5, Pins4, Abort, StartRpi5, Settle, Measure,
                Collect, Stop, Interrupt, RunAlone, CollectAlone
  <2>. QED
    BY <2>1, <2>2, <2>5, <2>6, <2>7 DEF TypeInv, Places
<1>3. Edges'
  <2>1. CASE Measure
    BY <2>1, EdgeNumbers DEF Measure, Edges, Trips
  <2>2. CASE Kill4
    BY <2>2 DEF Kill4, TypeInv, Edges, Trips
  <2>3. CASE ~Measure /\ ~Kill4
    <3>1. UNCHANGED <<r4, it, edge>>
      BY <1>0, <2>3 DEF RunTest, Kill5, Pins5, Pins4, Abort, StartRpi5, Settle, Collect, Stop, Interrupt,
                        RunAlone, CollectAlone
    <3>. QED
      BY <3>1 DEF TypeInv, Edges, Trips
  <2>. QED
    BY <2>1, <2>2, <2>3
<1>4. Echoes'
  <2>1. (n5' = n5 /\ (p5' = p5 \/ p5' \in {"off", "test"})) \/ (n5' = 0 /\ p5' \in {"setup", "datagen"})
    BY <1>0 DEF RunTest, Kill5, Kill4, Pins5, Pins4, Abort, StartRpi5, Settle, Measure,
                Collect, Stop, Interrupt, RunAlone, CollectAlone
  <2>. QED
    BY <2>1, EdgeNumbers DEF TypeInv, Echoes, rpi5_edges
<1>5. Traffic'
  <2>1. out' = out /\ (word' = word \/ word' = Low)
        /\ (UNCHANGED <<rxf, posted, txf>> \/ (rxf' = <<>> /\ posted' = <<>> /\ txf' = <<>>))
    BY <1>0 DEF RunTest, Kill5, Kill4, Pins5, Pins4, Abort, StartRpi5, Settle, Measure,
                Collect, Stop, Interrupt, RunAlone, CollectAlone
  <2>. QED
    BY <2>1, LowIsWord, NoWords, WordsFixed DEF TypeInv, Traffic
<1>6. Layers'
  <2>1. \/ mode' = mode /\ (p5' = p5 \/ p5' \in {"off", "test"})
        \/ mode' # "L3"
        \/ step' = "alone" /\ p5' = "datagen"
    BY <1>0 DEF RunTest, Kill5, Kill4, Pins5, Pins4, Abort, StartRpi5, Settle, Measure,
                Collect, Stop, Interrupt, RunAlone, CollectAlone
  <2>2. \/ step' \notin {"settle", "measure", "wait", "stop", "exit"}
        \/ step \in {"settle", "measure", "wait", "stop", "exit"}
        \/ mode' # "L3"
    BY <1>0 DEF RunTest, Kill5, Kill4, Pins5, Pins4, Abort, StartRpi5, Settle, Measure,
                Collect, Stop, Interrupt, RunAlone, CollectAlone
  <2>. QED
    BY <2>1, <2>2 DEF TypeInv, Layers
<1>. QED
  BY <1>1, <1>2, <1>3, <1>4, <1>5, <1>6 DEF TypeInv

LEMMA TypeStep == TypeInv /\ [Next]_vars => TypeInv'
<1> SUFFICES ASSUME TypeInv, [Next]_vars PROVE TypeInv'
  OBVIOUS
<1>1. CASE Next
  BY <1>1, TypePio, TypeRpi5, TypeRpi4, TypeRun DEF Next
<1>2. CASE UNCHANGED vars
  BY <1>2 DEF vars, orchVars, rpi4Vars, rpi5Vars, pioVars, TypeInv, Truth, Places, Edges, Echoes,
              Traffic, Layers, Trips, rpi5_edges, Words
<1>. QED
  BY <1>1, <1>2

\* The two counters of edges never pass the budget run.py computed, 2 for each
\* round trip, and every program and pin is where the code can put it.
THEOREM TypesHold == Spec => []TypeOK
<1>1. TypeInv => TypeOK
  BY DEF TypeInv, Truth, Places, Edges, Echoes, Traffic, TypeOK, Trips
<1>. QED
  BY <1>1, TypeInit, TypeStep, PTL DEF Spec

-----------------------------------------------------------------------------
(* One edge under way.  From the moment the RPi4 drives an edge until it   *)
(* sees the echo, the edge is in exactly one place, in front of the        *)
(* detector, in a FIFO, in the hands of the RPi5 program, in a posted      *)
(* write, or on the response pin, and everything else agrees on the level  *)
(* before it.  The invariant says so for each step of an iteration, and    *)
(* what is left of it while either program starts or ends, and after       *)
(* cleanup_pins took a pin from a program it had failed to kill.           *)

Spinning == p5 \in {"test", "pausing", "pause", "poll", "put", "barrier", "first", "rx", "tx", "clean"}
Standalone == p5 \in {"datagen", "alloc", "batch", "unload"}
Before4 == r4 \in {"fsel", "setlow", "check"} \/ step \in {"settle", "measure"}
Loop4   == r4 \in {"high", "awaitHigh", "low", "awaitLow"}
Measuring == step \in {"wait", "stop", "exit"}

\* A program is started when its predecessor is gone, and which layer it runs.
Dead5 == step = "start" \/ (back = "start" /\ step \in {"kill4", "pins5", "pins4"})
Dead4 == step \in {"start", "settle", "measure"} \/ (back = "start" /\ step \in {"pins5", "pins4"})
Order ==
  /\ en => Spinning
  /\ Dead5 => ~Alive5
  /\ Dead4 => ~Alive4
  /\ step = "start" => back = "start"
  /\ Standalone => mode = "L3"
  /\ Spinning => mode # "L3"
  /\ p5 \in {"test", "pausing", "pause"} => mode = "L0"
  /\ p5 \in {"poll", "put", "barrier", "first", "rx", "tx"} => mode # "L0"

\* The stimulus pin, by the step of the iteration.
Levels ==
  /\ r4 \in {"check", "high", "awaitLow"} => latch = 0
  /\ r4 \in {"awaitHigh", "low"} => latch = 1
  /\ Before4 /\ ~dirty => latch = 0
  /\ Measuring /\ (r4 \in {"setlow", "check"} \/ Loop4) => drive4

Empty   == rxf = <<>> /\ posted = <<>> /\ txf = <<>>
Holding == p5 \in {"put", "tx"}
Mark    == Echo(latch)
Counted(n) == mode # "L0" => n5 >= n
Seen(level) == det = IF level = 1 THEN "fall" ELSE "rise"

\* Before the first edge; and only L1 has posted writes.
Fresh ==
  /\ p5 \in {"setup", "low", "enable"} => n5 = 0
  /\ p5 \in {"setup", "low", "enable"} /\ ~dirty =>
       out.level = 0 /\ (Loop4 => r4 \in {"high", "awaitHigh"} /\ it = 0)
  /\ p5 \in {"low", "enable"} => det = "rise" /\ Empty
  /\ p5 \in {"first", "rx", "tx"} => posted = <<>>
  /\ Before4 /\ ~dirty => out.level = 0 /\ (mode # "L3" => n5 = 0)
  /\ Before4 /\ ~dirty /\ Spinning => det = "rise" /\ Empty /\ ~Holding

\* Where the edge can be.
Arrived ==
  /\ Seen(latch) /\ out.level = latch /\ (latch = 1 => out.edge = edge)
  /\ Empty /\ ~Holding /\ Counted(edge)
Pending ==
  /\ Seen(1 - latch) /\ out.level = 1 - latch
  /\ Empty /\ ~Holding /\ Counted(edge - 1)
InRx == rxf = <<Mark>> /\ posted = <<>> /\ txf = <<>> /\ ~Holding /\ Counted(edge - 1)
InCpu == Empty /\ Holding /\ word = Mark /\ Counted(edge - 1)
InBus == rxf = <<>> /\ posted = <<Mark>> /\ txf = <<>> /\ ~Holding /\ Counted(edge)
InTx == rxf = <<>> /\ posted = <<>> /\ txf = <<Mark>> /\ ~Holding /\ Counted(edge)
Dropped == Empty /\ p5 = "clean"
Under == Seen(latch) /\ out.level = 1 - latch /\ (InRx \/ InCpu \/ InBus \/ InTx \/ Dropped)

Place ==
  ~dirty /\ drive4 /\ drive5 /\ Spinning /\ Loop4 =>
    Arrived \/ (r4 \in {"awaitHigh", "awaitLow"} /\ (Pending \/ Under))

\* Without its pin the RPi4 makes no more rising edges; one may be on its way,
\* with nothing but falling ones behind it.
Falls(s) == \A i \in 1..Len(s) : s[i].level = 0
RiseFirst(s) == s # <<>> /\ Head(s) = Echo(1) /\ Falls(Tail(s))
HoldsFall == Holding => word.level = 0
NoRise == Falls(rxf) /\ Falls(posted) /\ Falls(txf) /\ HoldsFall
RiseInRx == RiseFirst(rxf) /\ posted = <<>> /\ txf = <<>> /\ ~Holding
RiseInCpu == Falls(rxf) /\ posted = <<>> /\ txf = <<>> /\ Holding /\ word = Echo(1)
RiseInBus == Falls(rxf) /\ RiseFirst(posted) /\ txf = <<>> /\ HoldsFall
RiseInTx == Falls(rxf) /\ Falls(posted) /\ RiseFirst(txf) /\ HoldsFall
OneRise == RiseInRx \/ RiseInCpu \/ RiseInBus \/ RiseInTx
Released ==
  ~dirty /\ ~drive4 /\ drive5 /\ Spinning /\ Loop4 =>
    NoRise \/ (r4 = "awaitHigh" /\ out.level = 0 /\ OneRise)

\* What the RPi4 reads is the answer to its own edge.
Answer ==
  ~dirty /\ drive5 =>
    /\ r4 = "high" => out.level = 0
    /\ r4 = "awaitHigh" /\ out.level = 1 => out.edge = edge
    /\ r4 = "awaitHigh" /\ out.level = 1 /\ drive4 /\ mode \notin {"L0", "L3"} => n5 >= edge

\* The RPi5 counts no edge the RPi4 did not drive.
Taken5 == n5 + One(Holding) + Len(rxf)
Even(n) == n % 2 = 0
Tally == Taken5 <= edge /\ (det = "rise" <=> Even(Taken5))
Ahead ==
  /\ mode = "L0" => n5 = 0
  /\ mode = "L3" => n5 <= Trips
  /\ n5 = 2 * Trips /\ p5 = "exited" => ~drive5
  /\ ~dirty /\ drive4 /\ Loop4 /\ mode # "L3" => n5 <= edge
  /\ ~dirty /\ drive4 /\ Loop4 /\ mode # "L0" /\ Spinning /\ p5 # "clean" => Tally

\* And it counted those the RPi4 saw come back.
Behind ==
  Measuring /\ ~dirty /\ mode # "L0" =>
    /\ r4 = "low" => n5 >= edge
    /\ r4 = "awaitLow" => n5 >= edge - 1
    /\ r4 = "report" \/ ok4 => n5 >= 2 * Trips - 1
    /\ step # "wait" /\ passed => n5 >= 2 * Trips - 1

EdgeInv ==
  Order /\ Levels /\ Fresh /\ Place /\ Released /\ Answer /\ Ahead /\ Behind /\ OwnEcho

\* Who may touch what.
LEMMA ByPio ==
  Pio => UNCHANGED <<step, back, mode, test, passed, lost, dirty, r4, it, ok4, latch, drive4,
                     edge, foreign, p5, n5, word, running, en, drive5>>
  BY DEF Pio, edge_detector, Arrive, output_driver, orchVars, rpi4Vars, rpi5Vars

LEMMA ByRpi4 ==
  latency_gpioloop_rpi4 =>
    UNCHANGED <<step, back, mode, test, passed, lost, dirty, p5, n5, word, running, en, det,
                rxf, posted, txf, out, drive5>>
  BY DEF latency_gpioloop_rpi4, MmapFails, gpio_setup_pins, SanityCheck, Iterate, GiveUp, Report,
         gpio_restore_pins, At4, orchVars, rpi5Vars, pioVars

LEMMA ByRpi5 ==
  latency_gpioloop =>
    UNCHANGED <<step, back, mode, test, passed, lost, dirty, r4, it, ok4, latch, drive4, edge,
                foreign, running>>
<1> USE DEF At5, To5, orchVars, rpi4Vars
<1>1. latency_gpioloop => UNCHANGED <<orchVars, rpi4Vars, running>>
  BY DEF latency_gpioloop, setup_edge_echo_sms, ForceLow, Enable, run_l0, run_l1_get, run_l1_put,
         Barrier, run_l2_first, run_l2_rx, run_l2_tx, cleanup_edge_echo_sms, run_l3
<1>. QED
  BY <1>1

LEMMA ByRun ==
  run_test => UNCHANGED <<latch, det, out>>
  BY DEF run_test, cleanup_pins, RunTest, Kill5, Kill4, Pins5, Pins4, Abort, StartRpi5, Settle,
         Measure, Collect, Stop, Interrupt, RunAlone, CollectAlone, Ignored, rpi4Vars, pioVars

\* Order: a program is started only where the last one is gone, and each layer has
\* statements of its own.
LEMMA OrderPio == TypeInv /\ Order /\ Pio => Order'
<1> SUFFICES ASSUME Order, Pio PROVE Order'
  OBVIOUS
<1>1. UNCHANGED <<step, back, mode, r4, p5, en>>
  BY ByPio
<1>. QED
  BY <1>1 DEF Order, Spinning, Standalone, Dead4, Dead5, Alive4, Alive5

LEMMA OrderRpi4 == TypeInv /\ Order /\ latency_gpioloop_rpi4 => Order'
<1> SUFFICES ASSUME TypeInv, Order, latency_gpioloop_rpi4 PROVE Order'
  OBVIOUS
<1>1. UNCHANGED <<step, back, mode, p5, en>>
  BY ByRpi4
<1>2. Alive4
  BY DEF latency_gpioloop_rpi4, MmapFails, gpio_setup_pins, SanityCheck, Iterate, GiveUp, Report,
         gpio_restore_pins, At4, Alive4
<1>. QED
  BY <1>1, <1>2 DEF Order, Spinning, Standalone, Dead4, Dead5, Alive4, Alive5

LEMMA OrderRpi5 == TypeInv /\ Order /\ latency_gpioloop => Order'
<1> SUFFICES ASSUME TypeInv, Order, latency_gpioloop PROVE Order'
  OBVIOUS
<1> USE DEF At5, To5, pioVars
<1>1. UNCHANGED <<step, back, mode, r4>>
  BY ByRpi5
<1>2. Alive5
  BY DEF latency_gpioloop, setup_edge_echo_sms, ForceLow, Enable, run_l0, run_l1_get, run_l1_put,
         Barrier, run_l2_first, run_l2_rx, run_l2_tx, cleanup_edge_echo_sms, run_l3, Alive5
<1>3. en' => Spinning'
  <2>1. CASE Enable
    <3>1. p5' \in {"test", "poll", "first", "clean"}
      BY <2>1, EdgeAssumption DEF Enable, TypeInv, Layers, Places
    <3>. QED
      BY <3>1 DEF Spinning
  <2>2. CASE setup_edge_echo_sms \/ ForceLow \/ cleanup_edge_echo_sms \/ run_l3
    BY <2>2 DEF setup_edge_echo_sms, ForceLow, cleanup_edge_echo_sms, run_l3, Order, Spinning
  <2>3. CASE run_l0 \/ run_l1_get \/ run_l1_put \/ Barrier \/ run_l2_first \/ run_l2_rx \/ run_l2_tx
    BY <2>3 DEF run_l0, run_l1_get, run_l1_put, Barrier, run_l2_first, run_l2_rx, run_l2_tx, Spinning
  <2>. QED
    BY <2>1, <2>2, <2>3 DEF latency_gpioloop
<1>4. /\ Standalone' => mode = "L3"
      /\ Spinning' => mode # "L3"
      /\ p5' \in {"test", "pausing", "pause"} => mode = "L0"
      /\ p5' \in {"poll", "put", "barrier", "first", "rx", "tx"} => mode # "L0"
  BY EdgeAssumption DEF latency_gpioloop, setup_edge_echo_sms, ForceLow, Enable, run_l0, run_l1_get,
     run_l1_put, Barrier, run_l2_first, run_l2_rx, run_l2_tx, cleanup_edge_echo_sms, run_l3,
     Order, Spinning, Standalone, TypeInv, Layers, Places
<1>. QED
  BY <1>1, <1>2, <1>3, <1>4 DEF Order, Dead4, Dead5, Alive4

LEMMA OrderRun == TypeInv /\ Order /\ run_test => Order'
<1> SUFFICES ASSUME TypeInv, Order, run_test PROVE Order'
  OBVIOUS
<1> USE DEF AtStep, ToStep, UnchangedTest, Ignored, rpi4Vars, rpi5Vars, pioVars,
            Order, Spinning, Standalone, Dead4, Dead5, Alive4, Alive5
<1>1. CASE RunTest \/ Abort
  BY <1>1 DEF RunTest, Abort
<1>2. CASE Kill5
  BY <1>2 DEF Kill5
<1>3. CASE Kill4
  BY <1>3 DEF Kill4
<1>4. CASE Pins5 \/ Pins4
  BY <1>4 DEF Pins5, Pins4
<1>5. CASE StartRpi5
  BY <1>5 DEF StartRpi5
<1>6. CASE Settle \/ Measure
  BY <1>6 DEF Settle, Measure
<1>7. CASE Collect \/ CollectAlone
  <2>1. /\ step' \in {"stop", "idle"} /\ step \in {"wait", "alone"}
        /\ UNCHANGED <<back, mode, p5, r4, en>>
    BY <1>7 DEF Collect, CollectAlone
  <2>. QED
    BY <2>1
<1>8. CASE Stop
  BY <1>8 DEF Stop, Interrupt
<1>9. CASE RunAlone
  BY <1>9 DEF RunAlone
<1>. QED
  BY <1>1, <1>2, <1>3, <1>4, <1>5, <1>6, <1>7, <1>8, <1>9 DEF run_test, cleanup_pins

\* Levels: the stimulus is what the step of the iteration made it.
LEMMA LevelsPio == TypeInv /\ Levels /\ Pio => Levels'
<1> SUFFICES ASSUME Levels, Pio PROVE Levels'
  OBVIOUS
<1>1. UNCHANGED <<step, dirty, r4, latch, drive4>>
  BY ByPio
<1>. QED
  BY <1>1 DEF Levels, Before4, Loop4, Measuring

LEMMA LevelsRpi5 == TypeInv /\ Levels /\ latency_gpioloop => Levels'
<1> SUFFICES ASSUME Levels, latency_gpioloop PROVE Levels'
  OBVIOUS
<1>1. UNCHANGED <<step, dirty, r4, latch, drive4>>
  BY ByRpi5
<1>. QED
  BY <1>1 DEF Levels, Before4, Loop4, Measuring

LEMMA LevelsRpi4 == TypeInv /\ Order /\ Levels /\ latency_gpioloop_rpi4 => Levels'
<1> SUFFICES ASSUME TypeInv, Order, Levels, latency_gpioloop_rpi4 PROVE Levels'
  OBVIOUS
<1>1. UNCHANGED <<step, dirty>>
  BY ByRpi4
<1>2. step \notin {"settle", "measure"}
  BY DEF latency_gpioloop_rpi4, MmapFails, gpio_setup_pins, SanityCheck, Iterate, GiveUp, Report,
         gpio_restore_pins, At4, Order, Dead4, Alive4
<1> USE <1>1, <1>2 DEF At4, To4, Levels, Before4, Loop4, Measuring
<1>3. CASE MmapFails \/ gpio_setup_pins \/ SanityCheck \/ GiveUp \/ Report \/ gpio_restore_pins
  BY <1>3 DEF MmapFails, gpio_setup_pins, SanityCheck, GiveUp, Report, gpio_restore_pins
<1>4. CASE Iterate
  BY <1>4 DEF Iterate
<1>. QED
  BY <1>3, <1>4 DEF latency_gpioloop_rpi4

LEMMA LevelsRun == TypeInv /\ Order /\ Levels /\ run_test => Levels'
<1> SUFFICES ASSUME TypeInv, Order, Levels, run_test PROVE Levels'
  OBVIOUS
<1>0. latch' = latch /\ latch \in {0, 1}
  BY ByRun DEF TypeInv, Places
<1> USE <1>0 DEF AtStep, ToStep, UnchangedTest, Ignored, rpi4Vars, rpi5Vars, pioVars,
            Levels, Before4, Loop4, Measuring
<1>1. CASE RunTest \/ Abort \/ Stop \/ RunAlone
  BY <1>1 DEF RunTest, Abort, Stop, Interrupt, RunAlone
<1>2. CASE Kill5 \/ Kill4 \/ Pins5 \/ Pins4
  BY <1>2 DEF Kill5, Kill4, Pins5, Pins4
<1>3. CASE StartRpi5
  BY <1>3 DEF StartRpi5, Order, Dead4, Alive4
<1>4. CASE Settle \/ Measure
  BY <1>4 DEF Settle, Measure, Order, Dead4, Alive4
<1>5. CASE Collect \/ CollectAlone
  <2>1. /\ (step' = "stop" /\ step = "wait") \/ (step' = "idle" /\ step = "alone")
        /\ UNCHANGED <<dirty, r4, drive4>>
    BY <1>5 DEF Collect, CollectAlone
  <2>. QED
    BY <2>1
<1>. QED
  BY <1>1, <1>2, <1>3, <1>4, <1>5 DEF run_test, cleanup_pins

\* Fresh: nothing moves before the first edge.
LEMMA FreshPio == TypeInv /\ Order /\ Levels /\ Fresh /\ Pio => Fresh'
<1> SUFFICES ASSUME TypeInv, Order, Levels, Fresh, Pio PROVE Fresh'
  OBVIOUS
<1>1. UNCHANGED <<step, dirty, r4, it, n5, mode, p5>>
  BY ByPio
<1>2. p5 \notin {"low", "enable"} /\ ~(Before4 /\ ~dirty /\ Spinning)
  BY DEF Pio, edge_detector, Arrive, output_driver, Order, Levels, Fresh, Empty, Stimulus, Spinning
<1>3. p5 = "setup" \/ (Before4 /\ ~dirty) => out' = out
  BY <1>2 DEF Pio, edge_detector, Arrive, output_driver, Order, Spinning
<1>4. p5 \in {"first", "rx", "tx"} => posted' = posted
  BY DEF Pio, edge_detector, Arrive, output_driver, Fresh
<1>. QED
  BY <1>1, <1>2, <1>3, <1>4 DEF Fresh, Before4, Loop4, Spinning

LEMMA FreshRpi4 == TypeInv /\ Order /\ Fresh /\ latency_gpioloop_rpi4 => Fresh'
<1> SUFFICES ASSUME TypeInv, Order, Fresh, latency_gpioloop_rpi4 PROVE Fresh'
  OBVIOUS
<1>1. UNCHANGED <<step, dirty, mode, p5, n5, det, rxf, posted, txf, out, drive5>>
  BY ByRpi4
<1>2. step \notin {"settle", "measure"}
  BY DEF latency_gpioloop_rpi4, MmapFails, gpio_setup_pins, SanityCheck, Iterate, GiveUp, Report,
         gpio_restore_pins, At4, Order, Dead4, Alive4
<1>3. Before4' => Before4
  BY <1>2, <1>1 DEF latency_gpioloop_rpi4, MmapFails, gpio_setup_pins, SanityCheck, Iterate, GiveUp, Report,
         gpio_restore_pins, At4, To4, Before4
<1>4. p5 \in {"setup", "low", "enable"} /\ ~dirty /\ Loop4' => r4' \in {"high", "awaitHigh"} /\ it' = 0
  <2> SUFFICES ASSUME p5 \in {"setup", "low", "enable"}, ~dirty, Loop4'
               PROVE  r4' \in {"high", "awaitHigh"} /\ it' = 0
    OBVIOUS
  <2>1. out.level = 0 /\ (Loop4 => r4 \in {"high", "awaitHigh"} /\ it = 0)
    BY DEF Fresh
  <2>2. r4 \in {"fsel", "setlow", "check"} => it = 0
    BY DEF TypeInv, Edges
  <2> USE DEF At4, To4, Loop4
  <2>3. CASE Iterate
    BY <2>1, <2>3 DEF Iterate, EchoHigh, Response
  <2>4. CASE MmapFails \/ gpio_setup_pins \/ SanityCheck \/ GiveUp \/ Report \/ gpio_restore_pins
    BY <2>2, <2>4 DEF MmapFails, gpio_setup_pins, SanityCheck, GiveUp, Report, gpio_restore_pins
  <2>. QED
    BY <2>3, <2>4 DEF latency_gpioloop_rpi4
<1>. QED
  BY <1>1, <1>3, <1>4 DEF Fresh, Spinning, Empty, Holding

LEMMA FreshRpi5 == TypeInv /\ Order /\ Fresh /\ latency_gpioloop => Fresh'
<1> SUFFICES ASSUME TypeInv, Order, Fresh, latency_gpioloop PROVE Fresh'
  OBVIOUS
<1> USE DEF At5, To5, pioVars
<1>1. UNCHANGED <<step, dirty, mode, r4, it>>
  BY ByRpi5
<1>2. CASE setup_edge_echo_sms \/ ForceLow
  BY <1>1, <1>2 DEF setup_edge_echo_sms, ForceLow, Low, Fresh, Before4, Loop4, Spinning, Empty
<1>3. CASE Enable
  <2>1. p5' \in {"test", "poll", "first", "clean"}
    BY <1>3, EdgeAssumption DEF Enable, TypeInv, Layers, Places
  <2>2. det = "rise" /\ Empty /\ UNCHANGED <<n5, det, rxf, posted, txf, out>>
    BY <1>3 DEF Enable, Fresh
  <2>. QED
    BY <1>1, <2>1, <2>2 DEF Fresh, Before4, Empty, Holding
<1>4. CASE run_l0 \/ Barrier \/ run_l2_first \/ cleanup_edge_echo_sms
  BY <1>1, <1>4 DEF run_l0, Barrier, run_l2_first, cleanup_edge_echo_sms, Low, Fresh, Before4,
                    Spinning, Empty, Holding
<1>5. CASE run_l1_get \/ run_l2_rx
  <2>1. /\ UNCHANGED <<n5, det, posted, txf, out>> /\ Spinning
        /\ (p5' = "clean" /\ rxf' = rxf) \/ rxf # <<>>
        /\ p5' \notin {"setup", "low", "enable"}
        /\ p5' \in {"first", "rx", "tx"} => p5 \in {"first", "rx", "tx"}
    BY <1>5 DEF run_l1_get, run_l2_rx, Spinning
  <2>. QED
    BY <1>1, <2>1 DEF Fresh, Before4, Empty, Holding
<1>6. CASE run_l1_put \/ run_l2_tx
  <2>1. /\ Holding /\ Spinning /\ out' = out /\ p5' \notin {"setup", "low", "enable"}
        /\ p5' \in {"first", "rx", "tx"} => p5 = "tx" /\ posted' = posted
    BY <1>6 DEF run_l1_put, run_l2_tx, Holding, Spinning
  <2>2. ~(Before4 /\ ~dirty)
    BY <2>1 DEF Fresh
  <2>. QED
    BY <1>1, <2>1, <2>2 DEF Fresh, Before4
<1>7. CASE run_l3
  <2>1. /\ Standalone /\ out' = out /\ ~Spinning'
        /\ p5' \notin {"setup", "low", "enable", "first", "rx", "tx"}
    BY <1>7 DEF run_l3, Standalone, Spinning
  <2>2. mode = "L3"
    BY <2>1 DEF Order
  <2>. QED
    BY <1>1, <2>1, <2>2 DEF Fresh, Before4
<1>. QED
  BY <1>2, <1>3, <1>4, <1>5, <1>6, <1>7 DEF latency_gpioloop

LEMMA FreshRun == TypeInv /\ Order /\ Fresh /\ run_test => Fresh'
<1> SUFFICES ASSUME TypeInv, Order, Fresh, run_test PROVE Fresh'
  OBVIOUS
<1>0. UNCHANGED <<det, out>> /\ out.level \in {0, 1} /\ latch \in {0, 1}
  BY ByRun DEF TypeInv, Places, Traffic, Words
<1> USE <1>0 DEF AtStep, ToStep, UnchangedTest, Ignored, rpi4Vars, rpi5Vars, pioVars,
            Fresh, Before4, Loop4, Spinning, Empty, Holding
<1>1. CASE RunTest \/ Abort
  BY <1>1 DEF RunTest, Abort
<1>2. CASE Kill5
  BY <1>2 DEF Kill5
<1>3. CASE Kill4 \/ Pins5 \/ Pins4
  BY <1>3 DEF Kill4, Pins5, Pins4
<1>4. CASE StartRpi5
  BY <1>4 DEF StartRpi5, Order, Dead4, Alive4
<1>5. CASE Settle \/ Measure
  BY <1>5 DEF Settle, Measure
<1>6. CASE Collect \/ CollectAlone
  <2>1. /\ (step' = "stop" /\ step = "wait") \/ (step' = "idle" /\ step = "alone")
        /\ UNCHANGED <<dirty, mode, r4, it, p5, n5, rxf, posted, txf>>
    BY <1>6 DEF Collect, CollectAlone
  <2>. QED
    BY <2>1
<1>7. CASE Stop
  BY <1>7 DEF Stop, Interrupt
<1>8. CASE RunAlone
  BY <1>8 DEF RunAlone
<1>. QED
  BY <1>1, <1>2, <1>3, <1>4, <1>5, <1>6, <1>7, <1>8 DEF run_test, cleanup_pins

\* A FIFO with one word in it.
LEMMA OneWord ==
  ASSUME NEW w
  PROVE  /\ Append(<<>>, w) = <<w>> /\ Head(<<w>>) = w /\ Tail(<<w>>) = <<>> /\ <<w>> # <<>>
  OBVIOUS

\* The state machines carry the edge on by one place.
LEMMA PlacePio == TypeInv /\ Place /\ Pio => Place'
<1> SUFFICES ASSUME TypeInv, Place, Pio,
                    ~dirty, drive4, drive5, Spinning, Loop4
             PROVE  Arrived' \/ (r4 \in {"awaitHigh", "awaitLow"} /\ (Pending' \/ Under'))
  BY ByPio DEF Place, Spinning, Loop4
<1>1. UNCHANGED <<mode, r4, latch, drive4, edge, p5, n5, word>> /\ latch \in {0, 1}
  BY ByPio DEF TypeInv, Places
<1>2. /\ Arrived \/ (r4 \in {"awaitHigh", "awaitLow"} /\ (Pending \/ Under))
      /\ Stimulus = latch
  BY DEF Place, Stimulus
<1>3. Mark' = Mark /\ Mark.level = latch /\ Mark.edge = edge /\ Mark = Echo(Stimulus)
  BY <1>1, <1>2 DEF Mark, Echo
<1>4. CASE edge_detector
  <2>1. /\ det = (IF latch = 1 THEN "rise" ELSE "fall") /\ det' = (IF latch = 1 THEN "fall" ELSE "rise")
        /\ UNCHANGED <<posted, txf>>
    BY <1>2, <1>4 DEF edge_detector
  <2>2. r4 \in {"awaitHigh", "awaitLow"} /\ Pending
    BY <1>1, <1>2, <2>1 DEF Arrived, Under, Seen
  <2>3. CASE mode = "L0"
    BY <1>1, <1>3, <1>4, <2>1, <2>2, <2>3 DEF edge_detector, Pending, Arrived, Seen, Empty,
       Holding, Counted
  <2>4. CASE mode # "L0"
    <3>1. rxf' = <<Mark>> /\ out' = out
      BY <1>3, <1>4, <2>2, <2>4, OneWord DEF edge_detector, Pending, Empty
    <3>2. InRx'
      BY <1>1, <1>3, <2>1, <2>2, <3>1 DEF Pending, InRx, Empty, Holding, Counted
    <3>. QED
      BY <1>1, <2>1, <2>2, <3>1, <3>2 DEF Pending, Under, Seen
  <2>. QED
    BY <2>3, <2>4
<1>5. CASE Arrive
  <2>1. posted # <<>> /\ txf' = Append(txf, Head(posted)) /\ posted' = Tail(posted)
        /\ UNCHANGED <<det, rxf, out>>
    BY <1>5 DEF Arrive
  <2>2. r4 \in {"awaitHigh", "awaitLow"} /\ Under /\ InBus
    BY <1>2, <2>1 DEF Arrived, Pending, Under, InRx, InCpu, InTx, Dropped, Empty
  <2>3. InTx'
    BY <1>1, <1>3, <2>1, <2>2, OneWord DEF InBus, InTx, Holding, Counted
  <2>. QED
    BY <1>1, <2>1, <2>2, <2>3 DEF Under, Seen
<1>6. CASE output_driver
  <2>1. txf # <<>> /\ out' = Head(txf) /\ txf' = Tail(txf) /\ UNCHANGED <<det, rxf, posted>>
    BY <1>6 DEF output_driver
  <2>2. Under /\ InTx
    BY <1>2, <2>1 DEF Arrived, Pending, Under, InRx, InCpu, InBus, Dropped, Empty
  <2>3. out' = Mark /\ txf' = <<>>
    BY <2>1, <2>2, OneWord DEF InTx
  <2>. QED
    BY <1>1, <1>3, <2>1, <2>2, <2>3 DEF Under, InTx, Arrived, Seen, Empty, Holding, Counted
<1>. QED
  BY <1>4, <1>5, <1>6 DEF Pio

\* The RPi5 program takes the word from one FIFO to the other.
LEMMA PlaceRpi5 == TypeInv /\ Order /\ Levels /\ Fresh /\ Place /\ latency_gpioloop => Place'
<1> SUFFICES ASSUME TypeInv, Order, Levels, Fresh, Place, latency_gpioloop,
                    ~dirty, drive4, drive5', Spinning', Loop4
             PROVE  Arrived' \/ (r4 \in {"awaitHigh", "awaitLow"} /\ (Pending' \/ Under'))
  BY ByRpi5 DEF Place, Loop4
<1> USE DEF At5, To5, pioVars
<1>1. UNCHANGED <<mode, r4, latch, edge>> /\ latch \in {0, 1} /\ edge \in Nat /\ n5 \in Nat
  BY ByRpi5, EdgeNumbers DEF TypeInv, Places, Edges, Echoes
<1>2. Mark' = Mark
  BY <1>1 DEF Mark, Echo
<1>3. CASE Enable
  <2>1. /\ out.level = 0 /\ r4 \in {"high", "awaitHigh"} /\ it = 0 /\ n5 = 0
        /\ det = "rise" /\ Empty
    BY <1>3 DEF Enable, Fresh
  <2>2. edge = (IF r4 = "high" THEN 0 ELSE 1) /\ latch = edge
    BY <2>1, EdgeNumbers DEF TypeInv, Edges, Levels
  <2>3. p5' \notin {"put", "tx"} /\ UNCHANGED <<n5, det, rxf, posted, txf, out>>
    BY <1>3, EdgeAssumption DEF Enable, TypeInv, Layers, Places
  <2>4. CASE r4 = "high"
    BY <1>1, <2>1, <2>2, <2>3, <2>4 DEF Arrived, Seen, Empty, Holding, Counted
  <2>5. CASE r4 = "awaitHigh"
    BY <1>1, <2>1, <2>2, <2>3, <2>5 DEF Pending, Seen, Empty, Holding, Counted
  <2>. QED
    BY <2>1, <2>4, <2>5
<1>4. CASE ~Enable
  <2>1. Spinning /\ drive5
    BY <1>4 DEF latency_gpioloop, setup_edge_echo_sms, ForceLow, run_l0, run_l1_get, run_l1_put,
       Barrier, run_l2_first, run_l2_rx, run_l2_tx, cleanup_edge_echo_sms, run_l3, Spinning
  <2>2. Arrived \/ (r4 \in {"awaitHigh", "awaitLow"} /\ (Pending \/ Under))
    BY <2>1 DEF Place
  <2>3. ~cleanup_edge_echo_sms /\ ~setup_edge_echo_sms /\ ~ForceLow /\ ~run_l3
    BY <2>1 DEF cleanup_edge_echo_sms, setup_edge_echo_sms, ForceLow, run_l3, Spinning
  <2>4. CASE run_l0 \/ Barrier \/ run_l2_first
    <3>1. UNCHANGED <<n5, det, rxf, posted, txf, out>> /\ p5 \notin {"put", "tx", "clean"}
          /\ p5' \notin {"put", "tx"}
      BY <2>4 DEF run_l0, Barrier, run_l2_first
    <3>. QED
      BY <1>1, <1>2, <2>2, <3>1 DEF Arrived, Pending, Under, InRx, InCpu, InBus, InTx, Dropped,
         Seen, Empty, Holding, Counted
  <2>5. CASE run_l1_get \/ run_l2_rx
    <3>1. UNCHANGED <<n5, det, posted, txf, out>> /\ p5 \notin {"put", "tx", "clean"}
      BY <2>5 DEF run_l1_get, run_l2_rx
    <3>2. CASE p5' = "clean"
      <4>1. rxf' = rxf
        BY <2>5, <3>2 DEF run_l1_get, run_l2_rx
      <4>. QED
        BY <1>1, <1>2, <2>2, <3>1, <3>2, <4>1 DEF Arrived, Pending, Under, InRx, InCpu, InBus,
           InTx, Dropped, Seen, Empty, Holding, Counted
    <3>3. CASE p5' # "clean"
      <4>1. rxf # <<>> /\ word' = Head(rxf) /\ rxf' = Tail(rxf) /\ p5' \in {"put", "tx"}
        BY <2>5, <3>3 DEF run_l1_get, run_l2_rx
      <4>2. r4 \in {"awaitHigh", "awaitLow"} /\ Under /\ InRx
        BY <2>2, <4>1 DEF Arrived, Pending, Under, InCpu, InBus, InTx, Dropped, Empty
      <4>3. InCpu'
        BY <1>1, <1>2, <3>1, <4>1, <4>2, OneWord DEF InRx, InCpu, Empty, Holding, Counted
      <4>. QED
        BY <1>1, <3>1, <4>2, <4>3 DEF Under, Seen
    <3>. QED
      BY <3>2, <3>3
  <2>6. CASE run_l1_put \/ run_l2_tx
    <3>1. Holding /\ UNCHANGED <<det, rxf, out>> /\ p5' \notin {"put", "tx"}
      BY <2>6 DEF run_l1_put, run_l2_tx, Holding
    <3>2. r4 \in {"awaitHigh", "awaitLow"} /\ Under /\ InCpu
      BY <2>2, <3>1 DEF Arrived, Pending, Under, InRx, InBus, InTx, Dropped, Empty, Holding
    <3>3. InBus' \/ InTx' \/ Dropped'
      <4>1. CASE run_l1_put
        <5>1. posted' = <<Mark>> /\ n5' = n5 + 1 /\ txf' = txf
          BY <4>1, <3>2, OneWord DEF run_l1_put, InCpu, Empty
        <5>. QED
          BY <1>1, <1>2, <3>1, <3>2, <5>1 DEF InCpu, InBus, Empty, Holding, Counted
      <4>2. CASE run_l2_tx /\ p5' = "clean"
        BY <3>1, <3>2, <4>2 DEF run_l2_tx, InCpu, Dropped, Empty
      <4>3. CASE run_l2_tx /\ p5' # "clean"
        <5>1. txf' = <<Mark>> /\ n5' = n5 + 1 /\ posted' = posted
          BY <4>3, <3>2, OneWord DEF run_l2_tx, InCpu, Empty
        <5>. QED
          BY <1>1, <1>2, <3>1, <3>2, <5>1 DEF InCpu, InTx, Empty, Holding, Counted
      <4>. QED
        BY <2>6, <4>1, <4>2, <4>3
    <3>. QED
      BY <1>1, <3>1, <3>2, <3>3 DEF Under, Seen
  <2>. QED
    BY <1>4, <2>3, <2>4, <2>5, <2>6 DEF latency_gpioloop
<1>. QED
  BY <1>3, <1>4

\* The RPi4 drives an edge only after it has seen the last one come back.
LEMMA PlaceRpi4 == TypeInv /\ Order /\ Levels /\ Fresh /\ Place /\ latency_gpioloop_rpi4 => Place'
<1> SUFFICES ASSUME TypeInv, Order, Levels, Fresh, Place, latency_gpioloop_rpi4,
                    ~dirty, drive4', drive5, Spinning, Loop4'
             PROVE  Arrived' \/ (r4' \in {"awaitHigh", "awaitLow"} /\ (Pending' \/ Under'))
  BY ByRpi4 DEF Place, Spinning
<1> USE DEF At4, To4
<1>1. UNCHANGED <<mode, p5, n5, word, det, rxf, posted, txf, out, drive5>>
  BY ByRpi4
<1>2. latch \in {0, 1} /\ edge \in Nat /\ n5 \in Nat /\ out.level \in {0, 1}
  BY EdgeNumbers DEF TypeInv, Places, Edges, Echoes, Traffic, Words
<1>3. CASE SanityCheck
  <2>1. r4 = "check" /\ r4' = "high" /\ UNCHANGED <<latch, edge>> /\ edge = 0 /\ latch = 0
    BY <1>3 DEF SanityCheck, TypeInv, Edges, Levels
  <2>2. out.level = 0 /\ det = "rise" /\ Empty /\ ~Holding
    BY <2>1 DEF Fresh, Before4
  <2>. QED
    BY <1>1, <1>2, <2>1, <2>2 DEF Arrived, Seen, Empty, Holding, Counted
<1>4. CASE Iterate
  <2>0. Loop4 /\ drive4' = drive4
    BY <1>4 DEF Iterate, Loop4
  <2>1. Arrived \/ (r4 \in {"awaitHigh", "awaitLow"} /\ (Pending \/ Under))
    BY <2>0 DEF Place
  <2>2. CASE r4 \in {"high", "low"}
    <3>1. Arrived /\ latch' = 1 - latch /\ edge' = edge + 1 /\ r4' \in {"awaitHigh", "awaitLow"}
      BY <1>4, <2>1, <2>2 DEF Iterate, Levels
    <3>2. Pending'
      BY <1>1, <1>2, <3>1 DEF Arrived, Pending, Seen, Empty, Holding, Counted
    <3>. QED
      BY <3>1, <3>2
  <2>3. CASE r4 \in {"awaitHigh", "awaitLow"}
    <3>1. UNCHANGED <<latch, edge>> /\ Response = latch
      BY <1>4, <2>3 DEF Iterate, EchoHigh, EchoLow, Levels
    <3>2. out.level = latch
      BY <3>1 DEF Response
    <3>3. Arrived
      BY <1>2, <2>1, <3>2 DEF Pending, Under
    <3>. QED
      BY <1>1, <3>1, <3>3 DEF Arrived, Seen, Empty, Holding, Counted
  <2>. QED
    BY <2>0, <2>2, <2>3 DEF Loop4
<1>5. CASE MmapFails \/ gpio_setup_pins \/ GiveUp \/ Report \/ gpio_restore_pins
  BY <1>5 DEF MmapFails, gpio_setup_pins, GiveUp, Report, gpio_restore_pins, Loop4
<1>. QED
  BY <1>3, <1>4, <1>5 DEF latency_gpioloop_rpi4

LEMMA PlaceRun == TypeInv /\ Order /\ Place /\ run_test => Place'
<1> SUFFICES ASSUME TypeInv, Order, Place, run_test,
                    ~dirty', drive4', drive5', Spinning', Loop4'
             PROVE  Arrived' \/ (r4' \in {"awaitHigh", "awaitLow"} /\ (Pending' \/ Under'))
  BY DEF Place
<1>1. UNCHANGED <<latch, det, out>>
  BY ByRun
<1> USE DEF AtStep, ToStep, UnchangedTest, Ignored, rpi4Vars, rpi5Vars, pioVars
<1>2. /\ UNCHANGED <<dirty, mode, r4, edge, n5, word, rxf, posted, txf, drive4, drive5>>
      /\ p5' = p5 \/ (p5 = "pause" /\ p5' = "test")
  <2>1. CASE RunTest \/ Abort \/ Settle \/ Stop
    BY <2>1 DEF RunTest, Abort, Settle, Stop, Interrupt
  <2>2. CASE Kill5 \/ Kill4 \/ Pins5 \/ Pins4
    BY <2>2 DEF Kill5, Kill4, Pins5, Pins4, Spinning, Loop4
  <2>3. CASE StartRpi5 \/ RunAlone \/ Measure
    BY <2>3 DEF StartRpi5, RunAlone, Measure, Spinning, Loop4
  <2>4. CASE Collect \/ CollectAlone
    BY <2>4 DEF Collect, CollectAlone
  <2>. QED
    BY <2>1, <2>2, <2>3, <2>4 DEF run_test, cleanup_pins
<1>3. Spinning /\ Loop4 /\ (Holding' <=> Holding) /\ (p5' = "clean" <=> p5 = "clean") /\ Mark' = Mark
  BY <1>1, <1>2 DEF Spinning, Loop4, Holding, Mark, Echo
<1>4. Arrived \/ (r4 \in {"awaitHigh", "awaitLow"} /\ (Pending \/ Under))
  BY <1>2, <1>3 DEF Place
<1>. QED
  BY <1>1, <1>2, <1>3, <1>4 DEF Arrived, Pending, Under, InRx, InCpu, InBus, InTx, Dropped, Seen,
     Empty, Counted

\* Falling edges in a FIFO, and a rising one in front of them.
LEMMA FallsTaken ==
  ASSUME NEW s \in Seq(Words), s # <<>>, Falls(s)
  PROVE  Head(s).level = 0 /\ Falls(Tail(s))
BY DEF Falls

LEMMA FallsAdded ==
  ASSUME NEW s \in Seq(Words), NEW w \in Words, w.level = 0, Falls(s)
  PROVE  Falls(Append(s, w))
BY DEF Falls

LEMMA RiseAdded ==
  ASSUME NEW s \in Seq(Words), NEW w \in Words, w.level = 0, RiseFirst(s)
  PROVE  RiseFirst(Append(s, w))
<1>1. s # <<>> /\ Head(s) = Echo(1) /\ Falls(Tail(s)) /\ Tail(s) \in Seq(Words)
  BY DEF RiseFirst
<1>2. Append(s, w) # <<>> /\ Head(Append(s, w)) = Head(s) /\ Tail(Append(s, w)) = Append(Tail(s), w)
  BY <1>1
<1>. QED
  BY <1>1, <1>2, FallsAdded DEF RiseFirst

LEMMA RiseNotFalls ==
  ASSUME NEW s \in Seq(Words), RiseFirst(s)
  PROVE  ~Falls(s)
BY DEF RiseFirst, Falls, Echo

LEMMA FallsNone == Falls(<<>>)
  BY DEF Falls

LEMMA RiseAlone == RiseFirst(<<Echo(1)>>)
  BY OneWord, FallsNone DEF RiseFirst

\* Released: behind the last rising edge come only falling ones, wherever it is.
LEMMA ReleasedPio == TypeInv /\ Released /\ Pio => Released'
<1> SUFFICES ASSUME TypeInv, Released, Pio,
                    ~dirty, ~drive4, drive5, Spinning, Loop4
             PROVE  NoRise' \/ (r4 = "awaitHigh" /\ out'.level = 0 /\ OneRise')
  BY ByPio DEF Released, Spinning, Loop4
<1>1. UNCHANGED <<mode, r4, edge, p5, word>>
  BY ByPio
<1>2. /\ NoRise \/ (r4 = "awaitHigh" /\ out.level = 0 /\ OneRise)
      /\ Stimulus = 0
  BY DEF Released, Stimulus
<1>3. /\ rxf \in Seq(Words) /\ posted \in Seq(Words) /\ txf \in Seq(Words)
      /\ Echo(0) \in Words /\ Echo(0).level = 0 /\ Echo(1)' = Echo(1) /\ Echo(1).level = 1
  BY <1>1, EdgeNumbers DEF TypeInv, Traffic, Echo, Words, Edges, Trips
<1>4. (Holding' <=> Holding) /\ (HoldsFall' <=> HoldsFall)
  BY <1>1 DEF Holding, HoldsFall
<1>5. CASE edge_detector
  <2>1. \/ out' = Echo(0) /\ rxf' = rxf
        \/ out' = out /\ rxf' = Append(rxf, Echo(0))
    BY <1>2, <1>5 DEF edge_detector
  <2>2. UNCHANGED <<posted, txf>>
    BY <1>5 DEF edge_detector
  <2>3. Falls(rxf) => Falls(rxf')
    BY <1>3, <2>1, FallsAdded
  <2>4. RiseFirst(rxf) => RiseFirst(rxf)'
    <3>1. RiseFirst(rxf) => RiseFirst(rxf')
      BY <1>3, <2>1, RiseAdded
    <3>. QED
      BY <1>1, <3>1 DEF RiseFirst, Echo
  <2>5. (RiseFirst(posted)' <=> RiseFirst(posted)) /\ (RiseFirst(txf)' <=> RiseFirst(txf))
    BY <1>1, <2>2 DEF RiseFirst, Echo
  <2>6. NoRise => NoRise'
    BY <1>4, <2>2, <2>3 DEF NoRise
  <2>7. OneRise => OneRise'
    BY <1>1, <1>3, <1>4, <2>2, <2>3, <2>4, <2>5 DEF OneRise, RiseInRx, RiseInCpu, RiseInBus, RiseInTx
  <2>. QED
    BY <1>2, <1>3, <2>1, <2>6, <2>7
<1>6. CASE Arrive
  <2>1. posted # <<>> /\ txf' = Append(txf, Head(posted)) /\ posted' = Tail(posted)
        /\ UNCHANGED <<rxf, out>> /\ Head(posted) \in Words
    BY <1>3, <1>6, Taken DEF Arrive
  <2>2. CASE NoRise
    BY <1>3, <1>4, <2>1, <2>2, FallsTaken, FallsAdded DEF NoRise
  <2>3. CASE OneRise
    <3>1. CASE RiseInBus
      <4>1. txf' = <<Echo(1)>> /\ Falls(posted')
        BY <2>1, <3>1, OneWord DEF RiseInBus, RiseFirst
      <4>2. RiseFirst(txf)'
        BY <1>3, <4>1, OneWord, FallsNone DEF RiseFirst
      <4>. QED
        BY <1>2, <1>4, <2>1, <2>3, <3>1, <4>1, <4>2 DEF OneRise, RiseInBus, RiseInTx, NoRise,
           RiseFirst, Falls
    <3>2. CASE RiseInTx
      <4>1. Falls(posted') /\ RiseFirst(txf')
        BY <1>3, <2>1, <3>2, FallsTaken, RiseAdded DEF RiseInTx
      <4>2. RiseFirst(txf)'
        BY <1>1, <4>1 DEF RiseFirst, Echo
      <4>3. RiseInTx' /\ ~NoRise
        BY <1>4, <2>1, <3>2, <4>1, <4>2, RiseNotFalls, <1>3 DEF RiseInTx, NoRise
      <4>. QED
        BY <1>2, <2>1, <4>3 DEF OneRise
    <3>. QED
      BY <2>1, <2>3, <3>1, <3>2 DEF OneRise, RiseInRx, RiseInCpu
  <2>. QED
    BY <1>2, <2>2, <2>3
<1>7. CASE output_driver
  <2>1. txf # <<>> /\ out' = Head(txf) /\ txf' = Tail(txf) /\ UNCHANGED <<rxf, posted>>
    BY <1>7 DEF output_driver
  <2>2. Falls(rxf) /\ Falls(posted) /\ Falls(Tail(txf)) /\ HoldsFall
    <3>1. CASE NoRise
      BY <1>3, <2>1, <3>1, FallsTaken DEF NoRise
    <3>2. CASE OneRise
      BY <2>1, <3>2 DEF OneRise, RiseInRx, RiseInCpu, RiseInBus, RiseInTx, RiseFirst
    <3>. QED
      BY <1>2, <3>1, <3>2
  <2>. QED
    BY <1>4, <2>1, <2>2 DEF NoRise
<1>. QED
  BY <1>5, <1>6, <1>7 DEF Pio

LEMMA ReleasedRpi5 == TypeInv /\ Fresh /\ Released /\ latency_gpioloop => Released'
<1> SUFFICES ASSUME TypeInv, Fresh, Released, latency_gpioloop,
                    ~dirty, ~drive4, drive5', Spinning', Loop4
             PROVE  NoRise' \/ (r4 = "awaitHigh" /\ out'.level = 0 /\ OneRise')
  BY ByRpi5 DEF Released, Loop4
<1> USE DEF At5, To5, pioVars
<1>1. UNCHANGED <<mode, r4, edge>>
  BY ByRpi5
<1>2. /\ rxf \in Seq(Words) /\ posted \in Seq(Words) /\ txf \in Seq(Words) /\ word \in Words
      /\ Echo(1)' = Echo(1) /\ Echo(1).level = 1
  BY <1>1 DEF TypeInv, Traffic, Echo
<1>3. CASE Enable
  <2>1. p5' \notin {"put", "tx"} /\ UNCHANGED <<rxf, posted, txf>>
    BY <1>3, EdgeAssumption DEF Enable, TypeInv, Layers, Places
  <2>2. Empty
    BY <1>3 DEF Enable, Fresh
  <2>. QED
    BY <2>1, <2>2, FallsNone DEF Empty, NoRise, HoldsFall, Holding
<1>4. CASE ~Enable
  <2>1. Spinning /\ drive5
    BY <1>4 DEF latency_gpioloop, setup_edge_echo_sms, ForceLow, run_l0, run_l1_get, run_l1_put,
       Barrier, run_l2_first, run_l2_rx, run_l2_tx, cleanup_edge_echo_sms, run_l3, Spinning
  <2>2. NoRise \/ (r4 = "awaitHigh" /\ out.level = 0 /\ OneRise)
    BY <2>1 DEF Released
  <2>3. ~cleanup_edge_echo_sms /\ ~setup_edge_echo_sms /\ ~ForceLow /\ ~run_l3
    BY <2>1 DEF cleanup_edge_echo_sms, setup_edge_echo_sms, ForceLow, run_l3, Spinning
  <2>4. CASE run_l0 \/ Barrier \/ run_l2_first
    <3>1. UNCHANGED <<rxf, posted, txf, out, word>> /\ ~Holding /\ ~Holding'
      BY <2>4 DEF run_l0, Barrier, run_l2_first, Holding
    <3>. QED
      BY <1>1, <2>2, <3>1 DEF NoRise, HoldsFall, OneRise, RiseInRx, RiseInCpu, RiseInBus, RiseInTx,
         Falls, RiseFirst, Echo
  <2>5. CASE run_l1_get \/ run_l2_rx
    <3>1. UNCHANGED <<posted, txf, out>> /\ ~Holding
      BY <2>5 DEF run_l1_get, run_l2_rx, Holding
    <3>2. CASE p5' = "clean"
      <4>1. rxf' = rxf
        BY <2>5, <3>2 DEF run_l1_get, run_l2_rx
      <4>. QED
        BY <1>1, <2>2, <3>1, <3>2, <4>1 DEF NoRise, HoldsFall, OneRise, RiseInRx, RiseInCpu,
           RiseInBus, RiseInTx, Falls, RiseFirst, Echo, Holding
    <3>3. CASE p5' # "clean"
      <4>1. rxf # <<>> /\ word' = Head(rxf) /\ rxf' = Tail(rxf) /\ Holding'
        BY <2>5, <3>3 DEF run_l1_get, run_l2_rx, Holding
      <4>2. CASE Falls(rxf)
        <5>1. Falls(rxf') /\ HoldsFall'
          BY <1>2, <4>1, <4>2, FallsTaken DEF HoldsFall
        <5>2. (RiseFirst(posted)' <=> RiseFirst(posted)) /\ (RiseFirst(txf)' <=> RiseFirst(txf))
          BY <1>1, <3>1 DEF RiseFirst, Echo
        <5>3. CASE NoRise
          BY <3>1, <5>1, <5>3 DEF NoRise
        <5>4. CASE OneRise /\ ~RiseInRx
          BY <2>2, <3>1, <5>1, <5>2, <5>4 DEF OneRise, NoRise, RiseInCpu, RiseInBus, RiseInTx
        <5>5. ~RiseInRx
          BY <1>2, <4>1, <4>2, FallsTaken DEF RiseInRx, RiseFirst
        <5>. QED
          BY <2>2, <5>3, <5>4, <5>5
      <4>3. CASE ~Falls(rxf)
        <5>1. OneRise /\ RiseInRx
          BY <2>2, <3>1, <4>3 DEF NoRise, OneRise, RiseInCpu, RiseInBus, RiseInTx
        <5>2. RiseInCpu'
          BY <1>2, <3>1, <4>1, <5>1 DEF RiseInRx, RiseInCpu, RiseFirst
        <5>. QED
          BY <2>2, <3>1, <4>3, <5>2 DEF OneRise, NoRise
      <4>. QED
        BY <4>2, <4>3
    <3>. QED
      BY <3>2, <3>3
  <2>6. CASE run_l1_put
    <3>1. Holding /\ ~Holding' /\ posted' = Append(posted, word) /\ UNCHANGED <<rxf, txf, out>>
      BY <2>6 DEF run_l1_put, Holding
    <3>2. RiseFirst(txf)' <=> RiseFirst(txf)
      BY <1>1, <3>1 DEF RiseFirst, Echo
    <3>3. HoldsFall /\ Falls(posted) => Falls(posted')
      BY <1>2, <3>1, FallsAdded DEF HoldsFall
    <3>4. HoldsFall /\ RiseFirst(posted) => RiseFirst(posted)'
      <4>1. HoldsFall /\ RiseFirst(posted) => RiseFirst(posted')
        BY <1>2, <3>1, RiseAdded DEF HoldsFall
      <4>. QED
        BY <1>1, <4>1 DEF RiseFirst, Echo
    <3>5. RiseInCpu => RiseFirst(posted)'
      <4>1. RiseInCpu => posted' = <<Echo(1)>>
        BY <3>1, OneWord DEF RiseInCpu
      <4>. QED
        BY <1>2, <4>1, OneWord, FallsNone DEF RiseFirst
    <3>6. HoldsFall'
      BY <3>1 DEF HoldsFall
    <3>. QED
      BY <2>2, <3>1, <3>2, <3>3, <3>4, <3>5, <3>6 DEF NoRise, OneRise, RiseInRx, RiseInCpu,
         RiseInBus, RiseInTx
  <2>7. CASE run_l2_tx
    <3>1. Holding /\ ~Holding' /\ UNCHANGED <<rxf, posted, out>> /\ posted = <<>>
      BY <2>7 DEF run_l2_tx, Holding, Fresh
    <3>2. HoldsFall' /\ ~RiseFirst(posted)
      BY <3>1 DEF HoldsFall, RiseFirst
    <3>3. CASE p5' = "clean"
      <4>1. txf' = txf
        BY <2>7, <3>3 DEF run_l2_tx
      <4>2. RiseFirst(txf)' <=> RiseFirst(txf)
        BY <1>1, <4>1 DEF RiseFirst, Echo
      <4>. QED
        BY <2>2, <3>1, <3>2, <4>1, <4>2, FallsNone DEF NoRise, OneRise, RiseInRx, RiseInCpu,
           RiseInBus, RiseInTx
    <3>4. CASE p5' # "clean"
      <4>1. txf' = Append(txf, word)
        BY <2>7, <3>4 DEF run_l2_tx
      <4>2. HoldsFall /\ Falls(txf) => Falls(txf')
        BY <1>2, <3>1, <4>1, FallsAdded DEF HoldsFall
      <4>3. HoldsFall /\ RiseFirst(txf) => RiseFirst(txf)'
        <5>1. HoldsFall /\ RiseFirst(txf) => RiseFirst(txf')
          BY <1>2, <3>1, <4>1, RiseAdded DEF HoldsFall
        <5>. QED
          BY <1>1, <5>1 DEF RiseFirst, Echo
      <4>4. RiseInCpu => RiseFirst(txf)'
        <5>1. RiseInCpu => txf' = <<Echo(1)>>
          BY <4>1, OneWord DEF RiseInCpu
        <5>. QED
          BY <1>2, <5>1, OneWord, FallsNone DEF RiseFirst
      <4>. QED
        BY <2>2, <3>1, <3>2, <4>1, <4>2, <4>3, <4>4, FallsNone DEF NoRise, OneRise, RiseInRx,
           RiseInCpu, RiseInBus, RiseInTx
    <3>. QED
      BY <3>3, <3>4
  <2>. QED
    BY <1>4, <2>3, <2>4, <2>5, <2>6, <2>7 DEF latency_gpioloop
<1>. QED
  BY <1>3, <1>4

LEMMA ReleasedRpi4 == TypeInv /\ Fresh /\ Released /\ latency_gpioloop_rpi4 => Released'
<1> SUFFICES ASSUME TypeInv, Fresh, Released, latency_gpioloop_rpi4,
                    ~dirty, ~drive4', drive5, Spinning, Loop4'
             PROVE  NoRise'
  BY ByRpi4 DEF Released, Spinning
<1> USE DEF At4, To4
<1>1. UNCHANGED <<p5, word, rxf, posted, txf, out, drive5>>
  BY ByRpi4
<1>2. NoRise
  <2>1. CASE SanityCheck
    <3>1. Empty /\ ~Holding
      BY <2>1 DEF SanityCheck, Fresh, Before4
    <3>. QED
      BY <3>1, FallsNone DEF Empty, NoRise, HoldsFall
  <2>2. CASE Iterate
    <3>1. Loop4 /\ ~drive4 /\ (r4 = "awaitHigh" => out.level = 1)
      BY <2>2 DEF Iterate, Loop4, EchoHigh, Response
    <3>. QED
      BY <3>1 DEF Released
  <2>3. CASE MmapFails \/ gpio_setup_pins \/ GiveUp \/ Report \/ gpio_restore_pins
    BY <2>3 DEF MmapFails, gpio_setup_pins, GiveUp, Report, gpio_restore_pins, Loop4
  <2>. QED
    BY <2>1, <2>2, <2>3 DEF latency_gpioloop_rpi4
<1>. QED
  BY <1>1, <1>2 DEF NoRise, HoldsFall, Holding

\* When cleanup_pins takes the pin, one edge is under way and nothing else.
LEMMA ReleasedRun == TypeInv /\ Order /\ Levels /\ Place /\ Released /\ run_test => Released'
<1> SUFFICES ASSUME TypeInv, Order, Levels, Place, Released, run_test,
                    ~dirty', ~drive4', drive5', Spinning', Loop4'
             PROVE  NoRise' \/ (r4' = "awaitHigh" /\ out'.level = 0 /\ OneRise')
  BY DEF Released
<1>1. UNCHANGED <<latch, det, out>>
  BY ByRun
<1> USE DEF AtStep, ToStep, UnchangedTest, Ignored, rpi4Vars, rpi5Vars, pioVars
<1>2. /\ UNCHANGED <<dirty, mode, r4, edge, n5, word, rxf, posted, txf, drive5>>
      /\ p5' = p5 \/ (p5 = "pause" /\ p5' = "test")
  <2>1. CASE RunTest \/ Abort \/ Settle \/ Stop
    BY <2>1 DEF RunTest, Abort, Settle, Stop, Interrupt
  <2>2. CASE Kill5 \/ Kill4 \/ Pins5 \/ Pins4
    BY <2>2 DEF Kill5, Kill4, Pins5, Pins4, Spinning, Loop4
  <2>3. CASE StartRpi5 \/ RunAlone \/ Measure
    BY <2>3 DEF StartRpi5, RunAlone, Measure, Spinning, Loop4
  <2>4. CASE Collect \/ CollectAlone
    BY <2>4 DEF Collect, CollectAlone
  <2>. QED
    BY <2>1, <2>2, <2>3, <2>4 DEF run_test, cleanup_pins
<1>3. Spinning /\ Loop4 /\ (Holding' <=> Holding)
  BY <1>1, <1>2 DEF Spinning, Loop4, Holding
<1>4. NoRise \/ (r4 = "awaitHigh" /\ out.level = 0 /\ OneRise)
  <2>1. CASE ~drive4
    BY <1>2, <1>3, <2>1 DEF Released
  <2>2. CASE drive4
    <3>1. Arrived \/ (r4 \in {"awaitHigh", "awaitLow"} /\ (Pending \/ Under))
      BY <1>2, <1>3, <2>2 DEF Place
    <3>2. CASE Empty /\ ~Holding
      BY <3>2, FallsNone DEF Empty, NoRise, HoldsFall
    <3>3. CASE ~(Empty /\ ~Holding)
      <4>1. Under /\ ~Dropped /\ r4 \in {"awaitHigh", "awaitLow"}
        BY <3>1, <3>3 DEF Arrived, Pending, Under, Dropped, Holding
      <4>2. CASE r4 = "awaitHigh"
        <5>1. latch = 1 /\ out.level = 0 /\ Mark = Echo(1)
          BY <4>1, <4>2 DEF Under, Levels, Mark
        <5>2. OneRise
          BY <4>1, <5>1, RiseAlone, FallsNone DEF Under, InRx, InCpu, InBus, InTx, OneRise,
             RiseInRx, RiseInCpu, RiseInBus, RiseInTx, Empty, HoldsFall
        <5>. QED
          BY <4>2, <5>1, <5>2
      <4>3. CASE r4 = "awaitLow"
        <5>1. Mark.level = 0 /\ Falls(<<Mark>>)
          BY <4>1, <4>3 DEF Levels, Mark, Echo, Falls
        <5>. QED
          BY <4>1, <5>1, FallsNone DEF Under, InRx, InCpu, InBus, InTx, NoRise, Empty, HoldsFall
      <4>. QED
        BY <4>1, <4>2, <4>3
    <3>. QED
      BY <3>2, <3>3
  <2>. QED
    BY <2>1, <2>2
<1>. QED
  BY <1>1, <1>2, <1>3, <1>4 DEF NoRise, OneRise, RiseInRx, RiseInCpu, RiseInBus, RiseInTx,
     HoldsFall, Falls, RiseFirst, Echo

\* While the RPi4 holds its pin, where the edge is says what it can read.
LEMMA PlaceAnswers ==
  ASSUME TypeInv, Levels, Place, ~dirty, drive4, drive5, Spinning
  PROVE  /\ r4 = "high" => out.level = 0
         /\ r4 = "awaitHigh" /\ out.level = 1 => out.edge = edge /\ Counted(edge)
<1>1. Loop4 => Arrived \/ (r4 \in {"awaitHigh", "awaitLow"} /\ (Pending \/ Under))
  BY DEF Place
<1>. QED
  BY <1>1 DEF Levels, Loop4, Arrived, Pending, Under

\* Answer: what can be on the response pin when the RPi4 reads it.
LEMMA AnswerPio ==
  TypeInv /\ Order /\ Levels /\ Place /\ Released /\ Answer /\ Pio => Answer'
<1> SUFFICES ASSUME TypeInv, Order, Levels, Place, Released, Answer, Pio, ~dirty, drive5
             PROVE  /\ r4 = "high" => out'.level = 0
                    /\ r4 = "awaitHigh" /\ out'.level = 1 => out'.edge = edge
                    /\ r4 = "awaitHigh" /\ out'.level = 1 /\ drive4 /\ mode \notin {"L0", "L3"}
                         => n5 >= edge
  BY ByPio DEF Answer
<1>1. TypeInv' /\ Levels' /\ Place'
  BY TypePio, LevelsPio, PlacePio
<1>2. CASE Spinning /\ drive4
  <2>1. UNCHANGED <<dirty, drive4, drive5, r4, p5, mode, edge, n5>>
    BY ByPio
  <2>2. ~dirty' /\ drive4' /\ drive5' /\ Spinning'
    BY <1>2, <2>1 DEF Spinning
  <2>3. Loop4' => Arrived' \/ (r4' \in {"awaitHigh", "awaitLow"} /\ (Pending' \/ Under'))
    BY <1>1, <2>2 DEF Place
  <2>4. latch' \in {0, 1}
    BY <1>1 DEF TypeInv, Places
  <2>. QED
    BY <1>1, <2>1, <2>3, <2>4 DEF Levels, Loop4, Arrived, Pending, Under, Counted
<1>3. CASE Spinning /\ ~drive4 /\ r4 \in {"high", "awaitHigh"}
  <2>1. NoRise \/ (r4 = "awaitHigh" /\ OneRise)
    BY <1>3 DEF Released, Loop4
  <2>2. CASE output_driver
    <3>1. out' = Head(txf) /\ txf # <<>> /\ txf \in Seq(Words)
      BY <2>2 DEF output_driver, TypeInv, Traffic
    <3>2. Head(txf).level = 0 \/ (r4 = "awaitHigh" /\ Head(txf) = Echo(1))
      BY <2>1, <3>1, FallsTaken DEF NoRise, OneRise, RiseInRx, RiseInCpu, RiseInBus, RiseInTx,
         RiseFirst
    <3>. QED
      BY <1>3, <3>1, <3>2 DEF Echo
  <2>3. CASE edge_detector \/ Arrive
    <3>1. out' = out \/ out' = Echo(0)
      BY <1>3, <2>3 DEF edge_detector, Arrive, Stimulus
    <3>. QED
      BY <1>3, <3>1 DEF Answer, Echo
  <2>. QED
    BY <2>2, <2>3 DEF Pio
<1>4. CASE ~Spinning \/ r4 \notin {"high", "awaitHigh"}
  <2>1. ~Spinning => out' = out
    BY DEF Order, Pio, edge_detector, Arrive, output_driver
  <2>. QED
    BY <1>4, <2>1 DEF Answer
<1>. QED
  BY <1>2, <1>3, <1>4

LEMMA AnswerRpi5 == TypeInv /\ Fresh /\ Answer /\ latency_gpioloop => Answer'
<1> SUFFICES ASSUME TypeInv, Fresh, Answer, latency_gpioloop, ~dirty, drive5'
             PROVE  /\ r4 = "high" => out'.level = 0
                    /\ r4 = "awaitHigh" /\ out'.level = 1 => out'.edge = edge
                    /\ r4 = "awaitHigh" /\ out'.level = 1 /\ drive4 /\ mode \notin {"L0", "L3"}
                         => n5' >= edge
  BY ByRpi5 DEF Answer
<1> USE DEF At5, To5, pioVars
<1>1. out'.level = 0 \/ (out' = out /\ drive5)
  <2>1. CASE setup_edge_echo_sms
    BY <2>1 DEF setup_edge_echo_sms, Fresh
  <2>4. CASE ForceLow
    BY <2>4 DEF ForceLow, Low
  <2>5. CASE cleanup_edge_echo_sms
    <3>1. CASE p5 = "cleanlow"
      BY <2>5, <3>1 DEF cleanup_edge_echo_sms, Low
    <3>2. CASE p5 # "cleanlow"
      <4>1. out' = out /\ (drive5' = drive5 \/ drive5' = FALSE)
        BY <2>5, <3>2 DEF cleanup_edge_echo_sms
      <4>. QED
        BY <4>1
    <3>. QED
      BY <3>1, <3>2
  <2>2. CASE Enable \/ run_l0 \/ run_l1_get \/ run_l1_put \/ Barrier
    BY <2>2 DEF Enable, run_l0, run_l1_get, run_l1_put, Barrier
  <2>3. CASE run_l2_first \/ run_l2_rx \/ run_l2_tx \/ run_l3
    BY <2>3 DEF run_l2_first, run_l2_rx, run_l2_tx, run_l3
  <2>. QED
    BY <2>1, <2>2, <2>3, <2>4, <2>5 DEF latency_gpioloop
<1>2. n5' = n5 \/ n5' = n5 + 1
  BY DEF latency_gpioloop, setup_edge_echo_sms, ForceLow, Enable, run_l0, run_l1_get, run_l1_put,
     Barrier, run_l2_first, run_l2_rx, run_l2_tx, cleanup_edge_echo_sms, run_l3
<1>3. n5 \in Nat /\ edge \in Nat
  BY EdgeNumbers DEF TypeInv, Echoes, Edges
<1>. QED
  BY <1>1, <1>2, <1>3 DEF Answer

LEMMA AnswerRpi4 == TypeInv /\ Answer /\ latency_gpioloop_rpi4 => Answer'
<1> SUFFICES ASSUME TypeInv, Answer, latency_gpioloop_rpi4 PROVE Answer'
  OBVIOUS
<1> USE DEF At4, To4
<1>0. out.level \in {0, 1}
  BY DEF TypeInv, Traffic, Words
<1>1. ASSUME ~dirty, drive5 PROVE r4' \in {"high", "awaitHigh"} => out.level = 0
  <2>1. CASE Iterate
    BY <1>0, <1>1, <2>1 DEF Iterate, EchoLow, Response, Answer
  <2>2. CASE MmapFails \/ gpio_setup_pins \/ SanityCheck \/ GiveUp \/ Report \/ gpio_restore_pins
    BY <1>1, <2>2 DEF MmapFails, gpio_setup_pins, SanityCheck, GiveUp, Report, gpio_restore_pins, Response
  <2>. QED
    BY <2>1, <2>2 DEF latency_gpioloop_rpi4
<1>2. UNCHANGED <<dirty, drive5, out>>
  BY ByRpi4
<1>. QED
  BY <1>1, <1>2 DEF Answer

LEMMA AnswerRun == TypeInv /\ Order /\ Answer /\ run_test => Answer'
<1> SUFFICES ASSUME TypeInv, Order, Answer, run_test PROVE Answer'
  OBVIOUS
<1>0. out' = out
  BY ByRun
<1> USE <1>0 DEF AtStep, ToStep, UnchangedTest, Ignored, rpi4Vars, rpi5Vars, pioVars, Answer
<1>1. CASE RunTest \/ Abort \/ Settle \/ Stop
  BY <1>1 DEF RunTest, Abort, Settle, Stop, Interrupt
<1>2. CASE Kill5 \/ Kill4 \/ Pins5 \/ Pins4
  BY <1>2 DEF Kill5, Kill4, Pins5, Pins4
<1>3. CASE StartRpi5
  BY <1>3 DEF StartRpi5, Order, Dead4, Alive4
<1>4. CASE RunAlone \/ Measure
  BY <1>4 DEF RunAlone, Measure
<1>5. CASE Collect \/ CollectAlone
  <2>1. UNCHANGED <<dirty, mode, r4, edge, drive4, drive5, n5>>
    BY <1>5 DEF Collect, CollectAlone
  <2>. QED
    BY <2>1
<1>. QED
  BY <1>1, <1>2, <1>3, <1>4, <1>5 DEF run_test, cleanup_pins

\* Counting by twos.
LEMMA Parity ==
  ASSUME NEW n \in Nat, NEW m \in Nat
  PROVE  /\ m = n + 1 => (Even(m) <=> ~Even(n))
         /\ m = 2 * n \/ m = 2 * n + 2 => Even(m)
         /\ m = 2 * n + 1 => ~Even(m)
BY DEF Even

\* Ahead: the detector takes an edge only when one was driven since the last.
LEMMA AheadPio == TypeInv /\ Order /\ Levels /\ Ahead /\ Pio => Ahead'
<1> SUFFICES ASSUME TypeInv, Order, Levels, Ahead, Pio PROVE Ahead'
  OBVIOUS
<1>1. UNCHANGED <<mode, dirty, drive4, drive5, r4, edge, p5, n5>>
  BY ByPio
<1>2. n5 \in Nat /\ Len(rxf) \in Nat /\ One(Holding) \in Nat /\ One(Holding)' = One(Holding)
  BY <1>1, EdgeNumbers DEF TypeInv, Echoes, Traffic, One, Holding
<1>3. ASSUME ~dirty, drive4, Loop4, mode # "L0", Spinning, p5 # "clean"
      PROVE  Tally'
  <2>1. Taken5 <= edge /\ (det = "rise" <=> Even(Taken5)) /\ Taken5 \in Nat
    BY <1>2, <1>3 DEF Ahead, Taken5, Tally
  <2>2. CASE edge_detector
    <3>1. /\ det = (IF latch = 1 THEN "rise" ELSE "fall") /\ det' = (IF latch = 1 THEN "fall" ELSE "rise")
          /\ rxf' = Append(rxf, Echo(Stimulus)) /\ rxf \in Seq(Words)
      BY <1>3, <2>2 DEF edge_detector, Stimulus, TypeInv, Traffic
    <3>2. Len(rxf') = Len(rxf) + 1
      BY <3>1
    <3>3. Taken5' = Taken5 + 1
      BY <1>1, <1>2, <3>2 DEF Taken5
    <3>4. it \in Nat /\ edge \in Nat
          /\ (Even(edge) <=> latch = 0)
      <4>1. it \in Nat /\ edge \in Nat
        BY EdgeNumbers DEF TypeInv, Edges
      <4>2. CASE r4 \in {"high", "awaitLow"}
        <5>1. (edge = 2 * it \/ edge = 2 * it + 2) /\ latch = 0
          BY <4>1, <4>2 DEF TypeInv, Edges, Levels
        <5>. QED
          BY <4>1, <5>1, Parity
      <4>3. CASE r4 \in {"awaitHigh", "low"}
        <5>1. edge = 2 * it + 1 /\ latch = 1
          BY <4>3 DEF TypeInv, Edges, Levels
        <5>. QED
          BY <4>1, <5>1, Parity
      <4>. QED
        BY <1>3, <4>1, <4>2, <4>3 DEF Loop4
    <3>5. latch \in {0, 1}
      BY DEF TypeInv, Places
    <3>6. Taken5 # edge
      BY <2>1, <3>1, <3>4, <3>5
    <3>7. Taken5' <= edge
      BY <2>1, <3>3, <3>4, <3>6
    <3>8. Even(Taken5') <=> ~Even(Taken5)
      BY <2>1, <3>3, Parity
    <3>9. det' = "rise" <=> Even(Taken5')
      BY <2>1, <3>1, <3>5, <3>8
    <3>. QED
      BY <1>1, <3>7, <3>9 DEF Tally
  <2>3. CASE Arrive \/ output_driver
    <3>1. UNCHANGED <<det, rxf>>
      BY <2>3 DEF Arrive, output_driver
    <3>2. Taken5' = Taken5
      BY <1>1, <1>2, <3>1 DEF Taken5
    <3>. QED
      BY <1>1, <2>1, <3>1, <3>2 DEF Tally
  <2>. QED
    BY <2>2, <2>3 DEF Pio
<1>. QED
  BY <1>1, <1>3 DEF Ahead, Loop4, Spinning

LEMMA AheadRpi4 == TypeInv /\ Order /\ Levels /\ Fresh /\ Ahead /\ latency_gpioloop_rpi4 => Ahead'
<1> SUFFICES ASSUME TypeInv, Order, Levels, Fresh, Ahead, latency_gpioloop_rpi4 PROVE Ahead'
  OBVIOUS
<1> USE DEF At4, To4
<1>1. UNCHANGED <<mode, dirty, drive5, p5, n5, det, rxf>>
  BY ByRpi4
<1>2. n5 \in Nat /\ Len(rxf) \in Nat /\ One(Holding) \in Nat /\ edge \in Nat /\ Taken5' = Taken5
  BY <1>1, EdgeNumbers DEF TypeInv, Echoes, Edges, Traffic, One, Holding, Taken5
<1>3. Taken5 \in Nat
  BY <1>2 DEF Taken5
<1>4. CASE SanityCheck
  <2>1. /\ r4 = "check" /\ UNCHANGED <<edge, drive4>> /\ edge = 0
        /\ ~dirty /\ mode # "L3" => n5 = 0
        /\ ~dirty /\ Spinning => det = "rise" /\ rxf = <<>> /\ ~Holding
    BY <1>4 DEF SanityCheck, TypeInv, Edges, Fresh, Before4, Empty
  <2>2. ~dirty /\ mode # "L3" /\ Spinning => Taken5 = 0
    BY <2>1 DEF Taken5, One
  <2>3. ~dirty /\ mode # "L3" /\ Spinning => Tally'
    BY <1>1, <1>2, <2>1, <2>2 DEF Tally, Even
  <2>. QED
    BY <1>1, <2>1, <2>3 DEF Ahead, Spinning, Order
<1>5. CASE Iterate
  <2>1. Loop4 /\ drive4' = drive4 /\ (edge' = edge \/ edge' = edge + 1)
    BY <1>5 DEF Iterate, Loop4
  <2>2. Tally => Tally'
    BY <1>1, <1>2, <1>3, <2>1 DEF Tally
  <2>. QED
    BY <1>1, <1>2, <2>1, <2>2 DEF Ahead, Spinning
<1>6. CASE MmapFails \/ gpio_setup_pins \/ GiveUp \/ Report \/ gpio_restore_pins
  <2>1. ~Loop4'
    BY <1>6 DEF MmapFails, gpio_setup_pins, GiveUp, Report, gpio_restore_pins, Loop4
  <2>. QED
    BY <1>1, <2>1 DEF Ahead
<1>. QED
  BY <1>4, <1>5, <1>6 DEF latency_gpioloop_rpi4

LEMMA AheadRpi5 == TypeInv /\ Order /\ Fresh /\ Ahead /\ latency_gpioloop => Ahead'
<1> SUFFICES ASSUME TypeInv, Order, Fresh, Ahead, latency_gpioloop PROVE Ahead'
  OBVIOUS
<1> USE DEF At5, To5, pioVars
<1>1. UNCHANGED <<mode, dirty, drive4, r4, edge>>
  BY ByRpi5
<1>2. n5 \in Nat /\ Len(rxf) \in Nat /\ edge \in Nat /\ rxf \in Seq(Words) /\ Trips \in Nat /\ Trips > 0
  BY EdgeNumbers DEF TypeInv, Echoes, Edges, Traffic
<1>3. CASE Spinning /\ p5 # "clean"
  <2>0. mode # "L3"
    BY <1>3 DEF Order
  <2>1. CASE run_l0 \/ Barrier \/ run_l2_first
    <3>1. UNCHANGED <<n5, det, rxf>> /\ p5 \notin {"put", "tx"} /\ p5' \notin {"put", "tx", "exited"}
      BY <2>1 DEF run_l0, Barrier, run_l2_first
    <3>2. Tally' = Tally
      BY <1>1, <3>1 DEF Tally, Taken5, One, Holding
    <3>. QED
      BY <1>1, <1>3, <3>1, <3>2 DEF Ahead, Loop4
  <2>2. CASE run_l1_get \/ run_l2_rx
    <3>1. UNCHANGED <<n5, det>> /\ p5 \notin {"put", "tx"} /\ p5' # "exited"
          /\ (p5' = "clean" \/ (rxf # <<>> /\ rxf' = Tail(rxf) /\ p5' \in {"put", "tx"}))
      BY <2>2 DEF run_l1_get, run_l2_rx
    <3>2. p5' # "clean" => Len(rxf') = Len(rxf) - 1
      BY <1>2, <3>1
    <3>3. p5' # "clean" => Taken5' = Taken5
      BY <1>2, <3>1, <3>2 DEF Taken5, One, Holding
    <3>4. p5' # "clean" => Tally' = Tally
      BY <1>1, <3>1, <3>3 DEF Tally
    <3>. QED
      BY <1>1, <1>3, <3>1, <3>4 DEF Ahead, Loop4
  <2>3. CASE run_l1_put \/ run_l2_tx
    <3>1. UNCHANGED <<det, rxf>> /\ p5 \in {"put", "tx"} /\ p5' \notin {"put", "tx", "exited"}
          /\ ((n5' = n5 /\ p5' = "clean") \/ n5' = n5 + 1)
      BY <2>3 DEF run_l1_put, run_l2_tx
    <3>2. Taken5 = n5 + 1 + Len(rxf) /\ Taken5' = n5' + Len(rxf) /\ mode # "L0"
      BY <1>2, <3>1 DEF Taken5, One, Holding, Order
    <3>3. ~dirty /\ drive4 /\ Loop4 => n5' <= edge /\ (p5' # "clean" => Tally')
      BY <1>1, <1>2, <1>3, <2>0, <3>1, <3>2 DEF Ahead, Tally
    <3>. QED
      BY <1>1, <1>3, <2>0, <3>1, <3>2, <3>3 DEF Ahead, Loop4
  <2>. QED
    BY <1>3, <2>1, <2>2, <2>3 DEF latency_gpioloop, setup_edge_echo_sms, ForceLow, Enable,
       cleanup_edge_echo_sms, run_l3, Spinning
<1>4. CASE p5 = "clean"
  <2>1. n5' = n5 /\ p5' = "cleanlow"
    BY <1>4 DEF latency_gpioloop, setup_edge_echo_sms, ForceLow, Enable, run_l0, run_l1_get,
       run_l1_put, Barrier, run_l2_first, run_l2_rx, run_l2_tx, cleanup_edge_echo_sms, run_l3
  <2>. QED
    BY <1>1, <2>1 DEF Ahead, Spinning, Loop4
<1>5. CASE Standalone
  <2>1. /\ mode = "L3" /\ ~Spinning' /\ drive5' = drive5
        /\ n5' = n5 \/ (n5 < Batches /\ n5' = n5 + 1)
    BY <1>5 DEF Standalone, Order, latency_gpioloop, setup_edge_echo_sms, ForceLow, Enable, run_l0,
       run_l1_get, run_l1_put, Barrier, run_l2_first, run_l2_rx, run_l2_tx, cleanup_edge_echo_sms,
       run_l3, Spinning
  <2>2. n5' <= Trips
    BY <1>2, <2>1, EdgeNumbers DEF Ahead
  <2>. QED
    BY <1>1, <1>2, <2>1, <2>2, EdgeNumbers DEF Ahead, Loop4
<1>6. CASE p5 \in {"cleanlow", "cleandir"}
  <2>1. n5' = n5 /\ p5' \in {"cleandir", "exited"} /\ (p5' = "exited" => drive5' = FALSE)
    BY <1>6 DEF latency_gpioloop, setup_edge_echo_sms, ForceLow, Enable, run_l0, run_l1_get,
       run_l1_put, Barrier, run_l2_first, run_l2_rx, run_l2_tx, cleanup_edge_echo_sms, run_l3
  <2>. QED
    BY <1>1, <2>1 DEF Ahead, Spinning, Loop4
<1>7. CASE p5 \in {"setup", "low", "enable"}
  <2>1. n5 = 0 /\ n5' = 0
    BY <1>7 DEF Fresh, latency_gpioloop, setup_edge_echo_sms, ForceLow, Enable, run_l0, run_l1_get,
       run_l1_put, Barrier, run_l2_first, run_l2_rx, run_l2_tx, cleanup_edge_echo_sms, run_l3
  <2>2. Spinning' => p5 = "enable" /\ UNCHANGED <<det, rxf>> /\ p5' \notin {"put", "tx"}
    BY <1>7, EdgeAssumption DEF Spinning, latency_gpioloop, setup_edge_echo_sms, ForceLow, Enable,
       run_l0, run_l1_get, run_l1_put, Barrier, run_l2_first, run_l2_rx, run_l2_tx,
       cleanup_edge_echo_sms, run_l3, TypeInv, Places, Layers
  <2>3. Spinning' => det' = "rise" /\ Taken5' = 0
    BY <2>1, <2>2 DEF Fresh, Empty, Taken5, One, Holding
  <2>4. Spinning' => Tally'
    BY <1>1, <1>2, <2>3 DEF Tally, Even
  <2>. QED
    BY <1>1, <1>2, <2>1, <2>4 DEF Ahead, Loop4
<1>. QED
  BY <1>3, <1>4, <1>5, <1>6, <1>7 DEF Spinning, Standalone, latency_gpioloop, setup_edge_echo_sms,
     ForceLow, Enable, run_l0, run_l1_get, run_l1_put, Barrier, run_l2_first, run_l2_rx, run_l2_tx,
     cleanup_edge_echo_sms, run_l3

LEMMA AheadRun == TypeInv /\ Order /\ Ahead /\ run_test => Ahead'
<1> SUFFICES ASSUME TypeInv, Order, Ahead, run_test PROVE Ahead'
  OBVIOUS
<1>0. det' = det /\ n5 \in Nat /\ Trips \in Nat /\ Trips > 0 /\ edge \in Nat
  BY ByRun, EdgeNumbers DEF TypeInv, Echoes, Edges
<1> USE DEF AtStep, ToStep, UnchangedTest, Ignored, rpi4Vars, rpi5Vars, pioVars
<1>1. CASE RunTest \/ Abort \/ Settle \/ Stop \/ Collect \/ CollectAlone \/ Pins5 \/ Pins4
  <2>1. UNCHANGED <<mode, dirty, r4, edge, n5, rxf>>
    BY <1>1 DEF RunTest, Abort, Settle, Stop, Interrupt, Collect, CollectAlone, Pins5, Pins4
  <2>2. /\ p5' = p5 \/ (p5 = "pause" /\ p5' = "test")
        /\ drive5' = drive5 \/ drive5' = FALSE
        /\ drive4' = drive4 \/ drive4' = FALSE
    BY <1>1 DEF RunTest, Abort, Settle, Stop, Interrupt, Collect, CollectAlone, Pins5, Pins4
  <2>3. Tally' = Tally /\ (Spinning' <=> Spinning) /\ (p5' = "clean" <=> p5 = "clean")
        /\ (p5' = "exited" <=> p5 = "exited")
    BY <1>0, <2>1, <2>2 DEF Tally, Taken5, One, Holding, Spinning
  <2>. QED
    BY <1>0, <2>1, <2>2, <2>3 DEF Ahead, Loop4
<1>2. CASE Kill5 \/ Kill4
  <2>1. UNCHANGED <<mode, dirty, edge, n5, drive4, drive5>>
    BY <1>2 DEF Kill5, Kill4
  <2>2. /\ r4' = r4 \/ r4' = "off"
        /\ p5' = "off" \/ (p5' = p5 /\ rxf' = rxf)
    BY <1>2 DEF Kill5, Kill4
  <2>3. p5' # "off" => Tally' = Tally
    BY <1>0, <2>1, <2>2 DEF Tally, Taken5, One, Holding
  <2>. QED
    BY <1>0, <2>1, <2>2, <2>3 DEF Ahead, Loop4, Spinning
<1>3. CASE StartRpi5
  BY <1>0, <1>3 DEF StartRpi5, Ahead, Spinning, Loop4, Order, Dead4, Alive4
<1>4. CASE RunAlone
  BY <1>0, <1>4 DEF RunAlone, Ahead, Spinning
<1>5. CASE Measure
  BY <1>0, <1>5 DEF Measure, Ahead, Loop4
<1>. QED
  BY <1>1, <1>2, <1>3, <1>4, <1>5 DEF run_test, cleanup_pins

\* Behind: the RPi4 goes on only after an answer that was counted.
LEMMA BehindPio == Behind /\ Pio => Behind'
<1> SUFFICES ASSUME Behind, Pio PROVE Behind'
  OBVIOUS
<1>1. UNCHANGED <<step, mode, dirty, passed, r4, edge, ok4, n5>>
  BY ByPio
<1>. QED
  BY <1>1 DEF Behind, Measuring, Trips

LEMMA BehindRpi5 == TypeInv /\ Behind /\ latency_gpioloop => Behind'
<1> SUFFICES ASSUME TypeInv, Behind, latency_gpioloop PROVE Behind'
  OBVIOUS
<1>1. UNCHANGED <<step, mode, dirty, passed, r4, edge, ok4>>
  BY ByRpi5
<1>2. n5' = n5 \/ n5' = n5 + 1
  BY DEF latency_gpioloop, setup_edge_echo_sms, ForceLow, Enable, run_l0, run_l1_get, run_l1_put,
     Barrier, run_l2_first, run_l2_rx, run_l2_tx, cleanup_edge_echo_sms, run_l3, At5, To5
<1>3. n5 \in Nat /\ edge \in Nat /\ Trips \in Nat /\ Trips' = Trips
  BY EdgeNumbers DEF TypeInv, Echoes, Edges, Trips
<1>. QED
  BY <1>1, <1>2, <1>3 DEF Behind, Measuring

LEMMA BehindRpi4 == TypeInv /\ Levels /\ Answer /\ Behind /\ latency_gpioloop_rpi4 => Behind'
<1> SUFFICES ASSUME TypeInv, Levels, Answer, Behind, latency_gpioloop_rpi4,
                    Measuring, ~dirty, mode # "L0"
             PROVE  /\ r4' = "low" => n5 >= edge'
                    /\ r4' = "awaitLow" => n5 >= edge' - 1
                    /\ r4' = "report" \/ ok4' => n5 >= 2 * Trips - 1
                    /\ step # "wait" /\ passed => n5 >= 2 * Trips - 1
  BY ByRpi4 DEF Behind, Measuring, Trips
<1> USE DEF At4, To4
<1>1. n5 \in Nat /\ edge \in Nat /\ it \in Nat /\ Trips \in Nat /\ mode # "L3" /\ out.level \in {0, 1}
  BY EdgeNumbers DEF TypeInv, Echoes, Edges, Layers, Measuring, Traffic, Words
<1>2. /\ r4 = "low" => n5 >= edge
      /\ r4 = "awaitLow" => n5 >= edge - 1
      /\ r4 = "report" \/ ok4 => n5 >= 2 * Trips - 1
      /\ step # "wait" /\ passed => n5 >= 2 * Trips - 1
  BY DEF Behind
<1>3. CASE Iterate
  <2>1. ok4' = ok4
    BY <1>3 DEF Iterate
  <2>2. CASE r4 = "awaitHigh"
    <3>1. Response = 1 /\ edge' = edge /\ r4' = "low" /\ drive4
      BY <1>3, <2>2 DEF Iterate, EchoHigh, Levels, Loop4
    <3>2. n5 >= edge
      BY <1>1, <2>2, <3>1 DEF Response, Answer
    <3>. QED
      BY <1>1, <1>2, <2>1, <3>1, <3>2
  <2>3. CASE r4 = "high"
    <3>1. r4' = "awaitHigh"
      BY <1>3, <2>3 DEF Iterate
    <3>. QED
      BY <1>2, <2>1, <3>1
  <2>4. CASE r4 = "low"
    <3>1. r4' = "awaitLow" /\ edge' = edge + 1
      BY <1>3, <2>4 DEF Iterate
    <3>. QED
      BY <1>1, <1>2, <2>1, <2>4, <3>1
  <2>5. CASE r4 = "awaitLow"
    <3>1. it' = it + 1 /\ r4' = (IF it' = Trips THEN "report" ELSE "high") /\ edge = 2 * it + 2
      BY <1>3, <2>5 DEF Iterate, Iterated, Trips, TypeInv, Edges
    <3>2. r4' = "report" => n5 >= 2 * Trips - 1
      BY <1>1, <1>2, <2>5, <3>1
    <3>3. r4' \notin {"low", "awaitLow"}
      BY <3>1
    <3>. QED
      BY <1>2, <2>1, <3>2, <3>3
  <2>. QED
    BY <1>3, <2>2, <2>3, <2>4, <2>5 DEF Iterate
<1>4. CASE MmapFails \/ gpio_setup_pins \/ SanityCheck \/ GiveUp \/ Report \/ gpio_restore_pins
  <2>1. r4' \notin {"low", "awaitLow", "report"}
    BY <1>4 DEF MmapFails, gpio_setup_pins, SanityCheck, GiveUp, Report, gpio_restore_pins
  <2>2. ok4' = ok4 \/ r4 = "report"
    BY <1>4 DEF MmapFails, gpio_setup_pins, SanityCheck, GiveUp, Report, gpio_restore_pins
  <2>. QED
    BY <1>2, <2>1, <2>2
<1>. QED
  BY <1>3, <1>4 DEF latency_gpioloop_rpi4

LEMMA BehindRun == TypeInv /\ Behind /\ run_test => Behind'
<1> SUFFICES ASSUME TypeInv, Behind, run_test PROVE Behind'
  OBVIOUS
<1> USE DEF AtStep, ToStep, UnchangedTest, Ignored, rpi4Vars, rpi5Vars, pioVars
<1>1. CASE RunTest \/ cleanup_pins \/ Abort \/ StartRpi5 \/ Settle \/ RunAlone \/ CollectAlone
  <2>1. ~Measuring'
    BY <1>1 DEF Measuring, RunTest, cleanup_pins, Kill5, Kill4, Pins5, Pins4, Abort, StartRpi5,
                Settle, RunAlone, CollectAlone
  <2>. QED
    BY <2>1 DEF Behind
<1>2. CASE Measure
  <2>1. step' = "wait" /\ r4' = "fsel" /\ ok4' = FALSE
    BY <1>2 DEF Measure
  <2>. QED
    BY <2>1 DEF Behind
<1>3. CASE Collect
  <2>1. /\ step = "wait" /\ step' = "stop"
        /\ UNCHANGED <<mode, dirty, r4, edge, ok4, n5>>
    BY <1>3 DEF Collect
  <2>2. passed' = ok4 \/ passed' = FALSE
    BY <1>3, Zenon DEF Collect
  <2>3. Trips' = Trips
    BY DEF Trips
  <2>. QED
    BY <2>1, <2>2, <2>3 DEF Behind, Measuring
<1>4. CASE Stop
  <2>1. /\ step \in {"stop", "exit"}
        /\ UNCHANGED <<mode, dirty, passed, r4, edge, ok4, n5>>
    BY <1>4 DEF Stop, Interrupt
  <2>. QED
    BY <2>1 DEF Behind, Measuring, Trips
<1>. QED
  BY <1>1, <1>2, <1>3, <1>4 DEF run_test

\* A response that is recorded was just read.
LEMMA OwnStep ==
  TypeInv /\ Answer /\ OwnEcho /\ Next => OwnEcho'
<1> SUFFICES ASSUME TypeInv, Answer, OwnEcho, Next PROVE OwnEcho'
  OBVIOUS
<1>1. CASE Pio \/ latency_gpioloop
  BY <1>1, ByPio, ByRpi5 DEF OwnEcho
<1>2. CASE latency_gpioloop_rpi4
  <2>1. dirty' = dirty
    BY <1>2, ByRpi4
  <2>2. \/ foreign' = foreign
        \/ r4 = "awaitHigh" /\ Response = 1 /\ (foreign' = (foreign \/ out.edge # edge))
    BY <1>2 DEF latency_gpioloop_rpi4, MmapFails, gpio_setup_pins, SanityCheck, Iterate, GiveUp, Report,
       gpio_restore_pins, At4, To4, EchoHigh
  <2>3. r4 = "awaitHigh" /\ Response = 1 => dirty \/ out.edge = edge
    BY DEF Response, Answer, TypeInv, Traffic, Words
  <2>. QED
    BY <2>1, <2>2, <2>3 DEF OwnEcho
<1>3. CASE run_test
  <2>1. UNCHANGED <<foreign, dirty>> \/ foreign' = FALSE
    BY <1>3 DEF run_test, cleanup_pins, RunTest, Kill5, Kill4, Pins5, Pins4, Abort, StartRpi5,
       Settle, Measure, Collect, Stop, Interrupt, RunAlone, CollectAlone, Ignored, UnchangedTest, rpi4Vars
  <2>. QED
    BY <2>1 DEF OwnEcho
<1>. QED
  BY <1>1, <1>2, <1>3 DEF Next

LEMMA EdgeInit == Init => EdgeInv
<1> SUFFICES ASSUME Init PROVE EdgeInv
  OBVIOUS
<1>1. Order /\ Levels
  BY DEF Init, Order, Levels, Spinning, Standalone, Before4, Loop4, Measuring, Dead4, Dead5, Alive4,
         Alive5
<1>2. Fresh /\ Place /\ Released
  BY DEF Init, Fresh, Place, Released, Spinning, Before4, Loop4
<1>3. Answer /\ Ahead /\ Behind
  BY EdgeNumbers DEF Init, Answer, Ahead, Behind, Measuring, Loop4
<1>. QED
  BY <1>1, <1>2, <1>3 DEF EdgeInv, Init, OwnEcho

LEMMA EdgeStep == TypeInv /\ EdgeInv /\ [Next]_vars => EdgeInv'
<1> SUFFICES ASSUME TypeInv, EdgeInv, [Next]_vars PROVE EdgeInv'
  OBVIOUS
<1> USE DEF EdgeInv
<1>1. CASE Pio
  BY <1>1, OrderPio, LevelsPio, FreshPio, PlacePio, ReleasedPio, AnswerPio, AheadPio, BehindPio,
     OwnStep DEF Next
<1>2. CASE latency_gpioloop
  BY <1>2, OrderRpi5, LevelsRpi5, FreshRpi5, PlaceRpi5, ReleasedRpi5, AnswerRpi5, AheadRpi5,
     BehindRpi5, OwnStep DEF Next
<1>3. CASE latency_gpioloop_rpi4
  BY <1>3, OrderRpi4, LevelsRpi4, FreshRpi4, PlaceRpi4, ReleasedRpi4, AnswerRpi4, AheadRpi4,
     BehindRpi4, OwnStep DEF Next
<1>4. CASE run_test
  BY <1>4, OrderRun, LevelsRun, FreshRun, PlaceRun, ReleasedRun, AnswerRun, AheadRun, BehindRun,
     OwnStep DEF Next
<1>5. CASE UNCHANGED vars
  <2> USE <1>5 DEF vars, orchVars, rpi4Vars, rpi5Vars, pioVars
  <2>1. Order' /\ Levels'
    BY DEF Order, Levels, Spinning, Standalone, Before4, Loop4, Measuring, Dead4, Dead5, Alive4,
           Alive5
  <2>2. Fresh'
    BY DEF Fresh, Spinning, Before4, Loop4, Empty, Holding
  <2>3. Place'
    BY DEF Place, Spinning, Loop4, Arrived, Pending, Under, InRx, InCpu, InBus, InTx, Dropped, Seen,
           Empty, Holding, Counted, Mark, Echo
  <2>4. Released'
    BY DEF Released, Spinning, Loop4, NoRise, OneRise, RiseInRx, RiseInCpu, RiseInBus, RiseInTx,
           HoldsFall, Falls, RiseFirst, Echo, Holding
  <2>5. Answer' /\ Behind' /\ OwnEcho'
    BY DEF Answer, Behind, OwnEcho, Measuring, Trips
  <2>6. Ahead'
    BY DEF Ahead, Tally, Taken5, Holding, One, Loop4, Spinning, Trips
  <2>. QED
    BY <2>1, <2>2, <2>3, <2>4, <2>5, <2>6
<1>. QED
  BY <1>1, <1>2, <1>3, <1>4, <1>5 DEF Next

\* EdgeInv and the types together are inductive.
LEMMA EdgeAlways == Spec => [](TypeInv /\ EdgeInv)
<1>1. Init => TypeInv /\ EdgeInv
  BY TypeInit, EdgeInit
<1>2. TypeInv /\ EdgeInv /\ [Next]_vars => (TypeInv /\ EdgeInv)'
  BY TypeStep, EdgeStep
<1>. QED
  BY <1>1, <1>2, PTL DEF Spec

\* No round trip of a test that found its pins LOW is timed against the echo of
\* another edge, for every number of iterations, tests and lost commands.
THEOREM EchoesAreOwn == Spec => []OwnEcho
<1>1. EdgeInv => OwnEcho
  BY DEF EdgeInv
<1>. QED
  BY <1>1, EdgeAlways, PTL

\* The two programs of latency-gpioloop never wait for each other with the edge
\* lost between them: it is in exactly one place on its way.
THEOREM NeverBoth == Spec => []NeverBothWait
<1>1. ASSUME TypeInv, EdgeInv PROVE NeverBothWait
  <2> SUFFICES ASSUME Waiting, Echoing, drive4, drive5, ~dirty
               PROVE  EdgesUnderWay = 1
    BY DEF NeverBothWait
  <2>1. Spinning /\ p5 # "clean" /\ Loop4 /\ r4 \in {"awaitHigh", "awaitLow"}
    BY <1>1 DEF Waiting, Echoing, EdgeInv, Order, Loop4
  <2>2. Arrived \/ Pending \/ Under
    BY <1>1, <2>1 DEF EdgeInv, Place
  <2>3. /\ latch \in {0, 1} /\ out.level \in {0, 1} /\ Stimulus = latch /\ Response = out.level
        /\ latch = (IF r4 = "awaitHigh" THEN 1 ELSE 0)
    BY <1>1, <2>1 DEF TypeInv, Places, Traffic, Words, Stimulus, Response, EdgeInv, Levels
  <2>4. /\ One(IF r4 = "awaitHigh" THEN EchoHigh ELSE EchoLow) = (IF out.level = latch THEN 1 ELSE 0)
        /\ One(det = (IF Stimulus = 1 THEN "rise" ELSE "fall")) = (IF Seen(latch) THEN 0 ELSE 1)
    BY <1>1, <2>1, <2>3 DEF One, EchoHigh, EchoLow, Seen, TypeInv, Places
  <2>5. /\ Len(<<>>) = 0 /\ Len(<<Mark>>) = 1
        /\ One(p5 \in {"put", "tx"}) = (IF Holding THEN 1 ELSE 0)
    BY DEF One, Holding
  <2>6. CASE Arrived
    BY <2>3, <2>4, <2>5, <2>6 DEF EdgesUnderWay, Arrived, Empty
  <2>7. CASE Pending
    <3>1. ~Seen(latch)
      BY <2>3, <2>7 DEF Pending, Seen
    <3>. QED
      BY <2>3, <2>4, <2>5, <2>7, <3>1 DEF EdgesUnderWay, Pending, Empty
  <2>8. CASE Under
    <3>1. Seen(latch) /\ out.level # latch
      BY <2>3, <2>8 DEF Under
    <3>2. Len(rxf) + One(p5 \in {"put", "tx"}) + Len(posted) + Len(txf) = 1
      <4>1. CASE InRx
        BY <2>5, <4>1 DEF InRx
      <4>2. CASE InCpu
        BY <2>5, <4>2 DEF InCpu, Empty
      <4>3. CASE InBus
        BY <2>5, <4>3 DEF InBus
      <4>4. CASE InTx
        BY <2>5, <4>4 DEF InTx
      <4>. QED
        BY <2>1, <2>8, <4>1, <4>2, <4>3, <4>4 DEF Under, Dropped
    <3>3. /\ One(det = (IF Stimulus = 1 THEN "rise" ELSE "fall")) = 0
          /\ One(IF r4 = "awaitHigh" THEN EchoHigh ELSE EchoLow) = 0
      BY <2>4, <3>1
    <3>4. /\ Len(rxf) \in Nat /\ Len(posted) \in Nat /\ Len(txf) \in Nat
          /\ One(p5 \in {"put", "tx"}) \in Nat
      BY <1>1 DEF TypeInv, Traffic, One
    <3>. QED
      BY <3>2, <3>3, <3>4 DEF EdgesUnderWay
  <2>. QED
    BY <2>2, <2>6, <2>7, <2>8
<1>. QED
  BY <1>1, EdgeAlways, PTL

\* The budget of edges run.py gives the RPi5 program covers every edge of the
\* RPi4: a program that has used it up leaves no rising edge unanswered.
THEOREM BudgetIsEnough == Spec => []BudgetCovers
<1>1. ASSUME TypeInv, EdgeInv PROVE BudgetCovers
  <2> SUFFICES ASSUME n5 = rpi5_edges, p5 = "exited", ~dirty, drive4
               PROVE  r4 \notin {"high", "awaitHigh"} /\ (r4 = "awaitLow" => Response = 0)
    BY DEF BudgetCovers
  <2>1. n5 = 2 * Trips /\ Trips \in Nat /\ Trips > 0
    BY EdgeNumbers
  <2>2. ~drive5 /\ (Loop4 /\ mode # "L3" => n5 <= edge) /\ mode # "L3"
    BY <1>1, <2>1 DEF EdgeInv, Ahead
  <2>3. r4 \notin {"high", "awaitHigh"}
    BY <1>1, <2>1, <2>2 DEF TypeInv, Edges, Loop4
  <2>. QED
    BY <2>2, <2>3 DEF Response
<1>. QED
  BY <1>1, EdgeAlways, PTL

\* What passes as a measurement of L1 or L2 went through the CPU or the DMA of
\* the RPi5, edge by edge, and is no echo of the state machines alone.
THEOREM PassesThroughCpu == Spec => []PassedThroughCpu
<1>1. TypeInv /\ EdgeInv => PassedThroughCpu
  BY DEF EdgeInv, Behind, Measuring, PassedThroughCpu, Trips
<1>. QED
  BY <1>1, EdgeAlways, PTL

=============================================================================
