------------------------------ MODULE M3Bridge ------------------------------
(***************************************************************************)
(* The Core 1 bridge benchmark: the host program                           *)
(* throughput_pioloop_m3poll.c, the firmware pio_bridge.s on Core 1 and    *)
(* PIO state machine 3, running concurrently on the RP1's shared SRAM.     *)
(*                                                                         *)
(* Core 1 moves every word of the TX buffer through the state machine,     *)
(* which inverts it, into the RX buffer, pass after pass, until the host   *)
(* clears the command word.  Nobody polls the FIFO status: the firmware    *)
(* relies on the state machine being faster than its own bus accesses.     *)
(*                                                                         *)
(* A word is the TX index it was put from, and its value is that of the    *)
(* test pattern there (Val); inversion is a bijection, so RX holds the     *)
(* same for the inverted word.                                             *)
(***************************************************************************)
EXTENDS Integers, Sequences, FiniteSets

CONSTANTS
  N,            \* BUF_WORDS
  Depth,        \* entries of a PIO FIFO
  Patterns,     \* test patterns a run may be asked for
  Walk,         \* period of the pattern walk, 32
  MaxPasses,    \* bound on the passes of one run
  MaxFaults,    \* bound on the faulty reads after a reset of Core 1
  MayKill       \* the host program may be killed

ASSUME SizeAssumption ==
  /\ N \in Nat /\ Depth \in Nat \ {0} /\ N > 2 * Depth + 1
  /\ MaxPasses \in Nat \ {0}
ASSUME PatternAssumption ==
  /\ Patterns \subseteq {"seq", "walk", "fixed"}
  /\ Walk \in Nat /\ Walk > 2 * Depth + 1
ASSUME FaultAssumption == MaxFaults \in Nat /\ MayKill \in BOOLEAN

VARIABLES
  host,    \* the step the host program is at, "idle" between runs
  verify,  \* the run asks Core 1 to verify
  report,  \* what the host read: words at start and end, passes, errors, verdict
  cmd, words, passes, errs, result,  \* the status block in SRAM
  pattern, \* what the TX buffer in SRAM was filled with
  rx,      \* the RX buffer in SRAM
  c1,      \* the step Core 1 is at, "off" while held in reset
  idx,     \* r3, word index
  total,   \* r6, words done
  mode,    \* r7, the latched command
  bad,     \* ghost: Core 1 stored a wrong word since it was reset
  faults,  \* ghost: faulty reads since it was reset
  prog,    \* the program of the state machine is in instruction memory
  txf, osr, rxf  \* the FIFOs of the state machine and the word it works on

hostVars   == <<host, verify, report>>
statusVars == <<cmd, words, passes, errs, result>>
bufVars    == <<pattern, rx>>
c1Vars     == <<c1, idx, total, mode, bad, faults>>
pioVars    == <<prog, txf, osr, rxf>>
vars       == <<hostVars, statusVars, bufVars, c1Vars, pioVars>>

Index   == 0 .. N - 1
Cleared == -1   \* a word of the RX buffer the host wrote 0 to
Junk    == -2   \* a word no pattern has there: a spoilt or an empty read
Empty   == -3   \* no word in the state machine

\* The value at TX index i.  The words of seq (and of random, which goes under
\* seq) differ in a buffer, those of walk repeat, and fixed has only one.
Val(i) == CASE pattern = "seq"   -> i
            [] pattern = "walk"  -> i % Walk
            [] pattern = "fixed" -> 0

\* What a comparison of RX with TX sees.
Right(v, i) == v \in Index /\ Val(v) = Val(i)

-----------------------------------------------------------------------------
(* State machine 3: pull block, mov isr ~osr, push block.                  *)

Pull ==
  /\ prog /\ osr = Empty /\ txf # <<>>
  /\ osr' = Head(txf) /\ txf' = Tail(txf)
  /\ UNCHANGED <<hostVars, statusVars, bufVars, c1Vars, prog, rxf>>

Push ==
  /\ prog /\ osr # Empty /\ Len(rxf) < Depth
  /\ rxf' = Append(rxf, osr) /\ osr' = Empty
  /\ UNCHANGED <<hostVars, statusVars, bufVars, c1Vars, prog, txf>>

\* Nothing the state machine could still bring to the RX FIFO.
PioIdle == ~prog \/ (txf = <<>> /\ osr = Empty)

-----------------------------------------------------------------------------
(* Core 1: pio_bridge.s.                                                   *)

Step1(s) == c1' = s

\* Mutant: only the fields the first version of the block had are cleared.
Entry_noClear ==
  /\ c1 = "entry"
  /\ words' = 0 /\ result' = 0
  /\ Step1("wait")
  /\ UNCHANGED <<hostVars, cmd, passes, errs, bufVars, idx, total, mode, bad, faults, pioVars>>

\* Magic word, and everything in the status block but the command.
Entry ==
  /\ c1 = "entry"
  /\ words' = 0 /\ passes' = 0 /\ errs' = 0 /\ result' = 0
  /\ Step1("wait")
  /\ UNCHANGED <<hostVars, cmd, bufVars, idx, total, mode, bad, faults, pioVars>>

WaitCmd ==
  /\ c1 = "wait" /\ cmd # 0
  /\ mode' = cmd /\ total' = 0 /\ words' = 0 /\ idx' = 0
  /\ Step1("put")
  /\ UNCHANGED <<hostVars, cmd, passes, errs, result, bufVars, bad, faults, pioVars>>

\* A word written to a full TX FIFO is lost.
Put ==
  /\ c1 = "put"
  /\ txf' = IF Len(txf) < Depth THEN Append(txf, idx) ELSE txf
  /\ Step1("get")
  /\ UNCHANGED <<hostVars, statusVars, bufVars, idx, total, mode, bad, faults, prog, osr, rxf>>

\* Mutant: ble instead of blt.
Store_ble(v) ==
  /\ rx' = [i \in Index |-> IF i = idx THEN v ELSE rx[i]]
  /\ bad' = (bad \/ ~Right(v, idx))
  /\ idx' = idx + 1
  /\ Step1(IF idx' <= N THEN "put" ELSE "words")

\* Store what was read and go to the next word.
Store(v) ==
  /\ rx' = [rx EXCEPT ![idx] = v]
  /\ bad' = (bad \/ ~Right(v, idx))
  /\ idx' = idx + 1
  /\ Step1(IF idx' < N THEN "put" ELSE "words")

Fault == faults < MaxFaults /\ faults' = faults + 1

\* An empty FIFO may give the last word again, which fixed cannot tell from the
\* next one.
Late == IF pattern = "fixed" THEN {Junk, idx} ELSE {Junk}

\* The read normally comes when the word is there.  Two faults: bus traffic of
\* Core 0 spoils the word read, or the state machine is late.
Get ==
  /\ c1 = "get"
  /\ \/ rxf # <<>> /\ rxf' = Tail(rxf) /\ Store(Head(rxf)) /\ UNCHANGED faults
     \/ rxf # <<>> /\ rxf' = Tail(rxf) /\ Store(Junk) /\ Fault
     \/ \E v \in Late :
          rxf = <<>> /\ PioIdle /\ Store(v) /\ UNCHANGED <<rxf, faults>>
     \/ \E v \in Late :
          rxf = <<>> /\ ~PioIdle /\ Store(v) /\ UNCHANGED rxf /\ Fault
  /\ UNCHANGED <<hostVars, statusVars, pattern, total, mode, prog, txf, osr>>

StoreWords ==
  /\ c1 = "words"
  /\ total' = total + N /\ words' = total'
  /\ Step1("passes")
  /\ UNCHANGED <<hostVars, cmd, passes, errs, result, bufVars, idx, mode, bad, faults, pioVars>>

StorePasses ==
  /\ c1 = "passes"
  /\ passes' = passes + 1
  /\ Step1(IF mode = 2 THEN "verify" ELSE "check")
  /\ UNCHANGED <<hostVars, cmd, words, errs, result, bufVars, idx, total, mode, bad, faults, pioVars>>

Mismatches == Cardinality({i \in Index : ~Right(rx[i], i)})

Verify ==
  /\ c1 = "verify"
  /\ errs' = errs + Mismatches
  /\ Step1("check")
  /\ UNCHANGED <<hostVars, cmd, words, passes, result, bufVars, idx, total, mode, bad, faults, pioVars>>

\* Mutant: the command word is not looked at again.
Check_deaf ==
  /\ c1 = "check"
  /\ passes < MaxPasses /\ idx' = 0 /\ Step1("put")
  /\ UNCHANGED <<hostVars, statusVars, bufVars, total, mode, bad, faults, pioVars>>

\* MaxPasses is the bound of the model, the firmware has none.
Check ==
  /\ c1 = "check"
  /\ \/ cmd = 0 /\ Step1("done") /\ UNCHANGED idx
     \/ cmd # 0 /\ passes < MaxPasses /\ idx' = 0 /\ Step1("put")
  /\ UNCHANGED <<hostVars, statusVars, bufVars, total, mode, bad, faults, pioVars>>

Done ==
  /\ c1 = "done"
  /\ result' = IF errs = 0 THEN 1 ELSE 2
  /\ Step1("spin")
  /\ UNCHANGED <<hostVars, cmd, words, passes, errs, bufVars, idx, total, mode, bad, faults, pioVars>>

Core1 == Entry \/ WaitCmd \/ Put \/ Get \/ StoreWords \/ StorePasses
         \/ Verify \/ Check \/ Done

-----------------------------------------------------------------------------
(* The host program.                                                       *)

\* Mutant: the state machine is set up before Core 1 is launched.
Ahead_setupFirst(s) ==
  CASE s = "fill" -> "setup"     [] s = "setup" -> "clear"  [] s = "clear" -> "reset"
    [] s = "reset" -> "release"  [] s = "release" -> "await" [] s = "await" -> "cmd"
    [] s = "cmd" -> "start"      [] s = "start" -> "stop"   [] s = "stop" -> "pause"
    [] s = "pause" -> "readW"    [] s = "readW" -> "readE"  [] s = "readE" -> "readP"
    [] s = "readP" -> "judge"    [] s = "judge" -> "report"

\* The order of the steps of main and launch_core1.
Ahead(s) ==
  CASE s = "fill" -> "clear"     [] s = "clear" -> "reset"  [] s = "reset" -> "release"
    [] s = "release" -> "await"  [] s = "await" -> "setup"  [] s = "setup" -> "cmd"
    [] s = "cmd" -> "start"      [] s = "start" -> "stop"   [] s = "stop" -> "pause"
    [] s = "pause" -> "readW"    [] s = "readW" -> "readE"  [] s = "readE" -> "readP"
    [] s = "readP" -> "judge"    [] s = "judge" -> "report"

\* Nothing read yet.
Blank == [start |-> 0, end |-> 0, passes |-> 0, errs |-> 0, verdict |-> "none"]

HostStep(s) == host = s /\ host' = Ahead(s)
Only(s)     == HostStep(s) /\ UNCHANGED <<verify, report>>

Start ==
  /\ host = "idle" /\ verify' \in BOOLEAN
  /\ host' = "fill"
  /\ UNCHANGED <<report, statusVars, bufVars, c1Vars, pioVars>>

\* load_firmware rewrites the same code.  The Core 1 of a killed run may go on
\* storing into the RX buffer cleared here; what it has under way is emptied by
\* setup_pio_sm3.
Fill ==
  /\ Only("fill")
  /\ pattern' \in Patterns
  /\ rx' = [i \in Index |-> Cleared]
  /\ UNCHANGED <<statusVars, c1Vars, pioVars>>

ClearStatus ==
  /\ Only("clear")
  /\ cmd' = 0 /\ words' = 0 /\ passes' = 0 /\ errs' = 0 /\ result' = 0
  /\ UNCHANGED <<bufVars, c1Vars, pioVars>>

Reset ==
  /\ Only("reset")
  /\ c1' = "off" /\ idx' = 0 /\ total' = 0 /\ mode' = 0 /\ bad' = FALSE /\ faults' = 0
  /\ UNCHANGED <<statusVars, bufVars, pioVars>>

\* Core1Launch has the details; the mailbox calls it makes have Core 0 refresh
\* instruction memory.
Release ==
  /\ Only("release")
  /\ c1' = "entry" /\ prog' = FALSE
  /\ UNCHANGED <<statusVars, bufVars, idx, total, mode, bad, faults, txf, osr, rxf>>

\* check_core1_alive: the heartbeat counts while Core 1 waits for a command.
Await ==
  /\ Only("await")
  /\ c1 = "wait"
  /\ UNCHANGED <<statusVars, bufVars, c1Vars, pioVars>>

\* setup_pio_sm3: initialising the state machine empties its FIFOs.
setup_pio_sm3 ==
  /\ Only("setup")
  /\ prog' = TRUE /\ txf' = <<>> /\ rxf' = <<>> /\ osr' = Empty
  /\ UNCHANGED <<statusVars, bufVars, c1Vars>>

SendCmd ==
  /\ Only("cmd")
  /\ cmd' = IF verify THEN 2 ELSE 1
  /\ UNCHANGED <<words, passes, errs, result, bufVars, c1Vars, pioVars>>

Reads == UNCHANGED <<verify, statusVars, bufVars, c1Vars, pioVars>>

ReadStart ==
  /\ HostStep("start")
  /\ report' = [report EXCEPT !.start = words]
  /\ Reads

\* At any time: the duration is rounded to seconds and may come out as 0.
StopCmd ==
  /\ Only("stop")
  /\ cmd' = 0
  /\ UNCHANGED <<words, passes, errs, result, bufVars, c1Vars, pioVars>>

\* usleep(100000) to let Core 1 finish its pass, assumed to be long enough; or
\* Core 1 never saw the command and still waits for one.
Pause == Only("pause") /\ c1 \in {"spin", "wait"} /\ UNCHANGED <<statusVars, bufVars, c1Vars, pioVars>>

ReadWords ==
  /\ HostStep("readW")
  /\ report' = [report EXCEPT !.end = words]
  /\ Reads

ReadErrors ==
  /\ HostStep("readE")
  /\ report' = [report EXCEPT !.errs = errs]
  /\ Reads

ReadPasses ==
  /\ HostStep("readP")
  /\ report' = [report EXCEPT !.passes = passes]
  /\ Reads

\* Mutant: the count of Core 1 is printed but does not count.
Judge_hostOnly ==
  /\ HostStep("judge")
  /\ report' = [report EXCEPT !.verdict = IF Mismatches = 0 THEN "pass" ELSE "fail"]
  /\ Reads

\* verify_rx_buffer, and the verdict; RESULT and the passes do not count.
Judge ==
  /\ HostStep("judge")
  /\ report' = [report EXCEPT !.verdict =
                  IF report.errs = 0 /\ Mismatches = 0 THEN "pass" ELSE "fail"]
  /\ Reads

\* The process is gone; Core 1 goes on with the last command it was given.
Gone ==
  /\ host' = "idle" /\ verify' = FALSE /\ report' = Blank
  /\ UNCHANGED <<statusVars, bufVars, c1Vars, pioVars>>

Exit == host = "report" /\ Gone

Kill == MayKill /\ host # "idle" /\ Gone

Main == Start \/ Fill \/ ClearStatus \/ Reset \/ Release \/ Await \/ setup_pio_sm3
        \/ SendCmd \/ ReadStart \/ StopCmd \/ Pause \/ ReadWords \/ ReadErrors
        \/ ReadPasses \/ Judge \/ Exit

-----------------------------------------------------------------------------

Init ==
  /\ host = "idle" /\ verify = FALSE
  /\ report = Blank
  /\ cmd = 0 /\ words = 0 /\ passes = 0 /\ errs = 0 /\ result = 0
  /\ pattern \in Patterns /\ rx = [i \in Index |-> Cleared]
  /\ c1 = "off" /\ idx = 0 /\ total = 0 /\ mode = 0 /\ bad = FALSE /\ faults = 0
  /\ prog = FALSE /\ txf = <<>> /\ osr = Empty /\ rxf = <<>>

Next == Main \/ Kill \/ Core1 \/ Pull \/ Push

\* Core 1 and the state machine run on their own clocks.
Spec == Init /\ [][Next]_vars /\ WF_vars(Core1) /\ WF_vars(Pull) /\ WF_vars(Push)

-----------------------------------------------------------------------------
(* Properties.                                                             *)

Word == Index \cup {Junk}

\* The index register stays inside the buffers and the FIFOs inside their
\* depth; the status block holds what its layout says.
TypeOK ==
  /\ verify \in BOOLEAN
  /\ cmd \in 0..2 /\ mode \in 0..2 /\ result \in 0..2
  /\ words \in Nat /\ total \in Nat /\ passes \in 0..MaxPasses /\ errs \in Nat
  /\ pattern \in Patterns /\ rx \in [Index -> Word \cup {Cleared}]
  /\ idx \in 0..N /\ (c1 \in {"put", "get"} => idx < N)
  /\ bad \in BOOLEAN /\ faults \in 0..MaxFaults /\ prog \in BOOLEAN
  /\ txf \in Seq(Index) /\ Len(txf) <= Depth
  /\ rxf \in Seq(Index) /\ Len(rxf) <= Depth
  /\ osr \in Index \cup {Empty}

\* A PASS means that no word got stuck in the state machine: one late read
\* shifts every later word, and the host finds the shift in the last pass.  Not
\* so with the pattern fixed, whose words all look right.  In verify mode it
\* means that no word of any pass was wrong: a mismatch Core 1 saw in an early
\* pass is not forgotten when RX is overwritten.
PassSound ==
  host = "report" /\ report.verdict = "pass" =>
    /\ pattern # "fixed" => txf = <<>> /\ rxf = <<>> /\ osr = Empty
    /\ verify => ~bad

\* When Core 1 made a pass, the state machine kept up and nothing disturbed the
\* bus, the verdict is PASS, whatever an earlier, killed run left in FIFOs, RX
\* or status.
CleanRunPasses ==
  host = "report" /\ report.passes > 0 /\ faults = 0 => report.verdict = "pass"

\* The counters of a report belong together and to this run.
StatsConsistent ==
  host = "report" => report.end = N * report.passes /\ report.start <= report.end

\* Once the host has cleared the command word Core 1 finishes its pass and
\* stops, or never began one, or is reset for the next run.
StopObeyed == (host = "pause") ~> (c1 \in {"spin", "wait", "off"})

=============================================================================
