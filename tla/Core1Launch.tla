---------------------------- MODULE Core1Launch ----------------------------
(***************************************************************************)
(* Waking Core 1 of the RP1 (launch_core1 of throughput_pioloop_m3poll.c   *)
(* and main of core1_launcher.c).  Core 1 waits for an event in its boot   *)
(* ROM, and only Core 0 can send one.  The host therefore rewrites, through *)
(* the PCIe BAR, the interrupt vectors Core 0 is using: each points to a   *)
(* stub that executes SEV and jumps to the handler found in the vector.    *)
(*                                                                         *)
(* Host, Core 0 and Core 1 share the SRAM and run concurrently; every      *)
(* store of the host that another core may look at is a step of its own.   *)
(***************************************************************************)
EXTENDS Naturals

CONSTANTS
  NIrqs,      \* vectors that hold a handler, in the order of the table
  Doorbell,   \* the one the PIO mailbox raises
  Programs,   \* subset of {"bench", "launcher"}
  Attempts,   \* mailbox triggers before giving up (10 in the code)
  MaxRuns,    \* bound on the runs of the host programs
  MayTimeout, \* a mailbox ioctl may fail
  MaxKills    \* bound on the times the host program is killed

ASSUME IrqAssumption == NIrqs \in Nat /\ Doorbell \in 1..NIrqs
ASSUME RunAssumption ==
  /\ Programs \subseteq {"bench", "launcher"}
  /\ Attempts \in Nat \ {0} /\ MaxRuns \in Nat
  /\ MayTimeout \in BOOLEAN /\ MaxKills \in Nat

VARIABLES
  host,   \* the step the running host program is at, "idle" between runs
  prog,   \* which program runs
  next,   \* index i of the loops over the hooked vectors
  tries,  \* mailbox triggers left
  orig,   \* orig_handlers: what the host read from the vectors
  run,    \* number of the current run
  kills,  \* times the host program was killed
  vec,    \* SRAM: the handler each vector points to
  stub,   \* SRAM: the literal of each stub, or Code while none is there
  fw,     \* SRAM: the run that loaded the firmware
  magic,  \* SRAM: STATUS_MAGIC is present
  c0,     \* Core 0: the interrupt it serves and the code it executes
  mbox,   \* a mailbox request waits for Core 0
  c1,     \* Core 1: held in reset, waiting in boot ROM, running, or wild
  ran     \* the run whose firmware Core 1 started

hostVars == <<prog, next, tries, orig, run, kills>>
sramVars == <<vec, stub, fw, magic>>
c1Vars   == <<c1, ran>>
vars == <<host, hostVars, sramVars, c0, mbox, c1Vars>>

Irqs == 1..NIrqs

Real(i) == <<"real", i>>
Stub(i) == <<"stub", i>>
Code    == <<"code", "">>      \* bytes of the firmware, not a stub
Thread  == <<"thread", "">>    \* Core 0 executes no handler
Handlers == {Real(i) : i \in Irqs} \cup {Stub(i) : i \in Irqs}

HostSteps == {"idle", "ping", "load", "clear", "reset", "release", "reping",
              "check", "scan", "write", "patch", "trigger", "wait", "restore",
              "undo", "verify", "ok", "failed"}

-----------------------------------------------------------------------------
(* Core 0: thread mode, and the interrupts it takes.                       *)

\* Mailbox requests raise the doorbell; the other interrupts come as they like.
TakeIrq(i) ==
  /\ c0.at = Thread
  /\ i = Doorbell => mbox
  /\ c0' = [irq |-> i, at |-> vec[i]]
  /\ UNCHANGED <<host, hostVars, sramVars, mbox, c1Vars>>

\* SEV reaches Core 1 when it waits in boot ROM; then bx to the literal.
RunStub ==
  /\ c0.at \in {Stub(i) : i \in Irqs}
  /\ c0' = [c0 EXCEPT !.at = stub[c0.at[2]]]
  /\ IF c1 = "wfe" THEN c1' = "entry" /\ ran' = fw ELSE UNCHANGED c1Vars
  /\ UNCHANGED <<host, hostVars, sramVars, mbox>>

\* The firmware's handler answers the mailbox and returns.
RunHandler ==
  /\ c0.at \in {Real(i) : i \in Irqs}
  /\ mbox' = (mbox /\ c0.irq # Doorbell)
  /\ c0' = [c0 EXCEPT !.at = Thread]
  /\ UNCHANGED <<host, hostVars, sramVars, c1Vars>>

-----------------------------------------------------------------------------
(* Core 1: the start of every firmware of this repository.                 *)

\* Writes the magic word, then counts in the status block.
Entry ==
  /\ c1 = "entry"
  /\ c1' = "loop" /\ magic' = TRUE
  /\ UNCHANGED <<host, hostVars, vec, stub, fw, c0, mbox, ran>>

\* Its code was replaced under it: it may write whatever it likes.
RunWild ==
  /\ c1 = "wild"
  /\ magic' = TRUE
  /\ UNCHANGED <<host, hostVars, vec, stub, fw, c0, mbox, c1Vars>>

\* Mutant: the magic word alone is taken as a sign of life.
check_core1_alive_magicOnly == magic

\* Magic present and counter changing.
check_core1_alive == magic /\ c1 = "loop"

-----------------------------------------------------------------------------
(* The host program.                                                       *)

Goto(s) == host' = s

Start ==
  /\ host = "idle" /\ run < MaxRuns
  /\ run' = run + 1 /\ prog' \in Programs
  /\ mbox' = TRUE /\ Goto("ping")
  /\ UNCHANGED <<next, tries, orig, kills, sramVars, c0, c1Vars>>

\* trigger_pio_mailbox returned: answered, or an error.
Answered(s) == host = s /\ ~mbox
TimedOut(s) == host = s /\ mbox /\ MayTimeout

Ping(s, dest) ==
  /\ \/ Answered(s) /\ Goto(dest)
     \/ TimedOut(s) /\ Goto("failed")
  /\ UNCHANGED <<hostVars, sramVars, c0, mbox, c1Vars>>

\* Core 1 may still execute what the previous run loaded at the same place.
load_firmware ==
  /\ host = "load"
  /\ fw' = run
  /\ c1' \in IF c1 \in {"entry", "loop"} THEN {c1, "wild"} ELSE {c1}
  /\ Goto("clear")
  /\ UNCHANGED <<hostVars, vec, stub, magic, c0, mbox, ran>>

clear_status ==
  /\ host = "clear"
  /\ magic' = FALSE
  /\ Goto("reset")
  /\ UNCHANGED <<hostVars, vec, stub, fw, c0, mbox, c1Vars>>

Reset ==
  /\ host = "reset"
  /\ c1' = "reset"
  /\ Goto("release")
  /\ UNCHANGED <<hostVars, sramVars, c0, mbox, ran>>

\* Entry point and stack are in the scratch registers; Core 1 waits in boot
\* ROM, or finds an event latched and starts at once.
Release ==
  /\ host = "release"
  /\ \/ c1' = "wfe" /\ UNCHANGED ran
     \/ c1' = "entry" /\ ran' = fw
  /\ IF prog = "launcher" THEN mbox' = TRUE /\ Goto("reping")
                          ELSE UNCHANGED mbox /\ Goto("check")
  /\ UNCHANGED <<hostVars, sramVars, c0>>

CheckStarted ==
  /\ host = "check"
  /\ Goto(IF check_core1_alive THEN "ok" ELSE "scan")
  /\ UNCHANGED <<hostVars, sramVars, c0, mbox, c1Vars>>

find_active_irq_handlers ==
  /\ host = "scan"
  /\ orig' = vec /\ next' = 1
  /\ Goto("write")
  /\ UNCHANGED <<prog, tries, run, kills, sramVars, c0, mbox, c1Vars>>

\* Mutant: the literal is the address the vector is about to get.
write_sev_stub_at_self ==
  /\ host = "write"
  /\ stub' = [stub EXCEPT ![next] = Stub(next)]
  /\ Goto("patch")
  /\ UNCHANGED <<hostVars, vec, fw, magic, c0, mbox, c1Vars>>

\* Mutant: the vector is patched before its stub is written.
write_sev_stub_at_late ==
  /\ host = "write"
  /\ vec' = [vec EXCEPT ![next] = Stub(next)]
  /\ Goto("patch")
  /\ UNCHANGED <<hostVars, stub, fw, magic, c0, mbox, c1Vars>>

write_sev_stub_at ==
  /\ host = "write"
  /\ stub' = [stub EXCEPT ![next] = orig[next]]
  /\ Goto("patch")
  /\ UNCHANGED <<hostVars, vec, fw, magic, c0, mbox, c1Vars>>

\* The vector of the stub just written; after the last one the triggers begin.
Patch ==
  /\ host = "patch"
  /\ vec' = [vec EXCEPT ![next] = Stub(next)]
  /\ next' = next + 1
  /\ IF next' > NIrqs THEN tries' = Attempts /\ Goto("trigger")
                   ELSE UNCHANGED tries /\ Goto("write")
  /\ UNCHANGED <<prog, orig, run, kills, stub, fw, magic, c0, mbox, c1Vars>>

Trigger ==
  /\ host = "trigger"
  /\ mbox' = TRUE /\ Goto("wait")
  /\ UNCHANGED <<hostVars, sramVars, c0, c1Vars>>

\* Mutant: a failed ioctl is tried again and not counted as an attempt.
Retry_onError ==
  /\ Answered("wait") \/ TimedOut("wait")
  /\ IF mbox THEN UNCHANGED tries /\ Goto("trigger") ELSE
       /\ tries' = tries - 1
       /\ Goto(IF check_core1_alive THEN "restore" ELSE IF tries' = 0 THEN "undo" ELSE "trigger")
  /\ next' = 1
  /\ UNCHANGED <<prog, orig, run, kills, sramVars, c0, mbox, c1Vars>>

\* Mutant: one attempt too many.
Retry_past ==
  /\ Answered("wait") \/ TimedOut("wait")
  /\ tries' = tries - 1
  /\ Goto(IF check_core1_alive THEN "restore" ELSE IF tries = 0 THEN "undo" ELSE "trigger")
  /\ next' = 1
  /\ UNCHANGED <<prog, orig, run, kills, sramVars, c0, mbox, c1Vars>>

\* The result of the ioctl is ignored here, the status block decides.
Retry ==
  /\ Answered("wait") \/ TimedOut("wait")
  /\ tries' = tries - 1
  /\ Goto(IF check_core1_alive THEN "restore" ELSE IF tries' = 0 THEN "undo" ELSE "trigger")
  /\ next' = 1
  /\ UNCHANGED <<prog, orig, run, kills, sramVars, c0, mbox, c1Vars>>

\* Mutant: a failed launch leaves the vectors hooked.
Restore_okOnly ==
  /\ host \in {"restore", "undo"}
  /\ vec' = IF host = "restore" THEN [vec EXCEPT ![next] = orig[next]] ELSE vec
  /\ next' = next + 1
  /\ Goto(IF next' <= NIrqs THEN host ELSE IF host = "undo" THEN "failed"
          ELSE IF prog = "launcher" THEN "verify" ELSE "ok")
  /\ UNCHANGED <<prog, tries, orig, run, kills, stub, fw, magic, c0, mbox, c1Vars>>

Restore ==
  /\ host \in {"restore", "undo"}
  /\ vec' = [vec EXCEPT ![next] = orig[next]]
  /\ next' = next + 1
  /\ Goto(IF next' <= NIrqs THEN host ELSE IF host = "undo" THEN "failed"
          ELSE IF prog = "launcher" THEN "verify" ELSE "ok")
  /\ UNCHANGED <<prog, tries, orig, run, kills, stub, fw, magic, c0, mbox, c1Vars>>

\* core1_launcher looks once more before it reports success.
Verify ==
  /\ host = "verify"
  /\ Goto(IF check_core1_alive THEN "ok" ELSE "failed")
  /\ UNCHANGED <<hostVars, sramVars, c0, mbox, c1Vars>>

End ==
  /\ host \in {"ok", "failed"}
  /\ Goto("idle")
  /\ UNCHANGED <<hostVars, sramVars, c0, mbox, c1Vars>>

\* Neither program handles signals: the SRAM stays as it is.
Kill ==
  /\ kills < MaxKills /\ host # "idle"
  /\ kills' = kills + 1
  /\ Goto("idle")
  /\ UNCHANGED <<prog, next, tries, orig, run, sramVars, c0, mbox, c1Vars>>

launch_core1 ==
  \/ Start \/ Ping("ping", "load") \/ load_firmware \/ clear_status
  \/ Reset \/ Release \/ Ping("reping", "check") \/ CheckStarted
  \/ find_active_irq_handlers
  \/ write_sev_stub_at \/ Patch \/ Trigger \/ Retry \/ Restore \/ Verify \/ End

-----------------------------------------------------------------------------

Init ==
  /\ host = "idle" /\ prog \in Programs /\ next = 1 /\ tries = 0
  /\ orig = [i \in Irqs |-> Real(i)] /\ run = 0 /\ kills = 0
  /\ vec = [i \in Irqs |-> Real(i)] /\ stub = [i \in Irqs |-> Code]
  /\ fw = 0 /\ magic = FALSE
  /\ c0 = [irq |-> Doorbell, at |-> Thread] /\ mbox = FALSE
  /\ c1 = "reset" /\ ran = 0

Core0 == RunStub \/ RunHandler \/ \E i \in Irqs : TakeIrq(i)
Core1 == Entry \/ RunWild
Next  == launch_core1 \/ Kill \/ Core0 \/ Core1

\* The host program and the cores keep running; a pending interrupt is taken
\* as soon as the one in service returns, so it cannot lose every time.
Fairness ==
  /\ WF_vars(launch_core1 /\ host # "idle")
  /\ WF_vars(RunStub) /\ WF_vars(RunHandler)
  /\ SF_vars(TakeIrq(Doorbell))
  /\ WF_vars(Entry)

Spec == Init /\ [][Next]_vars /\ Fairness

-----------------------------------------------------------------------------
(* Properties.                                                             *)

\* The steps, cores and SRAM words hold what the code can put there.
TypeOK ==
  /\ host \in HostSteps /\ prog \in Programs /\ next \in 1..NIrqs + 1
  /\ tries \in 0..Attempts /\ run \in 0..MaxRuns /\ kills \in 0..MaxKills
  /\ orig \in [Irqs -> Handlers] /\ vec \in [Irqs -> Handlers]
  /\ stub \in [Irqs -> Handlers \cup {Code}]
  /\ fw \in 0..run /\ ran \in 0..run /\ magic \in BOOLEAN /\ mbox \in BOOLEAN
  /\ c0 \in [irq : Irqs, at : Handlers \cup {Code, Thread}]
  /\ c1 \in {"reset", "wfe", "entry", "loop", "wild"}

\* Core 0 never jumps into a stub that is not written yet, whatever interrupt
\* it takes while the host patches its vectors.
NoWildJump == c0.at # Code

\* Unless a host program was killed, every vector points to the firmware's own
\* handler again between runs, also after a launch that failed.
VectorsRestored == host = "idle" /\ kills = 0 => \A i \in Irqs : vec[i] = Real(i)

\* "Core 1 started" is only reported when Core 1 runs the firmware this run
\* loaded, not what an earlier run left running.
LaunchHonest == host = "ok" => c1 = "loop" /\ ran = run

\* Every interrupt Core 0 takes returns to thread mode through the handler of
\* the firmware (DESIGN.md: the stub tail-calls the real handler).
Core0Returns == (c0.at # Thread) ~> (c0.at = Thread)

\* As long as no host program was killed, Core 0 returns from every interrupt,
\* whatever it meets between the stores of the hook and restore loops.
Core0ReturnsUnkilled == (c0.at # Thread /\ kills = 0) ~> (c0.at = Thread \/ kills > 0)

\* A run of the host program ends: it never waits for Core 0 or Core 1 forever,
\* not even for a Core 0 that an earlier, killed run got stuck.
LaunchEnds == (host # "idle") ~> (host = "idle")

=============================================================================
