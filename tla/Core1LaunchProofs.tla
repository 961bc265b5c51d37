------------------------- MODULE Core1LaunchProofs -------------------------
(***************************************************************************)
(* Proofs about Core1Launch for every number of vectors, every choice of   *)
(* programs and every bound: Core 0 never jumps into an unwritten stub,    *)
(* killed host programs included, and a host program that is not killed    *)
(* leaves every vector as it found it.                                     *)
(***************************************************************************)
EXTENDS Core1Launch, TLAPS

\* A code address Core 0 may be sent to: not firmware bytes, and if it is a
\* stub, one that is written.
Safe(h) == h # Code /\ \A k \in Irqs : h = Stub(k) => stub[k] # Code

\* Every address reachable from a vector is safe, and so is every address the
\* host holds and may still write into a stub or a vector.
WildInv ==
  /\ \A i \in Irqs : Safe(vec[i]) /\ Safe(orig[i])
  /\ \A i \in Irqs : stub[i] = Code \/ Safe(stub[i])
  /\ Safe(c0.at)
  /\ host = "patch" => stub[next] # Code

\* Where the loops over the vectors stand.
LoopInv ==
  /\ host \in {"write", "patch", "restore", "undo"} => next \in Irqs
  /\ host \in {"trigger", "wait"} => tries > 0

IInv == TypeOK /\ LoopInv /\ WildInv

\* Handler addresses of different kinds differ, whatever the indices.
LEMMA Kinds ==
  /\ \A i, k : Real(i) # Stub(k) /\ Real(i) # Code /\ Stub(i) # Code
  /\ \A i : Thread # Stub(i) /\ Thread # Real(i)
  /\ Thread # Code
  /\ \A i, k : Stub(i) = Stub(k) => i = k
BY DEF Real, Stub, Code, Thread

LEMMA InitInv == Init => IInv
<1> SUFFICES ASSUME Init PROVE IInv
  OBVIOUS
<1>1. TypeOK
  <2>1. \A i \in Irqs : Real(i) \in Handlers
    BY DEF Handlers
  <2>2. orig \in [Irqs -> Handlers] /\ vec \in [Irqs -> Handlers]
    BY <2>1 DEF Init
  <2>3. stub \in [Irqs -> Handlers \cup {Code}]
    BY DEF Init
  <2>4. c0 \in [irq : Irqs, at : Handlers \cup {Code, Thread}]
    BY IrqAssumption DEF Init, Irqs
  <2>5. next \in 1..NIrqs + 1 /\ host \in HostSteps
    BY IrqAssumption DEF Init, HostSteps
  <2>6. tries \in 0..Attempts /\ run \in 0..MaxRuns /\ fw \in 0..run /\ ran \in 0..run
         /\ kills \in 0..MaxKills
    BY RunAssumption DEF Init
  <2> QED BY <2>2, <2>3, <2>4, <2>5, <2>6 DEF Init, TypeOK
<1>2. LoopInv
  BY DEF Init, LoopInv
<1>3. WildInv
  BY Kinds DEF Init, WildInv, Safe
<1> QED BY <1>1, <1>2, <1>3 DEF IInv

LEMMA StepInv == IInv /\ [Next]_vars => IInv'
<1> SUFFICES ASSUME IInv, [Next]_vars PROVE IInv'
  OBVIOUS
<1> USE IrqAssumption, RunAssumption
<1> USE DEF IInv, TypeOK, LoopInv, HostSteps, Irqs, Goto, hostVars, sramVars, c1Vars
<1>1. CASE UNCHANGED vars
  BY <1>1 DEF vars, WildInv, Safe
<1>2. CASE Start
  BY <1>2 DEF Start, WildInv, Safe
<1>3. ASSUME NEW s, NEW dest \in {"load", "check"}, Ping(s, dest) PROVE IInv'
  BY <1>3 DEF Ping, Answered, TimedOut, WildInv, Safe
<1>4. CASE load_firmware
  BY <1>4 DEF load_firmware, WildInv, Safe
<1>5. CASE clear_status
  BY <1>5 DEF clear_status, WildInv, Safe
<1>6. CASE Reset
  BY <1>6 DEF Reset, WildInv, Safe
<1>7. CASE Release
  BY <1>7 DEF Release, WildInv, Safe
<1>8. CASE CheckStarted
  BY <1>8 DEF CheckStarted, WildInv, Safe
<1>9. CASE find_active_irq_handlers
  BY <1>9 DEF find_active_irq_handlers, WildInv, Safe
<1>10. CASE write_sev_stub_at
  <2>1. next \in Irqs /\ stub' = [stub EXCEPT ![next] = orig[next]]
    BY <1>10 DEF write_sev_stub_at
  <2>2. Safe(orig[next]) /\ orig[next] \in Handlers
    BY <2>1 DEF WildInv
  <2>3. \A k \in Irqs : stub[k] # Code => stub'[k] # Code
    BY <2>1, <2>2 DEF Safe
  <2>4. \A h : Safe(h) => Safe(h)'
    BY <2>3 DEF Safe
  <2>5. TypeOK' /\ LoopInv'
    BY <1>10, <2>1, <2>2 DEF write_sev_stub_at
  <2>6. (\A i \in Irqs : stub[i] = Code \/ Safe(stub[i]))'
    BY <2>1, <2>2, <2>3 DEF WildInv, Safe
  <2>7. WildInv'
    BY <1>10, <2>1, <2>2, <2>4, <2>6 DEF write_sev_stub_at, WildInv, Safe
  <2> QED BY <2>5, <2>7
<1>11. CASE Patch
  <2>1. next \in Irqs /\ stub[next] # Code
    BY <1>11 DEF Patch, WildInv
  <2>2. Safe(Stub(next))
    BY <2>1, Kinds DEF Safe
  <2>3. vec' \in [Irqs -> Handlers]
    BY <1>11, <2>1 DEF Patch, Handlers
  <2>4. WildInv'
    BY <1>11, <2>1, <2>2 DEF Patch, WildInv, Safe
  <2>5. TypeOK' /\ LoopInv'
    BY <1>11, <2>1, <2>3 DEF Patch
  <2> QED BY <2>4, <2>5
<1>12. CASE Trigger
  BY <1>12 DEF Trigger, WildInv, Safe
<1>13. CASE Retry
  BY <1>13 DEF Retry, Answered, TimedOut, WildInv, Safe
<1>14. CASE Restore
  <2>1. next \in Irqs /\ orig[next] \in Handlers
    BY <1>14 DEF Restore
  <2>2. WildInv'
    BY <1>14, <2>1 DEF Restore, WildInv, Safe
  <2>3. TypeOK' /\ LoopInv'
    BY <1>14, <2>1 DEF Restore
  <2> QED BY <2>2, <2>3
<1>15. CASE Verify
  BY <1>15 DEF Verify, WildInv, Safe
<1>16. CASE End
  BY <1>16 DEF End, WildInv, Safe
<1>17. CASE Kill
  BY <1>17 DEF Kill, WildInv, Safe
<1>18. CASE RunStub
  <2>1. PICK k \in Irqs : c0.at = Stub(k)
    BY <1>18 DEF RunStub
  <2>2. c0.at[2] = k /\ stub[k] # Code /\ stub[k] \in Handlers /\ Safe(stub[k])
    BY <2>1 DEF Stub, WildInv, Safe
  <2>3. c0' = [c0 EXCEPT !.at = stub[k]]
    BY <1>18, <2>2 DEF RunStub
  <2>4. c0'.at = stub[k] /\ UNCHANGED <<host, next, vec, orig, stub>>
    BY <1>18, <2>3 DEF RunStub
  <2>5. WildInv'
    <3> HIDE DEF IInv, TypeOK, LoopInv
    <3>1. \A h : Safe(h) => Safe(h)'
      BY <2>4 DEF Safe
    <3>2. WildInv /\ Safe(stub[k])
      BY <2>2 DEF IInv
    <3> QED BY <2>4, <3>1, <3>2 DEF WildInv
  <2>6. TypeOK' /\ LoopInv'
    BY <1>18, <2>2, <2>3 DEF RunStub
  <2> QED BY <2>5, <2>6
<1>19. CASE RunHandler
  <2>1. Safe(Thread)
    BY Kinds DEF Safe
  <2>2. WildInv'
    BY <1>19, <2>1 DEF RunHandler, WildInv, Safe
  <2>3. TypeOK' /\ LoopInv'
    BY <1>19 DEF RunHandler
  <2> QED BY <2>2, <2>3
<1>20. ASSUME NEW i \in Irqs, TakeIrq(i) PROVE IInv'
  <2>1. WildInv'
    BY <1>20 DEF TakeIrq, WildInv, Safe
  <2>2. TypeOK' /\ LoopInv'
    BY <1>20 DEF TakeIrq
  <2> QED BY <2>1, <2>2
<1>21. CASE Entry
  BY <1>21 DEF Entry, WildInv, Safe
<1>22. CASE RunWild
  BY <1>22 DEF RunWild, WildInv, Safe
<1> QED
  BY <1>1, <1>2, <1>3, <1>4, <1>5, <1>6, <1>7, <1>8, <1>9, <1>10, <1>11, <1>12,
     <1>13, <1>14, <1>15, <1>16, <1>17, <1>18, <1>19, <1>20, <1>21, <1>22
     DEF Next, launch_core1, Core0, Core1

\* Types hold and Core 0 stays on written code for every number of vectors,
\* with time-outs and kills (launch_core1, core1_launcher.c main).
THEOREM LaunchTypeCorrect == Spec => []TypeOK
<1>1. IInv => TypeOK
  BY DEF IInv
<1> QED BY <1>1, InitInv, StepInv, PTL DEF Spec

\* The order of the two stores of the hook loop, stub before vector, keeps
\* Core 0 away from unwritten stubs whenever an interrupt comes.
THEOREM NoWildJumps == Spec => []NoWildJump
<1>1. IInv => NoWildJump
  BY DEF IInv, WildInv, Safe, NoWildJump
<1> QED BY <1>1, InitInv, StepInv, PTL DEF Spec

-----------------------------------------------------------------------------

\* Steps at which the vectors are, or may be, hooked.
Hooked == {"write", "patch", "trigger", "wait", "restore", "undo"}

\* As long as nobody was killed: outside the hook every vector is the firmware's; inside it the host holds
\* the firmware's handlers, and the loop that restores has done those below
\* its index.
RestoreInv == kills = 0 =>
  /\ host \notin Hooked => \A i \in Irqs : vec[i] = Real(i)
  /\ host \in Hooked => \A i \in Irqs : orig[i] = Real(i)
  /\ host \in {"restore", "undo"} => \A i \in Irqs : i < next => vec[i] = Real(i)

LEMMA RestoreStep == IInv /\ RestoreInv /\ [Next]_vars => RestoreInv'
<1> SUFFICES ASSUME IInv, RestoreInv, [Next]_vars PROVE RestoreInv'
  OBVIOUS
<1>0. next \in Nat /\ NIrqs \in Nat /\ Irqs = 1..NIrqs /\ vec \in [Irqs -> Handlers] /\ kills \in Nat
  BY IrqAssumption, RunAssumption DEF IInv, TypeOK, Irqs
<1> USE DEF RestoreInv, Hooked, Goto, hostVars, sramVars, c1Vars
<1>1. CASE UNCHANGED vars
  BY <1>1 DEF vars
<1>2. CASE Start \/ load_firmware \/ clear_status \/ Reset \/ Release
  BY <1>2 DEF Start, load_firmware, clear_status, Reset, Release
<1>3. ASSUME NEW s, NEW dest \in {"load", "check"}, Ping(s, dest), s \in {"ping", "reping"}
      PROVE RestoreInv'
  BY <1>3 DEF Ping, Answered, TimedOut
<1>4. CASE CheckStarted
  BY <1>4 DEF CheckStarted
<1>5. CASE find_active_irq_handlers
  BY <1>5 DEF find_active_irq_handlers
<1>6. CASE write_sev_stub_at
  BY <1>6 DEF write_sev_stub_at
<1>7. CASE Patch
  BY <1>7 DEF Patch
<1>8. CASE Trigger
  BY <1>8 DEF Trigger
<1>9. CASE Retry
  BY <1>9, <1>0 DEF Retry, Answered, TimedOut
<1>10. CASE Restore
  <2>1. host \in {"restore", "undo"} /\ next' = next + 1 /\ orig' = orig /\ kills' = kills
        /\ vec' = [vec EXCEPT ![next] = orig[next]]
    BY <1>10 DEF Restore
  <2>2. SUFFICES ASSUME kills = 0 PROVE RestoreInv'
    BY <2>1
  <2>3. \A i \in Irqs : orig[i] = Real(i) /\ (i < next => vec[i] = Real(i))
    BY <2>1, <2>2
  <2>4. \A i \in Irqs : i < next' => vec'[i] = Real(i)
    <3> TAKE i \in Irqs
    <3>1. CASE i = next
      BY <3>1, <1>0, <2>1, <2>3
    <3>2. CASE i # next
      BY <3>2, <1>0, <2>1, <2>3
    <3> QED BY <3>1, <3>2
  <2>5. host' \notin Hooked => next' > NIrqs
    BY <1>10, <1>0, <2>1 DEF Restore
  <2>6. host' \notin Hooked => \A i \in Irqs : vec'[i] = Real(i)
    BY <1>0, <2>1, <2>4, <2>5
  <2> QED BY <2>1, <2>3, <2>4, <2>6
<1>11. CASE Verify \/ End
  BY <1>11 DEF Verify, End
<1>12. CASE Core0 \/ Core1
  BY <1>12 DEF Core0, Core1, RunStub, RunHandler, TakeIrq, Entry, RunWild
<1>13. CASE Kill
  BY <1>0, <1>13 DEF Kill
<1> QED
  BY <1>1, <1>2, <1>3, <1>4, <1>5, <1>6, <1>7, <1>8, <1>9, <1>10, <1>11, <1>12,
     <1>13 DEF Next, launch_core1

\* A host program that is not killed leaves the vector table of Core 0 as it
\* found it, whether Core 1 started or not and whichever ioctl timed out.
THEOREM VectorsAreRestored == Spec => []VectorsRestored
<1>1. Init => RestoreInv
  BY DEF Init, RestoreInv, Hooked
<1>2. RestoreInv => VectorsRestored
  BY DEF RestoreInv, Hooked, VectorsRestored
<1>3. IInv /\ RestoreInv /\ [Next]_vars => RestoreInv'
  BY RestoreStep
<1> QED BY <1>1, <1>2, <1>3, InitInv, StepInv, PTL DEF Spec

-----------------------------------------------------------------------------

\* Steps after the release of Core 1, and those before it with the firmware
\* of this run in place.
Live   == {"reping", "check", "scan", "write", "patch", "trigger", "wait",
           "restore", "undo", "verify", "ok"}
Loaded == {"clear", "reset", "release"} \cup Live

\* From the load on the firmware is this run's, from the release on Core 1 can
\* start nothing else, and the steps a life sign leads to have seen it run.
HonestInv ==
  /\ host \in Loaded => fw = run
  /\ host \in Live => c1 \in {"wfe", "entry", "loop"} /\ (c1 # "wfe" => ran = run)
  /\ host \in {"restore", "verify", "ok"} => c1 = "loop"

LEMMA HonestStep == HonestInv /\ [Next]_vars => HonestInv'
<1> SUFFICES ASSUME HonestInv, [Next]_vars PROVE HonestInv'
  OBVIOUS
<1> USE DEF HonestInv, Live, Loaded, Goto, hostVars, sramVars, c1Vars
<1>1. CASE UNCHANGED vars
  BY <1>1 DEF vars
<1>2. CASE Start \/ load_firmware \/ clear_status
  BY <1>2 DEF Start, load_firmware, clear_status
<1>3. ASSUME NEW s, NEW dest \in {"load", "check"}, Ping(s, dest),
             (s = "ping" /\ dest = "load") \/ (s = "reping" /\ dest = "check")
      PROVE HonestInv'
  BY <1>3 DEF Ping, Answered, TimedOut
<1>4. CASE Reset \/ Release
  BY <1>4 DEF Reset, Release
<1>5. CASE CheckStarted
  BY <1>5 DEF CheckStarted, check_core1_alive
<1>6. CASE find_active_irq_handlers \/ write_sev_stub_at \/ Patch \/ Trigger
  BY <1>6 DEF find_active_irq_handlers, write_sev_stub_at, Patch, Trigger
<1>7. CASE Retry
  BY <1>7 DEF Retry, Answered, TimedOut, check_core1_alive
<1>8. CASE Restore
  BY <1>8 DEF Restore
<1>9. CASE Verify \/ End \/ Kill
  BY <1>9 DEF Verify, End, Kill, check_core1_alive
<1>10. CASE RunStub
  BY <1>10 DEF RunStub
<1>11. ASSUME NEW i \in Irqs, TakeIrq(i) PROVE HonestInv'
  BY <1>11 DEF TakeIrq
<1>12. CASE RunHandler \/ Entry \/ RunWild
  BY <1>12 DEF RunHandler, Entry, RunWild
<1> QED
  BY <1>1, <1>2, <1>3, <1>4, <1>5, <1>6, <1>7, <1>8, <1>9, <1>10, <1>11, <1>12
     DEF Next, launch_core1, Core0, Core1

\* Success is only reported for the firmware of this run, also when earlier
\* runs were killed and left Core 1 executing what is overwritten.
THEOREM LaunchesAreHonest == Spec => []LaunchHonest
<1>1. Init => HonestInv
  BY DEF Init, HonestInv, Live, Loaded
<1>2. HonestInv => LaunchHonest
  BY DEF HonestInv, Live, LaunchHonest
<1> QED BY <1>1, <1>2, HonestStep, PTL DEF Spec

=============================================================================
