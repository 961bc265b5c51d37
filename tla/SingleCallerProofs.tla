-------------------------- MODULE SingleCallerProofs --------------------------
(***************************************************************************)
(* What the driver keeps when its calls do not overlap, for every choice   *)
(* of failing calls: one process issues ioctls, but no self test, and      *)
(* starts SRAM sessions in the default direction only.                     *)
(***************************************************************************)
EXTENDS MCRp1PioSram, Rp1PioSramProofs

SingleSpec == Init /\ [][Next /\ SramBothWays]_vars

\* One process that issues no self test.
Single(c) == Callers = {c} /\ Calls \cap {"diag", "probe"} = {}

-----------------------------------------------------------------------------
(* What holds when the one handler that runs is h, at its step s, working  *)
(* on the directions x; h is "idle" when no handler runs.                  *)

Starting == {"start", "sram"}
Bring    == {"open", "noclient", "dreqTx", "dreqRx", "prep", "subTx", "subRx", "issTx",
             "issRx", "mark"}
Stopping == {"dreqTx", "dreqRx", "termTx", "termRx", "clear", "mark", "verify", "unmap"}
Leaving  == {"free", "release", "close"}

Place(h, s) ==
  \/ h = "idle" /\ s = ""
  \/ h \in Starting /\ s \in Bring
  \/ h = "sram" /\ s = "unmap"
  \/ h = "stop" /\ s \in Stopping
  \/ h = "setdir" /\ s \in Mode
  \/ h = "exit" /\ s \in Leaving

\* Session flags and the SRAM mapping.
Flags(h, s) ==
  /\ running => h = "idle" \/ (h = "stop" /\ s \notin {"verify", "unmap"})
  /\ h = "stop" /\ s \notin {"verify", "unmap"} => running
  /\ sramMode => h = "stop" \/ (h = "idle" /\ running)
  /\ sramMode \/ h = "sram" => sramIo # None /\ dirMode = "both"
  /\ maps = IF sramMode \/ h = "sram" THEN {sramIo} ELSE {}
  /\ ~loaded => h = "idle" /\ ~running
  /\ loaded /\ ~(h = "exit" /\ s \in {"release", "close"}) => "ring" \in allocated

\* START has submitted its descriptor of direction d; it has issued it; the
\* channel of a session runs until STOP terminates it.
Submitted(h, s, d) ==
  h \in Starting /\ (s = "issTx" \/ (d = "tx" /\ s = "subRx") \/ (d = "rx" /\ s = "issRx"))
Issued(h, s, d) == h \in Starting /\ (s = "mark" \/ (d = "tx" /\ s = "issRx"))
Live(h, s, d) ==
  \/ h = "idle" /\ running
  \/ h = "stop" /\ s \in {"dreqTx", "dreqRx", "termTx"}
  \/ h = "stop" /\ s = "termRx" /\ d = "rx"

\* The ring a START transfers.
Ring(h, d) ==
  IF h = "sram" THEN (IF d = "tx" THEN "sramTx" ELSE "sramRx")
  ELSE IF dirMode # "both" THEN "dramAll"
  ELSE IF d = "tx" THEN "dramTx" ELSE "dramRx"

\* The descriptors of direction d: the running one, and the submitted ones.
Engine(h, s, x, d) ==
  /\ act[d] = IF Issued(h, s, d) /\ d \in x THEN Ring(h, d)
              ELSE IF Live(h, s, d) /\ d \in SessionDirs THEN SessionArea(d)
              ELSE None
  /\ queue[d] = IF Submitted(h, s, d) /\ d \in x THEN {Ring(h, d)} ELSE {}

\* The directions a handler works on; whether a client is open.
Directed(h, s, x) ==
  /\ h = "start" => x = DirsOf(dirMode)
  /\ h \in {"sram", "stop"} => x = Dir
  /\ running => client # "null"
  /\ h \in Starting /\ s \in Bring \ {"open", "noclient"} => client # "null"

\* DREQ is on from its step of START to that of STOP.
Requests(h, s, x, d) ==
  /\ h \in Starting /\ d \in x /\ s \in Bring \ {"open", "noclient", "dreqTx"}
       /\ ~(d = "rx" /\ s = "dreqRx")
     => dreq[d]
  /\ h = "idle" /\ running /\ d \in SessionDirs => dreq[d]
  /\ "disable" \notin Faults /\ h = "stop" /\ d \in DirsOf(dirMode) /\ s # "dreqTx"
       /\ ~(d = "rx" /\ s = "dreqRx")
     => ~dreq[d]

\* What the counters have counted since their reset.
Counts(h, s, d) ==
  /\ h \in Starting /\ s \in {"subTx", "subRx", "issTx", "issRx", "mark"}
     => counted[d] \subseteq {Ring(h, d)}
  /\ h = "idle" /\ running => counted[d] \subseteq {SessionArea(d)}

\* Words are in the FIFOs only from the first issue to the clear of STOP.
Fresh(h, s) ==
  "clear" \notin Faults /\ dirty =>
    \/ h = "idle" /\ running
    \/ h = "stop" /\ s \in {"dreqTx", "dreqRx", "termTx", "termRx", "clear"}
    \/ h \in Starting /\ s \in {"issRx", "mark"}

Local(h, s, x) ==
  /\ Place(h, s) /\ Flags(h, s) /\ Directed(h, s, x) /\ Fresh(h, s)
  /\ \A d \in Dir : Engine(h, s, x, d) /\ Requests(h, s, x, d) /\ Counts(h, s, d)

\* Who runs which handler.
Role(p, h) ==
  /\ h \in {"start", "sram", "setdir"} => p # Rmmod
  /\ h = "exit" => p = Rmmod

Others(p) == \A q \in Procs \ {p} : pc[q] = Idle

SingleInv ==
  /\ \E p \in Procs : Others(p)
  /\ \A p \in Procs : Others(p) =>
       Local(pc[p][1], pc[p][2], do[p]) /\ Role(p, pc[p][1])

-----------------------------------------------------------------------------
(* From the invariant to the handler that runs, and back.                  *)

LEMMA Names ==
  /\ "tx" \in Dir /\ "rx" \in Dir /\ \A d \in Dir : d = "tx" \/ d = "rx"
  /\ \A m \in Mode : m = "both" \/ m = "tx" \/ m = "rx"
BY DEF Dir, Mode

LEMMA IdleParts == Idle[1] = "idle" /\ Idle[2] = ""
BY DEF Idle

\* The process that runs a handler is alone.
LEMMA Active ==
  ASSUME SingleInv, NEW p \in Procs, NEW h, NEW s, h # "idle", At(p, h, s)
  PROVE  Others(p) /\ Local(h, s, do[p]) /\ Role(p, h)
<1>1. PICK q \in Procs : Others(q)
  BY DEF SingleInv
<1>2. pc[p] = <<h, s>> /\ pc[p][1] = h /\ pc[p][2] = s
  BY DEF At
<1>3. pc[p] # Idle
  BY <1>2, IdleParts
<1>4. q = p
  BY <1>1, <1>3 DEF Others
<1> QED BY <1>1, <1>2, <1>4 DEF SingleInv

\* Between handlers no process works on directions.
LEMMA IdleLocal ==
  \A x, y : Local("idle", "", x) => Local("idle", "", y)
BY DEF Local, Place, Flags, Directed, Fresh, Engine, Requests, Counts, Starting,
       Issued, Submitted, Live

LEMMA Resting ==
  ASSUME SingleInv, Quiet
  PROVE  Local("idle", "", {})
<1>1. PICK q \in Procs : Others(q)
  BY DEF SingleInv
<1>2. pc[q] = Idle /\ pc[q][1] = "idle" /\ pc[q][2] = ""
  BY IdleParts DEF Quiet
<1> QED BY <1>1, <1>2, IdleLocal DEF SingleInv

\* The handler goes on, or begins.
LEMMA Moves ==
  ASSUME TypeOK, NEW p \in Procs, Others(p), NEW h, NEW s, h # "idle",
         pc' = [pc EXCEPT ![p] = <<h, s>>], Role(p, h), Local(h, s, do[p])'
  PROVE  SingleInv'
<1>0. pc'[p] = <<h, s>>
  BY DEF TypeOK
<1>1. pc'[p][1] = h /\ pc'[p][2] = s
  BY <1>0
<1>4. pc'[p] # Idle
  BY <1>1, IdleParts
<1>2. Others(p)'
  BY DEF TypeOK, Others
<1>3. ASSUME NEW q \in Procs, Others(q)' PROVE q = p
  BY <1>3, <1>4 DEF Others
<1> QED BY <1>1, <1>2, <1>3 DEF SingleInv, Procs, Role

\* The handler returns.
LEMMA Returns ==
  ASSUME TypeOK, NEW p \in Procs, Others(p), Return(p), Local("idle", "", {})'
  PROVE  SingleInv'
<1>1. \A q \in Procs : pc'[q] = Idle /\ pc'[q][1] = "idle" /\ pc'[q][2] = ""
  BY IdleParts DEF TypeOK, Return, Others
<1>2. \A q \in Procs : Others(q)'
  BY <1>1 DEF Others
<1>3. \A q \in Procs : Local("idle", "", do[q])'
  BY DEF Local, Place, Flags, Directed, Fresh, Engine, Requests, Counts, Starting,
         Issued, Submitted, Live
<1> QED BY <1>1, <1>2, <1>3 DEF SingleInv, Procs, Role

\* Nobody moves.
LEMMA Stays ==
  ASSUME SingleInv, UNCHANGED <<pc, do>>,
         \A h, s, x : Local(h, s, x) => Local(h, s, x)'
  PROVE  SingleInv'
BY DEF SingleInv, Others, Role, Procs

-----------------------------------------------------------------------------
(* What a step may do to the channels: DmaSession allows it, and DREQ is   *)
(* off for a channel that is terminated.                                   *)

DreqOff == \A d \in Dir : act[d] # None /\ act'[d] = None => ~dreq[d]

SessionStep ==
  /\ [Session!Next]_(Session!vars)
  /\ "disable" \notin Faults => DreqOff

Kept == SingleInv' /\ SessionStep

\* The session and the channels as they were.
LEMMA Stutters ==
  ASSUME act' = act, dirMode' = dirMode, running' = running, sramMode' = sramMode
  PROVE  SessionStep
<1>1. UNCHANGED Session!vars
  BY DEF Session!vars
<1>2. DreqOff
  BY DEF DreqOff
<1> QED BY <1>1, <1>2 DEF SessionStep

\* A failing START leaves both channels without a descriptor.
LEMMA Fails ==
  ASSUME SingleInv, TypeOK, TypeOK', NEW p \in Callers, NEW h \in Starting, NEW s,
         At(p, h, s), s \in Bring \ {"issTx", "issRx", "mark"},
         Fail(p, h), \A d \in Dir : act'[d] = None /\ queue'[d] = {}, dirty' = dirty,
         UNCHANGED <<loaded, running, dirMode, sramMode, sramIo, maps, allocated>>
  PROVE  SingleInv'
<1>0. h # "idle" /\ p \in Procs /\ p # Rmmod /\ Role(p, "sram")
  BY ProcsAssumption DEF Starting, Procs, Role
<1>1. Others(p) /\ Local(h, s, do[p])
  BY <1>0, Active
<1>2. ~running /\ ~sramMode /\ Flags(h, s) /\ loaded
  BY <1>1 DEF Local, Flags, Starting
<1>3. "clear" \notin Faults => ~dirty
  BY <1>1 DEF Local, Fresh, Starting, Bring
<1>4. CASE h = "start"
  <2>1. Local("idle", "", {})'
    BY <1>1, <1>2, <1>3, <1>4
       DEF Local, Place, Flags, Directed, Fresh, Engine, Requests, Counts, Starting, Issued,
           Submitted, Live
  <2> QED BY <1>0, <1>1, <1>4, <2>1, Returns DEF Fail
<1>5. CASE h = "sram"
  <2>1. pc' = [pc EXCEPT ![p] = <<"sram", "unmap">>] /\ do' = do
    BY <1>5 DEF Fail, Goto
  <2>2. do[p] = Dir
    BY <1>1, <1>5 DEF Local, Directed
  <2>3. Local("sram", "unmap", do[p])'
    BY <1>1, <1>2, <1>3, <1>5, <2>1, <2>2
       DEF Local, Place, Flags, Directed, Fresh, Engine, Requests, Counts, Starting, Issued,
           Submitted, Live, Bring
  <2> QED BY <1>0, <1>1, <2>1, <2>3, Moves
<1> QED BY <1>4, <1>5 DEF Starting

-----------------------------------------------------------------------------
(* The bring-up sequence of the two starts.                                *)

\* What a step of START knows and has to show.
LEMMA Starter ==
  ASSUME SingleInv, TypeOK, NEW p \in Callers, NEW h \in Starting, NEW s \in Bring, At(p, h, s)
  PROVE  /\ h # "idle" /\ p \in Procs /\ p # Rmmod
         /\ Others(p) /\ Local(h, s, do[p])
         /\ ~running /\ ~sramMode /\ loaded /\ do[p] = DirsOf(dirMode)
<1>1. h # "idle" /\ p \in Procs /\ p # Rmmod
  BY ProcsAssumption DEF Starting, Procs
<1>2. Others(p) /\ Local(h, s, do[p])
  BY <1>1, Active
<1>3. h \notin {"idle", "stop"} /\ (h = "start" \/ h = "sram")
  BY DEF Starting
<1>4. ~running /\ ~sramMode /\ loaded
  BY <1>2, <1>3 DEF Local, Flags
<1>5. do[p] = DirsOf(dirMode)
  BY <1>2, <1>3 DEF Local, Directed, Flags, DirsOf
<1> QED BY <1>1, <1>2, <1>4, <1>5

LEMMA StarterMoves ==
  ASSUME SingleInv, TypeOK, NEW p \in Callers, NEW h \in Starting, NEW s \in Bring, At(p, h, s),
         NEW t, Goto(p, h, t), Local(h, t, do[p])'
  PROVE  SingleInv'
<1>1. pc' = [pc EXCEPT ![p] = <<h, t>>] /\ Role(p, h) /\ p \in Procs
  BY Starter DEF Goto, Role, Starting
<1> QED BY <1>1, Starter, Moves

\* Before its first submit a START has no descriptor.
LEMMA NothingYet ==
  ASSUME SingleInv, TypeOK, NEW p \in Callers, NEW h \in Starting, NEW s, At(p, h, s),
         s \in {"open", "noclient", "dreqTx", "dreqRx", "prep", "subTx"}
  PROVE  \A d \in Dir : act[d] = None /\ queue[d] = {}
<1>1. s \in Bring
  BY DEF Bring
<1>2. Local(h, s, do[p]) /\ h # "idle"
  BY <1>1, Starter
<1>3. ASSUME NEW d \in Dir PROVE act[d] = None /\ queue[d] = {}
  <2>1. Engine(h, s, do[p], d)
    BY <1>2 DEF Local
  <2>2. ~Issued(h, s, d) /\ ~Submitted(h, s, d) /\ ~Live(h, s, d)
    BY <1>2 DEF Issued, Submitted, Live, Starting
  <2> QED BY <2>1, <2>2 DEF Engine
<1> QED BY <1>3

LEMMA OpenKept ==
  ASSUME SingleInv, TypeOK, TypeOK', NEW p \in Callers, NEW h \in Starting, OpenClient(p, h)
  PROVE  Kept
<1> USE DEF drvVars, memVars, dmaVars, hwVars
<1>0. At(p, h, "open") /\ "open" \in Bring
  BY DEF OpenClient, Bring
<1>1. SessionStep
  BY Stutters DEF OpenClient
<1>2. CASE client # "null" /\ Goto(p, h, "dreqTx") /\ UNCHANGED client
  <2>1. Local(h, "dreqTx", do[p])'
    BY <1>0, <1>2, Starter
       DEF OpenClient, Goto, Local, Place, Flags, Directed, Fresh, Engine, Requests, Counts,
           Starting, Issued, Submitted, Live, Bring
  <2> QED BY <1>0, <1>1, <1>2, <2>1, StarterMoves DEF Kept
<1>3. CASE client = "null" /\ client' = "open" /\ Goto(p, h, "dreqTx")
  <2>1. Local(h, "dreqTx", do[p])'
    BY <1>0, <1>3, Starter
       DEF OpenClient, Goto, Local, Place, Flags, Directed, Fresh, Engine, Requests, Counts,
           Starting, Issued, Submitted, Live, Bring
  <2> QED BY <1>0, <1>1, <1>3, <2>1, StarterMoves DEF Kept
<1>4. CASE client = "null" /\ client' = "err" /\ Goto(p, h, "noclient")
  <2>1. Local(h, "noclient", do[p])'
    BY <1>0, <1>4, Starter
       DEF OpenClient, Goto, Local, Place, Flags, Directed, Fresh, Engine, Requests, Counts,
           Starting, Issued, Submitted, Live, Bring
  <2> QED BY <1>0, <1>1, <1>4, <2>1, StarterMoves DEF Kept
<1>5. CASE Fail(p, h)
  <2>1. \A d \in Dir : act[d] = None /\ queue[d] = {}
    BY <1>0, NothingYet
  <2> QED BY <1>0, <1>1, <1>5, <2>1, Fails DEF OpenClient, Kept
<1> QED BY <1>2, <1>3, <1>4, <1>5 DEF OpenClient

LEMMA NoClientKept ==
  ASSUME SingleInv, TypeOK, TypeOK', NEW p \in Callers, NEW h \in Starting, NoClient(p, h)
  PROVE  Kept
<1> USE DEF drvVars, memVars, dmaVars, hwVars
<1>0. At(p, h, "noclient") /\ "noclient" \in Bring
  BY DEF NoClient, Bring
<1>1. SessionStep
  BY Stutters DEF NoClient
<1>2. \A d \in Dir : act[d] = None /\ queue[d] = {}
  BY <1>0, NothingYet
<1> QED BY <1>0, <1>1, <1>2, Fails DEF NoClient, Kept

LEMMA EnableKept ==
  ASSUME SingleInv, TypeOK, TypeOK', NEW p \in Callers, NEW h \in Starting, NEW d, NEW s, NEW t,
         \/ d = "tx" /\ s = "dreqTx" /\ t = "dreqRx"
         \/ d = "rx" /\ s = "dreqRx" /\ t = "prep",
         EnableDreq(p, h, d, s, t)
  PROVE  Kept
<1> USE DEF drvVars, memVars, dmaVars, hwVars
<1>0. At(p, h, s) /\ s \in Bring /\ t \in Bring
  BY DEF EnableDreq, Bring
<1>1. SessionStep
  BY Stutters DEF EnableDreq
<1>2. CASE /\ Goto(p, h, t)
            /\ \/ d \notin do[p] /\ dreq' = dreq
               \/ d \in do[p] /\ dreq' = [dreq EXCEPT ![d] = TRUE]
  <2>1. Place(h, t)' /\ Flags(h, t)' /\ Directed(h, t, do[p])' /\ Fresh(h, t)'
    BY <1>0, <1>2, Starter
       DEF EnableDreq, SetDmactrl, Goto, Local, Place, Flags, Directed, Fresh, Starting, Bring
  <2>2. ASSUME NEW e \in Dir PROVE Engine(h, t, do[p], e)'
    BY <1>0, <1>2, NothingYet
       DEF EnableDreq, SetDmactrl, Goto, Engine, Starting, Issued, Submitted, Live
  <2>3. ASSUME NEW e \in Dir PROVE Counts(h, t, e)'
    BY DEF Counts, Starting
  <2>4. ASSUME NEW e \in Dir PROVE Requests(h, t, do[p], e)'
    <3>1. Requests(h, s, do[p], e) /\ ~running /\ h \notin {"idle", "stop"}
      BY <1>0, Starter DEF Local, Starting
    <3>2. do' = do /\ running' = running /\ dreq \in [Dir -> BOOLEAN] /\ h \in Starting
          /\ \/ d \notin do[p] /\ dreq' = dreq
             \/ d \in do[p] /\ dreq' = [dreq EXCEPT ![d] = TRUE]
      BY <1>2 DEF EnableDreq, Goto, TypeOK
    <3> QED BY <3>1, <3>2, Names DEF Requests, Bring
  <2>5. Local(h, t, do[p])'
    BY <2>1, <2>2, <2>3, <2>4 DEF Local
  <2> QED BY <1>0, <1>1, <1>2, <2>5, StarterMoves DEF Kept
<1>3. CASE Fail(p, h)
  BY <1>0, <1>1, <1>3, NothingYet, Fails DEF EnableDreq, SetDmactrl, Kept
<1> QED BY <1>2, <1>3 DEF EnableDreq, SetDmactrl, Checked, Starting

LEMMA PrepKept ==
  ASSUME SingleInv, TypeOK, TypeOK', NEW p \in Callers, NEW h \in Starting, PrepAndReset(p, h)
  PROVE  Kept
<1> USE DEF drvVars, memVars, dmaVars, hwVars
<1>0. At(p, h, "prep") /\ "prep" \in Bring
  BY DEF PrepAndReset, Bring
<1>1. SessionStep
  BY Stutters DEF PrepAndReset
<1>2. CASE counted' = [d \in Dir |-> {}] /\ Goto(p, h, "subTx")
  <2>1. Local(h, "subTx", do[p])'
    BY <1>0, <1>2, Starter
       DEF PrepAndReset, Goto, Local, Place, Flags, Directed, Fresh, Engine, Requests, Counts,
           Starting, Issued, Submitted, Live, Bring
  <2> QED BY <1>0, <1>1, <1>2, <2>1, StarterMoves DEF Kept
<1>3. CASE Fail(p, h)
  BY <1>0, <1>1, <1>3, NothingYet, Fails DEF PrepAndReset, Kept
<1> QED BY <1>2, <1>3 DEF PrepAndReset

\* The area a START submits is the ring of its directions.
LEMMA RingOf ==
  ASSUME SingleInv, TypeOK, NEW p \in Callers, NEW h \in Starting, NEW s \in Bring, At(p, h, s),
         NEW d \in Dir
  PROVE  Area(h, p, d) = Ring(h, d)
<1>1. do[p] = DirsOf(dirMode) /\ dirMode \in Mode
  BY Starter DEF TypeOK
<1>2. do[p] = Dir <=> dirMode = "both"
  BY <1>1 DEF DirsOf, Mode, Dir
<1> QED BY <1>2 DEF Area, Ring, Starting

\* The parts of Local a step of the channels leaves alone.
LEMMA RestKept ==
  ASSUME SingleInv, TypeOK, TypeOK', NEW p \in Callers, NEW h \in Starting,
         NEW s \in {"subTx", "subRx", "issTx", "issRx"}, At(p, h, s), NEW t,
         t \in {"subRx", "issTx", "issRx", "mark"}, s = "issRx" => t = "mark",
         Goto(p, h, t), UNCHANGED <<drvVars, memVars, dreq, counted, dirty>>,
         \A d \in Dir : Engine(h, t, do[p], d)'
  PROVE  SingleInv'
<1> USE DEF drvVars, memVars
<1>0. s \in Bring /\ t \in Bring /\ do' = do
  BY DEF Bring, Goto
<1>1. Local(h, s, do[p]) /\ ~running /\ h \notin {"idle", "stop"}
  BY <1>0, Starter DEF Starting
<1>2. Place(h, t)' /\ Flags(h, t)'
  BY <1>0, <1>1 DEF Local, Place, Flags, Starting
<1>3. Directed(h, t, do[p])' /\ Fresh(h, t)'
  BY <1>0, <1>1 DEF Local, Directed, Fresh, Starting
<1>4. ASSUME NEW d \in Dir PROVE Requests(h, t, do[p], d)' /\ Counts(h, t, d)'
  BY <1>0, <1>1 DEF Local, Requests, Counts, Ring
<1>5. Local(h, t, do[p])'
  BY <1>2, <1>3, <1>4 DEF Local
<1> QED BY <1>0, <1>5, StarterMoves

LEMMA SubmitTxKept ==
  ASSUME SingleInv, TypeOK, TypeOK', NEW p \in Callers, NEW h \in Starting, SubmitTx(p, h)
  PROVE  Kept
<1> USE DEF drvVars, memVars, dmaVars, hwVars
<1>0. At(p, h, "subTx") /\ "subTx" \in Bring
  BY DEF SubmitTx, Bring
<1>1. SessionStep
  BY Stutters DEF SubmitTx, Submit
<1>2. Local(h, "subTx", do[p]) /\ ~running /\ h \notin {"idle", "stop"}
  BY <1>0, Starter DEF Starting
<1>3. \A d \in Dir : act[d] = None /\ queue[d] = {}
  BY <1>0, NothingYet
<1>4. CASE Goto(p, h, "subRx") /\ act' = act
           /\ \/ "tx" \notin do[p] /\ queue' = queue
              \/ "tx" \in do[p] /\ queue' = [queue EXCEPT !["tx"] = @ \cup {Ring(h, "tx")}]
  <2>1. ASSUME NEW d \in Dir PROVE Engine(h, "subRx", do[p], d)'
    <3>1. do' = do /\ running' = running /\ dirMode' = dirMode
      BY <1>4 DEF SubmitTx, Goto
    <3>2. act'[d] = None
      BY <1>3, <1>4
    <3>3. queue'[d] = IF d = "tx" /\ d \in do[p] THEN {Ring(h, d)} ELSE {}
      BY <1>3, <1>4, Names DEF TypeOK
    <3>4. ~Issued(h, "subRx", d) /\ ~Live(h, "subRx", d)' /\ (Submitted(h, "subRx", d) <=> d = "tx")
      BY <1>2 DEF Issued, Live, Submitted
    <3> QED BY <3>1, <3>2, <3>3, <3>4 DEF Engine, Ring, Issued, Submitted
  <2> QED BY <1>0, <1>1, <1>4, <2>1, RestKept DEF SubmitTx, Kept
<1>5. CASE Fail(p, h) /\ UNCHANGED dmaVars
  BY <1>0, <1>1, <1>3, <1>5, Fails DEF SubmitTx, Kept
<1> QED BY <1>0, <1>4, <1>5, RingOf, Names DEF SubmitTx, Submit, Checked, Starting

LEMMA SubmitRxKept ==
  ASSUME SingleInv, TypeOK, TypeOK', NEW p \in Callers, NEW h \in Starting, SubmitRx(p, h)
  PROVE  Kept
<1> USE DEF drvVars, memVars, dmaVars, hwVars
<1>0. At(p, h, "subRx") /\ "subRx" \in Bring
  BY DEF SubmitRx, Bring
<1>2. Local(h, "subRx", do[p]) /\ ~running /\ h \notin {"idle", "stop"}
  BY <1>0, Starter DEF Starting
<1>3. ASSUME NEW d \in Dir
      PROVE  act[d] = None /\ queue[d] = IF d = "tx" /\ d \in do[p] THEN {Ring(h, d)} ELSE {}
  <2>1. ~Issued(h, "subRx", d) /\ ~Live(h, "subRx", d) /\ (Submitted(h, "subRx", d) <=> d = "tx")
    BY <1>2 DEF Issued, Live, Submitted
  <2>2. Engine(h, "subRx", do[p], d)
    BY <1>2 DEF Local
  <2> QED BY <2>1, <2>2 DEF Engine
<1>4. CASE Goto(p, h, "issTx") /\ act' = act
           /\ \/ "rx" \notin do[p] /\ queue' = queue
              \/ "rx" \in do[p] /\ queue' = [queue EXCEPT !["rx"] = @ \cup {Ring(h, "rx")}]
  <2>1. ASSUME NEW d \in Dir PROVE Engine(h, "issTx", do[p], d)'
    <3>1. do' = do /\ running' = running /\ dirMode' = dirMode
      BY <1>4 DEF SubmitRx, Goto
    <3>2. act'[d] = None
      BY <1>3, <1>4
    <3>3. queue'[d] = IF d \in do[p] THEN {Ring(h, d)} ELSE {}
      BY <1>3, <1>4, Names DEF TypeOK
    <3>4. ~Issued(h, "issTx", d) /\ ~Live(h, "issTx", d)' /\ Submitted(h, "issTx", d)
      BY <1>2 DEF Issued, Live, Submitted
    <3> QED BY <3>1, <3>2, <3>3, <3>4 DEF Engine, Ring, Issued, Submitted
  <2>2. SessionStep
    BY <1>4, Stutters DEF SubmitRx
  <2> QED BY <1>0, <1>4, <2>1, <2>2, RestKept DEF SubmitRx, Kept
<1>5. CASE Fail(p, h) /\ TerminateIf("tx" \in do[p], "tx")
  <2>1. \A d \in Dir : act'[d] = None /\ queue'[d] = {}
    BY <1>3, <1>5, Names DEF TerminateIf, Terminate, TypeOK
  <2>2. act' = act
    BY <1>3, <2>1 DEF TypeOK
  <2>3. SessionStep
    BY <2>2, Stutters DEF SubmitRx
  <2> QED BY <1>0, <1>5, <2>1, <2>3, Fails DEF SubmitRx, Kept, Bring
<1> QED BY <1>0, <1>4, <1>5, RingOf, Names DEF SubmitRx, Submit, Checked, Starting

\* One submitted descriptor starts, and DmaSession arms its direction.
LEMMA Arms ==
  ASSUME TypeOK, NEW d \in Dir, act[d] = None, NEW a, a # None, act' = [act EXCEPT ![d] = a],
         ~running, UNCHANGED <<running, dirMode, sramMode>>
  PROVE  SessionStep
<1>1. DreqOff
  BY DEF DreqOff, TypeOK
<1>2. {e \in Dir : act'[e] # None} = {e \in Dir : act[e] # None} \cup {d}
  BY DEF TypeOK
<1>3. Session!Arm(d)
  BY <1>2 DEF Session!Arm
<1>4. Session!Next
  BY <1>3 DEF Session!Next, Session!Direction, Dir
<1> QED BY <1>1, <1>4 DEF SessionStep

LEMMA IssueKept ==
  ASSUME SingleInv, TypeOK, TypeOK', NEW p \in Callers, NEW h \in Starting, NEW d, NEW s, NEW t,
         \/ d = "tx" /\ s = "issTx" /\ t = "issRx"
         \/ d = "rx" /\ s = "issRx" /\ t = "mark",
         Issue(p, h, d, s, t)
  PROVE  Kept
<1> USE DEF drvVars, memVars, dmaVars, hwVars
<1>0. At(p, h, s) /\ s \in Bring /\ Goto(p, h, t) /\ d \in Dir
  BY Names DEF Issue, Bring
<1>2. Local(h, s, do[p]) /\ ~running /\ h \notin {"idle", "stop"} /\ h \in Starting
  BY <1>0, Starter DEF Starting
<1>3. ASSUME NEW e \in Dir
      PROVE  /\ act[e] = IF d = "rx" /\ e = "tx" /\ e \in do[p] THEN Ring(h, e) ELSE None
             /\ queue[e] = IF (d = "tx" \/ e = "rx") /\ e \in do[p] THEN {Ring(h, e)} ELSE {}
  <2>1. /\ ~Live(h, s, e)
        /\ Issued(h, s, e) <=> d = "rx" /\ e = "tx"
        /\ Submitted(h, s, e) <=> d = "tx" \/ e = "rx"
    BY <1>2, Names DEF Issued, Live, Submitted
  <2>2. Engine(h, s, do[p], e)
    BY <1>2 DEF Local
  <2> QED BY <2>1, <2>2 DEF Engine
<1>4. Ring(h, d) # None
  BY DEF Ring, None
<1>5. IF d \in do[p]
      THEN /\ act' = [act EXCEPT ![d] = Ring(h, d)]
           /\ queue' = [queue EXCEPT ![d] = {}]
      ELSE act' = act /\ queue' = queue
  <2>1. CASE d \in do[p]
    <3>1. act[d] = None /\ queue[d] = {Ring(h, d)}
      BY <1>0, <1>3, <2>1
    <3>2. PICK a \in queue[d] : /\ act' = [act EXCEPT ![d] = a]
                                /\ queue' = [queue EXCEPT ![d] = @ \ {a}]
      BY <2>1, <3>1 DEF Issue, IssuePending
    <3>3. a = Ring(h, d) /\ queue[d] \ {a} = {}
      BY <3>1
    <3> QED BY <1>0, <2>1, <3>2, <3>3 DEF TypeOK
  <2>2. CASE d \notin do[p]
    BY <2>2 DEF Issue
  <2> QED BY <2>1, <2>2
<1>6. ASSUME NEW e \in Dir PROVE Engine(h, t, do[p], e)'
  <2>1. do' = do /\ running' = running /\ dirMode' = dirMode
    BY <1>0 DEF Issue, Goto
  <2>2. act'[e] = IF (d = "rx" \/ e = "tx") /\ e \in do[p] THEN Ring(h, e) ELSE None
    BY <1>0, <1>3, <1>5, Names DEF TypeOK
  <2>3. queue'[e] = IF d = "tx" /\ e = "rx" /\ e \in do[p] THEN {Ring(h, e)} ELSE {}
    BY <1>0, <1>3, <1>5, Names DEF TypeOK
  <2>4. /\ ~Live(h, t, e)'
        /\ Issued(h, t, e) <=> d = "rx" \/ e = "tx"
        /\ Submitted(h, t, e) <=> d = "tx" /\ e = "rx"
    BY <1>2, <2>1, Names DEF Issued, Live, Submitted
  <2> QED BY <2>1, <2>2, <2>3, <2>4 DEF Engine, Ring, Issued, Submitted
<1>7. SessionStep
  <2>1. UNCHANGED <<running, dirMode, sramMode>>
    BY DEF Issue
  <2>2. CASE d \in do[p]
    <3>1. act[d] = None
      BY <1>0, <1>3
    <3> QED BY <1>0, <1>2, <1>4, <1>5, <2>1, <2>2, <3>1, Arms
  <2>3. CASE d \notin do[p]
    BY <1>5, <2>1, <2>3, Stutters
  <2> QED BY <2>2, <2>3
<1> QED BY <1>0, <1>6, <1>7, RestKept DEF Issue, Kept

LEMMA BringUpKept ==
  ASSUME SingleInv, TypeOK, TypeOK', NEW p \in Callers, NEW h \in Starting, BringUp(p, h, "mark")
  PROVE  Kept
BY OpenKept, NoClientKept, EnableKept, PrepKept, SubmitTxKept, SubmitRxKept, IssueKept
   DEF BringUp

-----------------------------------------------------------------------------
(* How the starts begin and end.                                           *)

\* With one caller a handler is only entered when none runs.
LEMMA Enters ==
  ASSUME SingleInv, NEW c, Callers = {c}, NEW p \in Callers, pc[p] = Idle, pc[Rmmod] = Idle
  PROVE  p \in Procs /\ p # Rmmod /\ Local("idle", "", {}) /\ Others(p)
<1>1. p \in Procs /\ p # Rmmod
  BY ProcsAssumption DEF Procs
<1>2. Quiet
  BY DEF Quiet, Procs
<1> QED BY <1>1, <1>2, Resting DEF Quiet, Others

LEMMA StartEntryKept ==
  ASSUME SingleInv, TypeOK, TypeOK', NEW c, Callers = {c}, NEW p, StartEntry(p)
  PROVE  Kept
<1> USE DEF drvVars, memVars, dmaVars, hwVars
<1>1. /\ p \in Callers /\ pc[p] = Idle /\ pc[Rmmod] = Idle /\ loaded
      /\ pc' = [pc EXCEPT ![p] = <<"start", "open">>] /\ do' = [do EXCEPT ![p] = DirsOf(dirMode)]
  BY DEF StartEntry, Enter
<1>2. p \in Procs /\ p # Rmmod /\ Local("idle", "", {}) /\ Others(p) /\ do'[p] = DirsOf(dirMode)
  BY <1>1, Enters DEF TypeOK, Procs
<1>3. Local("start", "open", do[p])'
  BY <1>1, <1>2
     DEF StartEntry, Local, Place, Flags, Directed, Fresh, Engine, Requests, Counts, Starting,
         Issued, Submitted, Live, Bring
<1>4. Role(p, "start")
  BY <1>2 DEF Role
<1>5. SingleInv'
  BY <1>1, <1>2, <1>3, <1>4, Moves
<1> QED BY <1>5, Stutters DEF StartEntry, Kept

LEMMA SramEntryKept ==
  ASSUME SingleInv, TypeOK, TypeOK', NEW c, Callers = {c}, NEW p, SramEntry(p), dirMode = "both"
  PROVE  Kept
<1> USE DEF drvVars, memVars, dmaVars, hwVars
<1>1. /\ p \in Callers /\ pc[p] = Idle /\ pc[Rmmod] = Idle /\ loaded
      /\ pc' = [pc EXCEPT ![p] = <<"sram", "open">>] /\ do' = [do EXCEPT ![p] = Dir]
  BY DEF SramEntry, Enter
<1>2. p \in Procs /\ p # Rmmod /\ Local("idle", "", {}) /\ Others(p) /\ do'[p] = Dir
  BY <1>1, Enters DEF TypeOK, Procs
<1>3. maps = {} /\ ~running
  BY <1>1, <1>2 DEF SramEntry, Local, Flags
<1>4. sramIo' # None /\ maps' = {sramIo'}
  BY <1>3, MapAssumption DEF SramEntry
<1>5. Local("sram", "open", do[p])'
  BY <1>1, <1>2, <1>3, <1>4
     DEF SramEntry, Local, Place, Flags, Directed, Fresh, Engine, Requests, Counts, Starting,
         Issued, Submitted, Live, Bring
<1>6. Role(p, "sram")
  BY <1>2 DEF Role
<1>7. SingleInv'
  BY <1>1, <1>2, <1>5, <1>6, Moves
<1> QED BY <1>7, Stutters DEF SramEntry, Kept

\* A START that has issued its descriptors opens a session on them.
LEMMA MarkKept ==
  ASSUME SingleInv, TypeOK, TypeOK', NEW p \in Callers, NEW h \in Starting, At(p, h, "mark"),
         running' = TRUE, sramMode' = (h = "sram"), Return(p),
         UNCHANGED <<loaded, dirMode, sramIo, client, verify, memVars, hwVars>>
  PROVE  Kept
<1> USE DEF memVars, hwVars
<1>0. "mark" \in Bring
  BY DEF Bring
<1>1. Local(h, "mark", do[p]) /\ Others(p) /\ ~running /\ ~sramMode /\ loaded
      /\ do[p] = DirsOf(dirMode) /\ p \in Procs
  BY <1>0, Starter
<1>2. running' /\ (sramMode' <=> h = "sram") /\ (h = "start" \/ h = "sram")
  BY DEF Starting
<1>3. h = "sram" => dirMode = "both"
  BY <1>1 DEF Local, Flags
<1>4. ASSUME NEW d \in Dir
      PROVE  /\ d \in SessionDirs' <=> d \in do[p]
             /\ d \in do[p] => SessionArea(d)' = Ring(h, d)
             /\ counted[d] \subseteq {Ring(h, d)} /\ Ring(h, d) = SessionArea(d)'
             /\ d \in do[p] => dreq[d]
             /\ act[d] = IF d \in do[p] THEN Ring(h, d) ELSE None
             /\ queue[d] = {}
  <2>1. d \in SessionDirs' <=> d \in do[p]
    BY <1>1, <1>2, <1>3 DEF SessionDirs, DirsOf
  <2>2. SessionArea(d)' = Ring(h, d)
    BY <1>2 DEF SessionArea, Ring
  <2>3. counted[d] \subseteq {Ring(h, d)} /\ (d \in do[p] => dreq[d])
    BY <1>1 DEF Local, Counts, Requests, Bring
  <2>4. Engine(h, "mark", do[p], d)
    BY <1>1 DEF Local
  <2>5. Issued(h, "mark", d) /\ ~Submitted(h, "mark", d) /\ ~Live(h, "mark", d)
    BY <1>2 DEF Issued, Submitted, Live, Starting
  <2> QED BY <2>1, <2>2, <2>3, <2>4, <2>5 DEF Engine
<1>5. Place("idle", "")' /\ Flags("idle", "")' /\ Fresh("idle", "")' /\ Directed("idle", "", {})'
  BY <1>1, <1>2 DEF Local, Place, Flags, Fresh, Directed, Starting, Bring
<1>6. ASSUME NEW d \in Dir
      PROVE  Engine("idle", "", {}, d)' /\ Requests("idle", "", {}, d)' /\ Counts("idle", "", d)'
  <2>1. ~Issued("idle", "", d) /\ ~Submitted("idle", "", d) /\ Live("idle", "", d)'
    BY <1>2 DEF Issued, Submitted, Live, Starting
  <2> QED BY <1>2, <1>4, <2>1 DEF Engine, Requests, Counts, Starting, Issued, Submitted
<1>7. SingleInv'
  <2>1. Local("idle", "", {})'
    BY <1>5, <1>6 DEF Local
  <2> QED BY <1>1, <2>1, Returns
<1>8. [Session!Next]_(Session!vars)
  <2>1. {d \in Dir : act[d] # None} = do[p]
    <3>1. \A d \in Dir : Ring(h, d) # None
      BY DEF Ring, None
    <3> QED BY <1>1, <1>4, <3>1 DEF TypeOK
  <2>2. PICK k \in {"dram", "sram"} : k = (IF h = "sram" THEN "sram" ELSE "dram")
    OBVIOUS
  <2>3. do[p] = Session!Wanted(k)
    BY <1>1, <1>3, <2>2 DEF Session!Wanted, Session!Direction, DirsOf, Dir
  <2>4. Session!Open(k)
    BY <1>1, <1>2, <2>1, <2>2, <2>3 DEF Session!Open
  <2> QED BY <2>4 DEF Session!Next
<1>9. DreqOff
  BY DEF DreqOff
<1> QED BY <1>7, <1>8, <1>9 DEF Kept, SessionStep

LEMMA SramUnmapKept ==
  ASSUME SingleInv, TypeOK, TypeOK', NEW p \in Callers, SramUnmap(p)
  PROVE  Kept
<1> USE DEF memVars, hwVars
<1>1. At(p, "sram", "unmap") /\ p \in Procs
  BY DEF SramUnmap, Procs
<1>2. Others(p) /\ Local("sram", "unmap", do[p])
  BY <1>1, Active
<1>3. Local("idle", "", {})'
  BY <1>2
     DEF SramUnmap, Local, Place, Flags, Directed, Fresh, Engine, Requests, Counts, Starting,
         Issued, Submitted, Live, Bring
<1>4. SingleInv'
  BY <1>1, <1>2, <1>3, Returns DEF SramUnmap
<1> QED BY <1>4, Stutters DEF SramUnmap, Kept

LEMMA StartKept ==
  ASSUME SingleInv, TypeOK, TypeOK', NEW c, Callers = {c}, NEW p \in Callers,
         start_cyclic_dma(p) \/ start_sram_dma(p), SramEntry(p) => dirMode = "both"
  PROVE  Kept
<1>0. "start" \in Starting /\ "sram" \in Starting
  BY DEF Starting
<1>1. CASE StartMark(p)
  <2>1. Local("start", "mark", do[p]) /\ ~sramMode
    BY <1>0, <1>1, Starter DEF StartMark, Bring
  <2>2. sramMode' = ("start" = "sram")
    BY <1>1, <2>1 DEF StartMark, TypeOK
  <2> QED BY <1>0, <1>1, <2>2, MarkKept DEF StartMark
<1>2. CASE SramMark(p)
  BY <1>0, <1>2, MarkKept DEF SramMark
<1>3. CASE BringUp(p, "start", "mark") \/ BringUp(p, "sram", "mark")
  BY <1>0, <1>3, BringUpKept
<1>4. CASE StartEntry(p) \/ SramEntry(p) \/ SramUnmap(p)
  BY <1>4, StartEntryKept, SramEntryKept, SramUnmapKept
<1> QED BY <1>1, <1>2, <1>3, <1>4 DEF start_cyclic_dma, start_sram_dma

-----------------------------------------------------------------------------
(* STOP.                                                                   *)

LEMMA Stopper ==
  ASSUME SingleInv, NEW p \in Procs, NEW s, At(p, "stop", s)
  PROVE  Others(p) /\ Local("stop", s, do[p]) /\ do[p] = Dir
BY Active DEF Local, Directed

LEMMA StopMoves ==
  ASSUME SingleInv, TypeOK, NEW p \in Procs, NEW s, At(p, "stop", s), NEW t, Goto(p, "stop", t),
         Local("stop", t, do[p])'
  PROVE  SingleInv'
<1>1. pc' = [pc EXCEPT ![p] = <<"stop", t>>] /\ Role(p, "stop")
  BY DEF Goto, Role
<1> QED BY <1>1, Stopper, Moves

\* STOP works on the directions of the session.
LEMMA StopDirs ==
  ASSUME TypeOK, NEW s, NEW x, Local("stop", s, x)
  PROVE  SessionDirs = DirsOf(dirMode)
BY DEF Local, Flags, SessionDirs, DirsOf

LEMMA StopBegins ==
  ASSUME SingleInv, TypeOK, TypeOK', NEW p \in Procs, Others(p), Local("idle", "", {}), running,
         pc' = [pc EXCEPT ![p] = <<"stop", "dreqTx">>], StopBegin(p),
         UNCHANGED <<drvVars, memVars, hwVars>>
  PROVE  Kept
<1> USE DEF drvVars, memVars, hwVars
<1>1. client # "null"
  BY DEF Local, Directed
<1>2. do'[p] = Dir
  BY <1>1 DEF StopBegin, TypeOK
<1>3. Place("stop", "dreqTx")' /\ Flags("stop", "dreqTx")' /\ Fresh("stop", "dreqTx")'
      /\ Directed("stop", "dreqTx", do[p])'
  BY <1>2 DEF Local, Place, Flags, Directed, Fresh, Starting, Stopping
<1>4. ASSUME NEW d \in Dir
      PROVE  Engine("stop", "dreqTx", do[p], d)' /\ Requests("stop", "dreqTx", do[p], d)'
             /\ Counts("stop", "dreqTx", d)'
  <2>1. Engine("idle", "", {}, d)
    BY DEF Local
  <2> QED BY <1>2, <2>1
        DEF Engine, Requests, Counts, Issued, Submitted, Live, Starting, SessionDirs, SessionArea
<1>5. Local("stop", "dreqTx", do[p])'
  BY <1>3, <1>4 DEF Local
<1>6. Role(p, "stop")
  BY DEF Role
<1>7. SingleInv'
  BY <1>5, <1>6, Moves
<1> QED BY <1>7, Stutters DEF Kept

LEMMA StopDreqKept ==
  ASSUME SingleInv, TypeOK, TypeOK', NEW p \in Procs, NEW d, NEW s, NEW t,
         \/ d = "tx" /\ s = "dreqTx" /\ t = "dreqRx"
         \/ d = "rx" /\ s = "dreqRx" /\ t = "termTx",
         StopDreq(p, d, s, t)
  PROVE  Kept
<1> USE DEF drvVars, memVars
<1>1. At(p, "stop", s) /\ Goto(p, "stop", t) /\ do' = do
  BY DEF StopDreq, Goto
<1>2. Local("stop", s, do[p]) /\ do[p] = Dir
  BY <1>1, Stopper
<1>3. Place("stop", t)' /\ Flags("stop", t)' /\ Fresh("stop", t)' /\ Directed("stop", t, do[p])'
  BY <1>1, <1>2 DEF StopDreq, Local, Place, Flags, Directed, Fresh, Starting, Stopping
<1>4. ASSUME NEW e \in Dir PROVE Engine("stop", t, do[p], e)' /\ Counts("stop", t, e)'
  <2>1. Engine("stop", s, do[p], e)
    BY <1>2 DEF Local
  <2> QED BY <1>1, <2>1
        DEF StopDreq, Engine, Counts, Issued, Submitted, Live, Starting, SessionDirs, SessionArea
<1>5. ASSUME NEW e \in Dir PROVE Requests("stop", t, do[p], e)'
  <2>1. CASE "disable" \in Faults
    BY <2>1 DEF Requests, Starting
  <2>2. CASE "disable" \notin Faults
    <3>1. Requests("stop", s, do[p], e)
      BY <1>2 DEF Local
    <3>2. IF d \in DirsOf(dirMode) THEN dreq' = [dreq EXCEPT ![d] = FALSE] ELSE dreq' = dreq
      BY <1>2, <2>2, Names DEF StopDreq, SetDmactrl
    <3>3. dirMode' = dirMode /\ d \in Dir /\ dreq \in [Dir -> BOOLEAN]
      BY Names DEF StopDreq, TypeOK
    <3>4. e = d /\ e \in DirsOf(dirMode) => ~dreq'[e]
      BY <3>2, <3>3
    <3>5. e # d => dreq'[e] = dreq[e]
      BY <3>2, <3>3
    <3> QED BY <2>2, <3>1, <3>3, <3>4, <3>5, Names DEF Requests, Starting, DirsOf
  <2> QED BY <2>1, <2>2
<1>6. Local("stop", t, do[p])'
  BY <1>3, <1>4, <1>5 DEF Local
<1>7. SingleInv'
  BY <1>1, <1>6, StopMoves
<1> QED BY <1>7, Stutters DEF StopDreq, Kept

LEMMA StopTerminateKept ==
  ASSUME SingleInv, TypeOK, TypeOK', NEW p \in Procs, NEW d, NEW s, NEW t,
         \/ d = "tx" /\ s = "termTx" /\ t = "termRx"
         \/ d = "rx" /\ s = "termRx" /\ t = "clear",
         StopTerminate(p, d, s, t)
  PROVE  Kept
<1> USE DEF drvVars, memVars
<1>1. At(p, "stop", s) /\ Goto(p, "stop", t) /\ do' = do /\ d \in Dir
  BY Names DEF StopTerminate, Goto
<1>2. Local("stop", s, do[p]) /\ do[p] = Dir
  BY <1>1, Stopper
<1>3. SessionDirs = DirsOf(dirMode)
  BY <1>2, StopDirs
<1>4. Place("stop", t)' /\ Flags("stop", t)' /\ Fresh("stop", t)' /\ Directed("stop", t, do[p])'
  BY <1>1, <1>2 DEF StopTerminate, Local, Place, Flags, Directed, Fresh, Starting, Stopping
<1>5. ASSUME NEW e \in Dir
      PROVE  /\ act[e] = IF (d = "tx" \/ e = "rx") /\ e \in SessionDirs
                         THEN SessionArea(e) ELSE None
             /\ queue[e] = {}
  <2>1. Engine("stop", s, do[p], e)
    BY <1>2 DEF Local
  <2>2. ~Issued("stop", s, e) /\ ~Submitted("stop", s, e)
        /\ (Live("stop", s, e) <=> d = "tx" \/ e = "rx")
    BY Names DEF Issued, Submitted, Live, Starting
  <2> QED BY <2>1, <2>2 DEF Engine
<1>6. IF d \in SessionDirs
      THEN act' = [act EXCEPT ![d] = None] /\ queue' = [queue EXCEPT ![d] = {}]
      ELSE act' = act /\ queue' = queue
  BY <1>3 DEF StopTerminate, TerminateIf, Terminate, dmaVars
<1>7. ASSUME NEW e \in Dir PROVE Engine("stop", t, do[p], e)'
  <2>1. /\ act'[e] = IF d = "tx" /\ e = "rx" /\ e \in SessionDirs THEN SessionArea(e) ELSE None
        /\ queue'[e] = {}
    BY <1>1, <1>5, <1>6, Names DEF TypeOK
  <2>2. ~Issued("stop", t, e) /\ ~Submitted("stop", t, e)
        /\ (Live("stop", t, e)' <=> d = "tx" /\ e = "rx")
    BY Names DEF Issued, Submitted, Live, Starting
  <2>3. SessionDirs' = SessionDirs /\ SessionArea(e)' = SessionArea(e)
    BY DEF StopTerminate, SessionDirs, SessionArea
  <2> QED BY <2>1, <2>2, <2>3 DEF Engine, Issued, Submitted
<1>8. ASSUME NEW e \in Dir PROVE Requests("stop", t, do[p], e)' /\ Counts("stop", t, e)'
  BY <1>1, <1>2 DEF StopTerminate, Local, Requests, Counts, Starting
<1>9. SingleInv'
  <2>1. Local("stop", t, do[p])'
    BY <1>4, <1>7, <1>8 DEF Local
  <2> QED BY <1>1, <2>1, StopMoves
<1>10. SessionStep
  <2>1. UNCHANGED <<running, dirMode, sramMode>> /\ running
    BY <1>2 DEF StopTerminate, Local, Flags
  <2>2. CASE d \notin SessionDirs
    BY <1>6, <2>1, <2>2, Stutters
  <2>3. CASE d \in SessionDirs
    <3>1. act[d] # None
      BY <1>1, <1>5, <2>3, Names DEF SessionArea, None
    <3>2. {e \in Dir : act'[e] # None} = {e \in Dir : act[e] # None} \ {d}
      BY <1>6, <2>3 DEF TypeOK
    <3>3. Session!Quiesce(d)
      BY <1>1, <2>1, <3>1, <3>2 DEF Session!Quiesce
    <3>4. Session!Next
      BY <1>1, <3>3 DEF Session!Next, Session!Direction, Dir
    <3>5. "disable" \notin Faults => ~dreq[d]
      BY <1>1, <1>2, <1>3, <2>3 DEF Local, Requests
    <3>6. "disable" \notin Faults => DreqOff
      BY <1>6, <2>3, <3>5 DEF DreqOff, TypeOK
    <3> QED BY <3>4, <3>6 DEF SessionStep
  <2> QED BY <2>2, <2>3
<1> QED BY <1>9, <1>10 DEF Kept

\* With the channels terminated, the rest of STOP closes the session.
LEMMA StopEndKept ==
  ASSUME SingleInv, TypeOK, TypeOK', NEW p \in Procs,
         StopClear(p) \/ StopMark(p) \/ StopVerify(p) \/ StopUnmap(p)
  PROVE  Kept
<1> USE DEF drvVars, memVars, hwVars
<1>1. ASSUME NEW s \in {"clear", "mark", "verify", "unmap"}, At(p, "stop", s)
      PROVE  /\ Others(p) /\ Local("stop", s, do[p])
             /\ \A d \in Dir : act[d] = None /\ queue[d] = {}
  <2>1. Others(p) /\ Local("stop", s, do[p])
    BY <1>1, Stopper
  <2>2. ASSUME NEW d \in Dir PROVE act[d] = None /\ queue[d] = {}
    <3>1. Engine("stop", s, do[p], d)
      BY <2>1 DEF Local
    <3>2. ~Issued("stop", s, d) /\ ~Submitted("stop", s, d) /\ ~Live("stop", s, d)
      BY DEF Issued, Submitted, Live, Starting
    <3> QED BY <3>1, <3>2 DEF Engine
  <2> QED BY <2>1, <2>2
<1>2. CASE StopClear(p)
  <2>1. At(p, "stop", "clear") /\ Goto(p, "stop", "mark")
    BY <1>2 DEF StopClear
  <2>2. Local("stop", "mark", do[p])'
    BY <1>1, <1>2, <2>1
       DEF StopClear, ClearFifos, Goto, Local, Place, Flags, Directed, Fresh, Engine, Requests, Counts,
           Starting, Issued, Submitted, Live, Stopping
  <2> QED BY <1>2, <2>1, <2>2, StopMoves, Stutters DEF StopClear, Kept
<1>3. CASE StopMark(p)
  <2>1. At(p, "stop", "mark") /\ Goto(p, "stop", "verify")
    BY <1>3 DEF StopMark
  <2>2. Local("stop", "verify", do[p])'
    BY <1>1, <1>3, <2>1
       DEF StopMark, Goto, Local, Place, Flags, Directed, Fresh, Engine, Requests, Counts,
           Starting, Issued, Submitted, Live, Stopping
  <2>3. SingleInv'
    BY <2>1, <2>2, StopMoves
  <2>4. {d \in Dir : act[d] # None} = {}
    BY <1>1, <2>1
  <2>5. running /\ ~running'
    BY <1>1, <1>3, <2>1 DEF StopMark, Local, Flags
  <2>6. Session!Close
    BY <1>3, <2>4, <2>5 DEF StopMark, Session!Close
  <2>7. DreqOff
    BY <1>3 DEF StopMark, DreqOff
  <2> QED BY <2>3, <2>6, <2>7 DEF Kept, SessionStep, Session!Next
<1>4. CASE StopVerify(p)
  <2>1. At(p, "stop", "verify") /\ Goto(p, "stop", "unmap")
    BY <1>4 DEF StopVerify
  <2>2. Local("stop", "unmap", do[p])'
    BY <1>1, <1>4, <2>1
       DEF StopVerify, Goto, Local, Place, Flags, Directed, Fresh, Engine, Requests, Counts,
           Starting, Issued, Submitted, Live, Stopping
  <2> QED BY <1>4, <2>1, <2>2, StopMoves, Stutters DEF StopVerify, Kept
<1>5. CASE StopUnmap(p)
  <2>1. /\ At(p, "stop", "unmap") /\ Others(p) /\ Local("stop", "unmap", do[p])
        /\ ~running /\ ~running'
    BY <1>1, <1>5 DEF StopUnmap, Local, Flags
  <2>2. ~sramMode' /\ maps' = {} /\ loaded /\ loaded' /\ dirty' = dirty /\ "ring" \in allocated'
        /\ client' = client
    BY <1>5, <2>1 DEF StopUnmap, Local, Flags
  <2>3. \A d \in Dir : act'[d] = None /\ queue'[d] = {}
    BY <1>1, <1>5, <2>1 DEF StopUnmap
  <2>4. "clear" \notin Faults => ~dirty'
    BY <2>1, <2>2 DEF Local, Fresh, Starting
  <2>5. SingleInv'
    <3>1. CASE p = Rmmod
      <4>1. pc' = [pc EXCEPT ![p] = <<"exit", "free">>] /\ Role(p, "exit")
        BY <1>5, <3>1 DEF StopUnmap, Goto, Role
      <4>2. Local("exit", "free", do[p])'
        BY <2>1, <2>2, <2>3, <2>4
           DEF Local, Place, Flags, Directed, Fresh, Engine, Requests, Counts, Starting, Issued,
               Submitted, Live, Leaving
      <4> QED BY <2>1, <4>1, <4>2, Moves
    <3>2. CASE p # Rmmod
      <4>1. Local("idle", "", {})'
        BY <2>1, <2>2, <2>3, <2>4
           DEF Local, Place, Flags, Directed, Fresh, Engine, Requests, Counts, Starting, Issued,
               Submitted, Live
      <4> QED BY <1>5, <2>1, <3>2, <4>1, Returns DEF StopUnmap
    <3> QED BY <3>1, <3>2
  <2>6. [Session!Next]_(Session!vars)
    BY <1>5, <2>1 DEF StopUnmap, Session!vars
  <2>7. DreqOff
    BY <1>5 DEF StopUnmap, DreqOff
  <2> QED BY <2>5, <2>6, <2>7 DEF Kept, SessionStep
<1> QED BY <1>2, <1>3, <1>4, <1>5

LEMMA StopKept ==
  ASSUME SingleInv, TypeOK, TypeOK', NEW p \in Procs, StopSteps(p)
  PROVE  Kept
BY StopDreqKept, StopTerminateKept, StopEndKept DEF StopSteps

-----------------------------------------------------------------------------
(* The direction, rmmod, insmod and the period callbacks.                  *)

LEMMA SetDirKept ==
  ASSUME SingleInv, TypeOK, TypeOK', NEW c, Callers = {c}, NEW p \in Callers, set_dma_dir(p)
  PROVE  Kept
<1> USE DEF drvVars, memVars, hwVars
<1>1. CASE SetDirCheck(p)
  <2>1. PICK m \in Mode : Enter(p, m, "setdir", m, {})
    BY <1>1 DEF SetDirCheck
  <2>2. /\ pc[p] = Idle /\ pc[Rmmod] = Idle /\ loaded
        /\ pc' = [pc EXCEPT ![p] = <<"setdir", m>>] /\ do' = [do EXCEPT ![p] = {}]
    BY <2>1 DEF Enter
  <2>3. p \in Procs /\ p # Rmmod /\ Local("idle", "", {}) /\ Others(p)
    BY <2>2, Enters
  <2>4. Local("setdir", m, do[p])'
    BY <1>1, <2>2, <2>3
       DEF SetDirCheck, Local, Place, Flags, Directed, Fresh, Engine, Requests, Counts, Starting,
           Issued, Submitted, Live
  <2>5. Role(p, "setdir")
    BY <2>3 DEF Role
  <2>6. SingleInv'
    BY <2>2, <2>3, <2>4, <2>5, Moves
  <2> QED BY <1>1, <2>6, Stutters DEF SetDirCheck, Kept
<1>2. CASE SetDirWrite(p)
  <2>1. PICK m : At(p, "setdir", m) /\ dirMode' = m
    BY <1>2 DEF SetDirWrite
  <2>2. p \in Procs
    BY DEF Procs
  <2>3. Others(p) /\ Local("setdir", m, do[p])
    BY <2>1, <2>2, Active
  <2>4. ~running /\ ~sramMode
    BY <2>3 DEF Local, Flags
  <2>5. ASSUME NEW d \in Dir PROVE act[d] = None /\ queue[d] = {}
    <3>1. Engine("setdir", m, do[p], d)
      BY <2>3 DEF Local
    <3>2. ~Issued("setdir", m, d) /\ ~Submitted("setdir", m, d) /\ ~Live("setdir", m, d)
      BY DEF Issued, Submitted, Live, Starting
    <3> QED BY <3>1, <3>2 DEF Engine
  <2>6. Local("idle", "", {})'
    BY <1>2, <2>3, <2>4, <2>5
       DEF SetDirWrite, Local, Place, Flags, Directed, Fresh, Engine, Requests, Counts, Starting,
           Issued, Submitted, Live
  <2>7. SingleInv'
    BY <1>2, <2>2, <2>3, <2>6, Returns DEF SetDirWrite
  <2>8. {d \in Dir : act[d] # None} = {}
    BY <2>5
  <2>9. Session!SetDir(m) /\ m \in {"both", "tx", "rx"}
    BY <1>2, <2>1, <2>4, <2>8 DEF SetDirWrite, Session!SetDir, TypeOK, Mode
  <2>10. DreqOff
    BY <1>2 DEF SetDirWrite, DreqOff
  <2> QED BY <2>7, <2>9, <2>10 DEF Kept, SessionStep, Session!Next
<1> QED BY <1>1, <1>2 DEF set_dma_dir

LEMMA ExitKept ==
  ASSUME SingleInv, TypeOK, TypeOK', rp1_pio_sram_exit
  PROVE  Kept
<1> USE DEF drvVars, memVars, hwVars
<1>0. Rmmod \in Procs
  BY DEF Procs
<1>1. CASE ExitEntry
  <2>1. Others(Rmmod) /\ Local("idle", "", {})
    BY <1>1, Resting DEF ExitEntry, Quiet, Others
  <2>2. CASE running
    BY <1>0, <1>1, <2>1, <2>2, StopBegins DEF ExitEntry
  <2>3. CASE ~running
    <3>1. pc' = [pc EXCEPT ![Rmmod] = <<"exit", "free">>] /\ Role(Rmmod, "exit") /\ loaded
      BY <1>1, <2>3 DEF ExitEntry, Role
    <3>2. Local("exit", "free", do[Rmmod])'
      BY <1>1, <2>1, <2>3, <3>1
         DEF ExitEntry, Local, Place, Flags, Directed, Fresh, Engine, Requests, Counts, Starting,
             Issued, Submitted, Live, Leaving
    <3>3. SingleInv'
      BY <1>0, <2>1, <3>1, <3>2, Moves
    <3> QED BY <1>1, <3>3, Stutters DEF ExitEntry, Kept
  <2> QED BY <2>2, <2>3
<1>2. ASSUME NEW s \in Leaving, At(Rmmod, "exit", s)
      PROVE  /\ Others(Rmmod) /\ Local("exit", s, do[Rmmod])
             /\ \A d \in Dir : act[d] = None /\ queue[d] = {}
  <2>1. Others(Rmmod) /\ Local("exit", s, do[Rmmod])
    BY <1>0, <1>2, Active
  <2>2. ASSUME NEW d \in Dir PROVE act[d] = None /\ queue[d] = {}
    <3>1. Engine("exit", s, do[Rmmod], d)
      BY <2>1 DEF Local
    <3>2. ~Issued("exit", s, d) /\ ~Submitted("exit", s, d) /\ ~Live("exit", s, d)
      BY DEF Issued, Submitted, Live, Starting
    <3> QED BY <3>1, <3>2 DEF Engine
  <2> QED BY <2>1, <2>2
<1>3. "free" \in Leaving /\ "release" \in Leaving /\ "close" \in Leaving /\ Role(Rmmod, "exit")
  BY DEF Leaving, Role
<1>4. CASE ExitFree
  <2>1. At(Rmmod, "exit", "free") /\ pc' = [pc EXCEPT ![Rmmod] = <<"exit", "release">>] /\ do' = do
    BY <1>4 DEF ExitFree, Goto
  <2>2. Local("exit", "release", do[Rmmod])'
    BY <1>2, <1>3, <1>4, <2>1
       DEF ExitFree, Local, Place, Flags, Directed, Fresh, Engine, Requests, Counts, Starting, Issued,
           Submitted, Live
  <2>3. SingleInv'
    BY <1>0, <1>2, <1>3, <2>1, <2>2, Moves
  <2> QED BY <1>4, <2>3, Stutters DEF ExitFree, Kept
<1>5. CASE ExitRelease
  <2>1. At(Rmmod, "exit", "release") /\ pc' = [pc EXCEPT ![Rmmod] = <<"exit", "close">>] /\ do' = do
    BY <1>5 DEF ExitRelease, Goto
  <2>2. Local("exit", "close", do[Rmmod])'
    BY <1>2, <1>3, <1>5, <2>1
       DEF ExitRelease, Local, Place, Flags, Directed, Fresh, Engine, Requests, Counts, Starting, Issued,
           Submitted, Live
  <2>3. SingleInv'
    BY <1>0, <1>2, <1>3, <2>1, <2>2, Moves
  <2>4. act' = act
    BY <1>2, <1>3, <1>5, <2>1 DEF ExitRelease, TypeOK
  <2> QED BY <1>5, <2>3, <2>4, Stutters DEF ExitRelease, Kept
<1>6. CASE ExitClose
  <2>1. At(Rmmod, "exit", "close") /\ Return(Rmmod)
    BY <1>6 DEF ExitClose
  <2>2. /\ ~loaded' /\ client' = "null" /\ (dirty' => dirty)
        /\ UNCHANGED <<running, dirMode, sramMode, sramIo, maps, act, queue>>
    BY <1>6 DEF ExitClose, ClearFifos
  <2>3. Local("idle", "", {})'
    BY <1>2, <1>3, <2>1, <2>2
       DEF Local, Place, Flags, Directed, Fresh, Engine, Requests, Counts, Starting, Issued,
           Submitted, Live
  <2>4. SingleInv'
    BY <1>0, <1>2, <1>3, <2>1, <2>3, Returns
  <2> QED BY <2>2, <2>4, Stutters DEF Kept
<1> QED BY <1>1, <1>4, <1>5, <1>6 DEF rp1_pio_sram_exit

LEMMA InitKept ==
  ASSUME SingleInv, TypeOK, TypeOK', rp1_pio_sram_init
  PROVE  Kept
<1>1. Local("idle", "", {}) /\ ~loaded
  BY Resting DEF rp1_pio_sram_init
<1>2. ~running /\ ~sramMode
  BY <1>1 DEF Local, Flags
<1>3. ASSUME NEW d \in Dir PROVE act[d] = None /\ queue[d] = {}
  <2>1. Engine("idle", "", {}, d)
    BY <1>1 DEF Local
  <2> QED BY <1>2, <2>1 DEF Engine, Issued, Submitted, Live, Starting
<1>4. Local("idle", "", {})'
  BY <1>1, <1>2, <1>3
     DEF rp1_pio_sram_init, Local, Place, Flags, Directed, Fresh, Engine, Requests, Counts,
         Starting, Issued, Submitted, Live
<1>5. SingleInv'
  <2>1. \A q \in Procs : pc'[q] = Idle /\ pc'[q][1] = "idle" /\ pc'[q][2] = ""
    BY IdleParts DEF rp1_pio_sram_init, Quiet, ctlVars
  <2>2. \A q \in Procs : Others(q)'
    BY <2>1 DEF Others
  <2>3. \A q \in Procs : Local("idle", "", do[q])'
    BY <1>4 DEF Local, Place, Flags, Directed, Fresh, Engine, Requests, Counts, Starting,
         Issued, Submitted, Live
  <2> QED BY <2>1, <2>2, <2>3 DEF SingleInv, Procs, Role
<1>6. {d \in Dir : act[d] # None} = {} /\ act' = act
  BY <1>3 DEF rp1_pio_sram_init
<1>7. Session!SetDir("both")
  BY <1>2, <1>6 DEF rp1_pio_sram_init, Session!SetDir
<1>8. DreqOff
  BY <1>6 DEF DreqOff
<1> QED BY <1>5, <1>7, <1>8 DEF Kept, SessionStep, Session!Next

LEMMA WordsKept ==
  ASSUME SingleInv, TypeOK, TypeOK', NEW d \in Dir, Words(d)
  PROVE  Kept
<1> USE DEF drvVars, memVars, ctlVars
<1>1. act[d] # None
  BY DEF Words, MoveWords
<1>2. ASSUME NEW h, NEW s, NEW x, Local(h, s, x) PROVE Local(h, s, x)'
  <2>1. Engine(h, s, x, d)
    BY <1>2 DEF Local
  <2>2. \/ Issued(h, s, d) /\ d \in x /\ act[d] = Ring(h, d)
        \/ Live(h, s, d) /\ d \in SessionDirs /\ act[d] = SessionArea(d)
    BY <1>1, <2>1 DEF Engine
  <2>3. Place(h, s)' /\ Flags(h, s)' /\ Directed(h, s, x)'
    BY <1>2 DEF Words, MoveWords, Local, Place, Flags, Directed
  <2>4. Fresh(h, s)'
    BY <2>2 DEF Words, MoveWords, Fresh, Issued, Live
  <2>5. ASSUME NEW e \in Dir PROVE Engine(h, s, x, e)' /\ Requests(h, s, x, e)'
    BY <1>2 DEF Words, MoveWords, Local, Engine, Requests, Issued, Submitted, Live, SessionDirs,
            SessionArea, Ring
  <2>6. ASSUME NEW e \in Dir PROVE Counts(h, s, e)'
    <3>1. counted'[e] = counted[e] \/ (e = d /\ counted'[e] = counted[e] \cup {act[e]})
      BY DEF Words, PeriodCallback, TypeOK
    <3>2. Counts(h, s, e) /\ dirMode' = dirMode /\ sramMode' = sramMode /\ running' = running
      BY <1>2 DEF Local, Words, MoveWords
    <3>3. h \in Starting => ~(h = "idle") /\ h # "stop"
      BY DEF Starting
    <3> QED BY <2>2, <3>1, <3>2, <3>3 DEF Counts, Issued, Live, Ring, SessionArea
  <2> QED BY <2>3, <2>4, <2>5, <2>6 DEF Local
<1>3. SingleInv'
  BY <1>2, Stays DEF Words, MoveWords
<1> QED BY <1>3, Stutters DEF Words, MoveWords, Kept

-----------------------------------------------------------------------------
(* Every step of the driver with one caller.                               *)

LEMMA SingleInit ==
  ASSUME Init
  PROVE  SingleInv
<1>1. \A q \in Procs : pc[q] = Idle /\ pc[q][1] = "idle" /\ pc[q][2] = "" /\ do[q] = {}
  BY IdleParts DEF Init
<1>2. Local("idle", "", {})
  BY DEF Init, Local, Place, Flags, Directed, Fresh, Engine, Requests, Counts, Starting,
         Issued, Submitted, Live
<1> QED BY <1>1, <1>2 DEF SingleInv, Others, Procs, Role

\* Nobody is in a self test.
LEMMA NoTest ==
  ASSUME SingleInv, NEW p \in Callers, NEW h \in Tests, NEW s, At(p, h, s)
  PROVE  FALSE
<1>1. h # "idle" /\ p \in Procs
  BY DEF Tests, Procs
<1>2. Local(h, s, do[p])
  BY <1>1, Active
<1> QED BY <1>2 DEF Local, Place, Starting, Tests

LEMMA NoTestStep ==
  ASSUME SingleInv, NEW p \in Callers, NEW h \in Tests, NEW after
  PROVE  ~SelfTest(p, h, after)
BY NoTest
   DEF SelfTest, BringUp, OpenClient, NoClient, EnableDreq, PrepAndReset, SubmitTx, SubmitRx,
       Issue, TestTerminate, TestClear, TestFree

\* With one caller that issues none, no self test runs.
LEMMA NoSelfTest ==
  ASSUME SingleInv, NEW c, Single(c), NEW p \in Callers
  PROVE  ~dma_diag_test(p) /\ ~sram_addr_probe(p)
<1>1. \A h \in Tests : \A s : ~At(p, h, s)
  BY NoTest
<1>2. \A h \in Tests : \A after : ~SelfTest(p, h, after)
  BY NoTestStep
<1>3. "diag" \notin Calls /\ "probe" \notin Calls
  BY DEF Single
<1> QED BY <1>1, <1>2, <1>3
     DEF dma_diag_test, sram_addr_probe, DiagEntry, ControlEntry, ProbeEntry, ProbeAlloc,
         ProbeRestore, Enter, Tests

\* A step of somebody else.
LEMMA SingleSame ==
  ASSUME SingleInv, UNCHANGED vars
  PROVE  SingleInv'
<1> USE DEF vars, drvVars, memVars, hwVars, ctlVars
<1>1. ASSUME NEW h, NEW s, NEW x, Local(h, s, x) PROVE Local(h, s, x)'
  <2>1. Place(h, s)' /\ Flags(h, s)' /\ Directed(h, s, x)' /\ Fresh(h, s)'
    BY <1>1 DEF Local, Place, Flags, Directed, Fresh
  <2>2. ASSUME NEW d \in Dir PROVE Engine(h, s, x, d)'
    BY <1>1 DEF Local, Engine, Issued, Submitted, Live, SessionDirs, SessionArea, Ring
  <2>3. ASSUME NEW d \in Dir PROVE Requests(h, s, x, d)' /\ Counts(h, s, d)'
    BY <1>1 DEF Local, Requests, Counts, SessionDirs, SessionArea, Ring
  <2> QED BY <2>1, <2>2, <2>3 DEF Local
<1> QED BY <1>1, Stays

LEMMA SingleStep ==
  ASSUME SingleInv, TypeOK, TypeOK', NEW c, Single(c), [Next /\ SramBothWays]_vars
  PROVE  Kept
<1>0. Callers = {c}
  BY DEF Single
<1>1. CASE UNCHANGED vars
  BY <1>1, SingleSame, Stutters DEF vars, drvVars, hwVars, Kept
<1>2. ASSUME NEW p \in Callers, rp1_pio_sram_ioctl(p), SramBothWays PROVE Kept
  <2>1. CASE start_cyclic_dma(p) \/ start_sram_dma(p)
    BY <1>0, <1>2, <2>1, StartKept DEF SramBothWays
  <2>2. CASE StopEntry(p)
    <3>1. /\ pc[p] = Idle /\ pc[Rmmod] = Idle /\ running
          /\ pc' = [pc EXCEPT ![p] = <<"stop", "dreqTx">>] /\ StopBegin(p)
          /\ UNCHANGED <<drvVars, memVars, hwVars>>
      BY <2>2 DEF StopEntry
    <3>2. p \in Procs /\ Local("idle", "", {}) /\ Others(p)
      BY <1>0, <3>1, Enters
    <3> QED BY <3>1, <3>2, StopBegins
  <2>3. CASE StopSteps(p)
    BY <2>3, StopKept DEF Procs
  <2>4. CASE set_dma_dir(p)
    BY <1>0, <2>4, SetDirKept
  <2> QED BY <1>2, <2>1, <2>2, <2>3, <2>4, NoSelfTest DEF rp1_pio_sram_ioctl, stop_cyclic_dma
<1>3. CASE StopSteps(Rmmod)
  BY <1>3, StopKept DEF Procs
<1> QED BY <1>1, <1>2, <1>3, ExitKept, InitKept, WordsKept DEF Next

\* The temporal frame of all that follows.
LEMMA SingleRuns ==
  ASSUME NEW c, Single(c)
  PROVE  SingleSpec => [](TypeOK /\ SingleInv) /\ [][SessionStep]_vars
<1>1. [Next /\ SramBothWays]_vars => [Next]_vars
  OBVIOUS
<1>2. SingleSpec => []TypeOK
  BY <1>1, TypeCorrect, PTL DEF SingleSpec, Spec
<1>3. Init => SingleInv
  BY SingleInit
<1>4. SingleInv /\ TypeOK /\ TypeOK' /\ [Next /\ SramBothWays]_vars => SingleInv' /\ SessionStep
  BY SingleStep DEF Kept
<1> QED BY <1>2, <1>3, <1>4, PTL DEF SingleSpec

-----------------------------------------------------------------------------

\* At rest, the channels and the mapping are those of the open session.
LEMMA SingleResources ==
  ASSUME SingleInv
  PROVE  ResourcesMatchSession /\ CountsOwnSession
<1> SUFFICES ASSUME Quiet PROVE ResourcesMatchSession /\ CountsOwnSession
  BY DEF ResourcesMatchSession, CountsOwnSession
<1>1. Local("idle", "", {})
  BY Resting
<1>2. maps = IF running /\ sramMode THEN {sramIo} ELSE {}
  BY <1>1 DEF Local, Flags
<1>3. ASSUME NEW d \in Dir
      PROVE  /\ act[d] = IF running /\ d \in SessionDirs THEN SessionArea(d) ELSE None
             /\ queue[d] = {}
             /\ running /\ d \in SessionDirs => dreq[d]
             /\ running => counted[d] \subseteq {SessionArea(d)}
  <2>1. Engine("idle", "", {}, d) /\ Requests("idle", "", {}, d) /\ Counts("idle", "", d)
    BY <1>1 DEF Local
  <2> QED BY <2>1 DEF Engine, Requests, Counts, Issued, Submitted, Live, Starting
<1> QED BY <1>2, <1>3 DEF ResourcesMatchSession, CountsOwnSession, Targets

\* Only a START or a session has the ring under a channel, and then it exists.
LEMMA SingleRing ==
  ASSUME SingleInv
  PROVE  RingBufferSafe
<1>1. PICK p \in Procs : Others(p)
  BY DEF SingleInv
<1> DEFINE h == pc[p][1]
           s == pc[p][2]
<1>2. Local(h, s, do[p])
  BY <1>1 DEF SingleInv
<1> HIDE DEF h, s
<1>3. ASSUME NEW d \in Dir, Targets(d) \cap RingAreas # {} PROVE "ring" \in allocated
  <2>1. Issued(h, s, d) \/ Submitted(h, s, d) \/ Live(h, s, d)
    <3>1. Engine(h, s, do[p], d)
      BY <1>2 DEF Local
    <3> QED BY <1>3, <3>1 DEF Engine, Targets
  <2>2. loaded /\ h # "exit"
    BY <1>2, <2>1 DEF Local, Flags, Issued, Submitted, Live, Starting
  <2> QED BY <1>2, <2>2 DEF Local, Flags
<1> QED BY <1>3 DEF RingBufferSafe

LEMMA SingleClean ==
  ASSUME SingleInv, "clear" \notin Faults
  PROVE  CleanStart
<1> SUFFICES ASSUME NEW p \in Callers, NEW h \in {"start", "sram"}, At(p, h, "issTx")
             PROVE  ~dirty
  BY DEF CleanStart
<1>1. p \in Procs /\ h # "idle"
  BY DEF Procs
<1>2. Local(h, "issTx", do[p])
  BY <1>1, Active
<1> QED BY <1>2 DEF Local, Fresh

\* With one caller that issues no self test, whatever calls fail in whatever order
\* of START, START_SRAM, STOP, SET_DMA_DIR, rmmod and insmod: when no handler runs,
\* every descriptor and the SRAM mapping belong to the open session, and each of
\* its channels runs with DREQ on.  Without a session DREQ may be left on.
THEOREM OneCallerResources ==
  ASSUME NEW c, Single(c)
  PROVE  SingleSpec => []ResourcesMatchSession
BY SingleRuns, SingleResources, PTL

\* With one caller, the bytes STATUS reports were moved by the open session.
THEOREM OneCallerCounts ==
  ASSUME NEW c, Single(c)
  PROVE  SingleSpec => []CountsOwnSession
BY SingleRuns, SingleResources, PTL

\* With one caller, rmmod never frees the ring buffer under a channel.
THEOREM OneCallerRing ==
  ASSUME NEW c, Single(c)
  PROVE  SingleSpec => []RingBufferSafe
BY SingleRuns, SingleRing, PTL

\* With one caller a session begins with empty FIFOs, provided that clearing
\* them does not fail: STOP does not look at the result of pio_sm_clear_fifos.
THEOREM OneCallerClean ==
  ASSUME NEW c, Single(c), "clear" \notin Faults
  PROVE  SingleSpec => []CleanStart
BY SingleRuns, SingleClean, PTL

\* With one caller DREQ is off before a channel is terminated, provided that
\* switching it off does not fail: STOP does not look at that result either.
THEOREM OneCallerTeardown ==
  ASSUME NEW c, Single(c), "disable" \notin Faults
  PROVE  SingleSpec => TeardownWithDreqOff
<1>1. SessionStep => \A d \in Dir : act[d] # None /\ act'[d] = None => ~dreq[d]
  BY DEF SessionStep, DreqOff
<1> QED BY <1>1, SingleRuns, PTL DEF TeardownWithDreqOff

\* With one caller the handlers implement DmaSession: one session at a time,
\* opened on running channels and closed on quiet ones.
THEOREM OneCallerRefines ==
  ASSUME NEW c, Single(c)
  PROVE  SingleSpec => SessionSpec
<1>1. Init => Session!Init
  <2>1. ASSUME Init PROVE {d \in Dir : act[d] # None} = {}
    BY <2>1 DEF Init
  <2> QED BY <2>1 DEF Init, Session!Init
<1>2. SessionStep => [Session!Next]_(Session!vars)
  BY DEF SessionStep
<1>3. UNCHANGED vars => UNCHANGED Session!vars
  BY DEF vars, drvVars, hwVars, Session!vars
<1> QED BY <1>1, <1>2, <1>3, SingleRuns, PTL DEF SingleSpec, SessionSpec, Session!Spec

=============================================================================
