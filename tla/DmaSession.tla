----------------------------- MODULE DmaSession -----------------------------
(***************************************************************************)
(* What the cyclic-DMA driver promises: at most one session at a time.     *)
(* The channels of a session are started before the session is declared    *)
(* open and have all stopped before it is declared closed; the direction   *)
(* setting only changes between sessions.                                  *)
(***************************************************************************)

VARIABLES
  dir,      \* directions a DRAM session will use: both, tx or rx
  session,  \* none, dram or sram
  busy      \* the directions whose channel transfers

vars == <<dir, session, busy>>

Direction == {"tx", "rx"}

\* An SRAM session always runs both directions.
Wanted(k) == IF k = "sram" \/ dir = "both" THEN Direction ELSE {dir}

Init == dir = "both" /\ session = "none" /\ busy = {}

SetDir(m) ==
  /\ session = "none" /\ busy = {}
  /\ dir' = m
  /\ UNCHANGED <<session, busy>>

Arm(d) ==
  /\ session = "none" /\ d \notin busy
  /\ busy' = busy \cup {d}
  /\ UNCHANGED <<dir, session>>

Open(k) ==
  /\ session = "none" /\ busy = Wanted(k)
  /\ session' = k
  /\ UNCHANGED <<dir, busy>>

Quiesce(d) ==
  /\ session # "none" /\ d \in busy
  /\ busy' = busy \ {d}
  /\ UNCHANGED <<dir, session>>

Close ==
  /\ session # "none" /\ busy = {}
  /\ session' = "none"
  /\ UNCHANGED <<dir, busy>>

Next ==
  \/ \E m \in {"both", "tx", "rx"} : SetDir(m)
  \/ \E d \in Direction : Arm(d) \/ Quiesce(d)
  \/ \E k \in {"dram", "sram"} : Open(k)
  \/ Close

Spec == Init /\ [][Next]_vars

=============================================================================
