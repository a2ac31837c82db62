------------------------------ MODULE LibGate ------------------------------
(***************************************************************************)
(* What a stream_lib promises to the code around it: a gate in front of    *)
(* the code of one rule library.  Threads pass the gate only while it is   *)
(* open, and the loader regards the library as closed only once the last   *)
(* thread that passed it has come back.                                    *)
(***************************************************************************)
CONSTANT Threads

VARIABLES gate,    \* "open", "draining" or "closed"
          inside   \* the threads that passed the gate and have not returned

gateVars == <<gate, inside>>

GateInit ==
  /\ gate = "closed"
  /\ inside = {}

Enter(t) ==
  /\ gate = "open"
  /\ t \notin inside
  /\ inside' = inside \cup {t}
  /\ UNCHANGED gate

Leave(t) ==
  /\ t \in inside
  /\ inside' = inside \ {t}
  /\ UNCHANGED gate

Open ==
  /\ gate = "closed"
  /\ gate' = "open"
  /\ UNCHANGED inside

Shut ==
  /\ gate = "open"
  /\ gate' = "draining"
  /\ UNCHANGED inside

Quiesce ==
  /\ gate = "draining"
  /\ inside = {}
  /\ gate' = "closed"
  /\ UNCHANGED inside

GateNext ==
  \/ \E t \in Threads : Enter(t) \/ Leave(t)
  \/ Open \/ Shut \/ Quiesce

GateSpec == GateInit /\ [][GateNext]_gateVars
=============================================================================
