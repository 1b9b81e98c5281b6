----------------------------- MODULE SlotAccess -----------------------------
(***************************************************************************)
(* What one station promises its neighbours about the slot it sends in,     *)
(* whatever it knows of them.  It listens, chooses a slot, requests it by   *)
(* sending in it once, and works in it when the slot has come round again;  *)
(* a station that works may move.  The slot can be lost at any time, and    *)
(* the way back to work leads through a new request.                        *)
(*                                                                          *)
(* SATMAC is implemented twice, by the slot handler of the simulation       *)
(* (module Satmac) and by the state machines of the FPGA (TdmaControl):     *)
(* both are shown to implement this specification.                          *)
(***************************************************************************)
CONSTANT Slots

VARIABLES
  phase,     \* "listening", "chosen", "requested" or "working"
  slot,      \* the slot of a station that is not listening
  on_air     \* the station sends, or may send, in the current slot

vars == <<phase, slot, on_air>>

Init == phase = "listening" /\ on_air = FALSE

\* A slot is chosen.  What was chosen before is forgotten.
Choose ==
  /\ phase = "listening" /\ phase' = "chosen"
  /\ slot' \in Slots
  /\ UNCHANGED on_air

\* The slot that was chosen is requested, and no other; a station may choose
\* and request the current slot in one step.
Request ==
  /\ phase \in {"listening", "chosen"} /\ phase' = "requested"
  /\ slot' \in Slots
  /\ phase = "chosen" => slot' = slot
  /\ on_air' \in BOOLEAN

\* The slot that was requested has come again.
Grant ==
  /\ phase = "requested" /\ phase' = "working"
  /\ ~on_air
  /\ slot' = slot
  /\ on_air' \in BOOLEAN

\* A station that works sends, stops sending, or moves to another slot.
Work ==
  /\ phase = "working" /\ phase' = "working"
  /\ slot' \in Slots
  /\ on_air' \in BOOLEAN

\* What was sent with a request is over (or begins to be sent).
Send ==
  /\ phase = "requested"
  /\ on_air' \in BOOLEAN
  /\ UNCHANGED <<phase, slot>>

\* The slot is given up, never while something is sent in it, and perhaps
\* another one is chosen.
Lose ==
  /\ phase # "listening" /\ ~on_air
  /\ \/ phase' = "listening"
     \/ phase' = "chosen" /\ slot' \in Slots
  /\ UNCHANGED on_air

Next == Choose \/ Request \/ Grant \/ Work \/ Send \/ Lose

Spec == Init /\ [][Next]_vars
=============================================================================
