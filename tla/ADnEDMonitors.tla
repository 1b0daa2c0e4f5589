---------------------------- MODULE ADnEDMonitors ----------------------------
(***************************************************************************)
(* What connecting promises to acquisition control: channels are set up    *)
(* one after the other; monitors are started all together, once every      *)
(* channel of the acquisition was dealt with, and on those channels only;  *)
(* none is started when one channel fails; and a stop leaves none running. *)
(* A monitor once made is kept, for the next acquisition too.              *)
(*                                                                         *)
(* Two modules implement it: ADnEDAcquire, which leaves out how a channel  *)
(* is set up, and ADnEDChannel, which leaves out the other threads.  What  *)
(* the one takes for a step of connecting is thus what the other does.     *)
(***************************************************************************)
EXTENDS Integers

CONSTANT MaxChannels

VARIABLES
  phase,        \* "off", "connecting", or "on": the monitors were started
  numChannels,  \* of the acquisition, 0 when it is off
  chan,         \* the channel being set up, 0 when it is off
  monitors,     \* channels that have a monitor
  running       \* channels whose monitor is started

monitorVars == <<phase, numChannels, chan, monitors, running>>

Init ==
  /\ phase = "off" /\ numChannels = 0 /\ chan = 0
  /\ monitors = {} /\ running = {}

Begin ==
  /\ phase = "off" /\ phase' = "connecting"
  /\ numChannels' \in 0 .. MaxChannels /\ chan' = 0
  /\ UNCHANGED <<monitors, running>>

\* The channel gets a monitor, or has one, or is skipped.
SetUp ==
  /\ phase = "connecting" /\ chan < numChannels
  /\ chan' \in {chan, chan + 1}
  /\ monitors' \in {monitors, monitors \cup {chan}}
  /\ UNCHANGED <<phase, numChannels, running>>

Fail ==
  /\ phase = "connecting" /\ chan < numChannels
  /\ phase' = "off" /\ numChannels' = 0 /\ chan' = 0
  /\ UNCHANGED <<monitors, running>>

StartAll ==
  /\ phase = "connecting" /\ chan = numChannels
  /\ phase' = "on"
  /\ running' = {c \in monitors : c < numChannels}
  /\ UNCHANGED <<numChannels, chan, monitors>>

StopAll ==
  /\ phase = "on"
  /\ phase' = "off" /\ numChannels' = 0 /\ chan' = 0
  /\ running' = {}
  /\ UNCHANGED monitors

Next == Begin \/ SetUp \/ Fail \/ StartAll \/ StopAll

Spec == Init /\ [][Next]_monitorVars
=============================================================================
