---------------------------- MODULE ADnEDChannel ----------------------------
(***************************************************************************)
(* How ADnED connects to its pvAccess channels: setupChannelMonitor        *)
(* (ADnEDApp/src/ADnED.cpp), which eventTask calls for every channel at a  *)
(* start, and the nEDChannelRequester of ADnEDApp/src/nEDChannel.cpp,      *)
(* which pvAccess threads call when a channel connects.                    *)
(*                                                                         *)
(* There is one nEDChannelRequester, hence one connect event, for all the  *)
(* channels.  eventTask holds the driver's mutex through a start.  The     *)
(* requester does not need it, so its calls interleave with every step.    *)
(*                                                                         *)
(* Abstracted: why pvAccess cannot make a channel (setupChannelMonitor     *)
(* throws, as after a timeout), and the updates (module ADnEDEvents).      *)
(***************************************************************************)
EXTENDS Integers

CONSTANTS
  MaxChannels,   \* s_ADNED_MAX_CHANNELS
  PVs,           \* the PV names that clients write
  Disconnects    \* whether servers go away again

ASSUME ChannelAssumption == MaxChannels \in Nat \ {0} /\ Disconnects \in BOOLEAN

\* A name that begins with the character '0' is skipped (line 1550).
CONSTANTS Skip, None
ASSUME NamesAssumption == Skip \notin PVs /\ None \notin PVs \cup {Skip, "current", "stale"}

VARIABLES
  nameParam,      \* ADnEDPVNameParam of each channel
  channel,        \* p_Channel: the PV it is for, or None
  connected,      \* p_Channel is connected
  monitor,        \* p_Monitor: None, "current" or "stale" (of a channel destroyed since)
  announced,      \* channels whose connection pvAccess has yet to tell the requester
  connectEvent,   \* m_connectEvent of the nEDChannelRequester
  pc,             \* eventTask
  numChannels, pvName, chan, newMonitor,   \* its locals
  running,        \* channels whose monitor was started
  missed          \* history: channels that had a monitor, and whose new PV did not
                  \* connect in time

links   == <<channel, connected, monitor>>
locals  == <<numChannels, pvName, chan, newMonitor>>
told    == <<announced, connectEvent>>
vars == <<nameParam, links, told, pc, locals, running, missed>>

Channels == 0 .. MaxChannels - 1

Init ==
  /\ nameParam \in [Channels -> PVs]
  /\ channel = [c \in Channels |-> None]
  /\ connected = [c \in Channels |-> FALSE]
  /\ monitor = [c \in Channels |-> None]
  /\ announced = {} /\ connectEvent = FALSE
  /\ pc = "idle" /\ numChannels = 0 /\ chan = 0 /\ newMonitor = FALSE
  /\ pvName = nameParam
  /\ running = {} /\ missed = {}

-----------------------------------------------------------------------------
(* Clients, and eventTask around setupChannelMonitor.                      *)

WriteName(c, name) ==
  /\ pc \in {"idle", "acquire"}
  /\ nameParam' = [nameParam EXCEPT ![c] = name]
  /\ UNCHANGED <<links, told, pc, locals, running, missed>>

BeginStart ==
  /\ pc = "idle" /\ pc' = "setup"
  /\ numChannels' \in 0 .. MaxChannels
  /\ pvName' = nameParam
  /\ chan' = 0 /\ newMonitor' = FALSE
  /\ UNCHANGED <<nameParam, links, told, running, missed>>

SkipChannel ==
  /\ pc = "setup" /\ chan < numChannels
  /\ pvName[chan] = Skip
  /\ chan' = chan + 1
  /\ UNCHANGED <<nameParam, links, told, pc, numChannels, pvName, newMonitor, running, missed>>

\* Mutant: the monitors of channels that the acquisition does not have are started too.
StartMonitorsAll ==
  /\ pc = "setup" /\ chan = numChannels
  /\ pc' = "acquire"
  /\ running' = {c \in Channels : monitor[c] # None}
  /\ UNCHANGED <<nameParam, links, told, locals, missed>>

\* Every monitor there is, those of skipped channels included.
StartMonitors ==
  /\ pc = "setup" /\ chan = numChannels
  /\ pc' = "acquire"
  /\ running' = {c \in Channels : c < numChannels /\ monitor[c] # None}
  /\ UNCHANGED <<nameParam, links, told, locals, missed>>

Stop ==
  /\ pc = "acquire" /\ pc' = "idle"
  /\ running' = {}
  /\ UNCHANGED <<nameParam, links, told, locals, missed>>

-----------------------------------------------------------------------------
(* setupChannelMonitor.                                                    *)

\* The exception ends the start; the monitors that exist are not started.
Fail == pc' = "idle" /\ UNCHANGED newMonitor

\* No channel yet, or a channel for another PV, which is destroyed.
CreateChannel ==
  /\ pc = "setup" /\ chan < numChannels
  /\ pvName[chan] \notin {Skip, channel[chan]}
  /\ pc' = "waitChannel"
  /\ newMonitor' = (channel[chan] # None)
  /\ channel' = [channel EXCEPT ![chan] = pvName[chan]]
  /\ connected' = [connected EXCEPT ![chan] = FALSE]
  /\ monitor' = [monitor EXCEPT ![chan] = IF @ = None THEN None ELSE "stale"]
  /\ UNCHANGED <<nameParam, told, numChannels, pvName, chan, running, missed>>

KeepChannel ==
  /\ pc = "setup" /\ chan < numChannels
  /\ pvName[chan] = channel[chan]
  /\ IF connected[chan] THEN pc' = "monitor" /\ newMonitor' = FALSE ELSE Fail
  /\ UNCHANGED <<nameParam, links, told, numChannels, pvName, chan, running, missed>>

\* connectStatus: of the wait for a first channel, of isConnected for a later one.
Connects(signalled) == IF newMonitor THEN connected[chan] ELSE signalled

ChannelWaitEnds(signalled) ==
  /\ \/ Connects(signalled) /\ pc' = "monitor" /\ missed' = missed \ {chan}
     \/ /\ ~Connects(signalled) /\ pc' = "idle"
        /\ missed' = IF monitor[chan] = None THEN missed ELSE missed \cup {chan}
  /\ connectEvent' = FALSE
  /\ UNCHANGED <<nameParam, links, announced, locals, running>>

\* Mutant: a wait without a timeout.
WaitChannelForever == pc = "waitChannel" /\ connectEvent /\ ChannelWaitEnds(TRUE)

\* The event, or the timeout.
WaitChannel == pc = "waitChannel" /\ ChannelWaitEnds(connectEvent)

\* Mutant: only a channel without a monitor gets one.
MakeMonitorOnce ==
  /\ pc = "monitor"
  /\ IF monitor[chan] = None
     THEN /\ monitor' = [monitor EXCEPT ![chan] = "current"]
          /\ pc' = "waitMonitor" /\ UNCHANGED chan
     ELSE /\ UNCHANGED monitor
          /\ pc' = "setup" /\ chan' = chan + 1
  /\ UNCHANGED <<nameParam, channel, connected, told, numChannels, pvName, newMonitor,
                 running, missed>>

MakeMonitor ==
  /\ pc = "monitor"
  /\ IF monitor[chan] = None \/ newMonitor
     THEN /\ monitor' = [monitor EXCEPT ![chan] = "current"]
          /\ pc' = "waitMonitor" /\ UNCHANGED chan
     ELSE /\ UNCHANGED monitor
          /\ pc' = "setup" /\ chan' = chan + 1
  /\ UNCHANGED <<nameParam, channel, connected, told, numChannels, pvName, newMonitor,
                 running, missed>>

\* The event of the monitor's requester, or the timeout: setupChannelMonitor does not
\* look which, so the event is left out.
WaitMonitor ==
  /\ pc = "waitMonitor" /\ pc' = "setup"
  /\ chan' = chan + 1
  /\ UNCHANGED <<nameParam, links, told, numChannels, pvName, newMonitor, running, missed>>

Setup ==
  \/ SkipChannel \/ CreateChannel \/ KeepChannel \/ WaitChannel
  \/ MakeMonitor \/ WaitMonitor \/ StartMonitors

-----------------------------------------------------------------------------
(* pvAccess: servers come and go; it then calls the requesters.            *)

Connect(c) ==
  /\ channel[c] # None /\ ~connected[c]
  /\ connected' = [connected EXCEPT ![c] = TRUE]
  /\ announced' = announced \cup {c}
  /\ UNCHANGED <<nameParam, channel, monitor, connectEvent, pc, locals, running, missed>>

Disconnect(c) ==
  /\ Disconnects
  /\ connected[c]
  /\ connected' = [connected EXCEPT ![c] = FALSE]
  /\ UNCHANGED <<nameParam, channel, monitor, told, pc, locals, running, missed>>

\* nEDChannelRequester::channelStateChange, also for a channel destroyed meanwhile.
ChannelStateChange(c) ==
  /\ c \in announced
  /\ announced' = announced \ {c}
  /\ connectEvent' = TRUE
  /\ UNCHANGED <<nameParam, links, pc, locals, running, missed>>

-----------------------------------------------------------------------------
Next ==
  \/ \E c \in Channels, name \in PVs \cup {Skip} : WriteName(c, name)
  \/ BeginStart \/ Setup \/ Stop
  \/ \E c \in Channels : Connect(c) \/ Disconnect(c) \/ ChannelStateChange(c)

\* eventTask goes on: its waits have timeouts.  Servers and clients need do nothing.
Spec == Init /\ [][Next]_vars /\ WF_vars(Setup)

-----------------------------------------------------------------------------
(* Properties.                                                             *)

Named == {c \in Channels : c < numChannels /\ pvName[c] # Skip}

\* Every variable has its type.
TypeOK ==
  /\ nameParam \in [Channels -> PVs \cup {Skip}] /\ pvName \in [Channels -> PVs \cup {Skip}]
  /\ channel \in [Channels -> PVs \cup {None}]
  /\ connected \in [Channels -> BOOLEAN]
  /\ monitor \in [Channels -> {None, "current", "stale"}]
  /\ announced \subseteq Channels /\ connectEvent \in BOOLEAN /\ newMonitor \in BOOLEAN
  /\ pc \in {"idle", "setup", "waitChannel", "monitor", "waitMonitor", "acquire"}
  /\ numChannels \in 0 .. MaxChannels /\ chan \in 0 .. numChannels
  /\ running \subseteq Channels /\ missed \subseteq Channels

\* An acquisition monitors, on every named channel, the PV that had been written when
\* it started, after any renaming, failed start, late or lost connection; except where
\* a new PV did not connect in time and has not been replaced since.
RunningOnNamedPV ==
  pc = "acquire" =>
    \A c \in Named \ missed :
      c \in running /\ monitor[c] = "current" /\ channel[c] = pvName[c]

\* A start ends, whatever the servers do: eventTask keeps the mutex meanwhile, and
\* every client of the driver waits.
SetupEnds == pc = "setup" ~> pc \in {"idle", "acquire"}

\* The phases of ADnEDMonitors; the locals count in an acquisition only.
Phase ==
  CASE pc = "idle" -> "off"
    [] pc = "acquire" -> "on"
    [] OTHER -> "connecting"

PhaseChannels == IF Phase = "off" THEN 0 ELSE numChannels
PhaseChan     == IF Phase = "off" THEN 0 ELSE chan

Monitors == {c \in Channels : monitor[c] # None}

Connecting == INSTANCE ADnEDMonitors WITH
  phase <- Phase, numChannels <- PhaseChannels, chan <- PhaseChan, monitors <- Monitors

\* setupChannelMonitor and the loops around it do what ADnEDMonitors promises, whatever
\* servers and clients do meanwhile: a monitor is made or replaced but never lost, and
\* those started are those of the acquisition's channels, after the last one was set up.
ConnectsAsPromised == Connecting!Spec

\* "The V4 pvAccess PV name for channel $(CHAN)" is the one that is monitored: the same
\* without the exception.
MonitorsNamedPV ==
  pc = "acquire" => \A c \in Named : monitor[c] = "current" /\ channel[c] = pvName[c]
=============================================================================
