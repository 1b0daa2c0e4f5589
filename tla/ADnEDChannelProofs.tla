------------------------- MODULE ADnEDChannelProofs -------------------------
(***************************************************************************)
(* Which PVs an acquisition monitors, for any number of channels and PVs,  *)
(* and whatever servers and clients do.                                    *)
(***************************************************************************)
EXTENDS ADnEDChannel, TLAPS

\* The types that the argument needs; the flags of pvAccess play no part in it.
Types ==
  /\ nameParam \in [Channels -> PVs \cup {Skip}] /\ pvName \in [Channels -> PVs \cup {Skip}]
  /\ channel \in [Channels -> PVs \cup {None}]
  /\ monitor \in [Channels -> {None, "current", "stale"}]
  /\ pc \in {"idle", "setup", "waitChannel", "monitor", "waitMonitor", "acquire"}
  /\ numChannels \in 0 .. MaxChannels /\ chan \in 0 .. numChannels
  /\ missed \subseteq Channels

Waiting == pc \in {"waitChannel", "monitor", "waitMonitor"}

\* A monitor of a destroyed channel is the one being replaced, or its channel has missed
\* its PV since.
StaleInv ==
  \A c \in Channels :
    /\ monitor[c] # None => channel[c] # None
    /\ monitor[c] = "stale" /\ c \notin missed =>
         pc \in {"waitChannel", "monitor"} /\ c = chan /\ newMonitor

\* The channel in hand: it is for the PV named, and a first channel has no monitor yet.
HandInv ==
  /\ Waiting => chan < numChannels /\ channel[chan] = pvName[chan] /\ pvName[chan] # Skip
  /\ pc = "waitChannel" /\ ~newMonitor => monitor[chan] = None
  /\ pc = "waitMonitor" => monitor[chan] = "current"

\* The channels that setupChannelMonitor is done with.
DoneInv ==
  /\ pc = "setup" \/ Waiting =>
       \A c \in Channels : c < chan /\ pvName[c] # Skip =>
         monitor[c] # None /\ channel[c] = pvName[c]
  /\ pc = "acquire" =>
       \A c \in Named : c \in running /\ monitor[c] # None /\ channel[c] = pvName[c]

IInv == Types /\ StaleInv /\ HandInv /\ DoneInv

-----------------------------------------------------------------------------
LEMMA InitIInv == Init => IInv
  <1> SUFFICES ASSUME Init PROVE IInv
    OBVIOUS
  <1>1. Types
    BY ChannelAssumption DEF Init, Types
  <1>2. StaleInv /\ HandInv /\ DoneInv
    BY NamesAssumption DEF Init, StaleInv, HandInv, DoneInv, Waiting
  <1> QED
    BY <1>1, <1>2 DEF IInv

LEMMA TypesNext == IInv /\ [Next]_vars => Types'
  <1> SUFFICES ASSUME IInv, [Next]_vars PROVE Types'
    OBVIOUS
  <1> USE DEF IInv, Types
  <1>1. CASE \E c \in Channels, name \in PVs \cup {Skip} : WriteName(c, name)
    BY <1>1 DEF WriteName, links, locals
  <1>2. CASE BeginStart
    BY <1>2, ChannelAssumption DEF BeginStart, links
  <1>3. CASE SkipChannel
    BY <1>3, ChannelAssumption DEF SkipChannel, links
  <1>4. CASE CreateChannel
    <2>1. chan \in Channels /\ pvName[chan] \in PVs
      BY <1>4, ChannelAssumption DEF CreateChannel, Channels
    <2> QED
      BY <1>4, <2>1 DEF CreateChannel
  <1>5. CASE KeepChannel
    BY <1>5 DEF KeepChannel, Fail, links
  <1>6. CASE WaitChannel
    <2>1. chan \in Channels
      BY <1>6, ChannelAssumption DEF WaitChannel, HandInv, Waiting, Channels
    <2> QED
      BY <1>6, <2>1 DEF WaitChannel, ChannelWaitEnds, links, locals
  <1>7. CASE MakeMonitor \/ WaitMonitor
    <2>1. chan + 1 \in 0 .. numChannels /\ chan \in Channels
      BY <1>7, ChannelAssumption DEF MakeMonitor, WaitMonitor, HandInv, Waiting, Channels
    <2> QED
      BY <1>7, <2>1 DEF MakeMonitor, WaitMonitor, links
  <1>8. CASE StartMonitors \/ Stop
    BY <1>8 DEF StartMonitors, Stop, links, locals
  <1>9. CASE \E c \in Channels : Connect(c) \/ Disconnect(c) \/ ChannelStateChange(c)
    BY <1>9 DEF Connect, Disconnect, ChannelStateChange, links, locals
  <1>10. CASE UNCHANGED vars
    BY <1>10 DEF vars, links, locals
  <1> QED
    BY <1>1, <1>2, <1>3, <1>4, <1>5, <1>6, <1>7, <1>8, <1>9, <1>10 DEF Next, Setup

\* Nothing that the argument is about changes.
LEMMA OthersIInv ==
  ASSUME IInv,
         UNCHANGED <<channel, monitor, pc, locals, running, missed>>
  PROVE  StaleInv' /\ HandInv' /\ DoneInv'
  BY DEF locals, IInv, StaleInv, HandInv, DoneInv, Waiting, Named

LEMMA SetupIInv ==
  ASSUME IInv, Types',
         BeginStart \/ SkipChannel \/ CreateChannel \/ KeepChannel \/ StartMonitors \/ Stop
  PROVE  StaleInv' /\ HandInv' /\ DoneInv'
  <1> USE ChannelAssumption, NamesAssumption DEF IInv, Types, Waiting, Channels
  <1>1. CASE BeginStart
    BY <1>1 DEF BeginStart, links, StaleInv, HandInv, DoneInv, Named
  <1>2. CASE SkipChannel
    <2>1. \A c \in Channels : c < chan + 1 => c < chan \/ c = chan
      OBVIOUS
    <2> QED
      BY <1>2, <2>1 DEF SkipChannel, links, StaleInv, HandInv, DoneInv, Named
  <1>3. CASE CreateChannel
    <2>1. chan \in Channels /\ chan < numChannels
      BY <1>3 DEF CreateChannel
    <2>2. StaleInv'
      <3> SUFFICES ASSUME NEW c \in Channels
                   PROVE  /\ monitor'[c] # None => channel'[c] # None
                          /\ monitor'[c] = "stale" => (c = chan /\ newMonitor') \/ c \in missed
        BY <1>3 DEF CreateChannel, StaleInv
      <3>1. CASE c = chan
        <4>0. channel[c] # None => newMonitor'
          BY <1>3, <3>1, Zenon DEF CreateChannel
        <4>1. channel'[c] = pvName[c]
          BY <1>3, <2>1, <3>1 DEF CreateChannel
        <4>2. monitor'[c] # None => monitor[c] # None
          BY <1>3, <2>1, <3>1 DEF CreateChannel
        <4>3. monitor[c] # None => channel[c] # None
          BY DEF StaleInv
        <4>4. pvName[c] # None
          OBVIOUS
        <4> QED
          BY <3>1, <4>0, <4>1, <4>2, <4>3, <4>4
      <3>2. CASE c # chan
        <4>1. channel'[c] = channel[c] /\ monitor'[c] = monitor[c] /\ pc = "setup"
          BY <1>3, <3>2 DEF CreateChannel
        <4> QED
          BY <4>1 DEF StaleInv
      <3> QED
        BY <3>1, <3>2
    <2>3. HandInv'
      BY <1>3, <2>1 DEF CreateChannel, StaleInv, HandInv
    <2>4. DoneInv'
      BY <1>3, <2>1 DEF CreateChannel, DoneInv
    <2> QED
      BY <2>2, <2>3, <2>4
  <1>4. CASE KeepChannel
    <2>1. chan \in Channels /\ chan < numChannels
      BY <1>4 DEF KeepChannel
    <2> QED
      BY <1>4, <2>1 DEF KeepChannel, Fail, links, StaleInv, HandInv, DoneInv
  <1>5. CASE StartMonitors
    BY <1>5 DEF StartMonitors, links, locals, StaleInv, HandInv, DoneInv, Named
  <1>6. CASE Stop
    BY <1>6 DEF Stop, links, locals, StaleInv, HandInv, DoneInv, Named
  <1> QED
    BY <1>1, <1>2, <1>3, <1>4, <1>5, <1>6

LEMMA WaitIInv ==
  ASSUME IInv, Types', WaitChannel \/ MakeMonitor \/ WaitMonitor
  PROVE  StaleInv' /\ HandInv' /\ DoneInv'
  <1> USE ChannelAssumption, NamesAssumption DEF IInv, Types, Waiting, Channels
  <1>0. chan \in Channels /\ chan < numChannels /\ channel[chan] = pvName[chan]
    BY DEF WaitChannel, MakeMonitor, WaitMonitor, HandInv
  <1>1. \A c \in Channels : c < chan + 1 => c < chan \/ c = chan
    OBVIOUS
  <1>2. CASE WaitChannel
    <2>1. StaleInv'
      <3>1. /\ pc = "waitChannel" /\ UNCHANGED <<channel, monitor, chan, newMonitor>>
            /\ \/ pc' = "monitor" /\ missed' = missed \ {chan}
               \/ missed' = IF monitor[chan] = None THEN missed ELSE missed \cup {chan}
        BY <1>2 DEF WaitChannel, ChannelWaitEnds, links, locals
      <3>2. ~newMonitor => monitor[chan] = None
        BY <3>1 DEF HandInv
      <3> QED
        BY <1>0, <3>1, <3>2 DEF StaleInv
    <2>2. HandInv' /\ DoneInv'
      BY <1>0, <1>2 DEF WaitChannel, ChannelWaitEnds, links, locals, HandInv, DoneInv
    <2> QED
      BY <2>1, <2>2
  <1>3. CASE MakeMonitor
    <2>1. StaleInv'
      <3>1. CASE monitor[chan] = None \/ newMonitor
        <4>1. /\ monitor' = [monitor EXCEPT ![chan] = "current"]
              /\ UNCHANGED <<channel, missed>> /\ pvName[chan] # None
          BY <1>0, <1>3, <3>1 DEF MakeMonitor
        <4> QED
          BY <1>0, <4>1 DEF StaleInv
      <3>2. CASE ~(monitor[chan] = None \/ newMonitor)
        <4>1. UNCHANGED <<monitor, channel, missed>> /\ ~newMonitor
          BY <1>3, <3>2 DEF MakeMonitor
        <4> QED
          BY <4>1 DEF StaleInv
      <3> QED
        BY <3>1, <3>2
    <2>2. HandInv'
      BY <1>0, <1>3 DEF MakeMonitor, HandInv
    <2>3. DoneInv'
      BY <1>0, <1>1, <1>3 DEF MakeMonitor, DoneInv, HandInv
    <2> QED
      BY <2>1, <2>2, <2>3
  <1>4. CASE WaitMonitor
    <2>1. StaleInv' /\ HandInv'
      BY <1>0, <1>4 DEF WaitMonitor, links, StaleInv, HandInv
    <2>2. DoneInv'
      <3>1. /\ pc' = "setup" /\ chan' = chan + 1 /\ UNCHANGED <<channel, monitor, pvName>>
            /\ monitor[chan] # None
        BY <1>4 DEF WaitMonitor, links, HandInv
      <3> QED
        BY <1>0, <1>1, <1>4, <3>1 DEF WaitMonitor, DoneInv
    <2> QED
      BY <2>1, <2>2
  <1> QED
    BY <1>2, <1>3, <1>4

LEMMA NextIInv == IInv /\ [Next]_vars => IInv'
  <1> SUFFICES ASSUME IInv, [Next]_vars PROVE IInv'
    OBVIOUS
  <1>0. Types'
    BY TypesNext
  <1>1. CASE \/ \E c \in Channels, name \in PVs \cup {Skip} : WriteName(c, name)
             \/ \E c \in Channels : Connect(c) \/ Disconnect(c) \/ ChannelStateChange(c)
             \/ UNCHANGED vars
    <2>1. UNCHANGED <<channel, monitor, pc, locals, running, missed>>
      BY <1>1 DEF WriteName, Connect, Disconnect, ChannelStateChange, links, vars
    <2> QED
      BY <1>0, <2>1, OthersIInv DEF IInv
  <1>2. CASE BeginStart \/ Setup \/ Stop
    BY <1>0, <1>2, SetupIInv, WaitIInv DEF Setup, IInv
  <1> QED
    BY <1>1, <1>2 DEF Next

\* An acquisition monitors the PVs named when it started, on every channel that has not
\* missed its new PV, for any number of channels and names.
THEOREM MonitorsNamed == Spec => []RunningOnNamedPV
  <1>1. IInv => RunningOnNamedPV
    BY DEF IInv, Types, StaleInv, DoneInv, RunningOnNamedPV, Named
  <1> QED
    BY <1>1, InitIInv, NextIInv, PTL DEF Spec

-----------------------------------------------------------------------------
(* Type correctness: what is told of pvAccess and by it.                   *)

Flags ==
  /\ connected \in [Channels -> BOOLEAN]
  /\ connectEvent \in BOOLEAN /\ newMonitor \in BOOLEAN

Sets == announced \subseteq Channels /\ running \subseteq Channels

\* The steps of setupChannelMonitor that set a flag; all others leave the flags alone.
LEMMA FlagsNext ==
  ASSUME IInv, Flags, [Next]_vars
  PROVE  Flags'
  <1>1. CASE UNCHANGED <<connected, connectEvent, newMonitor>>
    BY <1>1 DEF Flags
  <1>2. CASE BeginStart
    BY <1>2, Zenon DEF BeginStart, Flags, links, told
  <1>3. CASE CreateChannel
    <2>1. /\ newMonitor' = (channel[chan] # None)
          /\ connected' = [connected EXCEPT ![chan] = FALSE]
          /\ UNCHANGED connectEvent
      BY <1>3, Zenon DEF CreateChannel, told
    <2>2. newMonitor' \in BOOLEAN
      BY <2>1, Zenon
    <2>3. connected' \in [Channels -> BOOLEAN]
      BY <2>1 DEF Flags
    <2> QED
      BY <2>1, <2>2, <2>3 DEF Flags
  <1>4. CASE KeepChannel
    <2>1. newMonitor' = FALSE \/ UNCHANGED newMonitor
      BY <1>4, Zenon DEF KeepChannel, Fail
    <2> QED
      BY <1>4, <2>1, Zenon DEF KeepChannel, Flags, links, told
  <1>5. CASE WaitChannel
    BY <1>5, Zenon DEF WaitChannel, ChannelWaitEnds, Flags, links, locals
  <1>6. CASE \E c \in Channels : Connect(c) \/ Disconnect(c)
    <2>1. PICK c \in Channels : Connect(c) \/ Disconnect(c)
      BY <1>6
    <2>2. UNCHANGED <<connectEvent, newMonitor>>
      BY <2>1 DEF Connect, Disconnect, told, locals
    <2>3. \/ connected' = [connected EXCEPT ![c] = TRUE]
          \/ connected' = [connected EXCEPT ![c] = FALSE]
      BY <2>1 DEF Connect, Disconnect
    <2> QED
      BY <2>2, <2>3 DEF Flags
  <1>7. CASE \E c \in Channels : ChannelStateChange(c)
    BY <1>7, Zenon DEF ChannelStateChange, Flags, links, locals
  <1>8. ASSUME \/ \E c \in Channels, name \in PVs \cup {Skip} : WriteName(c, name)
               \/ SkipChannel \/ StartMonitors \/ Stop \/ MakeMonitor \/ WaitMonitor
               \/ UNCHANGED vars
        PROVE  UNCHANGED <<connected, connectEvent, newMonitor>>
    BY <1>8 DEF WriteName, SkipChannel, StartMonitors, Stop, MakeMonitor, WaitMonitor,
                vars, links, told, locals
  <1> QED
    BY <1>1, <1>2, <1>3, <1>4, <1>5, <1>6, <1>7, <1>8 DEF Next, Setup

LEMMA SetsNext ==
  ASSUME Sets, [Next]_vars
  PROVE  Sets'
  <1>1. CASE \/ \E c \in Channels, name \in PVs \cup {Skip} : WriteName(c, name)
             \/ BeginStart \/ SkipChannel \/ CreateChannel \/ KeepChannel \/ WaitChannel
             \/ MakeMonitor \/ WaitMonitor \/ UNCHANGED vars
    <2>1. UNCHANGED <<announced, running>>
      BY <1>1 DEF WriteName, BeginStart, SkipChannel, CreateChannel, KeepChannel, WaitChannel,
                  ChannelWaitEnds, MakeMonitor, WaitMonitor, vars, links, told, locals
    <2> QED
      BY <2>1 DEF Sets
  <1>2. CASE StartMonitors \/ Stop
    BY <1>2 DEF StartMonitors, Stop, Sets, told
  <1>3. CASE \E c \in Channels : Connect(c) \/ Disconnect(c) \/ ChannelStateChange(c)
    BY <1>3 DEF Connect, Disconnect, ChannelStateChange, Sets, told
  <1> QED
    BY <1>1, <1>2, <1>3 DEF Next, Setup

\* Every variable has its type: setupChannelMonitor never leaves the channels that it was
\* called for, and p_Monitor and p_Channel hold what the loop put there.
THEOREM TypeCorrect == Spec => []TypeOK
  <1>1. Init => IInv /\ Flags /\ Sets
    <2> SUFFICES ASSUME Init PROVE Flags /\ Sets
      BY InitIInv
    <2> QED
      BY DEF Init, Flags, Sets
  <1>2. IInv /\ Flags /\ Sets /\ [Next]_vars => (IInv /\ Flags /\ Sets)'
    BY NextIInv, FlagsNext, SetsNext
  <1>3. IInv /\ Flags /\ Sets => TypeOK
    BY Zenon DEF IInv, Types, Flags, Sets, TypeOK
  <1> QED
    BY <1>1, <1>2, <1>3, PTL DEF Spec

-----------------------------------------------------------------------------
(* ADnEDChannel implements ADnEDMonitors: a step of setupChannelMonitor is *)
(* a step of setting a channel up, or is not seen.                         *)

LEMMA InitMonitors == Init => Connecting!Init
  BY DEF Init, Connecting!Init, Phase, PhaseChannels, PhaseChan, Monitors

\* A step that leaves the variables of the mapping alone.
LEMMA SameMonitors ==
  ASSUME UNCHANGED <<Phase, numChannels, chan, Monitors, running>>
  PROVE  [Connecting!Next]_(Connecting!monitorVars)
  BY DEF Connecting!monitorVars, PhaseChannels, PhaseChan

\* A step between the parts of setupChannelMonitor, which may give the channel a monitor.
LEMMA StepSetsUp ==
  ASSUME Phase = "connecting", Phase' = "connecting", chan < numChannels,
         UNCHANGED <<numChannels, running>>,
         chan' \in {chan, chan + 1}, Monitors' \in {Monitors, Monitors \cup {chan}}
  PROVE  [Connecting!Next]_(Connecting!monitorVars)
  <1>1. /\ PhaseChannels = numChannels /\ UNCHANGED PhaseChannels
        /\ PhaseChan = chan /\ PhaseChan' = chan'
    BY DEF PhaseChannels, PhaseChan
  <1> QED
    BY <1>1 DEF Connecting!SetUp, Connecting!Next

\* The start is given up.
LEMMA StepFails ==
  ASSUME Phase = "connecting", pc' = "idle", chan < numChannels, UNCHANGED <<monitor, running>>
  PROVE  [Connecting!Next]_(Connecting!monitorVars)
  <1>1. /\ Phase' = "off" /\ PhaseChannels = numChannels /\ PhaseChan = chan
        /\ PhaseChannels' = 0 /\ PhaseChan' = 0
    BY DEF Phase, PhaseChannels, PhaseChan
  <1>2. UNCHANGED Monitors
    BY DEF Monitors
  <1> QED
    BY <1>1, <1>2 DEF Connecting!Fail, Connecting!Next

LEMMA SetupMonitors ==
  ASSUME IInv, Setup
  PROVE  [Connecting!Next]_(Connecting!monitorVars)
  <1> USE DEF IInv, Types, links, locals, told
  <1>1. CASE SkipChannel
    <2> USE <1>1 DEF SkipChannel
    <2>1. Phase = "connecting" /\ Phase' = "connecting" /\ UNCHANGED Monitors
      BY DEF Phase, Monitors
    <2> QED
      BY <2>1, StepSetsUp
  \* The monitor of a channel that is destroyed stays.
  <1>2. CASE CreateChannel
    <2> USE <1>2 DEF CreateChannel
    <2>1. Phase = "connecting" /\ Phase' = "connecting"
      BY DEF Phase
    <2>2. \A c \in Channels : monitor'[c] = None <=> monitor[c] = None
      BY NamesAssumption
    <2>3. UNCHANGED Monitors
      BY <2>2 DEF Monitors
    <2> QED
      BY <2>1, <2>3, StepSetsUp
  <1>3. CASE KeepChannel
    <2> USE <1>3 DEF KeepChannel
    <2>1. Phase = "connecting" /\ UNCHANGED Monitors
      BY DEF Phase, Monitors
    <2>2. CASE connected[chan]
      <3>1. Phase' = "connecting"
        BY <2>2 DEF Phase
      <3> QED
        BY <2>1, <3>1, StepSetsUp
    <2>3. CASE ~connected[chan]
      BY <2>1, <2>3, StepFails DEF Fail
    <2> QED
      BY <2>2, <2>3
  <1>4. CASE WaitChannel
    <2> USE <1>4 DEF WaitChannel, ChannelWaitEnds
    <2>1. Phase = "connecting" /\ chan < numChannels /\ UNCHANGED Monitors
      BY DEF Phase, Monitors, HandInv, Waiting
    <2>2. CASE pc' = "monitor"
      <3>1. Phase' = "connecting"
        BY <2>2 DEF Phase
      <3> QED
        BY <2>1, <3>1, StepSetsUp
    <2>3. CASE pc' = "idle"
      BY <2>1, <2>3, StepFails
    <2> QED
      BY <2>2, <2>3
  <1>5. CASE MakeMonitor
    <2> USE <1>5 DEF MakeMonitor
    <2>1. Phase = "connecting" /\ Phase' = "connecting" /\ chan < numChannels /\ chan \in Channels
      BY ChannelAssumption DEF Phase, HandInv, Waiting, Channels
    <2>2. Monitors' \in {Monitors, Monitors \cup {chan}}
      <3>1. CASE monitor' = [monitor EXCEPT ![chan] = "current"]
        BY <2>1, <3>1, NamesAssumption DEF Monitors
      <3>2. CASE UNCHANGED monitor
        BY <3>2 DEF Monitors
      <3> QED
        BY <3>1, <3>2
    <2> QED
      BY <2>1, <2>2, StepSetsUp
  <1>6. CASE WaitMonitor
    <2> USE <1>6 DEF WaitMonitor
    <2>1. /\ Phase = "connecting" /\ Phase' = "connecting" /\ chan < numChannels
          /\ UNCHANGED Monitors
      BY DEF Phase, Monitors, HandInv, Waiting
    <2> QED
      BY <2>1, StepSetsUp
  <1>7. CASE StartMonitors
    <2> USE <1>7 DEF StartMonitors
    <2>1. Phase = "connecting" /\ Phase' = "on" /\ UNCHANGED Monitors
      BY DEF Phase, Monitors
    <2>2. /\ PhaseChannels = numChannels /\ PhaseChan = chan
          /\ UNCHANGED <<PhaseChannels, PhaseChan>>
      BY <2>1 DEF PhaseChannels, PhaseChan
    <2>3. running' = {c \in Monitors : c < PhaseChannels}
      BY <2>2 DEF Monitors
    <2> QED
      BY <2>1, <2>2, <2>3 DEF Connecting!StartAll, Connecting!Next
  <1> QED
    BY <1>1, <1>2, <1>3, <1>4, <1>5, <1>6, <1>7 DEF Setup

LEMMA NextMonitors ==
  ASSUME IInv, [Next]_vars
  PROVE  [Connecting!Next]_(Connecting!monitorVars)
  <1> USE DEF links, locals
  \* Clients and pvAccess.
  <1>1. CASE \/ \E c \in Channels, name \in PVs \cup {Skip} : WriteName(c, name)
             \/ \E c \in Channels : Connect(c) \/ Disconnect(c) \/ ChannelStateChange(c)
             \/ UNCHANGED vars
    <2>1. UNCHANGED <<pc, numChannels, chan, monitor, running>>
      BY <1>1 DEF WriteName, Connect, Disconnect, ChannelStateChange, vars
    <2> QED
      BY <2>1, SameMonitors DEF Phase, Monitors
  <1>2. CASE BeginStart
    <2> USE <1>2 DEF BeginStart
    <2>1. Phase = "off" /\ Phase' = "connecting" /\ UNCHANGED <<Monitors, running>>
      BY DEF Phase, Monitors
    <2>2. PhaseChannels' \in 0 .. MaxChannels /\ PhaseChan' = 0
      BY <2>1 DEF PhaseChannels, PhaseChan
    <2> QED
      BY <2>1, <2>2 DEF Connecting!Begin, Connecting!Next
  <1>3. CASE Stop
    <2> USE <1>3 DEF Stop
    <2>1. Phase = "on" /\ Phase' = "off" /\ UNCHANGED Monitors
      BY DEF Phase, Monitors
    <2>2. PhaseChannels' = 0 /\ PhaseChan' = 0
      BY <2>1 DEF PhaseChannels, PhaseChan
    <2> QED
      BY <2>1, <2>2 DEF Connecting!StopAll, Connecting!Next
  <1> QED
    BY <1>1, <1>2, <1>3, SetupMonitors DEF Next

\* Connecting does what ADnEDMonitors promises, for any number of channels and names and
\* whatever servers do: what acquisition control takes for one step of connecting is what
\* setupChannelMonitor does in several.
THEOREM ChannelImplementsMonitors == Spec => ConnectsAsPromised
  <1>1. IInv /\ [Next]_vars => [Connecting!Next]_(Connecting!monitorVars)
    BY NextMonitors
  <1> QED
    BY <1>1, InitMonitors, InitIInv, NextIInv, PTL
    DEF Spec, ConnectsAsPromised, Connecting!Spec
=============================================================================
