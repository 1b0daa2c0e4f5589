------------------------- MODULE ADnEDServiceProofs -------------------------
(***************************************************************************)
(* ADnEDAcquire implements the safety part of ADnEDService: every step is  *)
(* a step of the service or leaves its variables alone.                    *)
(***************************************************************************)
EXTENDS ADnEDAcquireProofs

\* A step that changes nothing the service shows.
Silent == UNCHANGED <<ServiceState, Credit, StopReq, Monitoring>>

LEMMA SilentIsStutter == Silent => [Service!Next]_(Service!serviceVars)
  BY DEF Silent, Service!serviceVars

\* A step that leaves the variables of the mapping alone is silent.
LEMMA SameIsSilent ==
  ASSUME UNCHANGED <<startEvent, stopEvent, ADStatus, ePc, error, running>>
  PROVE  Silent
  BY DEF Silent, ServiceState, Credit, StopReq, Monitoring, Starting, Stopping

LEMMA InitService == Init => Service!Init
  BY DEF Init, Service!Init, ServiceState, Credit, StopReq, Monitoring, Starting, Stopping

\* An accepted start is a request; a stop too; a failed AllocSpace is an error.
LEMMA ClientService ==
  ASSUME FlagsOK, IInv, Client
  PROVE  [Service!Next]_(Service!serviceVars)
  <1> USE DEF FlagsOK, IInv, ValuesOK, clientVars, taskVars, buffer
  <1>0. /\ ~Starting /\ ~Stopping
        /\ ADStatus # "Acquire" => Service!Ready
        /\ UNCHANGED <<ePc, error, running>>
    BY DEF Client, LockInv, Service!Ready, ServiceState
  <1>1. ASSUME NEW v \in BusyValues, WriteStart(v)
        PROVE  Service!RequestStart \/ Silent
    <2>1. CASE AcceptStart
      <3> USE <1>0, <1>1, <2>1 DEF WriteStart, AcceptStart
      <3>1. Service!Ready
        OBVIOUS
      <3>2. UNCHANGED ServiceState
        BY DEF ServiceState, Starting, Stopping
      <3>3. UNCHANGED StopReq
        BY DEF StopReq
      <3>4. UNCHANGED Monitoring
        BY DEF Monitoring, Starting, Stopping
      <3>5. Credit' \in {Credit, Credit + 1}
        BY DEF Credit
      <3>6. Credit' \in 1 .. 2
        BY DEF Credit
      <3> QED
        BY <3>1, <3>2, <3>3, <3>4, <3>5, <3>6 DEF Service!RequestStart
    <2>2. CASE RefuseStart \/ ClearStart
      BY <1>0, <1>1, <2>2, SameIsSilent DEF WriteStart, RefuseStart, ClearStart
    <2> QED
      BY <1>1, <2>1, <2>2 DEF WriteStart
  <1>2. ASSUME NEW v \in BusyValues, WriteStop(v)
        PROVE  Service!RequestStop \/ Silent
    <2>1. CASE AcceptStop
      <3> USE <1>0, <1>2, <2>1 DEF WriteStop, AcceptStop
      <3>1. ServiceState = "Acquire" /\ UNCHANGED ServiceState
        BY DEF ServiceState, Starting, Stopping
      <3>2. StopReq' = TRUE
        BY DEF StopReq
      <3>3. UNCHANGED Credit
        BY DEF Credit
      <3>4. UNCHANGED Monitoring
        BY DEF Monitoring, Starting, Stopping
      <3> QED
        BY <3>1, <3>2, <3>3, <3>4 DEF Service!RequestStop
    <2>2. CASE RefuseStop \/ ClearStop
      BY <1>0, <1>2, <2>2, SameIsSilent DEF WriteStop, RefuseStop, ClearStop
    <2> QED
      BY <1>2, <2>1, <2>2 DEF WriteStop
  <1>3. CASE WriteAllocSpace
    <2>1. CASE ADStatus' = "Error"
      <3> USE <1>0, <1>3, <2>1 DEF WriteAllocSpace
      <3>1. Service!Ready
        OBVIOUS
      <3>2. ServiceState' = "Error"
        BY DEF ServiceState, Starting, Stopping
      <3>3. UNCHANGED StopReq
        BY DEF StopReq
      <3>4. UNCHANGED <<Credit, Monitoring>>
        BY DEF Credit, Monitoring, Starting, Stopping
      <3> QED
        BY <3>1, <3>2, <3>3, <3>4 DEF Service!ConfigError, Service!Next
    <2>2. CASE UNCHANGED ADStatus
      BY <1>0, <1>3, <2>2, SameIsSilent, SilentIsStutter DEF WriteAllocSpace
    <2> QED
      BY <1>3, <2>1, <2>2 DEF WriteAllocSpace
  <1>4. CASE \/ \E v \in {0, 1} : WritePause(v)
             \/ \E v \in CallbackValues : WriteArrayCallbacks(v)
             \/ \E v \in NumChannelsValues : WriteNumChannels(v)
             \/ WriteLayout
    BY <1>0, <1>4, SameIsSilent, SilentIsStutter
    DEF WritePause, WriteArrayCallbacks, WriteNumChannels, WriteLayout
  <1> QED
    BY <1>1, <1>2, <1>3, <1>4, SilentIsStutter DEF Client, Service!Next

\* eventTask begins and ends acquisitions; taking an event, connecting a channel and
\* stopping the monitors are silent.
LEMMA EventTaskService ==
  ASSUME FlagsOK, IInv, EventTask
  PROVE  [Service!Next]_(Service!serviceVars)
  <1> USE DEF FlagsOK, IInv, ValuesOK, StatusInv, ErrorInv, StopEventInv, NoStaleStop,
              RunningInv, Starting, Stopping, EvStep, events, taskVars
  <1>1. CASE DrainStop \/ PostIdle \/ TakeStart \/ ConnectChannel \/ TakeStop
    <2> USE <1>1 DEF DrainStop, PostIdle, TakeStart, ConnectChannel, TakeStop
    <2>1. UNCHANGED ServiceState
      BY DEF ServiceState
    <2>2. UNCHANGED Credit
      BY DEF Credit
    <2>3. UNCHANGED StopReq
      BY DEF StopReq
    <2>4. UNCHANGED Monitoring
      BY DEF Monitoring
    <2> QED
      BY <2>1, <2>2, <2>3, <2>4, SilentIsStutter DEF Silent
  <1>2. CASE ConnectFails \/ StartMonitors
    <2> USE <1>2 DEF ConnectFails, StartMonitors
    <2>1. UNCHANGED ServiceState
      BY DEF ServiceState
    <2>2. UNCHANGED <<Credit, Monitoring>>
      BY DEF Credit, Monitoring
    <2>3. UNCHANGED StopReq
      BY DEF StopReq
    <2> QED
      BY <2>1, <2>2, <2>3, SilentIsStutter DEF Silent
  <1>3. CASE BeginStart
    <2> USE <1>3 DEF BeginStart
    <2>1. Service!Ready
      BY DEF Service!Ready, ServiceState
    <2>2. Credit > 0 /\ Credit' = Credit - 1
      <3>1. ePc = "startLock" /\ ePc' # "startLock" /\ UNCHANGED startEvent
        OBVIOUS
      <3> QED
        BY <3>1 DEF Credit
    <2>3. ServiceState' = "Starting"
      BY DEF ServiceState
    <2>4. UNCHANGED StopReq
      BY DEF StopReq
    <2>5. UNCHANGED Monitoring
      BY DEF Monitoring
    <2> QED
      BY <2>1, <2>2, <2>3, <2>4, <2>5 DEF Service!BeginStart, Service!Next
  <1>4. CASE StartDone
    <2> USE <1>4 DEF StartDone
    <2>1. ServiceState = "Starting"
      BY DEF ServiceState
    <2>2. ServiceState' = IF error THEN "Error" ELSE "Acquire"
      BY DEF ServiceState
    <2>3. UNCHANGED StopReq
      BY DEF StopReq
    <2>4. UNCHANGED Credit
      BY DEF Credit
    <2>5. Monitoring' \in BOOLEAN /\ (error => UNCHANGED Monitoring)
      BY DEF Monitoring
    <2> QED
      BY <2>1, <2>2, <2>3, <2>4, <2>5 DEF Service!StartOk, Service!StartFails, Service!Next
  <1>5. CASE BeginStop
    <2> USE <1>5 DEF BeginStop
    <2>1. ServiceState = "Acquire" /\ ServiceState' = "Stopping"
      BY DEF ServiceState
    <2>2. StopReq /\ StopReq' = FALSE
      BY DEF StopReq
    <2>3. Monitoring' = FALSE
      BY DEF Monitoring
    <2>4. UNCHANGED Credit
      BY DEF Credit
    <2> QED
      BY <2>1, <2>2, <2>3, <2>4 DEF Service!BeginStop, Service!Next
  <1>6. CASE StopMonitors
    <2> USE <1>6 DEF StopMonitors
    <2>1. UNCHANGED ServiceState
      BY DEF ServiceState
    <2>2. UNCHANGED <<Credit, StopReq>>
      BY DEF Credit, StopReq
    <2>3. UNCHANGED Monitoring
      BY DEF Monitoring
    <2> QED
      BY <2>1, <2>2, <2>3, SilentIsStutter DEF Silent
  <1>7. CASE StopDone
    <2> USE <1>7 DEF StopDone
    <2>1. UNCHANGED <<Credit, StopReq>>
      BY DEF Credit, StopReq
    <2>2. UNCHANGED Monitoring
      BY DEF Monitoring
    <2>3. CASE error
      <3>1. UNCHANGED ServiceState
        BY <2>3 DEF ServiceState
      <3> QED
        BY <2>1, <2>2, <3>1, SilentIsStutter DEF Silent
    <2>4. CASE ~error
      <3>1. ServiceState = "Stopping" /\ ServiceState' = "Idle"
        BY <2>4 DEF ServiceState
      <3> QED
        BY <2>1, <2>2, <3>1 DEF Service!EndStop, Service!Next
    <2> QED
      BY <2>3, <2>4
  <1> QED
    BY <1>1, <1>2, <1>3, <1>4, <1>5, <1>6, <1>7 DEF EventTask

\* What frameTask does with the mutex and its events is not seen.
LEMMA FrameTaskService ==
  ASSUME FrameTask
  PROVE  [Service!Next]_(Service!serviceVars)
  BY SameIsSilent, SilentIsStutter DEF FrameTask, taskVars

LEMMA NextService ==
  ASSUME FlagsOK, IInv, [Next]_vars
  PROVE  [Service!Next]_(Service!serviceVars)
  <1>1. CASE UNCHANGED vars
    BY <1>1, SameIsSilent, SilentIsStutter DEF vars, events, taskVars
  <1> QED
    BY <1>1, ClientService, EventTaskService, FrameTaskService DEF Next

\* Acquisition control implements the safety part of ADnEDService for any number of
\* channels: an acquisition begins only for an accepted start and ends only for an
\* accepted stop, whatever clients write and whichever thread runs.
THEOREM AcquireImplementsService == SafetySpec => ImplementsServiceSafely
  <1>1. Init => Service!Init
    BY InitService
  <1>2. FlagsOK /\ IInv /\ [Next]_vars => [Service!Next]_(Service!serviceVars)
    BY NextService
  <1> QED
    BY <1>1, <1>2, Invariance, PTL
    DEF SafetySpec, ImplementsServiceSafely, Service!SafetySpec

-----------------------------------------------------------------------------
(* ADnEDAcquire also implements ADnEDMonitors.                             *)

\* The loop that connects has not passed the number of channels, if there are any.
LoopInv == ePc = "connect" => chan = 0 \/ chan <= numChannels

LEMMA NextLoop ==
  ASSUME IInv, LoopInv, [Next]_vars
  PROVE  LoopInv'
  <1> USE DEF IInv, ValuesOK, LoopInv, EvStep, taskVars, events
  <1>1. CASE Client \/ FrameTask \/ UNCHANGED vars
    BY <1>1 DEF Client, FrameTask, vars
  <1>2. CASE BeginStart
    BY <1>2 DEF BeginStart
  <1>3. CASE ConnectChannel
    BY <1>3 DEF ConnectChannel
  <1>4. CASE \/ DrainStop \/ PostIdle \/ TakeStart \/ ConnectFails \/ StartMonitors
             \/ StartDone \/ TakeStop \/ BeginStop \/ StopMonitors \/ StopDone
    <2>1. ePc' # "connect"
      BY <1>4 DEF DrainStop, PostIdle, TakeStart, ConnectFails, StartMonitors, StartDone,
        TakeStop, BeginStop, StopMonitors, StopDone
    <2> QED
      BY <2>1
  <1> QED
    BY <1>1, <1>2, <1>3, <1>4 DEF Next, EventTask

LEMMA LoopInvariance == SafetySpec => []LoopInv
  <1>1. Init => LoopInv
    BY DEF Init, LoopInv
  <1>2. FlagsOK /\ IInv /\ LoopInv /\ [Next]_vars => LoopInv'
    BY NextLoop
  <1> QED
    BY <1>1, <1>2, Invariance, PTL DEF SafetySpec

\* A step that leaves the variables of the mapping alone, or the phase off.
LEMMA SameMonitors ==
  ASSUME UNCHANGED <<monitors, running, Phase>>,
         Phase = "off" \/ UNCHANGED <<numChannels, chan>>
  PROVE  [Connecting!Next]_(Connecting!monitorVars)
  BY DEF Connecting!monitorVars, PhaseChannels, PhaseChan

LEMMA EventTaskMonitors ==
  ASSUME FlagsOK, IInv, LoopInv, EventTask
  PROVE  [Connecting!Next]_(Connecting!monitorVars)
  <1> USE DEF FlagsOK, IInv, ValuesOK, ErrorInv, RunningInv, EvStep, events, taskVars
  <1>1. CASE DrainStop \/ PostIdle \/ TakeStart \/ StartDone \/ TakeStop \/ BeginStop \/ StopDone
    <2> USE <1>1 DEF DrainStop, PostIdle, TakeStart, StartDone, TakeStop, BeginStop, StopDone
    <2>1. UNCHANGED Phase
      BY DEF Phase
    <2>2. UNCHANGED <<monitors, running, numChannels, chan>>
      OBVIOUS
    <2> QED
      BY <2>1, <2>2, SameMonitors
  <1>2. CASE BeginStart
    <2> USE <1>2 DEF BeginStart
    <2>1. Phase = "off" /\ UNCHANGED <<monitors, running>>
      BY DEF Phase
    \* The buffer was allocated.
    <2>2. CASE ePc' = "connect"
      <3>1. Phase' = "connecting"
        BY <2>2 DEF Phase
      <3>2. PhaseChannels' \in 0 .. MaxChannels /\ PhaseChan' = 0
        BY <3>1, MaxChannelsAssumption DEF PhaseChannels, PhaseChan, Clamp
      <3> QED
        BY <2>1, <3>1, <3>2 DEF Connecting!Begin, Connecting!Next
    <2>3. CASE ePc' = "startDone"
      <3>1. error'
        BY <2>3
      <3>2. Phase' = "off"
        BY <2>3, <3>1 DEF Phase
      <3> QED
        BY <2>1, <3>2, SameMonitors
    <2> QED
      BY <2>2, <2>3
  <1>3. CASE ConnectChannel
    <2> USE <1>3 DEF ConnectChannel
    <2>1. Phase = "connecting" /\ Phase' = "connecting"
      BY DEF Phase
    <2>2. /\ PhaseChannels = numChannels /\ UNCHANGED PhaseChannels
          /\ PhaseChan = chan /\ PhaseChan' = chan + 1
      BY <2>1 DEF PhaseChannels, PhaseChan
    <2> QED
      BY <2>1, <2>2 DEF Connecting!SetUp, Connecting!Next
  <1>4. CASE ConnectFails
    <2> USE <1>4 DEF ConnectFails
    <2>1. Phase = "connecting" /\ Phase' = "off"
      BY DEF Phase
    <2>2. /\ PhaseChannels = numChannels /\ PhaseChannels' = 0
          /\ PhaseChan = chan /\ PhaseChan' = 0
      BY <2>1 DEF PhaseChannels, PhaseChan
    <2> QED
      BY <2>1, <2>2 DEF Connecting!Fail, Connecting!Next
  <1>5. CASE StartMonitors
    <2> USE <1>5 DEF StartMonitors
    <2>1. Phase = "connecting" /\ Phase' = "on"
      BY DEF Phase
    <2>2. PhaseChan = PhaseChannels /\ UNCHANGED <<PhaseChannels, PhaseChan>>
      BY <2>1 DEF PhaseChannels, PhaseChan, LoopInv
    <2>3. running' = {c \in monitors : c < PhaseChannels}
      <3>1. running = {}
        OBVIOUS
      <3>2. \A c \in monitors : c < numChannels <=> c < PhaseChannels
        BY <2>1 DEF PhaseChannels, Channels
      <3> QED
        BY <3>1, <3>2
    <2> QED
      BY <2>1, <2>2, <2>3 DEF Connecting!StartAll, Connecting!Next
  \* Of an acquisition, or after a failed start, when there is nothing to stop.
  <1>6. CASE StopMonitors
    <2> USE <1>6 DEF StopMonitors
    <2>1. running' = {} /\ Phase' = "off"
      BY DEF Phase, Channels
    <2>2. CASE error
      BY <2>1, <2>2, SameMonitors DEF Phase
    <2>3. CASE ~error
      <3>1. Phase = "on"
        BY <2>3 DEF Phase
      <3>2. PhaseChannels' = 0 /\ PhaseChan' = 0
        BY <2>1 DEF PhaseChannels, PhaseChan
      <3> QED
        BY <2>1, <3>1, <3>2 DEF Connecting!StopAll, Connecting!Next
    <2> QED
      BY <2>2, <2>3
  <1> QED
    BY <1>1, <1>2, <1>3, <1>4, <1>5, <1>6 DEF EventTask

LEMMA NextMonitors ==
  ASSUME FlagsOK, IInv, LoopInv, [Next]_vars
  PROVE  [Connecting!Next]_(Connecting!monitorVars)
  <1>1. CASE Client \/ FrameTask \/ UNCHANGED vars
    <2>1. UNCHANGED <<ePc, taskVars>>
      BY <1>1 DEF Client, FrameTask, vars
    <2> QED
      BY <2>1, SameMonitors DEF taskVars, Phase
  <1> QED
    BY <1>1, EventTaskMonitors DEF Next

\* Acquisition control handles monitors as ADnEDMonitors promises, for any number of
\* channels and whatever number clients write: none is started before every channel was
\* set up, none after a failure, and every one that was started is stopped.
THEOREM AcquireImplementsMonitors == SafetySpec => ConnectsAsPromised
  <1>1. Init => Connecting!Init
    BY DEF Init, Connecting!Init, Phase, PhaseChannels, PhaseChan
  <1>2. FlagsOK /\ IInv /\ LoopInv /\ [Next]_vars =>
          [Connecting!Next]_(Connecting!monitorVars)
    BY NextMonitors
  <1> QED
    BY <1>1, <1>2, Invariance, LoopInvariance, PTL
    DEF SafetySpec, ConnectsAsPromised, Connecting!Spec
=============================================================================
