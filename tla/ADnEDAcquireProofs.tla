------------------------- MODULE ADnEDAcquireProofs -------------------------
(***************************************************************************)
(* The safety properties of ADnEDAcquire for every number of channels and  *)
(* whatever the clients write, from the inductive invariant IInv.          *)
(***************************************************************************)
EXTENDS ADnEDAcquire, TLAPS

\* eventTask owns the mutex exactly in the two sections it takes it for.
LockInv == lockOwner = "event" <=> (Starting \/ Stopping)

\* ADStatus says Acquire exactly from the allocation to the stop, and Idle during it.
StatusInv ==
  /\ ADStatus = "Acquire" <=>
       \/ ePc \in {"connect", "acquire", "stopLock"}
       \/ ePc = "startDone" /\ ~error
  /\ Stopping => ADStatus = "Idle"

\* The error flag is off while an acquisition is set up and runs, and on in
\* Error when eventTask leaves a failed start.
ErrorInv ==
  /\ ePc \in {"startLock", "connect", "acquire", "stopLock"} => ~error
  /\ ePc = "startDone" /\ error => running = {}

\* Only monitors of this acquisition run, and only during it.
RunningInv ==
  /\ \A c \in running : c < numChannels
  /\ running # {} => \/ ePc \in {"acquire", "stopLock"}
                     \/ ePc \in {"startDone", "stopMonitors"} /\ ~error

\* No stop event is left once eventTask has set ADStatus to anything but Acquire
\* and has passed the wait of line 1494, or has taken the error path.
StopEventInv ==
  /\ NoStaleStop
  /\ ePc \in {"stopMonitors", "stopDone"} /\ error => ~stopEvent

\* An up to date layout has a buffer.
BufferInv == ~dataAlloc => pData

IInv ==
  /\ ValuesOK
  /\ LockInv /\ StatusInv /\ ErrorInv /\ RunningInv /\ StopEventInv /\ BufferInv
  /\ ConfigFrozen /\ BusyIsServed

-----------------------------------------------------------------------------
(* The flags by themselves.                                                *)

LEMMA InitFlags == Init => FlagsOK
  BY Zenon DEF Init, FlagsOK

LEMMA NextFlags == FlagsOK /\ [Next]_vars => FlagsOK'
  <1> SUFFICES ASSUME FlagsOK, [Next]_vars PROVE FlagsOK'
    OBVIOUS
  <1> USE DEF FlagsOK, clientVars, events, buffer, taskVars
  <1>1. CASE Client
    BY <1>1, Zenon DEF Client, WriteStart, WriteStop, WritePause, WriteArrayCallbacks,
      WriteNumChannels, WriteLayout, WriteAllocSpace, AcceptStart, AcceptStop,
      RefuseStart, RefuseStop, ClearStart, ClearStop, AllocArray
  <1>2. CASE EventTask
    BY <1>2, Zenon DEF EventTask, DrainStop, PostIdle, TakeStart, BeginStart,
      ConnectChannel, ConnectFails, StartMonitors, StartDone, TakeStop, BeginStop,
      StopMonitors, StopDone, AllocArray
  <1>3. CASE FrameTask
    BY <1>3, Zenon DEF FrameTask, FrameDrain, FrameIdle, FrameTakeStart, FrameStart,
      FrameTakeStop, FrameTimeout, FrameStop, FrameSkip, FramePublish, FrameCrash
  <1>4. CASE UNCHANGED vars
    BY <1>4, Zenon DEF vars
  <1> QED
    BY <1>1, <1>2, <1>3, <1>4 DEF Next

-----------------------------------------------------------------------------
LEMMA InitIInv == Init => IInv
  BY MaxChannelsAssumption, ClientAssumption
  DEF Init, IInv, ValuesOK, LockInv, StatusInv, ErrorInv, RunningInv, StopEventInv,
      NoStaleStop, BufferInv, ConfigFrozen, BusyIsServed, Starting, Stopping,
      Channels, EventPcs, FramePcs, RecordStates

\* What allocArray leaves behind: an up to date layout and a buffer, or a layout that
\* still waits for its allocation.
LEMMA AllocArrayOk ==
  ASSUME FlagsOK, BufferInv, AllocArray(TRUE) PROVE pData' /\ ~dataAlloc'
  <1>1. CASE dataAlloc' = FALSE /\ pData' = TRUE
    BY <1>1
  <1>2. CASE ~dataAlloc /\ UNCHANGED buffer
    BY <1>2 DEF FlagsOK, BufferInv, buffer
  <1> QED
    BY <1>1, <1>2, Zenon DEF AllocArray

LEMMA AllocArrayFails ==
  ASSUME FlagsOK, AllocArray(FALSE) PROVE dataAlloc /\ dataAlloc'
  <1>1. dataAlloc /\ UNCHANGED dataAlloc
    BY Zenon DEF AllocArray
  <1> QED
    BY <1>1, SMT DEF FlagsOK

\* One step per write of a client.
LEMMA ClientIInv == FlagsOK /\ IInv /\ Client => IInv'
  <1> SUFFICES ASSUME FlagsOK, IInv, Client PROVE IInv'
    OBVIOUS
  <1> USE DEF FlagsOK, IInv, ValuesOK, LockInv, StatusInv, ErrorInv, RunningInv, StopEventInv,
              NoStaleStop, BufferInv, ConfigFrozen, BusyIsServed, Starting, Stopping,
              Clamp, EventPcs, FramePcs, RecordStates, clientVars, events, buffer, taskVars
  <1>1. CASE \E v \in BusyValues : WriteStart(v)
    BY <1>1, ClientAssumption DEF Client, WriteStart, AcceptStart, RefuseStart, ClearStart
  <1>2. CASE \E v \in BusyValues : WriteStop(v)
    BY <1>2, ClientAssumption DEF Client, WriteStop, AcceptStop, RefuseStop, ClearStop
  <1>3. CASE \E v \in {0, 1} : WritePause(v)
    BY <1>3, ClientAssumption DEF Client, WritePause
  <1>4. CASE \E v \in CallbackValues : WriteArrayCallbacks(v)
    BY <1>4, ClientAssumption DEF Client, WriteArrayCallbacks
  <1>5. CASE \E v \in NumChannelsValues : WriteNumChannels(v)
    BY <1>5, ClientAssumption DEF Client, WriteNumChannels
  <1>6. CASE WriteLayout
    BY <1>6, ClientAssumption DEF Client, WriteLayout
  <1>7. CASE WriteAllocSpace
    <2> USE DEF Client, WriteAllocSpace
    <2>1. CASE AllocArray(TRUE) /\ UNCHANGED ADStatus
      BY <1>7, <2>1, AllocArrayOk
    <2>2. CASE AllocArray(FALSE) /\ ADStatus' = "Error"
      BY <1>7, <2>2, AllocArrayFails
    <2> QED
      BY <1>7, <2>1, <2>2
  <1> QED
    BY <1>1, <1>2, <1>3, <1>4, <1>5, <1>6, <1>7 DEF Client

\* One step per step of eventTask.
LEMMA EventTaskIInv == FlagsOK /\ IInv /\ EventTask => IInv'
  <1> SUFFICES ASSUME FlagsOK, IInv, EventTask PROVE IInv'
    OBVIOUS
  <1> USE MaxChannelsAssumption
      DEF FlagsOK, IInv, ValuesOK, LockInv, StatusInv, ErrorInv, RunningInv, StopEventInv,
          NoStaleStop, BufferInv, ConfigFrozen, BusyIsServed, Starting, Stopping,
          Clamp, Channels, EventPcs, FramePcs, clientVars, events, buffer, taskVars, EvStep
  <1>1. CASE DrainStop
    BY <1>1 DEF EventTask, DrainStop
  <1>2. CASE PostIdle
    BY <1>2 DEF EventTask, PostIdle
  <1>3. CASE TakeStart
    BY <1>3 DEF EventTask, TakeStart
  <1>4. CASE BeginStart
    <2> USE DEF EventTask, BeginStart
    <2>0. /\ ePc = "startLock" /\ ePc' \in {"connect", "startDone"}
          /\ running = {} /\ ~stopEvent /\ ADStatus # "Acquire"
          /\ numChannels' = Clamp(numChannelsParam)
      BY <1>4
    <2>1. CASE AllocArray(TRUE) /\ ePc' = "connect" /\ ADStatus' = "Acquire" /\ UNCHANGED error
      BY <1>4, <2>0, <2>1, AllocArrayOk
    <2>2. CASE AllocArray(FALSE) /\ ePc' = "startDone" /\ error' = TRUE /\ UNCHANGED ADStatus
      BY <1>4, <2>0, <2>2, AllocArrayFails
    <2> QED
      BY <1>4, <2>1, <2>2
  <1>5. CASE ConnectChannel
    BY <1>5 DEF EventTask, ConnectChannel
  <1>6. CASE ConnectFails
    BY <1>6 DEF EventTask, ConnectFails
  <1>7. CASE StartMonitors
    BY <1>7 DEF EventTask, StartMonitors
  <1>8. CASE StartDone
    BY <1>8 DEF EventTask, StartDone, Completed, RecordStates
  <1>9. CASE TakeStop
    BY <1>9 DEF EventTask, TakeStop
  <1>10. CASE BeginStop
    BY <1>10 DEF EventTask, BeginStop
  <1>11. CASE StopMonitors
    <2>1. running' = {}
      <3>1. \A c \in running : c \in Int /\ c < numChannels
        OBVIOUS
      <3>2. numChannels \in Int /\ running' = {c \in running : c >= numChannels}
        BY <1>11 DEF StopMonitors
      <3>3. SUFFICES ASSUME NEW c \in running' PROVE FALSE
        OBVIOUS
      <3> QED
        BY <3>1, <3>2, <3>3
    <2> QED
      BY <1>11, <2>1 DEF EventTask, StopMonitors
  <1>12. CASE StopDone
    BY <1>12 DEF EventTask, StopDone, Completed, RecordStates
  <1> QED
    BY <1>1, <1>2, <1>3, <1>4, <1>5, <1>6, <1>7, <1>8, <1>9, <1>10, <1>11, <1>12 DEF EventTask

\* frameTask changes none of what the invariant speaks of but the owner of the mutex,
\* and never takes it from eventTask.
LEMMA FrameTaskIInv == FlagsOK /\ IInv /\ FrameTask => IInv'
  <1> SUFFICES ASSUME FlagsOK, IInv, FrameTask PROVE IInv'
    OBVIOUS
  <1> USE DEF FrameTask, FrameDrain, FrameIdle, FrameTakeStart, FrameStart,
              FrameTakeStop, FrameTimeout, FrameStop, FrameSkip, FramePublish,
              FrameCrash, FrStep, FrameCanLock, clientVars, buffer, taskVars
  <1>1. ValuesOK'
    BY DEF IInv, ValuesOK, FramePcs
  <1>2. (lockOwner = "event") <=> (lockOwner' = "event")
    BY DEF IInv, ValuesOK
  <1>3. UNCHANGED <<startEvent, stopEvent, ADStatus, clientVars, buffer, taskVars, ePc>>
    OBVIOUS
  <1> QED
    BY <1>1, <1>2, <1>3
    DEF IInv, LockInv, StatusInv, ErrorInv, RunningInv, StopEventInv, NoStaleStop,
        BufferInv, ConfigFrozen, BusyIsServed, Starting, Stopping, Clamp

LEMMA NextIInv == FlagsOK /\ IInv /\ [Next]_vars => IInv'
  <1>1. CASE Next
    BY <1>1, ClientIInv, EventTaskIInv, FrameTaskIInv DEF Next
  <1>2. CASE UNCHANGED vars
    BY <1>2 DEF vars, clientVars, events, buffer, taskVars, IInv, ValuesOK, LockInv,
      StatusInv, ErrorInv, RunningInv, StopEventInv, NoStaleStop, BufferInv,
      ConfigFrozen, BusyIsServed, Starting, Stopping, Clamp
  <1> QED
    BY <1>1, <1>2

LEMMA Invariance == SafetySpec => [](FlagsOK /\ IInv)
  BY InitFlags, NextFlags, InitIInv, NextIInv, PTL DEF SafetySpec

-----------------------------------------------------------------------------
\* Every variable keeps its type, and no channel outside the arrays of monitors is
\* ever set up, whatever the clients write to ADnEDNumChannelsParam.
THEOREM TypeCorrect == SafetySpec => []TypeOK
  <1>1. FlagsOK /\ IInv => TypeOK
    BY DEF IInv, TypeOK
  <1> QED
    BY Invariance, <1>1, PTL

\* No stop event of an earlier acquisition ends a later one (line 1494).
THEOREM StaleStopsAreTaken == SafetySpec => []NoStaleStop
  <1>1. FlagsOK /\ IInv => NoStaleStop
    BY DEF IInv, StopEventInv
  <1> QED
    BY Invariance, <1>1, PTL

\* Nothing that an acquisition depends on changes under it (lines 488-553, 1516-1521).
THEOREM ConfigIsFrozen == SafetySpec => []ConfigFrozen
  <1>1. FlagsOK /\ IInv => ConfigFrozen
    BY DEF IInv
  <1> QED
    BY Invariance, <1>1, PTL

\* Out of Acquire no monitor runs, though the error path of eventTask stops the
\* monitors without the mutex (lines 1613-1617).
THEOREM StoppedWhenIdle == SafetySpec => []IdleMeansStopped
  <1>1. FlagsOK /\ IInv => IdleMeansStopped
    BY DEF IInv, FlagsOK, ValuesOK, IdleMeansStopped, LockInv, StatusInv, RunningInv,
      Starting, Stopping
  <1> QED
    BY Invariance, <1>1, PTL

\* The record of an accepted start or stop is busy only while eventTask still has that
\* request to finish.
THEOREM AcceptedRequestsAreServed == SafetySpec => []BusyIsServed
  <1>1. FlagsOK /\ IInv => BusyIsServed
    BY DEF IInv
  <1> QED
    BY Invariance, <1>1, PTL
=============================================================================
