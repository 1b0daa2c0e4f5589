---------------------------- MODULE ADnEDAcquire ----------------------------
(***************************************************************************)
(* The acquisition control of ADnED (ADnEDApp/src/ADnED.cpp).  Three kinds *)
(* of threads share the asynPortDriver mutex, four binary epicsEvents and  *)
(* a few parameters:                                                       *)
(*                                                                         *)
(*   clients    records that write a parameter.  asyn calls writeInt32     *)
(*              with the mutex held, so a whole handler is one step.       *)
(*   eventTask  waits for m_startEvent, allocates the buffer, connects and *)
(*              starts the monitors, waits for m_stopEvent, stops them.    *)
(*   frameTask  waits for m_startFrame, then publishes an NDArray at every *)
(*              timeout of m_stopFrame until that event is signalled.      *)
(*                                                                         *)
(* A step is a wait, or the code between a lock() and the unlock() that    *)
(* ends it.  The part of eventTask between lines 1513 and 1591, and the    *)
(* one between 1604 and 1632, take several steps with the mutex held,      *)
(* because other threads may take the events signalled in them.            *)
(*                                                                         *)
(* Abstracted: status texts, ADAcquire, the contents of the buffer, what   *)
(* makes allocArray fail (module ADnEDLayout), how one channel is set up,  *)
(* the counters that clearParams clears (module ADnEDEvents).              *)
(***************************************************************************)
EXTENDS Integers

CONSTANTS
  MaxChannels,        \* s_ADNED_MAX_CHANNELS
  NumChannelsValues,  \* values that clients write to ADnEDNumChannelsParam
  CallbackValues,     \* values that clients write to NDArrayCallbacks
  BusyValues          \* values that clients write to the Start and Stop params

ASSUME MaxChannelsAssumption == MaxChannels \in Nat \ {0}

ASSUME ClientAssumption ==
  /\ NumChannelsValues \subseteq Int
  /\ CallbackValues \subseteq {0, 1}
  /\ BusyValues \subseteq {0, 1}

VARIABLES
  lockOwner,         \* thread that owns the mutex between two steps
  startEvent,        \* m_startEvent, m_stopEvent, m_startFrame, m_stopFrame:
  stopEvent,         \* TRUE when signalled and not yet taken
  startFrame,
  stopFrame,
  ADStatus,          \* the ADStatus parameter (DetectorState_RBV)
  startRecord,       \* the busy records StartBusy and StopBusy, with ADnEDStartParam
  stopRecord,        \* and ADnEDStopParam: see RecordStates
  pauseParam,        \* ADnEDPauseParam
  numChannelsParam,  \* ADnEDNumChannelsParam
  arrayCallbacks,    \* NDArrayCallbacks
  dataAlloc,         \* m_dataAlloc: the layout changed since the last allocation
  pData,             \* p_Data # NULL
  monitors,          \* channels with p_Monitor[channel] set
  running,           \* channels whose monitor is started
  ePc, error, numChannels, chan,   \* eventTask: control point and locals
  fPc,               \* frameTask: control point
  crashed            \* the process died on a NULL pointer

clientVars == <<startRecord, stopRecord, pauseParam, numChannelsParam, arrayCallbacks>>
events     == <<startEvent, stopEvent, startFrame, stopFrame>>
buffer     == <<dataAlloc, pData>>
taskVars   == <<error, numChannels, chan, monitors, running>>
vars == <<lockOwner, events, ADStatus, clientVars, buffer, taskVars, ePc, fPc, crashed>>

Channels == 0 .. MaxChannels - 1

\* A record is clear; or busy with a request that was accepted, and its parameter is 1;
\* or still busy with one that was refused, although its parameter is 0 again.
RecordStates == {"clear", "busy", "refused"}

\* Local copy of ADnEDNumChannelsParam, lines 1516-1520.
Clamp(n) == IF n > MaxChannels THEN MaxChannels ELSE n

EventPcs == {"drainStop", "idle", "waitStart", "startLock", "connect",
             "startDone", "acquire", "stopLock", "stopMonitors", "stopDone"}

FramePcs == {"drain", "drainLock", "waitFrame", "startLock",
             "frameWait", "frameLock", "stopLock"}

Init ==
  /\ lockOwner = "none"
  /\ startEvent = FALSE /\ stopEvent = FALSE
  /\ startFrame = FALSE /\ stopFrame = FALSE
  /\ ADStatus = "Idle"
  /\ startRecord = "clear" /\ stopRecord = "clear" /\ pauseParam = 0
  /\ numChannelsParam = 0
  /\ arrayCallbacks \in CallbackValues
  /\ dataAlloc = TRUE /\ pData = FALSE
  /\ monitors = {} /\ running = {}
  /\ ePc = "drainStop" /\ error = TRUE /\ numChannels = 0 /\ chan = 0
  /\ fPc = "drain"
  /\ crashed = FALSE

-----------------------------------------------------------------------------
(* allocArray: nothing to do, a new buffer, or a failure before (numDet,   *)
(* pixel range) or after (zero size, calloc) the old buffer was freed.     *)
AllocArray(ok) ==
  \/ /\ ok /\ ~dataAlloc
     /\ UNCHANGED buffer
  \/ /\ ok /\ dataAlloc
     /\ dataAlloc' = FALSE
     /\ pData' = TRUE
  \/ /\ ~ok /\ dataAlloc
     /\ pData' \in {pData, FALSE}
     /\ UNCHANGED dataAlloc

-----------------------------------------------------------------------------
(* Clients: writeInt32, called by asyn with the mutex held.  Writes that   *)
(* are refused without changing anything are left out.                     *)

\* Mutant: a start is accepted during an acquisition too.
AcceptStartAlways ==
  /\ startEvent' = TRUE
  /\ pauseParam' = 0
  /\ startRecord' = "busy"
  /\ UNCHANGED <<stopEvent, stopRecord>>

\* A start is accepted in every state but Acquire.
AcceptStart ==
  /\ ADStatus # "Acquire"
  /\ startEvent' = TRUE
  /\ pauseParam' = 0
  /\ startRecord' = "busy"
  /\ UNCHANGED <<stopEvent, stopRecord>>

\* Mutant: a stop is accepted in every state.
AcceptStopAlways ==
  /\ stopEvent' = TRUE
  /\ pauseParam' = 0
  /\ stopRecord' = "busy"
  /\ UNCHANGED <<startEvent, startRecord>>

AcceptStop ==
  /\ ADStatus = "Acquire"
  /\ stopEvent' = TRUE
  /\ pauseParam' = 0
  /\ stopRecord' = "busy"
  /\ UNCHANGED <<startEvent, startRecord>>

\* A start in Acquire and a stop outside it are refused.  The parameter is set to 0, but
\* "this does not work. I need to clear the busy from outside this function".
RefuseStart ==
  /\ ADStatus = "Acquire"
  /\ startRecord' = "refused"
  /\ UNCHANGED <<startEvent, stopEvent, stopRecord, pauseParam>>

RefuseStop ==
  /\ ADStatus # "Acquire"
  /\ stopRecord' = "refused"
  /\ UNCHANGED <<startEvent, stopEvent, startRecord, pauseParam>>

\* A client writes 0.
ClearStart ==
  /\ startRecord' = "clear"
  /\ UNCHANGED <<startEvent, stopEvent, stopRecord, pauseParam>>

ClearStop ==
  /\ stopRecord' = "clear"
  /\ UNCHANGED <<startEvent, stopEvent, startRecord, pauseParam>>

WriteStart(value) ==
  /\ \/ value = 1 /\ (AcceptStart \/ RefuseStart)
     \/ value = 0 /\ ClearStart
  /\ UNCHANGED <<numChannelsParam, arrayCallbacks, ADStatus, buffer>>

WriteStop(value) ==
  /\ \/ value = 1 /\ (AcceptStop \/ RefuseStop)
     \/ value = 0 /\ ClearStop
  /\ UNCHANGED <<numChannelsParam, arrayCallbacks, ADStatus, buffer>>

WritePause(value) ==
  /\ pauseParam' = value
  /\ UNCHANGED <<startEvent, stopEvent, startRecord, stopRecord, numChannelsParam,
                 arrayCallbacks, ADStatus, buffer>>

WriteArrayCallbacks(value) ==
  /\ arrayCallbacks' = value
  /\ UNCHANGED <<startEvent, stopEvent, startRecord, stopRecord, pauseParam,
                 numChannelsParam, ADStatus, buffer>>

\* Mutant: the upper limit is not checked.
WriteNumChannelsUnchecked(value) ==
  /\ ADStatus # "Acquire"
  /\ numChannelsParam' = value
  /\ UNCHANGED <<startEvent, stopEvent, startRecord, stopRecord, pauseParam,
                 arrayCallbacks, ADStatus, buffer>>

WriteNumChannels(value) ==
  /\ ADStatus # "Acquire"
  /\ value <= MaxChannels
  /\ numChannelsParam' = value
  /\ UNCHANGED <<startEvent, stopEvent, startRecord, stopRecord, pauseParam,
                 arrayCallbacks, ADStatus, buffer>>

\* Mutant: the layout may be changed during an acquisition.
WriteLayoutAlways ==
  /\ dataAlloc' = TRUE
  /\ UNCHANGED <<startEvent, stopEvent, clientVars, ADStatus, pData>>

\* A pixel range, a detector size or the TOF range.
WriteLayout ==
  /\ ADStatus # "Acquire"
  /\ dataAlloc' = TRUE
  /\ UNCHANGED <<startEvent, stopEvent, clientVars, ADStatus, pData>>

WriteAllocSpace ==
  /\ ADStatus # "Acquire"
  /\ \/ AllocArray(TRUE) /\ UNCHANGED ADStatus
     \/ AllocArray(FALSE) /\ ADStatus' = "Error"
  /\ UNCHANGED <<startEvent, stopEvent, clientVars>>

Client ==
  /\ lockOwner = "none"
  /\ \/ \E v \in BusyValues : WriteStart(v)
     \/ \E v \in BusyValues : WriteStop(v)
     \/ \E v \in {0, 1} : WritePause(v)
     \/ \E v \in CallbackValues : WriteArrayCallbacks(v)
     \/ \E v \in NumChannelsValues : WriteNumChannels(v)
     \/ WriteLayout
     \/ WriteAllocSpace
  /\ UNCHANGED <<lockOwner, startFrame, stopFrame, taskVars, ePc, fPc, crashed>>

-----------------------------------------------------------------------------
(* eventTask.                                                              *)

EvStep(from, to) == ePc = from /\ ePc' = to

\* The parameter is set to 0 and, if that changes it, the record is called back.
Completed(record) == IF record = "busy" THEN "clear" ELSE record

\* Mutant: without the wait of line 1494.
DrainStopMissing ==
  /\ EvStep("drainStop", "idle")
  /\ UNCHANGED <<lockOwner, events, ADStatus, startRecord, stopRecord, buffer, taskVars>>

\* Take a late stop event, or time out: either way none is left.
DrainStop ==
  /\ EvStep("drainStop", "idle")
  /\ stopEvent' = FALSE
  /\ UNCHANGED <<lockOwner, startEvent, startFrame, stopFrame, ADStatus,
                 startRecord, stopRecord, buffer, taskVars>>

PostIdle ==
  /\ EvStep("idle", "waitStart")
  /\ lockOwner = "none"
  /\ UNCHANGED <<lockOwner, events, ADStatus, startRecord, stopRecord, buffer, taskVars>>

TakeStart ==
  /\ EvStep("waitStart", "startLock")
  /\ startEvent
  /\ startEvent' = FALSE
  /\ error' = FALSE
  /\ UNCHANGED <<lockOwner, stopEvent, startFrame, stopFrame, ADStatus, startRecord,
                 stopRecord, buffer, numChannels, chan, monitors, running>>

BeginStart ==
  /\ lockOwner = "none"
  /\ lockOwner' = "event"
  /\ numChannels' = Clamp(numChannelsParam)
  /\ chan' = 0
  /\ \/ /\ AllocArray(TRUE)
        /\ EvStep("startLock", "connect")
        /\ ADStatus' = "Acquire"
        /\ startFrame' = TRUE
        /\ UNCHANGED error
     \/ /\ AllocArray(FALSE)
        /\ EvStep("startLock", "startDone")
        /\ error' = TRUE
        /\ UNCHANGED <<ADStatus, startFrame>>
  /\ UNCHANGED <<startEvent, stopEvent, stopFrame, startRecord, stopRecord, monitors, running>>

\* setupChannelMonitor succeeded, or the channel was skipped for its name.
ConnectChannel ==
  /\ EvStep("connect", "connect")
  /\ chan < numChannels
  /\ chan' = chan + 1
  /\ monitors' \in {monitors, monitors \cup {chan}}
  /\ UNCHANGED <<lockOwner, events, ADStatus, startRecord, stopRecord, buffer, error,
                 numChannels, running>>

\* setupChannelMonitor threw.
ConnectFails ==
  /\ EvStep("connect", "startDone")
  /\ chan < numChannels
  /\ ADStatus' = "Error"
  /\ error' = TRUE
  /\ stopFrame' = TRUE
  /\ UNCHANGED <<lockOwner, startEvent, stopEvent, startFrame, startRecord, stopRecord,
                 buffer, numChannels, chan, monitors, running>>

\* Mutant: monitors are started while channels are still to be set up.
StartMonitorsEarly ==
  /\ EvStep("connect", "startDone")
  /\ running' = running \cup {c \in monitors : c < numChannels}
  /\ UNCHANGED <<lockOwner, events, ADStatus, startRecord, stopRecord, buffer, error,
                 numChannels, chan, monitors>>

StartMonitors ==
  /\ EvStep("connect", "startDone")
  /\ chan >= numChannels
  /\ running' = running \cup {c \in monitors : c < numChannels}
  /\ UNCHANGED <<lockOwner, events, ADStatus, startRecord, stopRecord, buffer, error,
                 numChannels, chan, monitors>>

\* Mutant: the error path returns before it completes the Start record.
StartDoneNoCallback ==
  /\ EvStep("startDone", IF error THEN "stopMonitors" ELSE "acquire")
  /\ ADStatus' = IF error THEN "Error" ELSE ADStatus
  /\ startRecord' = IF error THEN startRecord ELSE Completed(startRecord)
  /\ lockOwner' = "none"
  /\ UNCHANGED <<events, stopRecord, buffer, taskVars>>

StartDone ==
  /\ EvStep("startDone", IF error THEN "stopMonitors" ELSE "acquire")
  /\ ADStatus' = IF error THEN "Error" ELSE ADStatus
  /\ startRecord' = Completed(startRecord)
  /\ lockOwner' = "none"
  /\ UNCHANGED <<events, stopRecord, buffer, taskVars>>

\* Mutant: the stop event is taken and the loop goes on.
TakeStopLost ==
  /\ EvStep("acquire", "acquire")
  /\ stopEvent
  /\ stopEvent' = FALSE
  /\ UNCHANGED <<lockOwner, startEvent, startFrame, stopFrame, ADStatus, startRecord,
                 stopRecord, buffer, taskVars>>

TakeStop ==
  /\ EvStep("acquire", "stopLock")
  /\ stopEvent
  /\ stopEvent' = FALSE
  /\ UNCHANGED <<lockOwner, startEvent, startFrame, stopFrame, ADStatus, startRecord,
                 stopRecord, buffer, taskVars>>

BeginStop ==
  /\ EvStep("stopLock", "stopMonitors")
  /\ lockOwner = "none"
  /\ lockOwner' = "event"
  /\ ADStatus' = "Idle"
  /\ stopFrame' = TRUE
  /\ UNCHANGED <<startEvent, stopEvent, startFrame, startRecord, stopRecord, buffer, taskVars>>

\* Mutant: the last channel is not stopped.
StopMonitorsButOne ==
  /\ EvStep("stopMonitors", "stopDone")
  /\ running' = {c \in running : c >= numChannels - 1}
  /\ UNCHANGED <<lockOwner, events, ADStatus, startRecord, stopRecord, buffer, error,
                 numChannels, chan, monitors>>

\* After a failed start these two run without the mutex.
StopMonitors ==
  /\ EvStep("stopMonitors", "stopDone")
  /\ running' = {c \in running : c >= numChannels}
  /\ UNCHANGED <<lockOwner, events, ADStatus, startRecord, stopRecord, buffer, error,
                 numChannels, chan, monitors>>

\* An unlock() by a thread that does not own the mutex has no effect.
StopDone ==
  /\ EvStep("stopDone", "drainStop")
  /\ stopRecord' = Completed(stopRecord)
  /\ lockOwner' = IF lockOwner = "event" THEN "none" ELSE lockOwner
  /\ UNCHANGED <<events, ADStatus, startRecord, buffer, taskVars>>

EventTask ==
  /\ \/ DrainStop \/ PostIdle \/ TakeStart \/ BeginStart
     \/ ConnectChannel \/ ConnectFails \/ StartMonitors \/ StartDone
     \/ TakeStop \/ BeginStop \/ StopMonitors \/ StopDone
  /\ UNCHANGED <<pauseParam, numChannelsParam, arrayCallbacks, fPc, crashed>>

-----------------------------------------------------------------------------
(* frameTask.                                                              *)

FrStep(from, to) == fPc = from /\ fPc' = to

\* The mutex is recursive: frameTask may take it again when it owns it.
FrameCanLock == lockOwner # "event"

FrameDrain ==
  /\ FrStep("drain", "drainLock")
  /\ stopFrame' = FALSE
  /\ UNCHANGED <<lockOwner, startFrame, crashed>>

FrameIdle ==
  /\ FrStep("drainLock", "waitFrame")
  /\ FrameCanLock
  /\ UNCHANGED <<lockOwner, startFrame, stopFrame, crashed>>

FrameTakeStart ==
  /\ FrStep("waitFrame", "startLock")
  /\ startFrame
  /\ startFrame' = FALSE
  /\ UNCHANGED <<lockOwner, stopFrame, crashed>>

FrameStart ==
  /\ FrStep("startLock", "frameWait")
  /\ FrameCanLock
  /\ UNCHANGED <<lockOwner, startFrame, stopFrame, crashed>>

FrameTakeStop ==
  /\ FrStep("frameWait", "stopLock")
  /\ stopFrame
  /\ stopFrame' = FALSE
  /\ UNCHANGED <<lockOwner, startFrame, crashed>>

FrameTimeout ==
  /\ FrStep("frameWait", "frameLock")
  /\ ~stopFrame
  /\ UNCHANGED <<lockOwner, startFrame, stopFrame, crashed>>

FrameStop ==
  /\ FrStep("stopLock", "drain")
  /\ FrameCanLock
  /\ UNCHANGED <<lockOwner, startFrame, stopFrame, crashed>>

FrameSkip ==
  /\ FrStep("frameLock", "frameWait")
  /\ FrameCanLock
  /\ arrayCallbacks = 0
  /\ UNCHANGED <<lockOwner, startFrame, stopFrame, crashed>>

\* The lock() of line 1786 has no unlock(): frameTask keeps the mutex.
FramePublish ==
  /\ FrStep("frameLock", "frameWait")
  /\ FrameCanLock
  /\ arrayCallbacks = 1
  /\ pData
  /\ lockOwner' = "frame"
  /\ UNCHANGED <<startFrame, stopFrame, crashed>>

\* The pool returned NULL, and NULL is released; or p_Data is NULL and is copied.
FrameCrash ==
  /\ FrStep("frameLock", "frameLock")
  /\ FrameCanLock
  /\ arrayCallbacks = 1
  /\ crashed' = TRUE
  /\ UNCHANGED <<lockOwner, startFrame, stopFrame>>

FrameTask ==
  /\ \/ FrameDrain \/ FrameIdle \/ FrameTakeStart \/ FrameStart \/ FrameTakeStop
     \/ FrameTimeout \/ FrameStop \/ FrameSkip \/ FramePublish \/ FrameCrash
  /\ UNCHANGED <<startEvent, stopEvent, ADStatus, clientVars, buffer, taskVars, ePc>>

-----------------------------------------------------------------------------
Next == ~crashed /\ (Client \/ EventTask \/ FrameTask)

\* The two threads keep running: a wait ends when its event is signalled or it times
\* out, and the mutex is granted.  frameTask competes for it with eventTask, so it gets
\* it when it is free again and again.  Clients need never write anything.
Fairness == WF_vars(~crashed /\ EventTask) /\ SF_vars(~crashed /\ FrameTask)

SafetySpec == Init /\ [][Next]_vars

Spec == SafetySpec /\ Fairness

-----------------------------------------------------------------------------
(* Properties.                                                             *)

\* The flags are Booleans.
FlagsOK ==
  /\ startEvent \in BOOLEAN /\ stopEvent \in BOOLEAN
  /\ startFrame \in BOOLEAN /\ stopFrame \in BOOLEAN
  /\ dataAlloc \in BOOLEAN /\ pData \in BOOLEAN
  /\ error \in BOOLEAN /\ crashed \in BOOLEAN

\* The other variables have their types.
ValuesOK ==
  /\ lockOwner \in {"none", "event", "frame"}
  /\ ADStatus \in {"Idle", "Acquire", "Error"}
  /\ startRecord \in RecordStates /\ stopRecord \in RecordStates /\ pauseParam \in {0, 1}
  /\ numChannelsParam \in Int /\ numChannelsParam <= MaxChannels
  /\ arrayCallbacks \in {0, 1}
  /\ monitors \subseteq Channels /\ running \subseteq Channels
  /\ ePc \in EventPcs
  /\ numChannels \in Int /\ numChannels <= MaxChannels
  /\ chan \in Nat
  /\ fPc \in FramePcs

\* Every variable has its type.  Writes of numChannels above the maximum are refused
\* (lines 544-549), so the parameter and the copy of eventTask never exceed it and
\* every channel eventTask sets up is within the arrays of monitors.
TypeOK == FlagsOK /\ ValuesOK

\* A stop event that was signalled during an acquisition never ends a later one:
\* none is pending from the time eventTask is ready for a start until the monitors
\* of the new acquisition run.  The wait of line 1494 takes the second of two stops
\* that both arrived before eventTask had set ADStatus to Idle.
NoStaleStop ==
  ePc \in {"idle", "waitStart", "startLock", "connect", "startDone"} => ~stopEvent

\* Nothing the acquisition depends on changes under it: while ADStatus is Acquire
\* the buffer is allocated, no layout change waits for an allocation, and the number
\* of channels that eventTask will stop is still the one the clients see.
ConfigFrozen ==
  ADStatus = "Acquire" =>
    /\ pData /\ ~dataAlloc
    /\ numChannels = Clamp(numChannelsParam)

\* "This will ensure that all the monitors have been stopped": whenever the mutex
\* is not held by eventTask and the driver does not say Acquire, no monitor runs.
IdleMeansStopped ==
  (ADStatus # "Acquire" /\ lockOwner # "event") => running = {}

\* A Start or Stop record that is busy with an accepted request is owed to eventTask,
\* which has not finished that request: no event that was overtaken or taken by another
\* wait leaves its record busy for good.  Nothing is said of the record of a refused
\* request, which the driver leaves busy (lines 463 and 482).
BusyIsServed ==
  /\ startRecord = "busy" => startEvent \/ ePc \in {"startLock", "connect", "startDone"}
  /\ stopRecord = "busy" =>
       \/ ADStatus = "Acquire" /\ (stopEvent \/ ePc = "stopLock")
       \/ ePc \in {"stopMonitors", "stopDone"} /\ ~error

\* The Start record of an accepted request completes, unless the process dies.
StartCompletes == startRecord = "busy" ~> (startRecord # "busy" \/ crashed)

\* The Stop record of an accepted request completes, unless the process dies.
StopCompletes == stopRecord = "busy" ~> (stopRecord # "busy" \/ crashed)

\* After a stop the detector stays Idle until a client starts it again: an
\* acquisition that begins in Idle does so while a Start record is busy.
NoUnrequestedStart ==
  [][ADStatus = "Idle" /\ ADStatus' = "Acquire" => startRecord = "busy"]_vars

\* When no acquisition begins any more the frame thread ends up waiting for a start:
\* the wait of line 1735 took only stops "done during last read".
FramesEnd ==
  <>[](ADStatus # "Acquire") => <>[](fPc \in {"drain", "drainLock", "waitFrame"})

-----------------------------------------------------------------------------
(* The service this module implements.  While eventTask holds the mutex,   *)
(* ADStatus cannot be seen: a start or stop is under way.                  *)
Starting == ePc \in {"connect", "startDone"}
Stopping == ePc \in {"stopMonitors", "stopDone"} /\ ~error

ServiceState ==
  IF Starting THEN "Starting" ELSE IF Stopping THEN "Stopping" ELSE ADStatus

Credit == (IF startEvent THEN 1 ELSE 0) + (IF ePc = "startLock" THEN 1 ELSE 0)

StopReq == ADStatus = "Acquire" /\ (stopEvent \/ ePc = "stopLock")

Monitoring == ~Starting /\ ~Stopping /\ running # {}

Service == INSTANCE ADnEDService WITH
  state <- ServiceState, credit <- Credit, stopReq <- StopReq, monitoring <- Monitoring

\* Acquisition control does what ADnEDService promises, safety and liveness.
ImplementsService == Service!Spec

\* The safety part of it, which also holds once a frame has been published.
ImplementsServiceSafely == Service!SafetySpec

-----------------------------------------------------------------------------
(* The part of ADnEDMonitors that this module plays: monitors count as on  *)
(* from the last channel set up until eventTask has stopped them all.      *)
Phase ==
  CASE ePc = "connect" -> "connecting"
    [] ePc \in {"startDone", "acquire", "stopLock", "stopMonitors"} /\ ~error -> "on"
    [] OTHER -> "off"

\* The locals count in an acquisition only, and a negative number of channels is none.
PhaseChannels == IF Phase = "off" \/ numChannels < 0 THEN 0 ELSE numChannels
PhaseChan     == IF Phase = "off" THEN 0 ELSE chan

Connecting == INSTANCE ADnEDMonitors WITH
  phase <- Phase, numChannels <- PhaseChannels, chan <- PhaseChan

\* Acquisition control starts and stops monitors as ADnEDMonitors promises, whatever the
\* other threads do: the number of channels that clients write, negative or too large, is
\* the one used from the first channel set up to the last monitor stopped.
ConnectsAsPromised == Connecting!Spec
=============================================================================
