----------------------------- MODULE ADnEDEvents -----------------------------
(***************************************************************************)
(* The event handling of ADnED (ADnEDApp/src/ADnED.cpp): eventHandler,     *)
(* which a pvAccess thread per channel calls for every packet, together    *)
(* with the clients that reset, pause, start and stop, and with the        *)
(* acquisition control that module ADnEDService specifies.                 *)
(*                                                                         *)
(* A started monitor calls monitorEvent (nEDChannel.cpp), which polls the  *)
(* queue of the monitor and handles packet after packet until it is empty. *)
(* eventHandler takes the mutex three times and can be overtaken between:  *)
(*                                                                         *)
(*   Begin   reads the pause flag, decides whether to post updates         *)
(*   Read    copies the layout parameters to members that the handlers of  *)
(*           all channels share, without the mutex                         *)
(*   Stamp   checks the time stamp and the sequence ID of the packet       *)
(*   Count   counts its events and posts the updates                       *)
(*                                                                         *)
(* A monitor that is stopped calls monitorEvent no more, but a call under  *)
(* way goes on, to the last packet that its queue holds: eventTask stops   *)
(* the monitors with the mutex held, so stop() cannot wait for a handler   *)
(* that waits for that mutex, and the loop does not look for a stop.       *)
(*                                                                         *)
(* Abstracted: the clock (a packet posts updates or not), the proton       *)
(* charge, the rate over all detectors, and the layout, of which module    *)
(* ADnEDLayout tells more: here it is enough whether the parameters, and   *)
(* the members copied from them, agree with the buffer.  A packet has one  *)
(* event, of the one detector; a rate is 0, or 1 when a handler posted it. *)
(* Sequence IDs have SeqMod values, as they have 2^32 in the code.         *)
(***************************************************************************)
EXTENDS Integers, FiniteSets

CONSTANTS
  Channels,   \* the channels, 0 among them
  SeqMod,     \* number of sequence IDs
  FirstSeq,   \* sequence ID of packet 0 of a channel
  Arrivals,   \* bound: the sets of packets, by number and per channel, one of which arrives
  MaxTime     \* bound, per channel: its time stamps

ASSUME EventsAssumption ==
  /\ Channels \subseteq Nat /\ 0 \in Channels /\ IsFiniteSet(Channels)
  /\ SeqMod \in Nat \ {0} /\ FirstSeq \in Nat
  /\ Arrivals \subseteq [Channels -> SUBSET Nat] /\ MaxTime \in [Channels -> Nat]

VARIABLES
  state, credit, stopReq, monitoring,   \* of ADnEDService
  zeroing,       \* a failed start has still to zero the rates
  pause,         \* ADnEDPauseParam
  handler,       \* per channel: where its thread is, and the locals of eventHandler
  coming,        \* per channel: the packets that are still to arrive
  last,          \* per channel: the packet that arrived last
  params,        \* the layout parameters "match" p_Data, or NumDet was raised since it was
                 \* laid out ("added"), or another one was written and m_dataAlloc set ("stale")
  membersMatch,  \* in this acquisition eventHandler copied parameters that match p_Data
  lastTime,      \* m_TimeStampLast
  lastSeqID,     \* m_lastSeqID
  seqCounter,    \* m_seqCounter
  numMissing,    \* ADnEDSeqIDNumMissingParam
  pulseCounter,  \* m_pulseCounter
  detTotal,      \* m_detTotalEvents
  posted,        \* the parameters that clients see
  stamps,        \* history: time stamps of the pulses counted since the last clear
  lost,          \* history: a packet was lost or dropped on a channel since the last clear
  straddled,     \* history: a packet was in hand at the last clear
  late           \* history: a packet was in hand when the acquisition began, or a thread
                 \* was under way in monitorEvent when it ended

control == <<state, credit, stopReq, monitoring>>
checks  == <<lastTime, lastSeqID, seqCounter, numMissing>>
counts  == <<pulseCounter, detTotal, stamps>>
packets == <<coming, last>>
layout  == <<params, membersMatch, late>>
vars == <<control, zeroing, pause, handler, packets, layout, checks, counts, posted, lost, straddled>>

Control == INSTANCE ADnEDService

Idle == [pc |-> "idle", paused |-> FALSE, update |-> FALSE, newPulse |-> FALSE,
         time |-> 0, seq |-> 0]

\* In monitorEvent, between two packets.
Polling == [Idle EXCEPT !.pc = "poll"]

NothingPosted == [pulses |-> 0, rate |-> 0, total |-> 0, seqCounter |-> [c \in Channels |-> 0]]

\* m_lastSeqID after a clear: -1, which is also the greatest sequence ID.
NoSeqID == SeqMod - 1

Init ==
  /\ Control!Init
  /\ zeroing = FALSE
  /\ pause = FALSE
  /\ handler = [c \in Channels |-> Idle]
  /\ coming \in Arrivals
  /\ last = [c \in Channels |-> 0]
  /\ params = "stale" /\ membersMatch = FALSE /\ late = FALSE
  /\ lastTime = [c \in Channels |-> 0]
  /\ lastSeqID = [c \in Channels |-> NoSeqID]
  /\ seqCounter = [c \in Channels |-> 0]
  /\ numMissing = [c \in Channels |-> 0]
  /\ pulseCounter = 0 /\ detTotal = 0
  /\ posted = NothingPosted
  /\ stamps = {} /\ lost = [c \in Channels |-> FALSE] /\ straddled = FALSE

\* eventTask holds the mutex while a start or a stop is under way.
Unlocked == state \notin {"Starting", "Stopping"}

UnderWay == \E c \in Channels : handler[c].pc # "idle"

HasPacket(c) == handler[c].pc \notin {"idle", "poll"}

PacketInHand == \E c \in Channels : HasPacket(c)

-----------------------------------------------------------------------------
(* clearParams.                                                            *)

\* Mutant: the members are cleared and the parameters are not.
ClearMembersOnly ==
  /\ lastTime' = [c \in Channels |-> 0]
  /\ lastSeqID' = [c \in Channels |-> NoSeqID]
  /\ seqCounter' = [c \in Channels |-> 0]
  /\ numMissing' = [c \in Channels |-> 0]
  /\ pulseCounter' = 0 /\ detTotal' = 0
  /\ UNCHANGED posted
  /\ stamps' = {} /\ lost' = [c \in Channels |-> FALSE]
  /\ straddled' = PacketInHand

ClearParams ==
  /\ lastTime' = [c \in Channels |-> 0]
  /\ lastSeqID' = [c \in Channels |-> NoSeqID]
  /\ seqCounter' = [c \in Channels |-> 0]
  /\ numMissing' = [c \in Channels |-> 0]
  /\ pulseCounter' = 0 /\ detTotal' = 0
  /\ posted' = [NothingPosted EXCEPT !.rate = posted.rate]
  /\ stamps' = {} /\ lost' = [c \in Channels |-> FALSE]
  /\ straddled' = PacketInHand

-----------------------------------------------------------------------------
(* Clients.                                                                *)

Reset ==
  /\ Unlocked
  /\ ClearParams
  /\ UNCHANGED <<control, zeroing, pause, handler, packets, layout>>

Start ==
  /\ Control!RequestStart
  /\ ClearParams
  /\ pause' = FALSE
  /\ UNCHANGED <<zeroing, handler, packets, layout>>

Stop ==
  /\ Control!RequestStop
  /\ pause' = FALSE
  /\ UNCHANGED <<zeroing, handler, packets, layout, checks, counts, posted, lost, straddled>>

Pause ==
  /\ Unlocked
  /\ pause' = ~pause
  /\ UNCHANGED <<control, zeroing, handler, packets, layout, checks, counts, posted, lost, straddled>>

\* Mutant: a layout parameter may be written during an acquisition.
ConfigureAlways ==
  /\ Unlocked
  /\ params' = "stale"
  /\ UNCHANGED <<control, zeroing, pause, handler, packets, membersMatch, late, checks, counts,
                 posted, lost, straddled>>

\* A pixel range, a detector size or the TOF range is written.
Configure ==
  /\ Control!Ready
  /\ params' = "stale"
  /\ UNCHANGED <<control, zeroing, pause, handler, packets, membersMatch, late, checks, counts,
                 posted, lost, straddled>>

\* NumDet is written, for which no allocation is asked: when it is raised, the handlers
\* read detectors that have no region in p_Data.
ConfigureNumDet ==
  /\ Control!Ready
  /\ params # "stale"
  /\ params' \in {"match", "added"}
  /\ UNCHANGED <<control, zeroing, pause, handler, packets, membersMatch, late, checks, counts,
                 posted, lost, straddled>>

\* allocArray exchanges the buffer when m_dataAlloc is set, and does nothing otherwise.
Alloc(ok) ==
  \/ params = "stale" /\ params' = IF ok THEN "match" ELSE "stale"
  \/ params # "stale" /\ ok /\ UNCHANGED params

AllocSpace ==
  /\ Control!Ready
  /\ Alloc(TRUE)
  /\ UNCHANGED <<control, zeroing, pause, handler, packets, membersMatch, late, checks,
                 counts, posted, lost, straddled>>

\* AllocSpace failed: ADStatus says Error.
AllocSpaceFails ==
  /\ Control!ConfigError
  /\ Alloc(FALSE)
  /\ UNCHANGED <<zeroing, pause, handler, packets, membersMatch, late, checks, counts, posted,
                 lost, straddled>>

-----------------------------------------------------------------------------
(* eventTask.                                                              *)

\* Zero the rates, lines 1619-1626.
ZeroRates == posted' = [posted EXCEPT !.rate = 0]

AcquisitionStarts ==
  /\ ~zeroing
  /\ Control!BeginStart
  /\ late' = PacketInHand
  /\ UNCHANGED <<zeroing, pause, handler, packets, params, membersMatch, checks, counts,
                 posted, lost, straddled>>

StartOk ==
  /\ Control!StartOk
  /\ Alloc(TRUE)
  /\ UNCHANGED <<zeroing, pause, handler, packets, membersMatch, late, checks, counts, posted,
                 lost, straddled>>

\* After a failed start the rates are zeroed without the mutex.
StartFails ==
  /\ Control!StartFails
  /\ zeroing' = TRUE
  /\ \E ok \in BOOLEAN : Alloc(ok)
  /\ late' = UnderWay
  /\ UNCHANGED <<pause, handler, packets, membersMatch, checks, counts, posted, lost, straddled>>

ZeroAfterFailure ==
  /\ zeroing
  /\ zeroing' = FALSE
  /\ ZeroRates
  /\ UNCHANGED <<control, pause, handler, packets, layout, checks, counts, lost, straddled>>

AcquisitionStops ==
  /\ Control!BeginStop
  /\ membersMatch' = FALSE /\ late' = FALSE
  /\ UNCHANGED <<zeroing, pause, handler, packets, params, checks, counts, posted, lost,
                 straddled>>

\* Mutant: the rates are left as they are.
StopDoneKeepsRates ==
  /\ Control!EndStop
  /\ late' = UnderWay
  /\ UNCHANGED <<zeroing, pause, handler, packets, params, membersMatch, checks, counts,
                 posted, lost, straddled>>

StopDone ==
  /\ Control!EndStop
  /\ ZeroRates
  /\ late' = UnderWay
  /\ UNCHANGED <<zeroing, pause, handler, packets, params, membersMatch, checks, counts, lost,
                 straddled>>

EventTask ==
  AcquisitionStarts \/ StartOk \/ StartFails \/ ZeroAfterFailure \/ AcquisitionStops \/ StopDone

-----------------------------------------------------------------------------
(* monitorEvent and eventHandler.  The server of a channel numbers its     *)
(* packets; some of them are lost on the way, and time stamps may go       *)
(* backwards.                                                              *)

\* Mutant: the user tag is not cut to the width of a sequence ID.
SeqIDWide(n) == FirstSeq + n

SeqID(n) == (FirstSeq + n) % SeqMod

\* A packet came, and the started monitor calls monitorEvent.
Wake(c) ==
  /\ monitoring /\ coming[c] # {}
  /\ handler[c].pc = "idle"
  /\ handler' = [handler EXCEPT ![c] = Polling]
  /\ UNCHANGED <<control, zeroing, pause, packets, layout, checks, counts, posted, lost, straddled>>

\* poll() returns NULL.
Leave(c) ==
  /\ handler[c].pc = "poll"
  /\ handler' = [handler EXCEPT ![c] = Idle]
  /\ UNCHANGED <<control, zeroing, pause, packets, layout, checks, counts, posted, lost, straddled>>

\* poll() returns a packet, whether or not the monitor has been stopped since.
Begin(c) ==
  /\ Unlocked
  /\ handler[c].pc = "poll"
  /\ \E n \in coming[c], time \in 1 .. MaxTime[c], update \in BOOLEAN :
       /\ \A m \in coming[c] : n <= m
       /\ handler' = [handler EXCEPT ![c] =
            [pc |-> "read", paused |-> pause, update |-> update, newPulse |-> FALSE,
             time |-> time, seq |-> SeqID(n)]]
       /\ coming' = [coming EXCEPT ![c] = @ \ {n}]
       /\ last' = [last EXCEPT ![c] = n]
       /\ lost' = [lost EXCEPT ![c] = seqCounter[c] # 0 /\ (@ \/ n # last[c] + 1)]
  /\ UNCHANGED <<control, zeroing, pause, layout, checks, counts, posted, straddled>>

\* The copying is one step, but a thread from an earlier acquisition may store late what
\* it loaded before the layout changed: then nothing is known of the members.
Read(c) ==
  /\ handler[c].pc = "read"
  /\ handler' = [handler EXCEPT ![c].pc = "stamp"]
  /\ membersMatch' = (state = "Acquire" /\ ~late /\ params = "match")
  /\ UNCHANGED <<control, zeroing, pause, packets, params, late, checks, counts, posted, lost,
                 straddled>>

\* The handler returns, and monitorEvent polls for the next packet.
Return(c) == handler' = [handler EXCEPT ![c] = Polling]

NoteLost(c) == lost' = [lost EXCEPT ![c] = TRUE]

\* The X size of a pixel ROI is not set: the packet is ignored.
DropUnconfigured(c) ==
  /\ handler[c].pc = "read"
  /\ Return(c) /\ NoteLost(c)
  /\ UNCHANGED <<control, zeroing, pause, packets, layout, checks, counts, posted, straddled>>

\* The packet has no usable time stamp.
DropUnstamped(c) ==
  /\ Unlocked
  /\ handler[c].pc = "stamp"
  /\ Return(c) /\ NoteLost(c)
  /\ seqCounter' = [seqCounter EXCEPT ![c] = @ + 1]
  /\ UNCHANGED <<control, zeroing, pause, packets, layout, lastTime, lastSeqID, numMissing, counts,
                 posted, straddled>>

\* "Backwards timeStamp detected": ADnEDBadTimeStampParam is set, the packet ignored.
DropBackwards(c) ==
  /\ Unlocked
  /\ handler[c].pc = "stamp"
  /\ lastTime[c] > handler[c].time
  /\ Return(c) /\ NoteLost(c)
  /\ seqCounter' = [seqCounter EXCEPT ![c] = @ + 1]
  /\ UNCHANGED <<control, zeroing, pause, packets, layout, lastTime, lastSeqID, numMissing, counts,
                 posted, straddled>>

\* Mutant: the gap is looked for after a clear too.
MissingAfterClear(c, seq) ==
  IF seq # (lastSeqID[c] + 1) % SeqMod THEN (seq - lastSeqID[c] + 1) % SeqMod ELSE 0

\* What is added to the number of missing packets, in unsigned arithmetic.
Missing(c, seq) ==
  IF lastSeqID[c] # NoSeqID /\ seq # (lastSeqID[c] + 1) % SeqMod
  THEN (seq - lastSeqID[c] + 1) % SeqMod
  ELSE 0

\* Mutant: a pulse is new whatever the last time stamp.
IsNewPulseAlways(c) == c = 0

\* Only channel 0 tells pulses apart.
IsNewPulse(c) == c = 0 /\ lastTime[0] # handler[0].time

Stamp(c) ==
  /\ Unlocked
  /\ handler[c].pc = "stamp"
  /\ lastTime[c] <= handler[c].time
  /\ handler' = [handler EXCEPT ![c].pc = "count", ![c].newPulse = IsNewPulse(c)]
  /\ seqCounter' = [seqCounter EXCEPT ![c] = @ + 1]
  /\ lastTime' = [lastTime EXCEPT ![c] = handler[c].time]
  /\ numMissing' = [numMissing EXCEPT ![c] = (@ + Missing(c, handler[c].seq)) % SeqMod]
  /\ lastSeqID' = [lastSeqID EXCEPT ![c] = handler[c].seq]
  /\ UNCHANGED <<control, zeroing, pause, packets, layout, counts, posted, lost, straddled>>

\* The packet has no charge, no pixels or TOFs, or not as many; or there is no buffer.
DropUncounted(c) ==
  /\ handler[c].pc = "count"
  /\ Return(c)
  /\ UNCHANGED <<control, zeroing, pause, packets, layout, checks, counts, posted, lost, straddled>>

\* Mutant: the events of a packet count although it came during a pause.
CountedInPause(c) == 1

Counted(c) == IF handler[c].paused THEN 0 ELSE 1
Pulsed(c)  == IF ~handler[c].paused /\ handler[c].newPulse THEN 1 ELSE 0

\* Lines 1271-1300 post the values of all channels and detectors.
PostUpdates(c) ==
  posted' = IF handler[c].update
            THEN [pulses |-> pulseCounter', rate |-> 1, total |-> detTotal',
                  seqCounter |-> seqCounter]
            ELSE posted

Count(c) ==
  /\ Unlocked
  /\ handler[c].pc = "count"
  /\ pulseCounter' = pulseCounter + Pulsed(c)
  /\ detTotal' = detTotal + Counted(c)
  /\ stamps' = IF Pulsed(c) = 1 THEN stamps \cup {handler[c].time} ELSE stamps
  /\ PostUpdates(c)
  /\ Return(c)
  /\ UNCHANGED <<control, zeroing, pause, packets, layout, checks, lost, straddled>>

Handler(c) ==
  \/ Wake(c) \/ Leave(c) \/ Begin(c) \/ Read(c) \/ DropUnconfigured(c) \/ DropUnstamped(c)
  \/ DropBackwards(c) \/ Stamp(c) \/ DropUncounted(c) \/ Count(c)

-----------------------------------------------------------------------------
Next ==
  \/ Reset \/ Start \/ Stop \/ Pause
  \/ Configure \/ ConfigureNumDet \/ AllocSpace \/ AllocSpaceFails
  \/ EventTask
  \/ \E c \in Channels : Handler(c)

Spec == Init /\ [][Next]_vars

-----------------------------------------------------------------------------
(* Properties.                                                             *)

Local == [pc : {"idle", "poll", "read", "stamp", "count"}, paused : BOOLEAN, update : BOOLEAN,
          newPulse : BOOLEAN, time : Nat, seq : 0 .. SeqMod - 1]

FlagsOK ==
  /\ stopReq \in BOOLEAN /\ monitoring \in BOOLEAN /\ zeroing \in BOOLEAN /\ pause \in BOOLEAN
  /\ membersMatch \in BOOLEAN /\ late \in BOOLEAN
  /\ straddled \in BOOLEAN /\ lost \in [Channels -> BOOLEAN]

ValuesOK ==
  /\ state \in Control!States /\ credit \in 0 .. 2
  /\ params \in {"match", "added", "stale"}
  /\ handler \in [Channels -> Local]
  /\ coming \in [Channels -> SUBSET Nat] /\ last \in [Channels -> Nat]
  /\ lastTime \in [Channels -> Nat] /\ seqCounter \in [Channels -> Nat]
  /\ lastSeqID \in [Channels -> 0 .. SeqMod - 1] /\ numMissing \in [Channels -> 0 .. SeqMod - 1]
  /\ pulseCounter \in Nat /\ detTotal \in Nat
  /\ posted \in [pulses : Nat, rate : 0 .. 1, total : Nat, seqCounter : [Channels -> Nat]]
  /\ stamps \subseteq Nat

\* Every variable has its type: sequence IDs and gaps keep the width of the code's
\* unsigned integers, and no counter becomes negative.
TypeOK == FlagsOK /\ ValuesOK

\* "Number of pulses detected by comparing seq timestamps from the first channel":
\* several packets of one pulse, repeated or late time stamps, a pause and the other
\* channels never make a pulse count twice, unless a packet was being handled when
\* the counters were cleared.
PulsesCountedOnce == ~straddled => pulseCounter = Cardinality(stamps)

\* A channel on which no packet was lost or dropped shows no missing packet, although
\* packets are not counted during a pause, the servers went on sending between two
\* acquisitions, sequence IDs wrap, and the greatest one is taken for the mark of a
\* cleared channel; unless a packet was being handled when the counters were cleared.
NoFalseMissing ==
  ~straddled => \A c \in Channels : numMissing[c] > 0 => lost[c]

\* A handler that is about to count during an acquisition uses the layout of the buffer
\* it counts in, although it read the layout without the mutex, the members it read it
\* into are overwritten by the handlers of other channels, and clients configure and
\* allocate between acquisitions.  Two cases are excluded, in which the code does count by
\* another layout: a packet was in hand when the acquisition began, and NumDet was raised
\* since the buffer was laid out, for which nothing asks for an allocation (line 530).
CountsByCurrentLayout ==
  state = "Acquire" /\ ~late /\ params # "added" =>
    \A c \in Channels : handler[c].pc \in {"stamp", "count"} => membersMatch

\* What clients see never runs ahead of the counters, whichever channel posts it:
\* clearParams clears both, and updates are posted with the mutex held.
PostedNotAhead ==
  /\ posted.pulses <= pulseCounter
  /\ posted.total <= detTotal
  /\ \A c \in Channels : posted.seqCounter[c] <= seqCounter[c]

\* Between acquisitions the rates that clients see are zero: the last handler to post one
\* came before the zeroing, and no monitor calls monitorEvent again; unless a thread was in
\* monitorEvent when the acquisition ended or failed to begin.  Such a thread goes on with
\* the packets that its queue holds, all of which may come after the stop.
RateZeroUnlessLate == Control!Ready /\ ~late /\ ~zeroing => posted.rate = 0

\* The packets whose events may still be counted.
InHand == {c \in Channels : HasPacket(c) /\ ~handler[c].paused}

\* A pause holds from the next packet on: while it lasts, the events counted and the packets
\* that came before it and are still to be counted never become more, whichever handlers
\* were under way when the flag was set.
PauseHolds ==
  [][pause /\ pause' => detTotal' + Cardinality(InHand') <= detTotal + Cardinality(InHand)]_vars

\* "After a stop, make sure that the event rate parameters are zero."
RateZeroAfterStop == state = "Idle" => posted.rate = 0
=============================================================================
