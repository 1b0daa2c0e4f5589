------------------------- MODULE ADnEDEventsProofs -------------------------
(***************************************************************************)
(* The safety properties of ADnEDEvents for any set of channels, any       *)
(* number of packets, any loss and any width of the sequence IDs, each     *)
(* from an inductive invariant of its own on top of TypeOK.                *)
(***************************************************************************)
EXTENDS ADnEDEvents, FiniteSetTheorems, TLAPS

\* A new pulse is in hand only between Stamp and Count of channel 0; its time stamp is
\* the last one, and later than those of all pulses counted.
PulseInv ==
  /\ \A c \in Channels : handler[c].newPulse => c = 0 /\ handler[c].pc = "count"
  /\ IsFiniteSet(stamps)
  /\ ~straddled =>
       /\ pulseCounter = Cardinality(stamps)
       /\ \A s \in stamps : s <= lastTime[0]
       /\ handler[0].newPulse => /\ handler[0].time = lastTime[0]
                                 /\ \A s \in stamps : s < lastTime[0]

\* On a channel without loss the last sequence ID is that of the last packet, or of the
\* one before while the last one is being handled.
ChannelSeq(c) ==
  /\ handler[c].pc \in {"read", "stamp"} => handler[c].seq = SeqID(last[c])
  /\ ~straddled =>
       /\ seqCounter[c] = 0 => numMissing[c] = 0 /\ lastSeqID[c] = NoSeqID
       /\ ~lost[c] => numMissing[c] = 0
       /\ ~lost[c] /\ seqCounter[c] # 0 =>
            IF handler[c].pc \in {"read", "stamp"}
            THEN last[c] > 0 /\ lastSeqID[c] = SeqID(last[c] - 1)
            ELSE lastSeqID[c] = SeqID(last[c])

SequenceInv == \A c \in Channels : ChannelSeq(c)

\* No packet is in hand while an acquisition starts, and the layout does not change
\* while it runs.
LayoutInv ==
  ~late =>
    /\ state = "Starting" => ~PacketInHand
    /\ state = "Acquire" =>
         /\ params # "stale"
         /\ params = "match" =>
              \A c \in Channels : handler[c].pc \in {"stamp", "count"} => membersMatch

-----------------------------------------------------------------------------
(* Types.                                                                  *)

\* What a sequence ID is for any packet number.
LEMMA SeqIDType == \A n \in Nat : SeqID(n) \in 0 .. SeqMod - 1
  BY EventsAssumption DEF SeqID

LEMMA MissingType ==
  ASSUME ValuesOK, NEW c \in Channels
  PROVE  (numMissing[c] + Missing(c, handler[c].seq)) % SeqMod \in 0 .. SeqMod - 1
  <1>1. /\ numMissing[c] \in Nat /\ lastSeqID[c] \in Nat /\ handler[c].seq \in Nat
        /\ SeqMod \in Nat \ {0}
    BY EventsAssumption DEF ValuesOK, Local
  <1>2. Missing(c, handler[c].seq) \in Nat
    BY <1>1 DEF Missing
  <1> QED
    BY <1>1, <1>2

LEMMA InitFlags == Init => FlagsOK
  BY Zenon DEF Init, Control!Init, FlagsOK

LEMMA ClearFlags == ClearParams => straddled' \in BOOLEAN /\ lost' \in [Channels -> BOOLEAN]
  BY Zenon DEF ClearParams, PacketInHand

LEMMA NextFlags == FlagsOK /\ [Next]_vars => FlagsOK'
  <1> SUFFICES ASSUME FlagsOK, [Next]_vars PROVE FlagsOK'
    OBVIOUS
  <1> USE DEF FlagsOK, control, checks, counts, packets, layout
  <1>1. CASE Reset
    BY <1>1, ClearFlags, Zenon DEF Reset
  <1>2. CASE Start
    BY <1>2, ClearFlags, Zenon DEF Start, Control!RequestStart
  <1>3. CASE Stop \/ Pause
    BY <1>3, Zenon DEF Stop, Pause, Control!RequestStop
  <1>4. CASE Configure \/ ConfigureNumDet \/ AllocSpace \/ AllocSpaceFails
    BY <1>4, Zenon DEF Configure, ConfigureNumDet, AllocSpace, AllocSpaceFails, Alloc, Control!ConfigError
  <1>5. CASE EventTask
    BY <1>5, Zenon DEF EventTask, AcquisitionStarts, StartOk, StartFails, ZeroAfterFailure,
      AcquisitionStops, StopDone, Alloc, UnderWay, PacketInHand, Control!BeginStart, Control!StartOk,
      Control!StartFails, Control!BeginStop, Control!EndStop
  <1>6. ASSUME NEW c \in Channels, Begin(c) PROVE FlagsOK'
    <2>1. lost' \in [Channels -> BOOLEAN]
      BY <1>6, Zenon DEF Begin
    <2> QED
      BY <1>6, <2>1, Zenon DEF Begin
  <1>7. ASSUME NEW c \in Channels, Handler(c), ~Begin(c) PROVE FlagsOK'
    BY <1>7, Zenon DEF Handler, Wake, Leave, Read, DropUncounted, DropUnconfigured, DropUnstamped,
      DropBackwards, NoteLost, Stamp, Count
  <1>8. CASE UNCHANGED vars
    BY <1>8, Zenon DEF vars
  <1> QED
    BY <1>1, <1>2, <1>3, <1>4, <1>5, <1>6, <1>7, <1>8 DEF Next

LEMMA InitValues == Init => ValuesOK
  BY EventsAssumption DEF Init, Control!Init, ValuesOK, Local, Idle, NothingPosted, NoSeqID,
    Control!States

LEMMA ClearValues == ValuesOK /\ ClearParams =>
    /\ lastTime' \in [Channels -> Nat] /\ seqCounter' \in [Channels -> Nat]
    /\ lastSeqID' \in [Channels -> 0 .. SeqMod - 1] /\ numMissing' \in [Channels -> 0 .. SeqMod - 1]
    /\ pulseCounter' \in Nat /\ detTotal' \in Nat /\ stamps' \subseteq Nat
    /\ posted' \in [pulses : Nat, rate : 0 .. 1, total : Nat, seqCounter : [Channels -> Nat]]
  BY EventsAssumption DEF ValuesOK, ClearParams, NothingPosted, NoSeqID

LEMMA NextValues == TypeOK /\ [Next]_vars => ValuesOK'
  <1> SUFFICES ASSUME FlagsOK, ValuesOK, [Next]_vars PROVE ValuesOK'
    BY DEF TypeOK
  <1> USE EventsAssumption DEF control, checks, counts, packets, layout
  <1>1. CASE Reset
    BY <1>1, ClearValues DEF Reset, ValuesOK
  <1>2. CASE Start
    BY <1>2, ClearValues DEF Start, Control!RequestStart, ValuesOK
  <1>3. CASE Stop \/ Pause
    BY <1>3 DEF Stop, Pause, Control!RequestStop, ValuesOK
  <1>4. CASE Configure \/ ConfigureNumDet \/ AllocSpace \/ AllocSpaceFails
    BY <1>4 DEF Configure, ConfigureNumDet, AllocSpace, AllocSpaceFails, Alloc, Control!ConfigError,
      Control!States, ValuesOK
  <1>5. CASE EventTask
    <2>1. CASE AcquisitionStarts
      BY <2>1 DEF AcquisitionStarts, Control!BeginStart, Control!States, ValuesOK
    <2>2. CASE StartOk
      BY <2>2 DEF StartOk, Alloc, Control!StartOk, Control!States, ValuesOK
    <2>3. CASE StartFails
      BY <2>3 DEF StartFails, Alloc, Control!StartFails, Control!States, ValuesOK
    <2>4. CASE AcquisitionStops
      BY <2>4 DEF AcquisitionStops, Control!BeginStop, Control!States, ValuesOK
    <2>5. CASE ZeroAfterFailure
      BY <2>5 DEF ZeroAfterFailure, ZeroRates, ValuesOK
    <2>6. CASE StopDone
      BY <2>6 DEF StopDone, ZeroRates, Control!EndStop, Control!States, ValuesOK
    <2> QED
      BY <1>5, <2>1, <2>2, <2>3, <2>4, <2>5, <2>6 DEF EventTask
  <1>6. ASSUME NEW c \in Channels, Begin(c) PROVE ValuesOK'
    <2>1. PICK n \in coming[c], time \in 1 .. MaxTime[c], update \in BOOLEAN :
            /\ handler' = [handler EXCEPT ![c] =
                 [pc |-> "read", paused |-> pause, update |-> update, newPulse |-> FALSE,
                  time |-> time, seq |-> SeqID(n)]]
            /\ coming' = [coming EXCEPT ![c] = @ \ {n}]
            /\ last' = [last EXCEPT ![c] = n]
      BY <1>6, Zenon DEF Begin
    <2>2. n \in Nat /\ time \in Nat
      BY DEF ValuesOK
    <2>3. [pc |-> "read", paused |-> pause, update |-> update, newPulse |-> FALSE,
           time |-> time, seq |-> SeqID(n)] \in Local
      BY <2>2, SeqIDType, Zenon DEF Local, FlagsOK
    <2>4. handler' \in [Channels -> Local]
      BY <2>1, <2>3, Zenon DEF ValuesOK
    <2>5. coming' \in [Channels -> SUBSET Nat] /\ last' \in [Channels -> Nat]
      BY <2>1, <2>2 DEF ValuesOK
    <2> QED
      BY <1>6, <2>4, <2>5, Zenon DEF Begin, ValuesOK
  <1>0. Idle \in Local /\ Polling \in Local
    <2>1. Idle \in Local
      BY DEF Idle, Local
    <2>2. [Idle EXCEPT !.pc = "poll"] \in Local
      BY <2>1, Zenon DEF Local
    <2> QED
      BY <2>1, <2>2 DEF Polling
  <1>7. ASSUME NEW c \in Channels, Return(c) PROVE handler' \in [Channels -> Local]
    BY <1>0, <1>7, Zenon DEF Return, ValuesOK
  <1>13. ASSUME NEW c \in Channels, Wake(c) \/ Leave(c) PROVE ValuesOK'
    <2>1. handler' \in [Channels -> Local]
      BY <1>0, <1>13, Zenon DEF Wake, Leave, ValuesOK
    <2> QED
      BY <1>13, <2>1, Zenon DEF Wake, Leave, ValuesOK
  <1>8. ASSUME NEW c \in Channels, Read(c) PROVE ValuesOK'
    <2>1. handler' \in [Channels -> Local]
      <3>1. handler[c] \in Local
        BY DEF ValuesOK
      <3>2. [handler[c] EXCEPT !.pc = "stamp"] \in Local
        BY <3>1, Zenon DEF Local
      <3> QED
        BY <1>8, <3>2, Zenon DEF Read, ValuesOK
    <2> QED
      BY <1>8, <2>1, Zenon DEF Read, ValuesOK
  <1>9. ASSUME NEW c \in Channels,
               DropUnconfigured(c) \/ DropUnstamped(c) \/ DropBackwards(c) \/ DropUncounted(c)
        PROVE  ValuesOK'
    <2>1. handler' \in [Channels -> Local]
      BY <1>7, <1>9 DEF DropUnconfigured, DropUnstamped, DropBackwards, DropUncounted
    <2>2. seqCounter' \in [Channels -> Nat]
      BY <1>9 DEF DropUnconfigured, DropUnstamped, DropBackwards, DropUncounted, ValuesOK
    <2> QED
      BY <1>9, <2>1, <2>2, Zenon
      DEF DropUnconfigured, DropUnstamped, DropBackwards, DropUncounted, ValuesOK
  <1>10. ASSUME NEW c \in Channels, Stamp(c) PROVE ValuesOK'
    <2>1. handler' \in [Channels -> Local]
      <3>1. handler[c] \in Local
        BY DEF ValuesOK
      <3>2. [handler[c] EXCEPT !.pc = "count", !.newPulse = IsNewPulse(c)] \in Local
        BY <3>1, Zenon DEF Local, IsNewPulse
      <3> QED
        BY <1>10, <3>2, Zenon DEF Stamp, ValuesOK
    <2>2. /\ lastTime' \in [Channels -> Nat] /\ seqCounter' \in [Channels -> Nat]
          /\ lastSeqID' \in [Channels -> 0 .. SeqMod - 1]
      BY <1>10 DEF Stamp, Local, ValuesOK
    <2>3. numMissing' \in [Channels -> 0 .. SeqMod - 1]
      BY <1>10, MissingType, Zenon DEF Stamp, ValuesOK
    <2> QED
      BY <1>10, <2>1, <2>2, <2>3, Zenon DEF Stamp, ValuesOK
  <1>11. ASSUME NEW c \in Channels, Count(c) PROVE ValuesOK'
    <2>1. handler' \in [Channels -> Local]
      BY <1>7, <1>11 DEF Count
    <2>2. pulseCounter' \in Nat /\ detTotal' \in Nat
      BY <1>11 DEF Count, Counted, Pulsed, ValuesOK
    <2>3. posted' \in [pulses : Nat, rate : 0 .. 1, total : Nat, seqCounter : [Channels -> Nat]]
      BY <1>11, <2>2 DEF Count, PostUpdates, ValuesOK
    <2>4. stamps' \subseteq Nat
      <3>1. handler[c].time \in Nat /\ stamps \subseteq Nat
        BY DEF Local, ValuesOK
      <3>2. stamps' = stamps \cup {handler[c].time} \/ stamps' = stamps
        BY <1>11, Zenon DEF Count
      <3> QED
        BY <3>1, <3>2
    <2> QED
      BY <1>11, <2>1, <2>2, <2>3, <2>4, Zenon DEF Count, ValuesOK
  <1>12. CASE UNCHANGED vars
    BY <1>12, Zenon DEF vars, ValuesOK
  <1> QED
    BY <1>1, <1>2, <1>3, <1>4, <1>5, <1>6, <1>8, <1>9, <1>10, <1>11, <1>12, <1>13
    DEF Next, Handler

\* Every variable of event handling has its type, for any number of channels.
THEOREM TypeCorrect == Spec => []TypeOK
  <1>1. Init => TypeOK
    BY InitFlags, InitValues DEF TypeOK
  <1>2. TypeOK /\ [Next]_vars => TypeOK'
    BY NextFlags, NextValues DEF TypeOK
  <1> QED
    BY <1>1, <1>2, PTL DEF Spec

-----------------------------------------------------------------------------
(* What clients see.                                                       *)

LEMMA NextPosted == TypeOK /\ PostedNotAhead /\ [Next]_vars => PostedNotAhead'
  <1> SUFFICES ASSUME ValuesOK, PostedNotAhead, [Next]_vars PROVE PostedNotAhead'
    BY DEF TypeOK
  <1> USE DEF control, checks, counts, packets, layout
  <1>1. ASSUME UNCHANGED <<posted, pulseCounter, detTotal, seqCounter>> PROVE PostedNotAhead'
    BY <1>1, Zenon DEF PostedNotAhead
  <1>2. ASSUME ClearParams PROVE PostedNotAhead'
    BY <1>2 DEF ClearParams, NothingPosted, ValuesOK, PostedNotAhead
  <1>3. ASSUME ZeroRates, UNCHANGED <<pulseCounter, detTotal, seqCounter>> PROVE PostedNotAhead'
    BY <1>3 DEF ZeroRates, ValuesOK, PostedNotAhead
  <1>4. ASSUME NEW c \in Channels, seqCounter' = [seqCounter EXCEPT ![c] = @ + 1],
               UNCHANGED <<posted, pulseCounter, detTotal>>
        PROVE  PostedNotAhead'
    BY <1>4 DEF ValuesOK, PostedNotAhead
  <1>5. ASSUME NEW c \in Channels, Count(c) PROVE PostedNotAhead'
    <2>1. /\ pulseCounter' = pulseCounter + Pulsed(c) /\ detTotal' = detTotal + Counted(c)
          /\ seqCounter' = seqCounter
      BY <1>5, Zenon DEF Count
    <2>2. /\ pulseCounter' \in Nat /\ detTotal' \in Nat
          /\ pulseCounter <= pulseCounter' /\ detTotal <= detTotal'
      BY <2>1 DEF Pulsed, Counted, ValuesOK
    <2>3. CASE posted' = posted
      BY <2>1, <2>2, <2>3 DEF ValuesOK, PostedNotAhead
    <2>4. CASE posted' = [pulses |-> pulseCounter', rate |-> 1, total |-> detTotal',
                          seqCounter |-> seqCounter]
      BY <2>1, <2>2, <2>4 DEF ValuesOK, PostedNotAhead
    <2> QED
      BY <1>5, <2>3, <2>4, Zenon DEF Count, PostUpdates
  <1>6. CASE Reset \/ Start
    BY <1>2, <1>6, Zenon DEF Reset, Start
  <1>7. CASE Stop \/ Pause \/ Configure \/ ConfigureNumDet \/ AllocSpace \/ AllocSpaceFails
    BY <1>1, <1>7, Zenon DEF Stop, Pause, Configure, ConfigureNumDet, AllocSpace, AllocSpaceFails
  <1>8. CASE EventTask
    BY <1>1, <1>3, <1>8, Zenon DEF EventTask, AcquisitionStarts, StartOk, StartFails,
      ZeroAfterFailure, AcquisitionStops, StopDone
  <1>9. ASSUME NEW c \in Channels, Handler(c) PROVE PostedNotAhead'
    BY <1>1, <1>4, <1>5, <1>9, Zenon DEF Handler, Wake, Leave, Begin, Read, DropUnconfigured,
      DropUnstamped, DropBackwards, Stamp, DropUncounted
  <1>10. CASE UNCHANGED vars
    BY <1>1, <1>10, Zenon DEF vars
  <1> QED
    BY <1>6, <1>7, <1>8, <1>9, <1>10 DEF Next

\* What clients see never runs ahead of the counters, whatever the number of channels.
THEOREM PostedBehind == Spec => []PostedNotAhead
  <1>1. Init => PostedNotAhead
    BY EventsAssumption DEF Init, NothingPosted, PostedNotAhead
  <1> QED
    BY <1>1, NextPosted, TypeCorrect, PTL DEF Spec

-----------------------------------------------------------------------------
(* The layout that handlers count by.                                      *)

LEMMA NextLayout == TypeOK /\ LayoutInv /\ [Next]_vars => LayoutInv'
  <1> SUFFICES ASSUME FlagsOK, ValuesOK, LayoutInv, [Next]_vars PROVE LayoutInv'
    BY DEF TypeOK
  <1> USE DEF control, checks, counts, packets, layout
  <1>1. ASSUME UNCHANGED <<state, handler, layout>> PROVE LayoutInv'
    BY <1>1, Zenon DEF LayoutInv, PacketInHand, HasPacket
  <1>2. ASSUME state' # "Starting", state' # "Acquire" PROVE LayoutInv'
    BY <1>2, Zenon DEF LayoutInv
  <1>3. CASE Reset \/ Start \/ Stop \/ Pause
    BY <1>1, <1>3, Zenon DEF Reset, Start, Stop, Pause, Control!RequestStart, Control!RequestStop
  <1>4. CASE Configure \/ ConfigureNumDet \/ AllocSpace \/ AllocSpaceFails
    BY <1>2, <1>4 DEF Configure, ConfigureNumDet, AllocSpace, AllocSpaceFails, Control!Ready, Control!ConfigError
  <1>5. CASE AcquisitionStarts
    BY <1>5 DEF AcquisitionStarts, Control!BeginStart, LayoutInv, PacketInHand, HasPacket
  <1>6. CASE StartOk
    BY <1>6 DEF StartOk, Control!StartOk, Alloc, LayoutInv, PacketInHand, HasPacket
  <1>7. CASE StartFails \/ AcquisitionStops \/ StopDone
    BY <1>2, <1>7 DEF StartFails, AcquisitionStops, StopDone, Control!StartFails,
      Control!BeginStop, Control!EndStop
  <1>8. CASE ZeroAfterFailure
    BY <1>1, <1>8, Zenon DEF ZeroAfterFailure
  <1>9. ASSUME NEW c \in Channels, Handler(c) PROVE LayoutInv'
    <2>1. CASE Begin(c)
      BY <1>9, <2>1 DEF Begin, Unlocked, LayoutInv, PacketInHand, HasPacket, ValuesOK
    <2>2. CASE Read(c)
      BY <1>9, <2>2 DEF Read, LayoutInv, PacketInHand, HasPacket, ValuesOK
    <2>3. ASSUME UNCHANGED <<state, layout>>,
                 handler'[c].pc \in {"idle", "poll"} \/ (handler[c].pc = "stamp" /\ handler'[c].pc = "count"),
                 \A d \in Channels \ {c} : handler'[d] = handler[d]
          PROVE  LayoutInv'
      BY <1>9, <2>3 DEF LayoutInv, PacketInHand, HasPacket, ValuesOK
    <2>4. CASE Stamp(c)
      BY <1>9, <2>3, <2>4 DEF Stamp, ValuesOK, Local
    <2>5. ASSUME Return(c) PROVE /\ handler'[c].pc = "poll"
                                 /\ \A d \in Channels \ {c} : handler'[d] = handler[d]
      BY <2>5 DEF Return, Polling, ValuesOK
    <2>6. CASE DropUnconfigured(c) \/ DropUnstamped(c) \/ DropBackwards(c) \/ DropUncounted(c)
               \/ Count(c)
      BY <2>3, <2>5, <2>6
      DEF DropUnconfigured, DropUnstamped, DropBackwards, DropUncounted, Count
    <2>7. CASE Wake(c) \/ Leave(c)
      BY <1>9, <2>3, <2>7 DEF Wake, Leave, Idle, Polling, ValuesOK
    <2> QED
      BY <1>9, <2>1, <2>2, <2>4, <2>6, <2>7 DEF Handler
  <1>10. CASE UNCHANGED vars
    BY <1>1, <1>10, Zenon DEF vars
  <1> QED
    BY <1>3, <1>4, <1>5, <1>6, <1>7, <1>8, <1>9, <1>10 DEF Next, EventTask

\* A handler counts by the layout of the buffer it counts in, for any number of handlers
\* that share the members the layout is read into; not so a handler that was under way when
\* the acquisition began, nor once NumDet was raised after the allocation.
THEOREM LayoutIsCurrent == Spec => []CountsByCurrentLayout
  <1>1. Init => LayoutInv
    BY DEF Init, Control!Init, LayoutInv
  <1>2. TypeOK /\ LayoutInv => CountsByCurrentLayout
    BY DEF LayoutInv, CountsByCurrentLayout, TypeOK, ValuesOK
  <1> QED
    BY <1>1, <1>2, NextLayout, TypeCorrect, PTL DEF Spec

-----------------------------------------------------------------------------
(* Pulses.                                                                 *)

LEMMA NextPulse == TypeOK /\ PulseInv /\ [Next]_vars => PulseInv'
  <1> SUFFICES ASSUME FlagsOK, ValuesOK, PulseInv, [Next]_vars PROVE PulseInv'
    BY DEF TypeOK
  <1> USE DEF control, checks, counts, packets, layout
  <1>0. 0 \in Channels
    BY EventsAssumption
  <1>1. ASSUME UNCHANGED <<handler, stamps, straddled, pulseCounter, lastTime>> PROVE PulseInv'
    BY <1>1, Zenon DEF PulseInv
  \* A clear leaves no pulse in hand, or says so.
  <1>2. ASSUME ClearParams, UNCHANGED handler PROVE PulseInv'
    <2>1. IsFiniteSet({}) /\ Cardinality({}) = 0
      BY FS_EmptySet
    <2>2. ~straddled' => ~handler[0].newPulse
      BY <1>0, <1>2 DEF ClearParams, PacketInHand, HasPacket, PulseInv
    <2> QED
      BY <1>2, <2>1, <2>2, <1>0 DEF ClearParams, PulseInv
  \* The step of a handler that finds or leaves no new pulse.
  <1>3. ASSUME NEW c \in Channels, ~handler'[c].newPulse,
               \A d \in Channels \ {c} : handler'[d] = handler[d],
               UNCHANGED <<stamps, straddled, pulseCounter, lastTime>>
        PROVE  PulseInv'
    BY <1>0, <1>3 DEF PulseInv
  <1>4. ASSUME NEW c \in Channels, Begin(c) PROVE PulseInv'
    <2>1. ~handler'[c].newPulse /\ \A d \in Channels \ {c} : handler'[d] = handler[d]
      BY <1>4 DEF Begin, ValuesOK
    <2> QED
      BY <1>3, <1>4, <2>1 DEF Begin
  <1>5. ASSUME NEW c \in Channels, Return(c)
        PROVE  ~handler'[c].newPulse /\ \A d \in Channels \ {c} : handler'[d] = handler[d]
    BY <1>5 DEF Return, Idle, Polling, ValuesOK
  <1>14. ASSUME NEW c \in Channels, Wake(c) \/ Leave(c) PROVE PulseInv'
    <2>1. ~handler'[c].newPulse /\ \A d \in Channels \ {c} : handler'[d] = handler[d]
      BY <1>14 DEF Wake, Leave, Idle, Polling, ValuesOK
    <2> QED
      BY <1>3, <1>14, <2>1 DEF Wake, Leave
  <1>6. ASSUME NEW c \in Channels, Read(c) PROVE PulseInv'
    <2>1. ~handler'[c].newPulse /\ \A d \in Channels \ {c} : handler'[d] = handler[d]
      BY <1>6 DEF Read, PulseInv, ValuesOK, Local
    <2> QED
      BY <1>3, <1>6, <2>1 DEF Read
  <1>7. ASSUME NEW c \in Channels,
               DropUnconfigured(c) \/ DropUnstamped(c) \/ DropBackwards(c) \/ DropUncounted(c)
        PROVE  PulseInv'
    BY <1>3, <1>5, <1>7 DEF DropUnconfigured, DropUnstamped, DropBackwards, DropUncounted
  <1>8. ASSUME NEW c \in Channels, Stamp(c) PROVE PulseInv'
    <2>1. /\ handler'[c].pc = "count" /\ handler'[c].newPulse = IsNewPulse(c)
          /\ handler'[c].time = handler[c].time
          /\ \A d \in Channels \ {c} : handler'[d] = handler[d]
          /\ lastTime'[c] = handler[c].time /\ lastTime[c] <= lastTime'[c]
          /\ \A d \in Channels \ {c} : lastTime'[d] = lastTime[d]
          /\ UNCHANGED <<stamps, straddled, pulseCounter>>
      BY <1>8 DEF Stamp, ValuesOK, Local
    <2>2. /\ lastTime[0] \in Nat /\ lastTime'[c] \in Nat /\ handler[c].time \in Nat
          /\ stamps \subseteq Nat
      BY <1>0, <2>1 DEF ValuesOK, Local
    <2>3. \A d \in Channels : handler'[d].newPulse => d = 0 /\ handler'[d].pc = "count"
      BY <2>1 DEF IsNewPulse, PulseInv
    <2>4. ASSUME ~straddled PROVE \A s \in stamps : s <= lastTime'[0]
      BY <1>0, <2>1, <2>2, <2>4 DEF PulseInv
    <2>5. ASSUME ~straddled, handler'[0].newPulse
          PROVE  handler'[0].time = lastTime'[0] /\ \A s \in stamps : s < lastTime'[0]
      <3>1. CASE c = 0
        <4>1. lastTime[0] # lastTime'[0]
          BY <2>1, <2>5, <3>1 DEF IsNewPulse
        <4>2. lastTime[0] < lastTime'[0]
          BY <2>1, <2>2, <3>1, <4>1
        <4>3. \A s \in stamps : s <= lastTime[0]
          BY <2>5 DEF PulseInv
        <4> QED
          BY <2>1, <2>2, <3>1, <4>2, <4>3
      <3>2. CASE c # 0
        <4>1. handler'[0] = handler[0] /\ lastTime'[0] = lastTime[0]
          BY <1>0, <2>1, <3>2
        <4> QED
          BY <2>5, <4>1 DEF PulseInv
      <3> QED
        BY <3>1, <3>2
    <2> QED
      BY <2>1, <2>3, <2>4, <2>5 DEF PulseInv
  <1>9. ASSUME NEW c \in Channels, Count(c) PROVE PulseInv'
    <2>1. CASE Pulsed(c) = 0
      <3>1. UNCHANGED <<stamps, straddled, pulseCounter, lastTime>>
        BY <1>9, <2>1 DEF Count, ValuesOK
      <3> QED
        BY <1>3, <1>5, <1>9, <3>1 DEF Count
    <2>2. CASE Pulsed(c) = 1
      <3>1. c = 0 /\ handler[0].newPulse
        BY <1>9, <2>2 DEF Pulsed, PulseInv
      <3>2. /\ stamps' = stamps \cup {handler[0].time} /\ pulseCounter' = pulseCounter + 1
            /\ UNCHANGED <<straddled, lastTime>>
        BY <1>9, <2>2, <3>1 DEF Count
      <3>3. /\ \A d \in Channels : handler'[d].newPulse => d = 0 /\ handler'[d].pc = "count"
            /\ ~handler'[0].newPulse
        BY <1>0, <1>5, <1>9, <3>1 DEF Count, PulseInv
      <3>4. IsFiniteSet(stamps')
        BY <3>2, FS_AddElement DEF PulseInv
      <3>5. ASSUME ~straddled
            PROVE  /\ pulseCounter' = Cardinality(stamps')
                   /\ \A s \in stamps' : s <= lastTime'[0]
        <4>1. handler[0].time = lastTime[0] /\ \A s \in stamps : s < lastTime[0]
          BY <3>1, <3>5 DEF PulseInv
        <4>2. lastTime[0] \in Nat /\ stamps \subseteq Nat
          BY <1>0 DEF ValuesOK
        <4>3. handler[0].time \notin stamps
          BY <4>1, <4>2
        <4>4. Cardinality(stamps') = Cardinality(stamps) + 1
          BY <3>2, <4>3, FS_AddElement DEF PulseInv
        <4> QED
          BY <3>2, <3>5, <4>1, <4>2, <4>4 DEF PulseInv
      <3> QED
        BY <3>2, <3>3, <3>4, <3>5 DEF PulseInv
    <2> QED
      BY <2>1, <2>2 DEF Pulsed
  <1>10. CASE Reset \/ Start
    BY <1>2, <1>10, Zenon DEF Reset, Start
  <1>11. CASE Stop \/ Pause \/ Configure \/ ConfigureNumDet \/ AllocSpace \/ AllocSpaceFails
    BY <1>1, <1>11, Zenon DEF Stop, Pause, Configure, ConfigureNumDet, AllocSpace, AllocSpaceFails
  <1>12. CASE EventTask
    BY <1>1, <1>12, Zenon DEF EventTask, AcquisitionStarts, StartOk, StartFails,
      ZeroAfterFailure, AcquisitionStops, StopDone
  <1>13. CASE UNCHANGED vars
    BY <1>1, <1>13, Zenon DEF vars
  <1> QED
    BY <1>4, <1>6, <1>7, <1>8, <1>9, <1>10, <1>11, <1>12, <1>13, <1>14
    DEF Next, Handler

\* A pulse is counted once, however many packets it has and whatever their time stamps.
THEOREM PulsesOnce == Spec => []PulsesCountedOnce
  <1>1. Init => PulseInv
    <2>1. IsFiniteSet({}) /\ Cardinality({}) = 0
      BY FS_EmptySet
    <2> QED
      BY <2>1, EventsAssumption DEF Init, Idle, PulseInv
  <1>2. PulseInv => PulsesCountedOnce
    BY DEF PulseInv, PulsesCountedOnce
  <1> QED
    BY <1>1, <1>2, NextPulse, TypeCorrect, PTL DEF Spec

-----------------------------------------------------------------------------
(* Sequence IDs.                                                           *)

LEMMA Multiple ==
  ASSUME NEW k \in Nat \ {0}, NEW d \in Int, -k < k * d, k * d < k PROVE d = 0
  <1>1. d >= 1 => k * d >= k
    OBVIOUS
  <1>2. d <= -1 => k * d <= -k
    OBVIOUS
  <1> QED
    BY <1>1, <1>2

LEMMA Remainder ==
  ASSUME NEW k \in Nat \ {0}, NEW q \in Int, NEW r \in 0 .. k - 1
  PROVE  (k * q + r) % k = r
  <1> DEFINE x == k * q + r
             p == x \div k
             t == x % k
  <1>1. k * q \in Int /\ x \in Int
    OBVIOUS
  <1>2. p \in Int /\ t \in 0 .. k - 1 /\ x = k * p + t
    BY <1>1
  <1>3. k * (p - q) = r - t
    <2>1. k * (p - q) = k * p - k * q
      BY <1>2
    <2> QED
      BY <2>1, <1>1, <1>2
  <1>4. p - q = 0
    BY <1>2, <1>3, Multiple
  <1> QED
    BY <1>2, <1>3, <1>4

LEMMA NextMod ==
  ASSUME NEW a \in Nat, NEW k \in Nat \ {0}
  PROVE  ((a % k) + 1) % k = (a + 1) % k
  <1> DEFINE q == a \div k
             r == a % k
  <1>1. q \in Int /\ r \in 0 .. k - 1 /\ a = k * q + r
    OBVIOUS
  <1> HIDE DEF q, r
  <1>2. CASE r + 1 < k
    <2>1. a + 1 = k * q + (r + 1) /\ r + 1 = k * 0 + (r + 1) /\ r + 1 \in 0 .. k - 1
      BY <1>1, <1>2
    <2>2. (a + 1) % k = r + 1
      BY <1>1, <2>1, Remainder
    <2>3. (r + 1) % k = r + 1
      BY <1>1, <2>1, Remainder
    <2> QED
      BY <2>2, <2>3 DEF r
  <1>3. CASE r + 1 = k
    <2>1. k * (q + 1) = k * q + k
      BY <1>1
    <2>2. a + 1 = k * (q + 1) + 0 /\ r + 1 = k * 1 + 0 /\ 0 \in 0 .. k - 1
      BY <1>1, <1>3, <2>1
    <2>3. (a + 1) % k = 0
      BY <1>1, <2>2, Remainder
    <2>4. (r + 1) % k = 0
      BY <1>1, <2>2, Remainder
    <2> QED
      BY <2>3, <2>4 DEF r
  <1> QED
    BY <1>1, <1>2, <1>3

\* The IDs of two packets in a row differ by one, wrapped.
LEMMA SeqIDNext ==
  ASSUME NEW n \in Nat \ {0} PROVE SeqID(n) = (SeqID(n - 1) + 1) % SeqMod
  <1>1. FirstSeq + (n - 1) \in Nat /\ SeqMod \in Nat \ {0}
    BY EventsAssumption
  <1>2. (((FirstSeq + (n - 1)) % SeqMod) + 1) % SeqMod = ((FirstSeq + (n - 1)) + 1) % SeqMod
    BY <1>1, NextMod
  <1>3. (FirstSeq + (n - 1)) + 1 = FirstSeq + n
    BY EventsAssumption
  <1> QED
    BY <1>2, <1>3 DEF SeqID

LEMMA NextSequence == TypeOK /\ SequenceInv /\ [Next]_vars => SequenceInv'
  <1> SUFFICES ASSUME FlagsOK, ValuesOK, SequenceInv, [Next]_vars PROVE SequenceInv'
    BY DEF TypeOK
  <1> USE DEF control, checks, counts, packets, layout
  <1> DEFINE at(c) == <<handler[c], last[c], lastSeqID[c], seqCounter[c], numMissing[c], lost[c]>>
  <1>1. ASSUME NEW c \in Channels, UNCHANGED <<at(c), straddled>> PROVE ChannelSeq(c)'
    BY <1>1, Zenon DEF SequenceInv, ChannelSeq, SeqID, NoSeqID
  <1>2. ASSUME UNCHANGED <<handler, last, lastSeqID, seqCounter, numMissing, lost, straddled>>
        PROVE  SequenceInv'
    BY <1>1, <1>2, Zenon DEF SequenceInv
  <1>3. ASSUME ClearParams, UNCHANGED <<handler, last>>, NEW c \in Channels PROVE ChannelSeq(c)'
    <2>1. /\ handler'[c] = handler[c] /\ last'[c] = last[c]
          /\ seqCounter'[c] = 0 /\ numMissing'[c] = 0 /\ lastSeqID'[c] = NoSeqID
      BY <1>3, Zenon DEF ClearParams
    <2> QED
      BY <2>1, <1>3, Zenon DEF SequenceInv, ChannelSeq, SeqID, NoSeqID
  <1>4. CASE Reset \/ Start
    BY <1>3, <1>4, Zenon DEF Reset, Start, SequenceInv
  <1>5. CASE Stop \/ Pause \/ Configure \/ ConfigureNumDet \/ AllocSpace \/ AllocSpaceFails
    BY <1>2, <1>5, Zenon DEF Stop, Pause, Configure, ConfigureNumDet, AllocSpace, AllocSpaceFails
  <1>6. CASE EventTask
    BY <1>2, <1>6, Zenon DEF EventTask, AcquisitionStarts, StartOk, StartFails,
      ZeroAfterFailure, AcquisitionStops, StopDone
  <1>7. ASSUME NEW c \in Channels, Handler(c), NEW d \in Channels \ {c} PROVE ChannelSeq(d)'
    <2>1. UNCHANGED at(d) /\ UNCHANGED straddled
      BY <1>7 DEF Handler, Wake, Leave, Begin, Read, DropUnconfigured, DropUnstamped, DropBackwards, Stamp,
        DropUncounted, Count, Return, NoteLost, ValuesOK, FlagsOK
    <2> QED
      BY <1>1, <1>7, <2>1
  <1>8. ASSUME NEW c \in Channels, Handler(c) PROVE ChannelSeq(c)'
    <2> USE <1>8
    <2>0. ChannelSeq(c) /\ UNCHANGED straddled /\ seqCounter[c] \in Nat
      BY DEF SequenceInv, Handler, Wake, Leave, Begin, Read, DropUnconfigured, DropUnstamped, DropBackwards,
        Stamp, DropUncounted, Count, ValuesOK
    <2>1. CASE Begin(c)
      <3>1. PICK n \in coming[c] :
              /\ handler'[c].pc = "read" /\ handler'[c].seq = SeqID(n) /\ last'[c] = n
              /\ lost'[c] = (seqCounter[c] # 0 /\ (lost[c] \/ n # last[c] + 1))
        BY <2>1 DEF Begin, ValuesOK, FlagsOK
      <3>2. /\ UNCHANGED <<seqCounter, numMissing, lastSeqID>> /\ handler[c].pc = "poll"
            /\ n \in Nat /\ last[c] \in Nat
        BY <2>1 DEF Begin, ValuesOK
      <3>3. ASSUME ~straddled, ~lost'[c], seqCounter[c] # 0
            PROVE  n > 0 /\ lastSeqID[c] = SeqID(n - 1)
        <4>1. ~lost[c] /\ n = last[c] + 1
          BY <3>1, <3>3
        <4>2. n > 0 /\ n - 1 = last[c]
          BY <3>2, <4>1
        <4> QED
          BY <2>0, <3>2, <3>3, <4>1, <4>2 DEF ChannelSeq
      <3>4. ~straddled /\ ~lost'[c] => numMissing[c] = 0
        BY <2>0, <3>1 DEF ChannelSeq
      <3> QED
        BY <2>0, <3>1, <3>2, <3>3, <3>4 DEF ChannelSeq, SeqID, NoSeqID
    <2>2. CASE Read(c)
      <3>1. /\ handler[c].pc = "read" /\ handler'[c].pc = "stamp"
            /\ handler'[c].seq = handler[c].seq
            /\ UNCHANGED <<last, lastSeqID, seqCounter, numMissing, lost>>
        BY <2>2 DEF Read, ValuesOK, Local
      <3> QED
        BY <2>0, <3>1 DEF ChannelSeq, SeqID, NoSeqID
    <2>3. CASE DropUncounted(c) \/ Count(c)
      <3>1. /\ handler[c].pc = "count" /\ handler'[c].pc = "poll"
            /\ UNCHANGED <<last, lastSeqID, seqCounter, numMissing, lost>>
        BY <2>3 DEF DropUncounted, Count, Return, Idle, Polling, ValuesOK
      <3> QED
        BY <2>0, <3>1 DEF ChannelSeq, SeqID, NoSeqID
    <2>4. CASE DropUnconfigured(c) \/ DropUnstamped(c) \/ DropBackwards(c)
      <3>1. /\ handler'[c].pc = "poll" /\ lost'[c]
            /\ UNCHANGED <<last, lastSeqID, numMissing>>
            /\ seqCounter'[c] \in {seqCounter[c], seqCounter[c] + 1}
        BY <2>4 DEF DropUnconfigured, DropUnstamped, DropBackwards, Return, NoteLost, Idle,
          Polling, ValuesOK, FlagsOK
      <3> QED
        BY <2>0, <3>1 DEF ChannelSeq, SeqID, NoSeqID
    <2>5. CASE Stamp(c)
      <3>1. /\ handler[c].pc = "stamp" /\ handler'[c].pc = "count"
            /\ seqCounter'[c] = seqCounter[c] + 1 /\ lastSeqID'[c] = handler[c].seq
            /\ numMissing'[c] = (numMissing[c] + Missing(c, handler[c].seq)) % SeqMod
            /\ UNCHANGED <<last, lost>>
        BY <2>5 DEF Stamp, ValuesOK, Local
      <3>2. handler[c].seq = SeqID(last[c]) /\ last[c] \in Nat
        BY <2>0, <3>1 DEF ChannelSeq, ValuesOK
      <3>3. ASSUME ~straddled, ~lost[c] PROVE Missing(c, handler[c].seq) = 0
        <4>1. CASE seqCounter[c] = 0
          BY <2>0, <3>3, <4>1 DEF ChannelSeq, Missing
        <4>2. CASE seqCounter[c] # 0
          <5>1. last[c] > 0 /\ lastSeqID[c] = SeqID(last[c] - 1)
            BY <2>0, <3>1, <3>3, <4>2 DEF ChannelSeq
          <5>2. SeqID(last[c]) = (lastSeqID[c] + 1) % SeqMod
            BY <3>2, <5>1, SeqIDNext
          <5> QED
            BY <3>2, <5>2 DEF Missing
        <4> QED
          BY <4>1, <4>2
      <3>4. ASSUME ~straddled, ~lost[c] PROVE numMissing'[c] = 0
        BY <2>0, <3>1, <3>3, <3>4, EventsAssumption DEF ChannelSeq
      <3>5. seqCounter'[c] # 0 /\ straddled' = straddled /\ last' = last /\ lost' = lost
        BY <2>0, <3>1
      <3>6. lastSeqID'[c] = SeqID(last'[c]) /\ handler'[c].pc = "count"
        BY <3>1, <3>2
      <3> QED
        BY <3>4, <3>5, <3>6 DEF ChannelSeq, SeqID
    <2>6. CASE Wake(c) \/ Leave(c)
      <3>1. /\ handler[c].pc \in {"idle", "poll"} /\ handler'[c].pc \in {"idle", "poll"}
            /\ UNCHANGED <<last, lastSeqID, seqCounter, numMissing, lost>>
        BY <2>6 DEF Wake, Leave, Idle, Polling, ValuesOK
      <3> QED
        BY <2>0, <3>1 DEF ChannelSeq, SeqID, NoSeqID
    <2> QED
      BY <2>1, <2>2, <2>3, <2>4, <2>5, <2>6 DEF Handler
  <1>9. CASE UNCHANGED vars
    BY <1>2, <1>9, Zenon DEF vars
  <1> QED
    BY <1>4, <1>5, <1>6, <1>7, <1>8, <1>9 DEF Next, SequenceInv

\* A channel without loss shows no missing packet, for any width of the sequence IDs, the
\* wrap-around and the ID that marks a cleared channel included.
THEOREM NoMissingWithoutLoss == Spec => []NoFalseMissing
  <1>1. Init => SequenceInv
    BY DEF Init, Idle, SequenceInv, ChannelSeq
  <1>2. TypeOK /\ SequenceInv => NoFalseMissing
    BY DEF SequenceInv, ChannelSeq, NoFalseMissing, TypeOK, ValuesOK
  <1> QED
    BY <1>1, <1>2, NextSequence, TypeCorrect, PTL DEF Spec

-----------------------------------------------------------------------------
(* Rates between acquisitions.                                             *)

\* Only an acquisition monitors, and a failed start zeroes the rates before the next one.
\* Between acquisitions a thread is in monitorEvent only if late says so.
RateInv ==
  /\ monitoring => state = "Acquire"
  /\ zeroing => Control!Ready
  /\ Control!Ready => late \/ ~UnderWay
  /\ Control!Ready /\ ~late /\ ~zeroing => posted.rate = 0

LEMMA NextRate == TypeOK /\ RateInv /\ [Next]_vars => RateInv'
  <1> SUFFICES ASSUME FlagsOK, ValuesOK, RateInv, [Next]_vars PROVE RateInv'
    BY DEF TypeOK
  <1> USE DEF control, checks, counts, packets, layout
  <1> DEFINE rest == <<state, monitoring, zeroing, late>>
  <1>1. ASSUME UNCHANGED <<rest, handler>>, posted'.rate = posted.rate PROVE RateInv'
    BY <1>1, Zenon DEF RateInv, UnderWay, Control!Ready
  <1>2. ASSUME ClearParams PROVE posted'.rate = posted.rate
    BY <1>2 DEF ClearParams, NothingPosted
  <1>3. ASSUME ZeroRates PROVE posted'.rate = 0
    BY <1>3 DEF ZeroRates, ValuesOK
  <1>4. CASE Reset \/ Start
    BY <1>1, <1>2, <1>4, Zenon DEF Reset, Start, Control!RequestStart
  <1>5. CASE Stop \/ Pause \/ Configure \/ ConfigureNumDet \/ AllocSpace
    BY <1>1, <1>5, Zenon DEF Stop, Pause, Configure, ConfigureNumDet, AllocSpace, Control!RequestStop
  <1>6. CASE AllocSpaceFails
    BY <1>6 DEF AllocSpaceFails, Control!ConfigError, Control!Ready, RateInv, UnderWay
  <1>7. CASE EventTask
    <2>1. CASE AcquisitionStarts
      BY <2>1 DEF AcquisitionStarts, Control!BeginStart, Control!Ready, RateInv, UnderWay
    <2>2. CASE StartOk
      BY <2>2 DEF StartOk, Control!StartOk, Control!Ready, RateInv
    <2>3. CASE StartFails
      BY <2>3 DEF StartFails, Control!StartFails, Control!Ready, RateInv, UnderWay
    <2>4. CASE ZeroAfterFailure
      BY <1>3, <2>4 DEF ZeroAfterFailure, Control!Ready, RateInv, UnderWay
    <2>5. CASE AcquisitionStops
      BY <2>5 DEF AcquisitionStops, Control!BeginStop, Control!Ready, RateInv
    <2>6. CASE StopDone
      BY <1>3, <2>6 DEF StopDone, Control!EndStop, Control!Ready, RateInv, UnderWay
    <2> QED
      BY <1>7, <2>1, <2>2, <2>3, <2>4, <2>5, <2>6 DEF EventTask
  <1>8. ASSUME NEW c \in Channels, Handler(c) PROVE RateInv'
    \* A thread enters monitorEvent only during an acquisition, where the invariant says
    \* nothing of it.
    <2>1. CASE Wake(c)
      BY <2>1 DEF Wake, Control!Ready, RateInv
    \* A thread that goes on between acquisitions is late.
    <2>2. ASSUME UNCHANGED rest, handler[c].pc # "idle" PROVE RateInv'
      <3>1. UnderWay
        BY <2>2, <1>8, Zenon DEF UnderWay
      <3> QED
        BY <2>2, <3>1 DEF RateInv, Control!Ready
    <2> QED
      BY <1>8, <2>1, <2>2 DEF Handler, Leave, Begin, Read, DropUnconfigured, DropUnstamped,
        DropBackwards, Stamp, DropUncounted, Count
  <1>9. CASE UNCHANGED vars
    BY <1>1, <1>9, Zenon DEF vars
  <1> QED
    BY <1>4, <1>5, <1>6, <1>7, <1>8, <1>9 DEF Next

\* After a stop or a failed start the rates stay zero, for any number of channels, unless a
\* thread was in monitorEvent, with a packet or between two, when the acquisition ended.
THEOREM RatesStayZero == Spec => []RateZeroUnlessLate
  <1>1. Init => RateInv
    BY DEF Init, Control!Init, Control!Ready, Idle, NothingPosted, UnderWay, RateInv
  <1>2. RateInv => RateZeroUnlessLate
    BY DEF RateInv, RateZeroUnlessLate
  <1> QED
    BY <1>1, <1>2, NextRate, TypeCorrect, PTL DEF Spec

-----------------------------------------------------------------------------
(* The pause.                                                              *)

LEMMA InHandFinite == IsFiniteSet(InHand) /\ Cardinality(InHand) \in Nat
  <1>1. InHand \subseteq Channels
    BY DEF InHand, HasPacket
  <1> QED
    BY <1>1, EventsAssumption, FS_Subset, FS_CardinalityType

LEMMA FewerInHand ==
  ASSUME InHand' \subseteq InHand
  PROVE  Cardinality(InHand') \in Nat /\ Cardinality(InHand') <= Cardinality(InHand)
  BY InHandFinite, FS_Subset, FS_CardinalityType

LEMMA OneLessInHand ==
  ASSUME NEW c \in InHand, InHand' \subseteq InHand \ {c}
  PROVE  Cardinality(InHand') \in Nat /\ Cardinality(InHand') + 1 <= Cardinality(InHand)
  <1>1. IsFiniteSet(InHand \ {c}) /\ Cardinality(InHand \ {c}) = Cardinality(InHand) - 1
    BY InHandFinite, FS_RemoveElement
  <1>2. Cardinality(InHand') \in Nat /\ Cardinality(InHand') <= Cardinality(InHand \ {c})
    BY <1>1, FS_Subset, FS_CardinalityType
  <1> QED
    BY <1>1, <1>2, InHandFinite

\* A step of a handler changes what is in hand on its own channel only.
LEMMA OthersInHand ==
  ASSUME NEW c \in Channels, c \notin InHand', \A d \in Channels \ {c} : handler'[d] = handler[d]
  PROVE  InHand' \subseteq InHand \ {c}
  BY DEF InHand, HasPacket

LEMMA PauseStep ==
  ASSUME TypeOK, [Next]_vars, pause, pause'
  PROVE  detTotal' + Cardinality(InHand') <= detTotal + Cardinality(InHand)
  <1> USE DEF control, checks, counts, packets, layout
  <1>0. FlagsOK /\ ValuesOK /\ detTotal \in Nat /\ Cardinality(InHand) \in Nat
    BY InHandFinite DEF TypeOK, ValuesOK
  <1> DEFINE Goal == detTotal' + Cardinality(InHand') <= detTotal + Cardinality(InHand)
  <1>1. ASSUME InHand' \subseteq InHand, detTotal' \in Nat, detTotal' <= detTotal PROVE Goal
    BY <1>0, <1>1, FewerInHand
  <1>2. ASSUME UNCHANGED handler PROVE InHand' \subseteq InHand
    BY <1>2 DEF InHand, HasPacket
  <1>3. ASSUME UNCHANGED <<handler, detTotal>> PROVE Goal
    BY <1>0, <1>1, <1>2, <1>3
  <1>4. CASE Reset
    BY <1>0, <1>1, <1>2, <1>4 DEF Reset, ClearParams
  <1>5. CASE Start \/ Stop
    BY <1>5 DEF Start, Stop
  <1>6. CASE Pause \/ Configure \/ ConfigureNumDet \/ AllocSpace \/ AllocSpaceFails \/ UNCHANGED vars
    BY <1>3, <1>6, Zenon DEF Pause, Configure, ConfigureNumDet, AllocSpace, AllocSpaceFails, vars
  <1>7. CASE EventTask
    BY <1>3, <1>7, Zenon DEF EventTask, AcquisitionStarts, StartOk, StartFails,
      ZeroAfterFailure, AcquisitionStops, StopDone
  <1>8. ASSUME NEW c \in Channels, Handler(c) PROVE Goal
    <2>1. \A d \in Channels \ {c} : handler'[d] = handler[d]
      BY <1>0, <1>8 DEF Handler, Wake, Leave, Begin, Read, DropUnconfigured, DropUnstamped,
        DropBackwards, Stamp, DropUncounted, Count, Return, ValuesOK
    <2>2. ASSUME c \in InHand' => c \in InHand, UNCHANGED detTotal PROVE Goal
      <3>1. InHand' \subseteq InHand
        BY <2>1, <2>2 DEF InHand, HasPacket
      <3> QED
        BY <1>0, <1>1, <2>2, <3>1
    \* The handler has the pause flag that it found.
    <2>3. CASE Begin(c)
      <3>1. handler'[c].paused = TRUE
        BY <1>0, <2>3 DEF Begin, ValuesOK
      <3> QED
        BY <2>2, <2>3, <3>1 DEF Begin, InHand
    <2>4. CASE Read(c) \/ Stamp(c)
      <3>1. HasPacket(c) /\ handler'[c].paused = handler[c].paused
        BY <1>0, <2>4 DEF Read, Stamp, HasPacket, ValuesOK, Local
      <3> QED
        BY <2>2, <2>4, <3>1 DEF Read, Stamp, InHand
    <2>5. ASSUME Return(c) PROVE c \notin InHand'
      BY <1>0, <2>5 DEF Return, Polling, InHand, HasPacket, ValuesOK
    <2>6. CASE DropUnconfigured(c) \/ DropUnstamped(c) \/ DropBackwards(c) \/ DropUncounted(c)
      BY <2>2, <2>5, <2>6 DEF DropUnconfigured, DropUnstamped, DropBackwards, DropUncounted
    \* What is counted was in hand, and is no more.
    <2>7. CASE Count(c)
      <3>1. InHand' \subseteq InHand \ {c}
        BY <1>8, <2>1, <2>5, <2>7, OthersInHand DEF Count
      <3>2. CASE handler[c].paused
        BY <1>0, <1>1, <2>7, <3>1, <3>2 DEF Count, Counted
      <3>3. CASE ~handler[c].paused
        <4>1. c \in InHand /\ detTotal' = detTotal + 1
          BY <2>7, <3>3 DEF Count, Counted, InHand, HasPacket
        <4>2. Cardinality(InHand') \in Nat /\ Cardinality(InHand') + 1 <= Cardinality(InHand)
          BY <3>1, <4>1, OneLessInHand
        <4> QED
          BY <1>0, <4>1, <4>2
      <3> QED
        BY <3>2, <3>3
    <2>8. CASE Wake(c) \/ Leave(c)
      <3>1. c \notin InHand'
        BY <1>0, <2>8 DEF Wake, Leave, Idle, Polling, InHand, HasPacket, ValuesOK
      <3> QED
        BY <2>2, <2>8, <3>1 DEF Wake, Leave
    <2> QED
      BY <1>8, <2>3, <2>4, <2>6, <2>7, <2>8 DEF Handler
  <1> QED
    BY <1>4, <1>5, <1>6, <1>7, <1>8 DEF Next

\* While a pause lasts no packet is counted but those in hand when it began, for any number
\* of channels.
THEOREM PauseIsKept == Spec => PauseHolds
  <1>1. TypeOK /\ [Next]_vars =>
          [pause /\ pause' => detTotal' + Cardinality(InHand') <= detTotal + Cardinality(InHand)]_vars
    BY PauseStep
  <1> QED
    BY <1>1, TypeCorrect, PTL DEF Spec, PauseHolds
=============================================================================
