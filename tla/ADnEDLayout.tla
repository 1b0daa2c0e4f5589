----------------------------- MODULE ADnEDLayout -----------------------------
(***************************************************************************)
(* The layout of the event buffer of ADnED (ADnEDApp/src/ADnED.cpp): the   *)
(* parameters that describe the detectors, allocArray, which divides the   *)
(* buffer p_Data among them, and the cells that eventHandler, resetTOFArray*)
(* and clearParams touch.                                                  *)
(*                                                                         *)
(* The buffer holds one pixel region per detector, then one time-of-flight *)
(* (TOF) region per detector.  allocArray publishes the bounds of each     *)
(* region in the NDArray parameters of its detector.                       *)
(*                                                                         *)
(* All of this runs with the driver's mutex held, so one handler is one    *)
(* step.  Abstracted: the counts themselves.  A handler that only counts   *)
(* or clears is an operator that gives the cells it touches, and the       *)
(* properties quantify over every call that may be made in a state.        *)
(* Pixel maps are left out.                                                *)
(*                                                                         *)
(* Parameters are C ints, which clients may set to any value; the members  *)
(* m_tofMax, m_dataMaxSize and m_bufferMaxSize are unsigned.  Both keep    *)
(* their width, and what does not fit wraps.                               *)
(***************************************************************************)
EXTENDS Integers

CONSTANTS
  MaxInt,         \* the greatest int, 2^31 - 1
  MaxDets,        \* s_ADNED_MAX_DETS
  StartValues,    \* per detector: values that clients write to
  EndValues,      \*   ADnEDDetPixelNumStartParam, ADnEDDetPixelNumEndParam
  SizeValues,     \*   and ADnEDDetPixelNumSizeParam
  NumDetValues,   \* values that they write to ADnEDNumDetParam,
  TOFMaxValues,   \* ADnEDTOFMaxParam,
  BinsValues,     \* ADnEDDetTOFNumBinsParam,
  SizeXValues     \* ADnEDDetPixelSizeXParam

Ints  == -(MaxInt + 1) .. MaxInt
Word  == 2 * (MaxInt + 1)
UInts == 0 .. Word - 1

ASSUME LayoutAssumption ==
  /\ MaxInt \in Nat
  /\ MaxDets \in Nat \ {0}
  /\ NumDetValues \subseteq Ints
  /\ \A d \in 1 .. MaxDets : /\ StartValues[d] \subseteq Ints
                            /\ EndValues[d] \subseteq Ints
                            /\ SizeValues[d] \subseteq Ints
  /\ TOFMaxValues \subseteq Ints
  /\ BinsValues \subseteq Ints /\ SizeXValues \subseteq Ints

\* The conversions to epicsUInt32 and to int.
UInt(n)  == n % Word
ToInt(n) == IF UInt(n) > MaxInt THEN UInt(n) - Word ELSE UInt(n)

Dets == 1 .. MaxDets
NULL == -1

VARIABLES
  ADStatus,       \* the ADStatus parameter
  startEvent,     \* m_startEvent is signalled
  numDet,         \* ADnEDNumDetParam
  tofMax,         \* ADnEDTOFMaxParam
  range,          \* per detector: the PixelNum Start, End and Size parameters
  region,         \* per detector: the NDArray Start, End, TOFStart, TOFEnd parameters
  dataAlloc,      \* m_dataAlloc
  allocStatus,    \* ADnEDAllocSpaceStatusParam
  m_tofMax, m_dataMaxSize, m_bufferMaxSize,
  capacity,       \* cells of p_Data, or NULL
  allocDet,       \* history: numDet of the allocation of p_Data,
  allocFits       \* history: and whether LayoutFits held

params  == <<numDet, tofMax>>
members == <<m_tofMax, m_dataMaxSize, m_bufferMaxSize, capacity, allocDet, allocFits>>
vars == <<ADStatus, startEvent, params, range, region, dataAlloc, allocStatus, members>>

Init ==
  /\ ADStatus = "Idle"
  /\ startEvent = FALSE
  /\ numDet = 0 /\ tofMax = 0
  /\ range = [d \in Dets |-> [start |-> 0, end |-> 0, size |-> 0]]
  /\ region = [d \in Dets |-> [start |-> 0, end |-> 0, tofStart |-> 0, tofEnd |-> 0]]
  /\ dataAlloc = TRUE /\ allocStatus = "Ok"
  /\ m_tofMax = 0 /\ m_dataMaxSize = 0 /\ m_bufferMaxSize = 0
  /\ capacity = NULL /\ allocDet = 0 /\ allocFits = FALSE

-----------------------------------------------------------------------------
(* allocArray.                                                             *)

\* "If user has left detSize 0, just set equal to pixel ID range."
DetSize(d) ==
  IF range[d].size = 0 THEN ToInt(range[d].end - range[d].start + 1) ELSE range[d].size

\* m_dataMaxSize after d detectors, and the same sum before it wraps.
DataSum[d \in 0 .. MaxDets] == IF d = 0 THEN 0 ELSE DataSum[d - 1] + DetSize(d)

DataSize(d) == UInt(DataSum[d])

\* The loop reaches a detector when every range up to it is in order.
Reached == {d \in Dets : d <= numDet /\ \A i \in 1 .. d : range[i].start <= range[i].end}

AllReached == Reached = {d \in Dets : d <= numDet}

\* Mutant: a TOF region has one cell less than the handler uses.
TofStartShort(d) == DataSum[numDet] + (d - 1) * tofMax

\* The first TOF cell of a detector, before it wraps.
TofStart(d) == DataSum[numDet] + (d - 1) * (tofMax + 1)

PublishPixels(d) ==
  [region[d] EXCEPT !.start = ToInt(DataSum[d - 1]), !.end = ToInt(DataSum[d] - 1)]

PublishTof(d) ==
  [PublishPixels(d) EXCEPT !.tofStart = ToInt(TofStart(d)),
                           !.tofEnd = ToInt(TofStart(d) + tofMax)]

\* The sizes and pixel regions, or all regions, of the detectors that the loop reached.
PublishSizes ==
  range' = [d \in Dets |-> IF d \in Reached THEN [range[d] EXCEPT !.size = DetSize(d)]
                                            ELSE range[d]]

PublishSome ==
  region' = [d \in Dets |-> IF d \in Reached THEN PublishPixels(d) ELSE region[d]]

PublishAll ==
  region' = [d \in Dets |-> IF d \in Reached THEN PublishTof(d) ELSE region[d]]

\* The sizes are positive, the TOF maximum is not negative, and the cells that they ask
\* for can be numbered with ints.  allocArray does not test this.
LayoutFits ==
  /\ \A d \in Dets : d <= numDet => DetSize(d) > 0
  /\ tofMax >= 0
  /\ DataSum[numDet] + numDet * (tofMax + 1) <= MaxInt

\* numDet = 0.
AllocNoDetectors ==
  /\ numDet = 0
  /\ m_tofMax' = UInt(tofMax)
  /\ UNCHANGED <<range, region, dataAlloc, m_dataMaxSize, m_bufferMaxSize>>
  /\ UNCHANGED <<capacity, allocDet, allocFits>>

\* detStart > detEnd: the old buffer stays, with some bounds and members changed.
AllocBadRange ==
  /\ numDet # 0 /\ ~AllReached
  /\ PublishSizes /\ PublishSome
  /\ m_tofMax' = UInt(tofMax)
  /\ \E last \in 0 .. MaxDets :
       /\ Reached = 1 .. last
       /\ m_dataMaxSize' = DataSize(last)
  /\ UNCHANGED <<dataAlloc, m_bufferMaxSize, capacity, allocDet, allocFits>>

\* Both loops end.  The sum is 0 for a negative numDet, or when sizes cancel or wrap.
AllocSizes ==
  /\ numDet # 0 /\ AllReached
  /\ PublishSizes /\ PublishAll
  /\ m_tofMax' = UInt(tofMax)
  /\ m_dataMaxSize' = IF numDet < 0 THEN 0 ELSE DataSize(numDet)
  /\ m_bufferMaxSize' = IF m_dataMaxSize' = 0 THEN m_bufferMaxSize
                        ELSE UInt(DataSum[numDet] + numDet * (tofMax + 1))

\* Mutant: the old buffer is kept when the new one cannot be had.
AllocNoMemoryKeepsBuffer ==
  /\ AllocSizes
  /\ UNCHANGED <<dataAlloc, capacity, allocDet, allocFits>>

\* Nothing to allocate, or calloc fails: the old buffer is gone.
AllocNoMemory ==
  /\ AllocSizes
  /\ capacity' = NULL /\ allocDet' = 0 /\ allocFits' = FALSE
  /\ UNCHANGED dataAlloc

AllocFails == dataAlloc /\ (AllocNoDetectors \/ AllocBadRange \/ AllocNoMemory)

AllocBuffer ==
  /\ AllocSizes
  /\ m_dataMaxSize' # 0
  /\ capacity' = m_bufferMaxSize'
  /\ allocDet' = numDet
  /\ allocFits' = LayoutFits
  /\ dataAlloc' = FALSE

AllocSucceeds ==
  \/ dataAlloc /\ AllocBuffer /\ allocStatus' = "Ok"
  \/ ~dataAlloc /\ UNCHANGED <<range, region, dataAlloc, allocStatus, members>>

-----------------------------------------------------------------------------
(* Clients: writeInt32.                                                    *)

\* Mutants: the status is not told, or told whatever m_dataAlloc says.
TellNothing == UNCHANGED allocStatus
TellAlways == allocStatus' = "Required"

\* The tail of writeInt32: any write tells that an allocation is required.
TellRequired == allocStatus' = IF dataAlloc' THEN "Required" ELSE allocStatus

\* Mutant: a new range does not ask for an allocation.
WriteRangeSilently(d, new) ==
  /\ ADStatus # "Acquire"
  /\ range' = [range EXCEPT ![d] = new]
  /\ UNCHANGED <<ADStatus, startEvent, params, region, dataAlloc, members>>
  /\ TellRequired

\* PixelNumStart, PixelNumEnd or PixelNumSize.
WriteRange(d, new) ==
  /\ ADStatus # "Acquire"
  /\ range' = [range EXCEPT ![d] = new]
  /\ dataAlloc' = TRUE
  /\ UNCHANGED <<ADStatus, startEvent, params, region, members>>
  /\ TellRequired

WriteTOFMax(value) ==
  /\ ADStatus # "Acquire"
  /\ tofMax' = value
  /\ dataAlloc' = TRUE
  /\ UNCHANGED <<ADStatus, startEvent, numDet, range, region, members>>
  /\ TellRequired

WriteNumDet(value) ==
  /\ ADStatus # "Acquire"
  /\ value <= MaxDets
  /\ numDet' = value
  /\ UNCHANGED <<ADStatus, startEvent, tofMax, range, region, dataAlloc, members>>
  /\ TellRequired

WriteAllocSpace ==
  /\ ADStatus # "Acquire"
  /\ \/ AllocSucceeds /\ UNCHANGED ADStatus
     \/ AllocFails /\ allocStatus' = "Failed" /\ ADStatus' = "Error"
  /\ UNCHANGED <<startEvent, params>>

WriteStart ==
  /\ ADStatus # "Acquire"
  /\ startEvent' = TRUE
  /\ UNCHANGED <<ADStatus, params, range, region, dataAlloc, members>>
  /\ TellRequired

Client ==
  \/ \E d \in Dets : \E v \in StartValues[d] : WriteRange(d, [range[d] EXCEPT !.start = v])
  \/ \E d \in Dets : \E v \in EndValues[d] : WriteRange(d, [range[d] EXCEPT !.end = v])
  \/ \E d \in Dets : \E v \in SizeValues[d] : WriteRange(d, [range[d] EXCEPT !.size = v])
  \/ \E v \in TOFMaxValues : WriteTOFMax(v)
  \/ \E v \in NumDetValues : WriteNumDet(v)
  \/ WriteAllocSpace
  \/ WriteStart

-----------------------------------------------------------------------------
(* eventTask, which waits for a start when no acquisition is under way.  A *)
(* second start may come between the wait and the lock and leave the event *)
(* signalled.                                                              *)

BeginStart ==
  /\ ADStatus # "Acquire"
  /\ startEvent
  /\ startEvent' \in BOOLEAN
  /\ \/ AllocSucceeds /\ ADStatus' \in {"Acquire", "Error"}
     \/ /\ AllocFails
        /\ ADStatus' = "Error"
        /\ allocStatus' = IF numDet = 0 THEN allocStatus ELSE "Failed"
  /\ UNCHANGED params

Stop ==
  /\ ADStatus = "Acquire"
  /\ ADStatus' = "Idle"
  /\ UNCHANGED <<startEvent, params, range, region, dataAlloc, allocStatus, members>>

Next == Client \/ BeginStart \/ Stop

Spec == Init /\ [][Next]_vars

-----------------------------------------------------------------------------
(* The cells that the handlers touch.                                      *)

PixelRegion(d) == region[d].start .. region[d].end
TofRegion(d)   == region[d].tofStart .. region[d].tofEnd
Buffer         == 0 .. capacity - 1

\* clearParams and the start of an acquisition clear this much of p_Data, and
\* frameTask copies it.
ClearedCells == IF capacity # NULL THEN 0 .. m_bufferMaxSize - 1 ELSE {}

\* Mutant: the cell of the greatest TOF is forgotten.
ResetTofCellsShort(d) ==
  IF m_tofMax > 0 /\ capacity # NULL /\ region[d].tofStart > 0
  THEN region[d].tofStart .. region[d].tofStart + m_tofMax - 1
  ELSE {}

\* resetTOFArray.
ResetTofCells(d) ==
  IF m_tofMax > 0 /\ capacity # NULL /\ region[d].tofStart > 0
  THEN region[d].tofStart .. region[d].tofStart + UInt(m_tofMax + 1) - 1
  ELSE {}

\* eventHandler: the pixel IDs of a detector, by unsigned comparison.
Pixels(d) == UInt(range[d].start) .. UInt(range[d].end)

\* Standard X/Y plot, pixel mapping off.
PixelCell(d, pixel) == ToInt(region[d].start + (pixel - range[d].start))

\* Mutant: a TOF of one more than the maximum is counted.
TofCellsInclusive(d, tof) ==
  IF tof <= m_tofMax + 1 /\ tof >= 0 THEN {UInt(region[d].tofStart + tof)} ELSE {}

TofCells(d, tof) ==
  IF tof <= m_tofMax /\ tof >= 0 THEN {UInt(region[d].tofStart + tof)} ELSE {}

\* TOF bins: the parameter, held between 1 and m_tofMax.
TofBins(bins) == IF bins < 1 THEN 1 ELSE IF bins > m_tofMax THEN m_tofMax ELSE bins

TofBin(bins, tof) == tof \div (m_tofMax \div TofBins(bins))

\* Row of the 2-D plot that belongs to a pixel, for an X size greater than 0.
PlotRow(type, pixel, sizeX) ==
  CASE type = "XTOF" -> pixel % sizeX
    [] type = "YTOF" -> pixel \div sizeX
    [] type = "PixelIDTOF" -> pixel

\* Index of a plot, before it wraps.
PlotIndex(type, pixel, sizeX, bins, tof) ==
  PlotRow(type, pixel, sizeX) * TofBins(bins) + TofBin(bins, tof)

\* Mutant: the index is not limited.
PlotCellsUnlimited(d, index) == {region[d].start + ToInt(index)}

PlotCells(d, index) ==
  IF ToInt(index) < range[d].size - 1 THEN {region[d].start + ToInt(index)} ELSE {}

PlotTypes == {"XTOF", "YTOF", "PixelIDTOF"}

-----------------------------------------------------------------------------
(* Properties.                                                             *)

\* Every variable has its type: whatever ints clients write, the published bounds are
\* ints and the members are unsigned numbers of the same width.
TypeOK ==
  /\ ADStatus \in {"Idle", "Acquire", "Error"}
  /\ startEvent \in BOOLEAN /\ dataAlloc \in BOOLEAN /\ allocFits \in BOOLEAN
  /\ allocStatus \in {"Ok", "Required", "Failed"}
  /\ numDet \in Ints /\ numDet <= MaxDets /\ tofMax \in Ints
  /\ range \in [Dets -> [start : Ints, end : Ints, size : Ints]]
  /\ region \in [Dets -> [start : Ints, end : Ints, tofStart : Ints, tofEnd : Ints]]
  /\ m_tofMax \in UInts /\ m_dataMaxSize \in UInts /\ m_bufferMaxSize \in UInts
  /\ capacity \in UInts \cup {NULL} /\ allocDet \in 0 .. MaxDets

\* The detectors that eventHandler counts for and that were laid out.  A detector that a
\* higher NumDet added since the allocation is not among them: writing NumDet (line 530)
\* asks for no allocation, so its events are counted with whatever bounds it had before,
\* and nothing is said of them.
LaidOut == {d \in Dets : d <= numDet /\ d <= allocDet}

\* The regions that a cell belongs to.
Owners(c) ==
  {o \in (1 .. allocDet) \X {"pixel", "tof"} :
     c \in IF o[2] = "pixel" THEN PixelRegion(o[1]) ELSE TofRegion(o[1])}

\* When the layout fits, the regions that allocArray publishes tile the buffer: every
\* cell belongs to exactly one region of one detector, and no region leaves the buffer,
\* until a parameter changes again and through any number of allocations, failed ones
\* included.  (A negative size makes regions overlap, and nothing refuses one.)
RegionsTileBuffer ==
  ~dataAlloc /\ allocFits =>
    /\ \A c \in Buffer : \E o \in Owners(c) : Owners(c) = {o}
    /\ \A d \in 1 .. allocDet : PixelRegion(d) \subseteq Buffer /\ TofRegion(d) \subseteq Buffer

\* An acquisition has a buffer, laid out for the current TOF range and, when the layout
\* fits, for the current sizes of the detectors that are laid out: it never starts on the
\* layout of other sizes.
LayoutCurrent ==
  ADStatus = "Acquire" =>
    /\ ~dataAlloc /\ capacity # NULL /\ m_tofMax = UInt(tofMax)
    /\ allocFits => \A d \in LaidOut :
         /\ region[d].end = region[d].start + range[d].size - 1
         /\ region[d].tofEnd = region[d].tofStart + tofMax

\* A layout in use never shows AllocSpaceStatus Required or Failed.
UsableIsOk == ~dataAlloc => allocStatus = "Ok"

\* Once a client has been told that an allocation is required or failed, Ok is only
\* shown again after one that succeeded.  (It is Ok at startup, line 349.)
OkIsEarned ==
  [][(dataAlloc' /\ allocStatus' = "Ok") => (dataAlloc /\ allocStatus = "Ok")]_vars

\* clearParams clears, and frameTask copies, exactly the buffer that is allocated,
\* although m_bufferMaxSize outlives buffers and failed allocations.
ClearsWholeBuffer == ClearedCells = Buffer

\* During an acquisition on a layout that fits, an event is counted in the regions of its
\* own detector, if that one is laid out: its pixel, when PixelNumSize covers the pixel
\* range, and any TOF that is counted at all.
CountsInRegion ==
  ADStatus = "Acquire" /\ allocFits =>
    \A d \in LaidOut :
      /\ range[d].size > range[d].end - range[d].start =>
           \A pixel \in Pixels(d) : PixelCell(d, pixel) \in PixelRegion(d)
      /\ \A tof \in -1 .. m_tofMax + 1 : TofCells(d, tof) \subseteq TofRegion(d)

\* The 2-D plots against TOF of an acquisition on a layout that fits stay in the pixel
\* region of their detector, if that one is laid out, for every number of bins, X size
\* greater than 0 and pixel, as long as the index of the plot is an int.
PlotsInRegion ==
  ADStatus = "Acquire" /\ allocFits /\ m_tofMax > 0 =>
    \A d \in LaidOut, type \in PlotTypes, bins \in BinsValues, sizeX \in SizeXValues :
      sizeX > 0 =>
        \A pixel \in 0 .. range[d].end - range[d].start, tof \in 0 .. m_tofMax :
          PlotIndex(type, pixel, sizeX, bins, tof) <= MaxInt =>
            PlotCells(d, PlotIndex(type, pixel, sizeX, bins, tof)) \subseteq PixelRegion(d)

\* "Reset the TOF array for a specific detector": that array, all of it and nothing
\* else, when the layout fits and as long as no parameter changed and no allocation
\* failed since it was laid out.
ResetsOwnTof ==
  ~dataAlloc /\ allocFits /\ m_tofMax > 0 =>
    \A d \in 1 .. allocDet : ResetTofCells(d) = TofRegion(d)
=============================================================================
