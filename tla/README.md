# ADnED in TLA+

ADnED is an EPICS areaDetector driver that receives neutron events over
pvAccess (V4), counts them into one buffer of pixel and time-of-flight (TOF)
histograms, and publishes that buffer as NDArrays.  This directory holds TLA+
models of the driver, their model-checking configurations for TLC, and proofs
checked by TLAPS.  All line numbers refer to `src/ADnEDApp/src/ADnED.cpp` unless
another file is named.

## The system

| Part | Code | Module | Status |
|---|---|---|---|
| Acquisition control: `writeInt32` (start, stop, configuration), `eventTask`, `frameTask` | 423-614, 1477-1638, 1716-1807 | `ADnEDAcquire`, `ADnEDService`, `ADnEDMonitors` | modelled, proved |
| Event handling: `eventHandler`, `clearParams` | 981-1311, 1429-1471 | `ADnEDEvents` | modelled, proved |
| Buffer layout: `allocArray`, `resetTOFArray`, cells counted | 960-976, 1161-1256, 1318-1424 | `ADnEDLayout` | modelled, proved |
| Channels: `setupChannelMonitor`, the requesters of `nEDChannel.cpp` | 1656-1710 | `ADnEDChannel`, `ADnEDMonitors` | modelled, proved |
| Pixel maps: `writeOctet`, `checkPixelMap` | 724-752, 927-954 | `ADnEDFiles`, `ADnEDTables` | loading and checking, proved; not their use |
| File reading | `ADnEDFile.cpp` | `ADnEDFiles` | modelled, proved |
| TOF transformation | `ADnEDTransform*.cpp` | `ADnEDFiles`, `ADnEDTables` | arrays and reads, proved; not the formulas |
| Pixel ROI plugin | `ADnEDPixelROI.cpp` | `ADnEDPixelROI` | modelled, proved |
| Mask plugin | `ADnEDPluginMask.cpp` | `ADnEDPluginMask` | modelled, proved |
| The two plugins in a chain | both | `ADnEDPlugins` | modelled, proved |
| TOF axis | `ADnEDAxis.c` | | not modelled: one stateless floating point function |
| IOC shell, report, main, databases | | | not modelled: registration, printing, records |

How the parts interact.  Records write parameters; asyn calls `writeInt32` and
`writeOctet` with the driver's recursive mutex held.  `Start` and `Stop` signal
binary events to `eventTask`, which allocates the buffer, connects the channels,
starts their monitors and wakes `frameTask`.  A pvAccess thread per channel
calls `eventHandler` for each packet.  `frameTask` copies the buffer to an
NDArray at every period.  The pixel ROI plugin takes the cells of one detector
from that array and gives them two dimensions; the mask plugin draws over the
result, or over a TOF spectrum.  Each plugin has a mutex, a thread and a queue of
its own.

## Modules

**`ADnEDService`** is the abstract specification of acquisition control: what
the software above the driver may rely on.  An acquisition begins only because a
start was accepted, ends only because a stop was, no monitor runs outside one,
and accepted requests are carried out.

**`ADnEDMonitors`** is the abstract specification of connecting: channels are set up
one after the other, monitors are started all together or not at all, only on
channels of the acquisition, and a stop leaves none running.  `ADnEDAcquire` and
`ADnEDChannel` both implement it: the first leaves out how a channel is set up,
the second leaves out the other threads, and the shared contract says that what
the one takes for a step of connecting is what the other does.

**`ADnEDTables`** is the abstract specification of loading files: a table is
replaced by all of the file that was named or by nothing.  A write to the pixel
map gives up the map in use first, a failed write to a transformation keeps the
array and its name.  `ADnEDFiles` implements it; the sizes, `errno` and the stages
of reading are hidden.

**`ADnEDAcquire`** is control as coded.  A step is a wait on an event or the code
between a `lock()` and its `unlock()`.  Where `eventTask` signals other threads
with the mutex held, its section is divided into several steps and `lockOwner`
says who holds the mutex.  Two oddities of the code are kept.  After a failed
start the tail of the loop runs without the mutex, and its `unlock()` has no
effect (epicsMutex refuses an unlock by a thread that is not the owner).
`frameTask` locks once more than it unlocks whenever it publishes, so
`lockOwner` stays "frame".  The busy records of Start and Stop are clear, busy with an
accepted request, or refused: a refused request sets the parameter to 0
before the record waits for it, so the record stays busy until a client writes again.
Left out: texts, `ADAcquire`, the contents of the
buffer.  `crashed` is the end of the process on a NULL NDArray or buffer.
`MCAcquire` instantiates it.

**`ADnEDLayout`** has the detector parameters, `allocArray` with each of its
failures, and the status that tells clients that an allocation is required.
What only counts or clears is an operator that gives the cells touched; the
properties quantify over the calls possible in a state.  Parameters are ints, which
clients may set to any value, and the members are unsigned; both keep their width
(`MaxInt`) and wrap.  `LayoutFits` says that the sizes are positive and that an int
can number all cells; the code does not test it, so the properties that need it
have it as a premise (`allocFits`, history).  `LaidOut` are the detectors counted for
that the allocation knew (`allocDet`, history).  Pixel maps are left out.  `MCLayout`
instantiates it.

**`ADnEDEvents`** has one thread per channel.  A monitor wakes `monitorEvent`
(`nEDChannel.cpp` 114-128), which polls the queue and calls `eventHandler` for each
packet until the queue is empty, whether or not the monitor is stopped meanwhile
(`Wake`, `Begin`, `Return`, `Leave`).  `eventHandler` is divided into the three sections that
take the mutex (`Begin`, `Stamp`, `Count`) and the copying of layout parameters between
them, which takes none (`Read`).  The module composes this with
`ADnEDService` instead of with the whole of `ADnEDAcquire`: this is sound because
`ADnEDAcquire` is proved to implement that service.  Clients reset, pause,
start, stop, configure and allocate at any time.  Of the layout it keeps `params`,
whether the parameters are those that the buffer was allocated for ("match"), have
more detectors ("added", `NumDet` asks for no allocation) or differ ("stale"), and
`membersMatch`, whether the members that all handlers share are copies that match.
Sequence IDs have `SeqMod` values (2^32 in the code) and wrap.  A packet has one event
of one detector; the clock is a choice whether to post updates; of a rate only
whether it was posted or zeroed is kept.  `stamps`, `lost`, `straddled` and `late` are history
variables that the properties use; `late` says that a handler had a packet in hand
when the acquisition began, or that a thread was in `monitorEvent` when it ended.
`MCEvents` instantiates it.

**`ADnEDChannel`** has `setupChannelMonitor`, the event that all channels share,
and pvAccess as an environment in which servers come and go and callbacks are
late.  That environment (`Connect`, `Disconnect`) is external code, modelled
from how the driver uses it.  The event of the monitor requester is left out,
because the driver ignores the outcome of its wait (1706).

**`ADnEDFiles`** has the tables that one detector reads from files: the pixel map
and the two arrays that transformations use.  A write of a file name is one
step, because asyn holds the mutex.  A file is its first line and the kinds of
its other lines, as `ADnEDFile` converts them; `File` gives one to every name, so
files do not change.  `erange` is `errno`, which nobody resets.  The first
`calloc` may fail; that of `setDoubleArray` is taken to succeed.  `LargestId` is the
size parameter cast to an unsigned number, which `checkPixelMap` compares ids with.  `MCFiles` has
one file for each way in which reading can end.

**`NDArray`** has the arrays that plugins pass on, the integer widths
(`MaxInt`, `Wrap`) and the conversions between `int` and `size_t`.  `NDArray` and its
pool are ADCore's, so their operators are external.  A cell holds the number of
the detector's cell that it shows, the value of a mask, converted to `size_t` and
then to an element of the array (`Element`), or `Outside`.

**`ADnEDPixelROI`** has `processCallbacks` in four steps: correct the parameters
(mutex held), convert and shape (mutex released), publish.  **`ADnEDPluginMask`**
has `processCallbacks` as copying and fetching the first mask, drawing without
the mutex, and fetching the next one; `Reference` says, independently of the
loops, what a set of masks asks for.  **`ADnEDPlugins`** composes the two with the
queue between them, which drops an array when it is full (external), with
TOF spectra, and with clients that write any parameter between any two steps.
`first`, `proper` and `applied` are history.  `MCPlugins` instantiates it.

Definitions called "Mutant" are plausible bugs.  Replacing the definition
after them by the mutant must violate the property it is listed with in
`PROJECT.json`; this shows that the property depends on that code.

## Runs

Passing runs:

| Run | Shows | Bounds |
|---|---|---|
| `AcquireSafety` | `NoStaleStop`, `ConfigFrozen`, `IdleMeansStopped`, `BusyIsServed` (of accepted requests), and refinement of the safety part of `ADnEDService` and of `ADnEDMonitors` (`ConnectsAsPromised`) | 2 channels; -1, 1, 2 and 3 written as their number |
| `AcquireLive` | `StartCompletes`, `StopCompletes`, refinement of all of `ADnEDService` | 1 channel, array callbacks off |
| `LayoutSafety` | when the layout fits: regions tile the buffer (`RegionsTileBuffer`), counts, plots and TOF resets stay in their regions (`CountsInRegion`, `PlotsInRegion`, `ResetsOwnTof`); always: acquisitions use the current layout (`LayoutCurrent`), all of the buffer is cleared (`ClearsWholeBuffer`), the allocation status is honest (`UsableIsOk`, `OkIsEarned`) | ints of -16 to 15; 2 detectors, good and bad ranges, automatic, given, negative and too large sizes, TOF maxima of -1 and 2 |
| `EventsSafety` | `PulsesCountedOnce`, `NoFalseMissing`, `CountsByCurrentLayout`, `PostedNotAhead`; rates are zero between acquisitions unless a thread was in `monitorEvent` when the last one ended (`RateZeroUnlessLate`); a pause lets through only packets in hand (`PauseHolds`) | 2 channels, 4 sequence IDs, 2 time stamps; 3 packets on channel 0, or 2 of them, or 1 on each channel |
| `FilesSafety` | tables in use are whole files (`NoPartialTable`), of the size that is trusted (`SizesMatch`), and those whose names are shown (`ShownMapInUse`, `ShownTransInUse`); reads for pixels that the files cover stay inside (`ReadsInside`); refinement of `ADnEDTables` (`LoadsAsPromised`) | 11 names, tables of up to 3 values, ints of -8 to 7, pixel sizes -1, 2 and 3 |
| `ChannelSafety` | `RunningOnNamedPV`, `SetupEnds`, refinement of `ADnEDMonitors` (`ConnectsAsPromised`) | 2 channels, 2 PVs and a skipped name |
| `PluginsSafety` | `ShapeWithinFrame`, `DrawsInside`, `DrawnAsAsked`, `PlotShowsDetector`, `WritesFitOnly` | ints of -10 to 9, size_t of 520 values, frames of 5 and 7 cells, a spectrum of 3, 2 masks, a queue of 1, 2 frames, 2 writes |

Why the bounds are enough.  Two channels let one succeed and the next fail, and
leave a channel beyond `numChannels`.  Two detectors have a first and a last
region of both kinds; a width of 32 lets a total fit, pass the greatest int
and wrap, and a negative size cancel a positive one.  Three packets on channel 0 make
one pulse or two, without a gap or (when the second is lost) with one, across the
sequence ID that marks a cleared channel and the wrap-around; one packet on each
channel lets either handler overtake the other anywhere.  Frames of 5 and 7 cells let a region of
six cells fit and then not fit; two masks overlap in both orders, and a write
comes between them.  `MaxInt` and `Wrap` keep the ratio that matters: the product
of two ints fits into `size_t`, and a negative int becomes a number that no frame
reaches; and `size_t` is a multiple of the width of an element, as 2^64 is of 2^32.
Nothing bounds the number of starts, stops, resets, renamings or
allocations.  `AcquireSafety` and `PluginsSafety` do not check deadlock because
`crashed` really ends the process; `PluginsSafety` also ends with its bounds.

Runs that must fail each check one statement of a comment, test or record
description that the code does not keep; `PROJECT.json` quotes the statement.

| Run | Statement | What happens |
|---|---|---|
| `AcquireFrames` | a stop completes | the first published frame keeps the mutex (1786) |
| `AcquireRestart` | the detector stays idle after a stop | a second start between 1507 and 1513 restarts it |
| `AcquireFramesEnd` | the frame thread ends with the acquisition | the drain (1735) took its stop |
| `EventsRate` | rates are zero after a stop | a handler under way posts one afterwards |
| `ChannelStale` | a channel monitors its PV name | a failed renaming leaves the old monitor (1700) |

Other deviations met while modelling, of which no run is kept:

- A start and its stop can both come before `frameTask` takes the start; the
  next acquisition may then get that stop, and no frames (1575, 1607, 1744).
- A refused start or stop leaves its busy record set: "we need to clear the busy
  record anyway", followed by "Note: this does not work" (459-463, 478-482).
- Negative sizes and totals beyond an int are not refused (1343-1401).  Regions then
  overlap or leave the buffer, and the published bounds may be negative.  The
  index of a plot against TOF can exceed an int as well (1222).
- `NumDet` asks for no new allocation (530), so added detectors are counted at
  the index values that they had before, possibly those of another detector.
- A size that `allocArray` filled in (1357) is not adapted to a later range.
- When the bins do not divide the TOF maximum, the last TOFs fall into the next
  row of the 2-D plot (1214).
- After a failed allocation a TOF reset clears as many cells as the new TOF
  maximum has, in the old buffer (1336, 971).
- `checkPixelMap` lets an id equal to the size pass (939), where its message says
  "Must be less than" (941).  A negative size is cast to a large number, which
  every id passes.  A map is not checked again when the size changes.
- A file with fewer lines than its first line says is not refused: the rest of the
  table is 0, though the first line is "specifying the number of lines in the file"
  (`ADnEDFile.cpp` 8-10).
- A pixel map file that cannot be read is not an error (747): its name is shown
  and there is no map.  A map that is refused (742) leaves the old name shown.
- After a number out of range every file is refused, until another call sets
  `errno` (`ADnEDFile.cpp` 74, 147, 199).
- The last character of a line is removed even if it is not a newline
  (`ADnEDFile.cpp` 142): a last line without newline loses a digit.
- The look-up of a map (1184) and `calc_deltaE` (`ADnEDTransform.cpp` 139) do not
  compare the pixel with the size of the table.
- A gap in the sequence IDs counts two missing packets too many (1099).
  `ADnEDChannel.template` 58-61 calls the ID "a unique ID sent by the server with
  every V4 packet" and goes on "So there may be multiple packets with the same ID";
  the code (1095-1099), and `NoFalseMissing` with it, takes IDs to increase by 1.
- A packet in hand at a start or reset is counted in the new acquisition, and a
  packet in hand when a pause is set is counted during the pause (998, 1258).
- The connection of one channel after its wait ended satisfies the wait for
  another channel (1683).
- The wait for a new monitor may time out unnoticed (1706).
- A handler that outlives its acquisition can count by an outdated layout, or
  without a buffer after an `AllocSpace` that failed (1125, 1149).
- An acquisition that nobody asked for (see `AcquireRestart`) clears the plots,
  and not the totals.
- A gap right after sequence ID 2^32-1 goes unnoticed, because that ID is also
  the mark of a cleared channel (1095).
- The first rates are arbitrary (1256), and `m_eventsSinceLastUpdate` is increased
  by several threads without the mutex (1147).
- A TOF maximum or an X size of 0 divides by zero (1195, 1213).
- A mask that begins outside the array, or at a negative position, is moved to
  the last column or row (`ADnEDPluginMask.cpp` 214).  What is clamped is written
  back, so one small frame shrinks a mask for good.
- The value of a mask passes through `size_t`: a negative one becomes large.
- The size of dimension 0 of the ROI is not limited by the frame, and the product
  of X and Y is compared (with `>=`) with the whole frame instead of with the cells
  taken (`ADnEDPixelROI.cpp` 86).
- After a failed conversion `pArrays[0]` is NULL and the size parameters are stale.
  While it is converted or drawn on, `pArrays[0]` is changed without the mutex,
  though comments say that no memory is touched which other threads access
  (`ADnEDPixelROI.cpp` 111-113, `ADnEDPluginMask.cpp` 238-240).
- When the pool is exhausted, the mask plugin and `frameTask` use the NULL that it
  returns (`ADnEDPluginMask.cpp` 193, and 1779).  `frameTask` does not test `p_Data`
  either before it copies from it (1787).

**Fairness.**  `ADnEDAcquire` assumes that the two threads keep running: weak
fairness of `eventTask`, whose waits end with their event or timeout, and
strong fairness of `frameTask`, which competes for a mutex that is free again
and again.  Clients are never forced to act.  In `ADnEDChannel` only the setup
steps are fair, because every wait has a timeout; servers need not answer.
`ADnEDLayout`, `ADnEDEvents`, `ADnEDFiles` and `ADnEDPlugins` have no liveness
properties, and no fairness.

## Proofs

`ADnEDAcquireProofs` proves, for every number of channels and all values that
clients write, from `MaxChannelsAssumption` and `ClientAssumption`:
`TypeCorrect`, `StaleStopsAreTaken` (`NoStaleStop`), `ConfigIsFrozen`,
`StoppedWhenIdle` (`IdleMeansStopped`), `AcceptedRequestsAreServed` (`BusyIsServed`).

None of these invariants is inductive by itself.  `IInv` adds what each control
point knows: who owns the mutex there (`LockInv`), what `ADStatus` may be
(`StatusInv`: Acquire exactly from the connecting of channels to the beginning
of a stop), that the error tail follows a failed start with status Error and no
monitor running (`ErrorInv`, `RunningInv`), that a stop event is pending only
during and just after an acquisition (`StopEventInv`), and that a layout without
pending changes has a buffer (`BufferInv`).  The argument has one lemma per
thread (`ClientIInv`, `EventTaskIInv`, `FrameTaskIInv`).  The Boolean variables
are typed by lemmas of their own (`InitFlags`, `NextFlags`).

`ADnEDServiceProofs` proves `AcquireImplementsService`: under the refinement
mapping of `ADnEDAcquire` every step is a step of `ADnEDService` or a stutter.
While `eventTask` holds the mutex the abstract state is Starting or Stopping,
because nobody can see `ADStatus`.  `AcquireImplementsMonitors` proves the same for
`ADnEDMonitors`.  It needs `ErrorInv`, `RunningInv` and, for the loop that connects,
that the channel in hand has not passed the number of channels (`LoopInv`).

`ADnEDEventsProofs` proves, from `EventsAssumption`, for any set of channels and
any width of the sequence IDs: `TypeCorrect`, `PostedBehind` (`PostedNotAhead`),
`LayoutIsCurrent` (`CountsByCurrentLayout`), `PulsesOnce` (`PulsesCountedOnce`),
`NoMissingWithoutLoss` (`NoFalseMissing`), `RatesStayZero` (`RateZeroUnlessLate`) and
`PauseIsKept` (`PauseHolds`).  `PulseInv` says that a handler with a new
pulse in hand has the newest time stamp and that no stamp counted is newer;
`SequenceInv` that on a channel without loss the last sequence ID is that of the
packet before the one in hand, modulo `SeqMod`; `LayoutInv` that no handler has
a packet in hand while an acquisition starts, unless one already had before; `RateInv`
that only an acquisition monitors, so that between acquisitions the only threads in
`monitorEvent` are late ones.  `PauseHolds` is an action property: each step that counts an event
takes one packet out of the set of those in hand (`OneLessInHand`), and none joins
the set while the pause is set.  `RateZeroUnlessLate` is what remains true of the
statement that `EventsRate` refutes.

`ADnEDLayoutProofs` proves `TypeOK` and all properties of `LayoutSafety`, from
`LayoutAssumption`, for any width of ints, any number of detectors and any ints as
ranges, sizes, bins and X sizes:
`Tiles`, `TypeCorrect`, `RunsOnCurrentLayout`, `UsableShowsOk`, `ClearsAll`,
`OkOnlyEarned`, `CountsOwnRegion`, `ResetsExactly`, `PlotsOwnRegion`.  The invariant
`Laid` says where every region begins and ends when no allocation is pending and
the layout fits (each pixel region follows the one before, the TOF regions follow them all, and
the buffer ends with the last); that the regions tile the buffer follows
from it.  That nothing wraps when the layout fits, so that the bounds published are
the sums themselves, is the arithmetic underneath.

`ADnEDChannelProofs` proves `TypeCorrect`, `MonitorsNamed` (`RunningOnNamedPV`) and
`ChannelImplementsMonitors` (`ConnectsAsPromised`), from `ChannelAssumption` and
`NamesAssumption`.  Its invariant says that a stale monitor
belongs to a channel that missed its PV or that is in hand and will be replaced
(`StaleInv`), and that the channels done with are those named (`DoneInv`).  In the
refinement each step of setting a channel up, its timeouts included, is an
abstract `SetUp` or `Fail`, and whatever servers and callbacks do is a stutter.

`ADnEDFilesProofs` proves `TypeOK` and all properties of `FilesSafety`, from `FilesAssumption` and `SizesAssumption`,
for files with any number of lines: `TypeCorrect`, `TablesAreWhole`, `SizesAgree`,
`ShownMapIsInUse` (`ShownMapInUse`), `ShownIsInUse` (`ShownTransInUse`),
`CoveredReadsAreInside` (`ReadsInside`), `FilesImplementTables`
(`LoadsAsPromised`).  `ReadingInv` is the invariant of
the loop over lines: after k lines the table is the first k values and zeros.  The refinement rests on
the same lemma: a file that was read without exception holds a table
(`ReadIsTable`), whatever `errno` was.

`ADnEDPluginsProofs` proves, from `WidthAssumption` and `PluginsAssumption`, for every
width of the integers, size of frames, number of masks and length of the queue:

- `ShapeIsWithinFrame`: `RoiInv` keeps the corrected shape within the frame unless
  dimension 0 is a negative number, which the conversion refuses;
- `DrawsWhatIsAsked` (`DrawnAsAsked`): the cells that `doMask` overwrites are those
  that the mask hides (`DrawnIsHidden`), with the value asked for (`ElementIsAsked`), and `MaskInv` says that the copy shows what
  the masks drawn so far make of the array;
- `DrawingStaysInside` (`DrawsInside`): fitted positions are not negative and
  the loops end at the width and the height, so row times width plus column is a
  cell of the array (`DrawnInside`);
- `TypeCorrect`, which needs the shapes and the queue to be typed together
  (`TypeInv`);
- `OnlyFitsMasks` (`WritesFitOnly`);
- `PlotIsOfDetector` (`PlotShowsDetector`): `PlotInv` follows the cells from the frame
  through conversion, shape and queue to the copy that masks are drawn on.

The provers cannot instantiate an induction principle.  Where a proof needs
induction (over the detectors, the lines of a file, for the last mask that hides
a cell), it takes the least counterexample, which exists because `<` is well
founded on the naturals, and refutes it.

Only model-checked: the liveness properties (`StartCompletes`, `StopCompletes`,
`SetupEnds`) and the refinement with fairness (`ImplementsService`), which are
beyond the prover.  Every other property of a passing run has a theorem.  Only proved:
`TypeOK` of `ADnEDLayout`, `ADnEDChannel` and `ADnEDFiles`, which the runs do not
repeat because the theorem covers every instance.  The
statements of the runs that must fail are false, so there is nothing to prove.

## Not modelled

- The formulas of the TOF transformation and of `ADnEDAxis.c`: sequential
  floating point, without state between calls.  TLC and the provers have no
  floating point numbers; what can be stated, which elements are read, is.
- The look-up of a pixel map by the handler (1184): one array access whose index
  the code compares with nothing, so no bound holds; it is listed above.
- How often updates come: postings are modelled without a clock.
- The rate over all detectors and the proton charge: they follow the pattern of
  the rate and of the counters of one detector.
- Arrays of more than two dimensions, data types and attributes in the plugins:
  ADnED makes no such arrays, and the loops do not depend on the type.
- A thread of another plugin that writes through `pArrays[0]` while it is drawn on:
  that needs ADCore's `read()`, which is not part of the repository.
- The IOC shell, `report`, `main`, databases and screens: registration, printing
  and records.
