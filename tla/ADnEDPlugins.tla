---------------------------- MODULE ADnEDPlugins -----------------------------
(***************************************************************************)
(* The chain of plugins behind a detector's X/Y plot: frames of the driver *)
(* go to ADnEDPixelROI, whose arrays are queued for NDPluginMask.  Each    *)
(* plugin has a mutex and a thread of its own, and clients write the       *)
(* parameters of both at any time.                                         *)
(*                                                                         *)
(* The mask plugin also gets arrays of one dimension, the TOF spectra.     *)
(* The queue is part of ADCore: an array that finds it full is dropped.    *)
(***************************************************************************)
EXTENDS NDArray, Sequences

CONSTANTS
  MaxMasks,      \* maxMasks
  QueueSize,     \* queueSize of the mask plugin
  FrameSizes,    \* cells of a frame, which change with the layout
  TofSizes,      \* cells of a TOF spectrum
  RoiConfigs, MaskConfigs,   \* parameters at the first frame
  RoiWrites, MaskWrites,     \* what clients write: sets of <<field, value>>
  MaxFrames,     \* bound: frames and spectra
  MaxWrites      \* bound: writes after the first frame

ASSUME PluginsAssumption ==
  /\ MaxMasks \in Nat \ {0} /\ QueueSize \in Nat \ {0}
  /\ FrameSizes \subseteq 1 .. MaxInt /\ TofSizes \subseteq 1 .. MaxInt
  /\ RoiConfigs \subseteq [min : Ints, size : Ints, sizeX : Ints, sizeY : Ints]
  /\ RoiWrites \subseteq {"min", "size", "sizeX", "sizeY"} \X Ints
  /\ MaskConfigs \subseteq [use : Ints, posX : Ints, sizeX : Ints, posY : Ints, sizeY : Ints,
                            val : Ints, type : Ints]
  /\ MaskWrites \subseteq {"use", "posX", "sizeX", "posY", "sizeY", "val", "type"} \X Ints
  /\ MaxFrames \in Nat /\ MaxWrites \in Nat

VARIABLES
  roiParam, roiPc, roiFrame, roiDims, roiOut, roiSize,                 \* of ADnEDPixelROI
  maskParam, maskPc, maskNum, pMask, maskIn, maskOut, applied,         \* of ADnEDPluginMask
  queue,         \* arrays that wait for the mask plugin
  frames, writes \* so far

ROI  == INSTANCE ADnEDPixelROI
Mask == INSTANCE ADnEDPluginMask

roiVars  == <<roiParam, roiPc, roiFrame, roiDims, roiOut, roiSize>>
maskVars == <<maskParam, maskPc, maskNum, pMask, maskIn, maskOut, applied>>
vars == <<roiVars, maskVars, queue, frames, writes>>

Init ==
  /\ \E config \in RoiConfigs : ROI!Init(config)
  /\ \E config \in [Mask!Masks -> MaskConfigs] : Mask!Init(config)
  /\ queue = <<>> /\ frames = 0 /\ writes = 0

-----------------------------------------------------------------------------
WriteRoi ==
  /\ writes < MaxWrites /\ writes' = writes + 1
  /\ \E w \in RoiWrites : ROI!Write(w[1], w[2])
  /\ UNCHANGED <<maskVars, queue, frames>>

WriteMask ==
  /\ writes < MaxWrites /\ writes' = writes + 1
  /\ \E k \in Mask!Masks, w \in MaskWrites : Mask!Write(k, w[1], w[2])
  /\ UNCHANGED <<roiVars, queue, frames>>

Frame ==
  /\ frames < MaxFrames /\ frames' = frames + 1
  /\ \E n \in FrameSizes : ROI!Begin(n)
  /\ UNCHANGED <<maskVars, queue, writes>>

RoiConverts ==
  /\ ROI!Convert \/ ROI!ConvertFails \/ ROI!Shape
  /\ UNCHANGED <<maskVars, queue, frames, writes>>

RoiPublishes ==
  /\ ROI!Publish
  /\ queue' = IF Len(queue) < QueueSize THEN Append(queue, roiOut) ELSE queue
  /\ UNCHANGED <<maskVars, frames, writes>>

MaskBegins ==
  /\ queue # <<>>
  /\ \/ Mask!Begin(Head(queue)) /\ queue' = Tail(queue)
     \/ Mask!CopyFails /\ UNCHANGED queue
  /\ UNCHANGED <<roiVars, frames, writes>>

Spectrum ==
  /\ frames < MaxFrames /\ frames' = frames + 1
  /\ \E n \in TofSizes : Mask!Begin([Extract(n, 0, n) EXCEPT !.proper = TRUE])
  /\ UNCHANGED <<roiVars, queue, writes>>

MaskDraws ==
  /\ Mask!Draw \/ Mask!Resume
  /\ UNCHANGED <<roiVars, queue, frames, writes>>

Next ==
  /\ maskPc # "crashed"
  /\ \/ WriteRoi \/ WriteMask
     \/ Frame \/ RoiConverts \/ RoiPublishes
     \/ MaskBegins \/ Spectrum \/ MaskDraws

Spec == Init /\ [][Next]_vars

-----------------------------------------------------------------------------
(* Properties.                                                             *)

IsArray(a) ==
  /\ a.nx \in Nat /\ a.ny \in Nat /\ a.first \in Nat /\ a.proper \in BOOLEAN
  /\ \A i \in DOMAIN a.data : i \in Nat /\ a.data[i] \in Int

\* Every variable has its type: whatever ints clients write, the corrected ones and
\* the arrays made with them have sizes, and the loop counter names a mask.
TypeOK ==
  /\ roiPc \in {"idle", "convert", "shape", "publish"}
  /\ maskPc \in {"idle", "draw", "drawn", "crashed"}
  /\ maskNum \in Mask!Masks
  /\ pMask.posX \in Nat /\ pMask.sizeX \in Nat
  /\ roiFrame \in Nat /\ roiSize \in [x : Nat, y : Nat]
  /\ roiDims.min \in Nat /\ roiDims.size \in Nat
  /\ \A a \in {roiOut, maskIn, maskOut} : IsArray(a)
  /\ Len(queue) <= QueueSize /\ Len(applied) <= MaxMasks

\* "Make sure end result of X*Y is not bigger than pArray->dims[0].size": whatever
\* clients write, negative sizes and frames that become smaller included, no array
\* that the ROI plugin passes on claims more cells than the frame it comes from.
ShapeWithinFrame ==
  roiPc = "publish" => roiOut.nx * roiOut.ny <= roiFrame

\* "the user has the ability to mask out part of the 2-D pixel plot": an array shows,
\* cell by cell, what the masks ask for that were set when it was drawn, the later mask
\* over the earlier one, for arrays of one and two dimensions, rectangles that end beyond
\* the array, and parameters that change between the masks of one array.
DrawnAsAsked ==
  maskPc = "drawn" /\ (\A k \in DOMAIN applied : Mask!BeginsInside(applied[k], maskIn))
    => maskOut.data = Mask!Reference(maskIn, applied)

\* doMask writes no cell that the array does not have, whatever ints clients write,
\* negative and too large ones included, and however the shapes of the arrays change
\* between the write and the drawing.
DrawsInside == DOMAIN maskOut.data = 0 .. Size(maskOut) - 1

\* The values that masks may have, as clients write them.
MaskVals ==
  {c.val : c \in MaskConfigs} \cup {w[2] : w \in {v \in MaskWrites : v[1] = "val"}}

\* From the driver's frame to the plot: when the ROI was asked for cells that the frame
\* has, every cell of the plot that no mask has overwritten shows the detector's cell of
\* that place, however long the array waited and whatever was written meanwhile.
PlotShowsDetector ==
  maskOut.proper =>
    \A i \in DOMAIN maskOut.data :
      \/ maskOut.data[i] = maskOut.first + i
      \/ \E val \in MaskVals : maskOut.data[i] = Mask!Element(val)

\* "Update any changed parameters": the plugin changes a mask only to fit what its
\* parameters are at that moment into the array, and never undoes what a client wrote
\* while it drew.
WritesFitOnly ==
  [][\A k \in Mask!Masks :
       writes' = writes /\ maskParam'[k] # maskParam[k]
         => maskParam'[k] = Mask!Fit(maskParam[k], maskOut')]_vars
=============================================================================
