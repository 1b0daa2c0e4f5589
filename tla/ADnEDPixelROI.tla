---------------------------- MODULE ADnEDPixelROI ----------------------------
(***************************************************************************)
(* ADnEDPixelROI (ADnEDApp/src/ADnEDPixelROI.cpp): the plugin that takes   *)
(* the cells of one detector from a frame of the driver and gives them two *)
(* dimensions.                                                             *)
(*                                                                         *)
(* processCallbacks is entered with the plugin's mutex held and lets go of *)
(* it while it converts:                                                   *)
(*                                                                         *)
(*   Begin     reads and corrects the parameters          (mutex held)     *)
(*   Convert   takes the cells, in one dimension          (without it)     *)
(*   Shape     sets the two dimensions                    (without it)     *)
(*   Publish   sets the size parameters, calls the clients (mutex held)    *)
(*                                                                         *)
(* Clients write parameters between any two of them.  Left out: the data   *)
(* type, the offsets of the second and third dimension, which are          *)
(* corrected and never used, and the attributes.                           *)
(***************************************************************************)
EXTENDS NDArray

VARIABLES
  roiParam,   \* Dim0Min, Dim0Size, Dim1Size and Dim2Size
  roiPc,      \* where the thread of the plugin is
  roiFrame,   \* size of pArray, the frame in hand
  roiDims,    \* dims, the local copy of the parameters, corrected
  roiOut,     \* pArrays[0]
  roiSize     \* NDArraySizeX and NDArraySizeY

NoDims == [min |-> 0, size |-> 0, sizeX |-> 0, sizeY |-> 0, proper |-> FALSE]

Init(config) ==
  /\ roiParam = config
  /\ roiPc = "idle"
  /\ roiFrame = 0
  /\ roiDims = NoDims
  /\ roiOut = NoArray
  /\ roiSize = [x |-> 0, y |-> 0]

Write(field, value) ==
  /\ roiParam' = [roiParam EXCEPT ![field] = value]
  /\ UNCHANGED <<roiPc, roiFrame, roiDims, roiOut, roiSize>>

-----------------------------------------------------------------------------
(* The correction of the parameters.                                       *)

\* The offset stays in the frame; the size of dimension 0 is only kept from 0.
FrameOffset(n) == Lesser(SizeT(roiParam.min), n - 1)
Dim0Size       == Greater(SizeT(roiParam.size), 1)

\* "Make sure each new X/Y size is not bigger than the Dim0 size."
DimSize(size) == Lesser(Greater(SizeT(size), 1), Dim0Size)

\* Mutant: the product is not compared with the size of the frame.
PlaneUnlimited(n) == <<DimSize(roiParam.sizeX), DimSize(roiParam.sizeY)>>

\* X * Y too large: "something is wrong so we clamp to 1".
Plane(n) ==
  LET x == DimSize(roiParam.sizeX)
      y == DimSize(roiParam.sizeY)
  IN IF (x * y) % Wrap >= n THEN <<1, 1>> ELSE <<x, y>>

\* History: what was asked for lies in the frame and fills the shape.
Proper(n) ==
  /\ roiParam.min >= 0 /\ roiParam.size >= 1 /\ roiParam.min + roiParam.size <= n
  /\ roiParam.sizeX >= 1 /\ roiParam.sizeY >= 1
  /\ roiParam.sizeX * roiParam.sizeY <= roiParam.size

-----------------------------------------------------------------------------
(* processCallbacks.                                                       *)

\* A frame of n cells.
Begin(n) ==
  /\ roiPc = "idle"
  /\ roiPc' = "convert"
  /\ roiFrame' = n
  /\ roiDims' = [min |-> FrameOffset(n), size |-> Dim0Size,
                 sizeX |-> Plane(n)[1], sizeY |-> Plane(n)[2], proper |-> Proper(n)]
  /\ roiParam' = [min |-> AsInt(FrameOffset(n)), size |-> AsInt(Dim0Size),
                  sizeX |-> AsInt(Plane(n)[1]), sizeY |-> AsInt(Plane(n)[2])]
  /\ roiOut' = NoArray
  /\ UNCHANGED roiSize

\* Mutant: the offset is read again without the mutex.
ConvertReadsAgain ==
  /\ roiPc = "convert"
  /\ roiDims.size < Wrap \div 2
  /\ roiOut' = Extract(roiFrame, SizeT(roiParam.min), roiDims.size)
  /\ roiPc' = "shape"
  /\ UNCHANGED <<roiParam, roiFrame, roiDims, roiSize>>

Convert ==
  /\ roiPc = "convert"
  /\ roiDims.size < Wrap \div 2
  /\ roiOut' = Extract(roiFrame, roiDims.min, roiDims.size)
  /\ roiPc' = "shape"
  /\ UNCHANGED <<roiParam, roiFrame, roiDims, roiSize>>

\* The pool has no memory left, or not as much as that.
ConvertFails ==
  /\ roiPc = "convert"
  /\ roiPc' = "idle"
  /\ roiFrame' = 0 /\ roiDims' = NoDims
  /\ UNCHANGED <<roiParam, roiOut, roiSize>>

Shape ==
  /\ roiPc = "shape"
  /\ roiOut' = [roiOut EXCEPT !.nx = roiDims.sizeX, !.ny = roiDims.sizeY,
                              !.proper = roiDims.proper]
  /\ roiPc' = "publish"
  /\ UNCHANGED <<roiParam, roiFrame, roiDims, roiSize>>

\* The clients get roiOut.
Publish ==
  /\ roiPc = "publish"
  /\ roiSize' = [x |-> roiOut.nx, y |-> roiOut.ny]
  /\ roiPc' = "idle"
  /\ roiFrame' = 0 /\ roiDims' = NoDims
  /\ UNCHANGED <<roiParam, roiOut>>
=============================================================================
