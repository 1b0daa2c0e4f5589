--------------------------- MODULE ADnEDPluginMask ---------------------------
(***************************************************************************)
(* NDPluginMask (ADnEDApp/src/ADnEDPluginMask.cpp): the plugin that draws  *)
(* masks over an array of one or two dimensions.  A mask is a rectangle;   *)
(* it overwrites the cells inside it (reject) or outside it (pass).        *)
(*                                                                         *)
(* processCallbacks is entered with the plugin's mutex held and lets go of *)
(* it while it draws a mask:                                               *)
(*                                                                         *)
(*   Begin    copies the array and fetches the first mask in use           *)
(*   Draw     doMask, without the mutex                                    *)
(*   Resume   fetches the next mask in use, or calls the clients           *)
(*                                                                         *)
(* To fetch a mask is to read its parameters, fit them into the array and  *)
(* write them back.  Clients write parameters between any two steps.       *)
(***************************************************************************)
EXTENDS NDArray, Sequences, FiniteSets

CONSTANT
  MaxMasks    \* maxMasks

Masks == 0 .. MaxMasks - 1

REJECT == 0    \* s_MASK_TYPE_REJECT
PASS   == 1    \* s_MASK_TYPE_PASS

VARIABLES
  maskParam,  \* per mask: Use, PosX, SizeX, PosY, SizeY, Val and Type
  maskPc,     \* where the thread of the plugin is
  maskNum,    \* mask, the local loop counter
  pMask,      \* the mask in hand, fitted into the array
  maskIn,     \* pArray
  maskOut,    \* pArrays[0]
  applied     \* history: the masks drawn on maskOut, as clients had set them

NoMask == [use |-> 0, posX |-> 0, sizeX |-> 0, posY |-> 0, sizeY |-> 0, val |-> 0, type |-> 0]

Init(config) ==
  /\ maskParam = config
  /\ maskPc = "idle" /\ maskNum = 0 /\ pMask = NoMask
  /\ maskIn = NoArray /\ maskOut = NoArray /\ applied = <<>>

Write(k, field, value) ==
  /\ maskParam' = [maskParam EXCEPT ![k][field] = value]
  /\ UNCHANGED <<maskPc, maskNum, pMask, maskIn, maskOut, applied>>

-----------------------------------------------------------------------------
(* Fetching a mask.                                                        *)

\* Mutant: the position is compared as a signed number.
FitPosSigned(pos, max) == Lesser(pos, max - 1)

\* MAX(pos, 0) changes no unsigned number, so a negative position becomes the last one.
FitPos(pos, max) == Lesser(SizeT(pos), max - 1)

FitSize(size, pos, max) == Lesser(SizeT(size), max - pos)

FitX(p, a) ==
  [p EXCEPT !.posX = FitPos(p.posX, a.nx),
            !.sizeX = FitSize(p.sizeX, FitPos(p.posX, a.nx), a.nx)]

FitY(p, a) ==
  [p EXCEPT !.posY = FitPos(p.posY, a.ny),
            !.sizeY = FitSize(p.sizeY, FitPos(p.posY, a.ny), a.ny)]

Fit(p, a) == IF a.ny > 0 THEN FitY(FitX(p, a), a) ELSE FitX(p, a)

\* The first mask in use from k on.
NextUsed(k) == {j \in Masks : j >= k /\ maskParam[j].use # 0
                                     /\ \A i \in k .. j - 1 : maskParam[i].use = 0}

Fetch(j, a) ==
  /\ maskNum' = j
  /\ pMask' = Fit(maskParam[j], a)
  /\ maskParam' = [maskParam EXCEPT ![j] = Fit(@, a)]
  /\ maskPc' = "draw"

\* The clients get maskOut, which read() also returns until the next array.
Publish ==
  /\ maskPc' = "idle" /\ maskNum' = 0 /\ pMask' = NoMask
  /\ maskIn' = NoArray /\ applied' = <<>>
  /\ UNCHANGED maskParam

-----------------------------------------------------------------------------
(* Drawing a mask: doMask and doMaskT.                                     *)

Columns(m, a) == m.posX .. Lesser(m.posX + m.sizeX, a.nx) - 1
Rows(m, a)    == m.posY .. Lesser(m.posY + m.sizeY, a.ny) - 1

\* Mutant: a cell outside the rectangle is outside in both directions.
PassCellsBoth(m, a) ==
  {y * a.nx + x : x \in (0 .. a.nx - 1) \ Columns(m, a), y \in (0 .. a.ny - 1) \ Rows(m, a)}

RejectCells(m, a) ==
  IF a.ny = 0 THEN Columns(m, a)
              ELSE {y * a.nx + x : x \in Columns(m, a), y \in Rows(m, a)}

\* Mutant: the loop goes one row too far.
PassCellsInclusive(m, a) ==
  IF a.ny = 0
  THEN (0 .. a.nx - 1) \ Columns(m, a)
  ELSE {y * a.nx + x : x \in 0 .. a.nx - 1, y \in (0 .. a.ny) \ Rows(m, a)}
         \cup {y * a.nx + x : x \in (0 .. a.nx - 1) \ Columns(m, a), y \in 0 .. a.ny}

PassCells(m, a) ==
  IF a.ny = 0
  THEN (0 .. a.nx - 1) \ Columns(m, a)
  ELSE {y * a.nx + x : x \in (0 .. a.nx - 1) \ Columns(m, a), y \in 0 .. a.ny - 1}
         \cup {y * a.nx + x : x \in 0 .. a.nx - 1, y \in (0 .. a.ny - 1) \ Rows(m, a)}

DrawnCells(m, a) ==
  CASE m.type = REJECT -> RejectCells(m, a)
    [] m.type = PASS   -> PassCells(m, a)
    [] OTHER           -> {}

\* The value is an int parameter, then a size_t, and in the driver's arrays an epicsUInt32.
Element(val) == SizeT(val) % (2 * (MaxInt + 1))

DoMask(a, m) ==
  [a EXCEPT !.data = [i \in DOMAIN a.data \cup DrawnCells(m, a) |->
                        IF i \in DrawnCells(m, a) THEN Element(m.val) ELSE a.data[i]]]

-----------------------------------------------------------------------------
(* processCallbacks.                                                       *)

\* Array a arrives.
Begin(a) ==
  /\ maskPc = "idle"
  /\ maskOut' = Copy(a)
  /\ IF NextUsed(0) = {}
     THEN Publish
     ELSE \E j \in NextUsed(0) :
            /\ maskIn' = Copy(a)
            /\ Fetch(j, a)
            /\ applied' = <<maskParam[j]>>

\* The pool has no array left: the NULL that copy returns is dereferenced.
CopyFails ==
  /\ maskPc = "idle"
  /\ maskPc' = "crashed"
  /\ UNCHANGED <<maskParam, maskNum, pMask, maskIn, maskOut, applied>>

Draw ==
  /\ maskPc = "draw"
  /\ maskOut' = DoMask(maskOut, pMask)
  /\ maskPc' = "drawn"
  /\ UNCHANGED <<maskParam, maskNum, pMask, maskIn, applied>>

\* Mutant: the parameters of a mask are written back once it is drawn.
ResumeWritesBack ==
  /\ maskPc = "drawn"
  /\ UNCHANGED maskOut
  /\ IF NextUsed(maskNum + 1) = {}
     THEN /\ maskPc' = "idle" /\ maskNum' = 0 /\ pMask' = NoMask
          /\ maskIn' = NoArray /\ applied' = <<>>
          /\ maskParam' = [maskParam EXCEPT ![maskNum] = pMask]
     ELSE \E j \in NextUsed(maskNum + 1) :
            /\ Fetch(j, maskIn)
            /\ applied' = Append(applied, maskParam[j])
            /\ UNCHANGED maskIn

Resume ==
  /\ maskPc = "drawn"
  /\ UNCHANGED maskOut
  /\ IF NextUsed(maskNum + 1) = {}
     THEN Publish
     ELSE \E j \in NextUsed(maskNum + 1) :
            /\ Fetch(j, maskIn)
            /\ applied' = Append(applied, maskParam[j])
            /\ UNCHANGED maskIn

-----------------------------------------------------------------------------
(* What the masks are for: the reference that the drawing is compared with.*)

\* Cell (x, y) lies in the rectangle that clients asked for.
Asked(p, a, x, y) ==
  /\ p.posX <= x /\ x < p.posX + p.sizeX
  /\ a.ny = 0 \/ (p.posY <= y /\ y < p.posY + p.sizeY)

Hides(p, a, x, y) ==
  \/ p.type = REJECT /\ Asked(p, a, x, y)
  \/ p.type = PASS /\ ~Asked(p, a, x, y)

\* The rectangle begins in the array; it may end beyond it.
BeginsInside(p, a) ==
  /\ p.posX \in 0 .. a.nx - 1 /\ p.sizeX >= 0
  /\ a.ny = 0 \/ (p.posY \in 0 .. a.ny - 1 /\ p.sizeY >= 0)

\* The value that clients asked for, as an unsigned number of the width of an int.
AskedVal(p) == p.val % (2 * (MaxInt + 1))

\* The last mask that hides a cell gives its value.
Reference(a, masks) ==
  [i \in 0 .. Size(a) - 1 |->
     LET hiding == {k \in DOMAIN masks : Hides(masks[k], a, i % a.nx, i \div a.nx)}
     IN IF hiding = {} THEN a.data[i]
        ELSE AskedVal(masks[CHOOSE k \in hiding : \A l \in hiding : l <= k])]
=============================================================================
