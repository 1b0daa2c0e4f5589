------------------------- MODULE ADnEDPluginsProofs -------------------------
(***************************************************************************)
(* Properties of the chain of plugins for every width of the integers,     *)
(* every size of the frames, any number of masks and whatever clients      *)
(* write.                                                                  *)
(***************************************************************************)
EXTENDS ADnEDPlugins, SequenceTheorems, WellFoundedInduction, TLAPS

RoiParams == [min : Ints, size : Ints, sizeX : Ints, sizeY : Ints]

\* The size_t values that an int can become.
Widened == {ROI!SizeT(i) : i \in Ints}

\* The fields of an array.
Fields == {"nx", "ny", "data", "first", "proper"}

\* Unless dimension 0 is a negative number made unsigned, which the conversion refuses,
\* the corrected shape fits into the frame; the array keeps it.
RoiInv ==
  /\ roiParam \in RoiParams
  /\ roiPc # "idle" =>
       /\ roiFrame \in Nat \ {0}
       /\ roiDims.sizeX \in Nat \ {0} /\ roiDims.sizeY \in Nat \ {0}
       /\ roiDims.size < Wrap \div 2 => roiDims.sizeX * roiDims.sizeY <= roiFrame
  /\ roiPc \in {"shape", "publish"} => roiDims.size < Wrap \div 2
  /\ DOMAIN roiOut = Fields
  /\ roiPc = "publish" => roiOut.nx = roiDims.sizeX /\ roiOut.ny = roiDims.sizeY

-----------------------------------------------------------------------------
(* Arithmetic of the sizes.                                                *)

LEMMA WidthFacts ==
  /\ MaxInt \in Nat \ {0} /\ Wrap \in Nat /\ Wrap \div 2 \in Nat
  /\ Wrap = (Wrap \div 2) + (Wrap \div 2)
  /\ MaxInt * MaxInt < Wrap /\ 2 * MaxInt + 1 < Wrap \div 2 + Wrap \div 2 /\ MaxInt < Wrap \div 2
  <1>1. MaxInt \in Nat \ {0} /\ Wrap \in Nat /\ Wrap % 2 = 0 /\ 4 * MaxInt * MaxInt < Wrap
    BY WidthAssumption
  <1>2. Wrap \div 2 \in Nat /\ Wrap = 2 * (Wrap \div 2)
    BY <1>1
  <1>3. MaxInt * MaxInt \in Nat /\ MaxInt <= MaxInt * MaxInt /\ 4 * MaxInt * MaxInt = 4 * (MaxInt * MaxInt)
    BY <1>1
  <1> QED
    BY <1>1, <1>2, <1>3

LEMMA WidenedFacts ==
  ASSUME NEW v \in Widened
  PROVE  v \in Nat /\ v < Wrap /\ ROI!AsInt(v) \in Ints /\ (v < Wrap \div 2 => v <= MaxInt)
  BY WidthFacts DEF Widened, ROI!SizeT, ROI!AsInt, Ints

LEMMA NatWidened == \A v \in 0 .. MaxInt : v \in Widened
  BY WidthFacts DEF Widened, ROI!SizeT, Ints

LEMMA ProductBound ==
  ASSUME NEW x \in Nat, NEW y \in Nat, NEW k \in Nat, x <= k, y <= k
  PROVE  x * y \in Nat /\ x * y <= k * k
  <1>1. x * y <= k * y
    OBVIOUS
  <1>2. k * y <= k * k
    OBVIOUS
  <1> QED
    BY <1>1, <1>2

LEMMA SmallMod ==
  ASSUME NEW v \in Nat, NEW k \in Nat, v < k PROVE v % k = v
  OBVIOUS

\* The sizes that the plugin corrects to, and their product.
LEMMA PlaneFits ==
  ASSUME roiParam \in RoiParams, NEW n \in 1 .. MaxInt
  PROVE  /\ ROI!FrameOffset(n) \in Widened /\ ROI!Dim0Size \in Widened
         /\ \A k \in 1 .. 2 : ROI!Plane(n)[k] \in Widened \ {0}
         /\ ROI!Dim0Size < Wrap \div 2 => ROI!Plane(n)[1] * ROI!Plane(n)[2] <= n
  <1> DEFINE x == ROI!DimSize(roiParam.sizeX)
             y == ROI!DimSize(roiParam.sizeY)
  <1>0. /\ ROI!SizeT(roiParam.min) \in Widened /\ ROI!SizeT(roiParam.size) \in Widened
        /\ ROI!SizeT(roiParam.sizeX) \in Widened /\ ROI!SizeT(roiParam.sizeY) \in Widened
    BY DEF RoiParams, Widened
  <1>1. n - 1 \in Widened /\ 1 \in Widened /\ 1 # 0
    BY NatWidened, WidthFacts
  <1>2. ROI!FrameOffset(n) \in Widened
    BY <1>0, <1>1 DEF ROI!FrameOffset, ROI!Lesser
  <1>3. ROI!Dim0Size \in Widened /\ ROI!Dim0Size >= 1
    BY <1>0, <1>1, WidenedFacts DEF ROI!Dim0Size, ROI!Greater
  <1>4. ASSUME NEW s, ROI!SizeT(s) \in Widened
        PROVE  ROI!DimSize(s) \in Widened /\ ROI!DimSize(s) >= 1 /\ ROI!DimSize(s) <= ROI!Dim0Size
    BY <1>1, <1>3, <1>4, WidenedFacts DEF ROI!DimSize, ROI!Greater, ROI!Lesser
  <1>5. /\ x \in Widened /\ x >= 1 /\ x <= ROI!Dim0Size
        /\ y \in Widened /\ y >= 1 /\ y <= ROI!Dim0Size
    BY <1>0, <1>4
  <1> HIDE DEF x, y
  <1>6. ROI!Plane(n) = IF (x * y) % Wrap >= n THEN <<1, 1>> ELSE <<x, y>>
    BY DEF ROI!Plane, x, y
  <1>7. \A k \in 1 .. 2 : ROI!Plane(n)[k] \in Widened \ {0}
    BY <1>1, <1>5, <1>6
  <1>8. ASSUME ROI!Dim0Size < Wrap \div 2 PROVE ROI!Plane(n)[1] * ROI!Plane(n)[2] <= n
    <2>1. ROI!Dim0Size <= MaxInt /\ ROI!Dim0Size \in Nat /\ x \in Nat /\ y \in Nat
      BY <1>3, <1>5, <1>8, WidenedFacts
    <2>2. x * y \in Nat /\ x * y <= MaxInt * MaxInt
      BY <1>5, <2>1, ProductBound, WidthFacts
    <2>3. x * y < Wrap
      BY <2>2, WidthFacts
    <2>4. (x * y) % Wrap = x * y
      <3> DEFINE p == x * y
      <3>1. p \in Nat /\ p < Wrap /\ Wrap \in Nat
        BY <2>2, <2>3, WidthFacts
      <3> HIDE DEF p
      <3>2. p % Wrap = p
        BY <3>1, SmallMod
      <3> QED
        BY <3>2 DEF p
    <2>5. CASE x * y >= n
      BY <1>6, <2>4, <2>5
    <2>6. CASE x * y < n
      <3>1. ~(x * y >= n)
        BY <2>2, <2>6
      <3>2. ROI!Plane(n) = <<x, y>>
        BY <1>6, <2>4, <3>1
      <3> QED
        BY <2>2, <2>6, <3>2
    <2> QED
      BY <2>2, <2>5, <2>6
  <1> QED
    BY <1>2, <1>3, <1>7, <1>8

-----------------------------------------------------------------------------
(* The shape of the plot.                                                  *)

LEMMA InitRoi == Init => RoiInv
  BY PluginsAssumption DEF Init, ROI!Init, ROI!NoArray, RoiInv, RoiParams, Fields

LEMMA BeginRoi ==
  ASSUME RoiInv, NEW n \in FrameSizes, ROI!Begin(n) PROVE RoiInv'
  <1>1. n \in 1 .. MaxInt /\ roiParam \in RoiParams
    BY PluginsAssumption DEF RoiInv
  <1>2. /\ ROI!FrameOffset(n) \in Widened /\ ROI!Dim0Size \in Widened
        /\ ROI!Plane(n)[1] \in Widened \ {0} /\ ROI!Plane(n)[2] \in Widened \ {0}
        /\ ROI!Dim0Size < Wrap \div 2 => ROI!Plane(n)[1] * ROI!Plane(n)[2] <= n
    BY <1>1, PlaneFits
  <1>3. roiParam' \in RoiParams
    BY <1>2, WidenedFacts DEF ROI!Begin, RoiParams
  <1>4. /\ roiDims'.size = ROI!Dim0Size /\ roiDims'.sizeX = ROI!Plane(n)[1]
        /\ roiDims'.sizeY = ROI!Plane(n)[2] /\ roiFrame' = n /\ roiPc' = "convert"
    BY DEF ROI!Begin
  <1>5. ROI!Plane(n)[1] \in Nat \ {0} /\ ROI!Plane(n)[2] \in Nat \ {0}
    BY <1>2, WidenedFacts
  <1>6. DOMAIN roiOut' = Fields
    BY DEF ROI!Begin, ROI!NoArray, Fields
  <1> QED
    BY <1>1, <1>2, <1>3, <1>4, <1>5, <1>6 DEF RoiInv

LEMMA NextRoi == RoiInv /\ [Next]_vars => RoiInv'
  <1> SUFFICES ASSUME RoiInv, [Next]_vars PROVE RoiInv'
    OBVIOUS
  <1>1. ASSUME UNCHANGED roiVars PROVE RoiInv'
    BY <1>1 DEF roiVars, RoiInv
  <1>2. CASE WriteRoi
    <2>1. PICK w \in RoiWrites : ROI!Write(w[1], w[2])
      BY <1>2 DEF WriteRoi
    <2>2. w[1] \in {"min", "size", "sizeX", "sizeY"} /\ w[2] \in Ints
      BY PluginsAssumption
    <2>3. roiParam' \in RoiParams
      BY <2>1, <2>2 DEF ROI!Write, RoiInv, RoiParams
    <2> QED
      BY <2>1, <2>3 DEF ROI!Write, RoiInv
  <1>3. CASE Frame
    BY <1>3, BeginRoi DEF Frame
  <1>4. CASE RoiConverts
    <2>1. CASE ROI!Convert
      <3>1. DOMAIN roiOut' = Fields
        BY <2>1 DEF ROI!Convert, ROI!Extract, ROI!NoArray, Fields
      <3> QED
        BY <2>1, <3>1 DEF ROI!Convert, RoiInv
    <2>2. CASE ROI!ConvertFails
      BY <2>2 DEF ROI!ConvertFails, RoiInv
    <2>3. CASE ROI!Shape
      <3>1. /\ DOMAIN roiOut' = Fields
            /\ roiOut'.nx = roiDims.sizeX /\ roiOut'.ny = roiDims.sizeY
        BY <2>3 DEF ROI!Shape, RoiInv, Fields
      <3> QED
        BY <2>3, <3>1 DEF ROI!Shape, RoiInv
    <2> QED
      BY <1>4, <2>1, <2>2, <2>3 DEF RoiConverts
  <1>5. CASE RoiPublishes
    BY <1>5 DEF RoiPublishes, ROI!Publish, RoiInv
  <1>6. CASE WriteMask \/ MaskBegins \/ Spectrum \/ MaskDraws \/ UNCHANGED vars
    BY <1>1, <1>6 DEF WriteMask, MaskBegins, Spectrum, MaskDraws, vars
  <1> QED
    BY <1>2, <1>3, <1>4, <1>5, <1>6 DEF Next

\* No array of the ROI plugin claims more cells than its frame has, for every width of
\* int and size_t, every frame size and every value that clients write.
THEOREM ShapeIsWithinFrame == Spec => []ShapeWithinFrame
  <1>1. RoiInv => ShapeWithinFrame
    BY DEF RoiInv, ShapeWithinFrame
  <1> QED
    BY <1>1, InitRoi, NextRoi, PTL DEF Spec

-----------------------------------------------------------------------------
(* The cells that a mask overwrites are those that it hides.               *)

Param == [use : Int, posX : Int, sizeX : Int, posY : Int, sizeY : Int, val : Int, type : Int]

Cells(a) == 0 .. Mask!Size(a) - 1

Hidden(p, a) == {i \in Cells(a) : Mask!Hides(p, a, i % a.nx, i \div a.nx)}

LEMMA Multiple ==
  ASSUME NEW k \in Nat \ {0}, NEW d \in Int, -k < k * d, k * d < k PROVE d = 0
  <1>1. d >= 1 => k * d >= k
    OBVIOUS
  <1>2. d <= -1 => k * d <= -k
    OBVIOUS
  <1> QED
    BY <1>1, <1>2

\* On its way through a size_t a value loses nothing.
LEMMA ElementIsAsked ==
  ASSUME NEW v \in Int
  PROVE  Mask!Element(v) = v % (2 * (MaxInt + 1)) /\ Mask!Element(v) \in Nat
  <1> DEFINE w == 2 * (MaxInt + 1)
             r == v % w
             s == (v + Wrap) % w
  <1>1. w \in Nat \ {0} /\ Wrap \in Nat /\ Wrap % w = 0
    BY WidthAssumption
  <1>2. Mask!Element(v) = IF v < 0 THEN s ELSE r
    BY DEF Mask!Element, Mask!SizeT
  <1> HIDE DEF w
  <1>3. r \in 0 .. w - 1 /\ s \in 0 .. w - 1
    BY <1>1
  <1>4. /\ Wrap \div w \in Int /\ Wrap = w * (Wrap \div w)
        /\ v \div w \in Int /\ v = w * (v \div w) + r
        /\ (v + Wrap) \div w \in Int /\ v + Wrap = w * ((v + Wrap) \div w) + s
    BY <1>1
  <1> HIDE DEF r, s
  <1>5. PICK a \in Int, b \in Int, c \in Int :
          Wrap = w * a /\ v = w * b + r /\ v + Wrap = w * c + s
    BY <1>4
  <1>6. w * (c - b - a) = w * c - w * b - w * a
    BY <1>1, <1>5
  <1>7. w * (c - b - a) = r - s
    BY <1>1, <1>3, <1>5, <1>6
  <1>8. c - b - a = 0
    BY <1>1, <1>3, <1>5, <1>7, Multiple
  <1>9. r = s
    BY <1>1, <1>3, <1>5, <1>7, <1>8
  <1> QED
    BY <1>2, <1>3, <1>9 DEF w, r

\* Column and row give the cell, and the cell gives them back.
LEMMA CellOf ==
  ASSUME NEW nx \in Nat \ {0}, NEW ny \in Nat \ {0}, NEW x \in 0 .. nx - 1, NEW y \in 0 .. ny - 1
  PROVE  /\ y * nx + x \in 0 .. nx * ny - 1
         /\ (y * nx + x) % nx = x /\ (y * nx + x) \div nx = y
  <1> DEFINE i == y * nx + x
             q == i \div nx
             r == i % nx
  <1>1. y * nx \in Nat /\ i \in Nat
    OBVIOUS
  <1>2. q \in Int /\ r \in 0 .. nx - 1 /\ i = nx * q + r
    BY <1>1
  <1>3. nx * (q - y) = nx * q - y * nx
    BY <1>2
  <1>4. nx * (q - y) = x - r
    BY <1>1, <1>2, <1>3
  <1>5. q - y = 0
    BY <1>2, <1>4, Multiple
  <1>6. q = y /\ r = x
    BY <1>2, <1>4, <1>5
  <1>7. i < nx * ny
    <2>1. (y + 1) * nx <= ny * nx
      OBVIOUS
    <2>2. (y + 1) * nx = y * nx + nx /\ ny * nx = nx * ny
      OBVIOUS
    <2> QED
      BY <1>1, <2>1, <2>2
  <1> QED
    BY <1>1, <1>6, <1>7

LEMMA CellBack ==
  ASSUME NEW nx \in Nat \ {0}, NEW ny \in Nat \ {0}, NEW n, n = nx * ny,
         NEW i \in 0 .. n - 1, NEW x, x = i % nx, NEW y, y = i \div nx
  PROVE  x \in 0 .. nx - 1 /\ y \in 0 .. ny - 1 /\ i = y * nx + x
  <1>1. nx * ny \in Nat /\ i \in Nat /\ i < nx * ny
    OBVIOUS
  <1>2. y \in Int /\ x \in 0 .. nx - 1 /\ i = nx * y + x
    BY <1>1
  <1>3. y >= 0
    <2>1. y <= -1 => nx * y <= -nx
      BY <1>2
    <2> QED
      BY <1>1, <1>2, <2>1
  <1>4. y < ny
    <2>1. y >= ny => nx * y >= nx * ny
      BY <1>2
    <2> QED
      BY <1>1, <1>2, <2>1
  <1>5. y * nx = nx * y
    BY <1>2
  <1> QED
    BY <1>2, <1>3, <1>4, <1>5

\* Fitting a mask that begins inside only cuts what lies beyond the end.
LEMMA FitSpan ==
  ASSUME NEW max \in Nat \ {0}, NEW pos \in 0 .. max - 1, NEW size \in Nat
  PROVE  LET p == Mask!FitPos(pos, max)
             s == Mask!FitSize(size, p, max)
         IN  p .. Mask!Lesser(p + s, max) - 1 = {x \in 0 .. max - 1 : pos <= x /\ x < pos + size}
  BY DEF Mask!FitPos, Mask!FitSize, Mask!SizeT, Mask!Lesser

LEMMA FittedFields ==
  ASSUME NEW p \in Param, NEW a, a.nx \in Nat \ {0}, a.ny \in Nat
  PROVE  LET m == Mask!Fit(p, a)
         IN  /\ m \in Param /\ m.type = p.type /\ m.val = p.val
             /\ m.posX = Mask!FitPos(p.posX, a.nx)
             /\ m.sizeX = Mask!FitSize(p.sizeX, m.posX, a.nx)
             /\ a.ny > 0 => /\ m.posY = Mask!FitPos(p.posY, a.ny)
                            /\ m.sizeY = Mask!FitSize(p.sizeY, m.posY, a.ny)
  <1>1. ASSUME NEW v \in Int, NEW w \in Int, NEW n \in Nat
        PROVE  Mask!FitPos(v, n) \in Int /\ Mask!FitSize(v, w, n) \in Int
    BY WidthFacts DEF Mask!FitPos, Mask!FitSize, Mask!SizeT, Mask!Lesser
  <1>2. Mask!FitX(p, a) \in Param
    BY <1>1 DEF Mask!FitX, Param
  <1>3. Mask!FitY(Mask!FitX(p, a), a) \in Param
    BY <1>1, <1>2 DEF Mask!FitY, Param
  <1>4. CASE a.ny > 0
    BY <1>2, <1>3, <1>4 DEF Mask!Fit, Mask!FitX, Mask!FitY, Param
  <1>5. CASE ~(a.ny > 0)
    BY <1>2, <1>5 DEF Mask!Fit, Mask!FitX, Param
  <1> QED
    BY <1>4, <1>5

LEMMA DrawnIsHidden ==
  ASSUME NEW p \in Param, NEW a, a.nx \in Nat \ {0}, a.ny \in Nat, Mask!BeginsInside(p, a)
  PROVE  Mask!DrawnCells(Mask!Fit(p, a), a) = Hidden(p, a)
  <1> DEFINE m == Mask!Fit(p, a)
             nx == a.nx
             ny == a.ny
  <1>1. m.type = p.type
    BY FittedFields
  <1>2. Mask!Columns(m, a) = {x \in 0 .. nx - 1 : p.posX <= x /\ x < p.posX + p.sizeX}
    BY FittedFields, FitSpan DEF Mask!Columns, Mask!BeginsInside, Param
  <1>3. ny > 0 =>
          Mask!Rows(m, a) = {y \in 0 .. ny - 1 : p.posY <= y /\ y < p.posY + p.sizeY}
    <2> SUFFICES ASSUME ny > 0
                 PROVE  Mask!Rows(m, a) = {y \in 0 .. ny - 1 : p.posY <= y /\ y < p.posY + p.sizeY}
      OBVIOUS
    <2>1. ny \in Nat \ {0} /\ p.posY \in 0 .. ny - 1 /\ p.sizeY \in Nat
      BY DEF Mask!BeginsInside, Param
    <2>2. /\ m.posY = Mask!FitPos(p.posY, ny)
          /\ m.sizeY = Mask!FitSize(p.sizeY, m.posY, ny)
      BY FittedFields
    <2> QED
      BY <2>1, <2>2, FitSpan DEF Mask!Rows
  <1> HIDE DEF m
  <1>4. CASE ny = 0
    <2>1. Cells(a) = 0 .. nx - 1 /\ \A i \in Cells(a) : i % nx = i
      BY <1>4, SmallMod DEF Cells, Mask!Size
    <2>2. Mask!RejectCells(m, a) = Mask!Columns(m, a)
      BY <1>4 DEF Mask!RejectCells
    <2>3. Mask!PassCells(m, a) = (0 .. nx - 1) \ Mask!Columns(m, a)
      BY <1>4 DEF Mask!PassCells
    <2>4. \A i \in 0 .. nx - 1 : Mask!Asked(p, a, i % nx, i \div nx) <=> i \in Mask!Columns(m, a)
      BY <1>2, <1>4, <2>1 DEF Mask!Asked
    <2> QED
      BY <1>1, <1>2, <2>1, <2>2, <2>3, <2>4
      DEF Hidden, Mask!Hides, Mask!DrawnCells, Mask!REJECT, Mask!PASS, m
  <1>5. CASE ny > 0
    <2>1. Cells(a) = 0 .. nx * ny - 1
      BY <1>5 DEF Cells, Mask!Size
    <2>2. ASSUME NEW i \in Cells(a), NEW x, x = i % nx, NEW y, y = i \div nx
          PROVE  x \in 0 .. nx - 1 /\ y \in 0 .. ny - 1 /\ i = y * nx + x
      <3> DEFINE n == nx * ny
      <3>1. nx \in Nat \ {0} /\ ny \in Nat \ {0} /\ n = nx * ny /\ i \in 0 .. n - 1
        BY <1>5, <2>1
      <3> HIDE DEF nx, ny, n
      <3>2. x = i % nx /\ y = i \div nx
        BY <2>2
      <3>3. x \in 0 .. nx - 1
        BY <3>1, <3>2, CellBack
      <3>4. y \in 0 .. ny - 1
        BY <3>1, <3>2, CellBack
      <3>5. i = y * nx + x
        BY <3>1, <3>2, CellBack
      <3> QED
        BY <3>3, <3>4, <3>5
    <2>3. ASSUME NEW x \in 0 .. nx - 1, NEW y \in 0 .. ny - 1
          PROVE  /\ y * nx + x \in Cells(a)
                 /\ (y * nx + x) % nx = x /\ (y * nx + x) \div nx = y
      <3>1. nx \in Nat \ {0} /\ ny \in Nat \ {0}
        BY <1>5
      <3> HIDE DEF nx, ny
      <3> QED
        BY <2>1, <2>3, <3>1, CellOf, SMT
    <2>4. \A x \in 0 .. nx - 1, y \in 0 .. ny - 1 :
            Mask!Asked(p, a, x, y) <=> x \in Mask!Columns(m, a) /\ y \in Mask!Rows(m, a)
      BY <1>2, <1>3, <1>5 DEF Mask!Asked
    <2>5. Mask!RejectCells(m, a) = {i \in Cells(a) : Mask!Asked(p, a, i % nx, i \div nx)}
      <3>1. Mask!RejectCells(m, a) =
              {y * nx + x : x \in Mask!Columns(m, a), y \in Mask!Rows(m, a)}
        BY <1>5 DEF Mask!RejectCells
      <3>2. ASSUME NEW i \in Mask!RejectCells(m, a)
            PROVE  i \in Cells(a) /\ Mask!Asked(p, a, i % nx, i \div nx)
        <4>1. PICK x \in Mask!Columns(m, a), y \in Mask!Rows(m, a) : i = y * nx + x
          BY <3>1, <3>2
        <4>2. x \in 0 .. nx - 1 /\ y \in 0 .. ny - 1
          BY <1>2, <1>3, <1>5
        <4> QED
          BY <2>3, <2>4, <4>1, <4>2
      <3>3. ASSUME NEW i \in Cells(a), Mask!Asked(p, a, i % nx, i \div nx)
            PROVE  i \in Mask!RejectCells(m, a)
        <4>1. PICK x, y : x = i % nx /\ y = i \div nx
          OBVIOUS
        <4>2. x \in 0 .. nx - 1 /\ y \in 0 .. ny - 1 /\ i = y * nx + x
          BY <2>2, <4>1
        <4>3. x \in Mask!Columns(m, a) /\ y \in Mask!Rows(m, a)
          BY <2>4, <3>3, <4>1, <4>2
        <4> QED
          BY <3>1, <4>2, <4>3
      <3> QED
        BY <3>2, <3>3
    <2>6. Mask!PassCells(m, a) = {i \in Cells(a) : ~Mask!Asked(p, a, i % nx, i \div nx)}
      <3>1. Mask!PassCells(m, a) =
              {y * nx + x : x \in (0 .. nx - 1) \ Mask!Columns(m, a), y \in 0 .. ny - 1}
                \cup {y * nx + x : x \in 0 .. nx - 1, y \in (0 .. ny - 1) \ Mask!Rows(m, a)}
        BY <1>5 DEF Mask!PassCells
      <3>2. ASSUME NEW i \in Mask!PassCells(m, a)
            PROVE  i \in Cells(a) /\ ~Mask!Asked(p, a, i % nx, i \div nx)
        <4>1. PICK x \in 0 .. nx - 1, y \in 0 .. ny - 1 :
                /\ i = y * nx + x
                /\ x \notin Mask!Columns(m, a) \/ y \notin Mask!Rows(m, a)
          BY <3>1, <3>2
        <4> QED
          BY <2>3, <2>4, <4>1
      <3>3. ASSUME NEW i \in Cells(a), ~Mask!Asked(p, a, i % nx, i \div nx)
            PROVE  i \in Mask!PassCells(m, a)
        <4>1. PICK x, y : x = i % nx /\ y = i \div nx
          OBVIOUS
        <4>2. x \in 0 .. nx - 1 /\ y \in 0 .. ny - 1 /\ i = y * nx + x
          BY <2>2, <4>1
        <4>3. x \notin Mask!Columns(m, a) \/ y \notin Mask!Rows(m, a)
          BY <2>4, <3>3, <4>1, <4>2
        <4> QED
          BY <3>1, <4>2, <4>3
      <3> QED
        BY <3>2, <3>3
    <2> QED
      BY <1>1, <2>5, <2>6 DEF Hidden, Mask!Hides, Mask!DrawnCells, Mask!REJECT, Mask!PASS, m
  <1> QED
    BY <1>4, <1>5

-----------------------------------------------------------------------------
(* What the first n masks make of an array.                                *)

Upto(a, masks, n) ==
  [i \in Cells(a) |->
     LET hiding == {k \in 1 .. n : Mask!Hides(masks[k], a, i % a.nx, i \div a.nx)}
     IN IF hiding = {} THEN a.data[i]
        ELSE Mask!AskedVal(masks[CHOOSE k \in hiding : \A l \in hiding : l <= k])]

LEMMA UptoNext ==
  ASSUME NEW a, NEW masks, NEW n \in Nat \ {0}, NEW i \in Cells(a)
  PROVE  Upto(a, masks, n)[i] =
           IF i \in Hidden(masks[n], a) THEN Mask!AskedVal(masks[n]) ELSE Upto(a, masks, n - 1)[i]
  <1> DEFINE H(k) == Mask!Hides(masks[k], a, i % a.nx, i \div a.nx)
             new == {k \in 1 .. n : H(k)}
             old == {k \in 1 .. n - 1 : H(k)}
             last(S) == CHOOSE k \in S : \A l \in S : l <= k
  <1>1. /\ Upto(a, masks, n)[i] = IF new = {} THEN a.data[i] ELSE Mask!AskedVal(masks[last(new)])
        /\ Upto(a, masks, n - 1)[i] = IF old = {} THEN a.data[i] ELSE Mask!AskedVal(masks[last(old)])
    BY DEF Upto
  <1>2. i \in Hidden(masks[n], a) <=> H(n)
    BY DEF Hidden
  <1> HIDE DEF H
  <1>3. CASE H(n)
    <2>1. n \in new /\ \A l \in new : l <= n
      BY <1>3
    <2>2. \A k \in new : (\A l \in new : l <= k) => k = n
      BY <2>1
    <2>3. last(new) = n
      <3> HIDE DEF new
      <3> QED
        BY <2>1, <2>2
    <2>4. new # {}
      BY <2>1
    <2> HIDE DEF new, old, last
    <2> QED
      BY <1>1, <1>2, <1>3, <2>3, <2>4
  <1>4. CASE ~H(n)
    <2>1. new = old
      BY <1>4
    <2> HIDE DEF new, old, last
    <2> QED
      BY <1>1, <1>2, <1>4, <2>1
  <1> QED
    BY <1>3, <1>4

LEMMA LastExists ==
  ASSUME NEW n \in Nat, NEW S, S \subseteq 1 .. n, S # {}
  PROVE  \E k \in S : \A l \in S : l <= k
  <1> DEFINE T == {n - k : k \in S}
  <1>1. T \subseteq Nat /\ T # {}
    <2>1. \A k \in S : n - k \in T /\ n - k \in Nat
      OBVIOUS
    <2>2. T \subseteq Nat
      OBVIOUS
    <2> QED
      BY <2>1, <2>2
  <1>2. PICK x \in T : \A y \in T : ~(<<y, x>> \in OpToRel(<, Nat))
    <2> HIDE DEF T
    <2> QED
      BY <1>1, NatLessThanWellFounded, WFMin, Zenon
  <1>3. \A y \in T : ~(y < x)
    BY <1>1, <1>2 DEF OpToRel
  <1>4. PICK k \in S : x = n - k
    OBVIOUS
  <1>5. \A l \in S : n - l \in T
    OBVIOUS
  <1> HIDE DEF T
  <1>6. \A l \in S : l <= k
    BY <1>3, <1>4, <1>5
  <1> QED
    BY <1>6

LEMMA UptoSame ==
  ASSUME NEW a, NEW n \in Nat, NEW one, NEW two, \A k \in 1 .. n : one[k] = two[k]
  PROVE  Upto(a, one, n) = Upto(a, two, n)
  <1> SUFFICES ASSUME NEW i \in Cells(a) PROVE Upto(a, one, n)[i] = Upto(a, two, n)[i]
    BY DEF Upto
  <1> DEFINE hiding(m) == {k \in 1 .. n : Mask!Hides(m[k], a, i % a.nx, i \div a.nx)}
             last(S) == CHOOSE k \in S : \A l \in S : l <= k
             value(m) == IF hiding(m) = {} THEN a.data[i] ELSE Mask!AskedVal(m[last(hiding(m))])
  <1>1. Upto(a, one, n)[i] = value(one) /\ Upto(a, two, n)[i] = value(two)
    BY DEF Upto
  <1>2. hiding(one) = hiding(two) /\ hiding(one) \subseteq 1 .. n
    OBVIOUS
  <1> HIDE DEF hiding
  <1>3. ASSUME hiding(one) # {} PROVE last(hiding(one)) \in 1 .. n
    BY <1>2, <1>3, LastExists
  <1> HIDE DEF last
  <1> QED
    BY <1>1, <1>2, <1>3

LEMMA ReferenceIsUpto ==
  ASSUME NEW a, NEW masks \in Seq(Param)
  PROVE  Mask!Reference(a, masks) = Upto(a, masks, Len(masks))
  <1>1. DOMAIN masks = 1 .. Len(masks)
    OBVIOUS
  <1> SUFFICES ASSUME NEW i \in Cells(a)
               PROVE  Mask!Reference(a, masks)[i] = Upto(a, masks, Len(masks))[i]
    BY DEF Mask!Reference, Upto, Cells
  <1> DEFINE hiding(D) == {k \in D : Mask!Hides(masks[k], a, i % a.nx, i \div a.nx)}
             value(S) == IF S = {} THEN a.data[i]
                         ELSE Mask!AskedVal(masks[CHOOSE k \in S : \A l \in S : l <= k])
  <1>2. Mask!Reference(a, masks)[i] = value(hiding(DOMAIN masks))
    BY DEF Mask!Reference, Cells
  <1>3. Upto(a, masks, Len(masks))[i] = value(hiding(1 .. Len(masks)))
    BY DEF Upto
  <1> HIDE DEF value, hiding
  <1> QED
    BY <1>1, <1>2, <1>3

-----------------------------------------------------------------------------
(* The mask plugin.                                                        *)

\* An array that has cells.
Sized(a) == DOMAIN a = Fields /\ a.nx \in Nat \ {0} /\ a.ny \in Nat

\* Whatever waits in the queue has cells.
QueueInv == \E S : queue \in Seq(S) /\ \A a \in S : Sized(a)

Inside(n) == \A k \in 1 .. n : Mask!BeginsInside(applied[k], maskIn)

\* While masks are drawn, the copy has the shape of the array that arrived, and shows what
\* the masks drawn so far make of it, as long as all of them begin inside.
MaskInv ==
  /\ maskParam \in [Mask!Masks -> Param]
  /\ writes \in Nat
  /\ maskPc \in {"draw", "drawn"} =>
       /\ Sized(maskIn) /\ Sized(maskOut)
       /\ maskOut.nx = maskIn.nx /\ maskOut.ny = maskIn.ny
       /\ applied \in Seq(Param) /\ Len(applied) # 0
  /\ maskPc = "draw" =>
       /\ pMask = Mask!Fit(applied[Len(applied)], maskIn)
       /\ Inside(Len(applied) - 1) => maskOut.data = Upto(maskIn, applied, Len(applied) - 1)
  /\ maskPc = "drawn" /\ Inside(Len(applied)) =>
       maskOut.data = Upto(maskIn, applied, Len(applied))

LEMMA CopyShape ==
  ASSUME NEW a, Sized(a)
  PROVE  /\ Sized(Mask!Copy(a)) /\ Mask!Copy(a).nx = a.nx /\ Mask!Copy(a).ny = a.ny
         /\ Mask!Copy(a).data = [i \in Cells(Mask!Copy(a)) |-> Mask!Copy(a).data[i]]
  BY DEF Sized, Fields, Mask!Copy, Cells, Mask!Size

LEMMA FitByShape ==
  ASSUME NEW p, NEW a, NEW b, a.nx = b.nx, a.ny = b.ny
  PROVE  Mask!Fit(p, a) = Mask!Fit(p, b)
  <1>1. \A q : Mask!FitX(q, a) = Mask!FitX(q, b) /\ Mask!FitY(q, a) = Mask!FitY(q, b)
    BY DEF Mask!FitX, Mask!FitY
  <1> QED
    BY <1>1 DEF Mask!Fit

LEMMA DrawnByShape ==
  ASSUME NEW m, NEW a, NEW b, a.nx = b.nx, a.ny = b.ny
  PROVE  Mask!DrawnCells(m, a) = Mask!DrawnCells(m, b)
  <1>1. Mask!Columns(m, a) = Mask!Columns(m, b) /\ Mask!Rows(m, a) = Mask!Rows(m, b)
    BY DEF Mask!Columns, Mask!Rows
  <1>2. Mask!RejectCells(m, a) = Mask!RejectCells(m, b)
    BY <1>1 DEF Mask!RejectCells
  <1>3. Mask!PassCells(m, a) = Mask!PassCells(m, b)
    BY <1>1 DEF Mask!PassCells
  <1> QED
    BY <1>2, <1>3 DEF Mask!DrawnCells

LEMMA UptoNone ==
  ASSUME NEW a, NEW masks, a.data = [i \in Cells(a) |-> a.data[i]]
  PROVE  Upto(a, masks, 0) = a.data
  BY DEF Upto

LEMMA FetchParams ==
  ASSUME MaskInv, NEW j \in Mask!Masks, NEW a, Sized(a), Mask!Fetch(j, a)
  PROVE  maskParam' \in [Mask!Masks -> Param]
  <1>1. Mask!Fit(maskParam[j], a) \in Param
    BY FittedFields DEF MaskInv, Sized
  <1> QED
    BY <1>1 DEF Mask!Fetch, MaskInv

LEMMA BeginMask ==
  ASSUME MaskInv, NEW a, Sized(a), Mask!Begin(a), UNCHANGED writes PROVE MaskInv'
  <1>1. CASE Mask!NextUsed(0) = {}
    BY <1>1 DEF Mask!Begin, Mask!Publish, MaskInv
  <1>2. CASE Mask!NextUsed(0) # {}
    <2>1. PICK j \in Mask!NextUsed(0) :
            /\ maskIn' = Mask!Copy(a) /\ maskOut' = Mask!Copy(a)
            /\ Mask!Fetch(j, a) /\ applied' = <<maskParam[j]>>
      BY <1>2 DEF Mask!Begin
    <2>2. j \in Mask!Masks /\ maskParam[j] \in Param
      BY DEF Mask!NextUsed, MaskInv
    <2>3. maskParam' \in [Mask!Masks -> Param]
      BY <2>1, <2>2, FetchParams
    <2>4. applied' \in Seq(Param) /\ Len(applied') = 1 /\ applied'[1] = maskParam[j]
      BY <2>1, <2>2
    <2>5. maskPc' = "draw" /\ pMask' = Mask!Fit(maskParam[j], maskIn')
      BY <2>1, CopyShape, FitByShape DEF Mask!Fetch
    <2>6. maskOut'.data = Upto(maskIn', applied', 0)
      BY <2>1, CopyShape, UptoNone
    <2>7. Sized(maskIn') /\ maskOut' = maskIn'
      BY <2>1, CopyShape
    <2> QED
      BY <2>3, <2>4, <2>5, <2>6, <2>7 DEF MaskInv, Sized, Inside
  <1> QED
    BY <1>1, <1>2

\* One mask more: what doMask overwrites is what the mask hides.
LEMMA DrawMask ==
  ASSUME MaskInv, Mask!Draw, UNCHANGED writes PROVE MaskInv'
  <1> DEFINE n == Len(applied)
             p == applied[n]
             drawn == Mask!DrawnCells(pMask, maskOut)
  <1>1. /\ maskPc = "draw" /\ Sized(maskIn) /\ Sized(maskOut)
        /\ maskOut.nx = maskIn.nx /\ maskOut.ny = maskIn.ny
        /\ applied \in Seq(Param) /\ n \in Nat \ {0} /\ p \in Param
        /\ pMask = Mask!Fit(p, maskIn)
    BY DEF Mask!Draw, MaskInv
  <1>2. /\ maskPc' = "drawn" /\ UNCHANGED <<maskParam, pMask, maskIn, applied>>
        /\ maskOut' = Mask!DoMask(maskOut, pMask)
    BY DEF Mask!Draw
  <1>3. /\ Sized(maskOut') /\ maskOut'.nx = maskIn.nx /\ maskOut'.ny = maskIn.ny
        /\ maskOut'.data = [i \in DOMAIN maskOut.data \cup drawn |->
                             IF i \in drawn THEN Mask!Element(pMask.val) ELSE maskOut.data[i]]
    BY <1>1, <1>2 DEF Mask!DoMask, Sized, Fields
  <1>4. ASSUME Inside(n) PROVE maskOut'.data = Upto(maskIn, applied, n)
    <2>1. Inside(n - 1) /\ Mask!BeginsInside(p, maskIn)
      BY <1>1, <1>4 DEF Inside
    <2>2. maskOut.data = Upto(maskIn, applied, n - 1)
      BY <1>1, <2>1 DEF MaskInv
    <2>3. drawn = Hidden(p, maskIn)
      <3>1. drawn = Mask!DrawnCells(pMask, maskIn)
        BY <1>1, DrawnByShape
      <3> QED
        BY <1>1, <2>1, <3>1, DrawnIsHidden DEF Sized
    <2>4. Mask!Element(pMask.val) = Mask!AskedVal(p)
      <3>1. pMask.val = p.val /\ p.val \in Int
        BY <1>1, FittedFields DEF Sized, Param
      <3> QED
        BY <3>1, ElementIsAsked DEF Mask!AskedVal
    <2>5. DOMAIN maskOut.data = Cells(maskIn) /\ drawn \subseteq Cells(maskIn)
      BY <2>2, <2>3 DEF Upto, Hidden
    <2>6. \A i \in Cells(maskIn) : maskOut'.data[i] = Upto(maskIn, applied, n)[i]
      BY <1>1, <1>3, <2>2, <2>3, <2>4, <2>5, UptoNext
    <2>7. DOMAIN maskOut'.data = Cells(maskIn)
      BY <1>3, <2>5
    <2> QED
      BY <1>3, <2>6, <2>7 DEF Upto
  <1> QED
    BY <1>1, <1>2, <1>3, <1>4 DEF MaskInv, Inside, Sized

LEMMA ResumeMask ==
  ASSUME MaskInv, Mask!Resume, UNCHANGED writes PROVE MaskInv'
  <1>1. CASE Mask!NextUsed(maskNum + 1) = {}
    BY <1>1 DEF Mask!Resume, Mask!Publish, MaskInv
  <1>2. CASE Mask!NextUsed(maskNum + 1) # {}
    <2>1. PICK j \in Mask!NextUsed(maskNum + 1) :
            /\ Mask!Fetch(j, maskIn) /\ applied' = Append(applied, maskParam[j])
            /\ UNCHANGED <<maskIn, maskOut>>
      BY <1>2 DEF Mask!Resume
    <2>2. j \in Mask!Masks /\ maskParam[j] \in Param
      BY DEF Mask!NextUsed, MaskInv
    <2>3. /\ Sized(maskIn) /\ Sized(maskOut) /\ applied \in Seq(Param)
          /\ maskOut.nx = maskIn.nx /\ maskOut.ny = maskIn.ny
          /\ Inside(Len(applied)) => maskOut.data = Upto(maskIn, applied, Len(applied))
      BY DEF Mask!Resume, MaskInv
    <2>4. maskParam' \in [Mask!Masks -> Param]
      BY <2>1, <2>2, <2>3, FetchParams
    <2>5. /\ applied' \in Seq(Param) /\ Len(applied') = Len(applied) + 1
          /\ applied'[Len(applied')] = maskParam[j]
          /\ \A k \in 1 .. Len(applied) : applied[k] = applied'[k]
      BY <2>1, <2>2, <2>3, AppendProperties
    <2>6. maskPc' = "draw" /\ pMask' = Mask!Fit(maskParam[j], maskIn)
      BY <2>1 DEF Mask!Fetch
    <2>7. Upto(maskIn, applied, Len(applied)) = Upto(maskIn, applied', Len(applied))
      BY <2>3, <2>5, UptoSame
    <2>8. Len(applied) \in Nat /\ Len(applied') - 1 = Len(applied)
      BY <2>3, <2>5
    <2> QED
      BY <2>1, <2>3, <2>4, <2>5, <2>6, <2>7, <2>8 DEF MaskInv, Inside, Sized
  <1> QED
    BY <1>1, <1>2

-----------------------------------------------------------------------------
(* The chain: what the mask plugin gets has cells, and masks stay typed.   *)

LEMMA InitMask == Init => MaskInv /\ QueueInv
  <1> SUFFICES ASSUME Init PROVE MaskInv /\ QueueInv
    OBVIOUS
  <1>1. maskParam \in [Mask!Masks -> Param] /\ maskPc = "idle" /\ writes = 0
    <2>1. \A v \in Ints : v \in Int
      BY WidthFacts DEF Ints
    <2>2. \A c \in MaskConfigs : c \in Param
      BY <2>1, PluginsAssumption DEF Param
    <2> QED
      BY <2>2 DEF Init, Mask!Init
  <1>2. queue \in Seq({})
    BY DEF Init
  <1> QED
    BY <1>1, <1>2 DEF MaskInv, QueueInv

LEMMA NextQueue == RoiInv /\ QueueInv /\ [Next]_vars => QueueInv'
  <1> SUFFICES ASSUME RoiInv, QueueInv, [Next]_vars PROVE QueueInv'
    OBVIOUS
  <1>1. PICK S : queue \in Seq(S) /\ \A a \in S : Sized(a)
    BY DEF QueueInv
  <1>2. ASSUME UNCHANGED queue PROVE QueueInv'
    BY <1>1, <1>2 DEF QueueInv
  <1>3. CASE RoiPublishes
    <2>1. Sized(roiOut)
      BY <1>3 DEF RoiPublishes, ROI!Publish, RoiInv, Sized
    <2> DEFINE T == S \cup {roiOut}
    <2>2. queue \in Seq(T) /\ roiOut \in T /\ \A a \in T : Sized(a)
      BY <1>1, <2>1
    <2> HIDE DEF T
    <2>3. Append(queue, roiOut) \in Seq(T)
      BY <2>2
    <2>4. queue' \in Seq(T)
      BY <1>3, <2>2, <2>3 DEF RoiPublishes
    <2> QED
      BY <2>2, <2>4 DEF QueueInv
  <1>4. CASE MaskBegins
    <2>1. Tail(queue) \in Seq(S)
      BY <1>1, <1>4 DEF MaskBegins
    <2>2. queue' \in Seq(S)
      BY <1>1, <1>4, <2>1 DEF MaskBegins
    <2> QED
      BY <1>1, <2>2 DEF QueueInv
  <1>5. CASE \/ WriteRoi \/ WriteMask \/ Frame \/ RoiConverts \/ Spectrum \/ MaskDraws
             \/ UNCHANGED vars
    BY <1>2, <1>5 DEF WriteRoi, WriteMask, Frame, RoiConverts, Spectrum, MaskDraws, vars
  <1> QED
    BY <1>3, <1>4, <1>5 DEF Next

\* The arrays that the plugin begins with.
LEMMA HeadSized == ASSUME QueueInv, queue # <<>> PROVE Sized(Head(queue))
  BY DEF QueueInv

LEMMA SpectrumSized ==
  ASSUME NEW n \in TofSizes PROVE Sized([Extract(n, 0, n) EXCEPT !.proper = TRUE])
  <1>1. n \in Nat \ {0}
    BY PluginsAssumption, WidthFacts
  <1> QED
    BY <1>1 DEF Extract, NoArray, Sized, Fields

LEMMA WriteMaskParams ==
  ASSUME MaskInv, WriteMask PROVE MaskInv'
  <1>1. PICK k \in Mask!Masks, w \in MaskWrites : Mask!Write(k, w[1], w[2])
    BY DEF WriteMask
  <1>2. w[1] \in {"use", "posX", "sizeX", "posY", "sizeY", "val", "type"} /\ w[2] \in Ints
    BY PluginsAssumption
  <1>3. maskParam[k] \in Param
    BY DEF MaskInv
  <1>4. w[2] \in Int
    BY <1>2, WidthFacts DEF Ints
  <1>5. [maskParam[k] EXCEPT ![w[1]] = w[2]] \in Param
    BY <1>2, <1>3, <1>4 DEF Param
  <1>6. maskParam' \in [Mask!Masks -> Param]
    BY <1>1, <1>5 DEF Mask!Write, MaskInv
  <1>7. writes' \in Nat /\ UNCHANGED <<maskPc, maskNum, pMask, maskIn, maskOut, applied>>
    BY <1>1 DEF WriteMask, MaskInv, Mask!Write
  <1> QED
    BY <1>6, <1>7 DEF MaskInv, Inside, Sized

LEMMA NextMask == MaskInv /\ QueueInv /\ [Next]_vars => MaskInv'
  <1> SUFFICES ASSUME MaskInv, QueueInv, [Next]_vars PROVE MaskInv'
    OBVIOUS
  <1>1. ASSUME UNCHANGED maskVars, writes' \in Nat PROVE MaskInv'
    BY <1>1 DEF maskVars, MaskInv, Inside, Sized
  <1>2. CASE WriteMask
    BY <1>2, WriteMaskParams
  <1>3. CASE MaskBegins
    <2>1. CASE Mask!Begin(Head(queue))
      BY <1>3, <2>1, HeadSized, BeginMask DEF MaskBegins
    <2>2. CASE Mask!CopyFails
      BY <1>3, <2>2 DEF MaskBegins, Mask!CopyFails, MaskInv
    <2> QED
      BY <1>3, <2>1, <2>2 DEF MaskBegins
  <1>4. CASE Spectrum
    BY <1>4, SpectrumSized, BeginMask DEF Spectrum
  <1>5. CASE MaskDraws
    BY <1>5, DrawMask, ResumeMask DEF MaskDraws
  <1>6. CASE WriteRoi
    BY <1>1, <1>6 DEF WriteRoi, MaskInv
  <1>7. CASE Frame \/ RoiConverts \/ RoiPublishes \/ UNCHANGED vars
    BY <1>1, <1>7 DEF Frame, RoiConverts, RoiPublishes, vars, MaskInv
  <1> QED
    BY <1>2, <1>3, <1>4, <1>5, <1>6, <1>7 DEF Next

\* What is drawn is what was asked for, cell by cell, for any number of masks, every
\* array and whatever clients write between two masks.
THEOREM DrawsWhatIsAsked == Spec => []DrawnAsAsked
  <1>1. MaskInv => DrawnAsAsked
    <2> SUFFICES ASSUME MaskInv, maskPc = "drawn",
                        \A k \in DOMAIN applied : Mask!BeginsInside(applied[k], maskIn)
                 PROVE  maskOut.data = Mask!Reference(maskIn, applied)
      BY DEF DrawnAsAsked
    <2>1. applied \in Seq(Param)
      BY DEF MaskInv
    <2>2. Inside(Len(applied))
      BY <2>1 DEF Inside
    <2>3. maskOut.data = Upto(maskIn, applied, Len(applied))
      BY <2>2 DEF MaskInv
    <2> QED
      BY <2>1, <2>3, ReferenceIsUpto
  <1> QED
    BY <1>1, InitRoi, NextRoi, InitMask, NextQueue, NextMask, PTL DEF Spec

\* A step that fetches a mask changes that mask only, and to what it was, fitted.
LEMMA FetchFits ==
  ASSUME MaskInv, NEW a, NEW b, NEW j \in Mask!Masks, Mask!Fetch(j, a),
         a.nx = b.nx, a.ny = b.ny, NEW k \in Mask!Masks, maskParam'[k] # maskParam[k]
  PROVE  maskParam'[k] = Mask!Fit(maskParam[k], b)
  <1>1. maskParam'[k] = Mask!Fit(maskParam[k], a)
    BY DEF Mask!Fetch, MaskInv
  <1> QED
    BY <1>1, FitByShape

LEMMA BeginFits ==
  ASSUME MaskInv, NEW a, Sized(a), Mask!Begin(a),
         NEW k \in Mask!Masks, maskParam'[k] # maskParam[k]
  PROVE  maskParam'[k] = Mask!Fit(maskParam[k], maskOut')
  <1>1. maskOut' = Mask!Copy(a)
    BY DEF Mask!Begin
  <1>2. Mask!NextUsed(0) # {}
    BY DEF Mask!Begin, Mask!Publish
  <1>3. PICK j \in Mask!Masks : Mask!Fetch(j, a)
    BY <1>2 DEF Mask!Begin, Mask!NextUsed
  <1>4. a.nx = maskOut'.nx /\ a.ny = maskOut'.ny
    BY <1>1, CopyShape
  <1> QED
    BY <1>3, <1>4, FetchFits

\* The plugin never undoes what a client wrote while it drew.
THEOREM OnlyFitsMasks == Spec => WritesFitOnly
  <1> DEFINE FitsOnly == \A k \in Mask!Masks :
                           writes' = writes /\ maskParam'[k] # maskParam[k]
                             => maskParam'[k] = Mask!Fit(maskParam[k], maskOut')
  <1>1. MaskInv /\ QueueInv /\ [Next]_vars => [FitsOnly]_vars
    <2> SUFFICES ASSUME MaskInv, QueueInv, Next, NEW k \in Mask!Masks, writes' = writes,
                        maskParam'[k] # maskParam[k]
                 PROVE  maskParam'[k] = Mask!Fit(maskParam[k], maskOut')
      OBVIOUS
    <2>1. CASE WriteRoi \/ WriteMask
      BY <2>1 DEF WriteRoi, WriteMask, MaskInv
    <2>2. CASE MaskBegins
      <3>1. Mask!Begin(Head(queue))
        BY <2>2 DEF MaskBegins, Mask!CopyFails
      <3> QED
        BY <2>2, <3>1, HeadSized, BeginFits DEF MaskBegins
    <2>3. CASE Spectrum
      BY <2>3, SpectrumSized, BeginFits DEF Spectrum
    <2>4. CASE MaskDraws
      <3>1. Mask!Resume
        BY <2>4 DEF MaskDraws, Mask!Draw
      <3>2. Mask!NextUsed(maskNum + 1) # {}
        BY <3>1 DEF Mask!Resume, Mask!Publish
      <3>3. PICK j \in Mask!Masks : Mask!Fetch(j, maskIn)
        BY <3>1, <3>2 DEF Mask!Resume, Mask!NextUsed
      <3>4. maskOut' = maskOut /\ maskOut.nx = maskIn.nx /\ maskOut.ny = maskIn.ny
        BY <3>1 DEF Mask!Resume, MaskInv
      <3> QED
        BY <3>3, <3>4, FetchFits
    <2>5. CASE Frame \/ RoiConverts \/ RoiPublishes
      BY <2>5 DEF Frame, RoiConverts, RoiPublishes, maskVars
    <2> QED
      BY <2>1, <2>2, <2>3, <2>4, <2>5 DEF Next
  <1> QED
    BY <1>1, InitRoi, NextRoi, InitMask, NextQueue, NextMask, PTL DEF Spec, WritesFitOnly

-----------------------------------------------------------------------------
(* From the frame to the plot.                                             *)

\* The shape that is asked for properly is filled by the cells taken, all in the frame.
LEMMA ProperFits ==
  ASSUME roiParam \in RoiParams, NEW n \in 1 .. MaxInt, ROI!Proper(n)
  PROVE  /\ ROI!FrameOffset(n) \in Nat /\ ROI!Dim0Size \in Nat
         /\ ROI!FrameOffset(n) + ROI!Dim0Size <= n
         /\ ROI!Plane(n)[1] * ROI!Plane(n)[2] \in Nat
         /\ ROI!Plane(n)[1] * ROI!Plane(n)[2] <= ROI!Dim0Size
  <1> DEFINE x == ROI!DimSize(roiParam.sizeX)
             y == ROI!DimSize(roiParam.sizeY)
  <1>1. /\ roiParam.min \in Int /\ roiParam.size \in Int /\ roiParam.sizeX \in Int
        /\ roiParam.sizeY \in Int /\ n \in Int /\ n >= 1
    BY WidthFacts DEF RoiParams, Ints
  <1>2. /\ roiParam.min >= 0 /\ roiParam.size >= 1 /\ roiParam.min + roiParam.size <= n
        /\ roiParam.sizeX >= 1 /\ roiParam.sizeY >= 1
        /\ roiParam.sizeX * roiParam.sizeY <= roiParam.size
    BY DEF ROI!Proper
  <1>3. ROI!FrameOffset(n) = roiParam.min
    BY <1>1, <1>2 DEF ROI!FrameOffset, ROI!Lesser, ROI!SizeT
  <1>4. ROI!Dim0Size = roiParam.size
    BY <1>1, <1>2 DEF ROI!Dim0Size, ROI!Greater, ROI!SizeT
  <1>5. x \in Nat /\ x <= roiParam.sizeX /\ y \in Nat /\ y <= roiParam.sizeY
    BY <1>1, <1>2, <1>4 DEF ROI!DimSize, ROI!Lesser, ROI!Greater, ROI!SizeT
  <1> HIDE DEF x, y
  <1>6. x * y \in Nat /\ x * y <= roiParam.size
    <2> DEFINE sx == roiParam.sizeX
               sy == roiParam.sizeY
    <2>1. sx \in Nat /\ sy \in Nat /\ sx * sy <= roiParam.size
          /\ x \in Nat /\ y \in Nat /\ x <= sx /\ y <= sy
      BY <1>1, <1>2, <1>5
    <2> HIDE DEF sx, sy
    <2>2. x * y <= sx * y
      BY <2>1
    <2>3. sx * y <= sx * sy
      BY <2>1
    <2>4. x * y \in Nat /\ sx * y \in Nat /\ sx * sy \in Nat
      BY <2>1
    <2> QED
      BY <1>1, <2>1, <2>2, <2>3, <2>4
  <1>7. ROI!Plane(n) = IF (x * y) % Wrap >= n THEN <<1, 1>> ELSE <<x, y>>
    BY DEF ROI!Plane, x, y
  <1>8. \/ ROI!Plane(n)[1] * ROI!Plane(n)[2] = x * y
        \/ ROI!Plane(n)[1] * ROI!Plane(n)[2] = 1
    BY <1>7
  <1>9. /\ ROI!Plane(n)[1] * ROI!Plane(n)[2] \in Nat
        /\ ROI!Plane(n)[1] * ROI!Plane(n)[2] <= roiParam.size
    BY <1>1, <1>2, <1>6, <1>8
  <1> QED
    BY <1>1, <1>2, <1>3, <1>4, <1>9

\* An array that was asked for properly shows cells of the frame only.
Shown(a) ==
  a.proper => \A i \in Cells(a) : i \in DOMAIN a.data /\ a.data[i] = a.first + i

\* What the ROI plugin has in hand.
DimsInv ==
  roiPc \in {"convert", "shape"} /\ roiDims.proper =>
    \A i \in 0 .. roiDims.sizeX * roiDims.sizeY - 1 :
      i \in 0 .. roiDims.size - 1 /\ roiDims.min + i < roiFrame

TakenInv ==
  roiPc = "shape" =>
    /\ roiOut.first = roiDims.min
    /\ roiOut.data = [i \in 0 .. roiDims.size - 1 |->
                        IF roiDims.min + i < roiFrame THEN roiDims.min + i ELSE Outside]

OutInv == roiPc = "publish" => Shown(roiOut)

ShownQueue == \E S : queue \in Seq(S) /\ \A a \in S : Shown(a)

\* The values of the masks, the one in hand included.
ValsInv ==
  /\ \A k \in Mask!Masks : maskParam[k].val \in MaskVals
  /\ maskPc = "draw" => pMask.val \in MaskVals

PlotInv == DimsInv /\ TakenInv /\ OutInv /\ ShownQueue /\ ValsInv /\ PlotShowsDetector

LEMMA InitPlot == Init => PlotInv
  <1> SUFFICES ASSUME Init PROVE PlotInv
    OBVIOUS
  <1>1. roiPc = "idle" /\ maskPc = "idle"
    BY DEF Init, ROI!Init, Mask!Init
  <1>2. DimsInv /\ TakenInv /\ OutInv
    BY <1>1 DEF DimsInv, TakenInv, OutInv
  <1>3. ShownQueue
    <2>1. queue \in Seq({})
      BY DEF Init
    <2> QED
      BY <2>1 DEF ShownQueue
  <1>4. ValsInv
    BY <1>1 DEF Init, Mask!Init, ValsInv, MaskVals
  <1>5. PlotShowsDetector
    <2>1. maskOut.proper = FALSE
      BY DEF Init, Mask!Init, Mask!NoArray
    <2> QED
      BY <2>1, Zenon DEF PlotShowsDetector
  <1> QED
    BY <1>2, <1>3, <1>4, <1>5 DEF PlotInv

\* The steps of the ROI plugin.
LEMMA RoiPlot ==
  ASSUME RoiInv, DimsInv, TakenInv, OutInv, [Next]_vars
  PROVE  DimsInv' /\ TakenInv' /\ OutInv'
  <1>1. ASSUME UNCHANGED <<roiPc, roiFrame, roiDims, roiOut>>
        PROVE  DimsInv' /\ TakenInv' /\ OutInv'
    <2>1. DimsInv'
      BY <1>1 DEF DimsInv
    <2>2. TakenInv'
      BY <1>1 DEF TakenInv
    <2>3. OutInv'
      BY <1>1 DEF OutInv, Shown, Cells, Mask!Size
    <2> QED
      BY <2>1, <2>2, <2>3
  <1>2. CASE WriteRoi
    BY <1>1, <1>2 DEF WriteRoi, ROI!Write
  <1>3. CASE Frame
    <2>1. PICK n \in FrameSizes : ROI!Begin(n)
      BY <1>3 DEF Frame
    <2>2. n \in 1 .. MaxInt /\ roiParam \in RoiParams /\ n \in Int
      BY PluginsAssumption, WidthFacts DEF RoiInv
    <2> DEFINE proper == ROI!Proper(n)
    <2>3. /\ roiPc' = "convert" /\ roiFrame' = n
          /\ roiDims' = [min |-> ROI!FrameOffset(n), size |-> ROI!Dim0Size,
                         sizeX |-> ROI!Plane(n)[1], sizeY |-> ROI!Plane(n)[2],
                         proper |-> proper]
      BY <2>1, Zenon DEF ROI!Begin
    <2> HIDE DEF proper
    <2>4. /\ roiDims'.min = ROI!FrameOffset(n) /\ roiDims'.size = ROI!Dim0Size
          /\ roiDims'.sizeX = ROI!Plane(n)[1] /\ roiDims'.sizeY = ROI!Plane(n)[2]
          /\ roiDims'.proper = proper
      BY <2>3
    <2>5. ASSUME roiDims'.proper
          PROVE  \A i \in 0 .. roiDims'.sizeX * roiDims'.sizeY - 1 :
                   i \in 0 .. roiDims'.size - 1 /\ roiDims'.min + i < roiFrame'
      <3> DEFINE cells == ROI!Plane(n)[1] * ROI!Plane(n)[2]
      <3>1. ROI!Proper(n)
        BY <2>4, <2>5, Zenon DEF proper
      <3>2. /\ ROI!FrameOffset(n) \in Nat /\ ROI!Dim0Size \in Nat
            /\ ROI!FrameOffset(n) + ROI!Dim0Size <= n
            /\ cells \in Nat /\ cells <= ROI!Dim0Size
        BY <2>2, <3>1, ProperFits
      <3>3. roiDims'.sizeX * roiDims'.sizeY = cells
        BY <2>4
      <3> HIDE DEF cells
      <3> QED
        BY <2>2, <2>3, <2>4, <3>2, <3>3
    <2>6. DimsInv'
      BY <2>5 DEF DimsInv
    <2> QED
      BY <2>3, <2>6 DEF TakenInv, OutInv
  <1>4. CASE RoiConverts
    <2>1. CASE ROI!Convert
      <3>1. /\ roiPc = "convert" /\ roiPc' = "shape" /\ UNCHANGED <<roiFrame, roiDims>>
            /\ roiOut' = ROI!Extract(roiFrame, roiDims.min, roiDims.size)
        BY <2>1 DEF ROI!Convert
      <3>2. TakenInv'
        BY <3>1 DEF TakenInv, ROI!Extract, ROI!NoArray, ROI!Outside, Outside
      <3>3. DimsInv'
        BY <3>1 DEF DimsInv
      <3> QED
        BY <3>1, <3>2, <3>3 DEF OutInv
    <2>2. CASE ROI!ConvertFails
      BY <2>2 DEF ROI!ConvertFails, DimsInv, TakenInv, OutInv
    <2>3. CASE ROI!Shape
      <3>1. /\ roiPc = "shape" /\ roiPc' = "publish"
            /\ roiOut' = [roiOut EXCEPT !.nx = roiDims.sizeX, !.ny = roiDims.sizeY,
                                        !.proper = roiDims.proper]
            /\ DOMAIN roiOut = Fields
            /\ roiDims.sizeX \in Nat \ {0} /\ roiDims.sizeY \in Nat \ {0}
        BY <2>3 DEF ROI!Shape, RoiInv
      <3>2. /\ roiOut'.nx = roiDims.sizeX /\ roiOut'.ny = roiDims.sizeY
            /\ roiOut'.proper = roiDims.proper
            /\ roiOut'.first = roiOut.first /\ roiOut'.data = roiOut.data
        BY <3>1 DEF Fields
      <3>3. Cells(roiOut') = 0 .. roiDims.sizeX * roiDims.sizeY - 1
        BY <3>1, <3>2 DEF Cells, Mask!Size
      <3>4. /\ roiOut.first = roiDims.min
            /\ roiOut.data = [i \in 0 .. roiDims.size - 1 |->
                                IF roiDims.min + i < roiFrame THEN roiDims.min + i ELSE Outside]
        BY <3>1 DEF TakenInv
      <3>5. ASSUME roiOut'.proper, NEW i \in Cells(roiOut')
            PROVE  i \in DOMAIN roiOut'.data /\ roiOut'.data[i] = roiOut'.first + i
        <4>1. roiDims.proper
          BY <3>2, <3>5, Zenon
        <4>2. i \in 0 .. roiDims.size - 1 /\ roiDims.min + i < roiFrame
          BY <3>1, <3>3, <4>1 DEF DimsInv
        <4> QED
          BY <3>2, <3>4, <4>2
      <3>6. Shown(roiOut')
        BY <3>5 DEF Shown
      <3>7. OutInv'
        BY <3>6 DEF OutInv, Shown, Cells, Mask!Size
      <3> QED
        BY <3>1, <3>7 DEF DimsInv, TakenInv
    <2> QED
      BY <1>4, <2>1, <2>2, <2>3 DEF RoiConverts
  <1>5. CASE RoiPublishes
    BY <1>5 DEF RoiPublishes, ROI!Publish, DimsInv, TakenInv, OutInv
  <1>6. CASE WriteMask \/ MaskBegins \/ Spectrum \/ MaskDraws \/ UNCHANGED vars
    BY <1>1, <1>6 DEF WriteMask, MaskBegins, Spectrum, MaskDraws, vars, roiVars
  <1> QED
    BY <1>2, <1>3, <1>4, <1>5, <1>6 DEF Next

LEMMA QueuePlot ==
  ASSUME OutInv, ShownQueue, [Next]_vars PROVE ShownQueue'
  <1>1. PICK S : queue \in Seq(S) /\ \A a \in S : Shown(a)
    BY DEF ShownQueue
  <1>2. ASSUME NEW T, queue' \in Seq(T), \A a \in T : Shown(a) PROVE ShownQueue'
    BY <1>2 DEF ShownQueue, Shown, Cells, Mask!Size
  <1>3. CASE RoiPublishes
    <2>1. Shown(roiOut)
      BY <1>3 DEF RoiPublishes, ROI!Publish, OutInv
    <2> DEFINE T == S \cup {roiOut}
    <2>2. queue \in Seq(T) /\ roiOut \in T /\ \A a \in T : Shown(a)
      BY <1>1, <2>1
    <2> HIDE DEF T
    <2>3. Append(queue, roiOut) \in Seq(T)
      BY <2>2
    <2>4. queue' \in Seq(T)
      BY <1>3, <2>2, <2>3 DEF RoiPublishes
    <2> QED
      BY <1>2, <2>2, <2>4
  <1>4. CASE MaskBegins
    <2>1. Tail(queue) \in Seq(S)
      BY <1>1, <1>4 DEF MaskBegins
    <2>2. queue' \in Seq(S)
      BY <1>1, <1>4, <2>1 DEF MaskBegins
    <2> QED
      BY <1>1, <1>2, <2>2
  <1>5. CASE \/ WriteRoi \/ WriteMask \/ Frame \/ RoiConverts \/ Spectrum \/ MaskDraws
             \/ UNCHANGED vars
    <2>1. queue' = queue
      BY <1>5 DEF WriteRoi, WriteMask, Frame, RoiConverts, Spectrum, MaskDraws, vars
    <2> QED
      BY <1>1, <1>2, <2>1
  <1> QED
    BY <1>3, <1>4, <1>5 DEF Next

\* The steps of the mask plugin.
LEMMA FetchVals ==
  ASSUME MaskInv, ValsInv, NEW j \in Mask!Masks, NEW a, Sized(a), Mask!Fetch(j, a)
  PROVE  ValsInv'
  <1>1. Mask!Fit(maskParam[j], a).val = maskParam[j].val
    BY FittedFields DEF MaskInv, Sized
  <1>2. maskParam[j].val \in MaskVals
    BY DEF ValsInv
  <1>3. pMask'.val \in MaskVals
    BY <1>1, <1>2 DEF Mask!Fetch
  <1>4. ASSUME NEW k \in Mask!Masks PROVE maskParam'[k].val \in MaskVals
    <2>1. CASE k = j
      BY <1>1, <1>2, <2>1 DEF Mask!Fetch, MaskInv
    <2>2. CASE k # j
      BY <2>2 DEF Mask!Fetch, MaskInv, ValsInv
    <2> QED
      BY <2>1, <2>2
  <1> QED
    BY <1>3, <1>4 DEF ValsInv, MaskVals

\* A copy shows what the array shows.
LEMMA BeginPlot ==
  ASSUME MaskInv, ValsInv, NEW a, Sized(a), Shown(a), Mask!Begin(a)
  PROVE  ValsInv' /\ PlotShowsDetector'
  <1>1. maskOut' = Mask!Copy(a)
    BY DEF Mask!Begin
  <1>2. /\ maskOut'.first = a.first /\ maskOut'.proper = a.proper
        /\ maskOut'.data = [i \in Cells(a) |-> Mask!Cell(a, i)]
    BY <1>1 DEF Mask!Copy, Sized, Fields, Cells
  <1>3. ASSUME maskOut'.proper, NEW i \in DOMAIN maskOut'.data
        PROVE  maskOut'.data[i] = maskOut'.first + i
    <2>1. a.proper /\ i \in Cells(a)
      <3>1. a.proper
        BY <1>2, <1>3, Zenon
      <3>2. i \in Cells(a)
        BY <1>2, <1>3
      <3> QED
        BY <3>1, <3>2
    <2>2. i \in DOMAIN a.data /\ a.data[i] = a.first + i
      BY <2>1 DEF Shown
    <2> QED
      BY <1>2, <2>1, <2>2 DEF Mask!Cell
  <1>4. PlotShowsDetector'
    BY <1>3 DEF PlotShowsDetector
  <1>5. ValsInv'
    <2>1. CASE Mask!NextUsed(0) = {}
      BY <2>1 DEF Mask!Begin, Mask!Publish, ValsInv, MaskVals
    <2>2. CASE Mask!NextUsed(0) # {}
      <3>1. PICK j \in Mask!Masks : Mask!Fetch(j, a)
        BY <2>2 DEF Mask!Begin, Mask!NextUsed
      <3> QED
        BY <3>1, FetchVals
    <2> QED
      BY <2>1, <2>2
  <1> QED
    BY <1>4, <1>5

LEMMA DrawPlot ==
  ASSUME MaskInv, ValsInv, PlotShowsDetector, Mask!Draw
  PROVE  ValsInv' /\ PlotShowsDetector'
  <1> DEFINE drawn == Mask!DrawnCells(pMask, maskOut)
  <1>1. /\ maskPc = "draw" /\ maskPc' = "drawn" /\ UNCHANGED <<maskParam, pMask>>
        /\ maskOut' = Mask!DoMask(maskOut, pMask) /\ DOMAIN maskOut = Fields
    BY DEF Mask!Draw, MaskInv, Sized
  <1>2. /\ maskOut'.first = maskOut.first /\ maskOut'.proper = maskOut.proper
        /\ maskOut'.data = [i \in DOMAIN maskOut.data \cup drawn |->
                             IF i \in drawn THEN Mask!Element(pMask.val) ELSE maskOut.data[i]]
    BY <1>1 DEF Mask!DoMask, Fields
  <1>3. pMask.val \in MaskVals
    BY <1>1 DEF ValsInv
  <1> HIDE DEF drawn
  <1>4. ASSUME maskOut'.proper, NEW i \in DOMAIN maskOut'.data
        PROVE  \/ maskOut'.data[i] = maskOut'.first + i
               \/ \E val \in MaskVals : maskOut'.data[i] = Mask!Element(val)
    <2>1. CASE i \in drawn
      BY <1>2, <1>3, <1>4, <2>1
    <2>2. CASE i \notin drawn
      <3>1. maskOut.proper
        BY <1>2, <1>4, Zenon
      <3>2. i \in DOMAIN maskOut.data /\ maskOut'.data[i] = maskOut.data[i]
        BY <1>2, <1>4, <2>2
      <3> QED
        BY <1>2, <3>1, <3>2 DEF PlotShowsDetector
    <2> QED
      BY <2>1, <2>2
  <1>5. PlotShowsDetector'
    BY <1>4 DEF PlotShowsDetector, MaskVals
  <1> QED
    BY <1>1, <1>5 DEF ValsInv, MaskVals

LEMMA ResumePlot ==
  ASSUME MaskInv, ValsInv, PlotShowsDetector, Mask!Resume
  PROVE  ValsInv' /\ PlotShowsDetector'
  <1>1. PlotShowsDetector'
    BY DEF Mask!Resume, PlotShowsDetector, MaskVals
  <1>2. CASE Mask!NextUsed(maskNum + 1) = {}
    BY <1>1, <1>2 DEF Mask!Resume, Mask!Publish, ValsInv, MaskVals
  <1>3. CASE Mask!NextUsed(maskNum + 1) # {}
    <2>1. PICK j \in Mask!Masks : Mask!Fetch(j, maskIn)
      BY <1>3 DEF Mask!Resume, Mask!NextUsed
    <2>2. Sized(maskIn)
      BY DEF Mask!Resume, MaskInv
    <2> QED
      BY <1>1, <2>1, <2>2, FetchVals
  <1> QED
    BY <1>2, <1>3

LEMMA WritePlot ==
  ASSUME MaskInv, ValsInv, PlotShowsDetector, WriteMask
  PROVE  ValsInv' /\ PlotShowsDetector'
  <1>1. PICK k \in Mask!Masks, w \in MaskWrites : Mask!Write(k, w[1], w[2])
    BY DEF WriteMask
  <1>2. w[1] \in {"use", "posX", "sizeX", "posY", "sizeY", "val", "type"}
    BY PluginsAssumption
  <1>3. maskParam' = [maskParam EXCEPT ![k] = [maskParam[k] EXCEPT ![w[1]] = w[2]]]
        /\ UNCHANGED <<maskPc, pMask, maskOut>>
    BY <1>1 DEF Mask!Write
  <1>4. [maskParam[k] EXCEPT ![w[1]] = w[2]].val \in MaskVals
    <2>1. maskParam[k] \in Param /\ maskParam[k].val \in MaskVals
      BY DEF MaskInv, ValsInv
    <2>2. CASE w[1] = "val"
      <3>1. w[2] \in MaskVals
        BY <2>2 DEF MaskVals
      <3> QED
        BY <2>1, <2>2, <3>1 DEF Param
    <2>3. CASE w[1] # "val"
      BY <2>1, <2>3, <1>2 DEF Param
    <2> QED
      BY <2>2, <2>3
  <1>5. ASSUME NEW l \in Mask!Masks PROVE maskParam'[l].val \in MaskVals
    <2>1. CASE l = k
      BY <1>3, <1>4, <2>1 DEF MaskInv
    <2>2. CASE l # k
      BY <1>3, <2>2 DEF MaskInv, ValsInv
    <2> QED
      BY <2>1, <2>2
  <1> QED
    BY <1>3, <1>5 DEF ValsInv, PlotShowsDetector, MaskVals

\* The arrays that the mask plugin begins with.
LEMMA HeadShown == ASSUME ShownQueue, queue # <<>> PROVE Shown(Head(queue))
  BY DEF ShownQueue

LEMMA SpectrumShown ==
  ASSUME NEW n \in TofSizes PROVE Shown([Extract(n, 0, n) EXCEPT !.proper = TRUE])
  <1>1. n \in Nat \ {0}
    BY PluginsAssumption, WidthFacts
  <1> DEFINE a == [Extract(n, 0, n) EXCEPT !.proper = TRUE]
  <1>2. /\ a.nx = n /\ a.ny = 0 /\ a.first = 0
        /\ a.data = [i \in 0 .. n - 1 |-> IF 0 + i < n THEN 0 + i ELSE Outside]
    BY DEF Extract, NoArray
  <1>3. Cells(a) = 0 .. n - 1
    BY <1>2 DEF Cells, Mask!Size
  <1> SUFFICES Shown(a)
    OBVIOUS
  <1> HIDE DEF a
  <1> QED
    BY <1>1, <1>2, <1>3 DEF Shown

LEMMA NextPlot == RoiInv /\ QueueInv /\ MaskInv /\ PlotInv /\ [Next]_vars => PlotInv'
  <1> SUFFICES ASSUME RoiInv, QueueInv, MaskInv, PlotInv, [Next]_vars PROVE PlotInv'
    OBVIOUS
  <1>1. DimsInv /\ TakenInv /\ OutInv /\ ShownQueue /\ ValsInv /\ PlotShowsDetector
    BY DEF PlotInv
  <1>2. DimsInv' /\ TakenInv' /\ OutInv'
    BY <1>1, RoiPlot
  <1>3. ShownQueue'
    BY <1>1, QueuePlot
  <1>4. ValsInv' /\ PlotShowsDetector'
    <2>1. ASSUME UNCHANGED maskVars PROVE ValsInv' /\ PlotShowsDetector'
      BY <1>1, <2>1 DEF maskVars, ValsInv, PlotShowsDetector, MaskVals
    <2>2. CASE WriteMask
      BY <1>1, <2>2, WritePlot
    <2>3. CASE MaskBegins
      <3>1. CASE Mask!Begin(Head(queue))
        BY <1>1, <2>3, <3>1, HeadSized, HeadShown, BeginPlot DEF MaskBegins
      <3>2. CASE Mask!CopyFails
        BY <1>1, <3>2 DEF Mask!CopyFails, ValsInv, PlotShowsDetector, MaskVals
      <3> QED
        BY <2>3, <3>1, <3>2 DEF MaskBegins
    <2>4. CASE Spectrum
      BY <1>1, <2>4, SpectrumSized, SpectrumShown, BeginPlot DEF Spectrum
    <2>5. CASE MaskDraws
      BY <1>1, <2>5, DrawPlot, ResumePlot DEF MaskDraws
    <2>6. CASE WriteRoi \/ Frame \/ RoiConverts \/ RoiPublishes \/ UNCHANGED vars
      BY <2>1, <2>6 DEF WriteRoi, Frame, RoiConverts, RoiPublishes, vars
    <2> QED
      BY <2>2, <2>3, <2>4, <2>5, <2>6 DEF Next
  <1> QED
    BY <1>2, <1>3, <1>4 DEF PlotInv

\* When the ROI was asked for cells that the frame has, every cell of the plot shows the
\* detector's cell of that place or the value of a mask, for every frame, queue and number
\* of masks, and whatever clients write while an array is on its way.
THEOREM PlotIsOfDetector == Spec => []PlotShowsDetector
  <1>1. PlotInv => PlotShowsDetector
    BY DEF PlotInv
  <1> QED
    BY <1>1, InitRoi, NextRoi, InitMask, NextQueue, NextMask, InitPlot, NextPlot, PTL DEF Spec

-----------------------------------------------------------------------------
(* Type correctness of the ROI plugin and of the queue.                    *)

Arrays(S) == \A a \in S : IsArray(a)

RoiTypes ==
  /\ roiPc \in {"idle", "convert", "shape", "publish"}
  /\ roiFrame \in Nat /\ roiSize \in [x : Nat, y : Nat]
  /\ roiDims.min \in Nat /\ roiDims.size \in Nat /\ roiDims.proper \in BOOLEAN
  /\ IsArray(roiOut)

QueueTypes ==
  /\ \E S : queue \in Seq(S) /\ Arrays(S)
  /\ Len(queue) <= QueueSize

LEMMA NoArrayIsArray == IsArray(NoArray)
  BY DEF IsArray, NoArray

\* The cells that an extraction takes, inside the frame or beyond it.
LEMMA ExtractIsArray ==
  ASSUME NEW n \in Nat, NEW first \in Nat, NEW size \in Nat
  PROVE  IsArray(Extract(n, first, size))
  <1> DEFINE a == Extract(n, first, size)
  <1>1. /\ a.nx = size /\ a.ny = 0 /\ a.first = first /\ a.proper = FALSE
        /\ a.data = [i \in 0 .. size - 1 |-> IF first + i < n THEN first + i ELSE Outside]
    BY DEF Extract, NoArray
  <1>2. \A i \in DOMAIN a.data : i \in Nat /\ a.data[i] \in Int
    <2> DEFINE data == a.data
    <2>1. data = [i \in 0 .. size - 1 |-> IF first + i < n THEN first + i ELSE Outside]
      BY <1>1
    <2> SUFFICES \A i \in DOMAIN data : i \in Nat /\ data[i] \in Int
      OBVIOUS
    <2> HIDE DEF data
    <2>2. ASSUME NEW i \in 0 .. size - 1
          PROVE  i \in Nat /\ data[i] \in Int
      <3>1. data[i] = first + i \/ data[i] = Outside
        BY <2>1
      <3> QED
        BY <3>1 DEF Outside
    <2> QED
      BY <2>1, <2>2
  <1> HIDE DEF a
  <1>3. IsArray(a)
    <2>1. a.nx \in Nat /\ a.ny \in Nat /\ a.first \in Nat
      BY <1>1
    <2>2. a.proper \in BOOLEAN
      BY <1>1, Zenon
    <2> QED
      BY <1>2, <2>1, <2>2, Zenon DEF IsArray
  <1> QED
    BY <1>3 DEF a

LEMMA InitRoiTypes == Init => RoiTypes /\ QueueTypes
  <1> SUFFICES ASSUME Init PROVE RoiTypes /\ QueueTypes
    OBVIOUS
  <1>1. RoiTypes
    <2>1. roiOut = NoArray
      BY DEF Init, ROI!Init, ROI!NoArray, NoArray
    <2> QED
      BY <2>1, NoArrayIsArray DEF Init, ROI!Init, ROI!NoDims, RoiTypes
  <1>2. QueueTypes
    <2>1. queue \in Seq({}) /\ Arrays({})
      BY DEF Init, Arrays
    <2>2. Len(queue) <= QueueSize
      BY PluginsAssumption DEF Init
    <2> QED
      BY <2>1, <2>2, Zenon DEF QueueTypes
  <1> QED
    BY <1>1, <1>2

LEMMA NextRoiTypes ==
  ASSUME RoiInv, RoiTypes, [Next]_vars
  PROVE  RoiTypes'
  <1>1. ASSUME UNCHANGED <<roiPc, roiFrame, roiDims, roiOut, roiSize>> PROVE RoiTypes'
    BY <1>1 DEF RoiTypes, IsArray
  <1>2. CASE WriteRoi
    BY <1>1, <1>2 DEF WriteRoi, ROI!Write
  <1>3. CASE Frame
    <2>1. PICK n \in FrameSizes : ROI!Begin(n)
      BY <1>3 DEF Frame
    <2>2. n \in 1 .. MaxInt /\ n \in Nat /\ roiParam \in RoiParams
      BY PluginsAssumption, WidthFacts DEF RoiInv
    <2> DEFINE proper == ROI!Proper(n)
    <2>3. /\ roiPc' = "convert" /\ roiFrame' = n /\ roiOut' = ROI!NoArray
          /\ roiDims' = [min |-> ROI!FrameOffset(n), size |-> ROI!Dim0Size,
                         sizeX |-> ROI!Plane(n)[1], sizeY |-> ROI!Plane(n)[2],
                         proper |-> proper]
          /\ UNCHANGED roiSize
      BY <2>1, Zenon DEF ROI!Begin
    <2>4. proper \in BOOLEAN
      BY Zenon DEF ROI!Proper
    <2> HIDE DEF proper
    <2>5. ROI!FrameOffset(n) \in Nat /\ ROI!Dim0Size \in Nat
      BY <2>2, PlaneFits, WidenedFacts
    <2>6. /\ roiDims'.min \in Nat /\ roiDims'.size \in Nat /\ roiDims'.proper \in BOOLEAN
      BY <2>3, <2>4, <2>5
    <2>7. IsArray(roiOut)'
      BY <2>3 DEF IsArray, ROI!NoArray
    <2> QED
      BY <2>2, <2>3, <2>6, <2>7 DEF RoiTypes
  <1>4. CASE RoiConverts
    <2>1. CASE ROI!Convert
      <3>1. roiOut' = Extract(roiFrame, roiDims.min, roiDims.size)
        BY <2>1 DEF ROI!Convert, ROI!Extract, ROI!NoArray, ROI!Outside,
                    Extract, NoArray, Outside
      <3>2. IsArray(Extract(roiFrame, roiDims.min, roiDims.size))
        BY ExtractIsArray DEF RoiTypes
      <3>3. IsArray(roiOut)'
        BY <3>1, <3>2 DEF IsArray
      <3> QED
        BY <2>1, <3>3 DEF ROI!Convert, RoiTypes
    <2>2. CASE ROI!ConvertFails
      BY <2>2 DEF ROI!ConvertFails, ROI!NoDims, RoiTypes, IsArray
    <2>3. CASE ROI!Shape
      <3>1. /\ roiOut' = [roiOut EXCEPT !.nx = roiDims.sizeX, !.ny = roiDims.sizeY,
                                        !.proper = roiDims.proper]
            /\ DOMAIN roiOut = Fields
            /\ roiDims.sizeX \in Nat /\ roiDims.sizeY \in Nat
        BY <2>3 DEF ROI!Shape, RoiInv
      <3>2. /\ roiOut'.nx = roiDims.sizeX /\ roiOut'.ny = roiDims.sizeY
            /\ roiOut'.proper = roiDims.proper
            /\ roiOut'.first = roiOut.first /\ roiOut'.data = roiOut.data
        BY <3>1 DEF Fields
      <3>3. IsArray(roiOut)'
        BY <3>1, <3>2 DEF IsArray, RoiTypes
      <3> QED
        BY <2>3, <3>3 DEF ROI!Shape, RoiTypes
    <2> QED
      BY <1>4, <2>1, <2>2, <2>3 DEF RoiConverts
  <1>5. CASE RoiPublishes
    <2>1. roiOut.nx \in Nat /\ roiOut.ny \in Nat
      BY DEF RoiTypes, IsArray
    <2> QED
      BY <1>5, <2>1 DEF RoiPublishes, ROI!Publish, ROI!NoDims, RoiTypes, IsArray
  <1>6. CASE WriteMask \/ MaskBegins \/ Spectrum \/ MaskDraws \/ UNCHANGED vars
    BY <1>1, <1>6 DEF WriteMask, MaskBegins, Spectrum, MaskDraws, vars, roiVars
  <1> QED
    BY <1>2, <1>3, <1>4, <1>5, <1>6 DEF Next

\* The queue never holds more than it may, and only arrays.
LEMMA NextQueueTypes ==
  ASSUME RoiTypes, QueueTypes, [Next]_vars
  PROVE  QueueTypes'
  <1>1. PICK S : queue \in Seq(S) /\ Arrays(S)
    BY DEF QueueTypes
  <1>2. ASSUME NEW T, queue' \in Seq(T), Arrays(T), Len(queue') <= QueueSize PROVE QueueTypes'
    BY <1>2 DEF QueueTypes, Arrays, IsArray
  <1>3. CASE RoiPublishes
    <2> DEFINE T == S \cup {roiOut}
    <2>1. queue \in Seq(T) /\ roiOut \in T /\ Arrays(T)
      BY <1>1 DEF RoiTypes, Arrays
    <2> HIDE DEF T
    <2>2. Append(queue, roiOut) \in Seq(T) /\ Len(Append(queue, roiOut)) = Len(queue) + 1
      BY <2>1
    <2>3. Len(queue) \in Nat /\ QueueSize \in Nat /\ Len(queue) <= QueueSize
      BY <1>1, PluginsAssumption DEF QueueTypes
    <2>4. queue' \in Seq(T) /\ Len(queue') <= QueueSize
      BY <1>3, <2>1, <2>2, <2>3 DEF RoiPublishes
    <2> QED
      BY <1>2, <2>1, <2>4
  <1>4. CASE MaskBegins
    <2>1. queue # <<>> /\ (queue' = Tail(queue) \/ queue' = queue)
      BY <1>4 DEF MaskBegins
    <2>2. Tail(queue) \in Seq(S) /\ Len(Tail(queue)) = Len(queue) - 1 /\ Len(queue) \in Nat
      BY <1>1, <2>1
    <2> QED
      BY <1>1, <1>2, <2>1, <2>2, PluginsAssumption DEF QueueTypes
  <1>5. CASE \/ WriteRoi \/ WriteMask \/ Frame \/ RoiConverts \/ Spectrum \/ MaskDraws
             \/ UNCHANGED vars
    <2>1. queue' = queue
      BY <1>5 DEF WriteRoi, WriteMask, Frame, RoiConverts, Spectrum, MaskDraws, vars
    <2> QED
      BY <1>1, <1>2, <2>1 DEF QueueTypes
  <1> QED
    BY <1>3, <1>4, <1>5 DEF Next

-----------------------------------------------------------------------------
(* Type correctness of the mask plugin, which draws inside the array only. *)

\* The ints that become a size_t when they are read.
Wide(p) == p.posX >= -Wrap /\ p.sizeX >= -Wrap /\ p.posY >= -Wrap /\ p.sizeY >= -Wrap

\* Every fetch takes a later mask, so an array is never drawn on by more masks than there
\* are, and the mask in hand begins in the array.
MaskTypes ==
  /\ maskPc \in {"idle", "draw", "drawn", "crashed"} /\ maskNum \in Mask!Masks
  /\ \A k \in Mask!Masks : Wide(maskParam[k])
  /\ pMask.posX \in Nat /\ pMask.sizeX \in Nat
  /\ maskPc = "draw" => pMask \in Param /\ (maskOut.ny > 0 => pMask.posY \in Nat)
  /\ maskPc \in {"draw", "drawn"} => Len(applied) <= maskNum + 1
  /\ maskPc \notin {"draw", "drawn"} => applied = <<>>

MaskArrays == IsArray(maskIn) /\ IsArray(maskOut) /\ DrawsInside

\* A fitted mask begins in the array and does not end before it begins.
LEMMA FitIsNat ==
  ASSUME NEW max \in Nat \ {0}, NEW pos \in Int, pos >= -Wrap, NEW size \in Int, size >= -Wrap
  PROVE  LET p == Mask!FitPos(pos, max)
         IN  p \in Nat /\ Mask!FitSize(size, p, max) \in Nat
  BY WidthFacts DEF Mask!FitPos, Mask!FitSize, Mask!SizeT, Mask!Lesser

LEMMA FitIsWide ==
  ASSUME NEW p \in Param, Wide(p), NEW a, a.nx \in Nat \ {0}, a.ny \in Nat
  PROVE  LET m == Mask!Fit(p, a)
         IN  /\ Wide(m) /\ m \in Param /\ m.posX \in Nat /\ m.sizeX \in Nat
             /\ a.ny > 0 => m.posY \in Nat
  <1> DEFINE m == Mask!Fit(p, a)
  <1>0. /\ p.posX \in Int /\ p.sizeX \in Int /\ p.posY \in Int /\ p.sizeY \in Int
        /\ p.posX >= -Wrap /\ p.sizeX >= -Wrap /\ p.posY >= -Wrap /\ p.sizeY >= -Wrap
    BY DEF Param, Wide
  <1>1. /\ m \in Param /\ m.posX = Mask!FitPos(p.posX, a.nx)
        /\ m.sizeX = Mask!FitSize(p.sizeX, m.posX, a.nx)
        /\ a.ny > 0 => /\ m.posY = Mask!FitPos(p.posY, a.ny)
                       /\ m.sizeY = Mask!FitSize(p.sizeY, m.posY, a.ny)
    BY FittedFields
  <1>2. a.ny = 0 => m.posY = p.posY /\ m.sizeY = p.sizeY
    BY DEF Mask!Fit, Mask!FitX, Param
  <1> HIDE DEF m
  <1>3. m.posX \in Nat /\ m.sizeX \in Nat
    BY <1>0, <1>1, FitIsNat
  <1>4. ASSUME a.ny > 0 PROVE m.posY \in Nat /\ m.sizeY \in Nat
    BY <1>0, <1>1, <1>4, FitIsNat
  <1>5. Wide(m)
    <2>1. m.posY >= -Wrap /\ m.sizeY >= -Wrap
      <3>1. CASE a.ny > 0
        BY <1>4, <3>1, WidthFacts
      <3>2. CASE a.ny = 0
        BY <1>0, <1>2, <3>2
      <3> QED
        BY <3>1, <3>2
    <2> QED
      BY <1>3, <2>1, WidthFacts DEF Wide
  <1> QED
    BY <1>1, <1>3, <1>4, <1>5 DEF m

\* What a mask that begins in the array overwrites lies in the array.
LEMMA DrawnInside ==
  ASSUME NEW a, a.nx \in Nat \ {0}, a.ny \in Nat,
         NEW m \in Param, m.posX \in Nat, a.ny > 0 => m.posY \in Nat
  PROVE  Mask!DrawnCells(m, a) \subseteq Cells(a)
  <1>1. Mask!Columns(m, a) \subseteq 0 .. a.nx - 1
    BY DEF Mask!Columns, Mask!Lesser, Param
  <1>2. CASE a.ny = 0
    <2>1. Cells(a) = 0 .. a.nx - 1
      BY <1>2 DEF Cells, Mask!Size
    <2> QED
      BY <1>1, <1>2, <2>1 DEF Mask!DrawnCells, Mask!RejectCells, Mask!PassCells
  <1>3. CASE a.ny > 0
    <2>1. Mask!Rows(m, a) \subseteq 0 .. a.ny - 1
      BY <1>3 DEF Mask!Rows, Mask!Lesser, Param
    <2> DEFINE nx == a.nx
               ny == a.ny
    <2>2. ASSUME NEW x \in 0 .. nx - 1, NEW y \in 0 .. ny - 1
          PROVE  y * nx + x \in Cells(a)
      <3>1. nx \in Nat \ {0} /\ ny \in Nat \ {0} /\ Cells(a) = 0 .. nx * ny - 1
        BY <1>3 DEF Cells, Mask!Size
      <3> HIDE DEF nx, ny
      <3> QED
        BY <2>2, <3>1, CellOf, SMT
    <2>3. Mask!RejectCells(m, a) \subseteq Cells(a)
      <3>1. Mask!RejectCells(m, a) =
              {y * nx + x : x \in Mask!Columns(m, a), y \in Mask!Rows(m, a)}
        BY <1>3 DEF Mask!RejectCells
      <3> QED
        BY <1>1, <2>1, <2>2, <3>1
    <2>4. Mask!PassCells(m, a) \subseteq Cells(a)
      <3>1. Mask!PassCells(m, a) =
              {y * nx + x : x \in (0 .. nx - 1) \ Mask!Columns(m, a), y \in 0 .. ny - 1}
                \cup {y * nx + x : x \in 0 .. nx - 1, y \in (0 .. ny - 1) \ Mask!Rows(m, a)}
        BY <1>3 DEF Mask!PassCells
      <3> QED
        BY <2>2, <3>1
    <2> QED
      BY <2>3, <2>4 DEF Mask!DrawnCells
  <1> QED
    BY <1>2, <1>3

LEMMA CopyIsArray ==
  ASSUME NEW a, Sized(a), IsArray(a)
  PROVE  /\ IsArray(Mask!Copy(a))
         /\ DOMAIN Mask!Copy(a).data = 0 .. Size(Mask!Copy(a)) - 1
  <1> DEFINE b == Mask!Copy(a)
  <1>1. /\ b.nx = a.nx /\ b.ny = a.ny /\ b.first = a.first /\ b.proper = a.proper
        /\ b.data = [i \in 0 .. Size(a) - 1 |-> Mask!Cell(a, i)]
    BY DEF Mask!Copy, Mask!Size, Size, Sized, Fields
  <1>2. Size(a) \in Nat /\ Size(b) = Size(a)
    BY <1>1 DEF Size, Sized
  <1> HIDE DEF b
  <1>3. ASSUME NEW i \in 0 .. Size(a) - 1 PROVE i \in Nat /\ Mask!Cell(a, i) \in Int
    BY <1>2 DEF Mask!Cell, Mask!Outside, IsArray
  <1>4. DOMAIN b.data = 0 .. Size(b) - 1 /\ \A i \in DOMAIN b.data : i \in Nat /\ b.data[i] \in Int
    BY <1>1, <1>2, <1>3
  <1>5. IsArray(b)
    BY <1>1, <1>4 DEF IsArray
  <1> QED
    BY <1>4, <1>5 DEF b

\* The arrays that the mask plugin begins with.
LEMMA HeadIsArray == ASSUME QueueTypes, queue # <<>> PROVE IsArray(Head(queue))
  BY DEF QueueTypes, Arrays

LEMMA SpectrumIsArray ==
  ASSUME NEW n \in TofSizes PROVE IsArray([Extract(n, 0, n) EXCEPT !.proper = TRUE])
  <1>1. n \in Nat /\ IsArray(Extract(n, 0, n))
    BY PluginsAssumption, WidthFacts, ExtractIsArray
  <1> DEFINE a == Extract(n, 0, n)
             b == [a EXCEPT !.proper = TRUE]
  <1>2. b.nx = a.nx /\ b.ny = a.ny /\ b.first = a.first /\ b.data = a.data /\ b.proper = TRUE
    BY DEF Extract, NoArray
  <1> SUFFICES IsArray(b)
    OBVIOUS
  <1> HIDE DEF a, b
  <1>3. IsArray(a)
    BY <1>1 DEF a
  <1>4. b.proper \in BOOLEAN
    BY <1>2, Zenon
  <1>5. b.nx \in Nat /\ b.ny \in Nat /\ b.first \in Nat
    BY <1>2, <1>3 DEF IsArray
  <1>6. \A i \in DOMAIN b.data : i \in Nat /\ b.data[i] \in Int
    BY <1>2, <1>3, Zenon DEF IsArray
  <1> QED
    BY <1>4, <1>5, <1>6, Zenon DEF IsArray

LEMMA InitMaskTypes == Init => MaskTypes /\ MaskArrays
  <1> SUFFICES ASSUME Init PROVE MaskTypes /\ MaskArrays
    OBVIOUS
  <1>1. /\ maskPc = "idle" /\ maskNum = 0 /\ pMask = Mask!NoMask /\ applied = <<>>
        /\ maskIn = NoArray /\ maskOut = NoArray
    BY DEF Init, Mask!Init, Mask!NoArray, NoArray
  <1>2. ASSUME NEW k \in Mask!Masks PROVE Wide(maskParam[k])
    <2>1. maskParam[k] \in MaskConfigs
      BY DEF Init, Mask!Init
    <2>2. \A v \in Ints : v >= -Wrap
      BY WidthFacts DEF Ints
    <2> QED
      BY <2>1, <2>2, PluginsAssumption DEF Wide
  <1>3. MaskTypes
    BY <1>1, <1>2, PluginsAssumption DEF MaskTypes, Mask!Masks, Mask!NoMask
  <1>4. DrawsInside
    BY <1>1 DEF DrawsInside, NoArray, Size
  <1> QED
    BY <1>1, <1>3, <1>4, NoArrayIsArray DEF MaskArrays

\* A fetch: the mask fetched, j, is written back as it was fitted.
LEMMA FetchTypes ==
  ASSUME MaskInv, MaskTypes, NEW j \in Mask!Masks, NEW a, Sized(a), Mask!Fetch(j, a),
         maskOut'.ny = a.ny, Len(applied') <= j + 1
  PROVE  MaskTypes'
  <1>1. maskParam[j] \in Param /\ Wide(maskParam[j])
    BY DEF MaskInv, MaskTypes
  <1> DEFINE m == Mask!Fit(maskParam[j], a)
  <1>2. /\ Wide(m) /\ m \in Param /\ m.posX \in Nat /\ m.sizeX \in Nat
        /\ a.ny > 0 => m.posY \in Nat
    BY <1>1, FitIsWide DEF Sized
  <1>3. /\ maskNum' = j /\ pMask' = m /\ maskPc' = "draw"
        /\ maskParam' = [maskParam EXCEPT ![j] = m]
    BY DEF Mask!Fetch
  <1> HIDE DEF m
  <1>4. ASSUME NEW k \in Mask!Masks PROVE Wide(maskParam'[k])
    <2>1. CASE k = j
      BY <1>2, <1>3, <2>1 DEF MaskInv
    <2>2. CASE k # j
      BY <1>3, <2>2 DEF MaskInv, MaskTypes
    <2> QED
      BY <2>1, <2>2
  <1> QED
    BY <1>2, <1>3, <1>4 DEF MaskTypes, Wide

LEMMA PublishTypes == ASSUME MaskTypes, Mask!Publish PROVE MaskTypes'
  BY PluginsAssumption DEF Mask!Publish, Mask!NoMask, MaskTypes, Mask!Masks, Wide

LEMMA BeginTypes ==
  ASSUME MaskInv, MaskTypes, MaskArrays, NEW a, Sized(a), IsArray(a), Mask!Begin(a)
  PROVE  MaskTypes' /\ MaskArrays'
  <1>1. maskOut' = Mask!Copy(a) /\ maskOut'.ny = a.ny
    BY CopyShape DEF Mask!Begin
  <1>2. IsArray(maskOut)' /\ DrawsInside'
    BY <1>1, CopyIsArray DEF IsArray, DrawsInside, Size
  <1>3. CASE Mask!NextUsed(0) = {}
    <2>1. Mask!Publish
      BY <1>3 DEF Mask!Begin
    <2>2. maskIn' = NoArray
      BY <2>1 DEF Mask!Publish, Mask!NoArray, NoArray
    <2>3. IsArray(maskIn)'
      BY <2>2, NoArrayIsArray DEF IsArray
    <2> QED
      BY <1>2, <2>1, <2>3, PublishTypes DEF MaskArrays
  <1>4. CASE Mask!NextUsed(0) # {}
    <2>1. PICK j \in Mask!NextUsed(0) :
            maskIn' = Mask!Copy(a) /\ Mask!Fetch(j, a) /\ applied' = <<maskParam[j]>>
      BY <1>4 DEF Mask!Begin
    <2>2. j \in Mask!Masks /\ j \in Nat /\ Len(applied') = 1
      BY <2>1, PluginsAssumption DEF Mask!NextUsed, Mask!Masks
    <2>3. MaskTypes'
      BY <1>1, <2>1, <2>2, FetchTypes
    <2>4. IsArray(maskIn)'
      BY <1>1, <1>2, <2>1 DEF IsArray
    <2> QED
      BY <1>2, <2>3, <2>4 DEF MaskArrays
  <1> QED
    BY <1>3, <1>4

LEMMA DrawTypes ==
  ASSUME MaskInv, MaskTypes, MaskArrays, Mask!Draw
  PROVE  MaskTypes' /\ MaskArrays'
  <1> DEFINE drawn == Mask!DrawnCells(pMask, maskOut)
  <1>1. /\ maskPc = "draw" /\ maskPc' = "drawn" /\ maskOut' = Mask!DoMask(maskOut, pMask)
        /\ UNCHANGED <<maskParam, maskNum, pMask, maskIn, applied>> /\ Sized(maskOut)
    BY DEF Mask!Draw, MaskInv
  <1>2. /\ maskOut'.nx = maskOut.nx /\ maskOut'.ny = maskOut.ny
        /\ maskOut'.first = maskOut.first /\ maskOut'.proper = maskOut.proper
        /\ maskOut'.data = [i \in DOMAIN maskOut.data \cup drawn |->
                             IF i \in drawn THEN Mask!Element(pMask.val) ELSE maskOut.data[i]]
    BY <1>1 DEF Mask!DoMask, Sized, Fields
  <1>3. MaskTypes'
    BY <1>1 DEF MaskTypes, Wide
  <1>4. drawn \subseteq 0 .. Size(maskOut) - 1 /\ Mask!Element(pMask.val) \in Int
    <2>1. /\ pMask \in Param /\ pMask.posX \in Nat
          /\ maskOut.ny > 0 => pMask.posY \in Nat
          /\ maskOut.nx \in Nat \ {0} /\ maskOut.ny \in Nat
      BY <1>1 DEF MaskTypes, Sized
    <2>2. drawn \subseteq Cells(maskOut)
      BY <2>1, DrawnInside
    <2>3. Cells(maskOut) = 0 .. Size(maskOut) - 1
      BY DEF Cells, Mask!Size, Size
    <2>4. Mask!Element(pMask.val) \in Int
      BY <2>1, ElementIsAsked DEF Param
    <2> QED
      BY <2>2, <2>3, <2>4
  <1> HIDE DEF drawn
  <1>5. DOMAIN maskOut'.data = 0 .. Size(maskOut) - 1
    BY <1>2, <1>4 DEF MaskArrays, DrawsInside
  <1>6. DrawsInside'
    BY <1>2, <1>5 DEF DrawsInside, Size
  <1>7. ASSUME NEW i \in DOMAIN maskOut'.data PROVE i \in Nat /\ maskOut'.data[i] \in Int
    <2>1. i \in DOMAIN maskOut.data
      BY <1>5 DEF MaskArrays, DrawsInside
    <2> QED
      BY <1>2, <1>4, <2>1 DEF MaskArrays, IsArray
  <1>8. IsArray(maskOut)'
    BY <1>2, <1>7 DEF MaskArrays, IsArray
  <1>9. IsArray(maskIn)'
    BY <1>1 DEF MaskArrays, IsArray
  <1> QED
    BY <1>3, <1>6, <1>8, <1>9 DEF MaskArrays

LEMMA ResumeTypes ==
  ASSUME MaskInv, MaskTypes, MaskArrays, Mask!Resume
  PROVE  MaskTypes' /\ MaskArrays'
  <1>1. UNCHANGED maskOut /\ maskPc = "drawn"
    BY DEF Mask!Resume
  <1>2. IsArray(maskOut)' /\ DrawsInside'
    BY <1>1 DEF MaskArrays, IsArray, DrawsInside, Size
  <1>3. CASE Mask!NextUsed(maskNum + 1) = {}
    <2>1. Mask!Publish
      BY <1>3 DEF Mask!Resume
    <2>2. maskIn' = NoArray
      BY <2>1 DEF Mask!Publish, Mask!NoArray, NoArray
    <2>3. IsArray(maskIn)'
      BY <2>2, NoArrayIsArray DEF IsArray
    <2> QED
      BY <1>2, <2>1, <2>3, PublishTypes DEF MaskArrays
  <1>4. CASE Mask!NextUsed(maskNum + 1) # {}
    <2>1. PICK j \in Mask!NextUsed(maskNum + 1) :
            /\ Mask!Fetch(j, maskIn) /\ applied' = Append(applied, maskParam[j])
            /\ UNCHANGED maskIn
      BY <1>4 DEF Mask!Resume
    <2>2. /\ j \in Mask!Masks /\ j \in Nat /\ j >= maskNum + 1 /\ maskNum \in Nat
          /\ maskParam[j] \in Param
      BY PluginsAssumption DEF Mask!NextUsed, Mask!Masks, MaskTypes, MaskInv
    <2>3. applied \in Seq(Param) /\ Len(applied) <= maskNum + 1
      BY <1>1 DEF MaskInv, MaskTypes
    <2>4. Len(applied') = Len(applied) + 1 /\ Len(applied) \in Nat
      BY <2>1, <2>2, <2>3, AppendProperties
    <2>5. Len(applied') <= j + 1
      BY <2>2, <2>3, <2>4
    <2>6. Sized(maskIn) /\ maskOut'.ny = maskIn.ny
      BY <1>1 DEF MaskInv
    <2>7. MaskTypes'
      BY <2>1, <2>2, <2>5, <2>6, FetchTypes
    <2>8. IsArray(maskIn)'
      BY <2>1 DEF MaskArrays, IsArray
    <2> QED
      BY <1>2, <2>7, <2>8 DEF MaskArrays
  <1> QED
    BY <1>3, <1>4

LEMMA WriteTypes ==
  ASSUME MaskInv, MaskTypes, MaskArrays, WriteMask
  PROVE  MaskTypes' /\ MaskArrays'
  <1>1. PICK k \in Mask!Masks, w \in MaskWrites : Mask!Write(k, w[1], w[2])
    BY DEF WriteMask
  <1>2. w[1] \in {"use", "posX", "sizeX", "posY", "sizeY", "val", "type"} /\ w[2] >= -Wrap
    BY PluginsAssumption, WidthFacts DEF Ints
  <1>3. /\ maskParam' = [maskParam EXCEPT ![k] = [maskParam[k] EXCEPT ![w[1]] = w[2]]]
        /\ UNCHANGED <<maskPc, maskNum, pMask, maskIn, maskOut, applied>>
    BY <1>1 DEF Mask!Write
  <1>4. Wide([maskParam[k] EXCEPT ![w[1]] = w[2]])
    <2>1. maskParam[k] \in Param /\ Wide(maskParam[k])
      BY DEF MaskInv, MaskTypes
    <2> QED
      BY <1>2, <2>1 DEF Wide, Param
  <1>5. ASSUME NEW l \in Mask!Masks PROVE Wide(maskParam'[l])
    <2>1. CASE l = k
      BY <1>3, <1>4, <2>1 DEF MaskInv
    <2>2. CASE l # k
      BY <1>3, <2>2 DEF MaskInv, MaskTypes
    <2> QED
      BY <2>1, <2>2
  <1>6. MaskTypes'
    BY <1>3, <1>5 DEF MaskTypes, Wide
  <1> QED
    BY <1>3, <1>6 DEF MaskArrays, IsArray, DrawsInside, Size

LEMMA NextMaskTypes ==
  ASSUME MaskInv, QueueInv, QueueTypes, MaskTypes, MaskArrays, [Next]_vars
  PROVE  MaskTypes' /\ MaskArrays'
  <1>1. ASSUME UNCHANGED maskVars PROVE MaskTypes' /\ MaskArrays'
    BY <1>1 DEF maskVars, MaskTypes, MaskArrays, Wide, IsArray, DrawsInside, Size
  <1>2. CASE WriteMask
    BY <1>2, WriteTypes
  <1>3. CASE MaskBegins
    <2>1. CASE Mask!Begin(Head(queue))
      BY <1>3, <2>1, HeadSized, HeadIsArray, BeginTypes DEF MaskBegins
    <2>2. CASE Mask!CopyFails
      BY <2>2 DEF Mask!CopyFails, MaskTypes, MaskArrays, Wide, IsArray, DrawsInside, Size
    <2> QED
      BY <1>3, <2>1, <2>2 DEF MaskBegins
  <1>4. CASE Spectrum
    BY <1>4, SpectrumSized, SpectrumIsArray, BeginTypes DEF Spectrum
  <1>5. CASE MaskDraws
    BY <1>5, DrawTypes, ResumeTypes DEF MaskDraws
  <1>6. CASE WriteRoi \/ Frame \/ RoiConverts \/ RoiPublishes \/ UNCHANGED vars
    BY <1>1, <1>6 DEF WriteRoi, Frame, RoiConverts, RoiPublishes, vars
  <1> QED
    BY <1>2, <1>3, <1>4, <1>5, <1>6 DEF Next

TypeInv == RoiTypes /\ QueueTypes /\ MaskTypes /\ MaskArrays

LEMMA TypeInvariance == Spec => [](MaskInv /\ TypeInv)
  <1>1. Init => TypeInv
    BY InitRoiTypes, InitMaskTypes DEF TypeInv
  <1>2. RoiInv /\ MaskInv /\ QueueInv /\ TypeInv /\ [Next]_vars => TypeInv'
    BY NextRoiTypes, NextQueueTypes, NextMaskTypes DEF TypeInv
  <1> QED
    BY <1>1, <1>2, InitRoi, NextRoi, InitMask, NextQueue, NextMask, PTL DEF Spec

\* Every variable has its type: the corrected parameters are sizes although clients write
\* any int, the queue keeps its limit, and no array is drawn on by more masks than there
\* are, although masks are switched on and off while it is drawn.
THEOREM TypeCorrect == Spec => []TypeOK
  <1>1. MaskInv /\ TypeInv => TypeOK
    <2> SUFFICES ASSUME MaskInv, TypeInv PROVE TypeOK
      OBVIOUS
    <2>1. Len(applied) <= MaxMasks
      <3>1. MaxMasks \in Nat \ {0} /\ maskNum \in 0 .. MaxMasks - 1
        BY PluginsAssumption DEF TypeInv, MaskTypes, Mask!Masks
      <3>2. CASE maskPc \in {"draw", "drawn"}
        <4>1. Len(applied) \in Nat /\ Len(applied) <= maskNum + 1
          BY <3>2 DEF MaskInv, TypeInv, MaskTypes
        <4> QED
          BY <3>1, <4>1
      <3>3. CASE maskPc \notin {"draw", "drawn"}
        BY <3>1, <3>3 DEF TypeInv, MaskTypes
      <3> QED
        BY <3>2, <3>3
    <2>2. \A a \in {roiOut, maskIn, maskOut} : IsArray(a)
      BY Zenon DEF TypeInv, RoiTypes, MaskArrays
    <2> QED
      BY <2>1, <2>2, Zenon DEF TypeInv, RoiTypes, QueueTypes, MaskTypes, TypeOK
  <1> QED
    BY <1>1, TypeInvariance, PTL

\* doMask writes only cells that the array has, for every shape, every number of masks and
\* every int that clients write, since processCallbacks corrects the position first.
THEOREM DrawingStaysInside == Spec => []DrawsInside
  <1>1. TypeInv => DrawsInside
    BY DEF TypeInv, MaskArrays
  <1> QED
    BY <1>1, TypeInvariance, PTL
=============================================================================
