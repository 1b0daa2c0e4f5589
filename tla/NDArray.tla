------------------------------- MODULE NDArray -------------------------------
(***************************************************************************)
(* The arrays that the plugins of ADnED pass on, and the arithmetic of     *)
(* their sizes.  NDArray and its pool belong to areaDetector's ADCore,     *)
(* which is not part of this repository: they are modelled as far as the   *)
(* plugins use them.                                                       *)
(***************************************************************************)
EXTENDS Integers

CONSTANTS
  MaxInt,   \* the largest int, 2^31 - 1 in the code, less in an instance
  Wrap      \* size_t holds 0 .. Wrap - 1, 2^64 in the code

ASSUME WidthAssumption ==
  /\ MaxInt \in Nat \ {0} /\ Wrap \in Nat /\ Wrap % 2 = 0
  /\ 4 * MaxInt * MaxInt < Wrap
  /\ Wrap % (2 * (MaxInt + 1)) = 0

Ints == -MaxInt - 1 .. MaxInt

\* An int parameter that is assigned to a size_t, and a size_t cast to int.
SizeT(i) == IF i < 0 THEN i + Wrap ELSE i
AsInt(s) == IF s >= Wrap \div 2 THEN s - Wrap ELSE s

Lesser(a, b)  == IF a < b THEN a ELSE b
Greater(a, b) == IF a > b THEN a ELSE b

\* What is found beyond the end of an array.
Outside == -1

(***************************************************************************)
(* An array of nx columns and ny rows, ny = 0 when it has one dimension.   *)
(* A cell holds Outside, the value of a mask, or the number of the cell of *)
(* the driver's frame that it was taken from.  History: first is the first *)
(* cell taken, and proper says that the plugin was asked for cells that    *)
(* the frame has and for a shape that these cells fill.                    *)
(***************************************************************************)
NoArray == [nx |-> 0, ny |-> 0, data |-> <<>>, first |-> 0, proper |-> FALSE]

Cell(a, i) == IF i \in DOMAIN a.data THEN a.data[i] ELSE Outside

Size(a) == IF a.ny = 0 THEN a.nx ELSE a.nx * a.ny

\* NDArrayPool::copy: a new array of the same shape.
Copy(a) == [a EXCEPT !.data = [i \in 0 .. Size(a) - 1 |-> Cell(a, i)]]

\* A frame of the driver, or a part of it, in one dimension.
Extract(n, first, size) ==
  [NoArray EXCEPT !.nx = size, !.first = first,
     !.data = [i \in 0 .. size - 1 |-> IF first + i < n THEN first + i ELSE Outside]]
=============================================================================
