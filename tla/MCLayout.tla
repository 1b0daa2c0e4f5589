------------------------------ MODULE MCLayout ------------------------------
(***************************************************************************)
(* An instance of ADnEDLayout for TLC.                                     *)
(***************************************************************************)
EXTENDS ADnEDLayout

\* The first detector may get a negative range, a range from a negative to a positive
\* pixel ID, one that ends before it starts, a size greater than its range, a size that
\* does not cover it, and a negative size.  The second may get a range that ends before it
\* starts, and a size that makes the layout too large for MaxInt beside the greater one of
\* the first.
MCStart == <<{-1}, {0, 1}>>
MCEnd == <<{-1, 1}, {}>>
MCSize == <<{-2, 8}, {3}>>

\* Fewer and more detectors than before, a negative number, and too many.
MCNumDet == {-1, 1, 2, 3}

MCTOFMax == {-1, 2}
=============================================================================
