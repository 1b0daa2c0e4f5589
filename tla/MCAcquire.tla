------------------------------ MODULE MCAcquire ------------------------------
(* Instances of ADnEDAcquire for TLC.                                       *)
EXTENDS ADnEDAcquire

\* A negative number, none, fewer than, as many as and more than MaxChannels.
MCNumChannels == {-1, 1, 2, 3}
=============================================================================
