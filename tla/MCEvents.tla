------------------------------ MODULE MCEvents -------------------------------
(***************************************************************************)
(* Instances of ADnEDEvents for TLC.  Three packets come on channel 0,     *)
(* which tells the pulses apart, with the sequence IDs 2, 3 (the mark of a *)
(* cleared channel) and 0; or the second of them is lost; or one packet    *)
(* comes on each of the channels 0 and 1.                                  *)
(***************************************************************************)
EXTENDS ADnEDEvents

\* The packets first of channel 0, and others of every other channel.
Packets(first, others) == [c \in Channels |-> IF c = 0 THEN first ELSE others]

MCArrivals == {Packets({1, 2, 3}, {}), Packets({1, 3}, {}), Packets({2}, {1})}
MCMaxTime  == [c \in Channels |-> IF c = 0 THEN 2 ELSE 1]
=============================================================================
