------------------------------- MODULE MCFiles -------------------------------
(***************************************************************************)
(* An instance of ADnEDFiles for TLC: one file for each way in which the   *)
(* reading of a file can end.                                              *)
(***************************************************************************)
EXTENDS ADnEDFiles

Number(n) == [kind |-> "number", value |-> n]
Bad(k)    == [kind |-> k, value |-> 0]

Readable(header, lines) == [readable |-> TRUE, header |-> header, lines |-> lines]

MCFile ==
  [n \in {"", "missing", "zero", "text", "long", "short", "large", "space", "range",
           "headerText", "headerRange"} |->
     CASE n \in {"", "missing"} -> [readable |-> FALSE, header |-> Number(0), lines |-> <<>>]
       [] n = "zero"        -> Readable(Number(0), <<Number(1)>>)
       [] n = "text"        -> Readable(Number(2), <<Number(1), Bad("text")>>)
       [] n = "long"        -> Readable(Number(1), <<Number(1), Bad("space")>>)
       [] n = "short"       -> Readable(Number(3), <<Number(2), Number(1)>>)
       [] n = "large"       -> Readable(Number(2), <<Number(0), Number(3)>>)
       [] n = "space"       -> Readable(Number(1), <<Bad("space")>>)
       [] n = "range"       -> Readable(Number(2), <<Number(1), Bad("range")>>)
       [] n = "headerText"  -> Readable(Bad("text"), <<Number(1)>>)
       [] n = "headerRange" -> Readable(Bad("range"), <<Number(1)>>)]

MCNames == DOMAIN MCFile

\* "large" passes for 3, its largest id, and for -1, which as an unsigned number is the largest.
MCNumSizes == {-1, 2, 3}
=============================================================================
