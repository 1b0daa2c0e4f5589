----------------------------- MODULE ADnEDTables -----------------------------
(***************************************************************************)
(* What writing the name of a file promises to those who look pixels up:   *)
(* a table is replaced as a whole, by all of the file that was named, or   *)
(* it is not replaced by anything.  What a failure leaves differs between  *)
(* the two kinds of table: a write to the pixel map first gives up the map *)
(* in use, a write to a transformation keeps the array in use and the name *)
(* that is shown for it.                                                   *)
(*                                                                         *)
(* Any write may fail, for want of memory or because of a stale errno, but *)
(* only a good file can succeed.  A name without a table gives up a map    *)
(* and is shown for a transformation, whose array stays.                   *)
(***************************************************************************)
EXTENDS Integers, Sequences

CONSTANTS
  Names,
  Good,     \* names of files that hold a table
  Empty,    \* names that stand for no table
  Table,    \* per name: the table of a good file
  Arrays    \* indices of the arrays of the transformation

VARIABLES
  limit,       \* the largest id that a map may have from now on
  map,         \* the pixel map in use, <<>> if there is none
  mapFile,     \* the name shown for it
  trans,       \* the arrays of the transformation in use
  transFile    \* the names shown for them

tableVars == <<limit, map, mapFile, trans, transFile>>

Init ==
  /\ limit = 0
  /\ map = <<>> /\ mapFile = " "
  /\ trans = [i \in Arrays |-> <<>>] /\ transFile = [i \in Arrays |-> " "]

SetLimit == limit' \in Nat /\ UNCHANGED <<map, mapFile, trans, transFile>>

LoadMap(name) ==
  /\ name \in Good
  /\ \A k \in 1 .. Len(Table[name]) : Table[name][k] <= limit
  /\ map' = Table[name] /\ mapFile' = name
  /\ UNCHANGED <<limit, trans, transFile>>

\* The file is good and the map is not: the name shown stays as well.
RefuseMap(name) ==
  /\ name \in Good
  /\ \E k \in 1 .. Len(Table[name]) : Table[name][k] > limit
  /\ map' = <<>>
  /\ UNCHANGED <<limit, mapFile, trans, transFile>>

LoseMap(name) ==
  /\ map' = <<>> /\ mapFile' = name
  /\ UNCHANGED <<limit, trans, transFile>>

LoadTrans(i, name) ==
  /\ name \in Good
  /\ trans' = [trans EXCEPT ![i] = Table[name]]
  /\ transFile' = [transFile EXCEPT ![i] = name]
  /\ UNCHANGED <<limit, map, mapFile>>

ShowTrans(i, name) ==
  /\ name \in Empty
  /\ transFile' = [transFile EXCEPT ![i] = name]
  /\ UNCHANGED <<limit, map, mapFile, trans>>

Next ==
  \/ SetLimit
  \/ \E name \in Names : LoadMap(name) \/ RefuseMap(name) \/ LoseMap(name)
  \/ \E i \in Arrays, name \in Names : LoadTrans(i, name) \/ ShowTrans(i, name)

Spec == Init /\ [][Next]_tableVars
=============================================================================
