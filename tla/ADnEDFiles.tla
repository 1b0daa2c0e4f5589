----------------------------- MODULE ADnEDFiles -----------------------------
(***************************************************************************)
(* The tables that a detector reads from files: the pixel map and the      *)
(* arrays of the TOF transformation.  ADnEDFile reads a file,              *)
(* ADnED::writeOctet and checkPixelMap install it, ADnEDTransformBase      *)
(* keeps the arrays and ADnEDTransform looks pixels up in them.            *)
(*                                                                         *)
(* asyn calls writeOctet with the driver's mutex held, and eventHandler    *)
(* looks up under the same mutex, so that a write is one step.  A table is *)
(* a sequence; <<>> is the null pointer, because no table of size 0 is     *)
(* ever allocated.  A line is what ADnEDFile makes of it: a number (as     *)
(* converted), whitespace, text that is not a number, or a number out of   *)
(* the range of its type.                                                  *)
(*                                                                         *)
(* errno belongs to the port thread and nobody resets it.                  *)
(***************************************************************************)
EXTENDS Integers, Sequences

CONSTANTS
  Names,      \* the names that clients write; "" is the empty one, " " the initial one
  File,       \* per name: is it readable, its first line, its other lines
  MaxInt,     \* the largest int
  NumSizes,   \* values written to PixelNumSize
  Pixels      \* pixels looked up, from 0

LineKinds == {"number", "space", "text", "range"}
Lines == [kind : LineKinds, value : Nat]

ASSUME FilesAssumption ==
  /\ \A n \in Names : /\ File[n].readable \in BOOLEAN
                      /\ File[n].header \in Lines /\ File[n].header.kind # "space"
                      /\ File[n].lines \in Seq(Lines)
  /\ " " \notin Names
  /\ Pixels \subseteq Nat

ASSUME SizesAssumption == MaxInt \in Nat /\ NumSizes \subseteq -MaxInt - 1 .. MaxInt

VARIABLES
  pixelNumSize,    \* ADnEDDetPixelNumSizeParam
  p_PixelMap, m_PixelMapSize,
  p_Array, m_ArraySize,
  mapFile,         \* ADnEDDetPixelMapFileParam
  transFile,       \* ADnEDDetTOFTransFile0Param and the next
  erange           \* errno = ERANGE

vars == <<pixelNumSize, p_PixelMap, m_PixelMapSize, p_Array, m_ArraySize,
          mapFile, transFile, erange>>

\* The two arrays that transformations use.
TransIndex == {0, 1}

Null == <<>>

Init ==
  /\ pixelNumSize = 0
  /\ p_PixelMap = Null /\ m_PixelMapSize = 0
  /\ p_Array = [i \in TransIndex |-> Null] /\ m_ArraySize = [i \in TransIndex |-> 0]
  /\ mapFile = " " /\ transFile = [i \in TransIndex |-> " "]
  /\ erange = FALSE

-----------------------------------------------------------------------------
(* ADnEDFile.                                                              *)

\* The constructor: does it throw, m_Size, and errno afterwards.
Open(name) ==
  LET header == File[name].header
      range  == erange \/ header.kind = "range"
  IN IF name = "" THEN [throws |-> FALSE, size |-> 0, erange |-> erange]
     ELSE IF ~File[name].readable THEN [throws |-> TRUE, size |-> 0, erange |-> FALSE]
     ELSE [throws |-> range \/ header.kind = "text", size |-> header.value, erange |-> range]

\* One turn of the loop of readDataInto...Array; "stop" is its break.
ReadLine(size, reading, line) ==
  IF reading.outcome # "reading" THEN reading
  ELSE IF reading.index >= size THEN [reading EXCEPT !.outcome = "stop"]
  ELSE IF line.kind = "number"
       THEN [reading EXCEPT !.table[reading.index + 1] = line.value, !.index = @ + 1]
  ELSE [reading EXCEPT !.outcome = "throws", !.erange = (line.kind = "range")]

\* An array of zeros, and what becomes of it line by line.
Blank(size) == [table |-> [k \in 1 .. size |-> 0], index |-> 0,
                outcome |-> "reading", erange |-> FALSE]

AfterLines(name, size) ==
  LET after[k \in 0 .. Len(File[name].lines)] ==
        IF k = 0 THEN Blank(size) ELSE ReadLine(size, after[k - 1], File[name].lines[k])
  IN after

\* Read all lines; allocated says whether calloc succeeded.
ReadData(name, size, allocated) ==
  IF allocated THEN AfterLines(name, size)[Len(File[name].lines)]
  ELSE [table |-> Null, index |-> 0, outcome |-> "throws", erange |-> FALSE]

-----------------------------------------------------------------------------
(* writeOctet for the pixel map.                                           *)

\* static_cast<epicsUInt32>(detSizeValue): under a negative size every id passes.
LargestId == pixelNumSize % (2 * (MaxInt + 1))

\* Mutant: only the first value is compared.
MapAllowedFirst(table) == table[1] <= LargestId

\* checkPixelMap.  An id equal to the size passes too, although the message for the
\* others says "Must be less than".
MapAllowed(table) == \A k \in 1 .. Len(table) : table[k] <= LargestId

\* Mutant: a map that is loaded is not freed, and then reused.
FreedMapKept == [map |-> p_PixelMap, size |-> m_PixelMapSize]

\* The map that is loaded is freed before the file is opened.
FreedMap == [map |-> Null, size |-> IF p_PixelMap = Null THEN m_PixelMapSize ELSE 0]

\* A name without a table, which is not an error.
MapEmpty(name) ==
  /\ ~Open(name).throws /\ Open(name).size = 0
  /\ p_PixelMap' = FreedMap.map /\ m_PixelMapSize' = FreedMap.size
  /\ mapFile' = name
  /\ erange' = Open(name).erange

\* Mutant: the map that is loaded stays loaded when the file cannot be opened.
MapOpenThrowsKept(name) ==
  /\ Open(name).throws
  /\ UNCHANGED <<p_PixelMap, m_PixelMapSize>>
  /\ mapFile' = name
  /\ erange' = Open(name).erange

\* The file cannot be opened.  The exception leaves status at success, so the name is set.
MapOpenThrows(name) ==
  /\ Open(name).throws
  /\ p_PixelMap' = Null /\ m_PixelMapSize' = FreedMap.size
  /\ mapFile' = name
  /\ erange' = Open(name).erange

\* Mutant: what was read up to the exception stays loaded.
MapReadThrowsKept(name, allocated) ==
  LET reading == ReadData(name, Open(name).size, allocated)
  IN /\ ~Open(name).throws /\ Open(name).size # 0
     /\ reading.outcome = "throws"
     /\ p_PixelMap' = reading.table /\ m_PixelMapSize' = Open(name).size
     /\ mapFile' = name
     /\ erange' = reading.erange

\* The file ends in an exception half way: the map is freed, its size is not reset,
\* and again the name is set.
MapReadThrows(name, allocated) ==
  LET reading == ReadData(name, Open(name).size, allocated)
  IN /\ ~Open(name).throws /\ Open(name).size # 0
     /\ reading.outcome = "throws"
     /\ p_PixelMap' = Null /\ m_PixelMapSize' = Open(name).size
     /\ mapFile' = name
     /\ erange' = reading.erange
   
\* The file is read, into a new array if none is left (line 738), and stays loaded when
\* checkPixelMap allows it.
MapRead(name) ==
  LET reading == ReadData(name, Open(name).size, TRUE)
      table   == IF FreedMap.map = Null THEN reading.table ELSE FreedMap.map
  IN /\ ~Open(name).throws /\ Open(name).size # 0
     /\ reading.outcome # "throws"
     /\ IF MapAllowed(reading.table)
        THEN /\ p_PixelMap' = table /\ m_PixelMapSize' = Open(name).size
             /\ mapFile' = name
        ELSE /\ p_PixelMap' = Null /\ m_PixelMapSize' = 0
             /\ UNCHANGED mapFile
     /\ erange' = FALSE

WritePixelMapFile(name) ==
  /\ \/ MapEmpty(name)
     \/ MapOpenThrows(name)
     \/ \E allocated \in BOOLEAN : MapReadThrows(name, allocated)
     \/ MapRead(name)
  /\ UNCHANGED <<pixelNumSize, p_Array, m_ArraySize, transFile>>

-----------------------------------------------------------------------------
(* writeOctet for a file of the transformation.                            *)

\* Mutant: an array that is allocated already is not freed, and keeps its length.
SetDoubleArrayReuse(i, table) ==
  /\ p_Array' = [p_Array EXCEPT ![i] =
       IF @ = Null THEN table ELSE [k \in 1 .. Len(@) |-> IF k <= Len(table) THEN table[k] ELSE 0]]
  /\ m_ArraySize' = [m_ArraySize EXCEPT ![i] = Len(table)]

\* ADnEDTransformBase::setDoubleArray; the index and the size are never refused here.
SetDoubleArray(i, table) ==
  /\ p_Array' = [p_Array EXCEPT ![i] = table]
  /\ m_ArraySize' = [m_ArraySize EXCEPT ![i] = Len(table)]

\* A name without a table leaves the array as it is, and is not an error.
TransEmpty(i, name) ==
  /\ ~Open(name).throws /\ Open(name).size = 0
  /\ transFile' = [transFile EXCEPT ![i] = name]
  /\ erange' = Open(name).erange
  /\ UNCHANGED <<p_Array, m_ArraySize>>

\* Mutant: as for a pixel map, the exception does not fail the write.
TransThrowsUnnoticed(i, name, allocated) ==
  LET reading == ReadData(name, Open(name).size, allocated)
  IN /\ Open(name).throws \/ (Open(name).size # 0 /\ reading.outcome = "throws")
     /\ erange' = IF Open(name).throws THEN Open(name).erange ELSE reading.erange
     /\ transFile' = [transFile EXCEPT ![i] = name]
     /\ UNCHANGED <<p_Array, m_ArraySize>>

\* An exception, in the constructor or half way, fails the write.
TransThrows(i, name, allocated) ==
  LET reading == ReadData(name, Open(name).size, allocated)
  IN /\ Open(name).throws \/ (Open(name).size # 0 /\ reading.outcome = "throws")
     /\ erange' = IF Open(name).throws THEN Open(name).erange ELSE reading.erange
     /\ UNCHANGED <<p_Array, m_ArraySize, transFile>>

TransRead(i, name) ==
  LET reading == ReadData(name, Open(name).size, TRUE)
  IN /\ ~Open(name).throws /\ Open(name).size # 0
     /\ reading.outcome # "throws"
     /\ SetDoubleArray(i, reading.table)
     /\ transFile' = [transFile EXCEPT ![i] = name]
     /\ erange' = FALSE

WriteTransFile(i, name) ==
  /\ \/ TransEmpty(i, name)
     \/ \E allocated \in BOOLEAN : TransThrows(i, name, allocated)
     \/ TransRead(i, name)
  /\ UNCHANGED <<pixelNumSize, p_PixelMap, m_PixelMapSize, mapFile>>

-----------------------------------------------------------------------------
\* Refused during an acquisition, which this module does not have; a map is not
\* checked again.
WritePixelNumSize ==
  /\ pixelNumSize' \in NumSizes
  /\ UNCHANGED <<p_PixelMap, m_PixelMapSize, p_Array, m_ArraySize, mapFile, transFile,
                 erange>>

\* Another library call of the port thread fails and sets errno.
OtherErrno ==
  /\ erange' = FALSE
  /\ UNCHANGED <<pixelNumSize, p_PixelMap, m_PixelMapSize, p_Array, m_ArraySize, mapFile,
                 transFile>>

Next ==
  \/ \E name \in Names : WritePixelMapFile(name)
  \/ \E i \in TransIndex, name \in Names : WriteTransFile(i, name)
  \/ WritePixelNumSize
  \/ OtherErrno

Spec == Init /\ [][Next]_vars

-----------------------------------------------------------------------------
(* ADnEDTransform: the elements <<array, pixel>> that a calculation reads. *)

\* Type 1, calc_dspace_static.
DspaceReads(pixel) ==
  IF p_Array[0] # Null /\ pixel < m_ArraySize[0] THEN {<<0, pixel>>} ELSE {}

\* Type 3, calc_deltaE, which has no test of the pixel; an energy of 0 ends it before
\* the second array is read.
DeltaEReads(pixel) ==
  IF p_Array[0] = Null \/ p_Array[1] = Null THEN {}
  ELSE IF pixel < Len(p_Array[0]) /\ p_Array[0][pixel + 1] <= 0 THEN {<<0, pixel>>}
  ELSE {<<0, pixel>>, <<1, pixel>>}

-----------------------------------------------------------------------------
(* Properties.                                                             *)

Tables == {p_PixelMap} \cup {p_Array[i] : i \in TransIndex}

\* Every variable has its type.
TypeOK ==
  /\ pixelNumSize \in Int /\ m_PixelMapSize \in Nat
  /\ \A table \in Tables : table \in Seq(Nat)
  /\ m_ArraySize \in [TransIndex -> Nat]
  /\ mapFile \in Names \cup {" "} /\ transFile \in [TransIndex -> Names \cup {" "}]
  /\ erange \in BOOLEAN

\* What a file says: as many values as its first line declares.  A file with fewer
\* lines than that is not refused; its missing values are 0.
Contents(name) ==
  [k \in 1 .. File[name].header.value |->
     IF k <= Len(File[name].lines) THEN File[name].lines[k].value ELSE 0]

\* All that is read of a file consists of numbers.
WellFormed(name) ==
  /\ File[name].readable /\ File[name].header.kind = "number"
  /\ \A k \in 1 .. Len(File[name].lines) :
       k <= File[name].header.value => File[name].lines[k].kind = "number"

\* A table in use is the whole of a well-formed file, whatever files failed before it,
\* after it or half way: nothing of a file that was refused is ever used.
NoPartialTable ==
  \A table \in Tables \ {Null} : \E n \in Names \ {""} : WellFormed(n) /\ table = Contents(n)

\* The sizes that printPixelMap, checkPixelMap, printParams and the transformations
\* trust are those of the arrays, although a failed map leaves its size behind.
SizesMatch ==
  /\ p_PixelMap # Null => m_PixelMapSize = Len(p_PixelMap)
  /\ \A i \in TransIndex : m_ArraySize[i] = Len(p_Array[i])

\* The map in use is the one whose name is shown, although the name is also set when a
\* load fails, and stays when a map is refused: no sequence of good, failed and refused
\* loads leaves the map of one file under the name of another.
ShownMapInUse ==
  p_PixelMap # Null => mapFile \in Names \ {""} /\ p_PixelMap = Contents(mapFile)

\* The file that a transformation shows is the one in use, unless it has no table: a
\* refused file changes neither, in any sequence of writes.
ShownTransInUse ==
  \A i \in TransIndex :
    transFile[i] \in Names \ {""} /\ File[transFile[i]].header.value # 0 =>
      p_Array[i] = Contents(transFile[i])

\* A transformation reads inside its arrays: d-spacing for every pixel, the energy
\* transfer for the pixels that both of the files shown cover.
ReadsInside ==
  LET cells == {c \in TransIndex \X Pixels : c[2] < Len(p_Array[c[1]])}
      covers(i, p) == transFile[i] \in Names \ {""} /\ p < File[transFile[i]].header.value
  IN \A p \in Pixels :
       /\ DspaceReads(p) \subseteq cells
       /\ (\A i \in TransIndex : covers(i, p)) => DeltaEReads(p) \subseteq cells
-----------------------------------------------------------------------------
(* What a write promises: the contract of ADnEDTables.                     *)

\* Files that hold a table, and names that stand for none.
TableFiles == {n \in Names \ {""} : WellFormed(n) /\ File[n].header.value # 0}
EmptyFiles == {n \in Names : n = "" \/ (WellFormed(n) /\ File[n].header.value = 0)}

Loading == INSTANCE ADnEDTables
             WITH Good <- TableFiles, Empty <- EmptyFiles,
                  Table <- [n \in Names |-> Contents(n)], Arrays <- TransIndex,
                  limit <- LargestId, map <- p_PixelMap, trans <- p_Array

\* A write installs all of the file that it names or nothing of it, whatever the stages
\* of reading, the sizes left behind and errno do in between: a map that cannot be
\* loaded is gone, an array that cannot be loaded is kept together with its name, and
\* no write touches a table other than its own.  The limit of a map is the size converted
\* to unsigned, and the limit itself is a legal id.
LoadsAsPromised == Loading!Spec
=============================================================================
