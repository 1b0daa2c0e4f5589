-------------------------- MODULE ADnEDFilesProofs --------------------------
(***************************************************************************)
(* The tables read from files, for all files and all names.                *)
(*                                                                         *)
(* An induction over the lines of a file is an argument about the least    *)
(* line for which a statement fails.                                       *)
(***************************************************************************)
EXTENDS ADnEDFiles, WellFoundedInduction, SequenceTheorems, TLAPS

LEMMA LeastLine ==
  ASSUME NEW S, S \subseteq Nat, S # {}
  PROVE  \E x \in S : \A y \in S : x <= y
  <1>1. PICK x \in S : \A y \in S : ~(<<y, x>> \in OpToRel(<, Nat))
    BY NatLessThanWellFounded, WFMin, Zenon
  <1>2. \A y \in S : ~(y < x)
    BY <1>1 DEF OpToRel
  <1> QED
    BY <1>2

-----------------------------------------------------------------------------
(* Reading a file.                                                         *)

\* The definition of AfterLines does what it says: there is such a function.
LEMMA AfterLinesEquation ==
  ASSUME NEW name, NEW size, Len(File[name].lines) \in Nat
  PROVE  \A k \in 0 .. Len(File[name].lines) :
           AfterLines(name, size)[k] =
             IF k = 0 THEN Blank(size)
             ELSE ReadLine(size, AfterLines(name, size)[k - 1], File[name].lines[k])
  <1> DEFINE lines == File[name].lines
             Reads(f, n) == f = [k \in 0 .. n |-> IF k = 0 THEN Blank(size)
                                                  ELSE ReadLine(size, f[k - 1], lines[k])]
             Without == {n \in Nat : ~ \E f : Reads(f, n)}
  <1>1. Without = {}
    <2> SUFFICES ASSUME Without # {} PROVE FALSE
      OBVIOUS
    <2>1. PICK n \in Without : \A m \in Without : n <= m
      <3>1. Without \subseteq Nat
        OBVIOUS
      <3> HIDE DEF Without
      <3> QED
        BY <3>1, LeastLine
    <2>2. n \in Nat /\ ~ \E f : Reads(f, n)
      BY <2>1
    <2>3. CASE n = 0
      <3> DEFINE first == [k \in 0 .. 0 |-> Blank(size)]
      <3>1. Reads(first, 0)
        OBVIOUS
      <3> HIDE DEF Reads, first
      <3> QED
        BY <2>2, <2>3, <3>1
    <2>4. CASE n # 0
      <3>1. n - 1 \in Nat /\ n - 1 \notin Without
        <4> HIDE DEF Without
        <4> QED
          BY <2>1, <2>2, <2>4
      <3>2. PICK f : Reads(f, n - 1)
        BY <3>1
      <3> DEFINE g == [k \in 0 .. n |-> IF k = 0 THEN Blank(size)
                                        ELSE ReadLine(size, f[k - 1], lines[k])]
      <3>3. \A k \in 0 .. n - 1 : g[k] = f[k]
        BY <2>2, <3>2
      <3>4. \A k \in 1 .. n : g[k - 1] = f[k - 1]
        <4> HIDE DEF g
        <4> QED
          BY <2>2, <3>3
      <3>5. ASSUME NEW k \in 0 .. n
            PROVE  (IF k = 0 THEN Blank(size) ELSE ReadLine(size, f[k - 1], lines[k]))
                     = (IF k = 0 THEN Blank(size) ELSE ReadLine(size, g[k - 1], lines[k]))
        <4> HIDE DEF g, lines
        <4>1. CASE k = 0
          BY <4>1
        <4>2. CASE k # 0
          <5>1. k \in 1 .. n
            BY <2>2, <4>2
          <5>2. g[k - 1] = f[k - 1]
            BY <3>4, <5>1
          <5> QED
            BY <4>2, <5>2
        <4> QED
          BY <4>1, <4>2
      <3>6. Reads(g, n)
        BY <3>5, Zenon
      <3> HIDE DEF g, Reads
      <3> QED
        BY <2>2, <3>6
    <2> QED
      BY <2>3, <2>4
  <1>2. \E f : Reads(f, Len(lines))
    BY <1>1
  <1>3. AfterLines(name, size) = CHOOSE f : Reads(f, Len(lines))
    BY DEF AfterLines
  <1> HIDE DEF Reads
  <1>4. Reads(AfterLines(name, size), Len(lines))
    BY <1>2, <1>3
  <1> DEFINE after == AfterLines(name, size)
             steps == [k \in 0 .. Len(lines) |-> IF k = 0 THEN Blank(size)
                                                 ELSE ReadLine(size, after[k - 1], lines[k])]
  <1>5. after = steps
    BY <1>4 DEF Reads
  <1>6. \A k \in 0 .. Len(lines) :
          steps[k] = IF k = 0 THEN Blank(size) ELSE ReadLine(size, after[k - 1], lines[k])
    OBVIOUS
  <1> HIDE DEF after, steps
  <1>7. \A k \in 0 .. Len(lines) :
          after[k] = IF k = 0 THEN Blank(size) ELSE ReadLine(size, after[k - 1], lines[k])
    BY <1>5, <1>6
  <1> QED
    BY <1>7 DEF after

\* The table after k lines that are numbers.
Upto(name, size, k) ==
  [j \in 1 .. size |-> IF j <= k THEN File[name].lines[j].value ELSE 0]

Readings == [table : Seq(Nat), index : Nat, outcome : {"reading", "stop", "throws"},
             erange : BOOLEAN]

\* What is known of the reading after k lines.
ReadingInv(name, size, k, r) ==
  /\ r \in Readings
  /\ r.outcome = "reading" =>
       /\ r.index = k /\ k <= size /\ r.table = Upto(name, size, k)
       /\ \A j \in 1 .. k : File[name].lines[j].kind = "number"
  /\ r.outcome = "stop" =>
       /\ size <= k /\ r.table = Upto(name, size, size)
       /\ \A j \in 1 .. size : File[name].lines[j].kind = "number"

LEMMA LinesTypes ==
  ASSUME NEW name \in Names
  PROVE  /\ Len(File[name].lines) \in Nat
         /\ \A j \in 1 .. Len(File[name].lines) : File[name].lines[j] \in Lines
         /\ File[name].header \in Lines
  BY FilesAssumption, ElementOfSeq, LenProperties

LEMMA UptoSeq ==
  ASSUME NEW name \in Names, NEW size \in Nat, NEW k \in 0 .. Len(File[name].lines)
  PROVE  Upto(name, size, k) \in Seq(Nat) /\ Len(Upto(name, size, k)) = size
  <1>1. \A j \in 1 .. size : (IF j <= k THEN File[name].lines[j].value ELSE 0) \in Nat
    BY LinesTypes DEF Lines
  <1>2. Upto(name, size, k) \in [1 .. size -> Nat]
    BY <1>1 DEF Upto
  <1> QED
    BY <1>2

\* One line keeps ReadingInv.
LEMMA ReadLineInv ==
  ASSUME NEW name \in Names, NEW size \in Nat, NEW k \in 1 .. Len(File[name].lines), NEW r,
         ReadingInv(name, size, k - 1, r)
  PROVE  ReadingInv(name, size, k, ReadLine(size, r, File[name].lines[k]))
  <1> DEFINE line == File[name].lines[k]
             new == ReadLine(size, r, line)
  <1> SUFFICES ReadingInv(name, size, k, new)
    OBVIOUS
  <1>1. Len(File[name].lines) \in Nat /\ line \in Lines
    BY LinesTypes
  <1>2. k \in Nat /\ k - 1 \in Nat /\ k - 1 \in 0 .. Len(File[name].lines)
        /\ k \in 0 .. Len(File[name].lines)
    BY <1>1
  <1>3. r \in Readings
    BY DEF ReadingInv
  <1>4. CASE r.outcome # "reading"
    <2>1. new = r
      BY <1>4 DEF ReadLine
    <2>2. r.outcome = "stop" =>
            /\ size <= k /\ r.table = Upto(name, size, size)
            /\ \A j \in 1 .. size : File[name].lines[j].kind = "number"
      BY <1>2 DEF ReadingInv
    <2> QED
      BY <1>3, <1>4, <2>1, <2>2 DEF ReadingInv
  <1>5. CASE r.outcome = "reading"
    <2>1. /\ r.index = k - 1 /\ k - 1 <= size /\ r.table = Upto(name, size, k - 1)
          /\ \A j \in 1 .. k - 1 : File[name].lines[j].kind = "number"
      BY <1>5 DEF ReadingInv
    <2>2. CASE k - 1 >= size
      <3>1. new = [r EXCEPT !.outcome = "stop"]
        BY <1>5, <2>1, <2>2 DEF ReadLine
      <3>2. new \in Readings /\ new.outcome = "stop" /\ new.table = r.table
        BY <1>3, <3>1 DEF Readings
      <3>3. size = k - 1
        BY <1>2, <2>1, <2>2
      <3> HIDE DEF new
      <3> QED
        BY <1>2, <2>1, <3>2, <3>3 DEF ReadingInv
    <2>3. CASE ~(k - 1 >= size) /\ line.kind = "number"
      <3>1. new = [r EXCEPT !.table[k] = line.value, !.index = k]
        <4>1. new = [r EXCEPT !.table[r.index + 1] = line.value, !.index = @ + 1]
          BY <1>5, <2>1, <2>3 DEF ReadLine
        <4>2. r.index + 1 = k
          BY <1>2, <2>1
        <4> QED
          BY <1>3, <4>1, <4>2 DEF Readings
      <3>2. k \in 1 .. size
        BY <1>2, <2>3
      <3>3. [r.table EXCEPT ![k] = line.value] = Upto(name, size, k)
        <4>1. r.table = [j \in 1 .. size |-> IF j <= k - 1 THEN File[name].lines[j].value ELSE 0]
          BY <2>1 DEF Upto
        <4>2. \A j \in 1 .. size :
                (IF j = k THEN File[name].lines[k].value
                 ELSE IF j <= k - 1 THEN File[name].lines[j].value ELSE 0)
                = (IF j <= k THEN File[name].lines[j].value ELSE 0)
          BY <1>2
        <4> QED
          BY <3>2, <4>1, <4>2 DEF Upto
      <3>4. Upto(name, size, k) \in Seq(Nat)
        BY <1>2, UptoSeq
      <3>5. new \in Readings /\ new.outcome = "reading" /\ new.index = k
            /\ new.table = Upto(name, size, k)
        BY <1>2, <1>3, <1>5, <3>1, <3>3, <3>4 DEF Readings
      <3>6. \A j \in 1 .. k : File[name].lines[j].kind = "number"
        BY <1>2, <2>1, <2>3
      <3>7. k <= size
        BY <3>2
      <3> HIDE DEF new
      <3> QED
        BY <3>5, <3>6, <3>7 DEF ReadingInv
    <2>4. CASE ~(k - 1 >= size) /\ line.kind # "number"
      <3>1. new = [r EXCEPT !.outcome = "throws", !.erange = (line.kind = "range")]
        BY <1>5, <2>1, <2>4 DEF ReadLine
      <3>2. new \in Readings /\ new.outcome = "throws"
        BY <1>3, <3>1 DEF Readings
      <3> HIDE DEF new
      <3> QED
        BY <3>2 DEF ReadingInv
    <2> QED
      BY <2>2, <2>3, <2>4
  <1> QED
    BY <1>4, <1>5

LEMMA AfterLinesInv ==
  ASSUME NEW name \in Names, NEW size \in Nat
  PROVE  \A k \in 0 .. Len(File[name].lines) :
           ReadingInv(name, size, k, AfterLines(name, size)[k])
  <1> DEFINE after == AfterLines(name, size)
             last == Len(File[name].lines)
             Bad == {k \in 0 .. last : ~ReadingInv(name, size, k, after[k])}
  <1>0. last \in Nat
    BY LinesTypes
  <1>1. \A k \in 0 .. last :
          after[k] = IF k = 0 THEN Blank(size)
                     ELSE ReadLine(size, after[k - 1], File[name].lines[k])
    BY <1>0, AfterLinesEquation
  <1> SUFFICES ASSUME Bad # {} PROVE FALSE
    OBVIOUS
  <1> HIDE DEF after
  <1>2. Bad \subseteq Nat
    BY <1>0
  <1>3. PICK k \in Bad : \A j \in Bad : k <= j
    <2> HIDE DEF Bad
    <2> QED
      BY <1>2, LeastLine
  <1>4. k \in 0 .. last /\ ~ReadingInv(name, size, k, after[k])
    BY <1>3
  <1>5. CASE k = 0
    <2>1. after[0] = Blank(size)
      BY <1>0, <1>1
    <2>2. Upto(name, size, 0) \in Seq(Nat)
      BY <1>0, UptoSeq
    <2>3. Upto(name, size, 0) = [j \in 1 .. size |-> 0]
      BY DEF Upto
    <2>4. Blank(size) \in Readings
      BY <2>2, <2>3 DEF Blank, Readings
    <2>5. Blank(size).outcome = "reading" /\ Blank(size).index = 0
          /\ Blank(size).table = Upto(name, size, 0)
      BY <2>3 DEF Blank
    <2>6. ReadingInv(name, size, 0, Blank(size))
      BY <2>4, <2>5 DEF ReadingInv
    <2> QED
      BY <1>4, <1>5, <2>1, <2>6
  <1>6. CASE k # 0
    <2>1. k \in 1 .. last /\ k - 1 \in 0 .. last
      BY <1>0, <1>4, <1>6
    <2>2. k - 1 \notin Bad
      <3> HIDE DEF Bad
      <3> QED
        BY <1>0, <1>3, <2>1
    <2>3. ReadingInv(name, size, k - 1, after[k - 1])
      BY <2>1, <2>2
    <2>4. ReadingInv(name, size, k, ReadLine(size, after[k - 1], File[name].lines[k]))
      BY <2>1, <2>3, ReadLineInv
    <2>5. after[k] = ReadLine(size, after[k - 1], File[name].lines[k])
      BY <1>1, <1>4, <1>6
    <2> QED
      BY <1>4, <2>4, <2>5
  <1> QED
    BY <1>5, <1>6

\* What readDataIntoIntArray and readDataIntoDoubleArray give: a file without exception
\* is well-formed as far as it is read, and all of it is in the table.
LEMMA ReadDataGives ==
  ASSUME NEW name \in Names, NEW size \in Nat, NEW allocated \in BOOLEAN
  PROVE  LET reading == ReadData(name, size, allocated)
         IN /\ reading \in Readings
            /\ reading.outcome # "throws" =>
                 /\ reading.table = Upto(name, size, Len(File[name].lines))
                 /\ \A j \in 1 .. Len(File[name].lines) :
                      j <= size => File[name].lines[j].kind = "number"
  <1> DEFINE last == Len(File[name].lines)
             reading == ReadData(name, size, allocated)
  <1> SUFFICES /\ reading \in Readings
               /\ reading.outcome # "throws" =>
                    /\ reading.table = Upto(name, size, last)
                    /\ \A j \in 1 .. last : j <= size => File[name].lines[j].kind = "number"
    OBVIOUS
  <1>0. last \in Nat
    BY LinesTypes
  <1>1. CASE ~allocated
    <2>1. reading = [table |-> Null, index |-> 0, outcome |-> "throws", erange |-> FALSE]
      BY <1>1 DEF ReadData
    <2>2. Null \in Seq(Nat)
      BY EmptySeq DEF Null
    <2> HIDE DEF reading
    <2>3. reading \in Readings /\ reading.outcome = "throws"
      BY <2>1, <2>2 DEF Readings
    <2> QED
      BY <2>3
  <1>2. CASE allocated
    <2>1. ReadingInv(name, size, last, reading)
      <3>1. reading = AfterLines(name, size)[last]
        BY <1>2 DEF ReadData
      <3> HIDE DEF reading
      <3> QED
        BY <1>0, <3>1, AfterLinesInv
    <2> HIDE DEF reading
    <2>2. reading \in Readings
      BY <2>1 DEF ReadingInv
    <2>3. CASE reading.outcome = "reading"
      BY <2>1, <2>2, <2>3 DEF ReadingInv
    <2>4. CASE reading.outcome = "stop"
      <3>1. /\ size <= last /\ reading.table = Upto(name, size, size)
            /\ \A j \in 1 .. size : File[name].lines[j].kind = "number"
        BY <2>1, <2>4 DEF ReadingInv
      <3>2. Upto(name, size, size) = Upto(name, size, last)
        BY <1>0, <3>1 DEF Upto
      <3> QED
        BY <1>0, <2>2, <3>1, <3>2
    <2> QED
      BY <2>2, <2>3, <2>4 DEF Readings
  <1> QED
    BY <1>1, <1>2

LEMMA OpenGives ==
  ASSUME NEW name \in Names, erange \in BOOLEAN
  PROVE  /\ Open(name).size \in Nat
         /\ ~Open(name).throws /\ Open(name).size # 0 =>
              /\ name # "" /\ File[name].readable /\ File[name].header.kind = "number"
              /\ Open(name).size = File[name].header.value
         /\ ~Open(name).throws /\ Open(name).size = 0 =>
              \/ name = ""
              \/ /\ File[name].readable /\ File[name].header.kind = "number"
                 /\ File[name].header.value = 0
  <1>1. File[name].header \in Lines /\ File[name].header.kind # "space"
    BY FilesAssumption
  <1>2. File[name].header.kind \in {"number", "text", "range"} /\ File[name].header.value \in Nat
    BY <1>1 DEF Lines, LineKinds
  <1>3. CASE name = ""
    <2>1. Open(name).size = 0
      BY <1>3 DEF Open
    <2>2. Open(name).size \in Nat
      BY <2>1
    <2> QED
      BY <1>3, <2>1, <2>2, Zenon
  <1>4. CASE name # "" /\ ~File[name].readable
    <2>1. Open(name).size = 0 /\ Open(name).throws
      BY <1>4 DEF Open
    <2> QED
      BY <2>1
  <1>5. CASE name # "" /\ File[name].readable
    <2> DEFINE kind == File[name].header.kind
               failed == (erange \/ kind = "range") \/ kind = "text"
               ranged == erange \/ kind = "range"
    <2>0. Open(name) =
            [throws |-> failed, size |-> File[name].header.value, erange |-> ranged]
      BY <1>5, Zenon DEF Open
    <2> HIDE DEF failed, ranged
    <2>1. Open(name).size = File[name].header.value
      BY <2>0
    <2>2. Open(name).throws = failed
      BY <2>0
    <2>3. kind = "range" \/ kind = "text" => Open(name).throws
      <3> HIDE DEF kind
      <3> QED
        BY <2>2, Zenon DEF failed
    <2> QED
      BY <1>2, <1>5, <2>1, <2>3
  <1> QED
    BY <1>3, <1>4, <1>5

LEMMA OpenErange ==
  ASSUME NEW name \in Names, erange \in BOOLEAN
  PROVE  Open(name).erange \in BOOLEAN
  BY DEF Open

\* A table that was read without exception is the contents of a well-formed file.
LEMMA ReadGood ==
  ASSUME NEW name \in Names, erange \in BOOLEAN,
         ~Open(name).throws, Open(name).size # 0,
         ReadData(name, Open(name).size, TRUE).outcome # "throws"
  PROVE  LET table == ReadData(name, Open(name).size, TRUE).table
         IN /\ name \in Names \ {""} /\ WellFormed(name)
            /\ table = Contents(name)
            /\ table \in Seq(Nat) /\ Len(table) = Open(name).size
  <1> DEFINE reading == ReadData(name, Open(name).size, TRUE)
             size == Open(name).size
  <1>1. /\ size \in Nat /\ name # "" /\ File[name].readable
        /\ File[name].header.kind = "number" /\ size = File[name].header.value
    BY OpenGives
  <1>2. /\ reading.table = Upto(name, size, Len(File[name].lines))
        /\ \A j \in 1 .. Len(File[name].lines) :
             j <= size => File[name].lines[j].kind = "number"
    BY <1>1, ReadDataGives
  <1>3. Len(File[name].lines) \in 0 .. Len(File[name].lines)
    BY LinesTypes
  <1>4. reading.table \in Seq(Nat) /\ Len(reading.table) = size
    BY <1>1, <1>2, <1>3, UptoSeq
  <1>5. WellFormed(name)
    BY <1>1, <1>2 DEF WellFormed
  <1>6. reading.table = Contents(name)
    BY <1>1, <1>2 DEF Upto, Contents
  <1> QED
    BY <1>1, <1>4, <1>5, <1>6

-----------------------------------------------------------------------------
(* The invariant.                                                          *)

\* A table is all of a well-formed file.
Whole(table) == \E n \in Names \ {""} : WellFormed(n) /\ table = Contents(n)

Values ==
  /\ pixelNumSize \in Int /\ m_PixelMapSize \in Nat
  /\ p_PixelMap \in Seq(Nat) /\ p_Array \in [TransIndex -> Seq(Nat)]
  /\ m_ArraySize \in [TransIndex -> Nat]
  /\ mapFile \in Names \cup {" "} /\ transFile \in [TransIndex -> Names \cup {" "}]

Flag == erange \in BOOLEAN

MapInv ==
  p_PixelMap # Null =>
    /\ Whole(p_PixelMap)
    /\ m_PixelMapSize = Len(p_PixelMap)
    /\ mapFile \in Names \ {""} /\ p_PixelMap = Contents(mapFile)

\* The array of a transformation, its size and the file shown agree.
ArrayInv(array, size, file) ==
  /\ array # Null => Whole(array)
  /\ size = Len(array)
  /\ file \in Names \ {""} /\ File[file].header.value # 0 => array = Contents(file)

TransInv == \A i \in TransIndex : ArrayInv(p_Array[i], m_ArraySize[i], transFile[i])

IInv == Values /\ Flag /\ MapInv /\ TransInv

LEMMA InitInv == Init => IInv
  <1> SUFFICES ASSUME Init PROVE IInv
    OBVIOUS
  <1>1. Flag
    BY Zenon DEF Init, Flag
  <1>2. Null \in Seq(Nat) /\ Len(Null) = 0
    BY EmptySeq DEF Null
  <1>3. Values
    <2>1. pixelNumSize \in Int
      <3>1. pixelNumSize = 0
        BY DEF Init
      <3> QED
        BY <3>1
    <2> QED
      BY <1>2, <2>1 DEF Init, Values
  <1>4. MapInv
    BY DEF Init, MapInv
  <1>5. ArrayInv(Null, 0, " ")
    BY <1>2, FilesAssumption DEF ArrayInv
  <1>6. TransInv
    BY <1>5 DEF Init, TransInv
  <1> QED
    BY <1>1, <1>3, <1>4, <1>6 DEF IInv

-----------------------------------------------------------------------------
(* The steps.                                                              *)

\* A map that is gone.
LEMMA NoMapInv == ASSUME p_PixelMap' = Null PROVE MapInv'
  BY DEF MapInv

LEMMA FreedIsNull == FreedMap.map = Null /\ (Values => FreedMap.size \in Nat)
  BY DEF FreedMap, Values

LEMMA ThrowsErange ==
  ASSUME NEW name \in Names, erange \in BOOLEAN, NEW allocated \in BOOLEAN
  PROVE  ReadData(name, Open(name).size, allocated).erange \in BOOLEAN
  <1>1. Open(name).size \in Nat
    BY OpenGives
  <1>2. ReadData(name, Open(name).size, allocated) \in Readings
    BY <1>1, ReadDataGives
  <1> QED
    BY <1>2 DEF Readings

LEMMA MapKeeps ==
  ASSUME IInv, NEW name \in Names, WritePixelMapFile(name)
  PROVE  IInv'
  <1>1. /\ Values /\ erange \in BOOLEAN /\ TransInv
        /\ UNCHANGED <<pixelNumSize, p_Array, m_ArraySize, transFile>>
    BY DEF IInv, Flag, WritePixelMapFile
  <1>2. TransInv'
    BY <1>1 DEF TransInv
  <1>3. Open(name).size \in Nat
    BY <1>1, OpenGives
  <1>4. Null \in Seq(Nat)
    BY EmptySeq DEF Null
  <1>5. SUFFICES Values' /\ Flag' /\ MapInv'
    BY <1>2 DEF IInv
  <1>6. CASE MapEmpty(name) \/ MapOpenThrows(name)
    <2>1. /\ p_PixelMap' = Null /\ m_PixelMapSize' \in Nat /\ mapFile' = name
      BY <1>1, <1>6, FreedIsNull DEF MapEmpty, MapOpenThrows
    <2>2. erange' = Open(name).erange
      BY <1>6 DEF MapEmpty, MapOpenThrows
    <2>3. Flag'
      BY <1>1, <2>2, OpenErange DEF Flag
    <2>4. Values'
      BY <1>1, <1>4, <2>1 DEF Values
    <2> QED
      BY <2>1, <2>3, <2>4, NoMapInv
  <1>7. ASSUME NEW allocated \in BOOLEAN, MapReadThrows(name, allocated)
        PROVE  Values' /\ Flag' /\ MapInv'
    <2>1. /\ p_PixelMap' = Null /\ m_PixelMapSize' \in Nat /\ mapFile' = name
      BY <1>3, <1>7 DEF MapReadThrows
    <2>2. erange' = ReadData(name, Open(name).size, allocated).erange
      BY <1>7 DEF MapReadThrows
    <2>3. Flag'
      BY <1>1, <2>2, ThrowsErange DEF Flag
    <2>4. Values'
      BY <1>1, <1>4, <2>1 DEF Values
    <2> QED
      BY <2>1, <2>3, <2>4, NoMapInv
  <1>8. CASE MapRead(name)
    <2> DEFINE reading == ReadData(name, Open(name).size, TRUE)
    <2>1. /\ ~Open(name).throws /\ Open(name).size # 0 /\ reading.outcome # "throws"
          /\ erange' = FALSE
      BY <1>8 DEF MapRead
    <2>2. /\ name \in Names \ {""} /\ WellFormed(name)
          /\ reading.table = Contents(name)
          /\ reading.table \in Seq(Nat) /\ Len(reading.table) = Open(name).size
      BY <1>1, <2>1, ReadGood
    <2>3. Flag'
      BY <2>1, Zenon DEF Flag
    <2>4. CASE MapAllowed(reading.table)
      <3>1. /\ p_PixelMap' = reading.table /\ m_PixelMapSize' = Open(name).size
            /\ mapFile' = name
        BY <1>8, <2>4, FreedIsNull DEF MapRead
      <3> HIDE DEF reading
      <3>3. Values'
        BY <1>1, <1>3, <2>2, <3>1 DEF Values
      <3>4. Whole(reading.table)
        BY <2>2 DEF Whole
      <3>5. MapInv'
        <4>1. Whole(p_PixelMap') /\ p_PixelMap' = Contents(mapFile')
          BY <2>2, <3>1, <3>4
        <4>2. (Whole(p_PixelMap))' /\ p_PixelMap' = (Contents(mapFile))'
          BY <4>1 DEF Whole, WellFormed, Contents
        <4> QED
          BY <2>2, <3>1, <4>2 DEF MapInv
      <3> QED
        BY <2>3, <3>3, <3>5
    <2>5. CASE ~MapAllowed(reading.table)
      <3>1. p_PixelMap' = Null /\ m_PixelMapSize' = 0 /\ UNCHANGED mapFile
        BY <1>8, <2>5 DEF MapRead
      <3>2. Values'
        BY <1>1, <1>4, <3>1 DEF Values
      <3> QED
        BY <2>3, <3>1, <3>2, NoMapInv
    <2> QED
      BY <2>4, <2>5
  <1> QED
    BY <1>6, <1>7, <1>8 DEF WritePixelMapFile

LEMMA TransKeeps ==
  ASSUME IInv, NEW i \in TransIndex, NEW name \in Names, WriteTransFile(i, name)
  PROVE  IInv'
  <1>1. /\ Values /\ erange \in BOOLEAN /\ MapInv /\ TransInv
        /\ UNCHANGED <<pixelNumSize, p_PixelMap, m_PixelMapSize, mapFile>>
    BY DEF IInv, Flag, WriteTransFile
  <1>2. MapInv'
    BY <1>1 DEF MapInv, Whole, WellFormed, Contents
  <1>3. Open(name).size \in Nat
    BY <1>1, OpenGives
  <1>4. SUFFICES Values' /\ Flag' /\ TransInv'
    BY <1>2 DEF IInv
  <1>5. CASE TransEmpty(i, name)
    <2>1. /\ ~Open(name).throws /\ Open(name).size = 0
          /\ transFile' = [transFile EXCEPT ![i] = name]
          /\ UNCHANGED <<p_Array, m_ArraySize>>
      BY <1>5 DEF TransEmpty
    <2>2. erange' = Open(name).erange
      BY <1>5 DEF TransEmpty
    <2>3. Flag'
      BY <1>1, <2>2, OpenErange DEF Flag
    <2>4. Values'
      BY <1>1, <2>1 DEF Values
    <2>5. name = "" \/ File[name].header.value = 0
      BY <1>1, <2>1, OpenGives
    <2>6. ASSUME NEW j \in TransIndex
          PROVE  ArrayInv(p_Array[j], m_ArraySize[j], transFile'[j])
      <3>1. ArrayInv(p_Array[j], m_ArraySize[j], transFile[j])
        BY <1>1 DEF TransInv
      <3>2. CASE j = i
        <4>1. transFile'[j] = name
          BY <1>1, <2>1, <3>2 DEF Values
        <4> QED
          BY <2>5, <3>1, <4>1 DEF ArrayInv
      <3>3. CASE j # i
        <4>1. transFile'[j] = transFile[j]
          BY <1>1, <2>1, <3>3 DEF Values
        <4> QED
          BY <3>1, <4>1
      <3> QED
        BY <3>2, <3>3
    <2>7. TransInv'
      BY <2>1, <2>6 DEF TransInv
    <2> QED
      BY <2>3, <2>4, <2>7
  <1>6. ASSUME NEW allocated \in BOOLEAN, TransThrows(i, name, allocated)
        PROVE  Values' /\ Flag' /\ TransInv'
    <2>1. UNCHANGED <<p_Array, m_ArraySize, transFile>>
      BY <1>6 DEF TransThrows
    <2>2. erange' = Open(name).erange
          \/ erange' = ReadData(name, Open(name).size, allocated).erange
      BY <1>6 DEF TransThrows
    <2>3. Flag'
      <3>1. Open(name).erange \in BOOLEAN
        BY <1>1, OpenErange
      <3>2. ReadData(name, Open(name).size, allocated).erange \in BOOLEAN
        BY <1>1, ThrowsErange
      <3> QED
        BY <2>2, <3>1, <3>2 DEF Flag
    <2>4. Values'
      BY <1>1, <2>1 DEF Values
    <2>5. TransInv'
      BY <1>1, <2>1 DEF TransInv
    <2> QED
      BY <2>3, <2>4, <2>5
  <1>7. CASE TransRead(i, name)
    <2> DEFINE table == ReadData(name, Open(name).size, TRUE).table
    <2>1. /\ ~Open(name).throws /\ Open(name).size # 0
          /\ ReadData(name, Open(name).size, TRUE).outcome # "throws"
          /\ p_Array' = [p_Array EXCEPT ![i] = table]
          /\ m_ArraySize' = [m_ArraySize EXCEPT ![i] = Len(table)]
          /\ transFile' = [transFile EXCEPT ![i] = name]
          /\ erange' = FALSE
      BY <1>7 DEF TransRead, SetDoubleArray
    <2>2. /\ name \in Names \ {""} /\ WellFormed(name) /\ table = Contents(name)
          /\ table \in Seq(Nat) /\ Len(table) = Open(name).size
      BY <1>1, <2>1, ReadGood
    <2> HIDE DEF table
    <2>3. Flag'
      BY <2>1, Zenon DEF Flag
    <2>4. Values'
      BY <1>1, <1>3, <2>1, <2>2 DEF Values
    <2>5. ArrayInv(table, Len(table), name)
      BY <2>2 DEF ArrayInv, Whole
    <2>6. ASSUME NEW j \in TransIndex
          PROVE  ArrayInv(p_Array'[j], m_ArraySize'[j], transFile'[j])
      <3>1. CASE j = i
        <4>1. p_Array'[j] = table /\ m_ArraySize'[j] = Len(table) /\ transFile'[j] = name
          BY <1>1, <2>1, <3>1 DEF Values
        <4> QED
          BY <2>5, <4>1
      <3>2. CASE j # i
        <4>1. p_Array'[j] = p_Array[j] /\ m_ArraySize'[j] = m_ArraySize[j]
              /\ transFile'[j] = transFile[j]
          BY <1>1, <2>1, <3>2 DEF Values
        <4> QED
          BY <1>1, <4>1 DEF TransInv
      <3> QED
        BY <3>1, <3>2
    <2>7. TransInv'
      BY <2>6 DEF TransInv
    <2> QED
      BY <2>3, <2>4, <2>7
  <1> QED
    BY <1>5, <1>6, <1>7 DEF WriteTransFile

LEMMA NextInv == IInv /\ [Next]_vars => IInv'
  <1> SUFFICES ASSUME IInv, [Next]_vars PROVE IInv'
    OBVIOUS
  <1>1. ASSUME NEW name \in Names, WritePixelMapFile(name) PROVE IInv'
    BY <1>1, MapKeeps
  <1>2. ASSUME NEW i \in TransIndex, NEW name \in Names, WriteTransFile(i, name) PROVE IInv'
    BY <1>2, TransKeeps
  <1>3. CASE WritePixelNumSize \/ OtherErrno \/ UNCHANGED vars
    <2>1. /\ UNCHANGED <<p_PixelMap, m_PixelMapSize, p_Array, m_ArraySize, mapFile, transFile>>
          /\ pixelNumSize' \in NumSizes \/ pixelNumSize' = pixelNumSize
      BY <1>3 DEF WritePixelNumSize, OtherErrno, vars
    <2>2. erange' = erange \/ erange' = FALSE
      BY <1>3 DEF WritePixelNumSize, OtherErrno, vars
    <2>3. Flag'
      BY <2>2, Zenon DEF IInv, Flag
    <2>4. pixelNumSize' \in Int
      <3>1. \A n \in NumSizes : n \in Int
        BY SizesAssumption
      <3> QED
        BY <2>1, <3>1 DEF IInv, Values
    <2>5. Values'
      BY <2>1, <2>4 DEF IInv, Values
    <2>6. MapInv' /\ TransInv'
      BY <2>1 DEF IInv, MapInv, TransInv, Whole, WellFormed, Contents
    <2> QED
      BY <2>3, <2>5, <2>6 DEF IInv
  <1> QED
    BY <1>1, <1>2, <1>3 DEF Next

LEMMA Invariance == Spec => []IInv
  BY InitInv, NextInv, PTL DEF Spec

-----------------------------------------------------------------------------
(* The properties.                                                         *)

\* Every variable has its type, for every file.
THEOREM TypeCorrect == Spec => []TypeOK
  <1>1. IInv => TypeOK
    <2> SUFFICES ASSUME IInv PROVE TypeOK
      OBVIOUS
    <2>1. \A table \in Tables : table \in Seq(Nat)
      BY DEF IInv, Values, Tables
    <2> QED
      BY <2>1 DEF IInv, Values, Flag, TypeOK
  <1> QED
    BY <1>1, Invariance, PTL

\* A table in use is the whole of a well-formed file, however many lines it has and
\* whatever else was written before.
THEOREM TablesAreWhole == Spec => []NoPartialTable
  <1>1. IInv => NoPartialTable
    BY DEF IInv, MapInv, TransInv, ArrayInv, Whole, Tables, NoPartialTable
  <1> QED
    BY <1>1, Invariance, PTL

\* The sizes that are trusted are those of the arrays.
THEOREM SizesAgree == Spec => []SizesMatch
  <1>1. IInv => SizesMatch
    BY DEF IInv, MapInv, TransInv, ArrayInv, SizesMatch
  <1> QED
    BY <1>1, Invariance, PTL

\* A map in use is all of the file whose name is shown, whatever loads failed or were
\* refused before.
THEOREM ShownMapIsInUse == Spec => []ShownMapInUse
  <1>1. IInv => ShownMapInUse
    BY DEF IInv, MapInv, ShownMapInUse
  <1> QED
    BY <1>1, Invariance, PTL

\* The file that a transformation shows is the one in use.
THEOREM ShownIsInUse == Spec => []ShownTransInUse
  <1>1. IInv => ShownTransInUse
    BY DEF IInv, TransInv, ArrayInv, ShownTransInUse
  <1> QED
    BY <1>1, Invariance, PTL

LEMMA ContentsLen ==
  ASSUME NEW name \in Names
  PROVE  Len(Contents(name)) = File[name].header.value
  <1>1. Len(File[name].lines) \in 0 .. Len(File[name].lines) /\ File[name].header.value \in Nat
    BY LinesTypes DEF Lines
  <1>2. Contents(name) = Upto(name, File[name].header.value, Len(File[name].lines))
    BY DEF Contents, Upto
  <1> QED
    BY <1>1, <1>2, UptoSeq

\* The calculation of d-spacing reads inside its array for every pixel, and that of the
\* energy transfer for the pixels that both of the files shown cover.  Of other pixels
\* nothing is said: calc_deltaE does not compare the pixel with the arrays.
THEOREM CoveredReadsAreInside == Spec => []ReadsInside
  <1>1. IInv => ReadsInside
    <2> DEFINE cells == {c \in TransIndex \X Pixels : c[2] < Len(p_Array[c[1]])}
               covers(i, p) == transFile[i] \in Names \ {""}
                               /\ p < File[transFile[i]].header.value
    <2> SUFFICES ASSUME IInv, NEW p \in Pixels
                 PROVE  /\ DspaceReads(p) \subseteq cells
                        /\ (\A i \in TransIndex : covers(i, p)) => DeltaEReads(p) \subseteq cells
      BY DEF ReadsInside
    <2>1. \A i \in TransIndex : ArrayInv(p_Array[i], m_ArraySize[i], transFile[i])
      BY DEF IInv, TransInv
    <2>2. p \in Nat /\ 0 \in TransIndex /\ 1 \in TransIndex
      BY FilesAssumption DEF TransIndex
    <2>3. DspaceReads(p) \subseteq cells
      <3>1. m_ArraySize[0] = Len(p_Array[0])
        BY <2>1, <2>2 DEF ArrayInv
      <3>2. p < Len(p_Array[0]) => <<0, p>> \in cells
        BY <2>2
      <3> HIDE DEF cells
      <3> QED
        BY <3>1, <3>2 DEF DspaceReads
    <2>4. ASSUME \A i \in TransIndex : covers(i, p)
          PROVE  DeltaEReads(p) \subseteq cells
      <3>1. ASSUME NEW i \in TransIndex PROVE <<i, p>> \in cells
        <4>1. transFile[i] \in Names \ {""} /\ p < File[transFile[i]].header.value
          BY <2>4
        <4>2. File[transFile[i]].header.value \in Nat
          <5>1. transFile[i] \in Names
            BY <4>1
          <5>2. File[transFile[i]].header \in Lines
            BY <5>1, LinesTypes
          <5> QED
            BY <5>2 DEF Lines
        <4>3. File[transFile[i]].header.value # 0
          <5> DEFINE size == File[transFile[i]].header.value
          <5>1. p \in Nat /\ size \in Nat /\ p < size
            BY <2>2, <4>1, <4>2
          <5> HIDE DEF size
          <5>2. size # 0
            BY <5>1
          <5> QED
            BY <5>2 DEF size
        <4>4. p_Array[i] = Contents(transFile[i])
          BY <2>1, <4>1, <4>3 DEF ArrayInv
        <4>5. Len(p_Array[i]) = File[transFile[i]].header.value
          <5>1. transFile[i] \in Names
            BY <4>1
          <5>2. Len(Contents(transFile[i])) = File[transFile[i]].header.value
            BY <5>1, ContentsLen
          <5> QED
            BY <4>4, <5>2
        <4> QED
          BY <4>1, <4>5
      <3>2. <<0, p>> \in cells /\ <<1, p>> \in cells
        BY <2>2, <3>1
      <3> HIDE DEF cells
      <3> QED
        BY <3>2 DEF DeltaEReads
    <2> QED
      BY <2>3, <2>4
  <1> QED
    BY <1>1, Invariance, PTL
-----------------------------------------------------------------------------
(* The contract of ADnEDTables.                                            *)

\* The size converted to unsigned is a natural number.
LEMMA LargestIdNat == ASSUME pixelNumSize \in Int PROVE LargestId \in Nat
  <1>1. 2 * (MaxInt + 1) \in Nat \ {0}
    BY SizesAssumption
  <1> QED
    BY <1>1 DEF LargestId

LEMMA InitLoads == Init => Loading!Init
  <1> SUFFICES ASSUME Init PROVE Loading!Init
    OBVIOUS
  <1>1. LargestId = 0
    <2>1. 2 * (MaxInt + 1) \in Nat \ {0}
      BY SizesAssumption
    <2> DEFINE w == 2 * (MaxInt + 1)
    <2>2. LargestId = 0 % w
      BY DEF Init, LargestId
    <2> HIDE DEF w
    <2>3. w \in Nat \ {0}
      BY <2>1 DEF w
    <2> QED
      BY <2>2, <2>3
  <1> QED
    BY <1>1 DEF Init, Loading!Init, Null

\* A file that is read without exception is one that holds a table.
LEMMA ReadIsTable ==
  ASSUME NEW name \in Names, erange \in BOOLEAN,
         ~Open(name).throws, Open(name).size # 0,
         ReadData(name, Open(name).size, TRUE).outcome # "throws"
  PROVE  /\ name \in TableFiles
         /\ ReadData(name, Open(name).size, TRUE).table = Contents(name)
  <1>1. File[name].header.value # 0
    BY OpenGives
  <1>2. /\ name \in Names \ {""} /\ WellFormed(name)
        /\ ReadData(name, Open(name).size, TRUE).table = Contents(name)
    BY ReadGood
  <1> QED
    BY <1>1, <1>2 DEF TableFiles

\* A name that ADnEDFile takes without exception and gives no size is an empty one.
LEMMA NoSizeIsEmpty ==
  ASSUME NEW name \in Names, erange \in BOOLEAN, ~Open(name).throws, Open(name).size = 0
  PROVE  name \in EmptyFiles
  <1>1. \/ name = ""
        \/ /\ File[name].readable /\ File[name].header.kind = "number"
           /\ File[name].header.value = 0
    BY OpenGives
  <1>2. Len(File[name].lines) \in Nat
    BY LinesTypes
  <1>3. File[name].header.value = 0 =>
          \A k \in 1 .. Len(File[name].lines) : ~(k <= File[name].header.value)
    BY <1>2
  <1> QED
    BY <1>1, <1>3 DEF EmptyFiles, WellFormed

LEMMA MapLoads ==
  ASSUME IInv, NEW name \in Names, WritePixelMapFile(name)
  PROVE  Loading!LoadMap(name) \/ Loading!RefuseMap(name) \/ Loading!LoseMap(name)
  <1>1. erange \in BOOLEAN /\ UNCHANGED <<LargestId, p_Array, transFile>>
    BY DEF IInv, Flag, WritePixelMapFile, LargestId
  <1>2. CASE \/ MapEmpty(name) \/ MapOpenThrows(name)
             \/ \E allocated \in BOOLEAN : MapReadThrows(name, allocated)
    <2>1. p_PixelMap' = <<>> /\ mapFile' = name
      BY <1>2 DEF MapEmpty, MapOpenThrows, MapReadThrows, FreedMap, Null
    <2> QED
      BY <1>1, <2>1 DEF Loading!LoseMap
  <1>3. CASE MapRead(name)
    <2> DEFINE table == ReadData(name, Open(name).size, TRUE).table
    <2>1. /\ ~Open(name).throws /\ Open(name).size # 0
          /\ ReadData(name, Open(name).size, TRUE).outcome # "throws"
      BY <1>3 DEF MapRead
    <2>2. name \in TableFiles /\ table = Contents(name)
      BY <1>1, <2>1, ReadIsTable
    <2>3. [n \in Names |-> Contents(n)][name] = table
      BY <2>2
    <2>4. CASE MapAllowed(table)
      <3>1. p_PixelMap' = table /\ mapFile' = name
        BY <1>3, <2>4 DEF MapRead, FreedMap
      <3>2. \A k \in 1 .. Len(table) : table[k] <= LargestId
        BY <2>4 DEF MapAllowed
      <3> HIDE DEF table
      <3> QED
        BY <1>1, <2>2, <2>3, <3>1, <3>2 DEF Loading!LoadMap
    <2>5. CASE ~MapAllowed(table)
      <3>1. p_PixelMap' = <<>> /\ mapFile' = mapFile
        BY <1>3, <2>5 DEF MapRead, Null
      <3>2. PICK k \in 1 .. Len(table) : ~(table[k] <= LargestId)
        BY <2>5 DEF MapAllowed
      <3>3. table[k] > LargestId
        <4>1. table \in Seq(Nat) /\ LargestId \in Nat
          BY <1>1, <2>1, ReadGood, LargestIdNat DEF IInv, Values
        <4>2. table[k] \in Nat
          <5> HIDE DEF table
          <5> QED
            BY <3>2, <4>1, ElementOfSeq
        <4> HIDE DEF table
        <4> QED
          BY <3>2, <4>1, <4>2
      <3> HIDE DEF table
      <3> QED
        BY <1>1, <2>2, <2>3, <3>1, <3>2, <3>3 DEF Loading!RefuseMap
    <2> QED
      BY <2>4, <2>5
  <1> QED
    BY <1>2, <1>3 DEF WritePixelMapFile

LEMMA TransLoads ==
  ASSUME IInv, NEW i \in TransIndex, NEW name \in Names, WriteTransFile(i, name)
  PROVE  \/ Loading!LoadTrans(i, name) \/ Loading!ShowTrans(i, name)
         \/ UNCHANGED Loading!tableVars
  <1>1. erange \in BOOLEAN /\ UNCHANGED <<LargestId, p_PixelMap, mapFile>>
    BY DEF IInv, Flag, WriteTransFile, LargestId
  <1>2. CASE TransEmpty(i, name)
    <2>1. name \in EmptyFiles
      BY <1>1, <1>2, NoSizeIsEmpty DEF TransEmpty
    <2> QED
      BY <1>1, <1>2, <2>1 DEF TransEmpty, Loading!ShowTrans
  <1>3. CASE \E allocated \in BOOLEAN : TransThrows(i, name, allocated)
    <2>1. UNCHANGED <<p_Array, transFile>>
      BY <1>3 DEF TransThrows
    <2> QED
      BY <1>1, <2>1 DEF Loading!tableVars
  <1>4. CASE TransRead(i, name)
    <2> DEFINE table == ReadData(name, Open(name).size, TRUE).table
    <2>1. /\ ~Open(name).throws /\ Open(name).size # 0
          /\ ReadData(name, Open(name).size, TRUE).outcome # "throws"
          /\ p_Array' = [p_Array EXCEPT ![i] = table]
          /\ transFile' = [transFile EXCEPT ![i] = name]
      BY <1>4 DEF TransRead, SetDoubleArray
    <2>2. name \in TableFiles /\ table = Contents(name)
      BY <1>1, <2>1, ReadIsTable
    <2>3. [n \in Names |-> Contents(n)][name] = table
      BY <2>2
    <2> HIDE DEF table
    <2> QED
      BY <1>1, <2>1, <2>2, <2>3 DEF Loading!LoadTrans
  <1> QED
    BY <1>2, <1>3, <1>4 DEF WriteTransFile

LEMMA NextLoads == IInv /\ [Next]_vars => [Loading!Next]_(Loading!tableVars)
  <1> SUFFICES ASSUME IInv, [Next]_vars PROVE [Loading!Next]_(Loading!tableVars)
    OBVIOUS
  <1>1. ASSUME NEW name \in Names, WritePixelMapFile(name) PROVE Loading!Next
    BY <1>1, MapLoads DEF Loading!Next
  <1>2. ASSUME NEW i \in TransIndex, NEW name \in Names, WriteTransFile(i, name)
        PROVE  Loading!Next \/ UNCHANGED Loading!tableVars
    BY <1>2, TransLoads DEF Loading!Next
  <1>3. CASE WritePixelNumSize
    <2>1. pixelNumSize' \in Int
      BY <1>3, SizesAssumption DEF WritePixelNumSize
    <2>2. LargestId' \in Nat
      <3>1. 2 * (MaxInt + 1) \in Nat \ {0}
        BY SizesAssumption
      <3> QED
        BY <2>1, <3>1 DEF LargestId
    <2> QED
      BY <1>3, <2>2 DEF WritePixelNumSize, Loading!Next, Loading!SetLimit
  <1>4. CASE OtherErrno \/ UNCHANGED vars
    BY <1>4 DEF OtherErrno, vars, Loading!tableVars, LargestId
  <1> QED
    BY <1>1, <1>2, <1>3, <1>4 DEF Next

\* Writing names of files keeps its promise, for every set of files: a table is replaced
\* by all of the file that was named or by nothing, and failures leave what they should.
THEOREM FilesImplementTables == Spec => LoadsAsPromised
  BY InitLoads, NextLoads, Invariance, PTL DEF Spec, LoadsAsPromised, Loading!Spec
=============================================================================
