-------------------------- MODULE ADnEDLayoutProofs --------------------------
(***************************************************************************)
(* The layout of the buffer, for any number of detectors, any width of the *)
(* integers, and all sizes, pixel ranges and TOF ranges that clients may   *)
(* write.                                                                  *)
(*                                                                         *)
(* An induction over detectors is an argument about the least detector for *)
(* which a statement fails.                                                *)
(***************************************************************************)
EXTENDS ADnEDLayout, WellFoundedInduction, TLAPS

LEMMA Least ==
  ASSUME NEW S, S \subseteq Nat, S # {}
  PROVE  \E x \in S : \A y \in S : x <= y
  <1>1. PICK x \in S : \A y \in S : ~(<<y, x>> \in OpToRel(<, Nat))
    BY NatLessThanWellFounded, WFMin, Zenon
  <1>2. \A y \in S : ~(y < x)
    BY <1>1 DEF OpToRel
  <1> QED
    BY <1>2

-----------------------------------------------------------------------------
(* The conversions.                                                        *)

LEMMA Multiple ==
  ASSUME NEW k \in Nat \ {0}, NEW d \in Int, -k < k * d, k * d < k PROVE d = 0
  <1>1. d >= 1 => k * d >= k
    OBVIOUS
  <1>2. d <= -1 => k * d <= -k
    OBVIOUS
  <1> QED
    BY <1>1, <1>2

LEMMA Remainder ==
  ASSUME NEW k \in Nat \ {0}, NEW q \in Int, NEW r \in 0 .. k - 1
  PROVE  (k * q + r) % k = r
  <1> DEFINE x == k * q + r
             p == x \div k
             t == x % k
  <1>1. k * q \in Int /\ x \in Int
    OBVIOUS
  <1>2. p \in Int /\ t \in 0 .. k - 1 /\ x = k * p + t
    BY <1>1
  <1>3. k * (p - q) = r - t
    <2>1. k * (p - q) = k * p - k * q
      BY <1>2
    <2> QED
      BY <2>1, <1>1, <1>2
  <1>4. p - q = 0
    BY <1>2, <1>3, Multiple
  <1> QED
    BY <1>2, <1>3, <1>4

LEMMA Widths ==
  /\ MaxInt \in Nat /\ Word \in Nat \ {0} /\ Word = MaxInt + MaxInt + 2
  /\ UInts = 0 .. Word - 1 /\ Ints = -(MaxInt + 1) .. MaxInt
  BY LayoutAssumption DEF Word, UInts, Ints

LEMMA Numbers ==
  /\ MaxInt \in Nat /\ Word = MaxInt + MaxInt + 2
  /\ \A n \in Ints : n \in Int /\ -(MaxInt + 1) <= n /\ n <= MaxInt
  /\ \A n \in UInts : n \in Int /\ 0 <= n /\ n < Word
  BY Widths

LEMMA Converted ==
  ASSUME NEW n \in Int
  PROVE  UInt(n) \in UInts /\ ToInt(n) \in Ints
  <1>1. n % Word \in 0 .. Word - 1
    BY Widths
  <1>2. UInt(n) \in 0 .. Word - 1
    BY <1>1 DEF UInt
  <1> QED
    BY <1>2, Widths DEF ToInt

\* An unsigned number is itself, and an int is itself once it is converted back.
LEMMA UIntSame ==
  ASSUME NEW n \in UInts
  PROVE  UInt(n) = n /\ UInt(n + Word) = n /\ UInt(n - Word) = n
  <1>1. n \in 0 .. Word - 1 /\ Word \in Nat \ {0}
    BY Widths
  <1>2. (Word * 0 + n) % Word = n
    BY <1>1, Remainder
  <1>3. (Word * 1 + n) % Word = n
    BY <1>1, Remainder
  <1>4. (Word * (-1) + n) % Word = n
    BY <1>1, Remainder
  <1>5. Word * 0 + n = n /\ Word * 1 + n = n + Word /\ Word * (-1) + n = n - Word
    BY <1>1
  <1> QED
    BY <1>2, <1>3, <1>4, <1>5 DEF UInt

LEMMA ToIntSame ==
  ASSUME NEW n \in 0 .. MaxInt
  PROVE  n \in UInts /\ UInt(n) = n /\ ToInt(n) = n /\ ToInt(n + Word) = n
  <1>1. n \in UInts /\ n \in Int /\ ~(n > MaxInt)
    BY Widths
  <1>2. UInt(n) = n /\ UInt(n + Word) = n
    BY <1>1, UIntSame
  <1> QED
    BY <1>1, <1>2 DEF ToInt

LEMMA UIntOfInt ==
  ASSUME NEW n \in Ints
  PROVE  UInt(n) = IF n < 0 THEN n + Word ELSE n
  <1>1. CASE n < 0
    <2>1. n + Word \in UInts /\ (n + Word) - Word = n
      BY <1>1, Widths
    <2> QED
      BY <1>1, <2>1, UIntSame
  <1>2. CASE ~(n < 0)
    <2>1. n \in UInts
      BY <1>2, Widths
    <2> QED
      BY <1>2, <2>1, UIntSame
  <1> QED
    BY <1>1, <1>2

-----------------------------------------------------------------------------
(* The sums of the detector sizes.                                         *)

\* The definition of DataSum does what it says: there is such a function.
LEMMA DataSumEquation ==
  DataSum = [d \in 0 .. MaxDets |-> IF d = 0 THEN 0 ELSE DataSum[d - 1] + DetSize(d)]
  <1> DEFINE Sums(f, n) == f = [d \in 0 .. n |-> IF d = 0 THEN 0 ELSE f[d - 1] + DetSize(d)]
             Without == {n \in Nat : ~ \E f : Sums(f, n)}
  <1>1. Without = {}
    <2> SUFFICES ASSUME Without # {} PROVE FALSE
      OBVIOUS
    <2>1. PICK n \in Without : \A m \in Without : n <= m
      <3>1. Without \subseteq Nat
        OBVIOUS
      <3> HIDE DEF Without
      <3> QED
        BY <3>1, Least
    <2>2. CASE n = 0
      <3> DEFINE zero == [d \in 0 .. 0 |-> 0]
      <3>1. Sums(zero, 0)
        OBVIOUS
      <3> HIDE DEF zero
      <3>2. \E f : Sums(f, 0)
        <4> HIDE DEF Sums
        <4> QED
          BY <3>1
      <3>3. ~ \E f : Sums(f, n)
        BY <2>1
      <3> HIDE DEF Sums, Without
      <3> QED
        BY <2>2, <3>2, <3>3
    <2>3. CASE n # 0
      <3>0. n \in Nat
        BY <2>1
      <3>1. n - 1 \in Nat /\ n - 1 \notin Without
        <4> HIDE DEF Without
        <4> QED
          BY <2>1, <2>3, <3>0
      <3>2. PICK f : Sums(f, n - 1)
        BY <3>1
      <3> DEFINE g == [d \in 0 .. n |-> IF d = 0 THEN 0 ELSE f[d - 1] + DetSize(d)]
      <3>3. \A d \in 0 .. n - 1 : g[d] = f[d]
        BY <2>1, <3>2
      <3>4. \A d \in 1 .. n : g[d - 1] = f[d - 1]
        <4> HIDE DEF g
        <4> QED
          BY <2>1, <3>3
      <3>5. g = [d \in 0 .. n |-> IF d = 0 THEN 0 ELSE g[d - 1] + DetSize(d)]
        <4>1. ASSUME NEW d \in 0 .. n
              PROVE  (IF d = 0 THEN 0 ELSE f[d - 1] + DetSize(d))
                        = (IF d = 0 THEN 0 ELSE g[d - 1] + DetSize(d))
          <5> HIDE DEF g
          <5>1. CASE d = 0
            BY <5>1
          <5>2. CASE d # 0
            <6>1. d \in 1 .. n
              BY <2>1, <5>2
            <6>2. g[d - 1] = f[d - 1]
              BY <3>4, <6>1
            <6> QED
              BY <5>2, <6>2
          <5> QED
            BY <5>1, <5>2
        <4> QED
          BY <4>1, Zenon
      <3> HIDE DEF g
      <3>6. Sums(g, n)
        BY <3>5
      <3> QED
        BY <2>1, <3>6
    <2> QED
      BY <2>2, <2>3
  <1>2. \E f : Sums(f, MaxDets)
    BY <1>1, LayoutAssumption
  <1>3. DataSum = CHOOSE f : Sums(f, MaxDets)
    BY DEF DataSum
  <1> HIDE DEF Sums
  <1>4. Sums(DataSum, MaxDets)
    BY <1>2, <1>3
  <1> QED
    BY <1>4 DEF Sums

LEMMA DataSumSteps ==
  /\ DataSum[0] = 0
  /\ \A d \in Dets : DataSum[d] = DataSum[d - 1] + DetSize(d)
  <1> DEFINE sums == [d \in 0 .. MaxDets |-> IF d = 0 THEN 0 ELSE DataSum[d - 1] + DetSize(d)]
  <1>1. \A d \in 0 .. MaxDets :
          sums[d] = IF d = 0 THEN 0 ELSE DataSum[d - 1] + DetSize(d)
    OBVIOUS
  <1>2. DataSum = sums
    BY DataSumEquation
  <1> HIDE DEF sums
  <1>3. \A d \in 0 .. MaxDets :
          DataSum[d] = IF d = 0 THEN 0 ELSE DataSum[d - 1] + DetSize(d)
    BY <1>1, <1>2
  <1> QED
    BY <1>3, LayoutAssumption DEF Dets

-----------------------------------------------------------------------------
(* The types, with the Boolean variables apart.                            *)

Flags == startEvent \in BOOLEAN /\ dataAlloc \in BOOLEAN /\ allocFits \in BOOLEAN

RangeRecord  == [start : Ints, end : Ints, size : Ints]
RegionRecord == [start : Ints, end : Ints, tofStart : Ints, tofEnd : Ints]

Values ==
  /\ ADStatus \in {"Idle", "Acquire", "Error"}
  /\ allocStatus \in {"Ok", "Required", "Failed"}
  /\ numDet \in Ints /\ numDet <= MaxDets /\ tofMax \in Ints
  /\ range \in [Dets -> RangeRecord]
  /\ region \in [Dets -> RegionRecord]
  /\ m_tofMax \in UInts /\ m_dataMaxSize \in UInts /\ m_bufferMaxSize \in UInts
  /\ capacity \in UInts \cup {NULL} /\ allocDet \in 0 .. MaxDets

LEMMA TypesTogether == Flags /\ Values <=> TypeOK
  BY DEF Flags, Values, TypeOK, RangeRecord, RegionRecord

LEMMA DetSizeTyped ==
  ASSUME Values, NEW d \in Dets
  PROVE  DetSize(d) \in Ints /\ DetSize(d) \in Int
  <1>1. range[d] \in RangeRecord
    BY DEF Values
  <1>2. range[d].start \in Int /\ range[d].end \in Int /\ range[d].size \in Ints
    BY <1>1, Widths DEF RangeRecord
  <1>3. ToInt(range[d].end - range[d].start + 1) \in Ints
    BY <1>2, Converted
  <1>4. DetSize(d) \in Ints
    BY <1>2, <1>3 DEF DetSize
  <1> QED
    BY <1>4, Widths

LEMMA DataSumInt ==
  ASSUME Values
  PROVE  \A d \in 0 .. MaxDets : DataSum[d] \in Int
  <1> DEFINE Bad == {d \in 0 .. MaxDets : DataSum[d] \notin Int}
  <1> SUFFICES ASSUME Bad # {} PROVE FALSE
    OBVIOUS
  <1>1. Bad \subseteq Nat
    BY LayoutAssumption
  <1>2. PICK d \in Bad : \A e \in Bad : d <= e
    <2> HIDE DEF Bad
    <2> QED
      BY <1>1, Least
  <1>3. d # 0
    BY <1>2, DataSumSteps
  <1>4. d \in Dets /\ d - 1 \in 0 .. MaxDets /\ d - 1 \notin Bad
    BY <1>2, <1>3, LayoutAssumption DEF Dets
  <1>5. DataSum[d - 1] \in Int /\ DetSize(d) \in Int
    BY <1>4, DetSizeTyped
  <1>6. DataSum[d] \in Int
    BY <1>4, <1>5, DataSumSteps
  <1> QED
    BY <1>2, <1>6

LEMMA ReachedDets ==
  ASSUME Values, NEW d \in Reached
  PROVE  /\ d \in Dets /\ d <= numDet /\ numDet \in Dets
         /\ DataSum[d - 1] \in Int /\ DataSum[d] \in Int /\ TofStart(d) \in Int
         /\ tofMax \in Int
  <1>1. d \in Dets /\ d <= numDet
    BY DEF Reached
  <1>2. numDet \in Int /\ numDet <= MaxDets /\ tofMax \in Int /\ MaxDets \in Nat
    BY Widths, LayoutAssumption DEF Values
  <1>3. /\ d - 1 \in 0 .. MaxDets /\ d \in 0 .. MaxDets /\ numDet \in 0 .. MaxDets
        /\ numDet \in Dets
    BY <1>1, <1>2 DEF Dets
  <1>4. DataSum[d - 1] \in Int /\ DataSum[d] \in Int /\ DataSum[numDet] \in Int
    BY <1>3, DataSumInt
  <1>5. (d - 1) * (tofMax + 1) \in Int
    <2> DEFINE a == d - 1
               k == tofMax + 1
    <2>1. a \in Int /\ k \in Int
      BY <1>2, <1>3
    <2> HIDE DEF a, k
    <2>2. a * k \in Int
      BY <2>1
    <2> QED
      BY <2>2 DEF a, k
  <1>6. TofStart(d) \in Int
    BY <1>4, <1>5 DEF TofStart
  <1> QED
    BY <1>1, <1>2, <1>3, <1>4, <1>6

-----------------------------------------------------------------------------
(* The sums of a layout that fits do not wrap.                             *)

LEMMA TimesMonotonic ==
  ASSUME NEW a \in Nat, NEW b \in Nat, NEW k \in Nat, a <= b
  PROVE  a * k \in Nat /\ b * k \in Nat /\ a * k <= b * k
  <1>1. PICK c \in Nat : b = a + c
    <2>1. b - a \in Nat /\ b = a + (b - a)
      OBVIOUS
    <2> QED
      BY <2>1
  <1>2. b * k = a * k + c * k
    BY <1>1
  <1>3. a * k \in Nat /\ c * k \in Nat
    BY <1>1
  <1> QED
    BY <1>2, <1>3

LEMMA TimesNext ==
  ASSUME NEW d \in Nat \ {0}, NEW k \in Nat
  PROVE  (d - 1) * k + k = d * k
  OBVIOUS

\* Sums of positive sizes grow.
LEMMA SumsGrow ==
  ASSUME NEW n \in Dets, \A d \in 1 .. n : DetSize(d) \in Nat
  PROVE  \A e \in 0 .. n : DataSum[e] \in Nat /\ \A d \in 0 .. e : DataSum[d] <= DataSum[e]
  <1> DEFINE Grown(e) == DataSum[e] \in Nat /\ \A d \in 0 .. e : DataSum[d] <= DataSum[e]
             Bad == {e \in 0 .. n : ~Grown(e)}
  <1> SUFFICES ASSUME Bad # {} PROVE FALSE
    OBVIOUS
  <1>0. n \in Nat /\ MaxDets \in Nat /\ n <= MaxDets
    BY LayoutAssumption DEF Dets
  <1>1. Bad \subseteq Nat
    BY <1>0
  <1>2. PICK e \in Bad : \A i \in Bad : e <= i
    <2> HIDE DEF Bad
    <2> QED
      BY <1>1, Least
  <1>3. Grown(0)
    <2>1. DataSum[0] = 0
      BY DataSumSteps
    <2>2. \A d \in 0 .. 0 : d = 0
      OBVIOUS
    <2> QED
      BY <2>1, <2>2
  <1>4. e \in 0 .. n /\ ~Grown(e) /\ e \in Nat
    BY <1>0, <1>2
  <1>5. e # 0
    <2> HIDE DEF Grown
    <2> QED
      BY <1>3, <1>4
  <1>6. e \in Dets /\ e \in 1 .. n /\ e - 1 \in 0 .. n /\ e - 1 \notin Bad
    <2>1. e \in Dets /\ e \in 1 .. n /\ e - 1 \in 0 .. n /\ e - 1 \in Nat /\ ~(e <= e - 1)
      BY <1>0, <1>4, <1>5 DEF Dets
    <2> HIDE DEF Bad
    <2> QED
      BY <1>2, <2>1
  <1>7. Grown(e - 1)
    <2> HIDE DEF Grown
    <2> QED
      BY <1>6
  <1>8. DataSum[e] = DataSum[e - 1] + DetSize(e) /\ DetSize(e) \in Nat
    BY <1>6, DataSumSteps
  <1>9. DataSum[e] \in Nat /\ DataSum[e - 1] <= DataSum[e]
    BY <1>7, <1>8
  <1>10. ASSUME NEW d \in 0 .. e PROVE DataSum[d] <= DataSum[e]
    <2>1. CASE d = e
      BY <1>9, <2>1
    <2>2. CASE d # e
      <3>1. d \in 0 .. e - 1
        BY <1>4, <2>2
      <3>2. DataSum[d] <= DataSum[e - 1] /\ e - 1 \in 0 .. n /\ d \in 0 .. n
        BY <1>4, <1>6, <1>7, <3>1
      <3>3. DataSum[d] \in Nat
        <4>1. d \notin Bad
          <5>1. d \in Nat /\ ~(e <= d)
            BY <1>4, <3>1
          <5> HIDE DEF Bad
          <5> QED
            BY <1>2, <5>1
        <4>2. Grown(d)
          <5> HIDE DEF Grown
          <5> QED
            BY <3>2, <4>1
        <4> QED
          BY <4>2
      <3> QED
        BY <1>7, <1>9, <3>2, <3>3
    <2> QED
      BY <2>1, <2>2
  <1> QED
    BY <1>4, <1>9, <1>10

LEMMA FitsSums ==
  ASSUME Values, numDet \in Dets, LayoutFits
  PROVE  /\ tofMax \in Nat /\ UInt(tofMax) = tofMax
         /\ DataSum[numDet] \in Nat
         /\ numDet * (tofMax + 1) \in Nat
         /\ DataSum[numDet] + numDet * (tofMax + 1) \in 0 .. MaxInt
         /\ \A d \in 1 .. numDet :
              /\ DetSize(d) \in Nat \ {0}
              /\ DataSum[d - 1] \in Nat /\ DataSum[d] \in Nat
              /\ DataSum[d] = DataSum[d - 1] + DetSize(d)
              /\ DataSum[d] <= DataSum[numDet]
              /\ (d - 1) * (tofMax + 1) \in Nat
              /\ (d - 1) * (tofMax + 1) + (tofMax + 1) <= numDet * (tofMax + 1)
  <1> DEFINE k == tofMax + 1
  <1>0. /\ numDet \in Nat \ {0} /\ numDet <= MaxDets /\ MaxDets \in Nat /\ tofMax \in Nat
        /\ k \in Nat \ {0}
    BY LayoutAssumption, Widths DEF Dets, LayoutFits, Values
  <1>1. \A d \in 1 .. numDet : d \in Dets /\ DetSize(d) \in Nat \ {0}
    <2> SUFFICES ASSUME NEW d \in 1 .. numDet PROVE d \in Dets /\ DetSize(d) \in Nat \ {0}
      OBVIOUS
    <2>1. d \in Dets /\ d <= numDet
      BY <1>0 DEF Dets
    <2>2. DetSize(d) \in Int /\ DetSize(d) > 0
      BY <2>1, DetSizeTyped DEF LayoutFits
    <2> QED
      BY <2>1, <2>2
  <1>2. \A e \in 0 .. numDet :
          DataSum[e] \in Nat /\ \A d \in 0 .. e : DataSum[d] <= DataSum[e]
    BY <1>1, SumsGrow
  <1>3. DataSum[numDet] \in Nat /\ \A d \in 0 .. numDet : DataSum[d] <= DataSum[numDet]
    BY <1>0, <1>2
  <1>4. numDet * k \in Nat /\ DataSum[numDet] + numDet * k <= MaxInt
    <2>1. numDet * k \in Nat
      BY <1>0, TimesMonotonic
    <2> QED
      BY <2>1 DEF LayoutFits
  <1>5. UInt(tofMax) = tofMax
    <2>1. 1 * k <= numDet * k /\ 1 * k = k
      BY <1>0, TimesMonotonic
    <2> DEFINE b == numDet * k
    <2>2. tofMax \in 0 .. MaxInt
      <3>1. b \in Nat /\ k <= b /\ DataSum[numDet] + b <= MaxInt
        BY <1>4, <2>1
      <3> HIDE DEF b
      <3> QED
        BY <1>0, <1>3, <3>1, Widths
    <2> QED
      BY <2>2, ToIntSame
  <1>6. ASSUME NEW d \in 1 .. numDet
        PROVE  /\ DataSum[d - 1] \in Nat /\ DataSum[d] \in Nat
               /\ DataSum[d] = DataSum[d - 1] + DetSize(d)
               /\ DataSum[d] <= DataSum[numDet]
               /\ (d - 1) * k \in Nat
               /\ (d - 1) * k + k <= numDet * k
    <2>1. d - 1 \in 0 .. numDet /\ d \in 0 .. numDet /\ d \in Nat \ {0} /\ d - 1 \in Nat
          /\ d <= numDet
      BY <1>0
    <2>2. DataSum[d] = DataSum[d - 1] + DetSize(d)
      BY <1>1, DataSumSteps
    <2> HIDE DEF k
    <2>3. (d - 1) * k \in Nat
      BY <1>0, <2>1, TimesMonotonic
    <2>4. (d - 1) * k + k = d * k
      BY <1>0, <2>1, TimesNext
    <2>5. d * k <= numDet * k
      BY <1>0, <2>1, TimesMonotonic
    <2> QED
      BY <1>2, <1>3, <2>1, <2>2, <2>3, <2>4, <2>5
  <1>7. DataSum[numDet] + numDet * k \in 0 .. MaxInt
    <2> DEFINE b == numDet * k
    <2>1. b \in Nat /\ DataSum[numDet] + b <= MaxInt
      BY <1>4
    <2> HIDE DEF b
    <2>2. DataSum[numDet] + b \in 0 .. MaxInt
      BY <1>3, <2>1, Widths
    <2> QED
      BY <2>2 DEF b
  <1> QED
    BY <1>0, <1>1, <1>3, <1>4, <1>5, <1>6, <1>7

-----------------------------------------------------------------------------
(* The invariant: what a layout in use looks like when it fits, and what   *)
(* the buffer and the status say of any.                                   *)

BoundsNat ==
  /\ allocDet # 0 /\ tofMax \in Nat /\ m_tofMax = tofMax /\ capacity \in 0 .. MaxInt
  /\ \A d \in 1 .. allocDet :
       /\ range[d].start <= range[d].end /\ range[d].size \in Nat \ {0}
       /\ region[d].start \in Nat /\ region[d].end \in Nat
       /\ region[d].tofStart \in Nat /\ region[d].tofEnd \in Nat

\* The pixel regions follow one another without a gap.
PixelsLaid ==
  /\ region[1].start = 0
  /\ \A d \in 1 .. allocDet : region[d].end = region[d].start + range[d].size - 1
  /\ \A d \in 1 .. allocDet - 1 : region[d + 1].start = region[d].end + 1

\* The TOF regions follow the pixel regions, m_tofMax + 1 cells each.
TofsLaid ==
  \A d \in 1 .. allocDet :
    /\ region[d].tofStart = region[allocDet].end + 1 + (d - 1) * (m_tofMax + 1)
    /\ region[d].tofEnd = region[d].tofStart + m_tofMax

Laid ==
  /\ BoundsNat
  /\ capacity = region[allocDet].end + 1 + allocDet * (m_tofMax + 1)
  /\ PixelsLaid
  /\ TofsLaid

LaidInv == dataAlloc = FALSE /\ allocFits = TRUE => Laid

StatusInv ==
  /\ dataAlloc = FALSE => allocStatus = "Ok" /\ capacity # NULL /\ m_tofMax = UInt(tofMax)
  /\ ADStatus = "Acquire" => dataAlloc = FALSE
  /\ capacity = NULL \/ capacity = m_bufferMaxSize

IInv == Flags /\ Values /\ LaidInv /\ StatusInv

LEMMA InitInv == Init => IInv
  <1> SUFFICES ASSUME Init PROVE IInv
    OBVIOUS
  <1>1. Flags /\ ~(dataAlloc = FALSE)
    BY Zenon DEF Init, Flags
  <1>2. Values
    <2>1. 0 \in Ints /\ 0 \in UInts /\ MaxDets \in Nat
      BY Widths, LayoutAssumption
    <2> QED
      BY <2>1 DEF Init, Values, Dets, RangeRecord, RegionRecord
  <1>3. ADStatus # "Acquire" /\ capacity = NULL
    BY DEF Init
  <1> QED
    BY <1>1, <1>2, <1>3 DEF IInv, LaidInv, StatusInv

-----------------------------------------------------------------------------
(* allocArray.                                                             *)

\* What the loop publishes has its type.
LEMMA SizesTyped ==
  ASSUME Values, PublishSizes
  PROVE  range' \in [Dets -> RangeRecord]
  <1> SUFFICES ASSUME NEW d \in Dets
               PROVE  (IF d \in Reached THEN [range[d] EXCEPT !.size = DetSize(d)] ELSE range[d])
                        \in RangeRecord
    BY DEF PublishSizes
  <1>1. range[d] \in RangeRecord
    BY DEF Values
  <1>2. DetSize(d) \in Ints
    BY DetSizeTyped
  <1>3. [range[d] EXCEPT !.size = DetSize(d)] \in RangeRecord
    BY <1>1, <1>2 DEF RangeRecord
  <1> QED
    BY <1>1, <1>3

LEMMA PixelsTyped ==
  ASSUME Values, NEW d \in Reached
  PROVE  PublishPixels(d) \in RegionRecord
  <1>1. region[d] \in RegionRecord
    BY ReachedDets DEF Values
  <1>2. DataSum[d - 1] \in Int /\ DataSum[d] - 1 \in Int
    BY ReachedDets
  <1>3. ToInt(DataSum[d - 1]) \in Ints /\ ToInt(DataSum[d] - 1) \in Ints
    BY <1>2, Converted
  <1> QED
    BY <1>1, <1>3 DEF PublishPixels, RegionRecord

LEMMA SomeTyped ==
  ASSUME Values, PublishSome
  PROVE  region' \in [Dets -> RegionRecord]
  <1>1. \A d \in Dets : region[d] \in RegionRecord
    BY DEF Values
  <1>2. \A d \in Reached : PublishPixels(d) \in RegionRecord
    BY PixelsTyped
  <1> QED
    BY <1>1, <1>2 DEF PublishSome

LEMMA AllTyped ==
  ASSUME Values, PublishAll
  PROVE  region' \in [Dets -> RegionRecord]
  <1>1. \A d \in Dets : region[d] \in RegionRecord
    BY DEF Values
  <1>2. ASSUME NEW d \in Reached PROVE PublishTof(d) \in RegionRecord
    <2>1. PublishPixels(d) \in RegionRecord
      BY PixelsTyped
    <2>2. TofStart(d) \in Int /\ TofStart(d) + tofMax \in Int
      BY ReachedDets
    <2>3. ToInt(TofStart(d)) \in Ints /\ ToInt(TofStart(d) + tofMax) \in Ints
      BY <2>2, Converted
    <2> QED
      BY <2>1, <2>3 DEF PublishTof, RegionRecord
  <1> QED
    BY <1>1, <1>2 DEF PublishAll

\* Both loops ended.
LEMMA SizesDone ==
  ASSUME Values, AllocSizes
  PROVE  /\ range' \in [Dets -> RangeRecord] /\ region' \in [Dets -> RegionRecord]
         /\ m_tofMax' = UInt(tofMax)
         /\ m_dataMaxSize' \in UInts /\ m_bufferMaxSize' \in UInts
         /\ m_dataMaxSize' # 0 => numDet \in Dets
  <1>0. /\ numDet \in Int /\ numDet <= MaxDets /\ MaxDets \in Nat /\ tofMax \in Int
        /\ m_bufferMaxSize \in UInts /\ numDet # 0
    BY LayoutAssumption, Widths DEF Values, AllocSizes
  <1>1. range' \in [Dets -> RangeRecord] /\ region' \in [Dets -> RegionRecord]
        /\ m_tofMax' = UInt(tofMax)
    BY SizesTyped, AllTyped DEF AllocSizes
  <1>2. /\ m_dataMaxSize' = IF numDet < 0 THEN 0 ELSE DataSize(numDet)
        /\ m_bufferMaxSize' = IF m_dataMaxSize' = 0 THEN m_bufferMaxSize
                              ELSE UInt(DataSum[numDet] + numDet * (tofMax + 1))
    BY DEF AllocSizes
  <1>3. CASE numDet < 0
    <2>1. 0 \in UInts
      BY Widths
    <2> QED
      BY <1>0, <1>1, <1>2, <1>3, <2>1
  <1>4. CASE ~(numDet < 0)
    <2>1. numDet \in Dets /\ numDet \in 0 .. MaxDets
      BY <1>0, <1>4 DEF Dets
    <2>2. DataSum[numDet] \in Int
      BY <2>1, DataSumInt
    <2>3. numDet * (tofMax + 1) \in Int
      <3> DEFINE k == tofMax + 1
      <3>1. k \in Int
        BY <1>0
      <3> HIDE DEF k
      <3>2. numDet * k \in Int
        BY <1>0, <3>1
      <3> QED
        BY <3>2 DEF k
    <2>4. DataSum[numDet] + numDet * (tofMax + 1) \in Int
      BY <2>2, <2>3
    <2>5. UInt(DataSum[numDet]) \in UInts
          /\ UInt(DataSum[numDet] + numDet * (tofMax + 1)) \in UInts
      BY <2>2, <2>4, Converted
    <2> QED
      BY <1>0, <1>1, <1>2, <1>4, <2>1, <2>5 DEF DataSize
  <1> QED
    BY <1>3, <1>4

\* A failed allocation leaves m_dataAlloc set.
LEMMA FailKeepsTypes ==
  ASSUME Flags, Values, AllocFails
  PROVE  /\ dataAlloc' = TRUE /\ allocFits' \in BOOLEAN
         /\ range' \in [Dets -> RangeRecord] /\ region' \in [Dets -> RegionRecord]
         /\ m_tofMax' \in UInts /\ m_dataMaxSize' \in UInts /\ m_bufferMaxSize' \in UInts
         /\ capacity' \in UInts \cup {NULL} /\ allocDet' \in 0 .. MaxDets
         /\ capacity' = NULL \/ (capacity' = capacity /\ m_bufferMaxSize' = m_bufferMaxSize)
  <1>0. m_dataMaxSize \in UInts /\ m_bufferMaxSize \in UInts /\ capacity \in UInts \cup {NULL}
        /\ allocDet \in 0 .. MaxDets /\ tofMax \in Int /\ MaxDets \in Nat
    BY LayoutAssumption, Widths DEF Values
  <1>1. dataAlloc' = TRUE
    BY Zenon DEF AllocFails, AllocNoDetectors, AllocBadRange, AllocNoMemory, Flags
  <1>2. allocFits' \in BOOLEAN
    BY Zenon DEF AllocFails, AllocNoDetectors, AllocBadRange, AllocNoMemory, Flags
  <1>3. UInt(tofMax) \in UInts
    BY <1>0, Converted
  <1>4. CASE AllocNoDetectors
    <2>1. /\ m_tofMax' = UInt(tofMax)
          /\ UNCHANGED <<range, region, m_dataMaxSize, m_bufferMaxSize, capacity, allocDet>>
      BY <1>4 DEF AllocNoDetectors
    <2> QED
      BY <1>0, <1>1, <1>2, <1>3, <2>1 DEF Values
  <1>5. CASE AllocBadRange
    <2>1. PICK last \in 0 .. MaxDets : m_dataMaxSize' = DataSize(last)
      BY <1>5 DEF AllocBadRange
    <2>2. DataSum[last] \in Int
      BY DataSumInt
    <2>3. DataSize(last) \in UInts
      BY <2>2, Converted DEF DataSize
    <2>4. range' \in [Dets -> RangeRecord]
      BY <1>5, SizesTyped DEF AllocBadRange
    <2>5. region' \in [Dets -> RegionRecord]
      BY <1>5, SomeTyped DEF AllocBadRange
    <2>6. m_tofMax' = UInt(tofMax) /\ m_bufferMaxSize' = m_bufferMaxSize
          /\ capacity' = capacity /\ allocDet' = allocDet
      BY <1>5 DEF AllocBadRange
    <2> QED
      BY <1>0, <1>1, <1>2, <1>3, <2>1, <2>3, <2>4, <2>5, <2>6
  <1>6. CASE AllocNoMemory
    <2>1. AllocSizes /\ capacity' = NULL /\ allocDet' = 0
      BY <1>6 DEF AllocNoMemory
    <2> QED
      BY <1>0, <1>1, <1>2, <1>3, <2>1, SizesDone
  <1> QED
    BY <1>4, <1>5, <1>6 DEF AllocFails

\* The buffer that is allocated has the size of its layout.
LEMMA BufferTyped ==
  ASSUME Values, AllocBuffer
  PROVE  /\ dataAlloc' = FALSE /\ allocFits' \in BOOLEAN
         /\ range' \in [Dets -> RangeRecord] /\ region' \in [Dets -> RegionRecord]
         /\ m_tofMax' = UInt(tofMax) /\ m_tofMax' \in UInts
         /\ m_dataMaxSize' \in UInts /\ m_bufferMaxSize' \in UInts
         /\ capacity' = m_bufferMaxSize' /\ capacity' # NULL /\ allocDet' \in 0 .. MaxDets
  <1>1. /\ AllocSizes /\ m_dataMaxSize' # 0 /\ capacity' = m_bufferMaxSize'
        /\ allocDet' = numDet /\ dataAlloc' = FALSE
    BY DEF AllocBuffer
  <1>2. LayoutFits \in BOOLEAN
    BY Zenon DEF LayoutFits
  <1>3. allocFits' \in BOOLEAN
    BY <1>2, Zenon DEF AllocBuffer
  <1>4. numDet \in 0 .. MaxDets
    BY <1>1, SizesDone, LayoutAssumption DEF Dets
  <1>5. m_bufferMaxSize' # NULL
    BY <1>1, SizesDone, Widths DEF NULL
  <1>6. UInt(tofMax) \in UInts
    <2>1. tofMax \in Int
      BY Widths DEF Values
    <2> QED
      BY <2>1, Converted
  <1> QED
    BY <1>1, <1>3, <1>4, <1>5, <1>6, SizesDone

\* What is published of a layout that fits does not wrap.
LEMMA FitsPublished ==
  ASSUME Values, AllocSizes, numDet \in Dets, LayoutFits, NEW d \in 1 .. numDet
  PROVE  /\ region'[d].start = DataSum[d - 1]
         /\ region'[d].end = DataSum[d] - 1
         /\ region'[d].tofStart = TofStart(d)
         /\ region'[d].tofEnd = TofStart(d) + tofMax
         /\ range'[d].size = DetSize(d) /\ range'[d].start <= range'[d].end
         /\ TofStart(d) \in Nat
  <1>0. /\ numDet \in Nat \ {0} /\ MaxDets \in Nat /\ numDet <= MaxDets
        /\ AllReached /\ PublishSizes /\ PublishAll
    BY LayoutAssumption DEF AllocSizes, Dets
  <1>1. d \in Reached /\ d \in Dets
    BY <1>0 DEF AllReached, Dets
  <1>2. region'[d] = PublishTof(d) /\ range'[d] = [range[d] EXCEPT !.size = DetSize(d)]
    BY <1>0, <1>1 DEF PublishAll, PublishSizes
  <1>3. region[d] \in RegionRecord /\ range[d] \in RangeRecord
    BY <1>1 DEF Values
  <1>4. /\ region'[d].start = ToInt(DataSum[d - 1])
        /\ region'[d].end = ToInt(DataSum[d] - 1)
        /\ region'[d].tofStart = ToInt(TofStart(d))
        /\ region'[d].tofEnd = ToInt(TofStart(d) + tofMax)
        /\ range'[d].size = DetSize(d)
        /\ range'[d].start = range[d].start /\ range'[d].end = range[d].end
    BY <1>2, <1>3 DEF PublishTof, PublishPixels, RegionRecord, RangeRecord
  <1> DEFINE a == (d - 1) * (tofMax + 1)
             b == numDet * (tofMax + 1)
  <1>5. /\ tofMax \in Nat /\ DataSum[numDet] \in Nat /\ b \in Nat
        /\ DataSum[numDet] + b \in 0 .. MaxInt
        /\ DetSize(d) \in Nat \ {0}
        /\ DataSum[d - 1] \in Nat /\ DataSum[d] \in Nat
        /\ DataSum[d] = DataSum[d - 1] + DetSize(d)
        /\ DataSum[d] <= DataSum[numDet]
        /\ a \in Nat /\ a + (tofMax + 1) <= b
    BY FitsSums
  <1>6. TofStart(d) = DataSum[numDet] + a
    BY DEF TofStart
  <1> HIDE DEF a, b
  <1>7. /\ DataSum[d - 1] \in 0 .. MaxInt /\ DataSum[d] - 1 \in 0 .. MaxInt
        /\ TofStart(d) \in 0 .. MaxInt /\ TofStart(d) + tofMax \in 0 .. MaxInt
    <2>1. MaxInt \in Nat
      BY Widths
    <2>2. DataSum[numDet] <= MaxInt
      BY <1>5, <2>1
    <2>3. DataSum[d - 1] <= DataSum[d] /\ DataSum[d] - 1 \in Nat
      BY <1>5
    <2>4. DataSum[d - 1] \in 0 .. MaxInt /\ DataSum[d] - 1 \in 0 .. MaxInt
      BY <1>5, <2>1, <2>2, <2>3
    <2>5. TofStart(d) \in 0 .. MaxInt /\ TofStart(d) + tofMax \in 0 .. MaxInt
      BY <1>5, <1>6, <2>1
    <2> QED
      BY <2>4, <2>5
  <1>8. /\ ToInt(DataSum[d - 1]) = DataSum[d - 1] /\ ToInt(DataSum[d] - 1) = DataSum[d] - 1
        /\ ToInt(TofStart(d)) = TofStart(d) /\ ToInt(TofStart(d) + tofMax) = TofStart(d) + tofMax
    BY <1>7, ToIntSame
  <1>9. range[d].start <= range[d].end
    BY <1>0, <1>1 DEF Reached, Dets
  <1> QED
    BY <1>4, <1>7, <1>8, <1>9, Widths

\* A buffer whose layout fits is laid out.
LEMMA BufferIsLaid ==
  ASSUME Values, AllocBuffer, LayoutFits, tofMax' = tofMax
  PROVE  Laid'
  <1>1. /\ AllocSizes /\ m_dataMaxSize' # 0 /\ capacity' = m_bufferMaxSize'
        /\ allocDet' = numDet
    BY DEF AllocBuffer
  <1>2. numDet \in Dets /\ numDet \in Nat \ {0}
    BY <1>1, SizesDone, LayoutAssumption DEF Dets
  <1>3. /\ tofMax \in Nat /\ UInt(tofMax) = tofMax
        /\ DataSum[numDet] \in Nat
        /\ DataSum[numDet] + numDet * (tofMax + 1) \in 0 .. MaxInt
    BY <1>2, FitsSums
  <1>4. m_tofMax' = tofMax
    BY <1>1, <1>3, SizesDone
  <1>5. capacity' = DataSum[numDet] + numDet * (tofMax + 1)
    <2>1. m_bufferMaxSize' = UInt(DataSum[numDet] + numDet * (tofMax + 1))
      BY <1>1 DEF AllocSizes
    <2>2. UInt(DataSum[numDet] + numDet * (tofMax + 1)) = DataSum[numDet] + numDet * (tofMax + 1)
      BY <1>3, ToIntSame
    <2> QED
      BY <1>1, <2>1, <2>2
  <1>6. \A d \in 1 .. numDet :
          /\ region'[d].start = DataSum[d - 1]
          /\ region'[d].end = DataSum[d] - 1
          /\ region'[d].tofStart = TofStart(d)
          /\ region'[d].tofEnd = TofStart(d) + tofMax
          /\ range'[d].size = DetSize(d) /\ range'[d].start <= range'[d].end
          /\ TofStart(d) \in Nat
    BY <1>1, <1>2, FitsPublished
  <1>7. \A d \in 1 .. numDet :
          /\ DataSum[d - 1] \in Nat /\ DataSum[d] \in Nat
          /\ DetSize(d) \in Nat \ {0}
          /\ DataSum[d] = DataSum[d - 1] + DetSize(d)
    BY <1>2, FitsSums
  <1>8. PixelsLaid'
    <2>1. region'[1].start = 0
      <3>1. 1 \in 1 .. numDet
        BY <1>2
      <3>2. region'[1].start = DataSum[1 - 1]
        BY <1>6, <3>1
      <3> QED
        BY <3>2, DataSumSteps
    <2>2. ASSUME NEW d \in 1 .. numDet
          PROVE  region'[d].end = region'[d].start + range'[d].size - 1
      BY <1>6, <1>7
    <2>3. ASSUME NEW d \in 1 .. numDet - 1
          PROVE  region'[d + 1].start = region'[d].end + 1
      <3>1. d \in 1 .. numDet /\ d + 1 \in 1 .. numDet /\ (d + 1) - 1 = d
        BY <1>2
      <3>2. region'[d + 1].start = DataSum[(d + 1) - 1]
        BY <1>6, <3>1
      <3>3. region'[d].end = DataSum[d] - 1 /\ DataSum[d] \in Nat
        BY <1>6, <1>7, <3>1
      <3> QED
        BY <3>1, <3>2, <3>3
    <2> QED
      BY <1>1, <2>1, <2>2, <2>3 DEF PixelsLaid
  <1>9. region'[numDet].end + 1 = DataSum[numDet]
    <2>1. numDet \in 1 .. numDet
      BY <1>2
    <2> QED
      BY <1>3, <1>6, <2>1
  <1>10. TofsLaid'
    <2> SUFFICES ASSUME NEW d \in 1 .. numDet
                 PROVE  /\ region'[d].tofStart = region'[numDet].end + 1 + (d - 1) * (tofMax + 1)
                        /\ region'[d].tofEnd = region'[d].tofStart + tofMax
      BY <1>1, <1>4 DEF TofsLaid
    <2>1. region'[d].tofStart = TofStart(d) /\ region'[d].tofEnd = TofStart(d) + tofMax
      BY <1>6
    <2> QED
      BY <1>9, <2>1 DEF TofStart
  <1>11. BoundsNat'
    <2>1. capacity' \in 0 .. MaxInt
      BY <1>3, <1>5
    <2>2. ASSUME NEW d \in 1 .. numDet
          PROVE  /\ range'[d].start <= range'[d].end /\ range'[d].size \in Nat \ {0}
                 /\ region'[d].start \in Nat /\ region'[d].end \in Nat
                 /\ region'[d].tofStart \in Nat /\ region'[d].tofEnd \in Nat
      <3>1. DataSum[d] - 1 \in Nat
        BY <1>7
      <3>2. TofStart(d) + tofMax \in Nat
        BY <1>3, <1>6
      <3> QED
        BY <1>6, <1>7, <3>1, <3>2
    <2>3. allocDet' # 0 /\ tofMax' \in Nat /\ m_tofMax' = tofMax'
      BY <1>1, <1>2, <1>3, <1>4
    <2> QED
      BY <1>1, <2>1, <2>2, <2>3 DEF BoundsNat
  <1>12. capacity' = region'[allocDet'].end + 1 + allocDet' * (m_tofMax' + 1)
    BY <1>1, <1>4, <1>5, <1>9
  <1> QED
    BY <1>8, <1>10, <1>11, <1>12 DEF Laid

-----------------------------------------------------------------------------
(* Every step keeps the invariant.                                         *)

\* A step that touches neither the buffer nor what describes it.
LEMMA Untouched ==
  ASSUME LaidInv, dataAlloc' = dataAlloc, allocFits' = allocFits,
         UNCHANGED <<tofMax, range, region, m_tofMax, capacity, allocDet>>
  PROVE  LaidInv'
  <1>1. Laid => Laid'
    BY DEF Laid, BoundsNat, PixelsLaid, TofsLaid
  <1> QED
    BY <1>1, Zenon DEF LaidInv

\* A step after which an allocation is required.
LEMMA RequiredKeeps ==
  ASSUME IInv, dataAlloc' = TRUE, startEvent' \in BOOLEAN, allocFits' \in BOOLEAN,
         Values', ADStatus' # "Acquire", capacity' = NULL \/ capacity' = m_bufferMaxSize'
  PROVE  IInv'
  <1>1. Flags' /\ ~(dataAlloc' = FALSE)
    BY Zenon DEF Flags
  <1> QED
    BY <1>1 DEF IInv, LaidInv, StatusInv

LEMMA TellsStatus ==
  ASSUME IInv, TellRequired
  PROVE  /\ allocStatus' \in {"Ok", "Required", "Failed"}
         /\ dataAlloc' = FALSE => allocStatus' = allocStatus
  <1>1. allocStatus \in {"Ok", "Required", "Failed"}
    BY DEF IInv, Values
  <1>2. CASE dataAlloc'
    <2>1. ~(dataAlloc' = FALSE) /\ allocStatus' = "Required"
      BY <1>2, Zenon DEF TellRequired
    <2> QED
      BY <2>1
  <1>3. CASE ~dataAlloc'
    <2>1. allocStatus' = allocStatus
      BY <1>3, Zenon DEF TellRequired
    <2> QED
      BY <1>1, <2>1
  <1> QED
    BY <1>2, <1>3

\* A parameter that the layout depends on: range is typed, tofMax is typed.
LEMMA WriteKeeps ==
  ASSUME IInv, ADStatus # "Acquire", TellRequired, dataAlloc' = TRUE,
         UNCHANGED <<ADStatus, startEvent, numDet, region, members>>,
         tofMax' \in Ints, range' \in [Dets -> RangeRecord]
  PROVE  IInv'
  <1>1. startEvent' \in BOOLEAN /\ allocFits' \in BOOLEAN
    BY Zenon DEF IInv, Flags, members
  <1>2. allocStatus' \in {"Ok", "Required", "Failed"}
    BY TellsStatus
  <1>3. Values'
    BY <1>2 DEF IInv, Values, members
  <1>4. capacity' = NULL \/ capacity' = m_bufferMaxSize'
    BY DEF IInv, StatusInv, members
  <1> QED
    BY <1>1, <1>3, <1>4, RequiredKeeps

\* numDet or the start event: the layout does not depend on them.
LEMMA PlainKeeps ==
  ASSUME IInv, TellRequired, numDet' \in Ints, numDet' <= MaxDets, startEvent' \in BOOLEAN,
         UNCHANGED <<ADStatus, tofMax, range, region, dataAlloc, members>>
  PROVE  IInv'
  <1>1. Flags'
    BY Zenon DEF IInv, Flags, members
  <1>2. /\ allocStatus' \in {"Ok", "Required", "Failed"}
        /\ dataAlloc' = FALSE => allocStatus' = allocStatus
    BY TellsStatus
  <1>3. Values'
    BY <1>2 DEF IInv, Values, members
  <1>4. LaidInv'
    BY Untouched DEF IInv, members
  <1>5. StatusInv'
    BY <1>2 DEF IInv, StatusInv, members, UInt
  <1> QED
    BY <1>1, <1>3, <1>4, <1>5 DEF IInv

LEMMA SucceedsKeeps ==
  ASSUME IInv, AllocSucceeds, UNCHANGED params, startEvent' \in BOOLEAN,
         ADStatus' \in {"Idle", "Acquire", "Error"}
  PROVE  IInv' /\ dataAlloc' = FALSE
  <1>0. UNCHANGED <<numDet, tofMax>>
    BY DEF params
  <1>1. CASE AllocBuffer /\ allocStatus' = "Ok"
    <2>1. /\ dataAlloc' = FALSE /\ allocFits' \in BOOLEAN
          /\ range' \in [Dets -> RangeRecord] /\ region' \in [Dets -> RegionRecord]
          /\ m_tofMax' = UInt(tofMax) /\ m_tofMax' \in UInts
          /\ m_dataMaxSize' \in UInts /\ m_bufferMaxSize' \in UInts
          /\ capacity' = m_bufferMaxSize' /\ capacity' # NULL /\ allocDet' \in 0 .. MaxDets
      BY <1>1, BufferTyped DEF IInv
    <2>2. Flags'
      BY <2>1, Zenon DEF Flags
    <2>3. Values'
      BY <1>0, <1>1, <2>1 DEF IInv, Values
    <2>4. LaidInv'
      <3> SUFFICES ASSUME allocFits' = TRUE PROVE Laid'
        BY Zenon DEF LaidInv
      <3>1. allocFits' = LayoutFits
        BY <1>1 DEF AllocBuffer
      <3>2. LayoutFits
        <4>1. LayoutFits = TRUE
          BY <3>1
        <4> QED
          BY <4>1, Zenon
      <3> QED
        BY <1>0, <1>1, <3>2, BufferIsLaid DEF IInv
    <2>5. UInt(tofMax)' = UInt(tofMax)
      BY <1>0 DEF UInt
    <2>6. StatusInv'
      BY <1>1, <2>1, <2>5 DEF StatusInv
    <2> QED
      BY <2>1, <2>2, <2>3, <2>4, <2>6 DEF IInv
  <1>2. CASE ~dataAlloc /\ UNCHANGED <<range, region, dataAlloc, allocStatus, members>>
    <2>1. dataAlloc = FALSE /\ dataAlloc' = FALSE
      BY <1>2, Zenon DEF IInv, Flags
    <2>2. Flags'
      BY <1>2, <2>1, Zenon DEF IInv, Flags, members
    <2>3. Values'
      BY <1>0, <1>2 DEF IInv, Values, members
    <2>4. LaidInv'
      BY <1>0, <1>2, Untouched DEF IInv, members
    <2>5. StatusInv'
      BY <1>0, <1>2, <2>1 DEF IInv, StatusInv, members, UInt
    <2> QED
      BY <2>1, <2>2, <2>3, <2>4, <2>5 DEF IInv
  <1> QED
    BY <1>1, <1>2 DEF AllocSucceeds

LEMMA FailsKeeps ==
  ASSUME IInv, AllocFails, UNCHANGED params, startEvent' \in BOOLEAN, ADStatus' = "Error",
         allocStatus' \in {"Ok", "Required", "Failed"}
  PROVE  IInv'
  <1>0. UNCHANGED <<numDet, tofMax>>
    BY DEF params
  <1>1. /\ dataAlloc' = TRUE /\ allocFits' \in BOOLEAN
        /\ range' \in [Dets -> RangeRecord] /\ region' \in [Dets -> RegionRecord]
        /\ m_tofMax' \in UInts /\ m_dataMaxSize' \in UInts /\ m_bufferMaxSize' \in UInts
        /\ capacity' \in UInts \cup {NULL} /\ allocDet' \in 0 .. MaxDets
        /\ capacity' = NULL \/ (capacity' = capacity /\ m_bufferMaxSize' = m_bufferMaxSize)
    BY FailKeepsTypes DEF IInv
  <1>2. Values'
    BY <1>0, <1>1 DEF IInv, Values
  <1>3. capacity' = NULL \/ capacity' = m_bufferMaxSize'
    BY <1>1 DEF IInv, StatusInv
  <1> QED
    BY <1>1, <1>2, <1>3, RequiredKeeps

LEMMA NextInv == IInv /\ [Next]_vars => IInv'
  <1> SUFFICES ASSUME IInv, [Next]_vars PROVE IInv'
    OBVIOUS
  <1>1. /\ range \in [Dets -> RangeRecord]
        /\ numDet \in Ints /\ numDet <= MaxDets /\ tofMax \in Ints
        /\ allocStatus \in {"Ok", "Required", "Failed"}
        /\ startEvent \in BOOLEAN
    BY DEF IInv, Values, Flags
  <1>2. ASSUME NEW d \in Dets, NEW new \in RangeRecord,
               WriteRange(d, new)
        PROVE  IInv'
    <2>1. range' \in [Dets -> RangeRecord]
      BY <1>1, <1>2 DEF WriteRange
    <2>2. tofMax' \in Ints
      BY <1>1, <1>2 DEF WriteRange, params
    <2> QED
      BY <1>2, <2>1, <2>2, WriteKeeps DEF WriteRange, params
  <1>3. ASSUME NEW d \in Dets, NEW v \in StartValues[d],
               WriteRange(d, [range[d] EXCEPT !.start = v])
        PROVE  IInv'
    <2>1. [range[d] EXCEPT !.start = v] \in RangeRecord
      BY <1>1, LayoutAssumption DEF RangeRecord, Dets
    <2> QED
      BY <1>2, <1>3, <2>1
  <1>4. ASSUME NEW d \in Dets, NEW v \in EndValues[d],
               WriteRange(d, [range[d] EXCEPT !.end = v])
        PROVE  IInv'
    <2>1. [range[d] EXCEPT !.end = v] \in RangeRecord
      BY <1>1, LayoutAssumption DEF RangeRecord, Dets
    <2> QED
      BY <1>2, <1>4, <2>1
  <1>5. ASSUME NEW d \in Dets, NEW v \in SizeValues[d],
               WriteRange(d, [range[d] EXCEPT !.size = v])
        PROVE  IInv'
    <2>1. [range[d] EXCEPT !.size = v] \in RangeRecord
      BY <1>1, LayoutAssumption DEF RangeRecord, Dets
    <2> QED
      BY <1>2, <1>5, <2>1
  <1>6. ASSUME NEW v \in TOFMaxValues, WriteTOFMax(v) PROVE IInv'
    <2>1. tofMax' \in Ints
      BY <1>6, LayoutAssumption DEF WriteTOFMax
    <2>2. range' \in [Dets -> RangeRecord]
      BY <1>1, <1>6 DEF WriteTOFMax
    <2> QED
      BY <1>6, <2>1, <2>2, WriteKeeps DEF WriteTOFMax
  <1>7. ASSUME NEW v \in NumDetValues, WriteNumDet(v) PROVE IInv'
    <2>1. numDet' \in Ints /\ numDet' <= MaxDets
      BY <1>7, LayoutAssumption DEF WriteNumDet
    <2>2. startEvent' \in BOOLEAN
      BY <1>1, <1>7 DEF WriteNumDet
    <2> QED
      BY <1>7, <2>1, <2>2, PlainKeeps DEF WriteNumDet
  <1>8. CASE WriteStart
    <2>1. numDet' \in Ints /\ numDet' <= MaxDets
      BY <1>1, <1>8 DEF WriteStart, params
    <2>2. startEvent' \in BOOLEAN
      BY <1>8, Zenon DEF WriteStart
    <2> QED
      BY <1>8, <2>1, <2>2, PlainKeeps DEF WriteStart, params
  <1>9. CASE WriteAllocSpace
    <2>1. startEvent' \in BOOLEAN /\ UNCHANGED params
      BY <1>1, <1>9 DEF WriteAllocSpace
    <2>2. CASE AllocSucceeds /\ UNCHANGED ADStatus
      <3>1. ADStatus' \in {"Idle", "Acquire", "Error"}
        BY <2>2 DEF IInv, Values
      <3> QED
        BY <2>1, <2>2, <3>1, SucceedsKeeps
    <2>3. CASE AllocFails /\ allocStatus' = "Failed" /\ ADStatus' = "Error"
      <3>1. allocStatus' \in {"Ok", "Required", "Failed"}
        BY <2>3
      <3> QED
        BY <2>1, <2>3, <3>1, FailsKeeps
    <2> QED
      BY <1>9, <2>2, <2>3 DEF WriteAllocSpace
  <1>10. CASE BeginStart
    <2>1. startEvent' \in BOOLEAN /\ UNCHANGED params
      BY <1>10 DEF BeginStart
    <2>2. CASE AllocSucceeds /\ ADStatus' \in {"Acquire", "Error"}
      <3>1. ADStatus' \in {"Idle", "Acquire", "Error"}
        BY <2>2
      <3> QED
        BY <2>1, <2>2, <3>1, SucceedsKeeps
    <2>3. CASE /\ AllocFails /\ ADStatus' = "Error"
               /\ allocStatus' = IF numDet = 0 THEN allocStatus ELSE "Failed"
      <3>1. allocStatus' \in {"Ok", "Required", "Failed"}
        BY <1>1, <2>3
      <3> QED
        BY <2>1, <2>3, <3>1, FailsKeeps
    <2> QED
      BY <1>10, <2>2, <2>3 DEF BeginStart
  <1>11. CASE Stop
    <2>1. Flags'
      BY <1>11 DEF IInv, Flags, Stop, members
    <2>2. Values'
      BY <1>11 DEF IInv, Values, Stop, params, members
    <2>3. LaidInv'
      BY <1>11, Untouched DEF IInv, Stop, params, members
    <2>4. StatusInv'
      BY <1>11 DEF IInv, StatusInv, Stop, params, members, UInt
    <2> QED
      BY <2>1, <2>2, <2>3, <2>4 DEF IInv
  <1>12. CASE UNCHANGED vars
    <2>1. Flags'
      BY <1>12 DEF IInv, Flags, vars, members
    <2>2. Values'
      BY <1>12 DEF IInv, Values, vars, params, members
    <2>3. LaidInv'
      BY <1>12, Untouched DEF IInv, vars, params, members
    <2>4. StatusInv'
      BY <1>12 DEF IInv, StatusInv, vars, params, members, UInt
    <2> QED
      BY <2>1, <2>2, <2>3, <2>4 DEF IInv
  <1> QED
    BY <1>3, <1>4, <1>5, <1>6, <1>7, <1>8, <1>9, <1>10, <1>11, <1>12 DEF Next, Client

LEMMA Invariance == Spec => []IInv
  BY InitInv, NextInv, PTL DEF Spec

-----------------------------------------------------------------------------
(* The regions of a layout that fits.                                      *)

\* The position of a number among blocks of k.
LEMMA BlockOf ==
  ASSUME NEW x \in Nat, NEW n \in Nat, NEW k \in Nat \ {0}, x < n * k
  PROVE  \E d \in 1 .. n : (d - 1) * k <= x /\ x < (d - 1) * k + k
  <1> DEFINE q == x \div k
  <1>1. q \in Nat /\ q * k <= x /\ x < q * k + k
    <2>1. q \in Nat
      OBVIOUS
    <2>2. x = k * q + (x % k) /\ x % k \in 0 .. k - 1
      OBVIOUS
    <2>3. k * q = q * k
      BY <2>1
    <2> HIDE DEF q
    <2>4. q * k \in Nat
      BY <2>1
    <2> QED
      BY <2>1, <2>2, <2>3, <2>4
  <1> HIDE DEF q
  <1>2. q < n
    <2> SUFFICES ASSUME n <= q PROVE FALSE
      BY <1>1
    <2>1. n * k <= q * k /\ n * k \in Nat /\ q * k \in Nat
      BY <1>1, TimesMonotonic
    <2> QED
      BY <1>1, <2>1
  <1>3. q + 1 \in 1 .. n /\ (q + 1) - 1 = q
    BY <1>1, <1>2
  <1> QED
    BY <1>1, <1>3

\* What the types say of a layout in use.
LEMMA LaidTypes ==
  ASSUME IInv, dataAlloc = FALSE, allocFits = TRUE
  PROVE  /\ Laid
         /\ allocDet \in Nat \ {0} /\ m_tofMax \in Nat /\ m_tofMax = tofMax
         /\ capacity \in Nat /\ capacity \in 0 .. MaxInt
         /\ \A d \in 1 .. allocDet :
              /\ d \in Dets
              /\ range[d].size \in Nat \ {0} /\ range[d].start \in Ints /\ range[d].end \in Ints
              /\ region[d].start \in Nat /\ region[d].end \in Nat
              /\ region[d].tofStart \in Nat /\ region[d].tofEnd \in Nat
              /\ range[d].start <= range[d].end
              /\ region[d].end <= MaxInt /\ region[d].tofEnd <= MaxInt
  <1>1. Laid
    BY DEF IInv, LaidInv
  <1>2. allocDet \in 0 .. MaxDets /\ MaxDets \in Nat /\ allocDet # 0
        /\ m_tofMax \in Nat /\ m_tofMax = tofMax /\ capacity \in 0 .. MaxInt
        /\ capacity \in Nat
    BY <1>1, LayoutAssumption DEF Laid, BoundsNat, IInv, Values
  <1>3. ASSUME NEW d \in 1 .. allocDet
        PROVE  /\ d \in Dets
               /\ range[d].size \in Nat \ {0} /\ range[d].start \in Ints /\ range[d].end \in Ints
               /\ region[d].start \in Nat /\ region[d].end \in Nat
               /\ region[d].tofStart \in Nat /\ region[d].tofEnd \in Nat
               /\ range[d].start <= range[d].end
               /\ region[d].end <= MaxInt /\ region[d].tofEnd <= MaxInt
    <2>1. d \in Dets
      BY <1>2 DEF Dets
    <2>2. range[d] \in RangeRecord /\ region[d] \in RegionRecord
      BY <2>1 DEF IInv, Values
    <2>3. region[d].end <= MaxInt /\ region[d].tofEnd <= MaxInt
      BY <2>2, Widths DEF RegionRecord
    <2> QED
      BY <1>1, <2>1, <2>2, <2>3 DEF Laid, BoundsNat, RangeRecord
  <1> QED
    BY <1>1, <1>2, <1>3

\* An earlier pixel region ends before a later one starts.
LEMMA RegionsInOrder ==
  ASSUME IInv, dataAlloc = FALSE, allocFits = TRUE, NEW d \in 1 .. allocDet
  PROVE  \A e \in d + 1 .. allocDet : region[d].end < region[e].start
  <1>1. /\ Laid /\ allocDet \in Nat
        /\ \A i \in 1 .. allocDet :
             /\ range[i].size \in Nat \ {0}
             /\ region[i].start \in Nat /\ region[i].end \in Nat
    BY LaidTypes
  <1>2. /\ \A i \in 1 .. allocDet : region[i].end = region[i].start + range[i].size - 1
        /\ \A i \in 1 .. allocDet - 1 : region[i + 1].start = region[i].end + 1
    BY <1>1 DEF Laid, PixelsLaid
  <1> DEFINE Bad == {e \in d + 1 .. allocDet : ~(region[d].end < region[e].start)}
  <1> SUFFICES ASSUME Bad # {} PROVE FALSE
    OBVIOUS
  <1>3. Bad \subseteq Nat
    BY <1>1
  <1>4. PICK e \in Bad : \A i \in Bad : e <= i
    <2> HIDE DEF Bad
    <2> QED
      BY <1>3, Least
  <1>5. e \in d + 1 .. allocDet /\ ~(region[d].end < region[e].start)
    BY <1>4
  <1>6. e - 1 \in 1 .. allocDet - 1 /\ e - 1 \in 1 .. allocDet /\ (e - 1) + 1 = e
    BY <1>1, <1>5
  <1>7. region[e].start = region[e - 1].end + 1
    BY <1>2, <1>6
  <1>8. CASE e = d + 1
    BY <1>1, <1>5, <1>7, <1>8
  <1>9. CASE e # d + 1
    <2>1. e - 1 \in d + 1 .. allocDet /\ e - 1 \notin Bad
      <3>1. e - 1 \in d + 1 .. allocDet
        BY <1>1, <1>5, <1>9
      <3> HIDE DEF Bad
      <3> QED
        BY <1>3, <1>4, <3>1
    <2>2. region[d].end < region[e - 1].start
      BY <2>1
    <2>3. region[e - 1].start <= region[e - 1].end
      BY <1>1, <1>2, <1>6
    <2> QED
      BY <1>1, <1>5, <1>6, <1>7, <2>2, <2>3
  <1> QED
    BY <1>8, <1>9

\* The cells below Data hold pixels, the ones from Data on hold TOF.
Data == region[allocDet].end + 1

LEMMA DataTypes ==
  ASSUME IInv, dataAlloc = FALSE, allocFits = TRUE
  PROVE  /\ Data \in Nat
         /\ m_tofMax + 1 \in Nat \ {0}
         /\ allocDet * (m_tofMax + 1) \in Nat
         /\ capacity = Data + allocDet * (m_tofMax + 1)
  <1>1. Laid /\ allocDet \in Nat \ {0} /\ m_tofMax \in Nat
    BY LaidTypes
  <1>2. allocDet \in 1 .. allocDet
    BY <1>1
  <1>3. region[allocDet].end \in Nat
    BY <1>2, LaidTypes
  <1>4. allocDet * (m_tofMax + 1) \in Nat
    BY <1>1, TimesMonotonic
  <1> QED
    BY <1>1, <1>3, <1>4 DEF Data, Laid

LEMMA PixelCells ==
  ASSUME IInv, dataAlloc = FALSE, allocFits = TRUE, NEW d \in 1 .. allocDet
  PROVE  PixelRegion(d) \subseteq 0 .. Data - 1
  <1>1. /\ allocDet \in Nat \ {0}
        /\ region[d].start \in Nat /\ region[d].end \in Nat
    BY LaidTypes
  <1>2. allocDet \in 1 .. allocDet
    BY <1>1
  <1>3. /\ region[allocDet].start \in Nat /\ region[allocDet].end \in Nat
        /\ range[allocDet].size \in Nat \ {0}
    BY <1>2, LaidTypes
  <1>4. region[d].end <= region[allocDet].end
    <2>1. CASE d = allocDet
      BY <1>1, <2>1
    <2>2. CASE d # allocDet
      <3>1. allocDet \in d + 1 .. allocDet
        BY <1>1, <2>2
      <3>2. region[d].end < region[allocDet].start
        BY <3>1, RegionsInOrder
      <3>3. region[allocDet].end = region[allocDet].start + range[allocDet].size - 1
        BY <1>2, LaidTypes DEF Laid, PixelsLaid
      <3> QED
        BY <1>1, <1>3, <3>2, <3>3
    <2> QED
      BY <2>1, <2>2
  <1> QED
    BY <1>1, <1>3, <1>4 DEF PixelRegion, Data

\* The TOF region of a detector is the block of its number.
LEMMA TofBlock ==
  ASSUME IInv, dataAlloc = FALSE, allocFits = TRUE, NEW d \in 1 .. allocDet
  PROVE  /\ d \in Nat \ {0} /\ d - 1 \in Nat
         /\ (d - 1) * (m_tofMax + 1) \in Nat
         /\ region[d].tofStart = Data + (d - 1) * (m_tofMax + 1)
         /\ region[d].tofEnd = Data + (d - 1) * (m_tofMax + 1) + m_tofMax
         /\ (d - 1) * (m_tofMax + 1) + (m_tofMax + 1) <= allocDet * (m_tofMax + 1)
  <1>1. Laid /\ allocDet \in Nat \ {0} /\ m_tofMax \in Nat
    BY LaidTypes
  <1>2. d \in Nat \ {0} /\ d - 1 \in Nat /\ d <= allocDet
    BY <1>1
  <1>3. region[d].tofStart = Data + (d - 1) * (m_tofMax + 1)
        /\ region[d].tofEnd = region[d].tofStart + m_tofMax
    BY <1>1 DEF Laid, TofsLaid, Data
  <1>4. m_tofMax + 1 \in Nat
    BY <1>1
  <1>5. (d - 1) * (m_tofMax + 1) \in Nat
    BY <1>2, <1>4, TimesMonotonic
  <1>6. (d - 1) * (m_tofMax + 1) + (m_tofMax + 1) = d * (m_tofMax + 1)
    BY <1>2, <1>4, TimesNext
  <1>7. d * (m_tofMax + 1) <= allocDet * (m_tofMax + 1)
    BY <1>1, <1>2, <1>4, TimesMonotonic
  <1> QED
    BY <1>2, <1>3, <1>5, <1>6, <1>7

LEMMA TofCellsAbove ==
  ASSUME IInv, dataAlloc = FALSE, allocFits = TRUE, NEW d \in 1 .. allocDet
  PROVE  TofRegion(d) \subseteq Data .. capacity - 1
  <1> DEFINE a == (d - 1) * (m_tofMax + 1)
             b == allocDet * (m_tofMax + 1)
  <1>1. /\ a \in Nat /\ b \in Nat /\ m_tofMax \in Nat /\ Data \in Nat
        /\ region[d].tofStart = Data + a
        /\ region[d].tofEnd = Data + a + m_tofMax
        /\ a + (m_tofMax + 1) <= b
        /\ capacity = Data + b
    BY TofBlock, DataTypes, LaidTypes
  <1> HIDE DEF a, b, Data
  <1> QED
    BY <1>1 DEF TofRegion

LEMMA PixelsApart ==
  ASSUME IInv, dataAlloc = FALSE, allocFits = TRUE,
         NEW d \in 1 .. allocDet, NEW e \in 1 .. allocDet, d < e
  PROVE  PixelRegion(d) \cap PixelRegion(e) = {}
  <1>1. e \in d + 1 .. allocDet
    BY LaidTypes
  <1>2. region[d].end < region[e].start
    BY <1>1, RegionsInOrder
  <1>3. region[d].end \in Nat /\ region[e].start \in Nat /\ region[d].start \in Nat
        /\ region[e].end \in Nat
    BY LaidTypes
  <1> QED
    BY <1>2, <1>3 DEF PixelRegion

LEMMA TofsApart ==
  ASSUME IInv, dataAlloc = FALSE, allocFits = TRUE,
         NEW d \in 1 .. allocDet, NEW e \in 1 .. allocDet, d < e
  PROVE  TofRegion(d) \cap TofRegion(e) = {}
  <1> DEFINE a == (d - 1) * (m_tofMax + 1)
             b == (e - 1) * (m_tofMax + 1)
  <1>0. d \in Nat \ {0} /\ e - 1 \in Nat /\ d <= e - 1 /\ m_tofMax + 1 \in Nat
    <2>1. allocDet \in Nat /\ m_tofMax \in Nat
      BY LaidTypes
    <2> QED
      BY <2>1
  <1>1. d * (m_tofMax + 1) <= b
    BY <1>0, TimesMonotonic
  <1>2. a + (m_tofMax + 1) = d * (m_tofMax + 1)
    BY <1>0, TimesNext
  <1>3. /\ a \in Nat /\ b \in Nat /\ m_tofMax \in Nat /\ Data \in Nat
        /\ region[d].tofStart = Data + a
        /\ region[d].tofEnd = Data + a + m_tofMax
        /\ region[e].tofStart = Data + b
        /\ region[e].tofEnd = Data + b + m_tofMax
    <2>1. m_tofMax \in Nat /\ Data \in Nat
      BY DataTypes, LaidTypes
    <2>2. /\ a \in Nat /\ region[d].tofStart = Data + a
          /\ region[d].tofEnd = Data + a + m_tofMax
      BY TofBlock
    <2>3. /\ b \in Nat /\ region[e].tofStart = Data + b
          /\ region[e].tofEnd = Data + b + m_tofMax
      BY TofBlock
    <2> QED
      BY <2>1, <2>2, <2>3
  <1>4. a + (m_tofMax + 1) <= b
    BY <1>1, <1>2
  <1> HIDE DEF a, b, Data
  <1> QED
    BY <1>3, <1>4 DEF TofRegion

\* Every cell lies in some region: a pixel cell in the first pixel region that does not
\* end before it.
LEMMA SomeOwner ==
  ASSUME IInv, dataAlloc = FALSE, allocFits = TRUE, NEW c \in Buffer
  PROVE  \E o \in Owners(c) : TRUE
  <1>0. /\ Laid /\ allocDet \in Nat \ {0} /\ m_tofMax \in Nat /\ capacity \in Nat
        /\ Data \in Nat /\ m_tofMax + 1 \in Nat \ {0}
        /\ allocDet * (m_tofMax + 1) \in Nat
        /\ capacity = Data + allocDet * (m_tofMax + 1)
    BY LaidTypes, DataTypes
  <1>1. c \in Nat /\ c < capacity
    BY <1>0 DEF Buffer
  <1>2. CASE c < Data
    <2> DEFINE S == {d \in 1 .. allocDet : c <= region[d].end}
    <2>0. allocDet \in 1 .. allocDet
      BY <1>0
    <2>1. allocDet \in 1 .. allocDet /\ region[allocDet].end \in Nat
      BY <2>0, LaidTypes
    <2>2. allocDet \in S
      BY <1>1, <1>2, <2>1 DEF Data
    <2>3. S \subseteq Nat
      BY <1>0
    <2>4. PICK d \in S : \A e \in S : d <= e
      <3> HIDE DEF S
      <3> QED
        BY <2>2, <2>3, Least
    <2>5. d \in 1 .. allocDet /\ c <= region[d].end
      BY <2>4
    <2>6. region[d].start \in Nat /\ region[d].end \in Nat
      BY <2>5, LaidTypes
    <2>7. region[d].start <= c
      <3>1. CASE d = 1
        <4>1. region[1].start = 0
          BY <1>0 DEF Laid, PixelsLaid
        <4> QED
          BY <1>1, <3>1, <4>1
      <3>2. CASE d # 1
        <4>1. d - 1 \in 1 .. allocDet - 1 /\ d - 1 \in 1 .. allocDet /\ (d - 1) + 1 = d
          BY <1>0, <2>5, <3>2
        <4>2. region[d].start = region[d - 1].end + 1
          BY <1>0, <4>1 DEF Laid, PixelsLaid
        <4>3. region[d - 1].end \in Nat
          BY <4>1, LaidTypes
        <4>4. d - 1 \notin S
          <5> HIDE DEF S
          <5> QED
            BY <2>3, <2>4, <4>1
        <4>5. ~(c <= region[d - 1].end)
          BY <4>1, <4>4
        <4> QED
          BY <1>1, <4>2, <4>3, <4>5
      <3> QED
        BY <3>1, <3>2
    <2>8. c \in PixelRegion(d)
      BY <1>1, <2>5, <2>6, <2>7 DEF PixelRegion
    <2>9. <<d, "pixel">> \in Owners(c)
      BY <2>5, <2>8 DEF Owners
    <2> QED
      BY <2>9
  <1>3. CASE ~(c < Data)
    <2> DEFINE x == c - Data
               k == m_tofMax + 1
    <2>1. x \in Nat /\ x < allocDet * k /\ k \in Nat \ {0} /\ c = Data + x
      BY <1>0, <1>1, <1>3
    <2>2. PICK d \in 1 .. allocDet : (d - 1) * k <= x /\ x < (d - 1) * k + k
      <3> HIDE DEF x, k
      <3> QED
        BY <1>0, <2>1, BlockOf
    <2>3. /\ (d - 1) * k \in Nat
          /\ region[d].tofStart = Data + (d - 1) * k
          /\ region[d].tofEnd = Data + (d - 1) * k + m_tofMax
      BY TofBlock
    <2> DEFINE a == (d - 1) * k
    <2>4. c \in region[d].tofStart .. region[d].tofEnd
      <3>1. /\ a \in Nat /\ a <= x /\ x < a + (m_tofMax + 1)
            /\ region[d].tofStart = Data + a
            /\ region[d].tofEnd = Data + a + m_tofMax
        BY <2>2, <2>3
      <3> HIDE DEF a, x, k
      <3> QED
        BY <1>0, <2>1, <3>1
    <2>5. <<d, "tof">> \in Owners(c)
      BY <2>4 DEF Owners, TofRegion
    <2> QED
      BY <2>5
  <1> QED
    BY <1>2, <1>3

\* No cell lies in two regions.
LEMMA OneOwner ==
  ASSUME IInv, dataAlloc = FALSE, allocFits = TRUE, NEW c, NEW o \in Owners(c), NEW p \in Owners(c)
  PROVE  o = p
  <1>0. allocDet \in Nat /\ Data \in Nat
    BY LaidTypes, DataTypes
  <1>1. PICK d \in 1 .. allocDet, i \in {"pixel", "tof"} : o = <<d, i>>
    BY DEF Owners
  <1>2. PICK e \in 1 .. allocDet, j \in {"pixel", "tof"} : p = <<e, j>>
    BY DEF Owners
  <1>3. c \in IF i = "pixel" THEN PixelRegion(d) ELSE TofRegion(d)
    BY <1>1 DEF Owners
  <1>4. c \in IF j = "pixel" THEN PixelRegion(e) ELSE TofRegion(e)
    BY <1>2 DEF Owners
  <1>5. d \in Int /\ e \in Int
    BY <1>0
  <1>6. /\ PixelRegion(d) \subseteq 0 .. Data - 1 /\ PixelRegion(e) \subseteq 0 .. Data - 1
        /\ TofRegion(d) \subseteq Data .. capacity - 1
        /\ TofRegion(e) \subseteq Data .. capacity - 1
    BY PixelCells, TofCellsAbove
  <1>7. (0 .. Data - 1) \cap (Data .. capacity - 1) = {}
    BY <1>0
  <1>8. i = j
    BY <1>3, <1>4, <1>6, <1>7
  <1>9. d = e
    <2>1. CASE d < e
      BY <1>3, <1>4, <1>8, <2>1, PixelsApart, TofsApart
    <2>2. CASE e < d
      BY <1>3, <1>4, <1>8, <2>2, PixelsApart, TofsApart
    <2> QED
      BY <1>5, <2>1, <2>2
  <1> QED
    BY <1>1, <1>2, <1>8, <1>9

\* When the layout fits, the regions that allocArray publishes tile the buffer, for any
\* number of detectors, pixel ranges, sizes and TOF range: no two detectors share a cell
\* and none is unused.
THEOREM Tiles == Spec => []RegionsTileBuffer
  <1>1. IInv => RegionsTileBuffer
    <2> SUFFICES ASSUME IInv, ~dataAlloc, allocFits
                 PROVE  /\ \A c \in Buffer : \E o \in Owners(c) : Owners(c) = {o}
                        /\ \A d \in 1 .. allocDet :
                             PixelRegion(d) \subseteq Buffer /\ TofRegion(d) \subseteq Buffer
      BY DEF RegionsTileBuffer
    <2>1. dataAlloc = FALSE /\ allocFits = TRUE
      BY Zenon DEF IInv, Flags
    <2>2. ASSUME NEW c \in Buffer PROVE \E o \in Owners(c) : Owners(c) = {o}
      <3>1. PICK o \in Owners(c) : TRUE
        BY <2>1, SomeOwner
      <3>2. \A p \in Owners(c) : p = o
        BY <2>1, <3>1, OneOwner
      <3> QED
        BY <3>1, <3>2
    <2>3. ASSUME NEW d \in 1 .. allocDet
          PROVE  PixelRegion(d) \subseteq Buffer /\ TofRegion(d) \subseteq Buffer
      <3> DEFINE b == allocDet * (m_tofMax + 1)
      <3>1. PixelRegion(d) \subseteq 0 .. Data - 1 /\ TofRegion(d) \subseteq Data .. capacity - 1
        BY <2>1, PixelCells, TofCellsAbove
      <3>2. Data \in Nat /\ b \in Nat /\ capacity = Data + b
        BY <2>1, DataTypes
      <3> HIDE DEF b, Data
      <3>3. 0 .. Data - 1 \subseteq Buffer /\ Data .. capacity - 1 \subseteq Buffer
        BY <3>2 DEF Buffer
      <3> QED
        BY <3>1, <3>3
    <2> QED
      BY <2>2, <2>3
  <1> QED
    BY <1>1, Invariance, PTL

-----------------------------------------------------------------------------
(* The other properties.                                                   *)

LEMMA LaidOutDets ==
  ASSUME IInv, NEW d \in LaidOut
  PROVE  d \in 1 .. allocDet /\ d <= numDet
  BY LayoutAssumption DEF LaidOut, Dets, IInv, Values

\* Whatever ints clients write, the published bounds are ints and the members unsigned
\* numbers of that width, through every wrapped sum.
THEOREM TypeCorrect == Spec => []TypeOK
  <1>1. IInv => TypeOK
    BY TypesTogether DEF IInv
  <1> QED
    BY <1>1, Invariance, PTL

\* An acquisition has a buffer, laid out for the current TOF range and, when it fits, for
\* the current sizes of the detectors that are laid out.
THEOREM RunsOnCurrentLayout == Spec => []LayoutCurrent
  <1>1. IInv => LayoutCurrent
    <2> SUFFICES ASSUME IInv, ADStatus = "Acquire"
                 PROVE  /\ ~dataAlloc /\ capacity # NULL /\ m_tofMax = UInt(tofMax)
                        /\ allocFits => \A d \in LaidOut :
                             /\ region[d].end = region[d].start + range[d].size - 1
                             /\ region[d].tofEnd = region[d].tofStart + tofMax
      BY DEF LayoutCurrent
    <2>1. dataAlloc = FALSE /\ capacity # NULL /\ m_tofMax = UInt(tofMax)
      BY DEF IInv, StatusInv
    <2>2. ~dataAlloc
      BY <2>1, Zenon
    <2>3. ASSUME allocFits, NEW d \in LaidOut
          PROVE  /\ region[d].end = region[d].start + range[d].size - 1
                 /\ region[d].tofEnd = region[d].tofStart + tofMax
      <3>1. allocFits = TRUE
        BY <2>3, Zenon DEF IInv, Flags
      <3>2. Laid /\ d \in 1 .. allocDet /\ m_tofMax = tofMax
        BY <2>1, <3>1, LaidTypes, LaidOutDets
      <3> QED
        BY <3>2 DEF Laid, PixelsLaid, TofsLaid
    <2> QED
      BY <2>1, <2>2, <2>3
  <1> QED
    BY <1>1, Invariance, PTL

\* A layout in use shows AllocSpaceStatus Ok.
THEOREM UsableShowsOk == Spec => []UsableIsOk
  <1>1. IInv => UsableIsOk
    BY Zenon DEF IInv, Flags, StatusInv, UsableIsOk
  <1> QED
    BY <1>1, Invariance, PTL

\* clearParams clears and frameTask copies exactly the buffer that is allocated.
THEOREM ClearsAll == Spec => []ClearsWholeBuffer
  <1>1. IInv => ClearsWholeBuffer
    <2> SUFFICES ASSUME IInv PROVE ClearedCells = Buffer
      BY DEF ClearsWholeBuffer
    <2>1. capacity = NULL \/ capacity = m_bufferMaxSize
      BY DEF IInv, StatusInv
    <2>2. CASE capacity = NULL
      BY <2>2 DEF ClearedCells, Buffer, NULL
    <2>3. CASE capacity # NULL
      BY <2>1, <2>3 DEF ClearedCells, Buffer
    <2> QED
      BY <2>2, <2>3
  <1> QED
    BY <1>1, Invariance, PTL

\* Ok is shown again only after an allocation that succeeded.
THEOREM OkOnlyEarned == Spec => OkIsEarned
  <1> DEFINE Earned == (dataAlloc' /\ allocStatus' = "Ok") => (dataAlloc /\ allocStatus = "Ok")
  <1>1. IInv /\ [Next]_vars => [Earned]_vars
    <2> SUFFICES ASSUME IInv, Next, dataAlloc', allocStatus' = "Ok"
                 PROVE  dataAlloc /\ allocStatus = "Ok"
      OBVIOUS
    <2>1. CASE TellRequired
      <3>1. allocStatus' = "Required"
        BY <2>1, Zenon DEF TellRequired
      <3> QED
        BY <3>1
    <2>2. ASSUME AllocSucceeds, UNCHANGED params, startEvent' \in BOOLEAN,
                 ADStatus' \in {"Idle", "Acquire", "Error"}
          PROVE  FALSE
      <3>1. dataAlloc' = FALSE
        BY <2>2, SucceedsKeeps
      <3> QED
        BY <3>1, Zenon
    <2>3. startEvent \in BOOLEAN /\ ADStatus \in {"Idle", "Acquire", "Error"}
      BY DEF IInv, Flags, Values
    <2>4. CASE WriteAllocSpace
      <3>1. CASE AllocSucceeds /\ UNCHANGED ADStatus
        BY <2>2, <2>3, <2>4, <3>1 DEF WriteAllocSpace
      <3>2. CASE AllocFails /\ allocStatus' = "Failed"
        BY <3>2
      <3> QED
        BY <2>4, <3>1, <3>2 DEF WriteAllocSpace
    <2>5. CASE BeginStart
      <3>1. CASE AllocSucceeds /\ ADStatus' \in {"Acquire", "Error"}
        <4>1. ADStatus' \in {"Idle", "Acquire", "Error"}
          BY <3>1
        <4> QED
          BY <2>2, <2>5, <3>1, <4>1 DEF BeginStart
      <3>2. CASE AllocFails /\ allocStatus' = IF numDet = 0 THEN allocStatus ELSE "Failed"
        <4>1. dataAlloc
          BY <3>2 DEF AllocFails
        <4>2. allocStatus = "Ok"
          BY <3>2
        <4> QED
          BY <4>1, <4>2
      <3> QED
        BY <2>5, <3>1, <3>2 DEF BeginStart
    <2>6. CASE Stop
      BY <2>6 DEF Stop
    <2>7. TellRequired \/ WriteAllocSpace \/ BeginStart \/ Stop
      BY DEF Next, Client, WriteRange, WriteTOFMax, WriteNumDet, WriteStart
    <2> QED
      BY <2>1, <2>4, <2>5, <2>6, <2>7
  <1>2. Spec => [][Earned]_vars
    BY <1>1, Invariance, PTL DEF Spec
  <1> QED
    BY <1>2 DEF OkIsEarned

\* A pixel that passes the unsigned comparison lies as far from the start of its region as
\* its ID from the first one.
LEMMA PixelPlace ==
  ASSUME IInv, dataAlloc = FALSE, allocFits = TRUE, NEW d \in 1 .. allocDet,
         range[d].size > range[d].end - range[d].start, NEW pixel \in Pixels(d)
  PROVE  PixelCell(d, pixel) \in PixelRegion(d)
  <1> DEFINE s == range[d].start
             e == range[d].end
             first == region[d].start
             x == first + (pixel - UInt(s))
  <1>1. /\ s \in Int /\ e \in Int /\ s <= e /\ s \in Ints /\ e \in Ints
        /\ range[d].size \in Nat /\ range[d].size > e - s
        /\ first \in Nat /\ region[d].end \in Nat /\ region[d].end <= MaxInt
    BY LaidTypes, Numbers
  <1>2. region[d].end = first + range[d].size - 1
    BY LaidTypes DEF Laid, PixelsLaid
  <1>3. /\ UInt(s) = IF s < 0 THEN s + Word ELSE s
        /\ UInt(e) = IF e < 0 THEN e + Word ELSE e
    BY <1>1, UIntOfInt
  <1>4. pixel \in UInt(s) .. UInt(e) /\ UInt(s) \in Int /\ UInt(e) \in Int
    BY <1>1, Converted, Numbers DEF Pixels
  <1> HIDE DEF s, e, first
  <1>5. pixel \in Int /\ pixel - UInt(s) \in 0 .. e - s
    BY <1>1, <1>3, <1>4, Numbers
  <1>6. x \in first .. region[d].end /\ x \in 0 .. MaxInt
    BY <1>1, <1>2, <1>5, Numbers
  <1>7. first + (pixel - s) = x \/ first + (pixel - s) = x + Word
    BY <1>1, <1>3, <1>5, Numbers
  <1>8. ToInt(x) = x /\ ToInt(x + Word) = x
    BY <1>6, ToIntSame
  <1> HIDE DEF x
  <1>9. ToInt(first + (pixel - s)) = x
    BY <1>7, <1>8
  <1> QED
    BY <1>6, <1>9 DEF PixelCell, PixelRegion, first, s

\* On a layout that fits, an event is counted in the regions of its own detector, if that
\* one is laid out.
THEOREM CountsOwnRegion == Spec => []CountsInRegion
  <1>1. IInv => CountsInRegion
    <2> SUFFICES ASSUME IInv, ADStatus = "Acquire", allocFits, NEW d \in LaidOut
                 PROVE  /\ range[d].size > range[d].end - range[d].start =>
                             \A pixel \in Pixels(d) : PixelCell(d, pixel) \in PixelRegion(d)
                        /\ \A tof \in -1 .. m_tofMax + 1 : TofCells(d, tof) \subseteq TofRegion(d)
      BY DEF CountsInRegion
    <2>0. allocFits = TRUE
      BY Zenon DEF IInv, Flags
    <2>1. dataAlloc = FALSE /\ allocFits = TRUE
      BY <2>0 DEF IInv, StatusInv
    <2>2. d \in 1 .. allocDet
      BY LaidOutDets
    <2>3. range[d].size > range[d].end - range[d].start =>
            \A pixel \in Pixels(d) : PixelCell(d, pixel) \in PixelRegion(d)
      BY <2>1, <2>2, PixelPlace
    <2>4. ASSUME NEW tof \in -1 .. m_tofMax + 1
          PROVE  TofCells(d, tof) \subseteq TofRegion(d)
      <3>1. Laid /\ m_tofMax \in Nat
            /\ region[d].tofStart \in Nat /\ region[d].tofEnd \in Nat
            /\ region[d].tofEnd <= MaxInt
        BY <2>1, <2>2, LaidTypes
      <3>2. region[d].tofEnd = region[d].tofStart + m_tofMax
        BY <2>2, <3>1 DEF Laid, TofsLaid
      <3>3. CASE tof <= m_tofMax /\ tof >= 0
        <4>1. region[d].tofStart + tof \in 0 .. MaxInt
              /\ region[d].tofStart + tof \in region[d].tofStart .. region[d].tofEnd
          BY <3>1, <3>2, <3>3, Numbers
        <4>2. UInt(region[d].tofStart + tof) = region[d].tofStart + tof
          BY <4>1, ToIntSame
        <4> QED
          BY <4>1, <4>2 DEF TofCells, TofRegion
      <3>4. CASE ~(tof <= m_tofMax /\ tof >= 0)
        BY <3>4 DEF TofCells
      <3> QED
        BY <3>3, <3>4
    <2> QED
      BY <2>3, <2>4
  <1> QED
    BY <1>1, Invariance, PTL

\* When the layout fits, resetTOFArray clears the TOF region of its detector, all of it and
\* nothing else.
THEOREM ResetsExactly == Spec => []ResetsOwnTof
  <1>1. IInv => ResetsOwnTof
    <2> SUFFICES ASSUME IInv, ~dataAlloc, allocFits, m_tofMax > 0, NEW d \in 1 .. allocDet
                 PROVE  ResetTofCells(d) = TofRegion(d)
      BY DEF ResetsOwnTof
    <2>1. dataAlloc = FALSE /\ allocFits = TRUE
      BY Zenon DEF IInv, Flags
    <2>2. Laid /\ allocDet \in Nat \ {0} /\ m_tofMax \in Nat /\ capacity \in Nat
      BY <2>1, LaidTypes
    <2>3. region[d].tofEnd = region[d].tofStart + m_tofMax
      BY <2>2 DEF Laid, TofsLaid
    <2>4. region[d].tofStart \in Nat /\ region[d].tofEnd \in Nat /\ region[d].tofEnd <= MaxInt
      BY <2>1, LaidTypes
    <2>5. region[allocDet].end \in Nat
      <3>1. allocDet \in 1 .. allocDet
        BY <2>2
      <3> QED
        BY <2>1, <3>1, LaidTypes
    <2>6. TofRegion(d) \subseteq Data .. capacity - 1
      BY <2>1, TofCellsAbove
    <2>7. region[d].tofStart \in TofRegion(d)
      BY <2>2, <2>3, <2>4 DEF TofRegion
    <2>8. region[d].tofStart > 0 /\ capacity # NULL
      BY <2>2, <2>4, <2>5, <2>6, <2>7 DEF Data, NULL
    <2>9. UInt(m_tofMax + 1) = m_tofMax + 1
      <3>1. m_tofMax + 1 \in UInts
        BY <2>2, <2>3, <2>4, Widths
      <3> QED
        BY <3>1, UIntSame
    <2>10. region[d].tofStart + UInt(m_tofMax + 1) - 1 = region[d].tofEnd
      BY <2>2, <2>3, <2>4, <2>9
    <2> QED
      BY <2>8, <2>10 DEF ResetTofCells, TofRegion
  <1> QED
    BY <1>1, Invariance, PTL

\* The index of a plot against TOF is not negative.
LEMMA PlotIndexNat ==
  ASSUME m_tofMax \in Nat \ {0}, NEW type \in PlotTypes, NEW bins \in Int,
         NEW sizeX \in Nat \ {0}, NEW pixel \in Nat, NEW tof \in Nat
  PROVE  PlotIndex(type, pixel, sizeX, bins, tof) \in Nat
  <1>1. TofBins(bins) \in 1 .. m_tofMax
    BY DEF TofBins
  <1>2. m_tofMax \div TofBins(bins) \in Nat \ {0}
    <2> DEFINE b == TofBins(bins)
               q == m_tofMax \div b
    <2>1. b \in Nat \ {0} /\ b <= m_tofMax
      BY <1>1
    <2> HIDE DEF b
    <2>2. q \in Nat /\ m_tofMax = b * q + (m_tofMax % b) /\ m_tofMax % b \in 0 .. b - 1
      BY <2>1
    <2>3. q # 0
      <3> SUFFICES ASSUME q = 0 PROVE FALSE
        OBVIOUS
      <3> HIDE DEF q
      <3>1. b * q = 0
        BY <2>1
      <3> QED
        BY <2>1, <2>2, <3>1
    <2> QED
      BY <2>2, <2>3 DEF b
  <1>3. TofBin(bins, tof) \in Nat
    <2> DEFINE q == m_tofMax \div TofBins(bins)
    <2>1. q \in Nat \ {0}
      BY <1>2
    <2> HIDE DEF q
    <2>2. tof \div q \in Nat
      BY <2>1
    <2> QED
      BY <2>2 DEF TofBin, q
  <1>4. PlotRow(type, pixel, sizeX) \in Nat
    <2>1. pixel % sizeX \in Nat /\ pixel \div sizeX \in Nat
      OBVIOUS
    <2> QED
      BY <2>1 DEF PlotRow, PlotTypes
  <1> DEFINE r == PlotRow(type, pixel, sizeX)
             b == TofBins(bins)
             t == TofBin(bins, tof)
  <1>5. r \in Nat /\ b \in Nat /\ t \in Nat
    BY <1>1, <1>3, <1>4
  <1> HIDE DEF r, b, t
  <1>6. r * b + t \in Nat
    BY <1>5
  <1> QED
    BY <1>6 DEF PlotIndex, r, b, t

\* On a layout that fits, the plots against TOF stay in the pixel region of their detector,
\* if that one is laid out, for every plot type, number of bins, X size greater than 0,
\* pixel and TOF whose plot index is an int.
THEOREM PlotsOwnRegion == Spec => []PlotsInRegion
  <1>1. IInv => PlotsInRegion
    <2> SUFFICES ASSUME IInv, ADStatus = "Acquire", allocFits, m_tofMax > 0,
                        NEW d \in LaidOut, NEW type \in PlotTypes, NEW bins \in BinsValues,
                        NEW sizeX \in SizeXValues, sizeX > 0,
                        NEW pixel \in 0 .. range[d].end - range[d].start,
                        NEW tof \in 0 .. m_tofMax,
                        PlotIndex(type, pixel, sizeX, bins, tof) <= MaxInt
                 PROVE  PlotCells(d, PlotIndex(type, pixel, sizeX, bins, tof))
                          \subseteq PixelRegion(d)
      BY Zenon DEF PlotsInRegion
    <2>0. allocFits = TRUE
      BY Zenon DEF IInv, Flags
    <2>1. dataAlloc = FALSE /\ allocFits = TRUE
      BY <2>0 DEF IInv, StatusInv
    <2>2. Laid /\ m_tofMax \in Nat
      BY <2>1, LaidTypes
    <2>3. d \in 1 .. allocDet
      BY LaidOutDets
    <2>4. /\ range[d].size \in Nat \ {0} /\ range[d].start \in Int /\ range[d].end \in Int
          /\ region[d].start \in Nat
      BY <2>1, <2>3, LaidTypes, Numbers
    <2>5. region[d].end = region[d].start + range[d].size - 1
      BY <2>2, <2>3 DEF Laid, PixelsLaid
    <2> DEFINE index == PlotIndex(type, pixel, sizeX, bins, tof)
    <2>6. index \in Nat
      <3>1. pixel \in Nat /\ tof \in Nat /\ m_tofMax \in Nat \ {0}
        BY <2>2, <2>4
      <3>2. bins \in Int /\ sizeX \in Nat \ {0}
        BY LayoutAssumption, Widths
      <3> QED
        BY <3>1, <3>2, PlotIndexNat
    <2>7. index <= MaxInt
      OBVIOUS
    <2> HIDE DEF index
    <2>8. ToInt(index) = index
      <3>1. index \in 0 .. MaxInt
        BY <2>6, <2>7, Widths
      <3> QED
        BY <3>1, ToIntSame
    <2>9. PlotCells(d, index) \subseteq PixelRegion(d)
      BY <2>4, <2>5, <2>6, <2>8 DEF PlotCells, PixelRegion
    <2> QED
      BY <2>9 DEF index
  <1> QED
    BY <1>1, Invariance, PTL
=============================================================================
