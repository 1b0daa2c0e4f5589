SPECIFICATION Spec
CONSTANTS
  Names <- MCNames
  File <- MCFile
  MaxInt = 7
  NumSizes <- MCNumSizes
  Pixels = {0, 1, 2, 3}
INVARIANTS NoPartialTable SizesMatch ShownMapInUse ShownTransInUse ReadsInside
 
