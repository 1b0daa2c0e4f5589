SPECIFICATION Spec
CONSTANTS
  MaxInt = 15
  MaxDets = 2
  NumDetValues <- MCNumDet
  StartValues <- MCStart
  EndValues <- MCEnd
  SizeValues <- MCSize
  TOFMaxValues <- MCTOFMax
  BinsValues = {0, 1, 2, 3}
  SizeXValues = {0, 1, 2}
INVARIANTS RegionsTileBuffer LayoutCurrent UsableIsOk ClearsWholeBuffer CountsInRegion PlotsInRegion ResetsOwnTof
PROPERTIES OkIsEarned
