SPECIFICATION Spec
CONSTANTS
  MaxInt = 9
  Wrap = 520
  MaxMasks = 2
  QueueSize = 1
  FrameSizes = {5, 7}
  TofSizes = {3}
  RoiConfigs <- MCRoiConfigs
  MaskConfigs <- MCMaskConfigs
  RoiWrites <- MCRoiWrites
  MaskWrites <- MCMaskWrites
  MaxFrames = 2
  MaxWrites = 2
INVARIANTS TypeOK ShapeWithinFrame DrawsInside DrawnAsAsked PlotShowsDetector
PROPERTIES WritesFitOnly
CHECK_DEADLOCK FALSE
