SPECIFICATION Spec
CONSTANTS
  MaxChannels = 2
  PVs = {p, q}
  Skip = Skip
  None = None
  Disconnects = TRUE
INVARIANTS RunningOnNamedPV
PROPERTIES ConnectsAsPromised SetupEnds
