SPECIFICATION Spec
CONSTANTS
  MaxChannels = 2
  PVs = {p, q}
  Skip = Skip
  None = None
  Disconnects = FALSE
INVARIANTS MonitorsNamedPV
