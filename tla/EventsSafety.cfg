SPECIFICATION Spec
CONSTANTS
  Channels = {0, 1}
  SeqMod = 4
  FirstSeq = 1
  Arrivals <- MCArrivals
  MaxTime <- MCMaxTime
INVARIANTS TypeOK PulsesCountedOnce NoFalseMissing CountsByCurrentLayout PostedNotAhead RateZeroUnlessLate
PROPERTY PauseHolds
