SPECIFICATION Spec
CONSTANTS
  Channels = {0}
  SeqMod = 4
  FirstSeq = 1
  Arrivals <- MCArrivals
  MaxTime <- MCMaxTime
INVARIANT RateZeroAfterStop
