SPECIFICATION SafetySpec
CONSTANTS
  MaxChannels = 2
  NumChannelsValues <- MCNumChannels
  CallbackValues = {0, 1}
  BusyValues = {0, 1}
INVARIANTS TypeOK NoStaleStop ConfigFrozen IdleMeansStopped BusyIsServed
PROPERTIES ImplementsServiceSafely ConnectsAsPromised
CHECK_DEADLOCK FALSE
