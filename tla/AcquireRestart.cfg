SPECIFICATION SafetySpec
CONSTANTS
  MaxChannels = 1
  NumChannelsValues = {1}
  CallbackValues = {0}
  BusyValues = {1}
PROPERTY NoUnrequestedStart
