SPECIFICATION Spec
CONSTANTS
  MaxChannels = 1
  NumChannelsValues = {1}
  CallbackValues = {0, 1}
  BusyValues = {0, 1}
PROPERTY StopCompletes
CHECK_DEADLOCK FALSE
