SPECIFICATION SchedulingSpec
CONSTANTS
  SlotCount = 2
  LanesPerGroup = 1
  Capacity <- WideCapacity
  PrefetchLimit = 3
  ReadyPollInterval = 3
  MinReleaseBatch = 3
  WordSize = 5
  Unsignaled = {0, 1}
  Controlled = {}
  MaxLimit = 0
PROPERTY Served
