SPECIFICATION Spec
CONSTANTS
  SlotCount = 2
  LanesPerGroup = 2
  Capacity <- MixedCapacity
  PrefetchLimit = 2
  ReadyPollInterval = 2
  MinReleaseBatch = 2
  WordSize = 4
  Unsignaled = {0, 1}
  Controlled = {0, 1}
  MaxLimit = 1
INVARIANT PollBound
