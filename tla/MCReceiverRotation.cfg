SPECIFICATION Spec
CONSTANTS
  SlotCount = 2
  LanesPerGroup = 2
  Capacity <- NarrowCapacity
  PrefetchLimit = 3
  ReadyPollInterval = 2
  MinReleaseBatch = 3
  WordSize = 3
  Unsignaled = {1}
  Controlled = {0}
  MaxLimit = 1
INVARIANT CountersExact
INVARIANT RotationExact
INVARIANT NothingHidden
INVARIANT ScanComplete
PROPERTY RetiredWhenDone
