CONSTANTS
  Peers = {p1, p2}
  MaxItems = 3
  MaxChores = 1
SPECIFICATION FairSpec
INVARIANTS NeverStuck NoStaleWaker
PROPERTIES DeferredAfterDrop OperationReturns
