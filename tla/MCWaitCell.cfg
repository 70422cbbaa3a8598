CONSTANTS
  Notifiers = {n1, n2, n3}
  MaxGeneration = 5
SPECIFICATION FairSpec
INVARIANTS NoLostWakeup
PROPERTIES ImplementsToken NotifyReturns
