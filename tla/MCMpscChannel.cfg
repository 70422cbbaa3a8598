CONSTANTS
  l1 = l1
  l2 = l2
  Lanes = {l1, l2}
  Page <- OnePage
  Group <- TwoGroups
  Cap = 2
  MinReleaseBatch = 2
  MaxSends <- BusyAndSilent
SPECIFICATION FairSpec
INVARIANTS NothingHidden ReceiverNotStranded DisconnectedIsLast
PROPERTIES Delivered DisconnectSeen SendReturns
