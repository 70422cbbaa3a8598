SPECIFICATION Spec
CONSTANTS
  s1 = s1
  s2 = s2
  Senders = {s1, s2}
  Receivers = {r1, r2}
  Setups <- OnlyBlocking
  SlotCount = 1
  LanesPerPage = 2
  PrefetchLimit = 1
  StealLimit = 2
  Retries = 1
SYMMETRY ReceiverSymmetry
INVARIANTS DisconnectWakes
