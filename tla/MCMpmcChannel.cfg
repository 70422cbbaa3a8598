SPECIFICATION Spec
CONSTANTS
  s1 = s1
  s2 = s2
  Senders = {s1, s2}
  Receivers = {r1, r2}
  Setups <- AllSetups
  SlotCount = 2
  LanesPerPage = 2
  PrefetchLimit = 2
  StealLimit = 2
  Retries = 0
SYMMETRY ReceiverSymmetry
INVARIANTS  DisconnectedIsLast NothingHidden OneToken SenderNotStranded
