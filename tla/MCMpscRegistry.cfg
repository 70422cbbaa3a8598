\* Three handles for two lanes, so that slots and keys are used again; a page per
\* lane and two pages per group, so that a third slot opens a second group.  The
\* system stops when every handle and the receiver are dropped.
CONSTANTS
  s1 = s1
  s2 = s2
  s3 = s3
  Senders = {s1, s2, s3}
  First = s1
  LanesPerPage = 1
  PagesPerGroup = 2
  MaxLanes = 2
  MaxGeneration = 1
  Talkers = {s2}
  MaxSends = 2
SPECIFICATION Spec
INVARIANTS NoLaneHidden NoOrphanLane RegistryExact
CHECK_DEADLOCK FALSE
