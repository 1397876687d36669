SPECIFICATION CallsFairSpec
CONSTANTS
  Threads = {t1, t2}
  BusinessSize = 1
  CheckpointSize = 1
  Rounds = 0
INVARIANTS
  CallsTypeOK
  WaitersHoldNothing
  NothingLeaks
PROPERTIES
  EveryCallEnds
