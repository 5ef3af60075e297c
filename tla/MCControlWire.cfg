CONSTANTS
  Writers = {loop, job}
  Nobody = Nobody
  Sizes = {1, 2, 4}
  LenMod = 3
  PipeSize = 3
  MaxSent = 2
SPECIFICATION FairSpec
INVARIANTS
  NothingMadeUp
PROPERTIES
  InOrder
  EveryCommandArrives
CHECK_DEADLOCK FALSE
