CONSTANTS
  MaxEvents <- OneThree
  Poisons = {0, 2}
  BatchSize = 2
  MaxQueue = 2
  FrameSize = 2
  MaxFaults = 1
  MaxLosses = 1
SPECIFICATION Spec
INVARIANTS TypeOK NothingIsSkipped
PROPERTIES Replicated LiveIsCaughtUp
CHECK_DEADLOCK FALSE
