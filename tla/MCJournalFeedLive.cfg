CONSTANTS
  MaxEvents <- OneTwo
  Poisons = {0, 2}
  BatchSize = 1
  MaxQueue = 1
  FrameSize = 1
  MaxFaults = 1
  MaxLosses = 1
SPECIFICATION Spec
PROPERTIES OrdersArrive
CHECK_DEADLOCK FALSE
