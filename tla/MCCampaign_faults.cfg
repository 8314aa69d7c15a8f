SPECIFICATION FairSpec
CONSTANTS
  QosModes <- MCDot1p
  Loads <- MCLoads
  Reps = 1
  GateTries = 2
  MaxRuns = 1
  Faults = {"startup", "qos", "ptp4l", "listener", "tx", "scp", "rm", "ctrlc", "kill", "cleanup"}
INVARIANTS MarksComplete
PROPERTIES RunEnds SweepsInOrder
CHECK_DEADLOCK FALSE
