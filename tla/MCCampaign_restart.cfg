SPECIFICATION Spec
CONSTANTS
  QosModes <- MCDot1p
  Loads <- MCUnloaded
  Reps = 1
  GateTries = 1
  MaxRuns = 2
  Faults = {"qos", "cleanup", "ctrlc", "kill", "listener", "session"}
INVARIANTS TypeOK StreamUnderQos MeasuredInLock WideFilter RxNotStale RxComplete PreflightHonest
CHECK_DEADLOCK FALSE
