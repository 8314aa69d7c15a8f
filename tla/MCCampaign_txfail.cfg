SPECIFICATION Spec
CONSTANTS
  QosModes <- MCDot1p
  Loads <- MCIdle
  Reps = 1
  GateTries = 1
  MaxRuns = 1
  Faults = {"tx"}
INVARIANTS TxFailureSurvived
CHECK_DEADLOCK FALSE
