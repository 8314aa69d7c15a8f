SPECIFICATION Spec
CONSTANTS
  Targets <- MCTwo
  InvSwitches <- MCTwoSw
  Stranger = "foreign"
  Wirings <- MCWirings2
  Transport = "auto"
  Workers = 2
  Rpcs <- MCReads
  Docs <- MCDocs
  CliAnswers = {"SW1", "SW2"}
  MaxRuns = 1
  Faults = {"port"}
INVARIANTS FallbackReads
CHECK_DEADLOCK FALSE
