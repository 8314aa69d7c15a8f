SPECIFICATION FairSpec
CONSTANTS
  Targets <- MCTargets
  InvSwitches <- MCThreeSw
  Stranger = "foreign"
  Wirings <- MCWirings3
  Transport = "auto"
  Workers = 2
  Rpcs <- MCReads
  Docs <- MCDocs
  CliAnswers = {}
  MaxRuns = 2
  Faults = {"port", "session", "rpc", "drop", "disk", "int", "kill"}
INVARIANTS TypeOK CleanRunAnswered FallbackBeforeXml ReplayFaithful PublishedWhole
PROPERTIES RunEnds
CHECK_DEADLOCK FALSE
