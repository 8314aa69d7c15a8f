SPECIFICATION Spec
CONSTANTS
  None = None
  Threshold = 2
  Interfaces <- MCInterfaces
  Names <- MCNames
  Links <- MCLinks
  Cases <- MCCases
CHECK_DEADLOCK FALSE
INVARIANTS TypeOK PtpAttributed SafeInEveryModel LosingAReadIsSafe SameOverTransports FaultyScheduleTold SupportEvidenced
