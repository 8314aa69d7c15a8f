SPECIFICATION Spec
CONSTANTS
  None = None
  Threshold = 2
  Interfaces <- MCInterfaces
  Names <- MCNames
  Links <- MCLinks
  Cases <- MCCases
CHECK_DEADLOCK FALSE
INVARIANTS EnvelopeFits
