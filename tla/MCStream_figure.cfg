SPECIFICATION Spec
CONSTANTS
  Count = 2
  TsEverys <- MCSampled
  Registers = 2
  MaxCopies = 0
  Faults = {"loss"}
INVARIANTS FigureShowsLoss
CHECK_DEADLOCK FALSE
