SPECIFICATION FairSpec
CONSTANTS
  Count = 3
  TsEverys <- MCEvery
  Registers = 2
  MaxCopies = 1
  Faults = {"senderr", "loss", "narrow", "early", "stop"}
INVARIANTS TypeOK RecordsAreHardware LossNotNegative LossExact SampleIsLarge
PROPERTIES TxEnds
CHECK_DEADLOCK FALSE
