SPECIFICATION FairSpec
CONSTANTS
  Globals <- MCGlobals
  PerPort <- MCPerPort
  Ports <- MCPorts
  ListKey = "interface-status"
  Rows <- MCRows
  Rejected <- MCRejected
  Page = 2
  None = None
INVARIANTS TypeOK CaptureTold
PROPERTIES CollectEnds
CHECK_DEADLOCK FALSE
