SPECIFICATION Spec
CONSTANTS
  Cables <- MCCables
  Listed <- MCListed
  Endpoints = {"UP1"}
  Mac <- MCMac
  ListedMac <- MCListedMac
  Oui <- MCOui
  Host <- MCHost
  PortId <- MCPortId
  Paths <- MCPaths
  Unanswering = {}
  Forms <- MCFull
  Copies = 2
INVARIANTS ConfirmedFromBothEnds
CHECK_DEADLOCK FALSE
