SPECIFICATION Spec
CONSTANTS
  Cables <- MCCables
  Listed <- MCListed
  Endpoints = {"UP1"}
  Mac <- MCMac
  ListedMac <- MCListedMac
  Oui <- MCOui
  Host <- MCHost
  PortId <- MCPortId
  Paths <- MCPaths
  Unanswering = {"SW2"}
  Forms <- MCForms
  Copies = 1
INVARIANTS TypeOK BothEndsConfirmed LinksAreCables TrunkNotAttached EndpointShown OrderFree AgreementTold SilentMeansUnheard
CHECK_DEADLOCK FALSE
