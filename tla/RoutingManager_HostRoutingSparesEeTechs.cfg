CONSTANTS
  e1 = e1
  dh = dh
  EEs <- MC_EEs
  DH = dh
  OffHostRoute = dh
  FelicaRoute = dh
  DefaultEe = dh
  DefaultIsoDepRoute = e1
  HostMask = {"A", "F"}
  OffHostMask = {"A", "B", "F"}
  TopologyChoices <- MC_Topologies
  MaxCalls = 3
  MaxTopologyChanges = 1
  CmdMayFail = FALSE
  Calls <- MC_AbfCalls
  ScbrChoices = {TRUE, FALSE}
  RouteChoices <- MC_Routes
  EseConfigured = TRUE
SPECIFICATION Spec
INVARIANT HostRoutingSparesEeTechs
