CONSTANTS
  e1 = e1
  dh = dh
  EEs <- MC_EEs
  DH = dh
  OffHostRoute = e1
  FelicaRoute = e1
  DefaultEe = dh
  DefaultIsoDepRoute = e1
  HostMask = {"A", "F"}
  OffHostMask = {"A", "B", "F"}
  TopologyChoices <- MC_Topologies
  MaxCalls = 3
  MaxTopologyChanges = 0
  CmdMayFail = TRUE
  Calls <- MC_HostCalls
  ScbrChoices = {TRUE}
  RouteChoices <- MC_Routes
  EseConfigured = TRUE
SPECIFICATION Spec
INVARIANT NoWaitWithoutAnswer
PROPERTY CallsReturn
