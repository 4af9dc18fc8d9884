CONSTANTS
  e1 = e1
  e2 = e2
  dh = dh
  EEs <- MC_EEs
  DH = dh
  HostListenTechMasks <- MC_HostListenTechMasks
  OffHostListenTechMasks <- MC_OffHostListenTechMasks
SYMMETRY MC_Symmetry
SPECIFICATION Spec
INVARIANT ClaimedNotOnHost
