CONSTANTS
  RecoveryOptions = {FALSE}
  NciVersions = {2}
  RefusableCmds <- MC_StartRefusable
  Calls <- MC_DiscoveryCalls
  MaxCalls = 2
  MaxFatal = 0
  Rounds <- MC_Rounds
  MaxRounds = 0
SPECIFICATION Spec
INVARIANT DiscoveryRunsWhenEnabled
