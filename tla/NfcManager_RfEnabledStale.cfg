CONSTANTS
  RecoveryOptions = {FALSE}
  NciVersions = {2}
  RefusableCmds = {}
  Calls <- MC_RecoveryCalls
  MaxCalls = 4
  MaxFatal = 0
  Rounds <- MC_Rounds
  MaxRounds = 0
SPECIFICATION Spec
INVARIANT RfEnabledMatchesDiscovery
CHECK_DEADLOCK FALSE
