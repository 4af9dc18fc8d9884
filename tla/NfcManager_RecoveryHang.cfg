CONSTANTS
  RecoveryOptions = {TRUE}
  NciVersions = {2}
  RefusableCmds = {}
  Calls <- MC_RecoveryCalls
  MaxCalls = 3
  MaxFatal = 1
  Rounds <- MC_Rounds
  MaxRounds = 0
SPECIFICATION Spec
PROPERTY CallsReturn
CHECK_DEADLOCK FALSE
