CONSTANTS
  RecoveryOptions = {FALSE}
  NciVersions = {2}
  RefusableCmds <- MC_ScreenRefusable
  Calls <- MC_ScreenCalls
  MaxCalls = 3
  MaxFatal = 0
  Rounds <- MC_Rounds
  MaxRounds = 0
SPECIFICATION Spec
INVARIANT ScreenSubStateMatches
