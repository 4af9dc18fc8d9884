\* A discovery that reports only NFC-DEP candidates leaves numDiscNtf at
\* -1, and the activation handler deactivates the peer to sleep
CONSTANTS
  RecoveryOptions = {FALSE}
  NciVersions = {2}
  RefusableCmds = {}
  Calls <- MC_DiscoveryCalls
  MaxCalls = 2
  MaxFatal = 0
  Rounds <- MC_P2PRounds
  MaxRounds = 1
SPECIFICATION Spec
PROPERTY SleepOnlyForMultiProtocol
CHECK_DEADLOCK FALSE
