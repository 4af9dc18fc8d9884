CONSTANTS
  RecoveryOptions = {FALSE, TRUE}
  NciVersions = {1, 2}
  RefusableCmds <- MC_Refusable
  Calls <- MC_Calls
  MaxCalls = 3
  MaxFatal = 1
  Rounds <- MC_Rounds
  MaxRounds = 1
SPECIFICATION Spec
INVARIANT TypeOK
INVARIANT ArbitrationEndsAwake
PROPERTY CallsReturnWithoutRecovery
\* With recovery_option the caller thread can block for ever in a routing
\* wait the recovery branch does not notify (NfcManager_RecoveryHang.cfg);
\* CallsReturnWithoutRecovery checks progress for the other branch.
CHECK_DEADLOCK FALSE
