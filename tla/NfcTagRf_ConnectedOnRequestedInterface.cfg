CONSTANTS
  MaxOps <- MC_MaxOps
  MaxFieldChanges <- MC_MaxFieldChanges
  CmdMayFail = FALSE
  MaxPresenceChecks = 0
  RetryCount = 1
  NoiseBudget = 0
SPECIFICATION Spec
PROPERTY ConnectedOnRequestedInterface
