CONSTANTS
  MaxOps <- MC_MaxOps
  MaxFieldChanges <- MC_MaxFieldChanges
  CmdMayFail = TRUE
  MaxPresenceChecks = 0
  RetryCount = 1
  NoiseBudget = 0
SPECIFICATION Spec
INVARIANT TypeOK
PROPERTY SuccessOnlyAfterActivation
INVARIANT HostMirrorsController
PROPERTY CallReturns
