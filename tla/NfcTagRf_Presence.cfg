CONSTANTS
  MaxOps = 1
  MaxFieldChanges = 1
  CmdMayFail = TRUE
  MaxPresenceChecks = 1
  RetryCount = 1
  NoiseBudget = 1
SPECIFICATION Spec
PROPERTY PresenceReturns
