CONSTANTS
  MaxOps = 1
  MaxFieldChanges = 1
  CmdMayFail = FALSE
  MaxPresenceChecks = 1
  RetryCount = 1
  NoiseBudget = 0
SPECIFICATION Spec
PROPERTY PresentOnlyOnAnswer
