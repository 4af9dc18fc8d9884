CONSTANTS
  MaxOps = 1
  MaxFieldChanges = 0
  CmdMayFail = FALSE
  MaxPresenceChecks = 1
  RetryCount = 1
  NoiseBudget = 0
SPECIFICATION Spec
PROPERTY NoFalseAbsence
