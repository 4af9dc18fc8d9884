\* The tag stays; doWrite's completion races its clearing of sWriteOk
SPECIFICATION Spec
CONSTANTS
  Ops <- MC_Ops
  MaxCalls = 2
  MaxFieldChanges = 0
  RefusableCmds <- MC_Refusable
  LateAnswers = FALSE
  StaleDeactivation = TRUE
PROPERTY WriteResultIsOwn
