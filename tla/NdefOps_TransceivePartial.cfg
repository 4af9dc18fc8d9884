\* The tag is replaced before the callback thread reports its departure
SPECIFICATION Spec
CONSTANTS
  Ops <- MC_TransceiveOps
  MaxCalls = 1
  MaxFieldChanges = 2
  RefusableCmds <- MC_Refusable
  LateAnswers = FALSE
  StaleDeactivation = TRUE
PROPERTY TransceiveDataOnlyIfComplete
