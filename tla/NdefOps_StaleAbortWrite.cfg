\* The tag is replaced before the callback thread reports its departure
SPECIFICATION Spec
CONSTANTS
  Ops <- MC_Ops
  MaxCalls = 3
  MaxFieldChanges = 2
  RefusableCmds <- MC_Refusable
  LateAnswers = FALSE
  StaleDeactivation = TRUE
PROPERTY WriteTrueOnlyIfWritten
