\* The tag may leave during any operation and a tag come back
SPECIFICATION Spec
CONSTANTS
  Ops <- MC_Ops
  MaxCalls = 4
  MaxFieldChanges = 2
  RefusableCmds <- MC_Refusable
  LateAnswers = FALSE
  StaleDeactivation = FALSE
INVARIANT TypeOK
PROPERTY CallsReturn TransceiveResultIsOwn WriteTrueOnlyIfWritten
