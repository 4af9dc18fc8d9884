\* One tag, which may leave the field during a check
SPECIFICATION Spec
CONSTANTS
  Ops <- MC_Ops
  MaxCalls = 3
  MaxFieldChanges = 1
  RefusableCmds <- MC_Refusable
  LateAnswers = FALSE
  StaleDeactivation = TRUE
PROPERTY CheckNdefResultIsOwn
