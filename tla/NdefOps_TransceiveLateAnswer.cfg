\* One tag that stays; the application's transceive timeout may be shorter
\* than the tag takes to answer
SPECIFICATION Spec
CONSTANTS
  Ops <- MC_TransceiveOps
  MaxCalls = 2
  MaxFieldChanges = 0
  RefusableCmds <- MC_Refusable
  LateAnswers = TRUE
  StaleDeactivation = FALSE
PROPERTY TransceiveResultIsOwn
