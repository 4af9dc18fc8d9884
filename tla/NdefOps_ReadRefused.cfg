\* NFA_RwReadNDef may refuse the read; the tag stays in the field
SPECIFICATION Spec
CONSTANTS
  Ops <- MC_Ops
  MaxCalls = 2
  MaxFieldChanges = 0
  RefusableCmds <- MC_RefusableAll
  LateAnswers = FALSE
  StaleDeactivation = TRUE
CHECK_DEADLOCK FALSE
PROPERTY CallsReturn
