CONSTANT
  Callers = {c1}
SPECIFICATION WizardSpec
PROPERTY LaunchedDraftStays
CHECK_DEADLOCK FALSE
