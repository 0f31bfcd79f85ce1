SPECIFICATION Spec
CONSTANTS
  Null = Null
  c1 = c1
  c2 = c2
  n1 = n1
  n2 = n2
  lower = lower
  upper = upper
  Callers = {c1, c2}
  Names = {n1, n2}
  ExternalIds = {lower, upper}
  Fold <- MCFold
  CreatedAs = {"PLANNED"}
  Existing <- MCExisting
  MaxCalls = 3
PROPERTIES
  LivesGoForward
  DuplicatesComeFromStaleReads
CHECK_DEADLOCK FALSE
