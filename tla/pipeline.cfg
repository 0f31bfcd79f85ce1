SPECIFICATION Spec
CONSTANTS
  Null = Null
  Torn = Torn
  c1 = c1
  c2 = c2
  Clerks = {c1, c2}
  Names = {"new"}
  Domains = {"new.org"}
  Owned = {TRUE}
  Citations = {"known", "unknown", "twice"}
  Imports = {2}
  Models = {"Fit"}
  Seeds = {"new", "demo"}
  Requests <- MCRequests
  Reporting = {c1}
  MaxCalls = 2
  MaxRuns = 2
  MaxWork = 3
  MaxFaults = 1
INVARIANTS
  NumbersAreIssuedOnce
  FaultsLeaveLittle
  IndexHasItsComponents
  ReceiptsAreTrue
  ReadsNeverGoBack
PROPERTY RunsGetTheirReceipt
CHECK_DEADLOCK FALSE
