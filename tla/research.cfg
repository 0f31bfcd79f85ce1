SPECIFICATION Spec
CONSTANTS
  Torn = Torn
  p1 = p1
  p2 = p2
  e1 = e1
  e2 = e2
  e3 = e3
  Plans = {p1, p2}
  Entries = {e1, e2, e3}
  Matching <- MCMatching
  Authority <- MCAuthority
  MaximumSources = 2
  Contents = {h1, h2}
  Media = {"text", "binary", "other"}
  Failures = {"TIMEOUT"}
  MaxRuns = 3
  MaxFaults = 1
INVARIANTS
  NothingIsKeptTwice
  ReceiptsAreTrue
  HandoffsAreBacked
  FaultsLeaveLittle
PROPERTIES
  RunsEnd
CHECK_DEADLOCK FALSE
