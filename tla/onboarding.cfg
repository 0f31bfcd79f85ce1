SPECIFICATION Spec
CONSTANTS
  Services <- MCServices
  Frameworks <- MCFrameworks
  Unstable <- MCUnstable
  MaxCommands = 2
  Callers = {c}
  Requests <- MCRequests
  RequiredServices <- MCRequired
  SecurityAnswers = {"receipt", "bad_receipt", "lost_answer", "unhashable"}
  RaisingEvents = {"stage.completed", "stage.failed"}
  MaxCalls = 2
  MaxOutages = 1
INVARIANTS
  QuietRecordsVerify
  OperationalIsBacked
PROPERTIES
  StopAllStopsASoundPlatform
  KeysKeepTheirMeaning
  UndisturbedReplayVerifies
CHECK_DEADLOCK FALSE
