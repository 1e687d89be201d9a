SPECIFICATION EsysSpec
CONSTANTS
  Response = Response
  Codes = {"ok", "retry", "error"}
  MaxSubmissions = 3
  MaxCalls = 2
INVARIANT InitMeansFinished
CHECK_DEADLOCK FALSE
