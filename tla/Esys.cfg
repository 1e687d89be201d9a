SPECIFICATION FairEsysSpec
CONSTANTS
  Response = Response
  Codes = {"ok", "retry", "error", "initialize", "short", "huge", "badtag"}
  MaxSubmissions = 5
  MaxCalls = 3
INVARIANTS EsysTypeOK LayersAgree 
PROPERTIES CommandIntact ImplementsCall ImplementsPort CallReturns
CHECK_DEADLOCK FALSE
