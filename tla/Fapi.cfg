SPECIFICATION FairFapiSpec
CONSTANTS
  None = None
  StoredKey = StoredKey
  Chunk = 2
  MaxBytes = 3
  MaxCalls = 2
INVARIANTS FapiTypeOK NothingLeft GivenKept
PROPERTIES Delivered FlushesOwn FapiReturns
CHECK_DEADLOCK FALSE
