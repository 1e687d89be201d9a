SPECIFICATION FapiSpec
CONSTANTS
  None = None
  StoredKey = StoredKey
  Chunk = 2
  MaxBytes = 2
  MaxCalls = 2
INVARIANT InitMeansIdle
CHECK_DEADLOCK FALSE
