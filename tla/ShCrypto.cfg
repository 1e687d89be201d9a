SPECIFICATION CryptoSpec
CONSTANTS
  KeyAddr = {k1, k2, k3}
  BufferSizes = {16, 24, 32}
  Stores <- AllStores
  MayFail = {"realloc", "fopen", "fread", "open", "setkey", "encrypt"}
  Null = Null
SYMMETRY KeySymmetry
INVARIANTS CryptoTypeOK AllClosed KeyReachesCaller CryptoStopHasCause
CHECK_DEADLOCK FALSE
