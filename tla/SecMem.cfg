SPECIFICATION SecSpec
CONSTANTS
  HeadSize = 1
  Granule = 2
  Threads = {th1}
  Main = main
  Overflow = {o1, o2}
  Minimum = 4
  Standard = 5
  Page = 4
  Requests = {1, 3}
  InitSizes = {1}
  ChunkSizes = {0}
  Settings = {"init", "drop", "flags", "expand", "fips"}
  MaxHeld = 2
  MaxTerms = 1
  Plain = Plain
  Null = Null
  Free = Free
SYMMETRY Descriptors
INVARIANTS SecTypeOK PoolsTiled HeldBacked StatsMatch SecretsConfined
PROPERTY ImplementsSecAlloc
CHECK_DEADLOCK FALSE
