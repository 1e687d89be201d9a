SPECIFICATION FairSecSpec
CONSTANTS
  HeadSize = 1
  Granule = 2
  Threads = {th1, th2}
  Main = main
  Overflow = {o1, o2}
  Minimum = 4
  Standard = 5
  Page = 4
  Requests = {3}
  InitSizes = {1}
  ChunkSizes = {0}
  Settings = {"disable"}
  MaxHeld = 2
  MaxTerms = 0
  Plain = Plain
  Null = Null
  Free = Free
INVARIANTS NeverMissed NoCycle
PROPERTY CallsReturn
CHECK_DEADLOCK FALSE
