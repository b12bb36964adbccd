CONSTANTS
  t1 = t1  t2 = t2  i1 = i1  i2 = i2  i3 = i3
  None = None
  Threads = {t1, t2}
  Ids = {i1, i2, i3}
  Frames <- MCFrames
  ShardOf <- MCShardOf
  kMaxNumFrames = 3
  MaxFrames = 2
  HeaderSize = 1
  DataSize = 5
  MaxRefCount = 3
  MaxHeld <- MCMaxHeld
  MaxPages = 2
  Modulus = 2
SPECIFICATION Spec
SYMMETRY Symmetry
INVARIANTS ReferencedStacksAreIntact CapturesAreConserved StorageStatisticsAreExact
PROPERTY RefCountsMatch
