CONSTANTS
  t1 = t1  t2 = t2  b1 = b1  b2 = b2  h1 = h1  h2 = h2
  None = None
  Threads = {t1, t2}
  Blocks = {b1, b2}
  ShardingFactor = 2
  ShardOf <- MCShardOf
  SizeOf <- MCSizeOf
  MaxObjectSize = 1
  Modulus = 3
  SlabCount = 2
  RatioNum = 1
  RatioDen = 2
  ProcessHeap = ProcessHeap
  ZebraHeap = ZebraHeap
  CreatedHeaps = {h1, h2}
  Tuners = {t1}
  HeapOf <- MCHeapOf
  QuarantineSizes = {1}
SPECIFICATION Spec
INVARIANT ProtectedIsQuarantined
