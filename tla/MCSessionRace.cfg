CONSTANTS
  t1 = t1  t2 = t2  b1 = b1  b2 = b2  b3 = b3  b4 = b4  r1 = r1  r2 = r2
  NoBuffer = NoBuffer  Empty = Empty  Ended = Ended
  Threads = {t1, t2}
  Buffers = {b1, b2, b3}
  Records = {r1}
  Requests = {0, 4, 5}
  BufferSize = 3
  BlockSize = 2
  EventSize = 1
  NumIncremental = 1
  MaxPending = 1
  Serialized = FALSE
  Failures = {"alloc", "map", "write"}
SPECIFICATION Spec
SYMMETRY Symmetry
INVARIANTS BookkeepingIsConsistent InUseHasOneClient TasksAreDistinct WrittenAtMostOnce
PROPERTIES BufferStatesCycle
