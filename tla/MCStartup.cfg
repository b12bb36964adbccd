CONSTANTS
  Instances = {i1, i2, i3}
  Free = Free
  CanCrash = TRUE
SPECIFICATION FairSpec
INVARIANTS OneService
PROPERTIES StartSettles SpawnEndsWithService
