SPECIFICATION Spec
CONSTANTS
  Reports = {r1, r2}
  Processes = {p1, p2}
  None = None
  MaxFaults = 0
INVARIANT
  FailedReportsAreKept
