SPECIFICATION FairSpec
CONSTANTS
  Reports = {r1}
  Processes = {p1, p2}
  None = None
  MaxFaults = 1
INVARIANTS
  OneUploader
  StoredReportsAreKept
  AttemptsAreBounded
  RepositoryOutlivesUsers
PROPERTIES
  FilesLeave
  ShutdownReturns
