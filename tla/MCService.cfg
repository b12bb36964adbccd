CONSTANTS
  c1 = c1  c2 = c2  p1 = p1  p2 = p2  s1 = s1  s2 = s2  s3 = s3
  Clients = {c1, c2}
  Pids = {p1, p2}
  PidOf <- SharedProcess
  Objects = {s1, s2, s3}
  None = None
  MaxTasks = 1
  MaxFlush = 2
SPECIFICATION FairSpec
INVARIANTS ActiveSessionsAreCounted ReferencesAreAlive HandlesAreOpenSessions StoppedIsDrained OpenSessionsHaveConsumers
PROPERTIES StopReturns ClosedSessionsDie
