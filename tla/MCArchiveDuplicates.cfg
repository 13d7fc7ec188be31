SPECIFICATION IntakeSpec
CONSTANTS
  i1 = i1  i2 = i2  i3 = i3  i4 = i4
  j1 = j1  j2 = j2  j3 = j3
  w1 = w1
  t1 = t1  t2 = t2
  resolver = resolver
  u1 = u1  u2 = u2  u3 = u3  x1 = x1
  Item = {i1, i2, i3, i4}
  ItemOf <- Jobs2and1
  UrlOf <- RepeatedUrl
  IdentityOf <- SameWorks
  Capacity = 1
  ResolveRequest <- Resolve
  MaxFaults = 0
  Job = {j1, j2, j3}
  Lane = {resolver}
  Worker = {w1}
  Token = {t1, t2}
  LaneOf <- AllResolve
  ResolveLane = resolver
  NoJob = NoJob  NoWorker = NoWorker  NoToken = NoToken
  LeaseDuration = 1
  ClockLag = 0
  ClockLead = 0
  MaxDelay = 0
  AttemptCap = 2
  MaxCommands = 0
  Requests <- ResolveRequests
CONSTRAINTS FewAttempts OneExecution
SYMMETRY Symmetry
INVARIANT
  DuplicateHasOriginal
