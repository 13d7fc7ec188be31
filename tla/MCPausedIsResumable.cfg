SPECIFICATION Spec
CONSTANTS
  j1 = j1  j2 = j2  j3 = j3
  w1 = w1  w2 = w2
  t1 = t1  t2 = t2  t3 = t3
  writerLane = writerLane  resolverLane = resolverLane
  Job = {j1, j2}
  Lane = {writerLane}
  Worker = {w1}
  Token = {t1, t2}
  LaneOf <- OneLane
  ResolveLane = resolverLane
  NoJob = NoJob  NoWorker = NoWorker  NoToken = NoToken
  LeaseDuration = 1
  ClockLag = 0
  ClockLead = 0
  MaxDelay = 0
  AttemptCap = 2
  MaxCommands = 1
  Requests <- Manual
SYMMETRY JobSymmetry
INVARIANT
  PausedIsResumable
