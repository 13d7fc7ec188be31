SPECIFICATION DispatcherSpec
CONSTANTS
  p1 = p1  p2 = p2
  w1 = w1  w2 = w2
  j1 = j1  j2 = j2
  t1 = t1  t2 = t2  t3 = t3
  lane = lane  otherLane = otherLane
  Process = {p1}
  WorkerOf <- SameId
  MaxFaults = 1
  MaxStops = 1
  Job = {j1}
  Lane = {lane}
  Worker = {w1}
  Token = {t1, t2}
  LaneOf <- OneLane
  ResolveLane = otherLane
  NoJob = NoJob  NoWorker = NoWorker  NoToken = NoToken
  LeaseDuration = 1
  ClockLag = 0
  ClockLead = 0
  MaxDelay = 0
  AttemptCap = 3
  MaxCommands = 1
  Requests <- Twice
SYMMETRY Symmetry
INVARIANTS
  DispatcherTypeOK
  RefusalIsExplained
  RunningJobIsHeld
PROPERTIES
  ImplementsJobQueue
