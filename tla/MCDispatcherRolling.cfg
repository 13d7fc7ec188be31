SPECIFICATION DispatcherSpec
CONSTANTS
  p1 = p1  p2 = p2
  w1 = w1  w2 = w2
  j1 = j1  j2 = j2
  t1 = t1  t2 = t2  t3 = t3
  lane = lane  otherLane = otherLane
  Process = {p1, p2}
  WorkerOf <- SameId
  MaxFaults = 0
  MaxStops = 1
  Job = {j1}
  Lane = {lane}
  Worker = {w1}
  Token = {t1, t2, t3}
  LaneOf <- OneLane
  ResolveLane = otherLane
  NoJob = NoJob  NoWorker = NoWorker  NoToken = NoToken
  LeaseDuration = 2
  ClockLag = 0
  ClockLead = 1
  MaxDelay = 0
  AttemptCap = 2
  MaxCommands = 0
  Requests <- Once
SYMMETRY Symmetry
INVARIANTS
  RunningJobIsHeld
