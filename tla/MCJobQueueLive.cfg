SPECIFICATION FairSpec
CONSTANTS
  j1 = j1  j2 = j2  j3 = j3
  w1 = w1  w2 = w2
  t1 = t1  t2 = t2  t3 = t3
  writerLane = writerLane  resolverLane = resolverLane
  Job = {j1, j2}
  Lane = {writerLane, resolverLane}
  Worker = {w1}
  Token = {t1, t2}
  LaneOf <- LaneEach
  ResolveLane = resolverLane
  NoJob = NoJob  NoWorker = NoWorker  NoToken = NoToken
  LeaseDuration = 1
  ClockLag = 0
  ClockLead = 0
  MaxDelay = 1
  AttemptCap = 1
  MaxCommands = 0
  Requests <- Mixed
PROPERTIES
  DesertedLaneIsRecovered
  OutdatedJobIsSwept
