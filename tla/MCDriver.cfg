SPECIFICATION DriverSpec
CONSTANTS
  p1 = p1
  p2 = p2
  c1 = c1
  c2 = c2
  Producers = {p1, p2}
  Consumers = {c1, c2}
  Items = {1, 2}
  capacity = 2
  numThreads = 2
  optionWaitToJoin = FALSE
  Capacity = 1
  MaxLemmas = 2
  Finishing = {0}
  d_numThreads = 3
  Statuses = {"success"}
  MaxCommands = 5
INVARIANTS
  NoMissedWakeup
  RaceRight LemmasInOrder
  EnginesInStep
  SameStack
PROPERTIES
  IsFifo WaitingEnds
\* Scripts end; a worker can be left waiting on a full channel.
CHECK_DEADLOCK FALSE
