SPECIFICATION FairSpec
CONSTANTS
  s1 = s1
  s2 = s2
  c1 = c1
  c2 = c2
  g = g
  Servers <- OneServer
  SystemServers <- None
  FiftyMs <- None
  Cgroups <- TwoContainers
  Containers <- TwoContainers
  NoEvent = NoEvent
  MapSize = 1
  RingSize = 1
  MaxEvents = 1
  Removals = TRUE
  Faults = FALSE
  Signals = TRUE
PROPERTY StatisticsSaved
CHECK_DEADLOCK FALSE
