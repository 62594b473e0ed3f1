SPECIFICATION FairSpec
CONSTANTS
  s1 = s1
  s2 = s2
  c1 = c1
  c2 = c2
  g = g
  Servers <- OneServer
  SystemServers <- None
  FiftyMs <- None
  Cgroups <- OneAndAnother
  Containers <- OneContainer
  NoEvent = NoEvent
  MapSize = 1
  RingSize = 2
  MaxEvents = 3
  Removals = TRUE
  Faults = TRUE
  Signals = TRUE
PROPERTY Delivered
PROPERTY ImplementsLog
CHECK_DEADLOCK FALSE
