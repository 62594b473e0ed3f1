SPECIFICATION Spec
CONSTANTS
  s1 = s1
  s2 = s2
  c1 = c1
  c2 = c2
  g = g
  Servers <- TwoServers
  SystemServers <- SystemServer
  FiftyMs <- TwoServers
  Cgroups <- TwoContainers
  Containers <- TwoContainers
  NoEvent = NoEvent
  MapSize = 1
  RingSize = 1
  MaxEvents = 2
  Removals = TRUE
  Faults = TRUE
  Signals = TRUE
INVARIANT NoneMissed
CHECK_DEADLOCK FALSE
