SPECIFICATION FairSpec
CONSTANTS
  s1 = s1
  s2 = s2
  c1 = c1
  Servers <- AllServers
  SystemServers <- SystemServer
  FiftyMs <- SystemServer
  Cgroups <- AllCgroups
  MapSize = 2
  RingSize = 2
  MaxEvents = 3
  Faults = TRUE
  Signals = TRUE
INVARIANT TypeOK
INVARIANT PrintedInOrder
INVARIANT NoneMissedSinceAttach
PROPERTY EventsPrinted
PROPERTY StopsOnSignal
PROPERTY ImplementsLog
