SPECIFICATION Spec
CONSTANTS
  p1 = p1
  p2 = p2
  c1 = c1
  c2 = c2
  AllCPUs = AllCPUs
  NoContainer = NoContainer
  NoRequest = NoRequest
  Pods = {p1, p2}
  Containers = {c1, c2}
  PodOf <- PodOfEach
  CPUs = {0}
  Handlers = {h1, h2}
  Requests <- OrderedRequests
  DefaultPeriod = 4
  GlobalRTPeriod = 10
  GlobalRTRuntime = 9
  RootPeriod = 6
  Faults = TRUE
  MultiReadFaults = FALSE
  Crashes = TRUE
  Serialized = TRUE
  PeriodAtRest = TRUE
INVARIANT LimitsNested
INVARIANT BandwidthNested
PROPERTY SuccessMeansApplied
PROPERTY ImplementsNestedLimits
