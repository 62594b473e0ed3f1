SPECIFICATION Spec
CONSTANTS
  p1 = p1
  p2 = p2
  c1 = c1
  c2 = c2
  AllCPUs = AllCPUs
  NoContainer = NoContainer
  NoRequest = NoRequest
  Pods = {p1}
  Containers = {c1}
  PodOf <- PodOfOne
  CPUs = {0, 1}
  Handlers = {h1}
  Requests <- CoreRangeRequests
  DefaultPeriod = 4
  GlobalRTPeriod = 10
  GlobalRTRuntime = 9
  RootPeriod = 6
  Faults = FALSE
  MultiReadFaults = FALSE
  Crashes = FALSE
  Serialized = TRUE
  PeriodAtRest = FALSE
INVARIANT LimitsNested
