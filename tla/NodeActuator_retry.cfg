SPECIFICATION FairSpec
CONSTANTS
  p1 = p1
  p2 = p2
  c1 = c1
  c2 = c2
  AllCPUs = AllCPUs
  NoContainer = NoContainer
  NoRequest = NoRequest
  Pods = {p1}
  Containers = {c1}
  PodOf <- PodOfOne
  CPUs = {0}
  Handlers = {h1, h2}
  Requests <- RetriedRequests
  DefaultPeriod = 4
  GlobalRTPeriod = 10
  GlobalRTRuntime = 9
  RootPeriod = 6
  Faults = TRUE
  MultiReadFaults = TRUE
  Crashes = TRUE
  Serialized = FALSE
  PeriodAtRest = FALSE
PROPERTY RetryConverges
PROPERTY Answered
