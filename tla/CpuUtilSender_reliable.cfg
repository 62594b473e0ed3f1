SPECIFICATION FairSpec
CONSTANTS
  Samples <- AllSamples
  Word = 256
  MaxDur = 1
  Kubectls = {}
  Faults = FALSE
  Crashes = FALSE
  OtherPatches = {}
INVARIANT BusyRemembered
INVARIANT MarkCurrent
PROPERTY BusyCleared
