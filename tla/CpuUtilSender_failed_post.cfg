SPECIFICATION FairSpec
CONSTANTS
  Samples <- TwoSamples
  Word = 256
  MaxDur = 1
  Kubectls = {}
  Faults = TRUE
  Crashes = FALSE
  OtherPatches = {}
PROPERTY BusyCleared
