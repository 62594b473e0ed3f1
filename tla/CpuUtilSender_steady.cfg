SPECIFICATION FairSpec
CONSTANTS
  Samples <- TwoSamples
  Word = 256
  MaxDur = 1
  Kubectls = {}
  Faults = FALSE
  Crashes = FALSE
  OtherPatches = {}
PROPERTY UsageAnnounced
