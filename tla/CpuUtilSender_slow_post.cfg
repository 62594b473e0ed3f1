SPECIFICATION Spec
CONSTANTS
  Samples <- AllSamples
  Word = 256
  MaxDur = 4
  Kubectls = {}
  Faults = FALSE
  Crashes = FALSE
  OtherPatches = {}
PROPERTY DurationIsSeconds
