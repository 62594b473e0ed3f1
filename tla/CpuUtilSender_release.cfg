SPECIFICATION FairSpec
CONSTANTS
  Samples <- EdgeSamples
  Word = 256
  MaxDur = 2
  Kubectls = {k1}
  Faults = TRUE
  Crashes = TRUE
  OtherPatches <- MarkBusyOrIdle
INVARIANT TypeOK
INVARIANT NoEarlyRelease
INVARIANT DurationNotOvercounted
PROPERTY BusyAnnounced
