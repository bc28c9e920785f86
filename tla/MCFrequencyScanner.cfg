CONSTANTS
  Scans <- MCScans
  Frequencies <- MCFrequencies
  HandTuned <- MCHandTuned
  HomeFrequency = 4
  LowestFrequency = 1
  HighestFrequency = 4
  MaxBehind = 1
  TuningMayFail = TRUE
SPECIFICATION FairSpec
INVARIANTS
  TypeOK
  ScansInRange
PROPERTIES
  EveryFrequencyVisited
