SPECIFICATION Spec
CONSTANTS
  Amplitudes <- MCAmplitudes
  Gains <- MCGains
  Thresholds <- MCThresholds
  Modes <- MCModes
  Sizes <- MCSizes
  MaxBlocks = 3
  MaxBehind = 1
  MaxCommands = 2
CHECK_DEADLOCK FALSE
INVARIANTS
  TypeOK
  WantedChannelSelected
  PcmKeepsRate
  SquelchFollowsAntenna
