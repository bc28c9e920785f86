SPECIFICATION Spec
CONSTANTS
  Dongles <- MCDongles
  Frequencies <- MCFrequencies
  Rates <- MCRates
  Bandwidths <- MCBandwidths
  Gains <- MCGains
  IfGains <- MCIfGains
  Warps <- MCWarps
  Faults <- MCFaults
  MaxFaults = 1
  MaxCalls = 5
INVARIANTS
  TypeOK
  AttributesApplied
  Centred
  TunerIsReached
  DirectBelow24MHz
