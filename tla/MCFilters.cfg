SPECIFICATION Spec
CONSTANTS
  Designs <- MCDesigns
  Samples <- MCSamples
  MaxFed = 6
  Gains <- MCGains
  Receptions <- MCReceptions
INVARIANTS
  OutputMatchesDefinition
  DetectorsFollowSignal
