CONSTANTS
  MaxGain = 46
  VgaGain <- MCVgaGain
  FullScaleInDb = 42
  InitialGain = 24
  Scale = 5
  Levels <- MCLevels
  Deadbands <- MCDeadbands
  BlankingLimits <- MCBlankingLimits
  OperatingPoints <- MCOperatingPoints
  Alphas <- MCAlphas
  UserGains <- MCUserGains
  InitialDeadband = 1
  InitialBlankingLimit = 1
  InitialOperatingPoint <- MCInitialOperatingPoint
  InitialAlpha = 4
  MaxBehind = 1
  MaxDisturbances = 3
SPECIFICATION FairSpec
INVARIANT TypeOK
PROPERTIES
  NoDoubleCorrection
  StepsTowardsOperatingPoint
  EndsNearOperatingPoint
