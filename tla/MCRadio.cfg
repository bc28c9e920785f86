CONSTANTS
  t1 = t1
  t2 = t2
  Tuners <- MCTuners
  ReadSizes <- MCReadSizes
  Modulus = 2
  MaxOpens = 3
SPECIFICATION FairSpec
INVARIANTS
  TypeOK
  ReadOutlivedByDevice
  NoDanglingSet
  ReceiverConsistent
  AgcOnlyWhileReceiving
PROPERTIES
  DeliveredInItsSession
  StopCompletes
  ExitHonouredOnceRunning
