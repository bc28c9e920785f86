CONSTANTS
  p1 = p1
  p2 = p2
  c1 = c1
  c2 = c2
  e1 = e1
  e2 = e2
  NULL = NULL
  numberOfEntries = 3
  Producers <- MCProducers
  Consumers <- MCConsumers
  Entries <- MCEntries
SPECIFICATION FairSpec
INVARIANTS
  TypeOK
  NoLostWakeup
PROPERTIES
  ImplementsFlushFifo
  DequeueReturns
