CONSTANTS
  NumberOfMessages = 3
  BufferSize = 2
  BufferLengths <- MCBufferLengths
  NoMessage = NoMessage
  MaxBlocks = 5
SPECIFICATION FairSpec
INVARIANTS
  TypeOK
  NoLossBelowCapacity
  NoOverwriteInUse
PROPERTIES
  DeliveredExactlyOnce
  ConsumerMakesProgress
