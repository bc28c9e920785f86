SPECIFICATION Spec
CONSTANTS
  Sweeps <- MCSweeps
  Word64 = 4096
  Word32 = 4000
  MaxClients = 2
  MaxLines = 2
CHECK_DEADLOCK FALSE
INVARIANT ScannerOutlivesItsNotification
