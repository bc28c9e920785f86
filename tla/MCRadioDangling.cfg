CONSTANTS
  t1 = t1
  t2 = t2
  Tuners <- OneTuner
  ReadSizes <- MCReadSizes
  Modulus = 2
  MaxOpens = 2
SPECIFICATION Spec
INVARIANT NoDanglingRead
