SPECIFICATION SemSpec
CONSTANTS
  Fd = {}
  MaxFiber = 2
  MaxSem = 1
  UInt64Max = 2
  MaxTime = 2
  PollMax = 1
  IntHalf = 4
  EvCountMax = 1
  TimeoutMs <- AnyTimeout
INVARIANT AcquirerIsAcquiring
