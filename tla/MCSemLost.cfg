SPECIFICATION SemFairSpec
CONSTANTS
  Fd = {}
  MaxFiber = 3
  MaxSem = 1
  UInt64Max = 2
  MaxTime = 0
  PollMax = 1
  IntHalf = 4
  EvCountMax = 1
  TimeoutMs <- NoTimeout
PROPERTY WaiterServed
