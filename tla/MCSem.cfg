SPECIFICATION SemFairSpec
CONSTANTS
  Fd = {}
  MaxFiber = 3
  MaxSem = 1
  UInt64Max = 2
  MaxTime = 1
  PollMax = 1
  IntHalf = 4
  EvCountMax = 1
  TimeoutMs <- AnyTimeout
INVARIANTS
  AcquirerAccounting
  AssertionsHold
  AcquirerTakesAll
PROPERTIES
  NoBarging
  AbsSemSpec
  AcquireReturns
  AcquirerServed
