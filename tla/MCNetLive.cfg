SPECIFICATION NetFairSpec
CONSTANTS
  Fd = {d1}
  MaxFiber = 2
  MaxSem = 0
  UInt64Max = 0
  MaxTime = 1
  PollMax = 1
  IntHalf = 4
  EvCountMax = 1
  Cap = 1
  MaxWrite = 2
  MaxSeq = 1
  MaxOpen = 1
  TimeoutMs <- AnyTimeout
PROPERTIES
  IoReturns
  ReadyIoServed
