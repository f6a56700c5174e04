SPECIFICATION SchedSpec
CONSTANTS
  Fd = {d1}
  MaxFiber = 2
  MaxSem = 1
  UInt64Max = 1
  MaxTime = 2
  PollMax = 1
  IntHalf = 2
  EvCountMax = 1
INVARIANT ReadyAtOnce
