SPECIFICATION MCNetSpec
CONSTANTS
  Fd = {d1, d2}
  MaxFiber = 2
  MaxSem = 0
  UInt64Max = 0
  MaxTime = 1
  PollMax = 1
  IntHalf = 4
  EvCountMax = 1
  Cap = 1
  MaxWrite = 1
  MaxSeq = 2
  MaxOpen = 2
  TimeoutMs <- AnyTimeout
SYMMETRY Fds
INVARIANTS
  NoLostIoWakeUp
  ValidMeansCurrent
  ActsOnItsSocket
  NoFdLeak
PROPERTIES
  NoSpuriousIoWakeUp
  ConnectsEstablished
