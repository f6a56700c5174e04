SPECIFICATION DataSpec
CONSTANTS
  Parts = {"err"}
  WBufSz = 3
  RBufSz = 2
  MaxBytes = 6
  MaxRead = 3
  EndBytes <- Ends
  Key = {k1, k2, k3, k4}
  SzMax = 4
  ValueSizes = {1, 2, 4, 5}
  MapKey = {1, 2, 3, 4, 5, 6}
  MapValue = {0, 1}
  MaxList = 13
  Number <- Powers
  Garbage <- Strings
  MaxDue = 2
  Careful = TRUE
  Thread = {t1, t2}
  Name = {n1, n2}
  Obj = {o1, o2}
  Member = {next}
  Null = Null
  NoPlace = NoPlace
  SliceName = {x, y}
  SliceElem = {0, 1}
  Zero = 0
  MaxCap = 3
  Msg = {m1}
  Pos = {p1}
  NoPos = NoPos
  NoText = NoText
  Protector = {q1, q2}
  Errno = {0, 1}
  MaxTrace = 4
  StrName = {s, t}
  BufName = {b}
  Text <- Given
  Nul = 0
  Junk = 9
  ShortMax = 1
  FirstCap = 1
  MaxStr = 2
  Subject <- Lines
  Argument <- Words
  IntMax = 127
  NaN = NaN
  Speed <- Speeds
  Capacity <- Capacities
  Cost <- Costs
  MinSpeed = 1
  MaxSpeed = 3
  DefaultSpeed = 1
  MaxCapacity = 3
  MaxCost = 5
  MaxClock = 3
INVARIANT PushedInFront
