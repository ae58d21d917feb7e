CONSTANTS
  r1 = r1
  r2 = r2
  r3 = r3
  f1 = f1
  f2 = f2
  f3 = f3
  Requests = {r1, r2, r3}
  Workers = {w1, w2}
  NoReq = NoReq
  MaxPriority = 3
  NoWheel = NoWheel
  Wheels = {f1, f2, f3}
  WheelOf <- MCWheelOf
  GlobOf <- MCGlobOf
  Jobs = {"j1", "j2", "j3"}
  MethodOf <- JobMethod
  ModeOf <- JobMode
  MaxThreads = 2
SPECIFICATION WorkSpec
INVARIANTS RequestsKept NoOrphanContainer
PROPERTIES ImplementsBoard NoStarvation JobReturns
CHECK_DEADLOCK FALSE
