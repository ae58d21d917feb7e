CONSTANTS
  Devices = {local}
  Local = local
  Socks = {s1}
  NoSock = NoSock
  NoTask = NoTask
  Beat = Beat
  Send = Send
  Interval = 1
  Misses = 1
  Sessions = {c1}
  NoSession = NoSession
  Calls = {k1, k2}
  Callers = {k1, k2}
  Threshold = 2
  ResetTimeout = 1
  MaxRetries = 2
  BaseDelay = 1
  MaxDelay = 3
  Factor = 2
SPECIFICATION RemoteSpec
INVARIANT BreakerSafe
PROPERTIES ImplementsCalls EveryCallReturns ClosedIsNoticed ChainEnds
