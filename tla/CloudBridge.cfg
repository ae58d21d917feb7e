CONSTANTS
  Devices = {local}
  Local = local
  Socks = {s1, s2}
  NoSock = NoSock
  NoTask = NoTask
  Beat = Beat
  Send = Send
  Interval = 1
  Misses = 1
  Sessions = {c1}
  NoSession = NoSession
  Calls = {k1, k2}
SPECIFICATION BridgeSafety
INVARIANT BridgeSafe
SYMMETRY Symmetry
