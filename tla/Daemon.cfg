CONSTANTS
  Daemons = {p1, p2}
  Commands = {c1, c2}
  NoPid = NoPid
  Torn = Torn
  MaxBackoff = 2
SPECIFICATION DaemonSpec
INVARIANT RunningIsFound
PROPERTIES StopEndsConnected Reconnects
CHECK_DEADLOCK FALSE
