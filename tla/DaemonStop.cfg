CONSTANTS
  Daemons = {p1}
  Commands = {c1}
  NoPid = NoPid
  Torn = Torn
  MaxBackoff = 2
SPECIFICATION DaemonSpec
PROPERTY StopEnds
CHECK_DEADLOCK FALSE
