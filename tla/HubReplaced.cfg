CONSTANTS
  Devices = {d1}
  Socks = {s1, s2}
  NoSock = NoSock
  NoTask = NoTask
  Beat = Beat
  Send = Send
  Interval = 1
  Misses = 1
SPECIFICATION HubSafety
PROPERTY ReplacementStays
