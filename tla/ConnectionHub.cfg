CONSTANTS
  Devices = {d1}
  Socks = {s1, s2}
  NoSock = NoSock
  NoTask = NoTask
  Beat = Beat
  Send = Send
  Interval = 1
  Misses = 3
SPECIFICATION HubSpec
INVARIANT HubSafe
PROPERTIES HandlerCleansUp SilentIsReaped ImplementsRegistry
