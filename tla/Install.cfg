CONSTANTS
  Procs = {p1, p2}
  Pkgs = {g1, g2}
  NoPkg = NoPkg
  Preferred = {g1}
  Renamed = {g1}
  Dotted = {g2}
  Debug = TRUE
  Json <- JsonOf
  Values <- Nested
  Posts <- Posted
  Streams = {"c1", "c2"}
  MaxReceivers = 2
  ChunksOf <- StreamData
  MetaOf <- StreamMeta
  MaxRepeats = 1
  MaxUnderWay = 2
  a1 = a1
  a2 = a2
  a3 = a3
  AgentObjects = {a1, a2, a3}
  CapsOf <- Capabilities
  IdOf <- Identities
  Handling = {a1, a2}
  Pipelines = {q1, q2}
  TaskOf <- PipelineTasks
  NoAgent = NoAgent
  AnyCap = AnyCap
  Containers = {"c1", "c2", "c3", "c4", "c5"}
  Images = {"plain", "gpu"}
  KindOf <- ImageOf
  Warm = "plain"
  Users = {u1, u2}
  NoContainer = NoContainer
  PoolSize = 2
  MaxWarmups = 1
SPECIFICATION PartsSpec
INVARIANTS InstallHonest NothingLostOnWire StreamsWhole PipelinesHonest PoolSafe
PROPERTIES FailsOnlyLocally InstallEnds
