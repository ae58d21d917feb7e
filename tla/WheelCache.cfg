CONSTANTS
  k1 = k1
  k2 = k2
  k3 = k3
  f1 = f1
  f2 = f2
  f3 = f3
  Procs = {p1, p2}
  Keys = {k1, k2, k3}
  Layers = {k2, k3}
  Paths = {f1, f2, f3}
  PathOf <- PathsOfKeys
  SizeOf <- SizesOfPaths
  Contents = {a, b, Dir}
  Dir = Dir
  NoFile = NoFile
  MaxSize = 8
  TTL = 3
  Interval = 2
  Nap = 1
  MaxRequest = 1
  NoMeta = NoMeta
  Terminals = {"t1", "t2"}
  Urls = {"default", "env", "quoted"}
  Quoting = {"quoted"}
  DefaultUrl = "default"
  Other = {"30", "60", "2.5"}
  DefaultOther = "30"
  Fractions = {"2.5"}
  EnvUrl <- UrlVariable
  EnvOffline <- OfflineVariable
  Unset = Unset
SPECIFICATION DeviceSpec
INVARIANTS IndexBounded CacheAgrees MetadataFresh LoopKeepsTime SettingKept
SYMMETRY Symmetry
