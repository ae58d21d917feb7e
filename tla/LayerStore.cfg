CONSTANTS
  l1 = l1
  l2 = l2
  n1 = n1
  n2 = n2
  n3 = n3
  Procs = {p1, p2}
  Layers = {l1, l2}
  Names = {n1, n2, n3}
  LayersOf <- Overlapping
  NoMount = NoMount
  MaxOperations = 4
  Total = 5
  ChunkSize = 2
  MaxConcurrent = 2
  HashGiven = TRUE
  NoDest = NoDest
  Threads = {t1, t2, t3}
  MaxAccesses = 2
SPECIFICATION VirtualSpec
INVARIANTS MountsWhole FilledByOne DownloadsGood MissesExplained
SYMMETRY Symmetry
