CONSTANTS
  Procs = {p1}
  Pkgs = {g1, g2}
  NoPkg = NoPkg
  Preferred = {g1}
  Renamed = {}
  Dotted = {}
  Debug = TRUE
SPECIFICATION InstallSpec
INVARIANT OfflineStaysLocal
