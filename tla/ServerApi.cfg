CONSTANTS
  Clients = {c1, c2}
  Kinds = {"packages", "build", "exec"}
  LimitOf <- Limits
  Window = 2
  MaxKeys = 1
  Requests = {q1, q2, q3, q4, q5}
  Builds = {b1}
  MaxListed = 2
SPECIFICATION ServerSpec
INVARIANTS LimitsKept QueuedIsListed
PROPERTY PruneWorks
SYMMETRY Symmetry
